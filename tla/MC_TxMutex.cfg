CONSTANTS
    x1 = x1  x2 = x2
    Txids = {x1, x2}
    BadTxid = BadTxid
    NetProcs = {n1}
    n1 = n1
SPECIFICATION Spec
PROPERTIES CommandsReturn
\* A fatal "unlock of unlocked mutex" ends the process: a crashed state
\* has no successor.
CHECK_DEADLOCK FALSE
