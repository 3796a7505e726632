CONSTANTS
    o1 = o1  o2 = o2  o3 = o3  o4 = o4  t1 = t1
    Outs = {o1, o2, o3, o4}
    Held = {o1, o2}
    Bad = Bad
    Keyed = {o1, o2, o3}
    Txs = {t1}
    TxOuts <- MCTxOuts
    MaxRuns = 2
SPECIFICATION Spec
INVARIANT FileKeepsUnspent
CHECK_DEADLOCK FALSE
