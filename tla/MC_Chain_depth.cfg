CONSTANTS
    Genesis = Genesis
    a1 = a1  a2 = a2  a3 = a3  a4 = a4
    b2 = b2  b3 = b3  b4 = b4  b5 = b5
    c2 = c2  c3 = c3
    Blocks <- MCBlocks
    Parent <- MCParent
    TxVerdict <- MCTxVerdict
    MovingCheckopintDepth = 2
    UnwindBufLen = 1
    LknownAhead = {0}
SPECIFICATION Spec
INVARIANT ReorgWithinCheckpoint
