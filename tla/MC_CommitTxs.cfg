CONSTANTS
    s1 = s1
    s2 = s2
    s3 = s3
    t1 = t1
    t2 = t2
    t3 = t3
    Nil = Nil
    Store <- MCStore
    Blocks <- MCBlocks
    BlTrusted = {FALSE}
    Height = 3
    LastKnownHeights = {3, 5}
    UnwindBufLen = 1
    COINBASE_MATURITY = 2
    Reward = 1
    MaxSigops = 15
    WITNESS_SCALE_FACTOR = 4
    LegacySigops = 1
    InputSigops = 1
SPECIFICATION Spec
INVARIANTS
    TypeOK
    NoInflation
    UndoRevertsCommit
PROPERTIES
    CommitTxsRefinement
