CONSTANTS
    Readers = {r1, r2}
    NoOne = NoOne
    Limit = 3
    BufLen = 2
    MaxChunk = 1
    MsValues = {500, 999}
    ClockSteps = {1, 2}
    MaxSec = 2
    RingLen = 4
    AvgCnt = 2
SPECIFICATION Spec
INVARIANTS OvershootBounded RingHoldsAllBytes
PROPERTIES ReadsReturn
