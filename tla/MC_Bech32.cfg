CONSTANTS
    Hrps = {"bc", "tb"}
    WitVers = {0, 1, 16, 17}
    Programs <- MCPrograms
    Addrs <- MCAddrs
SPECIFICATION Spec
INVARIANTS ConvertBitsMatchesReference SegwitRoundTrip DecodeIsCanonical
