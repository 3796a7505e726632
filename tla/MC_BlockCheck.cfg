CONSTANTS
    Blocks <- MCBlocks
    BIP34Height = 2
    BIP66Height = 3
    BIP65Height = 4
    BIP91Height = 1
    Enforce_CSV = 3
    Enforce_UAHF = 2
    Enforce_SEGWIT = 5
    SignalWindow = 2
    TxsBuilt = {FALSE}
SPECIFICATION Spec
INVARIANT AcceptsExactlyValid
