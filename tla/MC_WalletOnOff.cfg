CONSTANTS
    o1 = o1  o2 = o2  o3 = o3
    Outs = {o1, o2, o3}
    Relevant = {o1, o2}
SPECIFICATION Spec
INVARIANT WalletConsistent
