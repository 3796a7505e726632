CONSTANTS
    N = 3
    None = None
SPECIFICATION Spec
INVARIANTS
    TypeOK
    ResultCorrect
