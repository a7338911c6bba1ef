SPECIFICATION Spec
CONSTANTS
    Writes = {w1, w2}
    MaxGen = 2
    MaxTxg = 5
    MinSeq = 0
    Overlap = FALSE
SYMMETRY Symmetric
INVARIANTS
    ChainHolds
    AdmittedKeepsAcked
PROPERTIES
    ImplementsDurableStore
CHECK_DEADLOCK FALSE
