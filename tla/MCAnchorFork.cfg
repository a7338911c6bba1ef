\* The host starts an enclave while another runs.
SPECIFICATION Spec
CONSTANTS
    Writes = {w1, w2}
    MaxGen = 1
    MaxTxg = 5
    MinSeq = 0
    Overlap = TRUE
SYMMETRY Symmetric
INVARIANTS
    AdmittedKeepsAcked
CHECK_DEADLOCK FALSE
