SPECIFICATION MutualSpec
CONSTANTS
    Member = {m1, m2, m3}
    Deposits = {2, 3}
    Claims = {1, 2, 5}
    Precision = 16
    Nobody = Nobody
    MaxCalls = 6
INVARIANTS
    MutualTypeOK
    SharesProRata
    BorneWithinContribution
    SolventUntilRemoval
CHECK_DEADLOCK FALSE
