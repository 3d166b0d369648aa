SPECIFICATION Spec
CONSTANTS
    Owed = {1, 3}
    OtherOwed = 1
    Coverage = 2
    Balance = {4}
    Reserve = 1
    MaxIssues = 2
    ExpectedCount = 1
    MaxAge = 2
    MaxCertificates = 2
    MaxDays = 5
INVARIANTS
    TypeOK
    AcceptedWhole
    VerifiedBacked
    SilenceHeard
CHECK_DEADLOCK FALSE
