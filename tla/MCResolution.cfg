SPECIFICATION Spec
CONSTANTS
    Field = {"a", "b"}
    Value <- MCValue
    Source = {"s1", "s2"}
    Bundle <- MCBundle
    Worlds <- MCWorlds
    MaxMoves = 2
    MaxCases = 1
INVARIANTS
    TypeOK
    ApprovedBacked
    VerifierExact
    WorkflowsRelease
CHECK_DEADLOCK FALSE
