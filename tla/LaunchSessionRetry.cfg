SPECIFICATION Spec
CONSTANTS
    s1 = s1
    s2 = s2
    Sessions = {s1}
    Recoverable = TRUE
    LineKinds <- GamePrints
    ExitCodes <- EndsBadly
    Requests <- OnlyStops
INVARIANTS
    OneGamePerSession
    GameIsSupervised
PROPERTIES
    VerdictStands
