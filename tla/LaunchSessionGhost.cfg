SPECIFICATION Spec
CONSTANTS
    s1 = s1
    s2 = s2
    Sessions = {s1}
    Recoverable = FALSE
    LineKinds <- GameSpeaks
    ExitCodes <- EndsBadly
    Requests <- NoRequests
CHECK_DEADLOCK FALSE
INVARIANTS
    NoGhostSession
