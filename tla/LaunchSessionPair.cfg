SPECIFICATION Spec
CONSTANTS
    s1 = s1
    s2 = s2
    Sessions = {s1, s2}
    Recoverable = FALSE
    LineKinds <- GameSpeaks
    ExitCodes <- EndsBadly
    Requests <- OnlyEdits
PROPERTIES
    ExclusiveUse
