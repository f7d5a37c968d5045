SPECIFICATION FairSpec
CONSTANTS
    s1 = s1
    s2 = s2
    Sessions = {s1}
    Recoverable = FALSE
    LineKinds <- GamePrintsAnything
    ExitCodes <- EndsAnyhow
    Requests <- StopsAndEdits
INVARIANTS
    EndedMeansDead
    VerdictIsTrue
PROPERTIES
    UnbootedSessionEnds
