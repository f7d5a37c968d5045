SPECIFICATION Spec
CONSTANTS
    P = P
    Q = Q
    p1 = p1
    p2 = p2
    q1 = q1
    u = u
    a = a
    b = b
    c = c
    Projects = {P, Q}
    Releases = {p1, p2, q1}
    UserFiles = {u}
    Dropped = {u, q1}
    Names = {a, b, c}
    ProjectOf <- MCProjectOf
    NameOf <- MCNameOf
    Compositions <- MCCompositions
    ModsOf <- MCModsOf
    FallbackTo <- MCFallbackTo
    MaxAttempts = 4
    MinUseful = 2
    HistoryLimit = 2
    MaxSnapshots = 3
    MaxEdits = 1
    Failures = {"snapshot", "delete", "download", "save", "restore", "crash"}
INVARIANT UserFilesKept
INVARIANT SnapshotsWhole
INVARIANT InstallIsComplete
PROPERTY FailureRestores
CHECK_DEADLOCK FALSE
