SPECIFICATION Spec
CONSTANTS
    P = P  Q = Q  p1 = p1  p2 = p2  q1 = q1  u = u  a = a  b = b
    Projects = {P, Q}
    Releases = {p1, p2, q1}
    UserFiles = {u}
    Names = {a, b}
    ProjectOf <- MCProjectOf
    NameOf <- MCNameOf
    Needs <- MCNeeds
    Failures = {"download", "apply", "remove", "save", "crash"}
    InFlight = {"create"}
    MaxEdits = 1
INVARIANTS
    UserFilesKept
    CommitIsComplete
    NeedsKept
PROPERTIES
    FailuresRollBack
