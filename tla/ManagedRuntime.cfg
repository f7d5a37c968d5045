SPECIFICATION FairSpec
CONSTANTS
    l1 = l1
    l2 = l2
    p1 = p1
    Nobody = Nobody
    Launches = {l1, l2}
    Pipelines = {p1}
    Files = {"java"}
    Java = "java"
    MaxMishaps = 1
    MaxCrashes = 1
INVARIANTS
    RuntimeKept
    LeftoversHarmless
PROPERTIES
    EveryRequestEnds
CHECK_DEADLOCK FALSE
