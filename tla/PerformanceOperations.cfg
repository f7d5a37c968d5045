SPECIFICATION FairSpec
CONSTANTS
    i1 = i1
    i2 = i2
    Instances = {i1, i2}
    MaxOps = 2
    ResumeLimit = 1
    MaxCrashes = 2
    MaxLost = 1
INVARIANTS
    OncePerLife
    ProofAgrees
PROPERTIES
    KeepsLedger
    RecordedIsFinal
    EveryOperationEnds
CHECK_DEADLOCK FALSE
