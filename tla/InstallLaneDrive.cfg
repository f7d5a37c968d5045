CONSTANTS
  v1 = v1
  Versions = {v1}
  Contents = {}
  Setups = {s1}
  Base <- MCBase
  Callers = {a, b}
  MaxEntries = 2
  MaxOutcomes = 1
  Disconnects = TRUE
SPECIFICATION FairSpec
INVARIANTS LaneExclusive LaneOwned FailedSetupCleanedUp
PROPERTIES UsedInstanceKept KeepsPromise EveryEntryLeaves
CHECK_DEADLOCK FALSE
