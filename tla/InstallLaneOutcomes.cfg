CONSTANTS
  v1 = v1
  Versions = {v1}
  Contents = {c1}
  Setups = {s1}
  Base <- MCBase
  Callers = {a}
  MaxEntries = 3
  MaxOutcomes = 1
  Disconnects = FALSE
SPECIFICATION Spec
INVARIANTS DependentAfterBase OutcomeFaithful
PROPERTIES ReferencedNeverEvicted
CHECK_DEADLOCK FALSE
