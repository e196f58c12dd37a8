CONSTANTS
  Stations = {s1}
  Wired = {}
  Nowhere = Nowhere
  Callers = {c1, c2}
  Viewers = {v1, v2}
  MaxEntries = 2
  MaxRetained = 3
SPECIFICATION FairSpec
INVARIANTS
  NoOrphanSession
  CountIsReasons
PROPERTIES
  AutoCloseSparesViewers
  DiscardedEntryFinishes
CHECK_DEADLOCK FALSE
