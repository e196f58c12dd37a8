CONSTANTS
  Channels = {k1, k2, own}
  Own = own
  Callers = {c1, c2}
  Nobody = Nobody
  MaxSessions = 2
  MaxSources = 2
SYMMETRY Symmetry
SPECIFICATION Spec
INVARIANTS
  StreamingIsCounted
CHECK_DEADLOCK FALSE
