CONSTANTS
  Profiles <- MCProfiles
  Reports = 1
  LateEvidence = FALSE
  k1 = k1
  k2 = k2
  own = own
  c1 = c1
  c2 = c2
  p1 = p1
  poll = poll
  list = list
  m1 = m1
  m2 = m2
  Off = Off
  Callers = {c1, c2}
  MaxSessions = 2
  StationChannels = {k1, k2, own}
  Own = own
  MaxSources = 2
  Space = 16
  Lookback = 8
  Depth = 3
  Parts = 2
  Repeats = 3
  PlainRestart = TRUE
  MaxDatagrams = 36
  MaxSockets = 4
  MaxLoginFailures = 3
  MaxIds = 1
  MaxLogins = 4
  MaxBinds = 2
  Params = {p1}
  ParamValues = {0, 1}
  Fetchers = {poll, list}
  Poll = poll
  MaxChanges = 3
  MaxSends = 2
  MaxMessages = 3
  MaxDoorMoves = 3
  MaxStarts = 1
  Commands = {"command"}
  Locks = {"front", "back"}
  KeyTime <- MCKeyTime
  MaxNonce = 1
  MaxSeconds = 2
  MaxOwnerMoves = 1
  Instances = 2
  MaxAir = 2
  PieceKinds = {"plane", "outline"}
  Maps = {m1, m2}
  Nameless = {{}, {"plane", "outline"}}
  MaxRevision = 1
  MaxFrames = 3
SYMMETRY Symmetry
SPECIFICATION MCSpec
INVARIANTS
  OneCameraServed
  PullsAreReachable
  FramesIntact
  PushUpOrClosed
  LoginIsShared
  DerivedFollows
  CommandsAreHonest
  LockTruth
  MapIsCoherent
  NewestIsKept
  ToldIsLatest
  SurfaceReads
  SurfaceWrites
CHECK_DEADLOCK FALSE
