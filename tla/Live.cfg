CONSTANTS
  HighWater = 2
  IdleTimeout = 3
  MaxFrames = 2
  MaxJobs = 2
  MaxLate = 2
  Off = Off
  LiveChannels = {ch1, ch2}
  KeyCallers = {caller}
  MaxStarts = 2
  StartSends = 2
  MaxAudio = 1
  AudioMaxSends = 2
  StateParams = {observed}
  StateValues = {0, 1}
  Observed = observed
  ObservedWrites = {w1, w2}
  Rereads = {e1}
  MaxEpochs = 1
  SomeWrite = w1
SPECIFICATION LiveSpec
INVARIANTS
  FeedNeverAhead
  KeysFollowConnection
  StartedIsHeard
  ListeningIsWatched
  WritesInTurn
PROPERTIES
  HeldWriterResumes
  DeclaredEndIsAnswered
  StartsResolve
  WritesEnd
  CallsEnd
CHECK_DEADLOCK FALSE
