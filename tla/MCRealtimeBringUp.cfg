CONSTANTS
  Scopes = {s1}
  InitScopes = {s1}
  MaxEpoch = 1
  MaxStarts = 2
  MaxPolls = 1
SPECIFICATION FairSpec
INVARIANTS
  NoStrandedTransport
  ChannelsAreCurrent
PROPERTIES
  ReadyIsTrue
  BringUpEnds
CHECK_DEADLOCK FALSE
