CONSTANTS
  Scopes = {s1}
  InitScopes = {s1}
  MaxEpoch = 1
  MaxStarts = 2
  MaxPolls = 1
SPECIFICATION Spec
PROPERTY OnlyHostReconnects
CHECK_DEADLOCK FALSE
