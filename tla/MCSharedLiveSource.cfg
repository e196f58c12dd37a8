CONSTANTS
  Consumers = {c1, c2, c3}
  StopOnly = {c3}
  Battery = TRUE
SPECIFICATION FairSpec
INVARIANTS
  UserIsCounted
  LiveHasPicture
PROPERTIES
  EndIsTold
  NoSilentHang
CHECK_DEADLOCK FALSE
