CONSTANTS
  Consumers = {c1, c2}
  StopOnly = {}
  Battery = FALSE
SPECIFICATION Spec
PROPERTY StartFailureIsTrue
CHECK_DEADLOCK FALSE
