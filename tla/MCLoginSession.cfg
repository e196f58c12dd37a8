CONSTANTS
  Calls = {c1, c2}
  HasCredentials = TRUE
  SharedStore = TRUE
  MaxTokens = 2
SPECIFICATION Spec
PROPERTIES
  HonouredTokenKept
  RetryIsReplaced
CHECK_DEADLOCK FALSE
