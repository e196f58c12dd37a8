CONSTANTS
  Calls = {c1}
  HasCredentials = TRUE
  SharedStore = FALSE
  MaxTokens = 2
SPECIFICATION FairSpec
PROPERTY RejectionReachesCaller
CHECK_DEADLOCK FALSE
