CONSTANTS
  Profiles <- MCProfiles
  Reports = 1
  LateEvidence = TRUE
SPECIFICATION Spec
CHECK_DEADLOCK FALSE
INVARIANTS
  GettersAreTrue
