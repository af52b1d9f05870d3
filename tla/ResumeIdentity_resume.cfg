SPECIFICATION Spec
CONSTANTS
  Reps <- MCReps
  Size <- MCSize
  Envs <- MCEnvs
  MaxChanges = 2
  MaxRuns = 2
  Attempts = 3
  MaxCrashes = 1
INVARIANTS TypeOK TrustedNeverMixed TrustedAcceptsWhole ValidatorSavedFirst
CHECK_DEADLOCK FALSE
