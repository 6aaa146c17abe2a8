SPECIFICATION AccountsSpec
CHECK_DEADLOCK FALSE
CONSTANTS
  AccountRows = {a1, a2}
  Requesters = {w1, w2}
  Comparisons = {"written"}
  MaxVersions = 2
  MaxCommitFailures = 1
INVARIANT
  BoundRoutesAreReady
