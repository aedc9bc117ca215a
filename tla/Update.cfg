CONSTANTS
  Builds = {old, good, bad}
  Starts = {old, good}
  Installed = old
  Torn = Torn
  None = None
  MaxAttempts = 4
  MaxPolls = 10
  Interrupted = TRUE
  RollbackFails = TRUE
  old = old
  good = good
  bad = bad
SPECIFICATION Spec
INVARIANTS NeverTorn UpdateKeepsStartable SuccessIsTrue
