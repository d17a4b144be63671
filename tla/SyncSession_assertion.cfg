SPECIFICATION Spec
CONSTANTS
  Threads = {t1}
  Callbacks = {c1}
  StopPolicy = "AfterChangesUploaded"
  ResyncMode = "Manual"
  MaxSessions = 1
  MaxDeaths = 1
  MaxCommits = 0
  MaxErrors = 1
INVARIANTS NoAssertionFails
CHECK_DEADLOCK FALSE
