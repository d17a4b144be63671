SPECIFICATION Spec
CONSTANTS
  Threads = {t1, t2}
  Callbacks = {c1}
  StopPolicy = "AfterChangesUploaded"
  ResyncMode = "Manual"
  MaxSessions = 2
  MaxDeaths = 2
  MaxCommits = 0
  MaxErrors = 1
INVARIANTS TypeOK CallbacksAccounted WaitersWatched DyingWatched
PROPERTIES OldWatchHarmless
SYMMETRY Interchangeable
CHECK_DEADLOCK FALSE
