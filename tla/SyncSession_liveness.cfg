SPECIFICATION FairSpec
CONSTANTS
  Threads = {t1}
  Callbacks = {c1}
  StopPolicy = "AfterChangesUploaded"
  ResyncMode = "DiscardLocal"
  MaxSessions = 2
  MaxDeaths = 1
  MaxCommits = 1
  MaxErrors = 1
INVARIANTS CommitsAnnounced
PROPERTIES CalledAtMostOnce DyingEnds WaitersAnswered
CHECK_DEADLOCK FALSE
