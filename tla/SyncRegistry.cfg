SPECIFICATION Spec
CONSTANTS
  Threads = {t1, t2, t3}
  EventLoop = t1
  Nobody = nobody
  StopPolicy = "AfterChangesUploaded"
  MaxSessions = 2
INVARIANTS TypeOK ReferencedIsListed LogInAndOutReachIt StandstillsKnown
CHECK_DEADLOCK FALSE
