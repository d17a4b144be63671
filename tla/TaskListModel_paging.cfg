\* Five pages, the last one short; overlapping and lost requests.
CONSTANTS
  t1 = t1
  t2 = t2
  t3 = t3
  t4 = t4
  t5 = t5
  t6 = t6
  t7 = t7
  t8 = t8
  t9 = t9
  new = new
  Listing <- NineTasks
  Created <- NoTasks
  ServerLimit = 2
  Lookahead = 2
  MaxOverlap = 4
  MaxChurn = 0
  MaxLost = 1
SPECIFICATION FairSpec
\* A list that is complete, or whose first page was lost, stays as it is.
CHECK_DEADLOCK FALSE
INVARIANTS
  NothingMissing
  CalmMeansExact
PROPERTIES
  PromiseKept
  ScrollingShowsAll
