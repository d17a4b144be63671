\* Five pages, while other devices delete and add tasks.
CONSTANTS
  t1 = t1
  t2 = t2
  t3 = t3
  t4 = t4
  t5 = t5
  t6 = t6
  t7 = t7
  t8 = t8
  t9 = t9
  new = new
  Listing <- FiveTasks
  Created <- NewTask
  ServerLimit = 1
  Lookahead = 1
  MaxOverlap = 3
  MaxChurn = 2
  MaxLost = 1
SPECIFICATION Spec
\* A list that is complete, or whose first page was lost, stays as it is.
CHECK_DEADLOCK FALSE
INVARIANTS
  TypeOK
  NoPageSkipped
  DuplicatesAccounted
