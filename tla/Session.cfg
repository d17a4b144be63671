\* Three logins, in flight together or one after the other, and a relaunch.
CONSTANTS
  MaxLogins = 3
  MaxLists = 3
  MaxRelaunches = 1
SPECIFICATION Spec
\* With all logins, lists and relaunches used up the model stops.
CHECK_DEADLOCK FALSE
INVARIANTS
  TypeOK
  TokensOfThisRun
  SessionsAccounted
