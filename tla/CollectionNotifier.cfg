\* Three commits, two callbacks; every habit but removing a latecomer.
SPECIFICATION FairSpec
CONSTANTS
  MaxVersion = 3
  MaxTokens = 2
  Habits = {"addsWhileTold", "writesAcrossTurns", "looksAway"}
\* After the last commit the program may leave everything as it is.
CHECK_DEADLOCK FALSE
INVARIANTS
  TypeOK
  RoundIsPackaged
PROPERTIES
  ToldExactly
  EveryChangeTold
