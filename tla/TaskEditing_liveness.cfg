\* Nothing is lost: every save is shown in the end.
CONSTANTS
  a = a
  b = b
  c = c
  NoId = NoId
  Ids <- ThreeIds
  Existing <- OneTask
  MaxPressed = 2
  MaxScreens = 2
  MaxLost = 0
SPECIFICATION FairSpec
\* With all screens opened and all answers delivered the model stops.
CHECK_DEADLOCK FALSE
PROPERTIES
  SaveIsShown
