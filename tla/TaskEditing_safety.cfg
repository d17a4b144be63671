\* One task and two ids for new ones; three saves or deletes, one loss.
CONSTANTS
  a = a
  b = b
  c = c
  NoId = NoId
  Ids <- ThreeIds
  Existing <- OneTask
  MaxPressed = 3
  MaxScreens = 2
  MaxLost = 1
SPECIFICATION Spec
\* With all screens opened and all answers delivered the model stops.
CHECK_DEADLOCK FALSE
INVARIANTS
  TypeOK
  SavesStick
  ReadYourWrites
PROPERTIES
  StorePromise
