\* Every kind of answer, two tasks, up to six screens on the stack.
CONSTANTS
  t1 = t1
  t2 = t2
  NoTask = NoTask
  Tasks <- TwoTasks
  Bodies <- AllBodies
  MaxControllers = 6
  MaxSubmitted = 3
SYMMETRY TaskSymmetry
SPECIFICATION Spec
\* MaxControllers cuts off every tap that could create a controller.
CHECK_DEADLOCK FALSE
INVARIANTS
  TypeOK
  ScreensMirrorStack
  BackReturnsToOpener
  ScreensAgreeOnTask
  ListsAccounted
PROPERTIES
  RootsStay
  ReleasedStaySilent
