\* A server that grants every request: each login ends in a task list.
CONSTANTS
  t1 = t1
  t2 = t2
  NoTask = NoTask
  Tasks <- OneTask
  Bodies <- GoodBodies
  MaxControllers = 5
  MaxSubmitted = 3
SPECIFICATION FairSpec
\* MaxControllers cuts off every tap that could create a controller.
CHECK_DEADLOCK FALSE
PROPERTIES
  LoginOpensList
