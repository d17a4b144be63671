---------------------------- MODULE MCTaskListModel ----------------------------
(* Small instances of TaskListModel for TLC.                               *)
EXTENDS TaskListModel

CONSTANTS t1, t2, t3, t4, t5, t6, t7, t8, t9, new

NineTasks == <<t1, t2, t3, t4, t5, t6, t7, t8, t9>>
FiveTasks == <<t1, t2, t3, t4, t5>>
NewTask == {new}
NoTasks == {}
=============================================================================
