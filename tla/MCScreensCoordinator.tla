------------------------- MODULE MCScreensCoordinator -------------------------
(* Small instances of ScreensCoordinator for TLC.                          *)
EXTENDS ScreensCoordinator, TLC

CONSTANTS t1, t2

AllBodies == Body
GoodBodies == {"result"}
OneTask == {t1}
TwoTasks == {t1, t2}

(* No action compares two tasks, so they may be exchanged.                 *)
TaskSymmetry == Permutations(TwoTasks)
=============================================================================
