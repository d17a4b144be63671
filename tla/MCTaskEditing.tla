----------------------------- MODULE MCTaskEditing -----------------------------
(* Small instances of TaskEditing for TLC.                                 *)
EXTENDS TaskEditing

CONSTANTS a, b, c

ThreeIds == {a, b, c}
OneTask == {a}
=============================================================================
