----------------------------- MODULE MCSyncSession -----------------------------
(* Small instances of SyncSession for TLC.  Neither threads nor callbacks are  *)
(* told apart by the session.                                                  *)
EXTENDS SyncSession, TLC

Interchangeable == Permutations(Threads) \union Permutations(Callbacks)
=============================================================================
