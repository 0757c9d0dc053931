---------------------------- MODULE MCMutexTask ----------------------------
(***************************************************************************)
(* Instance of MutexTask for TLC: three goroutines and two keys, so that a *)
(* flight can have a leader and two waiters, or two flights run at once,   *)
(* and a released waiter can lead the next flight while its old leader is  *)
(* still sending.                                                          *)
(***************************************************************************)
EXTENDS MutexTask

CONSTANTS c1, c2, c3, k1, k2, zero, val

MCCallers == {c1, c2, c3}
MCKeys    == {k1, k2}
MCReturns == {zero, val}
=============================================================================
