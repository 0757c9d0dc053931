----------------------------- MODULE MCCondChan -----------------------------
(***************************************************************************)
(* Instance of CondChan for TLC: three waiters, so that a Signal has one   *)
(* to choose and others to pass over, and three Broadcasts, so that both   *)
(* the buffered first channel and its unbuffered successors are replaced.  *)
(***************************************************************************)
EXTENDS CondChan

CONSTANTS w1, w2, w3

MCWaiters == {w1, w2, w3}
=============================================================================
