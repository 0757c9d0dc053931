----------------------------- MODULE MCAppExit -----------------------------
(***************************************************************************)
(* Instance of AppExit for TLC: two exiting goroutines, one with an error, *)
(* two hooks and two tasks, so that one hook or task hangs while the other *)
(* ends, and one is registered or started before the exit and one during.  *)
(***************************************************************************)
EXTENDS AppExit

CONSTANTS e1, e2, h1, h2, t1, t2

MCExiters == {e1, e2}
MCWithErr == {e2}
MCHooks   == {h1, h2}
MCTasks   == {t1, t2}
=============================================================================
