------------------------------ MODULE MCLogSub ------------------------------
(***************************************************************************)
(* Instance of LogSub for TLC: two clients and two loggers.                *)
(***************************************************************************)
EXTENDS LogSub

CONSTANTS c1, c2, g1, g2

MCClients == {c1, c2}
MCLoggers == {g1, g2}
=============================================================================
