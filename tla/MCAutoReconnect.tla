-------------------------- MODULE MCAutoReconnect --------------------------
(***************************************************************************)
(* Instance of AutoReconnect for TLC: two callers and the read loop, the   *)
(* fewest with one goroutine waiting for another's dial while a third      *)
(* finds the connection broken; three connections, so that a replacement   *)
(* can itself be replaced.                                                 *)
(***************************************************************************)
EXTENDS AutoReconnect

CONSTANTS a, b

MCCallers == {a, b}
=============================================================================
