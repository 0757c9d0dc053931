----------------------------- MODULE MCRpcCli -----------------------------
(***************************************************************************)
(* Instance of RpcCli for TLC: two callers and three calls, so that a      *)
(* caller calls again while a response to its previous call, or a second   *)
(* one, is still to come.                                                  *)
(***************************************************************************)
EXTENDS RpcCli

CONSTANTS c1, c2

MCCallers == {c1, c2}
=============================================================================
