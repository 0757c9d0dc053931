----------------------------- MODULE MCWsAgent -----------------------------
(***************************************************************************)
(* Instance of WsAgent for TLC: a hook on the sending direction, none on   *)
(* the receiving one.                                                      *)
(***************************************************************************)
EXTENDS WsAgent

MCHooked == {"send"}
=============================================================================
