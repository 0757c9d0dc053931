---------------------------- MODULE MCWsChannel ----------------------------
(***************************************************************************)
(* Instance of WsChannel for TLC: a server reader and two client readers   *)
(* (a second ReadCtx on the same channel), and three frames.               *)
(***************************************************************************)
EXTENDS WsChannel

CONSTANTS s1, c1, c2

MCReaders == {s1, c1, c2}
MCRole    == [r \in MCReaders |-> IF r = s1 THEN "server" ELSE "client"]
=============================================================================
