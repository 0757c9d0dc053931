---------------------------- MODULE MCRpcSession ----------------------------
(***************************************************************************)
(* Instance of RpcSession for TLC: two requests and two events, one with a *)
(* callback, so that w.out is full while others wait to send, before and   *)
(* after the writer has ended.                                             *)
(***************************************************************************)
EXTENDS RpcSession

CONSTANTS r1, r2, e1, e2

MCRequests == {r1, r2}
MCEvents   == {e1, e2}
MCWithCb   == {e1}
=============================================================================
