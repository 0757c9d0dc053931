--------------------------- MODULE BroadcastCond ---------------------------
(***************************************************************************)
(* What cond-chan promises, without channels: a waiter that has registered *)
(* is released by the next Broadcast, wherever it is between asking for    *)
(* the channel and receiving from it; a Signal releases at most one waiter,*)
(* at once or later, and may be lost.                                      *)
(***************************************************************************)
EXTENDS Naturals

CONSTANTS Waiters

VARIABLES
  status,  \* status[w]: "out", "registered" or "released"
  credit   \* a signal that is kept for a later waiter (at most one)

vars == <<status, credit>>

Init ==
  /\ status = [w \in Waiters |-> "out"]
  /\ credit = 0

Register(w) ==
  /\ status[w] = "out"
  /\ status' = [status EXCEPT ![w] = "registered"]
  /\ UNCHANGED credit

\* The waiter gives up, or returns after its release.
Leave(w) ==
  /\ status[w] # "out"
  /\ status' = [status EXCEPT ![w] = "out"]
  /\ UNCHANGED credit

Broadcast ==
  /\ status' = [w \in Waiters |->
                  IF status[w] = "registered" THEN "released" ELSE status[w]]
  /\ UNCHANGED credit

\* Who is released is the scheduler's choice; nobody may be.
Signal ==
  \/ /\ \E w \in Waiters : /\ status[w] = "registered"
                           /\ status' = [status EXCEPT ![w] = "released"]
     /\ UNCHANGED credit
  \/ credit = 0 /\ credit' = 1 /\ UNCHANGED status
  \/ UNCHANGED vars

\* The kept signal releases a waiter, or goes to one that was released anyway.
Redeem(w) ==
  /\ status[w] # "out"
  /\ credit = 1
  /\ credit' = 0
  /\ status' = [status EXCEPT ![w] = "released"]

Next ==
  \/ \E w \in Waiters : Register(w) \/ Leave(w) \/ Redeem(w)
  \/ Broadcast
  \/ Signal

Spec == Init /\ [][Next]_vars
=============================================================================
