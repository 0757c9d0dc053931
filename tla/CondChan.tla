------------------------------ MODULE CondChan ------------------------------
(***************************************************************************)
(* cond-chan/cond-chan.go: a condition variable whose Wait returns a       *)
(* channel, to be received from in a select with other channels.           *)
(*                                                                         *)
(* c.mu makes each method one step.  Between Wait and its receive a waiter *)
(* runs freely ("holding"), which is where the hazards are; the select     *)
(* itself either takes a value at once or parks.  Channels are numbered in *)
(* the order they are made; only the first has a buffer (NewCond).         *)
(***************************************************************************)
EXTENDS Naturals

CONSTANTS
  Waiters,        \* goroutines that wait
  MaxBroadcasts   \* bound: number of Broadcast calls

ASSUME CondChanAssumption == MaxBroadcasts \in Nat

Channels == 0 .. MaxBroadcasts

VARIABLES
  ch,      \* c.ch, the current channel
  closed,  \* the channels that are closed
  buffer,  \* the values in the buffer of channel 0
  pc,      \* idle, holding (before the select), parked (in it), woken
  held,    \* held[w]: the channel w got from its last Wait
  missed   \* the waiters that held c.ch when a Signal was dropped (history)

vars == <<ch, closed, buffer, pc, held, missed>>

Init ==
  /\ ch = 0
  /\ closed = {}
  /\ buffer = 0
  /\ pc = [w \in Waiters |-> "idle"]
  /\ held = [w \in Waiters |-> 0]
  /\ missed = {}

Capacity(c)  == IF c = 0 THEN 1 ELSE 0
Buffered(c)  == IF c = 0 THEN buffer ELSE 0
Waiting(w)   == pc[w] \in {"holding", "parked"}
ParkedOn(c)  == {w \in Waiters : pc[w] = "parked" /\ held[w] = c}
HoldersOf(c) == {w \in Waiters : pc[w] = "holding" /\ held[w] = c}

-----------------------------------------------------------------------------
Wait(w) ==
  /\ pc[w] = "idle"
  /\ pc' = [pc EXCEPT ![w] = "holding"]
  /\ held' = [held EXCEPT ![w] = ch]
  /\ UNCHANGED <<ch, closed, buffer, missed>>

\* The receive finds a stored signal.
ReceiveStored(w) ==
  /\ pc[w] = "holding"
  /\ Buffered(held[w]) > 0
  /\ buffer' = buffer - 1
  /\ pc' = [pc EXCEPT ![w] = "woken"]
  /\ UNCHANGED <<ch, closed, held, missed>>

\* The receive finds the channel closed and drained.
ReceiveClosed(w) ==
  /\ pc[w] = "holding"
  /\ Buffered(held[w]) = 0
  /\ held[w] \in closed
  /\ pc' = [pc EXCEPT ![w] = "woken"]
  /\ UNCHANGED <<ch, closed, buffer, held, missed>>

Park(w) ==
  /\ pc[w] = "holding"
  /\ Buffered(held[w]) = 0
  /\ held[w] \notin closed
  /\ pc' = [pc EXCEPT ![w] = "parked"]
  /\ UNCHANGED <<ch, closed, buffer, held, missed>>

\* Another channel of the caller's select was ready.
Abandon(w) ==
  /\ Waiting(w)
  /\ pc' = [pc EXCEPT ![w] = "idle"]
  /\ missed' = missed \ {w}
  /\ UNCHANGED <<ch, closed, buffer, held>>

\* A woken waiter runs on.
Proceed(w) ==
  /\ pc[w] = "woken"
  /\ pc' = [pc EXCEPT ![w] = "idle"]
  /\ missed' = missed \ {w}
  /\ UNCHANGED <<ch, closed, buffer, held>>

-----------------------------------------------------------------------------
\* `case c.ch <- true`: a parked receiver takes the value from the sender.
SignalHandOff ==
  /\ \E w \in ParkedOn(ch) : pc' = [pc EXCEPT ![w] = "woken"]
  /\ UNCHANGED <<ch, closed, buffer, held, missed>>

\* The same case with nobody parked and room in the buffer.
Room_Always(c) == TRUE   \* mutant: the send does not look at the capacity
Room(c) == Buffered(c) < Capacity(c)

SignalStored ==
  /\ ParkedOn(ch) = {}
  /\ Room(ch)
  /\ buffer' = buffer + 1
  /\ UNCHANGED <<ch, closed, pc, held, missed>>

\* `default:`, the value is dropped; a full buffer still keeps an earlier one.
SignalDropped ==
  /\ ParkedOn(ch) = {}
  /\ ~ Room(ch)
  /\ missed' = IF Buffered(ch) = 0 THEN missed \cup HoldersOf(ch) ELSE missed
  /\ UNCHANGED <<ch, closed, buffer, pc, held>>

\* The channels closed, and the waiters woken, when Broadcast is called.
ClosedBy(c) == closed \cup {c}

WokenBy_One(c) ==   \* mutant: like Signal, one parked waiter is woken
  IF ParkedOn(c) = {} THEN {} ELSE {CHOOSE w \in ParkedOn(c) : TRUE}
WokenBy(c) == ParkedOn(c)

Broadcast ==
  /\ ch < MaxBroadcasts
  /\ closed' = ClosedBy(ch)
  /\ pc' = [w \in Waiters |-> IF w \in WokenBy(ch) THEN "woken" ELSE pc[w]]
  /\ ch' = ch + 1
  /\ UNCHANGED <<buffer, held, missed>>

-----------------------------------------------------------------------------
Receive(w) == ReceiveStored(w) \/ ReceiveClosed(w) \/ Park(w)

Next ==
  \/ \E w \in Waiters : Wait(w) \/ Receive(w) \/ Abandon(w) \/ Proceed(w)
  \/ SignalHandOff
  \/ SignalStored
  \/ SignalDropped
  \/ Broadcast

Spec == Init /\ [][Next]_vars

\* A goroutine that holds the channel gets to its select, and a woken one
\* runs; nobody has to signal, broadcast or give up.
FairSpec == Spec /\ \A w \in Waiters : WF_vars(Receive(w) \/ Proceed(w))

-----------------------------------------------------------------------------
\* Types; every channel before the current one has been closed, once, and the
\* current one is open, so that neither `close` nor the send can panic.
TypeOK ==
  /\ ch \in Channels
  /\ closed = {c \in Channels : c < ch}
  /\ buffer \in 0 .. 1
  /\ pc \in [Waiters -> {"idle", "holding", "parked", "woken"}]
  /\ held \in [Waiters -> 0 .. ch]
  /\ missed \subseteq Waiters

\* Nobody sleeps on a channel that has something for it: a waiter that parked
\* before a Signal or a Broadcast was taken out of its sleep by it, and none
\* parks after (Signal, lines 37-41, Broadcast, lines 46-47).
NoSleepOnReady ==
  \A w \in Waiters :
    pc[w] = "parked" => held[w] \notin closed /\ Buffered(held[w]) = 0

\* A waiter whose channel is no longer the current one, whether it had already
\* reached its select or not when Broadcast came, returns from its wait.
BroadcastReleases ==
  \A w \in Waiters : Waiting(w) /\ held[w] < ch ~> ~ Waiting(w)

-----------------------------------------------------------------------------
Status ==
  [w \in Waiters |->
     IF pc[w] = "idle" THEN "out"
     ELSE IF Waiting(w) /\ held[w] = ch THEN "registered" ELSE "released"]

Abstract == INSTANCE BroadcastCond WITH status <- Status, credit <- buffer

\* The channels implement the abstract condition: Broadcast releases all who
\* have called Wait and nobody else, and a Signal releases one at most.
ImplementsBroadcastCond == Abstract!Spec

-----------------------------------------------------------------------------
\* cond-chan.go:1 calls the package "sync.cond 的channel实现方式", the channel
\* form of sync.Cond, whose Signal never passes over a goroutine that is
\* already waiting.  This states that of Signal; see the README for where the
\* code departs from it.
SignalReachesAWaiter == missed = {}
=============================================================================
