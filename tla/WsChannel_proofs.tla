-------------------------- MODULE WsChannel_proofs --------------------------
(***************************************************************************)
(* Theorems about WsChannel, for any readers of either side and any number *)
(* of frames, and about CondChan, the condition it waits on.  Of WsChannel *)
(* the first three invariants are inductive together: a frame is put in    *)
(* the slot only by the holder of readMutex, which found it empty, and an  *)
(* empty slot has no sleeper left (SleepsForTheOther).  Given them, what   *)
(* is delivered and what is in the slot together stay the frames read.     *)
(***************************************************************************)
EXTENDS WsChannel, TLAPS

IInv == TypeOK /\ SlotFreeWhileReading /\ SleepsForTheOther

\* The invariant holds initially.
LEMMA InitIInv == Init => IInv
<1> SUFFICES ASSUME Init PROVE IInv
  OBVIOUS
<1>1. frames \in Seq({"none", "server", "client"})
  BY DEF Init
<1>2. delivered \in [{"server", "client"} -> Seq(Nat)]
  BY DEF Init
<1>3. TypeOK
  BY <1>1, <1>2, WsChannelAssumption DEF Init, TypeOK, Registered, InCall
<1> QED
  BY <1>3 DEF Init, IInv, SlotFreeWhileReading, SleepsForTheOther

\* The side a frame is for is one of the two, or none.
LEMMA RoleOfType ==
  ASSUME NEW kind \in Kinds PROVE RoleOf(kind) \in {"none", "server", "client"}
  BY DEF RoleOf, Kinds

\* Every step of a reader and of the environment preserves it.
LEMMA NextIInv == IInv /\ [Next]_vars => IInv'
<1> USE WsChannelAssumption
<1> SUFFICES ASSUME IInv, [Next]_vars PROVE IInv'
  OBVIOUS
<1> USE DEF IInv, TypeOK, SlotFreeWhileReading, SleepsForTheOther, Registered, InCall, Goto
<1>1. ASSUME NEW r \in Readers, ReadCtx(r) PROVE IInv'
  BY <1>1 DEF ReadCtx
<1>2. ASSUME NEW r \in Readers, CancelCtx(r) PROVE IInv'
  BY <1>2 DEF CancelCtx
<1>3. ASSUME NEW r \in Readers, Lock(r) PROVE IInv'
  BY <1>3 DEF Lock
<1>4. ASSUME NEW r \in Readers, RelockAndLoop(r) PROVE IInv'
  BY <1>4 DEF RelockAndLoop, AfterWait
<1>5. ASSUME NEW r \in Readers, RelockAndFail(r) PROVE IInv'
  BY <1>5 DEF RelockAndFail, Return
<1>6. ASSUME NEW r \in Readers, Take(r) PROVE IInv'
  <2> USE <1>6 DEF Take, Taken, Broadcast, Return
  <2>1. readMutex = r
    OBVIOUS
  <2>2. delivered' \in [{"server", "client"} -> Seq(Nat)]
    OBVIOUS
  <2>3. TypeOK'
    BY <2>1, <2>2
  <2>4. SlotFreeWhileReading'
    OBVIOUS
  <2>5. SleepsForTheOther'
    OBVIOUS
  <2> QED BY <2>3, <2>4, <2>5
<1>7. ASSUME NEW r \in Readers, AwaitTaken(r) PROVE IInv'
  BY <1>7 DEF AwaitTaken
<1>8. ASSUME NEW r \in Readers, Wake(r) PROVE IInv'
  BY <1>8 DEF Wake
<1>9. ASSUME NEW r \in Readers, GiveUp(r) PROVE IInv'
  BY <1>9 DEF GiveUp
<1>10. ASSUME NEW r \in Readers, StartRead(r) PROVE IInv'
  BY <1>10 DEF StartRead
<1>11. ASSUME NEW r \in Readers, Receive(r) PROVE IInv'
  <2>1. PICK kind \in Kinds :
          /\ frames' = Append(frames, RoleOf(kind))
          /\ lastRole' = RoleOf(kind)
          /\ IF RoleOf(kind) = "none" THEN Return(r)
             ELSE Goto(r, "looping") /\ UNCHANGED <<readMutex, cancelled>>
    BY <1>11 DEF Receive
  <2>2. pc[r] = "reading" /\ lastRole = "none" /\ readMutex = r
        /\ UNCHANGED <<released, closed, delivered>>
    BY <1>11 DEF Receive
  <2>3. RoleOf(kind) \in {"none", "server", "client"}
    BY RoleOfType
  <2>4. frames' \in Seq({"none", "server", "client"})
    BY <2>1, <2>3
  <2>5. \A q \in Readers : pc[q] = "waiting" => q \in released
    BY <2>2
  <2>6. CASE RoleOf(kind) = "none"
    <3>1. /\ readMutex' = NoReader /\ pc' = [pc EXCEPT ![r] = "idle"]
          /\ cancelled' = cancelled \ {r} /\ lastRole' = "none"
      BY <2>1, <2>6 DEF Return
    <3>2. TypeOK'
      BY <2>2, <2>4, <3>1
    <3>3. SlotFreeWhileReading' /\ SleepsForTheOther'
      BY <2>2, <2>5, <3>1
    <3> QED BY <3>2, <3>3
  <2>7. CASE RoleOf(kind) # "none"
    BY <2>1, <2>2, <2>3, <2>4, <2>5, <2>7
  <2> QED BY <2>6, <2>7
<1>12. ASSUME NEW r \in Readers, ReceiveFails(r) PROVE IInv'
  BY <1>12 DEF ReceiveFails, Return
<1>13. CASE CloseFn
  BY <1>13 DEF CloseFn
<1>14. CASE UNCHANGED vars
  BY <1>14 DEF vars
<1> QED
  BY <1>1, <1>2, <1>3, <1>4, <1>5, <1>6, <1>7, <1>8, <1>9, <1>10, <1>11, <1>12,
     <1>13, <1>14 DEF Next

\* A number greater than those enumerated so far can be added at the end.
LEMMA EnumeratesMore ==
  ASSUME NEW s \in Seq(Nat), NEW set, NEW n \in Nat,
         Enumerates(s, set), \A m \in set : m < n
  PROVE  Enumerates(Append(s, n), set \cup {n})
<1> DEFINE t == Append(s, n)
<1>1. /\ DOMAIN t = DOMAIN s \cup {Len(s) + 1} /\ t[Len(s) + 1] = n
      /\ \A i \in DOMAIN s : t[i] = s[i] /\ i < Len(s) + 1
  OBVIOUS
<1>2. \A i \in DOMAIN s : s[i] \in set
  BY DEF Enumerates
<1> HIDE DEF t
<1>3. {t[i] : i \in DOMAIN t} = set \cup {n}
  BY <1>1 DEF Enumerates
<1>4. ASSUME NEW i \in DOMAIN t, NEW j \in DOMAIN t, i < j PROVE t[i] < t[j]
  <2>1. i \in DOMAIN s
    BY <1>1, <1>4
  <2> QED BY <1>1, <1>2, <1>4, <2>1 DEF Enumerates
<1>5. Enumerates(t, set \cup {n})
  BY <1>3, <1>4 DEF Enumerates
<1> QED BY <1>5 DEF t

\* A frame enters the list of its side when it is read, as its last number, and
\* moves from the slot to the delivered ones when it is taken.
LEMMA NextDelivered == IInv /\ DeliveredOnceInOrder /\ [Next]_vars => DeliveredOnceInOrder'
<1> USE WsChannelAssumption
<1> SUFFICES ASSUME IInv, DeliveredOnceInOrder, [Next]_vars PROVE DeliveredOnceInOrder'
  OBVIOUS
<1> DEFINE Sides == {"server", "client"}
<1>1. /\ frames \in Seq({"none", "server", "client"})
      /\ delivered \in [Sides -> Seq(Nat)]
      /\ lastRole \in {"none", "server", "client"}
      /\ \A r \in Readers : Role[r] \in Sides
      /\ \A r \in Readers : pc[r] = "reading" => lastRole = "none"
  BY DEF IInv, TypeOK, SlotFreeWhileReading
<1>2. ASSUME \A role \in Sides : Listed(role)' = Listed(role), frames' = frames
      PROVE  DeliveredOnceInOrder'
  BY <1>2 DEF DeliveredOnceInOrder, FramesFor
<1>3. ASSUME UNCHANGED <<frames, delivered, lastRole>> PROVE DeliveredOnceInOrder'
  BY <1>2, <1>3 DEF Listed
<1>4. ASSUME NEW r \in Readers, Take(r) PROVE DeliveredOnceInOrder'
  <2>1. /\ lastRole = Role[r] /\ lastRole' = "none" /\ frames' = frames
        /\ delivered' = [delivered EXCEPT ![Role[r]] = Append(@, Len(frames))]
    BY <1>4 DEF Take, Taken
  <2>2. ASSUME NEW role \in Sides PROVE Listed(role)' = Listed(role)
    <3>1. CASE role = Role[r]
      <4>1. Listed(role) = delivered[role] \o <<Len(frames)>>
            /\ Listed(role)' = Append(delivered[role], Len(frames)) \o <<>>
        BY <1>1, <2>1, <3>1 DEF Listed
      <4>2. delivered[role] \in Seq(Nat) /\ Len(frames) \in Nat
        BY <1>1
      <4> QED BY <4>1, <4>2
    <3>2. CASE role # Role[r]
      BY <1>1, <2>1, <3>2 DEF Listed
    <3> QED BY <3>1, <3>2
  <2> QED BY <1>2, <2>1, <2>2
<1>5. ASSUME NEW r \in Readers, Receive(r) PROVE DeliveredOnceInOrder'
  <2>1. PICK kind \in Kinds :
          frames' = Append(frames, RoleOf(kind)) /\ lastRole' = RoleOf(kind)
    BY <1>5 DEF Receive
  <2>2. lastRole = "none" /\ delivered' = delivered
        /\ RoleOf(kind) \in {"none", "server", "client"}
    BY <1>1, <1>5, RoleOfType DEF Receive
  <2>3. ASSUME NEW role \in Sides PROVE Enumerates(Listed(role), FramesFor(role))'
    <3>1. delivered[role] \in Seq(Nat) /\ Len(frames) + 1 \in Nat
      BY <1>1
    <3>2. Listed(role) = delivered[role]
      <4>1. Listed(role) = delivered[role] \o <<>>
        BY <2>2 DEF Listed
      <4> QED BY <3>1, <4>1
    <3>3. Enumerates(delivered[role], FramesFor(role))
      BY <3>2 DEF DeliveredOnceInOrder
    <3>4. \A m \in FramesFor(role) : m \in Nat /\ m < Len(frames) + 1
      BY <1>1 DEF FramesFor
    <3>5. CASE role = RoleOf(kind)
      <4>1. Listed(role)' = Append(delivered[role], Len(frames) + 1)
        <5>1. Listed(role)' = delivered[role] \o <<Len(frames) + 1>>
          BY <1>1, <2>1, <2>2, <3>5 DEF Listed
        <5> QED BY <3>1, <5>1
      <4>2. FramesFor(role)' = FramesFor(role) \cup {Len(frames) + 1}
        BY <1>1, <2>1, <2>2, <3>5 DEF FramesFor
      <4> QED BY <3>1, <3>3, <3>4, <4>1, <4>2, EnumeratesMore
    <3>6. CASE role # RoleOf(kind)
      <4>1. Listed(role)' = delivered[role]
        <5>1. Listed(role)' = delivered[role] \o <<>>
          BY <2>1, <2>2, <3>6 DEF Listed
        <5> QED BY <3>1, <5>1
      <4>2. FramesFor(role)' = FramesFor(role)
        BY <1>1, <2>1, <2>2, <3>6 DEF FramesFor
      <4> QED BY <3>3, <4>1, <4>2
    <3> QED BY <3>5, <3>6
  <2> QED BY <2>3 DEF DeliveredOnceInOrder
<1>6. ASSUME NEW r \in Readers,
             \/ ReadCtx(r) \/ CancelCtx(r)
             \/ Lock(r) \/ RelockAndLoop(r) \/ RelockAndFail(r)
             \/ AwaitTaken(r) \/ Wake(r) \/ GiveUp(r)
             \/ StartRead(r) \/ ReceiveFails(r)
      PROVE  DeliveredOnceInOrder'
  BY <1>3, <1>6 DEF ReadCtx, CancelCtx, Lock, RelockAndLoop, RelockAndFail, AwaitTaken,
                    Wake, GiveUp, StartRead, ReceiveFails
<1>7. CASE CloseFn
  BY <1>3, <1>7 DEF CloseFn
<1>8. CASE UNCHANGED vars
  BY <1>3, <1>8 DEF vars
<1> QED
  BY <1>4, <1>5, <1>6, <1>7, <1>8 DEF Next

\* The invariant holds in every reachable state.
THEOREM Invariance == Spec => []IInv
  BY InitIInv, NextIInv, PTL DEF Spec

\* readMutex is held exactly between Lock and Unlock, also around the select
\* that releases it (json-msg-ws.go:107-145).
THEOREM TypeCorrect == Spec => []TypeOK
<1>1. IInv => TypeOK
  BY DEF IInv
<1> QED BY <1>1, Invariance, PTL

\* The assertion of json-msg-ws.go:78-80 never fails, for any number of readers.
THEOREM NoOverwrite == Spec => []SlotFreeWhileReading
<1>1. IInv => SlotFreeWhileReading
  BY DEF IInv
<1> QED BY <1>1, Invariance, PTL

\* No reader sleeps through the taking of the message it waits for
\* (json-msg-ws.go:115-126).
THEOREM NoLostWakeup == Spec => []SleepsForTheOther
<1>1. IInv => SleepsForTheOther
  BY DEF IInv
<1> QED BY <1>1, Invariance, PTL

\* Every frame of either side is returned by ReadCtx of that side once and in
\* order of arrival, and only the last can still be in the slot, whichever
\* reader took it off the connection (json-msg-ws.go:86-116).
THEOREM NothingLostOrReordered == Spec => []DeliveredOnceInOrder
<1>1. Init => DeliveredOnceInOrder
  BY DEF Init, DeliveredOnceInOrder, Listed, FramesFor, Enumerates
<1> QED
  BY <1>1, NextDelivered, Invariance, PTL DEF Spec

-----------------------------------------------------------------------------
(***************************************************************************)
(* lastMsgTakenCond: the condition whose waiters are the readers.  It is   *)
(* broadcast at most once for every frame.                                 *)
(***************************************************************************)
VARIABLES ch, shut, buffer, place, held, missed

Cond == INSTANCE CondChan
          WITH Waiters <- Readers, MaxBroadcasts <- MaxFrames, closed <- shut, pc <- place

CondInv == Cond!TypeOK /\ Cond!NoSleepOnReady

\* The invariant holds initially.
LEMMA InitCondInv == Cond!Init => CondInv
  BY WsChannelAssumption DEF Cond!Init, CondInv, Cond!TypeOK, Cond!NoSleepOnReady, Cond!Channels

\* Every method call and every step of a waiter preserves it.
LEMMA NextCondInv == CondInv /\ [Cond!Next]_(Cond!vars) => CondInv'
<1> USE WsChannelAssumption
<1> SUFFICES ASSUME CondInv, [Cond!Next]_(Cond!vars) PROVE CondInv'
  OBVIOUS
<1> USE DEF CondInv, Cond!TypeOK, Cond!NoSleepOnReady, Cond!Channels, Cond!Buffered
<1>1. ASSUME NEW w \in Readers, Cond!Wait(w) PROVE CondInv'
  BY <1>1 DEF Cond!Wait
<1>2. ASSUME NEW w \in Readers, Cond!ReceiveStored(w) PROVE CondInv'
  BY <1>2 DEF Cond!ReceiveStored
<1>3. ASSUME NEW w \in Readers, Cond!ReceiveClosed(w) PROVE CondInv'
  BY <1>3 DEF Cond!ReceiveClosed
<1>4. ASSUME NEW w \in Readers, Cond!Park(w) PROVE CondInv'
  BY <1>4 DEF Cond!Park
<1>5. ASSUME NEW w \in Readers, Cond!Abandon(w) PROVE CondInv'
  BY <1>5 DEF Cond!Abandon
<1>6. ASSUME NEW w \in Readers, Cond!Proceed(w) PROVE CondInv'
  BY <1>6 DEF Cond!Proceed
<1>7. CASE Cond!SignalHandOff
  BY <1>7 DEF Cond!SignalHandOff, Cond!ParkedOn
<1>8. CASE Cond!SignalStored
  \* ch is 0, the only channel with room, and nobody is parked on it.
  BY <1>8 DEF Cond!SignalStored, Cond!ParkedOn, Cond!Room, Cond!Capacity
<1>9. CASE Cond!SignalDropped
  BY <1>9 DEF Cond!SignalDropped, Cond!HoldersOf
<1>10. CASE Cond!Broadcast
  <2> USE <1>10 DEF Cond!Broadcast, Cond!ClosedBy, Cond!WokenBy
  <2>1. Cond!TypeOK'
    OBVIOUS
  <2>2. ASSUME NEW w \in Readers, place'[w] = "parked"
        PROVE  held'[w] \notin shut' /\ Cond!Buffered(held[w])' = 0
    <3>1. place[w] = "parked" /\ held[w] # ch
      BY <2>2 DEF Cond!ParkedOn
    <3> QED BY <3>1
  <2> QED BY <2>1, <2>2
<1>11. CASE UNCHANGED Cond!vars
  BY <1>11 DEF Cond!vars
<1> QED
  BY <1>1, <1>2, <1>3, <1>4, <1>5, <1>6, <1>7, <1>8, <1>9, <1>10, <1>11 DEF Cond!Next, Cond!Receive

\* The invariant holds in every reachable state.
THEOREM CondInvariance == Cond!Spec => []CondInv
  BY InitCondInv, NextCondInv, PTL DEF Cond!Spec

\* Every channel but the current one is closed and the current one is open, so
\* that no close and no send can panic (cond-chan.go:37-47).
THEOREM CondTypeCorrect == Cond!Spec => []Cond!TypeOK
<1>1. CondInv => Cond!TypeOK
  BY DEF CondInv
<1> QED BY <1>1, CondInvariance, PTL

\* No waiter sleeps on a channel that is closed or has a signal for it, however
\* its Wait and its receive interleave with Signal and Broadcast.
THEOREM CondNoLostWakeup == Cond!Spec => []Cond!NoSleepOnReady
<1>1. CondInv => Cond!NoSleepOnReady
  BY DEF CondInv
<1> QED BY <1>1, CondInvariance, PTL

-----------------------------------------------------------------------------
\* Initial states map to initial states of the abstract condition.
LEMMA CondInitMaps == Cond!Init => Cond!Abstract!Init
  BY DEF Cond!Init, Cond!Abstract!Init, Cond!Status

\* Every step maps to a step of the abstract condition or leaves it as it is.
LEMMA CondNextMaps == CondInv /\ [Cond!Next]_(Cond!vars) => [Cond!Abstract!Next]_(Cond!Abstract!vars)
<1> USE WsChannelAssumption
<1> SUFFICES ASSUME CondInv, [Cond!Next]_(Cond!vars) PROVE [Cond!Abstract!Next]_(Cond!Abstract!vars)
  OBVIOUS
<1> USE DEF CondInv, Cond!TypeOK, Cond!Channels, Cond!Status, Cond!Waiting, Cond!Buffered
<1>1. ASSUME NEW w \in Readers, Cond!Wait(w) PROVE Cond!Abstract!Register(w)
  BY <1>1 DEF Cond!Wait, Cond!Abstract!Register
<1>2. ASSUME NEW w \in Readers, Cond!ReceiveStored(w) PROVE Cond!Abstract!Redeem(w)
  <2> USE <1>2 DEF Cond!ReceiveStored
  <2>1. buffer = 1 /\ buffer' = 0
    OBVIOUS
  <2>2. Cond!Status' = [Cond!Status EXCEPT ![w] = "released"] /\ Cond!Status[w] # "out"
    OBVIOUS
  <2> QED BY <2>1, <2>2 DEF Cond!Abstract!Redeem
<1>3. ASSUME NEW w \in Readers, Cond!ReceiveClosed(w) PROVE UNCHANGED Cond!Abstract!vars
  BY <1>3 DEF Cond!ReceiveClosed, Cond!Abstract!vars
<1>4. ASSUME NEW w \in Readers, Cond!Park(w) PROVE UNCHANGED Cond!Abstract!vars
  BY <1>4 DEF Cond!Park, Cond!Abstract!vars
<1>5. ASSUME NEW w \in Readers, Cond!Abandon(w) PROVE Cond!Abstract!Leave(w)
  BY <1>5 DEF Cond!Abandon, Cond!Abstract!Leave
<1>6. ASSUME NEW w \in Readers, Cond!Proceed(w) PROVE Cond!Abstract!Leave(w)
  BY <1>6 DEF Cond!Proceed, Cond!Abstract!Leave
<1>7. CASE Cond!SignalHandOff
  <2>1. PICK w \in Cond!ParkedOn(ch) : place' = [place EXCEPT ![w] = "woken"]
    BY <1>7 DEF Cond!SignalHandOff
  <2>2. w \in Readers /\ Cond!Status[w] = "registered" /\ UNCHANGED <<buffer, ch, held>>
    BY <1>7, <2>1 DEF Cond!SignalHandOff, Cond!ParkedOn
  <2>3. Cond!Status' = [Cond!Status EXCEPT ![w] = "released"]
    BY <2>1, <2>2
  <2> QED BY <2>2, <2>3 DEF Cond!Abstract!Signal, Cond!Abstract!Next
<1>8. CASE Cond!SignalStored
  <2>1. buffer = 0 /\ buffer' = 1
    BY <1>8 DEF Cond!SignalStored, Cond!Room, Cond!Capacity
  <2>2. UNCHANGED Cond!Status
    BY <1>8 DEF Cond!SignalStored
  <2> QED BY <2>1, <2>2 DEF Cond!Abstract!Signal, Cond!Abstract!Next
<1>9. CASE Cond!SignalDropped
  BY <1>9 DEF Cond!SignalDropped, Cond!Abstract!vars
<1>10. CASE Cond!Broadcast
  <2> USE <1>10 DEF Cond!Broadcast, Cond!WokenBy, Cond!ParkedOn
  <2>1. ASSUME NEW w \in Readers
        PROVE  Cond!Status'[w] = IF Cond!Status[w] = "registered" THEN "released"
                                 ELSE Cond!Status[w]
    OBVIOUS
  <2>2. Cond!Status' = [w \in Readers |->
                     IF Cond!Status[w] = "registered" THEN "released" ELSE Cond!Status[w]]
    BY <2>1
  <2> QED BY <2>2 DEF Cond!Abstract!Broadcast, Cond!Abstract!Next
<1>11. CASE UNCHANGED Cond!vars
  BY <1>11 DEF Cond!vars, Cond!Abstract!vars
<1> QED
  BY <1>1, <1>2, <1>3, <1>4, <1>5, <1>6, <1>7, <1>8, <1>9, <1>10, <1>11
  DEF Cond!Next, Cond!Receive, Cond!Abstract!Next

\* The channels implement the abstract condition: a Broadcast releases exactly
\* those that have called Wait and not yet returned, a Signal one at most.
THEOREM CondRefinement == Cond!Spec => Cond!ImplementsBroadcastCond
  BY CondInitMaps, CondNextMaps, CondInvariance, PTL
  DEF Cond!Spec, Cond!ImplementsBroadcastCond, Cond!Abstract!Spec
=============================================================================
