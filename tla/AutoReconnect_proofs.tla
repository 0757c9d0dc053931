------------------------ MODULE AutoReconnect_proofs ------------------------
(***************************************************************************)
(* Theorems about AutoReconnect, for any set of callers and any number of  *)
(* connections.  What the checked invariants lack to be inductive is the   *)
(* reason why a dial can install its connection without looking:           *)
(* NeededDial says that from the moment a goroutine starts to dial until   *)
(* it is done, the inner channel is absent or broken.                      *)
(***************************************************************************)
EXTENDS AutoReconnect, TLAPS

NeededDial == creating => ~ Live(inner)

IInv ==
  /\ TypeOK
  /\ OneDialer
  /\ AwaitsRunningDial
  /\ NoLiveOrphan
  /\ NoFalseAlarm
  /\ ClosedMeansBroken
  /\ NeededDial

\* The invariant holds initially.
LEMMA InitIInv == Init => IInv
<1> SUFFICES ASSUME Init PROVE IInv
  OBVIOUS
<1>1. TypeOK
  <2>1. conn \in [Users -> 0 .. made] /\ inner \in 0 .. made /\ made \in 0 .. MaxConns
    BY AutoReconnectAssumption DEF Init, NoConn
  <2>2. pc \in [Users -> {"idle", "sleeping", "awaitingCreate", "dialing", "reading",
                         "writing", "awaitingResult"}]
    BY DEF Init
  <2>3. \A u \in Users :
          conn[u] # NoConn <=> pc[u] \in {"reading", "writing", "awaitingResult"}
    BY DEF Init
  <2> QED BY <2>1, <2>2, <2>3 DEF Init, TypeOK
<1>2. OneDialer /\ AwaitsRunningDial /\ NeededDial
  BY DEF Init, OneDialer, AwaitsRunningDial, CreateWaiters, NeededDial
<1>3. NoLiveOrphan /\ NoFalseAlarm /\ ClosedMeansBroken
  BY DEF Init, NoLiveOrphan, NoFalseAlarm, ClosedMeansBroken
<1> QED BY <1>1, <1>2, <1>3 DEF IInv

\* Every step of the users, of Close and of the network preserves it.
LEMMA NextIInv == IInv /\ [Next]_vars => IInv'
<1> USE AutoReconnectAssumption
<1> SUFFICES ASSUME IInv, [Next]_vars PROVE IInv'
  OBVIOUS
<1> USE DEF IInv, TypeOK, OneDialer, AwaitsRunningDial, NoLiveOrphan, NoFalseAlarm,
            ClosedMeansBroken, NeededDial, Users, Subscribed, CreateWaiters, NoConn,
            Live, Goto
<1>1. ASSUME NEW u \in Users, GetInner(u) PROVE IInv'
  <2> USE <1>1 DEF GetInner, BrokenFound
  <2>1. \A v \in Subscribed : inner \in broken => conn[v] \in broken
    OBVIOUS
  <2>2. /\ inner' = IF BrokenFound THEN NoConn ELSE inner
        /\ brokenReleased' \subseteq Subscribed
        /\ \A v \in brokenReleased' : conn[v] \in broken
        /\ UNCHANGED <<made, broken, createReleased>>
        /\ closed' = FALSE /\ lateInstall' = FALSE
    BY <2>1
  <2>3. /\ inner' \in 0 .. made
        /\ inner' # NoConn => inner' = inner /\ Live(inner)
        /\ \A c \in 1 .. made : c \notin broken => c = inner'
    BY <2>2
  <2>4. pc[u] \in {"idle", "sleeping"} /\ u \notin Subscribed /\ u \notin CreateWaiters
    OBVIOUS
  <2> HIDE DEF GetInner, BrokenFound
  <2> HIDE <1>1
  <2>5. CASE inner' # NoConn /\ Obtain(u, inner') /\ UNCHANGED creating
    BY <2>2, <2>3, <2>4, <2>5 DEF Obtain
  <2>6. CASE inner' = NoConn /\ AwaitCreate(u)
    BY <2>2, <2>3, <2>4, <2>6 DEF AwaitCreate
  <2>7. CASE inner' = NoConn /\ StartDial(u)
    BY <2>2, <2>3, <2>4, <2>7 DEF StartDial, NobodyCreates
  <2> QED BY <1>1, <2>5, <2>6, <2>7 DEF GetInner
<1>2. ASSUME NEW u \in Users, LookAgain(u) PROVE IInv'
  <2> USE <1>2 DEF LookAgain
  <2>1. CASE Live(inner)
    BY <2>1 DEF Obtain
  <2>2. CASE ~ Live(inner) /\ AwaitCreate(u)
    BY <2>2 DEF AwaitCreate
  <2>3. CASE ~ Live(inner) /\ StartDial(u)
    BY <2>3 DEF StartDial, NobodyCreates
  <2> QED BY <2>1, <2>2, <2>3
<1>3. ASSUME NEW u \in Users, GiveUpWaiting(u) PROVE IInv'
  BY <1>3 DEF GiveUpWaiting, ObtainNothing
<1>4. ASSUME NEW u \in Users, DialFails(u) PROVE IInv'
  BY <1>4 DEF DialFails, DialDone, CreateBroadcast, ObtainNothing
<1>5. ASSUME NEW u \in Users, DialOk(u) PROVE IInv'
  <2> USE <1>5 DEF DialOk, DialDone, CreateBroadcast, Obtain
  <2>1. creating /\ ~ Live(inner)
    OBVIOUS
  <2>2. TypeOK'
    <3>1. /\ made' = made + 1 /\ made' \in 0 .. MaxConns /\ inner' = made'
          /\ broken' \subseteq 1 .. made'
      OBVIOUS
    <3>2. conn' = [conn EXCEPT ![u] = made + 1] /\ conn' \in [Users -> 0 .. made']
      OBVIOUS
    <3>3. /\ pc' = [pc EXCEPT ![u] = IF u = Reader THEN "reading" ELSE "writing"]
          /\ \A v \in Users : conn'[v] # NoConn
                              <=> pc'[v] \in {"reading", "writing", "awaitingResult"}
      BY <3>2
    <3>4. createReleased' \subseteq CreateWaiters' /\ brokenReleased' \subseteq Subscribed'
      BY <3>3
    <3>5. pc' \in [Users -> {"idle", "sleeping", "awaitingCreate", "dialing", "reading",
                            "writing", "awaitingResult"}]
      BY <3>3
    <3>6. creating' \in BOOLEAN /\ closed' \in BOOLEAN /\ lateInstall' \in BOOLEAN
      OBVIOUS
    <3> QED BY <3>1, <3>2, <3>3, <3>4, <3>5, <3>6
  <2>3. OneDialer' /\ AwaitsRunningDial' /\ NeededDial'
    OBVIOUS
  <2>4. NoLiveOrphan' /\ NoFalseAlarm' /\ ClosedMeansBroken'
    BY <2>1
  <2> QED BY <2>2, <2>3, <2>4
<1>6. ASSUME NEW u \in Callers, Write(u) PROVE IInv'
  BY <1>6 DEF Write
<1>7. ASSUME NEW u \in Callers, WriteFails(u) PROVE IInv'
  BY <1>7 DEF WriteFails, CallerReturns
<1>8. ASSUME NEW u \in Callers, ToldBroken(u) PROVE IInv'
  BY <1>8 DEF ToldBroken, CallerReturns
<1>9. ASSUME NEW u \in Callers, ResultOrCancel(u) PROVE IInv'
  BY <1>9 DEF ResultOrCancel, CallerReturns
<1>10. CASE ReadOk
  BY <1>10 DEF ReadOk
<1>11. CASE ReadFails
  BY <1>11 DEF ReadFails, ObtainNothing
<1>12. CASE Close
  BY <1>12 DEF Close, ClosedConns
<1>13. CASE Break
  BY <1>13 DEF Break
<1>14. CASE UNCHANGED vars
  BY <1>14 DEF vars
<1> QED
  BY <1>1, <1>2, <1>3, <1>4, <1>5, <1>6, <1>7, <1>8, <1>9, <1>10, <1>11, <1>12,
     <1>13, <1>14 DEF Next

\* The invariant holds in every reachable state.
THEOREM Invariance == Spec => []IInv
  BY InitIInv, NextIInv, PTL DEF Spec

\* Types, and the relation between a user's place and its connection.
THEOREM TypeCorrect == Spec => []TypeOK
<1>1. IInv => TypeOK
  BY DEF IInv
<1> QED BY <1>1, Invariance, PTL

\* However many users find no connection, one dials (json-msg-ws.go:350-362).
THEOREM SingleDial == Spec => []OneDialer
<1>1. IInv => OneDialer
  BY DEF IInv
<1> QED BY <1>1, Invariance, PTL

\* Nobody waits for a dial that is already over (json-msg-ws.go:339-362).
THEOREM NoLostCreateSignal == Spec => []AwaitsRunningDial
<1>1. IInv => AwaitsRunningDial
  BY DEF IInv
<1> QED BY <1>1, Invariance, PTL

\* A connection that works is never replaced or forgotten
\* (json-msg-ws.go:320-323, 332, 366).
THEOREM NoConnectionLeaked == Spec => []NoLiveOrphan
<1>1. IInv => NoLiveOrphan
  BY DEF IInv
<1> QED BY <1>1, Invariance, PTL

\* A call is told "channel broken" only if its own connection broke.
THEOREM BrokenSignalIsTrue == Spec => []NoFalseAlarm
<1>1. IInv => NoFalseAlarm
  BY DEF IInv
<1> QED BY <1>1, Invariance, PTL

\* A closed channel has a live connection only through a getInner call that
\* Close overlapped (json-msg-ws.go:324, 366, 375-386).
THEOREM CloseCloses == Spec => []ClosedMeansBroken
<1>1. IInv => ClosedMeansBroken
  BY DEF IInv
<1> QED BY <1>1, Invariance, PTL
=============================================================================
