---------------------------- MODULE RpcCli_proofs ----------------------------
(***************************************************************************)
(* Theorems about RpcCli, for any set of callers and any number of calls.  *)
(* Fresh and InHand are what the checked invariants lack to be inductive:  *)
(* the id of a call that has not begun its write is unknown to the peer,   *)
(* and a call that init has taken out of the map is in its hands alone     *)
(* until it is answered.                                                   *)
(***************************************************************************)
EXTENDS RpcCli, TLAPS

Fresh ==
  \A c \in Callers :
    /\ InCall(c) => id[c] # NoId
    /\ pc[c] = "registering" => id[c] \notin written \cup callMap

InHand ==
  /\ loop \in {"decoding", "sending"} =>
       msgId \notin callMap /\ ch[msgId] = "empty" /\ returned[msgId] # "answer"
  /\ loop = "sending" => msgId \in decoded
  /\ \A i \in Ids : ch[i] = "answer" => i \in decoded

IInv ==
  /\ TypeOK
  /\ AnswersAtMostOnce
  /\ PendingIsRunning
  /\ AnswerIsDecoded
  /\ Fresh
  /\ InHand

\* The invariant holds initially.
LEMMA InitIInv == Init => IInv
<1> SUFFICES ASSUME Init PROVE IInv
  OBVIOUS
<1>1. seq \in 0 .. MaxCalls /\ id \in [Callers -> 0 .. seq] /\ msgId \in 0 .. seq
  BY RpcCliAssumption DEF Init, NoId
<1>2. TypeOK
  BY <1>1 DEF Init, TypeOK
<1>3. AnswersAtMostOnce /\ PendingIsRunning /\ AnswerIsDecoded /\ Fresh /\ InHand
  BY DEF Init, AnswersAtMostOnce, PendingIsRunning, AnswerIsDecoded, Fresh, InHand, InCall
<1> QED BY <1>2, <1>3 DEF IInv

\* Every step of a caller and of init preserves it.
LEMMA NextIInv == IInv /\ [Next]_vars => IInv'
<1> USE RpcCliAssumption
<1> SUFFICES ASSUME IInv, [Next]_vars PROVE IInv'
  OBVIOUS
<1> USE DEF IInv, TypeOK, AnswersAtMostOnce, PendingIsRunning, AnswerIsDecoded, Fresh,
            InHand, InCall, CallerOf, Ids, NoId, callVars
<1>1. ASSUME NEW c \in Callers, NewId(c) PROVE IInv'
  BY <1>1 DEF NewId, NextId
<1>2. ASSUME NEW c \in Callers, Register(c) PROVE IInv'
  <2> USE <1>2 DEF Register
  <2>1. TypeOK'
    <3>1. id[c] \in 1 .. seq
      OBVIOUS
    <3>2. callMap' \subseteq 1 .. seq
      BY <3>1
    <3>3. pc' \in [Callers -> {"idle", "registering", "writing", "waiting", "leaving"}]
      OBVIOUS
    <3> QED BY <3>2, <3>3
  <2>2. AnswersAtMostOnce' /\ AnswerIsDecoded'
    OBVIOUS
  <2>3. PendingIsRunning'
    <3>1. ASSUME NEW i \in callMap' PROVE CallerOf(i)' # {}
      OBVIOUS
    <3>2. ASSUME NEW d \in Callers, pc'[d] \in {"writing", "waiting"}
          PROVE  \/ id'[d] \in callMap'
                 \/ ch'[id'[d]] = "answer"
                 \/ loop' \in {"decoding", "sending"} /\ msgId' = id'[d]
      BY <3>2
    <3> QED BY <3>1, <3>2
  <2>4. Fresh'
    OBVIOUS
  <2>5. InHand'
    OBVIOUS
  <2> QED BY <2>1, <2>2, <2>3, <2>4, <2>5
<1>3. ASSUME NEW c \in Callers, RequestArrives(c) PROVE IInv'
  <2> USE <1>3 DEF RequestArrives
  <2>1. TypeOK'
    <3>1. id[c] \in 1 .. seq
      OBVIOUS
    <3>2. written' \subseteq 1 .. seq /\ decoded \subseteq written'
      BY <3>1
    <3>3. pc' \in [Callers -> {"idle", "registering", "writing", "waiting", "leaving"}]
      OBVIOUS
    <3> QED BY <3>2, <3>3
  <2>2. AnswersAtMostOnce' /\ AnswerIsDecoded'
    OBVIOUS
  <2>3. PendingIsRunning'
    <3>1. ASSUME NEW i \in callMap' PROVE CallerOf(i)' # {}
      OBVIOUS
    <3>2. ASSUME NEW d \in Callers, pc'[d] \in {"writing", "waiting"}
          PROVE  \/ id'[d] \in callMap'
                 \/ ch'[id'[d]] = "answer"
                 \/ loop' \in {"decoding", "sending"} /\ msgId' = id'[d]
      BY <3>2
    <3> QED BY <3>1, <3>2
  <2>4. Fresh'
    OBVIOUS
  <2>5. InHand'
    OBVIOUS
  <2> QED BY <2>1, <2>2, <2>3, <2>4, <2>5
<1>4. ASSUME NEW c \in Callers, WriteOk(c) PROVE IInv'
  BY <1>4 DEF WriteOk
<1>5. ASSUME NEW c \in Callers, WriteFails(c) PROVE IInv'
  BY <1>5 DEF WriteFails
<1>6. ASSUME NEW c \in Callers, GiveUp(c) PROVE IInv'
  BY <1>6 DEF GiveUp
<1>7. ASSUME NEW c \in Callers, Fail(c) PROVE IInv'
  <2> USE <1>7 DEF Fail, Removed
  <2>1. TypeOK'
    OBVIOUS
  <2>2. AnswersAtMostOnce' /\ AnswerIsDecoded'
    OBVIOUS
  <2>3. PendingIsRunning'
    <3>1. ASSUME NEW i \in callMap' PROVE CallerOf(i)' # {}
      OBVIOUS
    <3>2. ASSUME NEW d \in Callers, pc'[d] \in {"writing", "waiting"}
          PROVE  \/ id'[d] \in callMap'
                 \/ ch'[id'[d]] = "answer"
                 \/ loop' \in {"decoding", "sending"} /\ msgId' = id'[d]
      BY <3>2
    <3> QED BY <3>1, <3>2
  <2>4. Fresh'
    OBVIOUS
  <2>5. InHand'
    OBVIOUS
  <2> QED BY <2>1, <2>2, <2>3, <2>4, <2>5
<1>8. ASSUME NEW c \in Callers, Answered(c) PROVE IInv'
  BY <1>8 DEF Answered
<1>9. CASE Check
  BY <1>9 DEF Check
<1>10. CASE ReadResponse
  BY <1>10 DEF ReadResponse
<1>11. CASE ReadEvent
  BY <1>11 DEF ReadEvent
<1>12. CASE EventHandled
  BY <1>12 DEF EventHandled
<1>13. CASE ReadFails
  BY <1>13 DEF ReadFails
<1>14. CASE Lookup
  BY <1>14 DEF Lookup, Forgotten, AfterFound
<1>15. CASE Decode
  BY <1>15 DEF Decode
<1>16. CASE Send
  BY <1>16 DEF Send, Room
<1>17. CASE CloseChannel
  BY <1>17 DEF CloseChannel
<1>18. CASE CancelCtx
  BY <1>18 DEF CancelCtx, Cancelled
<1>19. CASE ParentDone
  BY <1>19 DEF ParentDone
<1>20. CASE UNCHANGED vars
  BY <1>20 DEF vars
<1> QED
  BY <1>1, <1>2, <1>3, <1>4, <1>5, <1>6, <1>7, <1>8, <1>9, <1>10, <1>11, <1>12, <1>13,
     <1>14, <1>15, <1>16, <1>17, <1>18, <1>19, <1>20 DEF Next

\* The invariant holds in every reachable state.
THEOREM Invariance == Spec => []IInv
  BY InitIInv, NextIInv, PTL DEF Spec

\* Types, and that no two calls share an id (json-rpc-cli.go:112).
THEOREM TypeCorrect == Spec => []TypeOK
<1>1. IInv => TypeOK
  BY DEF IInv
<1> QED BY <1>1, Invariance, PTL

\* The read loop never blocks on a call, and never answers one twice, however
\* late or often the peer responds (json-rpc-cli.go:69-82, 119).
THEOREM LoopNeverBlocks == Spec => []AnswersAtMostOnce
<1>1. IInv => AnswersAtMostOnce
  BY DEF IInv
<1> QED BY <1>1, Invariance, PTL

\* callMap holds running calls only, and every waiting call still has somebody
\* to answer it (json-rpc-cli.go:122-132, 149-151).
THEOREM NoStalePending == Spec => []PendingIsRunning
<1>1. IInv => PendingIsRunning
  BY DEF IInv
<1> QED BY <1>1, Invariance, PTL

\* An answered call has its result (json-rpc-cli.go:76-82).
THEOREM ResultIsThere == Spec => []AnswerIsDecoded
<1>1. IInv => AnswerIsDecoded
  BY DEF IInv
<1> QED BY <1>1, Invariance, PTL
=============================================================================
