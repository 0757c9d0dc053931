------------------------- MODULE RpcSession_proofs -------------------------
(***************************************************************************)
(* Theorems about RpcSession, for any sets of requests and events.  The    *)
(* strengthening is about causes: Caused says why w.ctx can be done and    *)
(* why a loop can have left its select, which is what makes the writer's   *)
(* error arrive in time; OneInHand ties the writer's message to its stage. *)
(***************************************************************************)
EXTENDS RpcSession, TLAPS

WriterEnding == writer \in {"cancelling", "closing", "done"}

\* A cause of the end of the session other than the writer.
OtherCause == readFailed \/ parentDone

\* Before Serve has looked for writeError, w.ctx is done, or the writer is on
\* its way out, only for the parent's sake or with the error stored.
Caused ==
  /\ ctxDone \/ WriterEnding => OtherCause \/ writeError
  /\ chClosed => OtherCause \/ writeError
  /\ serve # "reading" => OtherCause \/ writeError
  /\ serve \in {"reading", "loading"} => result = "none"

OneInHand ==
  /\ writer = "selecting" => current = NoMsg
  /\ writer = "writing" => stage[current] = "taken"
  /\ writer = "calling" =>
       current \in WithCb /\ Settled(current) /\ current \notin called

Stages == {"new", "handling", "sending", "dropped", "queued", "taken", "written",
           "unwritten"}
WriterStates == {"selecting", "writing", "calling", "storing", "cancelling", "closing",
                 "done"}

\* What is said of messages, and what is said of how the session ends: a step
\* of a sender leaves the second alone, a step of Serve the first.
MessageInv ==
  /\ stage \in [Messages -> Stages]
  /\ out \in Messages \cup {NoMsg} /\ current \in Messages \cup {NoMsg}
  /\ \A m \in Messages : stage[m] = "queued" <=> out = m
  /\ \A m \in Messages : stage[m] = "taken" <=> writer = "writing" /\ current = m
  /\ writer \in {"writing", "calling"} => current # NoMsg
  /\ writer \in WriterStates
  /\ called \subseteq WithCb
  /\ CallbackFollowsWrite
  /\ OneInHand
EndInv ==
  /\ writer \in WriterStates
  /\ serve \in {"reading", "loading", "cancelling", "returned"}
  /\ result \in {"none", "read error", "write error"}
  /\ {writeFailed, writeError, ctxDone, chClosed, readFailed, parentDone} \subseteq BOOLEAN
  /\ WriterErrorIsReported
  /\ Caused
IInv == MessageInv /\ EndInv

LEMMA Sets == NoMsg \notin Messages /\ WithCb \subseteq Messages
  BY RpcSessionAssumption DEF Messages

\* The invariant holds initially.
LEMMA InitIInv == Init => IInv
<1> SUFFICES ASSUME Init PROVE IInv
  OBVIOUS
<1>1. MessageInv
  BY Sets DEF Init, MessageInv, Stages, WriterStates, CallbackFollowsWrite, OneInHand,
              Settled
<1>2. EndInv
  BY DEF Init, EndInv, WriterStates, WriterErrorIsReported, Caused, WriterEnding,
         OtherCause
<1> QED BY <1>1, <1>2 DEF IInv

\* Nothing that is said of messages changes.
LEMMA MessagesKept ==
  ASSUME MessageInv, UNCHANGED <<stage, out, writer, current, called>>
  PROVE  MessageInv'
BY DEF MessageInv, CallbackFollowsWrite, OneInHand, Settled

\* Nothing that is said of the end changes.
LEMMA EndKept ==
  ASSUME EndInv, UNCHANGED <<writer, writeFailed, serveVars, writeError, ctxDone, chClosed>>
  PROVE  EndInv'
BY DEF EndInv, serveVars, WriterErrorIsReported, Caused, WriterEnding, OtherCause

\* A message moves before it is queued or instead of it.
Early == {"new", "handling", "sending", "dropped"}
LEMMA MessageMoves ==
  ASSUME MessageInv, NEW m \in Messages, NEW s \in Early, stage[m] \in Early,
         SetStage(m, s), UNCHANGED <<out, writer, current, called>>
  PROVE  MessageInv'
<1>1. /\ stage' \in [Messages -> Stages] /\ stage'[m] = s
      /\ \A n \in Messages : n # m => stage'[n] = stage[n]
  BY DEF MessageInv, SetStage, Early, Stages
<1>2. \A n \in Messages, late \in Stages \ Early : stage'[n] = late <=> stage[n] = late
  BY <1>1
<1>3. \A n \in Messages : /\ stage'[n] = "queued" <=> stage[n] = "queued"
                          /\ stage'[n] = "taken" <=> stage[n] = "taken"
                          /\ Settled(n)' <=> Settled(n)
  BY <1>2 DEF Settled, Stages, Early
<1>4. CallbackFollowsWrite'
  BY <1>3, Sets DEF MessageInv, CallbackFollowsWrite
<1>5. OneInHand'
  BY <1>3, Sets DEF MessageInv, OneInHand
<1> QED BY <1>1, <1>3, <1>4, <1>5 DEF MessageInv

\* The writer is on its way out, with nothing in hand.
LEMMA WriterLeaves ==
  ASSUME MessageInv, writer \notin {"writing", "calling"},
         writer' \in WriterStates \ {"selecting", "writing", "calling"},
         UNCHANGED <<stage, out, current, called>>
  PROVE  MessageInv'
BY DEF MessageInv, CallbackFollowsWrite, OneInHand, Settled

\* The writer goes on with a message, or with the next one.
LEMMA WriterWorks ==
  ASSUME EndInv, writer \notin {"cancelling", "closing", "done"},
         writer' \in {"selecting", "writing", "calling", "storing"},
         writeFailed' \in BOOLEAN,
         UNCHANGED <<serveVars, writeError, ctxDone, chClosed>>
  PROVE  EndInv'
BY DEF EndInv, WriterStates, serveVars, WriterErrorIsReported, Caused, WriterEnding,
       OtherCause

LEMMA QueueKeeps == ASSUME MessageInv, NEW m \in Messages, Queue(m) PROVE MessageInv'
<1>1. /\ stage[m] = "sending" /\ out = NoMsg /\ out' = m
      /\ stage' = [stage EXCEPT ![m] = "queued"] /\ UNCHANGED <<writer, current, called>>
  BY DEF Queue, Room, SetStage, writerVars
<1>2. /\ stage' \in [Messages -> Stages] /\ stage'[m] = "queued"
      /\ \A n \in Messages : n # m => stage'[n] = stage[n]
  BY <1>1 DEF MessageInv, Stages
<1>3. \A n \in Messages : /\ stage'[n] = "queued" <=> out' = n
                          /\ stage'[n] = "taken" <=> stage[n] = "taken"
                          /\ Settled(n)' <=> Settled(n)
  BY <1>1, <1>2, Sets DEF MessageInv, Settled
<1>4. CallbackFollowsWrite' /\ OneInHand'
  BY <1>1, <1>3, Sets DEF MessageInv, CallbackFollowsWrite, OneInHand
<1> QED BY <1>1, <1>2, <1>3, <1>4 DEF MessageInv

LEMMA TakeKeeps == ASSUME MessageInv, Take PROVE MessageInv'
<1>1. /\ writer = "selecting" /\ out \in Messages /\ current' = out /\ out' = NoMsg
      /\ stage' = [stage EXCEPT ![out] = "taken"] /\ writer' = "writing"
      /\ called' = called
  BY DEF Take, SetStage, MessageInv
<1>2. /\ stage' \in [Messages -> Stages] /\ stage'[out] = "taken" /\ stage[out] = "queued"
      /\ \A n \in Messages : n # out => stage'[n] = stage[n]
  BY <1>1 DEF MessageInv, Stages
<1>3. \A n \in Messages : /\ stage'[n] = "queued" <=> out' = n
                          /\ stage'[n] = "taken" <=> n = out
                          /\ Settled(n)' <=> Settled(n)
  BY <1>1, <1>2, Sets DEF MessageInv, Settled
<1>4. CallbackFollowsWrite' /\ OneInHand'
  BY <1>1, <1>2, <1>3, Sets DEF MessageInv, CallbackFollowsWrite, OneInHand
<1> QED BY <1>1, <1>2, <1>3, <1>4, Sets DEF MessageInv, WriterStates

LEMMA WriteKeeps == ASSUME MessageInv, Write PROVE MessageInv'
<1>1. PICK s \in {"written", "unwritten"}, f \in BOOLEAN :
        /\ writer = "writing" /\ SetStage(current, s) /\ writer' = AfterWrite(current, f)
        /\ current' = IF writer' = "selecting" THEN NoMsg ELSE current
        /\ UNCHANGED <<out, called>>
  BY DEF Write
<1>2. current \in Messages /\ stage[current] = "taken" /\ current \notin called
  BY <1>1 DEF MessageInv, OneInHand, CallbackFollowsWrite, Settled
<1>3. /\ stage' \in [Messages -> Stages] /\ stage'[current] = s
      /\ \A n \in Messages : n # current => stage'[n] = stage[n]
  BY <1>1, <1>2 DEF MessageInv, SetStage, Stages
<1>4. /\ writer' \in {"calling", "storing", "selecting"}
      /\ writer' = "calling" <=> current \in WithCb
  BY <1>1 DEF AfterWrite, OnError
<1>5. \A n \in Messages : /\ stage'[n] = "queued" <=> stage[n] = "queued"
                          /\ stage'[n] # "taken"
                          /\ Settled(n)' <=> Settled(n) \/ n = current
  BY <1>1, <1>2, <1>3 DEF MessageInv, Settled
<1>6. current' \in Messages \cup {NoMsg}
      /\ (writer' # "selecting" => current' = current)
      /\ (writer' = "selecting" => current' = NoMsg)
  BY <1>1, <1>2
<1>7. CallbackFollowsWrite'
  BY <1>1, <1>2, <1>4, <1>5, <1>6, Sets DEF MessageInv, CallbackFollowsWrite
<1>8. OneInHand'
  BY <1>1, <1>2, <1>4, <1>5, <1>6, Sets DEF OneInHand
<1>9. writer' \in {"writing", "calling"} => current' # NoMsg
  BY <1>2, <1>4, <1>6, Sets
<1> QED BY <1>1, <1>3, <1>4, <1>5, <1>6, <1>7, <1>8, <1>9 DEF MessageInv, WriterStates

LEMMA CallBackKeeps == ASSUME MessageInv, CallBack PROVE MessageInv'
<1>1. /\ writer = "calling" /\ called' = called \cup {current} /\ UNCHANGED <<stage, out>>
      /\ \/ writer' = "storing" /\ current' = current
         \/ writer' = "selecting" /\ current' = NoMsg
  BY DEF CallBack, OnError
<1>2. current \in WithCb /\ Settled(current)
  BY <1>1 DEF MessageInv, OneInHand
<1>3. CallbackFollowsWrite' /\ OneInHand'
  BY <1>1, <1>2 DEF MessageInv, CallbackFollowsWrite, OneInHand, Settled
<1> QED BY <1>1, <1>2, <1>3 DEF MessageInv, WriterStates

\* Every step of Serve, of the senders and of the writer preserves it.
LEMMA NextIInv == IInv /\ [Next]_vars => IInv'
<1> SUFFICES ASSUME MessageInv, EndInv, [Next]_vars PROVE MessageInv' /\ EndInv'
  BY DEF IInv
<1>1. ASSUME NEW m \in Messages, ReadRequest(m) PROVE MessageInv' /\ EndInv'
  BY <1>1, MessageMoves, EndKept DEF ReadRequest, Early, writerVars
<1>2. ASSUME NEW m \in Messages, HandlerEnds(m) PROVE MessageInv' /\ EndInv'
  BY <1>2, MessageMoves, EndKept DEF HandlerEnds, Early, writerVars
<1>3. ASSUME NEW m \in Messages, Emit(m) PROVE MessageInv' /\ EndInv'
  BY <1>3, MessageMoves, EndKept DEF Emit, Early, writerVars
<1>4. ASSUME NEW m \in Messages, Queue(m) PROVE MessageInv' /\ EndInv'
  BY <1>4, QueueKeeps, EndKept DEF Queue, writerVars
<1>5. ASSUME NEW m \in Messages, Drop(m) PROVE MessageInv' /\ EndInv'
  BY <1>5, MessageMoves, EndKept DEF Drop, Early, writerVars
<1>6. CASE ReadFails
  <2>1. EndInv'
    BY <1>6 DEF ReadFails, EndInv, WriterErrorIsReported, Caused, WriterEnding, OtherCause,
                writerVars
  <2> QED BY <1>6, <2>1, MessagesKept DEF ReadFails, writerVars
<1>7. CASE ReadEnds
  <2>1. EndInv'
    BY <1>7 DEF ReadEnds, EndInv, WriterErrorIsReported, Caused, WriterEnding, OtherCause,
                writerVars
  <2> QED BY <1>7, <2>1, MessagesKept DEF ReadEnds, writerVars
<1>8. CASE LoadWriteError
  <2>1. EndInv'
    BY <1>8 DEF LoadWriteError, EndInv, WriterErrorIsReported, Caused, WriterEnding,
                OtherCause, writerVars
  <2> QED BY <1>8, <2>1, MessagesKept DEF LoadWriteError, writerVars
<1>9. CASE ServeReturns
  <2>1. EndInv'
    BY <1>9 DEF ServeReturns, ServeCancels, EndInv, WriterErrorIsReported, Caused,
                WriterEnding, OtherCause, writerVars
  <2> QED BY <1>9, <2>1, MessagesKept DEF ServeReturns, writerVars
<1>10. CASE ParentDone
  <2>1. EndInv'
    BY <1>10 DEF ParentDone, EndInv, WriterErrorIsReported, Caused, WriterEnding,
                 OtherCause, writerVars
  <2> QED BY <1>10, <2>1, MessagesKept DEF ParentDone, writerVars
<1>11. CASE Take
  <2>1. writeFailed' \in BOOLEAN
    BY <1>11 DEF Take, EndInv
  <2> QED BY <1>11, <2>1, TakeKeeps, WriterWorks DEF Take
<1>12. CASE Write
  <2>1. writer' \in {"calling", "storing", "selecting"} /\ writeFailed' \in BOOLEAN
    BY <1>12 DEF Write, AfterWrite, OnError
  <2> QED BY <1>12, <2>1, WriteKeeps, WriterWorks DEF Write
<1>13. CASE CallBack
  <2>1. writer' \in {"storing", "selecting"} /\ writeFailed' \in BOOLEAN
    BY <1>13 DEF CallBack, OnError, EndInv
  <2> QED BY <1>13, <2>1, CallBackKeeps, WriterWorks DEF CallBack
<1>14. CASE Stop
  <2>1. EndInv'
    BY <1>14 DEF Stop, EndInv, WriterStates, WriterErrorIsReported, Caused, WriterEnding,
                 OtherCause, serveVars
  <2> QED BY <1>14, <2>1, WriterLeaves DEF Stop, WriterStates
<1>15. CASE StoreWriteError
  <2>1. EndInv'
    BY <1>15 DEF StoreWriteError, EndInv, WriterStates, WriterErrorIsReported, Caused,
                 WriterEnding, OtherCause, serveVars
  <2> QED BY <1>15, <2>1, WriterLeaves DEF StoreWriteError, WriterStates
<1>16. CASE WriterCancels
  <2>1. EndInv'
    BY <1>16 DEF WriterCancels, EndInv, WriterStates, WriterErrorIsReported, Caused,
                 WriterEnding, OtherCause, serveVars
  <2> QED BY <1>16, <2>1, WriterLeaves DEF WriterCancels, WriterStates
<1>17. CASE CloseChannel
  <2>1. EndInv'
    BY <1>17 DEF CloseChannel, Closed, EndInv, WriterStates, WriterErrorIsReported, Caused,
                 WriterEnding, OtherCause, serveVars
  <2> QED BY <1>17, <2>1, WriterLeaves DEF CloseChannel, WriterStates
<1>18. CASE UNCHANGED vars
  BY <1>18, MessagesKept, EndKept DEF vars, serveVars
<1> QED
  BY <1>1, <1>2, <1>3, <1>4, <1>5, <1>6, <1>7, <1>8, <1>9, <1>10, <1>11, <1>12,
     <1>13, <1>14, <1>15, <1>16, <1>17, <1>18 DEF Next

\* The invariant holds in every reachable state.
THEOREM Invariance == Spec => []IInv
  BY InitIInv, NextIInv, PTL DEF Spec

\* Types, and that w.out and the writer hold each message once.
THEOREM TypeCorrect == Spec => []TypeOK
<1>1. IInv => TypeOK
  BY DEF IInv, MessageInv, EndInv, TypeOK, Stages, WriterStates
<1> QED BY <1>1, Invariance, PTL

\* When the writer ended the session, Serve reports the writer's error
\* (json-rpc-server.go:72-78, 84-89).
THEOREM WriterErrorWins == Spec => []WriterErrorIsReported
<1>1. IInv => WriterErrorIsReported
  BY DEF IInv, EndInv
<1> QED BY <1>1, Invariance, PTL

\* A callback is told of every write of its event, failed or not
\* (json-rpc-server.go:93-102).
THEOREM CallbackIsTold == Spec => []CallbackFollowsWrite
<1>1. IInv => CallbackFollowsWrite
  BY DEF IInv, MessageInv
<1> QED BY <1>1, Invariance, PTL
=============================================================================
