----------------------------- MODULE WsChannel -----------------------------
(***************************************************************************)
(* net-filter/json-rpc/json-msg-ws.go, WebSocketConn2MessageChannel: one   *)
(* websocket connection shared by two message channels, one for the rpc    *)
(* server side and one for the client side.  Whoever holds readMutex reads *)
(* the next frame into the single slot lastMessage; a reader that finds    *)
(* the other side's message there releases the mutex and waits on          *)
(* lastMsgTakenCond.                                                       *)
(*                                                                         *)
(* The condition is used as BroadcastCond specifies it (CondChan is shown  *)
(* to implement that): a reader is registered from Wait on, and released   *)
(* by the next Broadcast.  The peer's frames are numbered in their order   *)
(* of arrival; of a frame only what the routing looks at is kept.          *)
(***************************************************************************)
EXTENDS Naturals, Sequences, Enumeration

CONSTANTS
  Readers,     \* goroutines that call ReadCtx
  Role,        \* Role[r]: which of the two channels r reads, server or client
  NoReader,    \* readMutex is free
  MaxFrames    \* bound: number of frames the peer sends

ASSUME WsChannelAssumption ==
  /\ Role \in [Readers -> {"server", "client"}]
  /\ NoReader \notin Readers
  /\ MaxFrames \in Nat

\* What readToLastMsgLocked tells apart: an id and a method, an id only, a
\* method only, neither, and bytes that are not a json message.
Kinds == {"request", "response", "notification", "invalid", "garbage"}

VARIABLES
  readMutex,  \* the reader that holds it
  lastRole,   \* lastMessageRole, "none" for 0
  pc,         \* where each reader is in readFn; "failing" is waitErr # nil
  released,   \* the waiting readers whose channel has been closed by Broadcast
  cancelled,  \* the readers whose read context is done
  closed,     \* closeFn has run: ctx is done and the connection closed
  frames,     \* the side each frame read so far was for
  delivered   \* delivered[role]: the numbers of the frames returned by ReadCtx

vars == <<readMutex, lastRole, pc, released, cancelled, closed, frames, delivered>>

Init ==
  /\ readMutex = NoReader
  /\ lastRole = "none"
  /\ pc = [r \in Readers |-> "idle"]
  /\ released = {}
  /\ cancelled = {}
  /\ closed = FALSE
  /\ frames = <<>>
  /\ delivered = [role \in {"server", "client"} |-> <<>>]

-----------------------------------------------------------------------------
Goto(r, label) == pc' = [pc EXCEPT ![r] = label]

\* readFn returns: its deferred Unlock runs, and the context is the caller's
\* again, who brings a fresh one to the next call.
Return_Locked(r) ==   \* mutant: the Unlock is not deferred and left out
  /\ UNCHANGED readMutex
  /\ Goto(r, "idle")
  /\ cancelled' = cancelled \ {r}
Return(r) ==
  /\ readMutex' = NoReader
  /\ Goto(r, "idle")
  /\ cancelled' = cancelled \ {r}

\* The side a frame is for; "none" for one that readFn reports as an error.
RoleOf(kind) ==
  CASE kind = "request" -> "server"
    [] kind \in {"response", "notification"} -> "client"
    [] OTHER -> "none"

ReadCtx(r) ==
  /\ pc[r] = "idle"
  /\ Goto(r, "locking")
  /\ UNCHANGED <<readMutex, lastRole, released, cancelled, closed, frames, delivered>>

Lock(r) ==
  /\ pc[r] = "locking"
  /\ readMutex = NoReader
  /\ readMutex' = r
  /\ Goto(r, "looping")
  /\ UNCHANGED <<lastRole, released, cancelled, closed, frames, delivered>>

\* lastMessageRole after its message is taken.
Taken_Kept(role) == role     \* mutant: not reset to 0
Taken(role) == "none"

\* The readers that have called Wait and are not yet out of their select.
Registered == {r \in Readers : pc[r] = "waiting"}

Broadcast_Missing == released   \* mutant: lastMsgTakenCond.Broadcast() is left out
Broadcast == released \cup Registered

\* The loop finds the reader's own message in the slot.
Take(r) ==
  /\ pc[r] = "looping"
  /\ lastRole = Role[r]
  /\ delivered' = [delivered EXCEPT ![Role[r]] = Append(@, Len(frames))]
  /\ lastRole' = Taken(lastRole)
  /\ released' = Broadcast
  /\ Return(r)
  /\ UNCHANGED <<closed, frames>>

\* The loop finds the other side's message: Wait, then unlock, then select.
AwaitTaken(r) ==
  /\ pc[r] = "looping"
  /\ lastRole \notin {"none", Role[r]}
  /\ readMutex' = NoReader
  /\ Goto(r, "waiting")
  /\ UNCHANGED <<lastRole, released, cancelled, closed, frames, delivered>>

\* `case <-ch`
Wake(r) ==
  /\ pc[r] = "waiting"
  /\ r \in released
  /\ released' = released \ {r}
  /\ Goto(r, "relocking")
  /\ UNCHANGED <<readMutex, lastRole, cancelled, closed, frames, delivered>>

\* Ten seconds have passed, or the read context or the connection is done.
\* The duration is abstracted: the timer may fire at any time.
GiveUp(r) ==
  /\ pc[r] = "waiting"
  /\ released' = released \ {r}
  /\ Goto(r, "failing")
  /\ UNCHANGED <<readMutex, lastRole, cancelled, closed, frames, delivered>>

\* Where a reader goes on when it has the mutex back after its wait.
AfterWait_Read(r) == "reading"   \* mutant: no `continue`, reads on at once
AfterWait(r) == "looping"

RelockAndLoop(r) ==
  /\ pc[r] = "relocking"
  /\ readMutex = NoReader
  /\ readMutex' = r
  /\ Goto(r, AfterWait(r))
  /\ UNCHANGED <<lastRole, released, cancelled, closed, frames, delivered>>

RelockAndFail(r) ==
  /\ pc[r] = "failing"
  /\ readMutex = NoReader
  /\ Return(r)
  /\ UNCHANGED <<lastRole, released, closed, frames, delivered>>

-----------------------------------------------------------------------------
\* readToLastMsgLocked enters ReceiveFullFrame with a live context.
StartRead(r) ==
  /\ pc[r] = "looping"
  /\ lastRole = "none"
  /\ r \notin cancelled
  /\ Goto(r, "reading")
  /\ UNCHANGED <<readMutex, lastRole, released, cancelled, closed, frames, delivered>>

\* A whole frame arrives.  It may have been buffered before a close.  An
\* invalid frame is reported to whoever read it; the connection stays open.
Receive(r) ==
  /\ pc[r] = "reading"
  /\ Len(frames) < MaxFrames
  /\ \E kind \in Kinds :
       /\ frames' = Append(frames, RoleOf(kind))
       /\ lastRole' = RoleOf(kind)
       /\ IF RoleOf(kind) = "none"
          THEN Return(r)
          ELSE Goto(r, "looping") /\ UNCHANGED <<readMutex, cancelled>>
  /\ UNCHANGED <<released, closed, delivered>>

\* ReceiveFullFrame finds the context done, at its entry or before the next
\* fragment; or the connection fails, as it may at any time and does once it
\* is closed.  Either way the connection is closed for both sides.
ReceiveFails(r) ==
  /\ \/ pc[r] = "looping" /\ lastRole = "none" /\ r \in cancelled
     \/ pc[r] = "reading"
  /\ closed' = TRUE
  /\ Return(r)
  /\ UNCHANGED <<lastRole, released, frames, delivered>>

\* Close of either channel, or a failed write, which calls closeFn too.
CloseFn ==
  /\ ~ closed
  /\ closed' = TRUE
  /\ UNCHANGED <<readMutex, lastRole, pc, released, cancelled, frames, delivered>>

\* The caller's context ends during its call.
CancelCtx(r) ==
  /\ pc[r] # "idle"
  /\ r \notin cancelled
  /\ cancelled' = cancelled \cup {r}
  /\ UNCHANGED <<readMutex, lastRole, pc, released, closed, frames, delivered>>

-----------------------------------------------------------------------------
\* Steps of a reader that wait for nothing but the mutex or the environment.
Acquire(r) == Lock(r) \/ RelockAndLoop(r) \/ RelockAndFail(r)
Leave(r)   == Wake(r) \/ GiveUp(r)
Run(r)     == \/ Take(r) \/ AwaitTaken(r) \/ StartRead(r)
              \/ (pc[r] = "looping" \/ closed) /\ ReceiveFails(r)

Next ==
  \/ \E r \in Readers :
       \/ ReadCtx(r) \/ CancelCtx(r)
       \/ Lock(r) \/ RelockAndLoop(r) \/ RelockAndFail(r)
       \/ Take(r) \/ AwaitTaken(r) \/ Wake(r) \/ GiveUp(r)
       \/ StartRead(r) \/ Receive(r) \/ ReceiveFails(r)
  \/ CloseFn

Spec == Init /\ [][Next]_vars

\* Goroutines run; a select with a timer ends; a read on a closed connection
\* fails; sync.Mutex hands the lock over to a goroutine that has waited too
\* long (its starvation mode), hence the strong fairness of Acquire.  The peer
\* need not send, nor anybody read, cancel or close.
FairSpec ==
  /\ Spec
  /\ \A r \in Readers : /\ SF_vars(Acquire(r))
                        /\ WF_vars(Leave(r))
                        /\ WF_vars(Run(r))

-----------------------------------------------------------------------------
InCall(r) == pc[r] # "idle"

\* Types; the mutex is held exactly in the part of readFn between Lock and
\* Unlock, which the code leaves and re-enters around its select.
TypeOK ==
  /\ readMutex \in Readers \cup {NoReader}
  /\ lastRole \in {"none", "server", "client"}
  /\ pc \in [Readers -> {"idle", "locking", "looping", "reading", "waiting",
                         "relocking", "failing"}]
  /\ released \subseteq Registered
  /\ cancelled \subseteq {r \in Readers : InCall(r)}
  /\ closed \in BOOLEAN
  /\ frames \in Seq({"none", "server", "client"})
  /\ delivered \in [{"server", "client"} -> Seq(Nat)]
  /\ \A r \in Readers : pc[r] \in {"looping", "reading"} <=> readMutex = r

\* The assertion at lines 78-80, whose failure is a panic that takes the
\* process down: a frame is never read while a message is still in the slot.
SlotFreeWhileReading == \A r \in Readers : pc[r] = "reading" => lastRole = "none"

\* Every frame is returned by ReadCtx of the side it is for, once and in order
\* of arrival, and only the last one may still be in the slot; nothing is lost
\* when the reading goroutine, the owner of the frame and a third one change
\* places (lines 86-116).
Listed(role) == delivered[role] \o (IF lastRole = role THEN <<Len(frames)>> ELSE <<>>)
FramesFor(role) == {n \in DOMAIN frames : frames[n] = role}
DeliveredOnceInOrder ==
  \A role \in {"server", "client"} : Enumerates(Listed(role), FramesFor(role))

\* A reader that sleeps without having been released is waiting for a message
\* of the other side that is still in the slot: the Broadcast of the taker
\* cannot fall between its test of the slot and its sleep (lines 115-126).
SleepsForTheOther ==
  \A r \in Readers :
    pc[r] = "waiting" /\ r \notin released => lastRole \notin {"none", Role[r]}

\* After a close of either channel, or an error of either side's read, every
\* ReadCtx call of both sides returns (lines 52-55, 82-85, 129-130).
CloseEndsReads == \A r \in Readers : closed /\ InCall(r) ~> ~ InCall(r)

\* A message in the slot is taken, or the call of the reader it is for ends,
\* however often the mutex is passed between other readers (lines 112-143).
SlotIsTaken ==
  \A r \in Readers :
    InCall(r) /\ lastRole = Role[r] ~> lastRole # Role[r] \/ ~ InCall(r)
=============================================================================
