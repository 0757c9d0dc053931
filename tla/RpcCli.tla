------------------------------- MODULE RpcCli -------------------------------
(***************************************************************************)
(* net-filter/json-rpc/json-rpc-cli.go: the client side of the rpc.  Call  *)
(* registers a pending call under a fresh id, writes the request and waits *)
(* in a select; one goroutine (init) reads the channel and hands each      *)
(* response to the pending call of its id.                                 *)
(*                                                                         *)
(* A pending call is identified with its id.  The peer and the message     *)
(* channel are the environment: a written request may be answered late,    *)
(* twice or never, in any order; reads and writes may fail at any time.    *)
(***************************************************************************)
EXTENDS Naturals

CONSTANTS
  Callers,   \* goroutines that call Cli.Call
  MaxCalls   \* bound: number of calls

ASSUME RpcCliAssumption == MaxCalls \in Nat

Ids  == 1 .. MaxCalls
NoId == 0                \* an event's id; no call yet

VARIABLES
  seq,       \* c.seq
  pc,        \* where each caller is in Call
  id,        \* id[c]: the id of c's current (or last) call
  callMap,   \* the ids of the pending calls in c.callMap
  written,   \* the ids of the requests that reached the peer
  ch,        \* ch[i]: call.ch of call i is "empty", or holds its "answer"
  returned,  \* returned[i]: what call i returned: "nothing" yet, "answer", "error"
  decoded,   \* the ids whose answer has been unmarshalled into the caller's result
  loop,      \* where init is
  msgId,     \* the ID of the message init read last
  ctxDone    \* c.ctx is done

vars == <<seq, pc, id, callMap, written, ch, returned, decoded, loop, msgId, ctxDone>>
callVars == <<seq, pc, id, written, returned>>

Init ==
  /\ seq = 0
  /\ pc = [c \in Callers |-> "idle"]
  /\ id = [c \in Callers |-> NoId]
  /\ callMap = {}
  /\ written = {}
  /\ ch = [i \in Ids |-> "empty"]
  /\ returned = [i \in Ids |-> "nothing"]
  /\ decoded = {}
  /\ loop = "checking"
  /\ msgId = NoId
  /\ ctxDone = FALSE

-----------------------------------------------------------------------------
NextId_Stale == IF seq = 0 THEN 1 ELSE seq   \* mutant: the increment is lost
NextId == seq + 1

\* Call takes the next id (an atomic increment) and makes its pending call.
NewId(c) ==
  /\ pc[c] = "idle"
  /\ seq < MaxCalls
  /\ seq' = NextId
  /\ id' = [id EXCEPT ![c] = NextId]
  /\ pc' = [pc EXCEPT ![c] = "registering"]
  /\ UNCHANGED <<callMap, written, ch, returned, decoded, loop, msgId, ctxDone>>

Register(c) ==
  /\ pc[c] = "registering"
  /\ callMap' = callMap \cup {id[c]}
  /\ pc' = [pc EXCEPT ![c] = "writing"]
  /\ UNCHANGED <<seq, id, written, ch, returned, decoded, loop, msgId, ctxDone>>

\* The request reaches the peer, which may answer it before the write returns.
RequestArrives(c) ==
  /\ pc[c] = "writing"
  /\ id[c] \notin written
  /\ written' = written \cup {id[c]}
  /\ UNCHANGED <<seq, pc, id, callMap, ch, returned, decoded, loop, msgId, ctxDone>>

WriteOk(c) ==
  /\ pc[c] = "writing"
  /\ id[c] \in written
  /\ pc' = [pc EXCEPT ![c] = "waiting"]
  /\ UNCHANGED <<seq, id, callMap, written, ch, returned, decoded, loop, msgId, ctxDone>>

\* A write may fail after its bytes have left.
WriteFails(c) ==
  /\ pc[c] = "writing"
  /\ pc' = [pc EXCEPT ![c] = "leaving"]
  /\ UNCHANGED <<seq, id, callMap, written, ch, returned, decoded, loop, msgId, ctxDone>>

\* The select ends by the broken signal, by c.ctx or by the caller's ctx.
GiveUp(c) ==
  /\ pc[c] = "waiting"
  /\ pc' = [pc EXCEPT ![c] = "leaving"]
  /\ UNCHANGED <<seq, id, callMap, written, ch, returned, decoded, loop, msgId, ctxDone>>

\* The deferred function removes the pending call, unless callRemoved.
Removed_Kept(i) == callMap   \* mutant: no deferred delete
Removed(i) == callMap \ {i}

Fail(c) ==
  /\ pc[c] = "leaving"
  /\ callMap' = Removed(id[c])
  /\ returned' = [returned EXCEPT ![id[c]] = "error"]
  /\ pc' = [pc EXCEPT ![c] = "idle"]
  /\ UNCHANGED <<seq, id, written, ch, decoded, loop, msgId, ctxDone>>

\* The select ends by the answer.
Answered(c) ==
  /\ pc[c] = "waiting"
  /\ ch[id[c]] = "answer"
  /\ ch' = [ch EXCEPT ![id[c]] = "empty"]
  /\ returned' = [returned EXCEPT ![id[c]] = "answer"]
  /\ pc' = [pc EXCEPT ![c] = "idle"]
  /\ UNCHANGED <<seq, id, callMap, written, decoded, loop, msgId, ctxDone>>

-----------------------------------------------------------------------------
\* The top of init's loop.
Check ==
  /\ loop = "checking"
  /\ loop' = IF ctxDone THEN "closing" ELSE "reading"
  /\ UNCHANGED <<callVars, callMap, ch, decoded, msgId, ctxDone>>

\* ReadCtx returns a response to some request that was written.
ReadResponse ==
  /\ loop = "reading"
  /\ \E i \in written : msgId' = i
  /\ loop' = "looking"
  /\ UNCHANGED <<callVars, callMap, ch, decoded, ctxDone>>

\* ReadCtx returns an event; its handler runs in init's goroutine.
ReadEvent ==
  /\ loop = "reading"
  /\ msgId' = NoId
  /\ loop' = "handling"
  /\ UNCHANGED <<callVars, callMap, ch, decoded, ctxDone>>

EventHandled ==
  /\ loop = "handling"
  /\ loop' = "checking"
  /\ UNCHANGED <<callVars, callMap, ch, decoded, msgId, ctxDone>>

ReadFails ==
  /\ loop = "reading"
  /\ loop' = "closing"
  /\ UNCHANGED <<callVars, callMap, ch, decoded, msgId, ctxDone>>

\* The pending call is looked up and removed, in one critical section.
Forgotten_Kept(i) == callMap   \* mutant: init leaves the entry to the caller
Forgotten(i) == callMap \ {i}

AfterFound == "decoding"

Lookup ==
  /\ loop = "looking"
  /\ callMap' = Forgotten(msgId)
  /\ loop' = IF msgId \in callMap THEN AfterFound ELSE "checking"
  /\ UNCHANGED <<callVars, ch, decoded, msgId, ctxDone>>

\* The answer, or its error, is stored where the caller will find it.
Decode ==
  /\ loop = "decoding"
  /\ decoded' = decoded \cup {msgId}
  /\ loop' = "sending"
  /\ UNCHANGED <<callVars, callMap, ch, msgId, ctxDone>>

\* The buffer of call.ch has room for one answer.
Room_None(i) ==   \* mutant: call.ch is unbuffered
  \E c \in Callers : pc[c] = "waiting" /\ id[c] = i
Room(i) == ch[i] = "empty"

Send ==
  /\ loop = "sending"
  /\ Room(msgId)
  /\ ch' = [ch EXCEPT ![msgId] = "answer"]
  /\ loop' = "checking"
  /\ UNCHANGED <<callVars, callMap, decoded, msgId, ctxDone>>

\* The deferred Close of the message channel, then the deferred cancel.  What
\* Close does is the channel's (a reconnecting one is reopened by a later write).
CloseChannel ==
  /\ loop = "closing"
  /\ loop' = "cancelling"
  /\ UNCHANGED <<callVars, callMap, ch, decoded, msgId, ctxDone>>

Cancelled_Not == ctxDone   \* mutant: no deferred cancel
Cancelled == TRUE

CancelCtx ==
  /\ loop = "cancelling"
  /\ ctxDone' = Cancelled
  /\ loop' = "done"
  /\ UNCHANGED <<callVars, callMap, ch, decoded, msgId>>

\* The context given to NewCli ends.
ParentDone ==
  /\ ~ ctxDone
  /\ ctxDone' = TRUE
  /\ UNCHANGED <<callVars, callMap, ch, decoded, loop, msgId>>

-----------------------------------------------------------------------------
Next ==
  \/ \E c \in Callers : \/ NewId(c) \/ Register(c) \/ RequestArrives(c)
                        \/ WriteOk(c) \/ WriteFails(c) \/ GiveUp(c) \/ Fail(c) \/ Answered(c)
  \/ Check \/ ReadResponse \/ ReadEvent \/ EventHandled \/ ReadFails
  \/ Lookup \/ Decode \/ Send \/ CloseChannel \/ CancelCtx
  \/ ParentDone

Spec == Init /\ [][Next]_vars

\* Goroutines run, a write and an event handler end, and a select with a ready
\* case ends.  A read may block for as long as c.ctx is alive; it ends once
\* that is done: ReadCtx is given it.  Nobody has to call or to answer, and
\* no caller's own context or broken signal has to end.
FairSpec ==
  /\ Spec
  /\ \A c \in Callers : /\ WF_vars(Register(c))
                        /\ WF_vars(RequestArrives(c) \/ WriteOk(c) \/ WriteFails(c))
                        /\ WF_vars(Fail(c))
                        /\ WF_vars(Answered(c) \/ (ctxDone /\ GiveUp(c)))
  /\ WF_vars(Check) /\ WF_vars(EventHandled) /\ WF_vars(ctxDone /\ ReadFails)
  /\ WF_vars(Lookup) /\ WF_vars(Decode) /\ WF_vars(Send)
  /\ WF_vars(CloseChannel) /\ WF_vars(CancelCtx)

-----------------------------------------------------------------------------
InCall(c) == pc[c] # "idle"
CallerOf(i) == {c \in Callers : InCall(c) /\ id[c] = i}

\* Types; ids are never shared between two calls.
TypeOK ==
  /\ seq \in 0 .. MaxCalls
  /\ pc \in [Callers -> {"idle", "registering", "writing", "waiting", "leaving"}]
  /\ id \in [Callers -> 0 .. seq]
  /\ \A c, d \in Callers : id[c] = id[d] /\ id[c] # NoId => c = d
  /\ callMap \subseteq 1 .. seq
  /\ written \subseteq 1 .. seq
  /\ ch \in [Ids -> {"empty", "answer"}]
  /\ returned \in [Ids -> {"nothing", "answer", "error"}]
  /\ decoded \subseteq written
  /\ loop \in {"checking", "reading", "handling", "looking", "decoding", "sending",
               "closing", "cancelling", "done"}
  /\ msgId \in 0 .. seq
  /\ loop \in {"looking", "decoding", "sending"} => msgId \in written
  /\ ctxDone \in BOOLEAN

\* init never blocks on a pending call, even one that has given up: it sends to
\* a call at most once, as it removes the call in the critical section that
\* finds it, so that a late or a second response finds none (lines 69-82, 119).
AnswersAtMostOnce ==
  /\ loop = "sending" => ch[msgId] = "empty" /\ returned[msgId] # "answer"
  /\ \A i \in callMap : ch[i] = "empty" /\ returned[i] # "answer"

\* A pending call outlives its Call in no case: the map holds only calls that
\* are still running, and a call that waits without its answer is in the map,
\* or in init's hands (lines 122-132, 149-151).
PendingIsRunning ==
  /\ \A i \in callMap : CallerOf(i) # {}
  /\ \A c \in Callers :
       pc[c] \in {"writing", "waiting"} =>
         \/ id[c] \in callMap
         \/ ch[id[c]] = "answer"
         \/ loop \in {"decoding", "sending"} /\ msgId = id[c]

\* Call returns its answer only after the answer is in the caller's result, and
\* an answer is only for a request that was written (lines 76-82, 149-151).
AnswerIsDecoded ==
  \A i \in Ids : returned[i] = "answer" => i \in decoded

\* Once init has to stop (read error, parent context), every call returns, one
\* that is made later too (lines 47-48, 145).
StopEndsCalls ==
  \A c \in Callers :
    loop \in {"closing", "cancelling", "done"} /\ InCall(c) ~> ~ InCall(c)

\* A response that finds its call ends the call, and leaves init free to read
\* on, whether the caller still waits or not (lines 69-82).
ResponseEndsCall ==
  /\ \A c \in Callers :
       loop = "decoding" /\ InCall(c) /\ msgId = id[c] ~> ~ InCall(c)
  /\ loop = "decoding" ~> loop = "checking"
=============================================================================
