----------------------------- MODULE RpcSession -----------------------------
(***************************************************************************)
(* net-filter/json-rpc/json-rpc-server.go: one session of the rpc server.  *)
(* Serve reads requests and starts a goroutine for each; those goroutines, *)
(* and the ones Emit starts, put their messages on w.out, a channel of     *)
(* capacity 1; the writer goroutine takes them from there and writes them. *)
(* The two loops stop each other: through w.ctx, through the closing of    *)
(* the message channel, and through writeError.                            *)
(*                                                                         *)
(* A message is a model value: the response to a request, or an event.     *)
(* The message channel is the environment's: a read or a write may fail at *)
(* any time, and a read may still return what was buffered before a close. *)
(***************************************************************************)
CONSTANTS
  Requests,   \* the requests the peer may send, each with its response
  Events,     \* the calls of Emit
  WithCb,     \* the events that have a callback
  NoMsg

ASSUME RpcSessionAssumption ==
  /\ Requests \cap Events = {}
  /\ WithCb \subseteq Events
  /\ NoMsg \notin Requests \cup Events

Messages == Requests \cup Events

VARIABLES
  stage,       \* stage[m]: how far message m has come
  out,         \* the buffer of w.out
  writer,      \* where the writer goroutine is
  current,     \* the message the writer has taken
  writeFailed, \* the writer's local err # nil
  called,      \* the events whose callback has been called
  serve,       \* where Serve is
  result,      \* the error Serve returns
  writeError,  \* writeError holds an error
  ctxDone,     \* w.ctx is done
  chClosed,    \* the session has closed its message channel
  readFailed,  \* a read has failed by itself, not by ctx or Close (history)
  parentDone   \* the context given to Serve has ended (history)

vars == <<stage, out, writer, current, writeFailed, called, serve, result,
          writeError, ctxDone, chClosed, readFailed, parentDone>>
writerVars == <<writer, current, writeFailed, called>>
serveVars  == <<serve, result, readFailed, parentDone>>

Init ==
  /\ stage = [m \in Messages |-> "new"]
  /\ out = NoMsg
  /\ writer = "selecting"
  /\ current = NoMsg
  /\ writeFailed = FALSE
  /\ called = {}
  /\ serve = "reading"
  /\ result = "none"
  /\ writeError = FALSE
  /\ ctxDone = FALSE
  /\ chClosed = FALSE
  /\ readFailed = FALSE
  /\ parentDone = FALSE

-----------------------------------------------------------------------------
SetStage(m, s) == stage' = [stage EXCEPT ![m] = s]

\* Serve reads a request and starts its handler (handleMsg).
ReadRequest(m) ==
  /\ serve = "reading"
  /\ m \in Requests /\ stage[m] = "new"
  /\ SetStage(m, "handling")
  /\ UNCHANGED <<out, writerVars, serveVars, writeError, ctxDone, chClosed>>

\* The connection fails under the read, or the message is malformed.
ReadFails ==
  /\ serve = "reading"
  /\ serve' = "loading"
  /\ readFailed' = TRUE
  /\ UNCHANGED <<stage, out, writerVars, result, writeError, ctxDone, chClosed, parentDone>>

\* ReadCtx ends because its context or the session's channel has.
ReadEnds ==
  /\ serve = "reading"
  /\ ctxDone \/ chClosed
  /\ serve' = "loading"
  /\ UNCHANGED <<stage, out, writerVars, result, readFailed, writeError, ctxDone,
                 chClosed, parentDone>>

\* Serve's deferred functions: the writer's error takes the place of the
\* reader's, if it is there by now; then w.cancel().
LoadWriteError ==
  /\ serve = "loading"
  /\ result' = IF writeError THEN "write error" ELSE "read error"
  /\ serve' = "cancelling"
  /\ UNCHANGED <<stage, out, writerVars, readFailed, parentDone, writeError, ctxDone,
                 chClosed>>

ServeCancels_Not == ctxDone   \* mutant: no deferred cancel in Serve
ServeCancels == TRUE

ServeReturns ==
  /\ serve = "cancelling"
  /\ ctxDone' = ServeCancels
  /\ serve' = "returned"
  /\ UNCHANGED <<stage, out, writerVars, result, readFailed, parentDone, writeError,
                 chClosed>>

ParentDone ==
  /\ ~ parentDone
  /\ parentDone' = TRUE
  /\ ctxDone' = TRUE
  /\ UNCHANGED <<stage, out, writerVars, serve, result, readFailed, writeError, chClosed>>

-----------------------------------------------------------------------------
\* The handler returns or panics; either way its response is made.
HandlerEnds(m) ==
  /\ stage[m] = "handling"
  /\ SetStage(m, "sending")
  /\ UNCHANGED <<out, writerVars, serveVars, writeError, ctxDone, chClosed>>

\* Emit starts its goroutine, which ends at once if the payload cannot be marshalled.
Emit(m) ==
  /\ m \in Events /\ stage[m] = "new"
  /\ SetStage(m, "sending") \/ SetStage(m, "dropped")
  /\ UNCHANGED <<out, writerVars, serveVars, writeError, ctxDone, chClosed>>

\* `w.out <- ...`, of a handler and of Emit.
Room_Always == TRUE   \* mutant: a slot that is overwritten, not a channel
Room == out = NoMsg

Queue(m) ==
  /\ stage[m] = "sending"
  /\ Room
  /\ out' = m
  /\ SetStage(m, "queued")
  /\ UNCHANGED <<writerVars, serveVars, writeError, ctxDone, chClosed>>

\* `case <-w.ctx.Done()` in Emit; a handler's send has no such case.
Droppable_None == {}   \* mutant: Emit sends without a select
Droppable == Events

Drop(m) ==
  /\ stage[m] = "sending" /\ m \in Droppable
  /\ ctxDone
  /\ SetStage(m, "dropped")
  /\ UNCHANGED <<out, writerVars, serveVars, writeError, ctxDone, chClosed>>

-----------------------------------------------------------------------------
Take ==
  /\ writer = "selecting"
  /\ out # NoMsg
  /\ current' = out
  /\ out' = NoMsg
  /\ SetStage(out, "taken")
  /\ writer' = "writing"
  /\ UNCHANGED <<writeFailed, called, serveVars, writeError, ctxDone, chClosed>>

\* The writer returns an error: its deferred functions begin with the Store.
OnError_Shadowed == "cancelling"   \* mutant: the deferred function sees another err
OnError == "storing"

\* Where the writer goes on after its write of m ended with failure f.
AfterWrite_ErrFirst(m, f) ==   \* mutant: the error is returned before the callback
  IF f THEN OnError ELSE IF m \in WithCb THEN "calling" ELSE "selecting"
AfterWrite(m, f) ==
  IF m \in WithCb THEN "calling" ELSE IF f THEN OnError ELSE "selecting"

Write ==
  /\ writer = "writing"
  /\ \E f \in BOOLEAN :
       /\ writeFailed' = f
       /\ SetStage(current, IF f THEN "unwritten" ELSE "written")
       /\ writer' = AfterWrite(current, f)
  /\ current' = IF writer' = "selecting" THEN NoMsg ELSE current
  /\ UNCHANGED <<out, called, serveVars, writeError, ctxDone, chClosed>>

\* The callback may itself return an error, which stops the writer too.
CallBack ==
  /\ writer = "calling"
  /\ called' = called \cup {current}
  /\ \/ writer' = OnError /\ UNCHANGED current
     \/ ~ writeFailed /\ writer' = "selecting" /\ current' = NoMsg
  /\ UNCHANGED <<stage, out, writeFailed, serveVars, writeError, ctxDone, chClosed>>

\* `case <-w.ctx.Done()`: the writer ends without an error.
Stop ==
  /\ writer = "selecting"
  /\ ctxDone
  /\ writer' = "cancelling"
  /\ UNCHANGED <<stage, out, current, writeFailed, called, serveVars, writeError,
                 ctxDone, chClosed>>

\* The writer's deferred functions, last one first: the error is stored before
\* the cancel that makes Serve look for it.
StoreWriteError ==
  /\ writer = "storing"
  /\ writeError' = TRUE
  /\ writer' = "cancelling"
  /\ UNCHANGED <<stage, out, current, writeFailed, called, serveVars, ctxDone, chClosed>>

WriterCancels ==
  /\ writer = "cancelling"
  /\ ctxDone' = TRUE
  /\ writer' = "closing"
  /\ UNCHANGED <<stage, out, current, writeFailed, called, serveVars, writeError, chClosed>>

Closed_Not == chClosed   \* mutant: no deferred Close
Closed == TRUE

CloseChannel ==
  /\ writer = "closing"
  /\ chClosed' = Closed
  /\ writer' = "done"
  /\ UNCHANGED <<stage, out, current, writeFailed, called, serveVars, writeError, ctxDone>>

-----------------------------------------------------------------------------
Serve  == ReadEnds \/ LoadWriteError \/ ServeReturns
Writer == \/ Take \/ Write \/ CallBack \/ Stop
          \/ StoreWriteError \/ WriterCancels \/ CloseChannel

Next ==
  \/ \E m \in Messages : \/ ReadRequest(m) \/ HandlerEnds(m) \/ Emit(m)
                         \/ Queue(m) \/ Drop(m)
  \/ ReadFails \/ ReadEnds \/ LoadWriteError \/ ServeReturns
  \/ ParentDone
  \/ Take \/ Write \/ CallBack \/ Stop
  \/ StoreWriteError \/ WriterCancels \/ CloseChannel

Spec == Init /\ [][Next]_vars

\* Goroutines run; a handler, a write and a callback end; a read ends once its
\* channel is closed (a length-prefixed channel looks at no context).  A blocked
\* send gets its turn: a Go channel queues its senders.  Which of two ready
\* cases a select takes is left open.  Nobody has to send, emit or stop.
FairSpec ==
  /\ Spec
  /\ WF_vars(chClosed /\ ReadEnds) /\ WF_vars(LoadWriteError \/ ServeReturns)
  /\ WF_vars(Writer)
  /\ \A m \in Messages : /\ WF_vars(HandlerEnds(m))
                          /\ SF_vars(Queue(m))
                          /\ WF_vars(Queue(m) \/ Drop(m))

-----------------------------------------------------------------------------
Settled(m) == stage[m] \in {"written", "unwritten"}

\* Types; w.out holds exactly the message that is queued, and the writer the
\* one it has taken.
TypeOK ==
  /\ stage \in [Messages -> {"new", "handling", "sending", "dropped", "queued",
                            "taken", "written", "unwritten"}]
  /\ out \in Messages \cup {NoMsg}
  /\ \A m \in Messages : stage[m] = "queued" <=> out = m
  /\ \A m \in Messages : stage[m] = "taken" <=> writer = "writing" /\ current = m
  /\ writer \in {"selecting", "writing", "calling", "storing", "cancelling",
                 "closing", "done"}
  /\ current \in Messages \cup {NoMsg}
  /\ writer \in {"writing", "calling"} => current # NoMsg
  /\ writeFailed \in BOOLEAN
  /\ called \subseteq WithCb
  /\ serve \in {"reading", "loading", "cancelling", "returned"}
  /\ result \in {"none", "read error", "write error"}
  /\ writeError \in BOOLEAN
  /\ ctxDone \in BOOLEAN
  /\ chClosed \in BOOLEAN
  /\ readFailed \in BOOLEAN
  /\ parentDone \in BOOLEAN

\* When the writer is what ended the session, by a failed write or by a callback
\* that returned an error, Serve returns the writer's error and not the read
\* error that the cancel made of it (lines 72-78, 84-89).  A read that fails by
\* itself, as after a write that broke the connection, may still be faster.
WriterErrorIsReported == result = "read error" => readFailed \/ parentDone

\* The callback of an event is called for every write of it, failed or not,
\* before the writer goes on or ends, and never for an event that was not
\* written (lines 93-102).
CallbackFollowsWrite ==
  \A e \in WithCb :
    /\ e \in called => Settled(e)
    /\ Settled(e) => e \in called \/ (writer = "calling" /\ current = e)

\* A request is answered unless the session ends, whatever else is queued and
\* however the handler ends (lines 91-102, 120-162).
RequestIsAnswered ==
  \A m \in Requests : stage[m] = "handling" ~> Settled(m) \/ ctxDone

\* Emit's goroutine ends, session or no session (lines 213-217).
EmitEnds == \A m \in Events : stage[m] = "sending" ~> stage[m] # "sending"

\* Whichever loop ends first, and after the end of the parent context, the other
\* one ends too and the message channel is closed (lines 70-71, 83-84, 103-104).
SessionEnds ==
  ctxDone \/ serve # "reading" ~> serve = "returned" /\ writer = "done" /\ chClosed
=============================================================================
