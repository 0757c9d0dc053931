------------------------------ MODULE WsAgent ------------------------------
(***************************************************************************)
(* net-filter/ws-agent/ws-agent.go: one call of ServeHttp.  The agent      *)
(* dials the target, accepts the source's websocket and copies messages    *)
(* both ways until either way fails: "send" (source to target) runs in the *)
(* handler's goroutine, "receive" (target to source) in one of its own.    *)
(* Messages are read with net-filter/websocket-util's ReceiveFullFrame,    *)
(* which puts fragments together and looks at the context before each.     *)
(*                                                                         *)
(* The frames a peer sends are numbered; of a frame only its fin bit and   *)
(* whether it carries data are kept.  A hook drops a message or keeps it:  *)
(* what it writes into it is not looked at, and it fills no empty one.     *)
(***************************************************************************)
EXTENDS Naturals, Sequences, Enumeration

CONSTANTS
  Hooked,      \* the directions whose PipeHooks callback is not nil
  MaxFrames    \* bound: data frames either peer sends

Dirs == {"send", "receive"}

ASSUME WsAgentAssumption ==
  /\ Hooked \subseteq Dirs
  /\ MaxFrames \in Nat

From(d) == IF d = "send" THEN "source" ELSE "target"
To(d)   == IF d = "send" THEN "target" ELSE "source"

VARIABLES
  serve,       \* how far ServeHttp has come; "crashed": the process is gone
  open,        \* the connections ServeHttp has open
  pc,          \* where each pipe is
  cancelled,   \* ctx is done
  pipeErrorSet,
  pipeError,   \* the direction whose error it holds, or "nil"
  result,      \* what startPipe returned
  winner,      \* history: the direction that won the swap first
  sent,        \* history: the data frames read in each direction
  dropped,     \* history: the last frames of the messages the hooks dropped
  acc,         \* data in ReceiveFullFrame, then bin: the frames put together
  out,         \* the messages written in each direction
  written,     \* history: the last frame of each of them
  late         \* history: how many of them after ctx was done

errorVars == <<pipeErrorSet, pipeError, result, winner>>
dataVars  == <<sent, dropped, acc, out, written, late>>
vars == <<serve, open, pc, cancelled, errorVars, dataVars>>

Init ==
  /\ serve = "start" /\ open = {}
  /\ pc = [d \in Dirs |-> "idle"]
  /\ cancelled = FALSE
  /\ pipeErrorSet = FALSE /\ pipeError = "nil" /\ result = "none" /\ winner = "none"
  /\ sent = [d \in Dirs |-> <<>>]
  /\ dropped = [d \in Dirs |-> {}]
  /\ acc = [d \in Dirs |-> <<>>]
  /\ out = [d \in Dirs |-> <<>>]
  /\ written = [d \in Dirs |-> <<>>]
  /\ late = [d \in Dirs |-> 0]

-----------------------------------------------------------------------------
\* ServeHttp and startPipe around the two pipes.
Stage(from, to) == serve = from /\ serve' = to

\* GetTarget, NewConfig or the dial fails: answered with a 500.
Refuse ==
  /\ Stage("start", "done")
  /\ UNCHANGED <<open, pc, cancelled, errorVars, dataVars>>

Dial ==
  /\ Stage("start", "dialled")
  /\ open' = {"target"}
  /\ UNCHANGED <<pc, cancelled, errorVars, dataVars>>

\* The source's handshake fails: the handler never runs.
HandshakeFails ==
  /\ Stage("dialled", "closingTarget")
  /\ UNCHANGED <<open, pc, cancelled, errorVars, dataVars>>

Handle ==
  /\ Stage("dialled", "handled")
  /\ open' = open \cup {"source"}
  /\ UNCHANGED <<pc, cancelled, errorVars, dataVars>>

HooksFail ==
  /\ Stage("handled", "closingSource")
  /\ UNCHANGED <<open, pc, cancelled, errorVars, dataVars>>

StartPipes ==
  /\ Stage("handled", "piping")
  /\ pc' = [d \in Dirs |-> "checking"]
  /\ UNCHANGED <<open, cancelled, errorVars, dataVars>>

\* The values line 159 may read: the store of line 145 is not synchronised
\* with it when the receiving pipe has won the swap.
ErrorRead ==
  IF pc["receive"] = "storing" THEN {"nil", "receive", "torn"} ELSE {pipeError}

\* startPipe returns, and its deferred cancel runs.
Return ==
  /\ pc["send"] = "ended"
  /\ Stage("piping", "closingSource")
  /\ result' \in ErrorRead
  /\ cancelled' = TRUE
  /\ UNCHANGED <<open, pc, pipeErrorSet, pipeError, winner, dataVars>>

\* The websocket server closes the source when its handler has returned.
CloseSource ==
  /\ Stage("closingSource", "closingTarget")
  /\ open' = open \ {"source"}
  /\ UNCHANGED <<pc, cancelled, errorVars, dataVars>>

Closed_Forgotten(conns) == conns   \* mutant: targetConn.Close is not deferred
Closed(conns) == conns \ {"target"}

CloseTarget ==
  /\ Stage("closingTarget", "done")
  /\ open' = Closed(open)
  /\ UNCHANGED <<pc, cancelled, errorVars, dataVars>>

-----------------------------------------------------------------------------
\* One pipe.
Goto(d, label) == pc' = [pc EXCEPT ![d] = label]

AfterCheck_Ignored == "reading"   \* mutant: ctx.Err() is not looked at
AfterCheck == IF cancelled THEN "failed" ELSE "reading"

\* The two tests of ctx.Err() before a frame is read.
CheckCtx(d) ==
  /\ pc[d] = "checking"
  /\ Goto(d, AfterCheck)
  /\ UNCHANGED <<serve, open, cancelled, errorVars, dataVars>>

\* data = append(data, seg...)
Joined_Last(data, seg) == seg   \* mutant: data = seg
Joined(data, seg) == data \o seg

\* A data frame arrives.  It may have been buffered before a close.
ReadFrame(d) ==
  /\ pc[d] = "reading"
  /\ Len(sent[d]) < MaxFrames
  /\ \E fin, empty \in BOOLEAN :
       /\ sent' = [sent EXCEPT ![d] = Append(@, [fin |-> fin, empty |-> empty])]
       /\ acc' = [acc EXCEPT ![d] = Joined(@, IF empty THEN <<>>
                                                ELSE <<Len(sent[d]) + 1>>)]
       /\ Goto(d, IF ~ fin THEN "checking"
                  ELSE IF d \in Hooked THEN "hook" ELSE "writing")
  /\ UNCHANGED <<serve, open, cancelled, errorVars, dropped, out, written, late>>

\* A pong is read, and the next frame waited for.
ReadPong(d) ==
  /\ pc[d] = "reading"
  /\ Goto(d, "checking")
  /\ UNCHANGED <<serve, open, cancelled, errorVars, dataVars>>

\* The peer closes or breaks the connection, or it is closed here.
ReadFails(d) ==
  /\ pc[d] = "reading"
  /\ Goto(d, "failed")
  /\ UNCHANGED <<serve, open, cancelled, errorVars, dataVars>>

\* cb(evt): a message whose Data is nil afterwards is not written.  Data is nil
\* from the start when no frame of the message carried any.
Hook(d) ==
  /\ pc[d] = "hook"
  /\ \E keep \in BOOLEAN :
       IF keep /\ acc[d] # <<>>
       THEN Goto(d, "writing") /\ UNCHANGED <<dropped, acc>>
       ELSE /\ Goto(d, "checking")
            /\ acc' = [acc EXCEPT ![d] = <<>>]
            /\ dropped' = IF keep THEN dropped
                          ELSE [dropped EXCEPT ![d] = @ \cup {Len(sent[d])}]
  /\ UNCHANGED <<serve, open, cancelled, errorVars, sent, out, written, late>>

\* A hook panics, or a ping arrives: the connection does not have the WritePong
\* that line 67 of websocket-util.go asserts.  In the handler's goroutine the
\* http server recovers and the deferred calls run; in the other one nobody does.
Panic(d) ==
  /\ pc[d] \in {"hook", "reading"}
  /\ IF d = "send"
     THEN serve' = "closingSource" /\ cancelled' = TRUE /\ Goto(d, "ended")
     ELSE serve' = "crashed" /\ pc' = [e \in Dirs |-> "gone"] /\ UNCHANGED cancelled
  /\ UNCHANGED <<open, errorVars, dataVars>>

Write(d) ==
  /\ pc[d] = "writing"
  /\ To(d) \in open
  /\ out' = [out EXCEPT ![d] = Append(@, acc[d])]
  /\ written' = [written EXCEPT ![d] = Append(@, Len(sent[d]))]
  /\ acc' = [acc EXCEPT ![d] = <<>>]
  /\ late' = IF cancelled THEN [late EXCEPT ![d] = @ + 1] ELSE late
  /\ Goto(d, "checking")
  /\ UNCHANGED <<serve, open, cancelled, errorVars, sent, dropped>>

WriteFails(d) ==
  /\ pc[d] = "writing"
  /\ Goto(d, "failed")
  /\ UNCHANGED <<serve, open, cancelled, errorVars, dataVars>>

-----------------------------------------------------------------------------
\* Lines 142-148 and 152-158: the failure of a pipe.
Swapped_Always == TRUE   \* mutant: pipeError is set without the swap
Swapped == ~ pipeErrorSet

Swap(d) ==
  /\ pc[d] = "failed"
  /\ pipeErrorSet' = TRUE
  /\ Goto(d, IF Swapped THEN "storing" ELSE "ended")
  /\ winner' = IF winner = "none" THEN d ELSE winner
  /\ UNCHANGED <<serve, open, cancelled, pipeError, result, dataVars>>

Store(d) ==
  /\ pc[d] = "storing"
  /\ pipeError' = d
  /\ Goto(d, "cancelling")
  /\ UNCHANGED <<serve, open, cancelled, pipeErrorSet, result, winner, dataVars>>

Cancel(d) ==
  /\ pc[d] = "cancelling"
  /\ cancelled' = TRUE
  /\ Goto(d, "ended")
  /\ UNCHANGED <<serve, open, errorVars, dataVars>>

Serve ==
  \/ Refuse \/ Dial \/ HandshakeFails \/ Handle \/ HooksFail \/ StartPipes
  \/ Return \/ CloseSource \/ CloseTarget

\* The steps of a pipe that wait for nobody: on a connection that is closed
\* here, reads and writes fail; on an open one they may take for ever.
Run(d) ==
  \/ CheckCtx(d) \/ Hook(d) \/ Swap(d) \/ Store(d) \/ Cancel(d)
  \/ From(d) \notin open /\ ReadFails(d)
  \/ To(d) \notin open /\ WriteFails(d)

Next ==
  \/ Serve
  \/ \E d \in Dirs :
       \/ CheckCtx(d) \/ ReadFrame(d) \/ ReadPong(d) \/ ReadFails(d)
       \/ Hook(d) \/ Panic(d) \/ Write(d) \/ WriteFails(d)
       \/ Swap(d) \/ Store(d) \/ Cancel(d)

Spec == Init /\ [][Next]_vars

FairSpec ==
  /\ Spec
  /\ WF_vars(Serve)
  /\ \A d \in Dirs : WF_vars(Run(d))

-----------------------------------------------------------------------------
\* Types, and which connections are open at which stage: the deferred calls
\* leave none behind on any way out of ServeHttp.
TypeOK ==
  /\ serve \in {"start", "dialled", "handled", "piping", "closingSource",
                "closingTarget", "done", "crashed"}
  /\ pc \in [Dirs -> {"idle", "checking", "reading", "hook", "writing", "failed",
                      "storing", "cancelling", "ended", "gone"}]
  /\ cancelled \in BOOLEAN
  /\ pipeErrorSet \in BOOLEAN
  /\ pipeError \in Dirs \cup {"nil"}
  /\ result \in Dirs \cup {"none", "nil", "torn"}
  /\ winner \in Dirs \cup {"none"}
  /\ sent \in [Dirs -> Seq([fin : BOOLEAN, empty : BOOLEAN])]
  /\ dropped \in [Dirs -> SUBSET (1 .. MaxFrames)]
  /\ acc \in [Dirs -> Seq(1 .. MaxFrames)]
  /\ out \in [Dirs -> Seq(Seq(1 .. MaxFrames))]
  /\ written \in [Dirs -> Seq(1 .. MaxFrames)]
  /\ late \in [Dirs -> Nat]
  /\ serve # "crashed" =>
     open = CASE serve \in {"start", "done"} -> {}
              [] serve \in {"dialled", "closingTarget"} -> {"target"}
              [] OTHER -> {"source", "target"}

\* The frames whose data makes up the message that frame n of s is the last of.
Finals(s) == {n \in DOMAIN s : s[n].fin}
Payload(s, n) == {i \in 1 .. n : ~ s[i].empty /\ Finals(s) \cap (i .. n - 1) = {}}

\* What a direction has to write, each message known by its last frame: the
\* complete ones less those the hook dropped and, where there is a hook, the
\* empty ones.
ToWrite(d) ==
  {n \in Finals(sent[d]) \ dropped[d] : d \in Hooked => Payload(sent[d], n) # {}}
InHand(d) == IF pc[d] \in {"checking", "reading"} THEN {} ELSE {Len(sent[d])}

\* The agent is transparent: each direction has written, in order, whole and
\* once, the messages it has read, however they were fragmented, except the one
\* in hand, which is lost when its write fails (lines 115-135).
Transparent ==
  \A d \in Dirs :
    /\ \E set \in {ToWrite(d), ToWrite(d) \ InHand(d)} : Enumerates(written[d], set)
    /\ Len(out[d]) = Len(written[d])
    /\ \A i \in DOMAIN out[d] :
         Enumerates(out[d][i], Payload(sent[d], written[d][i]))

\* Of two failures one is stored, and startPipe returns that one; it returns no
\* error or a torn one only when the receiving pipe had won the swap but not
\* yet stored its error (lines 144-145 and 154-159).
FirstErrorWins ==
  /\ pipeError # "nil" => pipeError = winner
  /\ result \in Dirs => result = winner
  /\ result \in {"nil", "torn"} => winner = "receive"
  /\ winner # "none" /\ pc[winner] \in {"cancelling", "ended"} => pipeError = winner

\* Once the context is done a direction writes at most the message it is on:
\* the failure of one pipe does not leave the other running (lines 21, 45, 116).
OneMoreMessage == \A d \in Dirs : late[d] <= 1

\* When a pipe has failed, or ServeHttp is on its way out, both pipes end and
\* both connections are closed, except that the sending pipe may hang in a read
\* of a silent source or a write to a target that does not read: cancel()
\* closes neither connection (lines 146, 152).
SendHangs == serve = "piping" /\ pc["send"] \in {"reading", "writing"}
Over == serve = "done" /\ open = {} /\ \A d \in Dirs : pc[d] \in {"idle", "ended"}
PipesEnd ==
  [](cancelled \/ serve \in {"closingSource", "closingTarget"}
       => <>(Over \/ serve = "crashed") \/ <>[]SendHangs)
=============================================================================
