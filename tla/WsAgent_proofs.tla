--------------------------- MODULE WsAgent_proofs ---------------------------
(***************************************************************************)
(* Theorems about WsAgent, for hooks on any of the directions and any      *)
(* number of frames.                                                       *)
(***************************************************************************)
EXTENDS WsAgent, SequenceTheorems, TLAPS

(***************************************************************************)
(* The inductive invariant.  Owner: whoever is between the swap and the    *)
(* end of line 146 or 156 won the swap, and the winner's error is stored   *)
(* once it is past the store.  Reported: when the sending pipe has ended   *)
(* and startPipe is about to return, somebody has won.  Stopping: a        *)
(* direction that has written after the cancellation can only go back to   *)
(* the test of the context, and from there to failure.                     *)
(***************************************************************************)
Owner ==
  /\ winner = "none" <=> ~ pipeErrorSet
  /\ \A d \in Dirs : pc[d] \in {"storing", "cancelling"} => winner = d
  /\ pipeError \in {"nil", winner}
  /\ winner # "none" /\ pipeError = "nil" => pc[winner] \in {"storing", "gone"}
  /\ winner # "none" => pc[winner] \in {"storing", "cancelling", "ended", "gone"}

Staged ==
  /\ serve \in {"start", "dialled", "handled"} => \A d \in Dirs : pc[d] = "idle"
  /\ serve = "piping" => \A d \in Dirs : pc[d] \notin {"idle", "gone"}
  /\ serve \in {"closingSource", "closingTarget", "done"} => pc["send"] \in {"idle", "ended"}
  /\ serve = "crashed" <=> pc = [d \in Dirs |-> "gone"]

Reported == serve = "piping" /\ pc["send"] = "ended" => winner # "none"

Stopping ==
  \A d \in Dirs :
    \/ late[d] = 0
    \/ late[d] = 1 /\ cancelled /\ pc[d] \notin {"idle", "reading", "hook", "writing"}

\* A message in the hook's or the writer's hands has a last frame.
InHook ==
  \A d \in Dirs : /\ Len(sent[d]) <= MaxFrames
                  /\ pc[d] \in {"hook", "writing"} => sent[d] # <<>>

\* What a direction carries: between two messages everything there was to write
\* has been written, and acc holds the frames of the message begun; a message in
\* hand is complete in acc, is one to write, and is the only one not written.
Begun(s) == {i \in DOMAIN s : ~ s[i].empty /\ Finals(s) \cap (i .. Len(s)) = {}}
Written(d) ==
  /\ Len(out[d]) = Len(written[d])
  /\ \A i \in DOMAIN out[d] :
       /\ written[d][i] \in DOMAIN sent[d]
       /\ Enumerates(out[d][i], Payload(sent[d], written[d][i]))
Between(d) ==
  /\ Enumerates(written[d], ToWrite(d))
  /\ Enumerates(acc[d], Begun(sent[d]))
Complete(d) ==
  /\ Len(sent[d]) \in Finals(sent[d]) \ dropped[d]
  /\ Enumerates(written[d], ToWrite(d) \ {Len(sent[d])})
  /\ Enumerates(acc[d], Payload(sent[d], Len(sent[d])))
Carried(d) ==
  /\ dropped[d] \subseteq DOMAIN sent[d]
  /\ Written(d)
  /\ pc[d] \in {"idle", "checking", "reading"} => Between(d)
  /\ pc[d] \in {"hook", "writing"} => Complete(d)
  /\ pc[d] = "hook" => d \in Hooked
  /\ pc[d] = "writing" => Len(sent[d]) \in ToWrite(d)
  /\ \E set \in {ToWrite(d), ToWrite(d) \ {Len(sent[d])}} : Enumerates(written[d], set)
DataInv == \A d \in Dirs : Carried(d)

\* Where the goroutines are, and what they carry: a step of ServeHttp leaves the
\* second alone.
Stages == {"start", "dialled", "handled", "piping", "closingSource", "closingTarget",
           "done", "crashed"}
Moving == {"checking", "reading", "hook", "writing"}
ControlTypes ==
  /\ serve \in Stages
  /\ pc \in [Dirs -> Moving \cup {"idle", "failed", "storing", "cancelling", "ended", "gone"}]
  /\ cancelled \in BOOLEAN /\ pipeErrorSet \in BOOLEAN
  /\ pipeError \in Dirs \cup {"nil"}
  /\ result \in Dirs \cup {"none", "nil", "torn"}
  /\ winner \in Dirs \cup {"none"}
  /\ late \in [Dirs -> Nat]
Open ==
  serve # "crashed" =>
    open = CASE serve \in {"start", "done"} -> {}
             [] serve \in {"dialled", "closingTarget"} -> {"target"}
             [] OTHER -> {"source", "target"}
Control ==
  /\ ControlTypes /\ Open
  /\ Owner /\ Staged /\ Reported /\ FirstErrorWins /\ Stopping
DataTypes ==
  /\ sent \in [Dirs -> Seq([fin : BOOLEAN, empty : BOOLEAN])]
  /\ dropped \in [Dirs -> SUBSET (1 .. MaxFrames)]
  /\ acc \in [Dirs -> Seq(1 .. MaxFrames)]
  /\ out \in [Dirs -> Seq(Seq(1 .. MaxFrames))]
  /\ written \in [Dirs -> Seq(1 .. MaxFrames)]
Core == Control /\ DataTypes
IInv == Core /\ InHook /\ DataInv

-----------------------------------------------------------------------------
\* Nothing is open, read or failed initially.
LEMMA InitIInv == Init => IInv
<1> SUFFICES ASSUME Init PROVE IInv
  OBVIOUS
<1>1. /\ sent \in [Dirs -> Seq([fin : BOOLEAN, empty : BOOLEAN])]
      /\ dropped \in [Dirs -> SUBSET (1 .. MaxFrames)]
      /\ acc \in [Dirs -> Seq(1 .. MaxFrames)]
      /\ out \in [Dirs -> Seq(Seq(1 .. MaxFrames))]
      /\ written \in [Dirs -> Seq(1 .. MaxFrames)]
  BY DEF Init
<1>2. ControlTypes /\ Open /\ DataTypes
  BY <1>1 DEF Init, ControlTypes, Open, DataTypes, Stages, Moving
<1>3. ASSUME NEW d \in Dirs PROVE Carried(d)
  <2>1. /\ sent[d] = <<>> /\ acc[d] = <<>> /\ out[d] = <<>> /\ written[d] = <<>>
        /\ dropped[d] = {} /\ pc[d] = "idle"
    BY DEF Init
  <2>2. ToWrite(d) = {} /\ Begun(sent[d]) = {} /\ Enumerates(<<>>, {})
    BY <2>1 DEF ToWrite, Finals, Begun, Enumerates
  <2>3. Written(d)
    BY <2>1 DEF Written
  <2>4. Between(d)
    BY <2>1, <2>2 DEF Between
  <2> QED BY <2>1, <2>3, <2>4 DEF Carried, Between
<1> QED
  BY <1>2, <1>3, WsAgentAssumption
  DEF Init, IInv, Core, Control, Owner, Staged, Reported, FirstErrorWins, Stopping, InHook, DataInv, Dirs

\* A pipe that has not failed moves on, or fails.
LEMMA PipeMoves ==
  ASSUME Control, NEW d \in Dirs, NEW s \in Moving \cup {"failed"},
         pc[d] \in Moving, pc' = [pc EXCEPT ![d] = s],
         UNCHANGED <<serve, open, cancelled, errorVars>>,
         late' \in [Dirs -> Nat],
         \A e \in Dirs \ {d} : late'[e] = late[e],
         late'[d] = 0 \/ (late'[d] = 1 /\ cancelled /\ s \in {"checking", "failed"})
  PROVE  Control'
<1>1. /\ pc' \in [Dirs -> Moving \cup {"idle", "failed", "storing", "cancelling", "ended",
                                     "gone"}]
      /\ pc'[d] = s /\ \A e \in Dirs \ {d} : pc'[e] = pc[e]
  BY DEF Control, ControlTypes
<1>2. ControlTypes' /\ Open'
  BY <1>1 DEF Control, ControlTypes, Open, errorVars
<1>3. Owner'
  BY <1>1 DEF Control, ControlTypes, Owner, Moving, errorVars
<1>4. Staged'
  <2>1. serve \notin {"start", "dialled", "handled"}
    BY DEF Control, Staged, Moving
  <2>2. serve # "crashed"
    BY DEF Control, Staged, Moving
  <2>3. pc' # [e \in Dirs |-> "gone"]
    BY <1>1 DEF Moving
  <2>4. d = "send" => serve \notin {"closingSource", "closingTarget", "done"}
    BY DEF Control, Staged, Moving
  <2> QED BY <1>1, <2>1, <2>2, <2>3, <2>4 DEF Control, Staged, Moving, Dirs
<1>5. Reported'
  BY <1>1 DEF Control, Reported, Moving, Dirs, errorVars
<1>6. FirstErrorWins'
  BY <1>1 DEF Control, ControlTypes, FirstErrorWins, Moving, errorVars
<1>7. Stopping'
  BY <1>1 DEF Control, Stopping, Moving
<1> QED BY <1>2, <1>3, <1>4, <1>5, <1>6, <1>7 DEF Control

\* Before it has written after the cancellation a pipe has all its ways.
LEMMA NotLate ==
  ASSUME Control, NEW d \in Dirs, pc[d] \in {"reading", "hook", "writing"}
  PROVE  late[d] = 0
BY DEF Control, Stopping

\* Every step of ServeHttp and of the two pipes preserves the control.
LEMMA NextControl == Control /\ [Next]_vars => Control'
<1> SUFFICES ASSUME Control, [Next]_vars PROVE Control'
  OBVIOUS
<1>0. late \in [Dirs -> Nat] /\ pc \in [Dirs -> Moving \cup {"idle", "failed", "storing",
                                                           "cancelling", "ended", "gone"}]
  BY DEF Control, ControlTypes
<1>1. CASE Serve
  <2> USE DEF Control, ControlTypes, Open, Owner, Staged, Reported, FirstErrorWins, Stopping,
              Dirs, Stage, Stages, Moving, errorVars, dataVars
  <2>1. CASE Refuse
    BY <2>1 DEF Refuse
  <2>2. CASE Dial
    BY <2>2 DEF Dial
  <2>3. CASE HandshakeFails
    BY <2>3 DEF HandshakeFails
  <2>4. CASE Handle
    BY <2>4 DEF Handle
  <2>5. CASE HooksFail
    BY <2>5 DEF HooksFail
  <2>6. CASE StartPipes
    BY <2>6 DEF StartPipes
  <2>7. CASE Return
    BY <2>7 DEF Return, ErrorRead
  <2>8. CASE CloseSource
    BY <2>8 DEF CloseSource
  <2>9. CASE CloseTarget
    BY <2>9 DEF CloseTarget, Closed
  <2> QED BY <1>1, <2>1, <2>2, <2>3, <2>4, <2>5, <2>6, <2>7, <2>8, <2>9 DEF Serve
<1>2. ASSUME NEW d \in Dirs, CheckCtx(d) PROVE Control'
  <2>1. late[d] = 0 \/ (late[d] = 1 /\ cancelled)
    BY DEF Control, Stopping
  <2>2. /\ pc[d] = "checking" /\ pc' = [pc EXCEPT ![d] = AfterCheck]
        /\ UNCHANGED <<serve, open, cancelled, errorVars, late>>
    BY <1>2 DEF CheckCtx, Goto, dataVars
  <2>3. AfterCheck \in {"reading", "failed"} /\ (cancelled => AfterCheck = "failed")
    BY DEF AfterCheck
  <2> QED BY <1>0, <2>1, <2>2, <2>3, PipeMoves DEF Moving
<1>3. ASSUME NEW d \in Dirs, ReadFrame(d) \/ ReadPong(d) \/ ReadFails(d) \/ Hook(d) \/ WriteFails(d)
      PROVE  Control'
  <2>1. PICK s \in Moving \cup {"failed"} :
          /\ pc[d] \in {"reading", "hook", "writing"} /\ pc' = [pc EXCEPT ![d] = s]
          /\ UNCHANGED <<serve, open, cancelled, errorVars, late>>
    BY <1>3 DEF ReadFrame, ReadPong, ReadFails, Hook, WriteFails, Goto, Moving, dataVars
  <2>2. late[d] = 0
    BY <2>1, NotLate
  <2> QED BY <1>0, <2>1, <2>2, PipeMoves DEF Moving
<1>4. ASSUME NEW d \in Dirs, Write(d) PROVE Control'
  <2>1. /\ pc[d] = "writing" /\ pc' = [pc EXCEPT ![d] = "checking"]
        /\ late' = IF cancelled THEN [late EXCEPT ![d] = @ + 1] ELSE late
        /\ UNCHANGED <<serve, open, cancelled, errorVars>>
    BY <1>4 DEF Write, Goto
  <2>2. late[d] = 0
    BY <2>1, NotLate
  <2>3. /\ late' \in [Dirs -> Nat] /\ \A e \in Dirs \ {d} : late'[e] = late[e]
        /\ late'[d] = 0 \/ (late'[d] = 1 /\ cancelled)
    BY <1>0, <2>1, <2>2
  <2> QED BY <1>0, <2>1, <2>3, PipeMoves DEF Moving
<1>5. ASSUME NEW d \in Dirs, Panic(d) \/ Swap(d) \/ Store(d) \/ Cancel(d) PROVE Control'
  <2> USE DEF Control, ControlTypes, Open, Owner, Staged, Reported, FirstErrorWins, Stopping,
              Dirs, Stages, Moving, Goto, errorVars, dataVars
  <2>1. CASE Panic(d) /\ d = "send"
    BY <2>1 DEF Panic
  <2>2. CASE Panic(d) /\ d = "receive"
    BY <2>2 DEF Panic
  <2>3. CASE Swap(d)
    BY <2>3 DEF Swap, Swapped
  <2>4. CASE Store(d)
    BY <2>4 DEF Store
  <2>5. CASE Cancel(d)
    BY <2>5 DEF Cancel
  <2> QED BY <1>5, <2>1, <2>2, <2>3, <2>4, <2>5
<1>6. CASE UNCHANGED vars
  BY <1>6 DEF vars, errorVars, dataVars, Control, ControlTypes, Open, Owner, Staged, Reported,
              FirstErrorWins, Stopping
<1> QED BY <1>1, <1>2, <1>3, <1>4, <1>5, <1>6 DEF Next

\* Of what is carried, only three steps change anything.
LEMMA NextDataTypes == DataTypes /\ InHook /\ [Next]_vars => DataTypes'
<1> SUFFICES ASSUME DataTypes, InHook, [Next]_vars PROVE DataTypes'
  OBVIOUS
<1>1. ASSUME NEW d \in Dirs, ReadFrame(d) PROVE DataTypes'
  <2>1. PICK fin, empty \in BOOLEAN :
          /\ sent' = [sent EXCEPT ![d] = Append(@, [fin |-> fin, empty |-> empty])]
          /\ acc' = [acc EXCEPT ![d] = @ \o (IF empty THEN <<>> ELSE <<Len(sent[d]) + 1>>)]
          /\ UNCHANGED <<dropped, out, written>>
    BY <1>1 DEF ReadFrame, Joined
  <2>2. sent[d] \in Seq([fin : BOOLEAN, empty : BOOLEAN]) /\ acc[d] \in Seq(1 .. MaxFrames)
    BY DEF DataTypes
  <2>3. Append(sent[d], [fin |-> fin, empty |-> empty]) \in Seq([fin : BOOLEAN, empty : BOOLEAN])
    BY <2>2
  <2>4. Len(sent[d]) + 1 \in 1 .. MaxFrames
    BY <1>1, <2>2, WsAgentAssumption DEF ReadFrame
  <2> DEFINE seg == IF empty THEN <<>> ELSE <<Len(sent[d]) + 1>>
  <2>5. acc[d] \o seg \in Seq(1 .. MaxFrames)
    <3>1. seg \in Seq(1 .. MaxFrames)
      <4>1. CASE empty
        BY <4>1
      <4>2. CASE ~ empty
        BY <2>4, <4>2
      <4> QED BY <4>1, <4>2
    <3> HIDE DEF seg
    <3> QED BY <2>2, <3>1
  <2> HIDE DEF seg
  <2>6. acc' = [acc EXCEPT ![d] = acc[d] \o seg]
    BY <2>1 DEF seg
  <2> QED BY <2>1, <2>3, <2>5, <2>6 DEF DataTypes
<1>2. ASSUME NEW d \in Dirs, Hook(d) PROVE DataTypes'
  <2>1. /\ acc' = acc \/ acc' = [acc EXCEPT ![d] = <<>>]
        /\ dropped' = dropped \/ dropped' = [dropped EXCEPT ![d] = @ \cup {Len(sent[d])}]
        /\ UNCHANGED <<sent, out, written>>
    BY <1>2 DEF Hook
  <2>2. Len(sent[d]) \in 1 .. MaxFrames
    BY <1>2, WsAgentAssumption DEF Hook, InHook, DataTypes
  <2>3. acc' \in [Dirs -> Seq(1 .. MaxFrames)]
    <3>1. acc \in [Dirs -> Seq(1 .. MaxFrames)] /\ <<>> \in Seq(1 .. MaxFrames)
      BY DEF DataTypes
    <3>2. CASE acc' = acc
      BY <3>1, <3>2
    <3>3. CASE acc' = [acc EXCEPT ![d] = <<>>]
      BY ONLY <3>1, <3>3
    <3> QED BY <2>1, <3>2, <3>3
  <2>4. dropped' \in [Dirs -> SUBSET (1 .. MaxFrames)]
    <3>1. dropped \in [Dirs -> SUBSET (1 .. MaxFrames)]
      BY DEF DataTypes
    <3>2. dropped' = dropped \/ dropped' = [dropped EXCEPT ![d] = @ \cup {Len(sent[d])}]
      BY <2>1
    <3> QED BY ONLY <2>2, <3>1, <3>2
  <2> QED BY <2>1, <2>3, <2>4 DEF DataTypes
<1>3. ASSUME NEW d \in Dirs, Write(d) PROVE DataTypes'
  <2>1. /\ out' = [out EXCEPT ![d] = Append(@, acc[d])]
        /\ written' = [written EXCEPT ![d] = Append(@, Len(sent[d]))]
        /\ acc' = [acc EXCEPT ![d] = <<>>]
        /\ UNCHANGED <<sent, dropped>>
    BY <1>3 DEF Write
  <2>2. Len(sent[d]) \in 1 .. MaxFrames
    BY <1>3, WsAgentAssumption DEF Write, InHook, DataTypes
  <2>3. out' \in [Dirs -> Seq(Seq(1 .. MaxFrames))]
    <3> DEFINE S == Seq(1 .. MaxFrames)
    <3>1. out \in [Dirs -> Seq(S)] /\ acc[d] \in S
      BY DEF DataTypes
    <3> HIDE DEF S
    <3>2. Append(out[d], acc[d]) \in Seq(S)
      BY <3>1
    <3>3. out' \in [Dirs -> Seq(S)]
      BY <2>1, <3>1, <3>2
    <3> QED BY <3>3 DEF S
  <2>4. written' \in [Dirs -> Seq(1 .. MaxFrames)]
    <3>1. Append(written[d], Len(sent[d])) \in Seq(1 .. MaxFrames)
      BY <2>2 DEF DataTypes
    <3> QED BY <2>1, <3>1 DEF DataTypes
  <2>5. acc' \in [Dirs -> Seq(1 .. MaxFrames)]
    BY <2>1 DEF DataTypes
  <2> QED BY <2>1, <2>3, <2>4, <2>5 DEF DataTypes
<1>4. CASE UNCHANGED <<sent, dropped, acc, out, written>>
  BY <1>4 DEF DataTypes
<1>5. CASE Serve
  BY <1>4, <1>5 DEF Serve, Refuse, Dial, HandshakeFails, Handle, HooksFail, StartPipes,
                    Return, CloseSource, CloseTarget, dataVars
<1>6. ASSUME NEW d \in Dirs,
             \/ CheckCtx(d) \/ ReadPong(d) \/ ReadFails(d) \/ Panic(d) \/ WriteFails(d)
             \/ Swap(d) \/ Store(d) \/ Cancel(d)
      PROVE DataTypes'
  BY <1>4, <1>6 DEF CheckCtx, ReadPong, ReadFails, Panic, WriteFails, Swap, Store, Cancel,
                    dataVars
<1>7. CASE UNCHANGED vars
  BY <1>4, <1>7 DEF vars, dataVars
<1> QED BY <1>1, <1>2, <1>3, <1>5, <1>6, <1>7 DEF Next

LEMMA NextCore == IInv /\ [Next]_vars => Core'
  BY NextControl, NextDataTypes DEF IInv, Core

\* Of all the steps only ReadFrame reads a frame or hands one to the hook.
LEMMA NextInHook == IInv /\ [Next]_vars => InHook'
<1> USE WsAgentAssumption
<1> SUFFICES ASSUME IInv, [Next]_vars PROVE InHook'
  OBVIOUS
<1> USE DEF IInv, Core, InHook, Stage, Goto, dataVars
<1>1. sent \in [Dirs -> Seq([fin : BOOLEAN, empty : BOOLEAN])]
      /\ pc \in [Dirs -> {"idle", "checking", "reading", "hook", "writing", "failed",
                         "storing", "cancelling", "ended", "gone"}]
  BY DEF Control, ControlTypes, DataTypes, Moving
<1>2. ASSUME NEW d \in Dirs, ReadFrame(d) PROVE InHook'
  <2>1. PICK frame \in [fin : BOOLEAN, empty : BOOLEAN] :
          sent' = [sent EXCEPT ![d] = Append(@, frame)]
    BY <1>2 DEF ReadFrame
  <2>2. sent'[d] = Append(sent[d], frame) /\ \A e \in Dirs \ {d} : sent'[e] = sent[e]
    BY <1>1, <2>1
  <2>3. Len(sent[d]) < MaxFrames /\ sent[d] \in Seq([fin : BOOLEAN, empty : BOOLEAN])
    BY <1>1, <1>2 DEF ReadFrame
  <2>4. Len(sent'[d]) <= MaxFrames /\ sent'[d] # <<>>
    BY <2>2, <2>3
  <2>5. \A e \in Dirs \ {d} : pc'[e] = pc[e]
    BY <1>1, <1>2 DEF ReadFrame
  <2> QED BY <2>2, <2>4, <2>5
<1>3. ASSUME sent' = sent,
             \A d \in Dirs : pc'[d] \in {"hook", "writing"} => pc[d] \in {"hook", "writing"}
      PROVE InHook'
  BY <1>3
<1>4. CASE Serve
  BY <1>1, <1>3, <1>4 DEF Serve, Refuse, Dial, HandshakeFails, Handle, HooksFail, StartPipes,
                          Return, CloseSource, CloseTarget
<1>5. ASSUME NEW d \in Dirs,
             \/ CheckCtx(d) \/ ReadPong(d) \/ ReadFails(d) \/ Hook(d) \/ Panic(d)
             \/ Write(d) \/ WriteFails(d) \/ Swap(d) \/ Store(d) \/ Cancel(d)
      PROVE InHook'
  BY <1>1, <1>3, <1>5 DEF CheckCtx, AfterCheck, ReadPong, ReadFails, Hook, Panic, Write,
                          WriteFails, Swap, Store, Cancel
<1>6. CASE UNCHANGED vars
  BY <1>6 DEF vars
<1> QED
  BY <1>2, <1>4, <1>5, <1>6 DEF Next

-----------------------------------------------------------------------------
\* A number greater than those enumerated so far can be added at the end.
LEMMA EnumeratesMore ==
  ASSUME NEW s \in Seq(Nat), NEW set, NEW n \in Nat,
         Enumerates(s, set), \A m \in set : m < n
  PROVE  Enumerates(Append(s, n), set \cup {n})
<1> DEFINE t == Append(s, n)
<1>1. /\ DOMAIN t = DOMAIN s \cup {Len(s) + 1} /\ t[Len(s) + 1] = n
      /\ \A i \in DOMAIN s : t[i] = s[i] /\ i < Len(s) + 1
  OBVIOUS
<1>2. \A i \in DOMAIN s : s[i] \in set
  BY DEF Enumerates
<1> HIDE DEF t
<1>3. {t[i] : i \in DOMAIN t} = set \cup {n}
  BY <1>1 DEF Enumerates
<1>4. ASSUME NEW i \in DOMAIN t, NEW j \in DOMAIN t, i < j PROVE t[i] < t[j]
  <2>1. i \in DOMAIN s
    BY <1>1, <1>4
  <2> QED BY <1>1, <1>2, <1>4, <2>1 DEF Enumerates
<1>5. Enumerates(t, set \cup {n})
  BY <1>3, <1>4 DEF Enumerates
<1> QED BY <1>5 DEF t

Frame == [fin : BOOLEAN, empty : BOOLEAN]

\* What one more frame does to the messages: those before it stay as they are,
\* the one begun gets the frame, and is complete when the frame is final.
LEMMA FrameRead ==
  ASSUME NEW s \in Seq(Frame), NEW f \in Frame
  PROVE  LET t == Append(s, f)
             data == IF f.empty THEN {} ELSE {Len(t)}
         IN /\ Len(t) = Len(s) + 1
            /\ \A n \in DOMAIN s : Payload(t, n) = Payload(s, n)
            /\ Finals(t) = IF f.fin THEN Finals(s) \cup {Len(t)} ELSE Finals(s)
            /\ Payload(t, Len(t)) = Begun(s) \cup data
            /\ ~ f.fin => Begun(t) = Begun(s) \cup data
<1> DEFINE t == Append(s, f)
           data == IF f.empty THEN {} ELSE {Len(t)}
<1>1. /\ Len(t) = Len(s) + 1 /\ Len(s) \in Nat /\ t[Len(s) + 1] = f
      /\ DOMAIN s = 1 .. Len(s) /\ DOMAIN t = 1 .. Len(s) + 1
      /\ \A n \in DOMAIN s : t[n] = s[n]
  OBVIOUS
<1> HIDE DEF t
<1>2. Finals(t) = IF f.fin THEN Finals(s) \cup {Len(t)} ELSE Finals(s)
  BY <1>1 DEF Finals
<1>3. \A i \in Finals(s) : i \in 1 .. Len(s)
  BY <1>1 DEF Finals
<1>4. ASSUME NEW n \in DOMAIN s PROVE Payload(t, n) = Payload(s, n)
  <2>1. \A i \in 1 .. n : Finals(t) \cap (i .. n - 1) = Finals(s) \cap (i .. n - 1)
    BY <1>1, <1>2
  <2>2. \A i \in 1 .. n : t[i].empty = s[i].empty
    BY <1>1
  <2> QED BY <2>1, <2>2 DEF Payload
<1>5. \A i \in 1 .. Len(s) : Finals(t) \cap (i .. Len(t) - 1) = Finals(s) \cap (i .. Len(s))
  BY <1>1, <1>2
<1>6. Finals(t) \cap (Len(t) .. Len(t) - 1) = {}
  BY <1>1
<1>7. Payload(t, Len(t)) = Begun(s) \cup data
  BY <1>1, <1>5, <1>6 DEF Payload, Begun
<1>8. ASSUME ~ f.fin PROVE Begun(t) = Begun(s) \cup data
  <2>1. \A i \in 1 .. Len(s) : Finals(t) \cap (i .. Len(t)) = Finals(s) \cap (i .. Len(s))
    BY <1>1, <1>2, <1>3, <1>8
  <2>2. Finals(t) \cap (Len(t) .. Len(t)) = {}
    BY <1>1, <1>2, <1>3, <1>8
  <2> QED BY <1>1, <2>1, <2>2 DEF Begun
<1> QED BY <1>1, <1>2, <1>4, <1>7, <1>8 DEF t

\* After a message no other is begun.
LEMMA NoneBegun ==
  ASSUME NEW s \in Seq(Frame), Len(s) \in Finals(s)
  PROVE  Enumerates(<<>>, Begun(s))
<1>1. ASSUME NEW i \in DOMAIN s PROVE Len(s) \in Finals(s) \cap (i .. Len(s))
  OBVIOUS
<1>2. Begun(s) = {}
  BY <1>1 DEF Begun
<1> QED BY <1>2 DEF Enumerates

\* What holds of a direction whose data is left alone and that does not pass
\* from between messages to a complete one or back goes on to hold.
LEMMA CarriedOn ==
  ASSUME NEW d \in Dirs, Carried(d),
         UNCHANGED <<sent[d], dropped[d], acc[d], out[d], written[d]>>,
         \/ pc[d]' = pc[d]
         \/ pc[d]' \in {"checking", "reading"} /\ pc[d] \in {"idle", "checking", "reading"}
         \/ pc[d]' \notin {"idle", "checking", "reading", "hook", "writing"}
  PROVE  Carried(d)'
<1>1. ToWrite(d)' = ToWrite(d)
  BY DEF ToWrite
<1>2. Written(d)' = Written(d) /\ Between(d)' = Between(d) /\ Complete(d)' = Complete(d)
  BY <1>1 DEF Written, Between, Complete
<1> QED BY <1>1, <1>2 DEF Carried

\* Every step keeps what the directions carry.
LEMMA NextData == IInv /\ [Next]_vars => DataInv'
<1> USE WsAgentAssumption
<1> SUFFICES ASSUME IInv, [Next]_vars PROVE DataInv'
  OBVIOUS
<1>1. /\ \A d \in Dirs : Carried(d)
      /\ sent \in [Dirs -> Seq(Frame)]
      /\ acc \in [Dirs -> Seq(1 .. MaxFrames)]
      /\ out \in [Dirs -> Seq(Seq(1 .. MaxFrames))]
      /\ written \in [Dirs -> Seq(1 .. MaxFrames)]
      /\ dropped \in [Dirs -> SUBSET (1 .. MaxFrames)]
      /\ pc \in [Dirs -> {"idle", "checking", "reading", "hook", "writing", "failed",
                         "storing", "cancelling", "ended", "gone"}]
  BY DEF IInv, DataInv, Core, Control, ControlTypes, DataTypes, Moving, Frame
<1>2. ASSUME UNCHANGED <<sent, dropped, acc, out, written>>,
             \A d \in Dirs :
               \/ pc'[d] = pc[d]
               \/ pc'[d] \in {"checking", "reading"} /\ pc[d] \in {"idle", "checking", "reading"}
               \/ pc'[d] \notin {"idle", "checking", "reading", "hook", "writing"}
      PROVE  DataInv'
  BY <1>1, <1>2, CarriedOn DEF DataInv
<1>3. ASSUME NEW d \in Dirs, Carried(d)', NEW label, pc' = [pc EXCEPT ![d] = label],
             \A e \in Dirs \ {d} :
               UNCHANGED <<sent[e], dropped[e], acc[e], out[e], written[e]>>
      PROVE  DataInv'
  BY <1>1, <1>3, CarriedOn DEF DataInv
<1>4. CASE Serve
  <2>1. UNCHANGED dataVars
    BY <1>4 DEF Serve, Refuse, Dial, HandshakeFails, Handle, HooksFail, StartPipes, Return,
                CloseSource, CloseTarget
  <2>2. pc' = pc \/ StartPipes
    BY <1>4 DEF Serve, Refuse, Dial, HandshakeFails, Handle, HooksFail, Return,
                CloseSource, CloseTarget
  <2>3. StartPipes => \A d \in Dirs : pc[d] = "idle" /\ pc'[d] = "checking"
    BY DEF StartPipes, Stage, IInv, Core, Control, Staged
  <2> QED BY <1>2, <2>1, <2>2, <2>3 DEF dataVars
<1>5. ASSUME NEW d \in Dirs,
             \/ CheckCtx(d) \/ ReadPong(d) \/ ReadFails(d) \/ Panic(d)
             \/ WriteFails(d) \/ Swap(d) \/ Store(d) \/ Cancel(d)
      PROVE  DataInv'
  <2>1. UNCHANGED dataVars
    BY <1>5 DEF CheckCtx, ReadPong, ReadFails, Panic, WriteFails, Swap, Store, Cancel
  <2>2. ASSUME NEW e \in Dirs
        PROVE  \/ pc'[e] = pc[e]
               \/ pc'[e] \in {"checking", "reading"} /\ pc[e] \in {"checking", "reading"}
               \/ pc'[e] \notin {"idle", "checking", "reading", "hook", "writing"}
    BY <1>1, <1>5 DEF CheckCtx, AfterCheck, ReadPong, ReadFails, Panic, WriteFails, Swap,
                      Store, Cancel, Goto
  <2> QED BY <1>2, <2>1, <2>2 DEF dataVars
<1>6. ASSUME NEW d \in Dirs, ReadFrame(d) PROVE DataInv'
  <2>1. PICK fin, empty \in BOOLEAN :
          /\ sent' = [sent EXCEPT ![d] = Append(@, [fin |-> fin, empty |-> empty])]
          /\ acc' = [acc EXCEPT ![d] = @ \o (IF empty THEN <<>> ELSE <<Len(sent[d]) + 1>>)]
          /\ pc' = [pc EXCEPT ![d] = IF ~ fin THEN "checking"
                                     ELSE IF d \in Hooked THEN "hook" ELSE "writing"]
    BY <1>6 DEF ReadFrame, Joined, Goto
  <2> DEFINE f == [fin |-> fin, empty |-> empty]
             s == sent[d]
             t == Append(s, f)
             data == IF f.empty THEN {} ELSE {Len(t)}
  <2>2. pc[d] = "reading" /\ UNCHANGED <<dropped, out, written>>
    BY <1>6 DEF ReadFrame
  <2>3. s \in Seq(Frame) /\ f \in Frame /\ sent'[d] = t
    BY <1>1, <2>1 DEF Frame
  <2>4. /\ Len(t) = Len(s) + 1 /\ Len(s) \in Nat /\ DOMAIN s = 1 .. Len(s)
        /\ DOMAIN t = 1 .. Len(t)
        /\ \A n \in DOMAIN s : Payload(t, n) = Payload(s, n)
        /\ Finals(t) = IF fin THEN Finals(s) \cup {Len(t)} ELSE Finals(s)
        /\ Payload(t, Len(t)) = Begun(s) \cup data
        /\ ~ fin => Begun(t) = Begun(s) \cup data
    <3>1. f.fin = fin
      OBVIOUS
    <3> HIDE DEF s, f
    <3>2. /\ Len(t) = Len(s) + 1
          /\ \A n \in DOMAIN s : Payload(t, n) = Payload(s, n)
          /\ Finals(t) = IF f.fin THEN Finals(s) \cup {Len(t)} ELSE Finals(s)
          /\ Payload(t, Len(t)) = Begun(s) \cup data
          /\ ~ f.fin => Begun(t) = Begun(s) \cup data
      BY <2>3, FrameRead
    <3>3. Len(s) \in Nat /\ DOMAIN s = 1 .. Len(s) /\ DOMAIN t = 1 .. Len(t)
      BY <2>3
    <3> QED BY <3>1, <3>2, <3>3
  <2>5. /\ dropped[d] \subseteq DOMAIN s /\ Written(d) /\ Between(d)
    BY <1>1, <2>2 DEF Carried
  <2>6. Finals(s) \subseteq 1 .. Len(s)
    BY <2>4 DEF Finals
  <2> HIDE DEF s, t, f
  <2>7. Written(d)'
    BY <2>2, <2>3, <2>4, <2>5 DEF Written, s
  <2>8. Enumerates(acc'[d], Begun(s) \cup data)
    <3>1. Enumerates(acc[d], Begun(s)) /\ \A m \in Begun(s) : m < Len(s) + 1
      BY <2>4, <2>5 DEF Between, Begun, s
    <3>2. acc[d] \in Seq(Nat)
      BY <1>1
    <3>3. CASE empty
      <4>1. acc'[d] = acc[d] \o <<>>
        BY <1>1, <2>1, <3>3
      <4> QED BY <3>1, <3>2, <3>3, <4>1 DEF f
    <3>4. CASE ~ empty
      <4>1. acc'[d] = acc[d] \o <<Len(s) + 1>>
        BY <1>1, <2>1, <3>4 DEF s
      <4>2. acc'[d] = Append(acc[d], Len(s) + 1)
        BY <3>2, <4>1
      <4> QED BY <2>4, <3>1, <3>2, <3>4, <4>2, EnumeratesMore DEF f
    <3> QED BY <3>3, <3>4
  <2>9. ASSUME ~ fin PROVE Carried(d)'
    <3>1. ToWrite(d)' = ToWrite(d)
      BY <2>2, <2>3, <2>4, <2>6, <2>9 DEF ToWrite, s
    <3>2. Between(d)'
      BY <2>2, <2>3, <2>4, <2>5, <2>8, <2>9, <3>1 DEF Between
    <3>3. pc'[d] = "checking"
      BY <1>1, <2>1, <2>9
    <3>4. dropped'[d] \subseteq DOMAIN sent'[d]
      BY <2>2, <2>3, <2>4, <2>5
    <3> QED BY <2>7, <3>2, <3>3, <3>4 DEF Carried, Between
  <2>10. ASSUME fin PROVE Carried(d)'
    <3>1. Len(t) \notin dropped[d] /\ Len(t) \notin ToWrite(d)
      BY <2>4, <2>5, <2>6 DEF ToWrite, s
    <3>2. ToWrite(d)' \ {Len(t)} = ToWrite(d)
      BY <2>2, <2>3, <2>4, <2>6, <2>10, <3>1 DEF ToWrite, s
    <3>3. Complete(d)'
      BY <2>2, <2>3, <2>4, <2>5, <2>8, <2>10, <3>1, <3>2 DEF Complete, Between
    <3>4. pc'[d] = IF d \in Hooked THEN "hook" ELSE "writing"
      BY <1>1, <2>1, <2>10
    <3>5. pc'[d] = "writing" => Len(t) \in ToWrite(d)'
      BY <2>2, <2>3, <2>4, <2>10, <3>1, <3>4 DEF ToWrite
    <3>6. dropped'[d] \subseteq DOMAIN sent'[d]
      BY <2>2, <2>3, <2>4, <2>5
    <3> QED BY <2>3, <2>7, <3>3, <3>4, <3>5, <3>6 DEF Carried, Complete
  <2>11. Carried(d)'
    BY <2>9, <2>10
  <2> QED BY <1>1, <1>3, <2>1, <2>2, <2>11
<1>7. ASSUME NEW d \in Dirs, Hook(d) PROVE DataInv'
  <2> DEFINE n == Len(sent[d])
  <2>1. /\ pc[d] = "hook" /\ UNCHANGED <<sent, out, written>>
        /\ dropped[d] \subseteq DOMAIN sent[d] /\ Written(d) /\ Complete(d)
    BY <1>1, <1>7 DEF Hook, Carried
  <2>2. sent[d] \in Seq(Frame) /\ n \in DOMAIN sent[d]
    BY <1>1, <2>1 DEF Complete, Finals
  <2>3. Written(d)'
    BY <2>1 DEF Written
  <2>4. PICK keep \in BOOLEAN :
          IF keep /\ acc[d] # <<>>
          THEN Goto(d, "writing") /\ UNCHANGED <<dropped, acc>>
          ELSE /\ Goto(d, "checking")
               /\ acc' = [acc EXCEPT ![d] = <<>>]
               /\ dropped' = IF keep THEN dropped ELSE [dropped EXCEPT ![d] = @ \cup {n}]
    BY <1>7 DEF Hook
  <2>5. CASE keep /\ acc[d] # <<>>
    <3>1. pc' = [pc EXCEPT ![d] = "writing"] /\ UNCHANGED <<dropped, acc>>
      BY <2>4, <2>5 DEF Goto
    <3>2. ToWrite(d)' = ToWrite(d) /\ Complete(d)'
      BY <2>1, <3>1 DEF ToWrite, Complete
    <3>3. Payload(sent[d], n) # {}
      <4>1. acc[d] \in Seq(Nat) /\ acc[d] # <<>>
        BY <1>1, <2>5
      <4>2. 1 \in DOMAIN acc[d]
        BY <4>1
      <4>3. {acc[d][i] : i \in DOMAIN acc[d]} = Payload(sent[d], n)
        BY <2>1 DEF Complete, Enumerates
      <4> QED BY <4>2, <4>3
    <3>4. n \in ToWrite(d)
      BY <2>1, <3>3 DEF Complete, ToWrite
    <3>5. Carried(d)'
      BY <1>1, <2>1, <2>3, <3>1, <3>2, <3>4 DEF Carried, Complete
    <3> QED BY <1>1, <1>3, <2>1, <3>1, <3>5
  <2>6. CASE ~ (keep /\ acc[d] # <<>>)
    <3>1. /\ pc' = [pc EXCEPT ![d] = "checking"] /\ acc' = [acc EXCEPT ![d] = <<>>]
          /\ dropped' = IF keep THEN dropped ELSE [dropped EXCEPT ![d] = @ \cup {n}]
      BY <2>4, <2>6 DEF Goto
    <3>2. dropped'[d] \subseteq DOMAIN sent'[d]
      BY <1>1, <2>1, <2>2, <3>1
    <3>3. ToWrite(d)' = ToWrite(d) \ {n}
      <4>1. CASE keep
        <5>1. Payload(sent[d], n) = {}
          BY <2>1, <2>6, <4>1 DEF Complete, Enumerates
        <5>2. d \in Hooked
          BY <1>1, <2>1 DEF Carried
        <5> QED BY <2>1, <3>1, <4>1, <5>1, <5>2 DEF ToWrite
      <4>2. CASE ~ keep
        <5>1. dropped'[d] = dropped[d] \cup {n}
          BY <1>1, <3>1, <4>2
        <5> QED BY <2>1, <5>1 DEF ToWrite
      <4> QED BY <4>1, <4>2
    <3>4. Enumerates(acc'[d], Begun(sent'[d]))
      BY <1>1, <2>1, <2>2, <3>1, NoneBegun DEF Complete
    <3>5. Between(d)'
      BY <2>1, <3>3, <3>4 DEF Between, Complete
    <3>6. pc'[d] = "checking"
      BY <1>1, <3>1
    <3>7. Carried(d)'
      BY <2>3, <3>2, <3>5, <3>6 DEF Carried, Between
    <3> QED BY <1>1, <1>3, <2>1, <3>1, <3>7
  <2> QED BY <2>5, <2>6
<1>8. ASSUME NEW d \in Dirs, Write(d) PROVE DataInv'
  <2> DEFINE n == Len(sent[d])
  <2>1. /\ pc[d] = "writing" /\ pc' = [pc EXCEPT ![d] = "checking"]
        /\ out' = [out EXCEPT ![d] = Append(@, acc[d])]
        /\ written' = [written EXCEPT ![d] = Append(@, n)]
        /\ acc' = [acc EXCEPT ![d] = <<>>]
        /\ UNCHANGED <<sent, dropped>>
    BY <1>8 DEF Write, Goto
  <2>2. /\ dropped[d] \subseteq DOMAIN sent[d] /\ Written(d) /\ Complete(d)
        /\ n \in ToWrite(d)
    BY <1>1, <2>1 DEF Carried
  <2>3. sent[d] \in Seq(Frame) /\ n \in DOMAIN sent[d] /\ n \in Nat
    BY <1>1, <2>2 DEF Complete, Finals
  <2>4. ToWrite(d)' = ToWrite(d)
    BY <2>1 DEF ToWrite
  <2>5. Enumerates(written'[d], ToWrite(d))
    <3>1. \A m \in ToWrite(d) \ {n} : m < n
      BY <2>3 DEF ToWrite, Finals
    <3>2. written[d] \in Seq(Nat) /\ written'[d] = Append(written[d], n)
      BY <1>1, <2>1
    <3>3. Enumerates(written'[d], (ToWrite(d) \ {n}) \cup {n})
      BY <2>2, <2>3, <3>1, <3>2, EnumeratesMore DEF Complete
    <3>4. (ToWrite(d) \ {n}) \cup {n} = ToWrite(d)
      BY <2>2
    <3> QED BY <3>3, <3>4
  <2>6. Enumerates(acc'[d], Begun(sent'[d]))
    BY <1>1, <2>1, <2>2, <2>3, NoneBegun DEF Complete
  <2>7. Written(d)'
    <3>1. /\ out'[d] = Append(out[d], acc[d]) /\ written'[d] = Append(written[d], n)
          /\ out[d] \in Seq(Seq(1 .. MaxFrames)) /\ written[d] \in Seq(1 .. MaxFrames)
          /\ Len(out[d]) = Len(written[d])
      BY <1>1, <2>1, <2>2 DEF Written
    <3>2. Len(out'[d]) = Len(written'[d])
      BY <3>1
    <3>3. ASSUME NEW i \in DOMAIN out'[d]
          PROVE  /\ written'[d][i] \in DOMAIN sent[d]
                 /\ Enumerates(out'[d][i], Payload(sent[d], written'[d][i]))
      <4>1. CASE i \in DOMAIN out[d]
        <5>1. out'[d][i] = out[d][i]
          BY <3>1, <4>1, AppendProperties
        <5>2. i \in DOMAIN written[d]
          BY <3>1, <4>1
        <5>3. written'[d][i] = written[d][i]
          BY <3>1, <5>2, AppendProperties
        <5> QED BY <2>2, <4>1, <5>1, <5>3 DEF Written
      <4>2. CASE i \notin DOMAIN out[d]
        <5>1. out'[d][i] = acc[d] /\ written'[d][i] = n
          BY <3>1, <3>3, <4>2
        <5> QED BY <2>2, <2>3, <5>1 DEF Complete
      <4> QED BY <4>1, <4>2
    <3> QED BY <2>1, <3>2, <3>3 DEF Written
  <2>8. pc'[d] = "checking"
    BY <1>1, <2>1
  <2>9. Carried(d)'
    BY <2>1, <2>2, <2>4, <2>5, <2>6, <2>7, <2>8 DEF Carried, Between
  <2> QED BY <1>1, <1>3, <2>1, <2>9
<1>9. CASE UNCHANGED vars
  BY <1>2, <1>9 DEF vars, dataVars
<1> QED
  BY <1>4, <1>5, <1>6, <1>7, <1>8, <1>9 DEF Next

THEOREM Invariance == Spec => []IInv
  BY InitIInv, NextCore, NextInHook, NextData, PTL DEF Spec, IInv

\* Types; the connections open at each stage are those the deferred calls close.
THEOREM TypeCorrect == Spec => []TypeOK
<1>1. IInv => TypeOK
  BY DEF IInv, Core, Control, ControlTypes, DataTypes, Open, Stages, Moving, TypeOK
<1> QED
  BY <1>1, Invariance, PTL

\* startPipe returns the error of the pipe that won the swap, or none when that
\* pipe is the receiving one and has not stored it yet.
THEOREM FirstErrorIsReturned == Spec => []FirstErrorWins
<1>1. IInv => FirstErrorWins
  BY DEF IInv, Core, Control
<1> QED
  BY <1>1, Invariance, PTL

\* After the context is done a direction writes one more message at most.
THEOREM CancelStopsPipes == Spec => []OneMoreMessage
<1>1. IInv => OneMoreMessage
  BY DEF IInv, Core, Control, Stopping, OneMoreMessage
<1> QED
  BY <1>1, Invariance, PTL

\* Each direction has written, whole, once and in order, the messages it has
\* read less those its hook dropped, but for the one in hand, however they were
\* fragmented and whatever fails (ws-agent.go:115-135).
THEOREM MessagesPassIntact == Spec => []Transparent
<1>1. IInv => Transparent
  <2>1. ASSUME NEW d \in Dirs, Carried(d)
        PROVE  \E set \in {ToWrite(d), ToWrite(d) \ InHand(d)} : Enumerates(written[d], set)
    BY <2>1 DEF Carried, Between, InHand
  <2> QED BY <2>1 DEF IInv, DataInv, Carried, Written, Transparent
<1> QED
  BY <1>1, Invariance, PTL
=============================================================================
