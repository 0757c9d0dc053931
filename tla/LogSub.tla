------------------------------- MODULE LogSub -------------------------------
(***************************************************************************)
(* net-filter/ws-agent/ws-log-sub.go, NewLogSubPoint: log clients          *)
(* subscribe over a websocket, and logToClient writes each entry to all of *)
(* them.  A client's callback is known by the client; a panic ends the     *)
(* logging goroutine, and what its caller makes of it is left out.         *)
(***************************************************************************)
EXTENDS Naturals, Sequences, SequencesExt

CONSTANTS
  Clients,     \* connections of log clients
  Loggers,     \* goroutines that call logToClient
  NilFunc      \* an element of a fresh slice of functions

VARIABLES
  logChannels,  \* the callbacks
  handler,      \* where each client's websocket handler is
  signal,       \* the clients whose signal has been closed
  logger,       \* where each logger is
  size,         \* the length of its cs
  cs            \* what it has copied to cs and not yet called

clientVars == <<logChannels, handler>>
vars == <<clientVars, signal, logger, size, cs>>

Init ==
  /\ logChannels = <<>>
  /\ handler = [c \in Clients |-> "connecting"]
  /\ signal = {}
  /\ logger = [g \in Loggers |-> "idle"]
  /\ size = [g \in Loggers |-> 0]
  /\ cs = [g \in Loggers |-> <<>>]

-----------------------------------------------------------------------------
\* A func value's Pointer() is that of its code: all callbacks are closures of
\* the one literal at line 51.
CodePointer(cb) == "line 51"

\* removeCb, under logChannelsMu.
RemoveCb(cb) ==
  LET same == {i \in DOMAIN logChannels : CodePointer(logChannels[i]) = CodePointer(cb)}
  IN logChannels' = IF same = {} THEN logChannels
                    ELSE RemoveAt(logChannels, Min(same))

Subscribe(c) ==
  /\ handler[c] = "connecting"
  /\ logChannels' = Append(logChannels, c)
  /\ handler' = [handler EXCEPT ![c] = "waiting"]
  /\ UNCHANGED <<signal, logger, size, cs>>

\* `case <-signal`
Signalled(c) ==
  /\ handler[c] = "waiting"
  /\ c \in signal
  /\ handler' = [handler EXCEPT ![c] = "failed"]
  /\ UNCHANGED <<logChannels, signal, logger, size, cs>>

\* The request's context is done.
ClientCloses(c) ==
  /\ handler[c] = "waiting"
  /\ RemoveCb(c)
  /\ handler' = [handler EXCEPT ![c] = "closed"]
  /\ UNCHANGED <<signal, logger, size, cs>>

-----------------------------------------------------------------------------
Goto(g, label) == logger' = [logger EXCEPT ![g] = label]

\* logToClient makes cs and copies the list to it without the mutex, so what the
\* list has lost in between is left nil.  A copy that overlaps a change of the
\* list is taken to see it before or after, not half way.
MakeSlice(g) ==
  /\ logger[g] = "idle"
  /\ size' = [size EXCEPT ![g] = Len(logChannels)]
  /\ Goto(g, "copying")
  /\ UNCHANGED <<clientVars, signal, cs>>

CopyList(g) ==
  /\ logger[g] = "copying"
  /\ cs' = [cs EXCEPT ![g] = [i \in 1 .. size[g] |->
                IF i <= Len(logChannels) THEN logChannels[i] ELSE NilFunc]]
  /\ Goto(g, "calling")
  /\ UNCHANGED <<clientVars, signal, size>>

Calls(g, c) == logger[g] = "calling" /\ cs[g] # <<>> /\ Head(cs[g]) = c
Called(g)   == cs' = [cs EXCEPT ![g] = Tail(@)]

CallNil(g) ==
  /\ Calls(g, NilFunc)
  /\ Goto(g, "panicked")
  /\ UNCHANGED <<clientVars, signal, size, cs>>

WriteOk(g, c) ==
  /\ Calls(g, c) /\ handler[c] = "waiting"
  /\ Called(g)
  /\ UNCHANGED <<clientVars, signal, logger, size>>

WriteFails(g, c) ==
  /\ Calls(g, c)
  /\ RemoveCb(c)
  /\ Goto(g, "signalling")
  /\ UNCHANGED <<handler, signal, size, cs>>

\* close(signal) panics when it is closed already.
CloseSignal(g) ==
  /\ logger[g] = "signalling"
  /\ LET c == Head(cs[g])
     IN IF c \in signal
        THEN Goto(g, "panicked") /\ UNCHANGED <<signal, cs>>
        ELSE Goto(g, "calling") /\ signal' = signal \cup {c} /\ Called(g)
  /\ UNCHANGED <<clientVars, size>>

LogDone(g) ==
  /\ logger[g] = "calling" /\ cs[g] = <<>>
  /\ Goto(g, "idle")
  /\ UNCHANGED <<clientVars, signal, size, cs>>

Next ==
  \/ \E c \in Clients : Subscribe(c) \/ Signalled(c) \/ ClientCloses(c)
  \/ \E g \in Loggers :
       \/ MakeSlice(g) \/ CopyList(g) \/ CallNil(g) \/ CloseSignal(g) \/ LogDone(g)
       \/ \E c \in Clients : WriteOk(g, c) \/ WriteFails(g, c)

Spec == Init /\ [][Next]_vars

-----------------------------------------------------------------------------
\* A client whose context has ended has been removed: line 68 removes its
\* callback before line 69 reports "log client close".
ClosedIsRemoved == \A c \in Clients : handler[c] = "closed" => c \notin ToSet(logChannels)
=============================================================================
