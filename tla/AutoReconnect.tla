--------------------------- MODULE AutoReconnect ---------------------------
(***************************************************************************)
(* net-filter/json-rpc/json-msg-ws.go, autoReconnectChannel: a message     *)
(* channel that dials a new inner channel when a call finds none, or a     *)
(* broken one.  One goroutine dials at a time, the others wait on          *)
(* createSignal; whoever was handed a channel for a call also got          *)
(* brokenSignal, broadcast when a later call finds the channel broken.     *)
(*                                                                         *)
(* c.mu is held throughout except while dialling and while waiting for     *)
(* createSignal, so what lies between those points is one step.  The two   *)
(* conditions are used as BroadcastCond specifies.  Inner channels are the *)
(* wsChannels of NewAutoReconnectChannelFromWebsocketAddr, numbered in the *)
(* order they are dialled; they have no broken signal of their own.        *)
(*                                                                         *)
(* The users are Cli's: callers (Call and Emit) and the read loop.         *)
(***************************************************************************)
EXTENDS Naturals

CONSTANTS
  Callers,    \* goroutines in Cli.Call or Cli.Emit
  Reader,     \* the goroutine of Cli.init, which calls ReadCtx in a loop
  MaxConns    \* bound: number of connections dialled successfully

ASSUME AutoReconnectAssumption ==
  /\ Reader \notin Callers
  /\ MaxConns \in Nat

Users  == Callers \cup {Reader}
NoConn == 0                     \* c.inner is nil
Conns  == 1 .. MaxConns

VARIABLES
  inner,           \* c.inner
  creating,        \* c.creating
  closed,          \* c.closed
  made,            \* the number of connections dialled so far
  broken,          \* the connections whose Closed() is true
  pc,              \* where each user is
  conn,            \* conn[u]: the connection getInner gave to u
  createReleased,  \* the users waiting for a createSignal that has been broadcast
  brokenReleased,  \* the callers whose brokenSignal has been broadcast
  lateInstall      \* inner was installed, after Close, by a getInner that Close
                   \* found under way (history)

vars == <<inner, creating, closed, made, broken, pc, conn, createReleased,
          brokenReleased, lateInstall>>

Live(c) == c # NoConn /\ c \notin broken

Init ==
  /\ inner = NoConn
  /\ creating = FALSE
  /\ closed = FALSE
  /\ made = 0
  /\ broken = {}
  /\ pc = [u \in Users |-> "idle"]
  /\ conn = [u \in Users |-> NoConn]
  /\ createReleased = {}
  /\ brokenReleased = {}
  /\ lateInstall = FALSE

-----------------------------------------------------------------------------
Goto(u, label) == pc' = [pc EXCEPT ![u] = label]

\* The callers that hold brokenSignal's channel: from getInner until they return.
Subscribed == {u \in Callers : pc[u] \in {"writing", "awaitingResult"}}

\* The users that hold createSignal's channel.
CreateWaiters == {u \in Users : pc[u] = "awaitingCreate"}

\* getInner returns the connection c, and brokenSignal.Wait().
Obtain(u, c) ==
  /\ conn' = [conn EXCEPT ![u] = c]
  /\ Goto(u, IF u = Reader THEN "reading" ELSE "writing")

\* getInner returns an error: ReadCtx sleeps and tries again, the others give up.
ObtainNothing(u) ==
  /\ conn' = [conn EXCEPT ![u] = NoConn]
  /\ Goto(u, IF u = Reader THEN "sleeping" ELSE "idle")

\* The loop of getInner (lines 331-354) once there is no usable channel.
AwaitCreate(u) ==
  /\ creating
  /\ Goto(u, "awaitingCreate")
  /\ conn' = [conn EXCEPT ![u] = NoConn]
  /\ UNCHANGED creating

NobodyCreates_Forgotten == TRUE   \* mutant: `if c.creating` is dropped
NobodyCreates == ~ creating

StartDial(u) ==
  /\ NobodyCreates
  /\ creating' = TRUE
  /\ Goto(u, "dialing")
  /\ conn' = [conn EXCEPT ![u] = NoConn]

\* Entry of getInner: a broken inner channel is dropped and announced, and the
\* channel is open again whatever Close did before.
BrokenFound_Live == inner # NoConn   \* mutant: Closed() is not asked
BrokenFound == inner # NoConn /\ inner \in broken

GetInner(u) ==
  /\ pc[u] \in {"idle", "sleeping"}
  /\ closed' = FALSE
  /\ lateInstall' = FALSE
  /\ IF BrokenFound
     THEN inner' = NoConn /\ brokenReleased' = brokenReleased \cup Subscribed
     ELSE UNCHANGED <<inner, brokenReleased>>
  /\ IF inner' # NoConn
     THEN Obtain(u, inner') /\ UNCHANGED creating
     ELSE AwaitCreate(u) \/ StartDial(u)
  /\ UNCHANGED <<made, broken, createReleased>>

\* The select of lines 342-349 ends by the broadcast: the loop looks again.
\* Unlike the entry, it leaves a broken inner channel where it is.
LookAgain(u) ==
  /\ pc[u] = "awaitingCreate"
  /\ u \in createReleased
  /\ createReleased' = createReleased \ {u}
  /\ IF Live(inner)
     THEN Obtain(u, inner) /\ UNCHANGED creating
     ELSE AwaitCreate(u) \/ StartDial(u)
  /\ UNCHANGED <<inner, closed, made, broken, brokenReleased, lateInstall>>

\* The same select ends by the caller's context.
GiveUpWaiting(u) ==
  /\ pc[u] = "awaitingCreate"
  /\ u # Reader
  /\ createReleased' = createReleased \ {u}
  /\ ObtainNothing(u)
  /\ UNCHANGED <<inner, creating, closed, made, broken, brokenReleased, lateInstall>>

\* createFn has returned, or panicked: the deferred function locks, resets
\* creating and broadcasts createSignal; the lock is kept until getInner ends.
CreateBroadcast_Missing == createReleased   \* mutant: no createSignal.Broadcast()
CreateBroadcast == createReleased \cup CreateWaiters

DialDone(u) ==
  /\ pc[u] = "dialing"
  /\ creating' = FALSE
  /\ createReleased' = CreateBroadcast

DialFails(u) ==
  /\ DialDone(u)
  /\ ObtainNothing(u)
  /\ UNCHANGED <<inner, closed, made, broken, brokenReleased, lateInstall>>

DialOk(u) ==
  /\ DialDone(u)
  /\ made < MaxConns
  /\ made' = made + 1
  /\ inner' = made + 1
  /\ lateInstall' = closed
  /\ Obtain(u, made + 1)
  /\ UNCHANGED <<closed, broken, brokenReleased>>

-----------------------------------------------------------------------------
\* A caller has written its message (WriteCtxWithBrokenSignal) and waits in
\* Cli.Call, or is done (WriteCtx, Emit).
Write(u) ==
  /\ pc[u] = "writing"
  /\ Live(conn[u])
  /\ \/ Goto(u, "awaitingResult") /\ UNCHANGED <<conn, brokenReleased>>
     \/ /\ Goto(u, "idle")
        /\ conn' = [conn EXCEPT ![u] = NoConn]
        /\ brokenReleased' = brokenReleased \ {u}
  /\ UNCHANGED <<inner, creating, closed, made, broken, createReleased, lateInstall>>

\* A caller returns: its connection fails the write, or in the select of
\* Cli.Call it is told of the broken channel, or its result arrives or its
\* context ends.
CallerReturns(u) ==
  /\ Goto(u, "idle")
  /\ conn' = [conn EXCEPT ![u] = NoConn]
  /\ brokenReleased' = brokenReleased \ {u}
  /\ UNCHANGED <<inner, creating, closed, made, broken, createReleased, lateInstall>>

WriteFails(u) ==
  /\ pc[u] = "writing"
  /\ conn[u] \in broken
  /\ CallerReturns(u)

ToldBroken(u) ==
  /\ pc[u] = "awaitingResult"
  /\ u \in brokenReleased
  /\ CallerReturns(u)

ResultOrCancel(u) ==
  /\ pc[u] = "awaitingResult"
  /\ CallerReturns(u)

\* inner.ReadCtx returns a message, which may have been buffered before a close,
\* or an error, after which ReadCtx sleeps; the error of a malformed message
\* leaves the connection open.
ReadOk ==
  /\ pc[Reader] = "reading"
  /\ Goto(Reader, "idle")
  /\ conn' = [conn EXCEPT ![Reader] = NoConn]
  /\ UNCHANGED <<inner, creating, closed, made, broken, createReleased,
                 brokenReleased, lateInstall>>

ReadFails ==
  /\ pc[Reader] = "reading"
  /\ ObtainNothing(Reader)
  /\ UNCHANGED <<inner, creating, closed, made, broken, createReleased,
                 brokenReleased, lateInstall>>

\* Close of the reconnecting channel.
ClosedConns_Kept == broken   \* mutant: the inner channel is not closed
ClosedConns == IF inner = NoConn THEN broken ELSE broken \cup {inner}

Close ==
  /\ ~ closed
  /\ closed' = TRUE
  /\ broken' = ClosedConns
  /\ UNCHANGED <<inner, creating, made, pc, conn, createReleased, brokenReleased,
                 lateInstall>>

\* A connection fails under its users (peer, network, cancelled read).
Break ==
  /\ \E c \in 1 .. made : c \notin broken /\ broken' = broken \cup {c}
  /\ UNCHANGED <<inner, creating, closed, made, pc, conn, createReleased,
                 brokenReleased, lateInstall>>

-----------------------------------------------------------------------------
Next ==
  \/ \E u \in Users : \/ GetInner(u) \/ LookAgain(u) \/ GiveUpWaiting(u)
                      \/ DialFails(u) \/ DialOk(u)
  \/ \E u \in Callers : \/ Write(u) \/ WriteFails(u) \/ ToldBroken(u)
                        \/ ResultOrCancel(u)
  \/ ReadOk
  \/ ReadFails
  \/ Close
  \/ Break

Spec == Init /\ [][Next]_vars

\* Goroutines run, a dial ends one way or the other, the read loop keeps
\* reading, a failed connection fails its reader.  Nobody has to call, answer,
\* cancel, close or break a connection.
FairSpec ==
  /\ Spec
  /\ \A u \in Users : WF_vars(LookAgain(u)) /\ WF_vars(DialFails(u) \/ DialOk(u))
  /\ \A u \in Callers : WF_vars(WriteFails(u)) /\ WF_vars(ToldBroken(u))
                        /\ WF_vars(Write(u))
  /\ WF_vars(GetInner(Reader))
  /\ WF_vars(conn[Reader] \in broken /\ ReadFails)

-----------------------------------------------------------------------------
\* Types; a user holds a connection exactly while it reads, writes or waits for
\* a result on it.
TypeOK ==
  /\ inner \in 0 .. made
  /\ creating \in BOOLEAN
  /\ closed \in BOOLEAN
  /\ made \in 0 .. MaxConns
  /\ broken \subseteq 1 .. made
  /\ pc \in [Users -> {"idle", "sleeping", "awaitingCreate", "dialing", "reading",
                       "writing", "awaitingResult"}]
  /\ conn \in [Users -> 0 .. made]
  /\ \A u \in Users :
       conn[u] # NoConn <=> pc[u] \in {"reading", "writing", "awaitingResult"}
  /\ createReleased \subseteq CreateWaiters
  /\ brokenReleased \subseteq Subscribed
  /\ lateInstall \in BOOLEAN

\* One goroutine dials at a time, and creating is set exactly while one does: a
\* flag left behind by a dial that failed or panicked would make every later
\* getInner wait for ever (lines 350-362).
OneDialer ==
  /\ creating <=> \E u \in Users : pc[u] = "dialing"
  /\ \A u, v \in Users : pc[u] = "dialing" /\ pc[v] = "dialing" => u = v

\* Who waits for createSignal and has not been released waits for a dial that
\* is still under way (lines 339-349, 356-360).
AwaitsRunningDial ==
  \A u \in CreateWaiters \ createReleased : creating

\* A connection that is alive is the inner one: installing a new connection
\* never drops one that works, and no race dials two that both stay
\* (lines 320-323, 332, 366).
NoLiveOrphan == \A c \in 1 .. made : c \notin broken => c = inner

\* A caller is told that the channel broke only when the connection that its
\* own message was written to has broken (lines 320-329, 366-370).
NoFalseAlarm == \A u \in brokenReleased : conn[u] \in broken

\* While the channel is closed no connection is alive, except one dialled by a
\* getInner call that was under way when Close was called (lines 324, 366,
\* 375-386).
ClosedMeansBroken == closed /\ Live(inner) => lateInstall

\* Who waits for another goroutine's dial is told when it has ended, however it
\* ended (lines 339-362).  Nothing more: told of a failure, it may find that a
\* third goroutine has started the next dial, and has to wait again.
DialEndIsTold ==
  \A u \in Users :
    u \in CreateWaiters \ createReleased ~> u \notin CreateWaiters \ createReleased

\* json-rpc-cli.go:143-144 promises a call whose connection breaks the error
\* "channel broken while waiting for result".  This states it; see the README
\* for the interleaving in which such a call waits on.
BrokenEndsCall ==
  \A u \in Callers :
    pc[u] = "awaitingResult" /\ conn[u] \in broken ~> pc[u] # "awaitingResult"
=============================================================================
