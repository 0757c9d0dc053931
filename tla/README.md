# fancy-go: a verification project

TLA+ models of the concurrent parts of `fancy-go`, checked with TLC on small
instances and, for their safety properties, proved with TLAPS for every value
of the constants. Source lines are those of the files under `src/`.

## 1. The system

fancy-go is a collection of Go packages. Its core is a bidirectional JSON rpc
over websockets; below it two small concurrency primitives, beside it a
websocket agent, an exit coordinator and stateless utilities.

```
 user code --Call/Emit--> Cli (json-rpc-cli.go)     JsonRpcSession (json-rpc-server.go)
                            |  ReadCtx, WriteCtx       |  ReadCtx, WriteCtx
                 autoReconnectChannel                  |
                   |  createSignal, brokenSignal       |
                   |                    \              |
                   |  dials              cond-chan     |
                   v                    /              v
        wsChannel (client side) <-- one connection --> wsChannel (server side)
                   \_ readMutex, lastMessage, lastMsgTakenCond _/
```

| Component | Source | State | Operations | What is hard | What makes it correct |
|---|---|---|---|---|---|
| mutex-task | `mutex-task/mutex-task.go` | `waitingMap`: key to the waiters' channels | `Exec` | a key changes hands while old waiters are still being answered; panics | one execution per key, every call answered once, with the outcome of the execution it joined |
| cond-chan | `cond-chan/cond-chan.go` | the current channel | `Wait`, `Signal`, `Broadcast` | the waiter is free between `Wait` and its receive | no broadcast is lost, nobody else is woken |
| websocket channels | `json-msg-ws.go` 22-172 | `readMutex`, `lastMessage(Role)`, `lastMsgTakenCond`, ctx | `ReadCtx`, `WriteCtx`, `Close`, `Closed` | two sides read one connection through one slot; the mutex is dropped in the middle of a read | every frame reaches its side once and in order; close ends all reads |
| reconnecting channel | `json-msg-ws.go` 279-446 | `inner`, `creating`, `closed`, two conditions | `getInner`, reads, writes, `Close` | the lock is dropped during a dial; several users find the break | one dial, no lost signal, no leaked connection, the right users told |
| rpc client | `json-rpc-cli.go` | `seq`, `callMap`, a channel per call | `Call`, `Emit`, `init` | late and double responses, three ways out of the select | the loop never blocks on a call, no pending call leaks, every call ends |
| rpc session | `json-rpc-server.go` | `out`, `writeError`, `ctx` | `Serve`, handlers, `Emit` | two loops that stop each other, a queue of one | requests answered, errors reported, everything ends |
| websocket http handler | `json-msg-ws.go` 174-277 | none | one session per connection | - | - |
| length-prefixed channel | `json-msg.go` | scanner, two mutexes | `ReadCtx`, `WriteCtx`, `SplitJson` | writes that fail half way, the buffer's limit, the end of the stream | what is read is what was written, whole and in order; no error without a cause; nothing whole is held back |
| websocket frames | `websocket-util.go` | none | `ReceiveFullFrame`, `WriteCtx` | fragments, pings, the context between fragments | a message is all its fragments |
| websocket agent | `ws-agent.go` | `pipeErrorSet`, `pipeError`, ctx, two connections | `ServeHttp`, `startPipe` | two pipes fail at once, hooks drop messages or panic | transparent; the first error is returned; the failure of one pipe ends the other; connections are closed |
| log subscription | `ws-log-sub.go` | list of callbacks, a signal per client | subscribe, log, remove | removal during delivery, identity of closures | a client that is gone is removed, and no other |
| application exit | `app.go` | `exitHooks`, `taskWg`, `exitOnce` | `OnExit`, `TaskStart`, `Exit` | hooks, tasks and a deadline race | exit 0 only when all is done; exit always happens |
| error codes, err_util, json-util, grpc over http, logger, curl-to-go | the rest | none, or per value | sequential | - | - |

`PROJECT.json` lists the components again with the modules that model them,
and the hazards with the line at which each bites.

## 2. Modules

| Module | Models | State corresponds to |
|---|---|---|
| `SingleFlight` | what mutex-task promises: flights of a leader and its followers | abstract |
| `MutexTask` | `Exec` | `running` and `waitingMap` are the map's keys and values; `outcome`, `waitingList` the leader's locals; `ch` the waiters' channels |
| `BroadcastCond` | what cond-chan promises | abstract |
| `CondChan` | `Wait`, `Signal`, `Broadcast`, and the select around the channel | `ch` numbers the channels made, `closed`, `buffer` their state |
| `WsChannel` | `WebSocketConn2MessageChannel`, reading side | `readMutex`, `lastRole`; `released` are the readers whose condition channel is closed |
| `AutoReconnect` | `autoReconnectChannel` and its users | `inner`, `creating`, `closed`; connections are numbered in the order they are dialled, `broken` holds those whose `Closed()` is true |
| `RpcCli` | `Cli.Call` and `Cli.init` | `seq`, `callMap`; `ch[i]` is the channel of pending call `i`; `loop` and `msgId` are init's |
| `RpcSession` | `Serve`, handlers, `Emit`, the writer | `out`, `writeError`, `ctxDone`; `stage[m]` says where a message is, `serve` and `writer` where the two loops are |
| `AppExit` | `OnExit`, `TaskStart`, `Exit`, `doExit` | `exitHooks`, `exitErr`, `hookWg` by name; `task` and `waiter` are `taskWg`, `once` is `exitOnce`; `phase` says where `doExit` is, `waited` which of its channels are closed |
| `WsAgent` | `ServeHttp`, `startPipe`, and `ReceiveFullFrame` and `WriteCtx` of the frames below | `serve` says how far `ServeHttp` is, `open` which connections it has open, `pc[d]` where the pipe of direction `d` is; `acc` is `data`, later `bin`; `pipeErrorSet`, `pipeError`, `cancelled` by name |
| `Framing` | `lengthPrefixedChannel` at both ends of a stream | `writeMutex` by name; `messages[m].sent` is what of message `m` has been written; `wire` is what is on the way, `buf` the scanner's buffer; `reader` is "stopped" once `ReadCtx` has returned an error |
| `LogSub` | `NewLogSubPoint` | `logChannels`, `signal`; `cs` is a logger's copy |
| `Enumeration` | what "once and in order" means of numbered things passed on | - |
| `MCxxx` | instances for TLC | - |
| `xxx_proofs` | theorems about `xxx`; those about `CondChan` are in `WsChannel_proofs` | - |

How they depend on each other. The two users of cond-chan, `WsChannel` and
`AutoReconnect`, use its condition as `BroadcastCond` specifies it: who has
called `Wait` is registered, and the next `Broadcast` releases all who are.
`CondChan` is shown (by TLC and by proof) to implement `BroadcastCond`.
`AutoReconnect` takes the connections of `WsChannel` as things that are dialled
and break, and its callers do what `RpcCli` does with the broken signal.
`RpcCli` and `RpcSession` take their message channel as an environment that
delivers, fails and closes; `Framing` is one such channel (with the difference
of observation 10), `WsChannel` the other. `WsAgent` and `LogSub` use
websockets directly: `WsAgent` opens up the step in which `WsChannel` receives
a whole frame. `AppExit` stands alone: its hooks and tasks are whatever the
program registers.

What one action is. A critical section without a blocking operation is one
action. Wherever the code drops a lock, blocks, or calls something that takes
time (the user's function, a dial, a read, a write, a callback), the action
ends. In the session and in `init` the deferred functions are separate actions,
because other goroutines see what lies between them.

Abstractions, by module:

- `MutexTask`: a waiter's channel is named by the waiter; results are model
  values, one of them the zero value with a nil error. `Exec` is not called
  from inside the user's function with the same key.
- `CondChan`: channels are numbers; only number 0 has a buffer.
- `WsChannel`: of a frame only what decides its side is kept; fragments and
  pings are inside the one step that receives a frame. The ten-second timer
  (124) may fire at any time. `closeFn` is one step. A cancelled read context
  is reset when the call returns.
- `AutoReconnect`: the inner channel is a `wsChannel`, so it has no broken
  signal of its own. The reader's context does not end. A dial whose creator
  panics is a failed dial. `time.Sleep` is the state "sleeping".
- `RpcCli`: `Emit` only writes. An answer is not told apart from an error
  answer: both are stored and sent the same way.
- `RpcSession`: response and request are one message; what the handler returns,
  and whether it panics, only changes the response's content.
- `AppExit`: the three seconds are a timer that may fire at any time after it
  was started. The unsynchronised `append` of `OnExit` is a read and a write;
  a `doExit` that reads the slice between them may crash (`TornRead`). Three
  variables are history: the tasks and hooks of the moment of cancellation, and
  whether an `OnExit` has since disturbed the hooks.
- `WsAgent`: of a frame its number, its fin bit and whether it carries data. A
  hook keeps a message or drops it; what it writes into it is not looked at.
  Headers and protocols of the dial are left out. `winner`, `sent`, `dropped`,
  `late` and `written` (which of the messages read each message written is) are
  history. When the receiving pipe's goroutine panics the
  process is gone, and nothing moves any more.
- `Framing`: bytes are digits, the comma, and bytes of message `m`'s json;
  `Unmarshal` accepts the whole json of one message and nothing else, because
  no mixture of a cut message with what follows it is valid json. Blanks before
  a length (`\s*`) are never written. A `Write` that fails may have sent any
  part of its segment. The scanner reads pieces of any size.
- `LogSub`: a callback is its client. The copy of the list is one step; one
  that overlaps a removal half way is not modelled.

## 3. Runs

`TypeOK` of a module also relates its program counters to its locals; the runs
of `MutexTask`, `CondChan` and `AutoReconnect` leave it, and the invariants that
their other properties contain (`OneLeaderPerKey`, `NoSleepOnReady`,
`OneDialer`, and `AnswerIsDecoded` of `RpcCli`), to the proofs of section 5.
Invariants are safety, the others are action or liveness properties under the
fairness of section 4.

- `mutex_task` (3 goroutines, 2 keys, 2 results; 20,730 states).
  `WaiterOwedOnce`, `EveryCallReturns`, and `ImplementsSingleFlight`. Three goroutines give a leader with two waiters, or
  a released waiter that leads the next flight while its old leader is still
  sending; a second key shows that flights do not mix.
- `cond_chan` (3 waiters, 3 broadcasts; 24,841 states). `BroadcastReleases`,
  `ImplementsBroadcastCond`. Three broadcasts replace the
  buffered channel and two unbuffered ones.
- `cond_chan_signal`: see finding 1.
- `ws_channel` (a server reader, two client readers, 3 frames of five kinds;
  86,256 states). `SlotFreeWhileReading` is the assertion at lines 78-80;
  `DeliveredOnceInOrder`, `SleepsForTheOther`, `CloseEndsReads`, `SlotIsTaken`.
  Three readers are the fewest with one in the select, one that takes the slot
  and a third that reads the next frame before the first is back.
- `auto_reconnect` (2 callers, the read loop, 3 connections; 6,443 states).
  `AwaitsRunningDial`, `NoLiveOrphan`, `NoFalseAlarm`,
  `ClosedMeansBroken`, `DialEndIsTold`. With three users one dials, one waits
  and one finds the connection broken; three connections let a replacement be
  replaced. When the bound on connections is used up only dials that succeed
  are excluded.
- `auto_reconnect_broken`: see finding 2.
- `rpc_cli` (2 callers, 3 calls; 116,501 states). `AnswersAtMostOnce`,
  `PendingIsRunning`, `StopEndsCalls`, `ResponseEndsCall`.
  The peer answers any written request, before the write has returned, late,
  repeatedly or never; three calls let a caller go on to its next call while
  the response to its last one is on its way. Deadlock is not checked: the loop
  may have ended and the calls be used up.
- `rpc_session` (2 requests, 2 events, one with a callback; 63,392 states).
  `WriterErrorIsReported`, `CallbackFollowsWrite`, `RequestIsAnswered`,
  `EmitEnds`, `SessionEnds`. Four messages keep the queue of one full with
  senders waiting. Deadlock is not checked: a session ends, and handlers may be
  left blocked (observation 4).
- `app_exit` (2 exiters, one with an error, 2 hooks, 2 tasks; 386,104 states).
  `OkMeansDone`, `CauseIsStable`, `ExitEnds`. Two hooks are the fewest that can
  lose one another, or of which one hangs and one returns; two tasks let one
  start after the other has released the waiting goroutine. Deadlock is not
  checked: the process ends.
- `ws_agent` (2 frames each way, a hook on the sending direction; 163,200
  states). `Transparent`: what a direction has written enumerates the messages
  it has read, less those its hook dropped and perhaps the one in hand, and
  each of them enumerates the frames with data that it came in. `FirstErrorWins`, `OneMoreMessage`,
  `PipesEnd`. Two frames are a message of two fragments, or two messages, one of
  which may come after the context is done; one direction with a hook and one
  without show both treatments of an empty message. Deadlock is not checked:
  the handler ends.
- `framing` (2 writers, 3 messages, radix 2, segments of 2 bytes, a buffer of 5;
  492,570 states). `IntactInOrder`; `ErrorHasCause`: an error has a cause, and
  all that came whole before that cause has been returned first;
  `FullMessageArrives`. A message counts as cut only once its writer has gone
  on. The constants keep the order of the code's (header limit and segment below the
  buffer, the buffer below `MaxLen`) at a size where a header of two digits
  can be cut, a message just fits, and one does not. Three messages are a cut
  one, one that is taken for its rest and one after that. Deadlock is not
  checked: the reader stops.
- `log_sub`: see finding 3.

Bounds: `MaxBroadcasts`, `MaxFrames`, `MaxConns`, `MaxCalls`,
`MaxMessages`, `Lengths`, and the finite
sets of goroutines and messages. Each property that a run lists is also shown
to depend on the code: `PROJECT.json` names, per property, a change of a
definition that a plausible bug would make (kept beside the definition, marked
"mutant") under which the property fails.

### Findings

1. **A Signal can pass over a waiter** (`cond-chan.go:37-41`, run
   `cond_chan_signal`). The package comment calls it the channel form of
   `sync.Cond`. `Broadcast` replaces the first channel, which has a buffer of
   one, by channels without a buffer; from then on a `Signal` that comes after
   a goroutine's `Wait()` and before its receive is dropped. Inside this
   repository only `Broadcast` is used, for which `BroadcastReleases` holds.
2. **A broken connection may be replaced without telling its callers**
   (`json-msg-ws.go:332, 366`, run `auto_reconnect_broken`). Goroutine B waits
   on `createSignal` while A dials. A's dial succeeds, A writes its call and
   waits; the connection breaks before B runs. B finds `inner` broken at line
   332, dials and installs another connection at line 366. `brokenSignal` is
   broadcast only at the entry of `getInner`, which finds the new connection in
   order: A is not told until that one breaks too. The error of
   `json-rpc-cli.go:143-144` does not come.
3. **A log client's end removes somebody else's callback**
   (`ws-log-sub.go:31-33, 68`, run `log_sub`). `removeCb` compares the code
   pointers of two func values, which are equal for all closures of the literal
   at line 51. Whoever leaves, the first callback in the list is removed. With
   two clients the one that stays loses its entries; the one that left stays in
   the list, the write to it fails again and again, and the second time
   `close(signal)` panics.

### Observations

Behaviours the models contain and no comment or test contradicts.

1. The leader of a `MutexTask` execution that panics returns a zero result and
   a nil error, its waiters the error (`mutex-task.go:57-80`).
2. A call that joins after the user's function has ended and before the key is
   deleted gets an outcome computed before it was made.
3. `Close` of the reconnecting channel does not hold against a dial under way,
   and any later call reopens the channel (`json-msg-ws.go:324`); after
   `NewCli`'s context has ended, a `Call` may still dial.
4. A handler that ends after the writer is gone may block for ever
   (`json-rpc-server.go:159`). `Emit` selects on the context and may not.
5. A failing write that breaks the connection may be reported as a read error:
   the reader can be faster than the `Store` at line 87.
6. `Decode` may happen after `Call` has returned by its context: the read loop
   then writes to the caller's variable unsynchronised.
7. `OnExit` during the exit (`app.go:94-95`) makes the hooks' counter negative,
   which panics, or lets the process exit with 0 while a hook runs. Two `OnExit`
   at once may lose a hook. This is why `OkMeansDone` has its exception.
8. A hook that calls `Exit` never returns (`app.go:61, 74`): the exit takes the
   three seconds and its code is -1.
9. Tasks started during the exit are not waited for once `taskWg` was at zero;
   one that starts just then makes `taskWg.Wait` panic (`app.go:126`).
10. At the end of a stream `ReadCtx` of the length-prefixed channel returns nil
    and leaves the message as it was (`json-msg.go:39-40, 70-71`;
    `IntactInOrder` says when). `Serve` has no other way to notice the end:
    over such a channel it would go round for ever, handling the same empty
    request. `RpcSession` takes a read on a closed channel to fail, which a
    websocket channel's does. An unfinished message at the end is dropped
    without an error.
11. The scanner's buffer of 64 KiB, not the "max 2MB" of `json-msg.go:55`, is
    the limit: `ErrorHasCause` and `FullMessageArrives` hold with `MaxToken`.
12. A failed write may leave a part of a message behind, and the channel stays
    open (`json-msg.go:95`). What follows is taken for the rest of it. The
    reader ends with an error, or waits; it never returns a wrong message.
13. `cancel()` closes no connection: when the target fails, `ServeHttp` and the
    connections last until the source sends something or closes
    (`ws-agent.go:146`; the exception in `PipesEnd`). A source that does not
    read, or a target, may block a write in the same way.
14. When both pipes fail together `startPipe` may return no error, or read
    `pipeError` while it is being written (`ws-agent.go:145, 159`; the exception
    in `FirstErrorWins`). It is only logged.
15. An empty message is forwarded in a direction without a hook and dropped in
    one with a hook, even if the hook leaves it alone (`ws-agent.go:126`).
16. `websocket-util.go:67` asserts a method that `golang.org/x/net`'s
    connection does not have: a ping is a panic. In the handler's goroutine the
    http server recovers and the deferred calls close everything; in the
    receiving pipe's goroutine it ends the process, as a panic of its hook does.

## 4. Fairness

- Goroutines are scheduled: weak fairness on every step that needs nobody else.
- `MutexTask`: the user's function ends. Without it no waiter could return.
- `WsChannel`: `Acquire` (taking `readMutex`) is strongly fair, because
  `sync.Mutex` hands the lock to a goroutine that has waited for more than a
  millisecond. A read is fair only on a closed connection; the peer need not
  send. The select with a timer ends.
- `AutoReconnect`: a dial ends, with or without success; the read loop keeps
  calling `ReadCtx`, and its read on a broken connection fails. Callers need
  not call, and no answer, cancellation or close has to come.
- `RpcCli`: writes and event handlers end; the read loop's `ReadCtx` ends once
  the client's context is done; a select with a ready case ends, whichever case
  it takes. No response has to come.
- `RpcSession`: handlers, writes and callbacks end; a read ends once the
  session's channel is closed (not when the context ends: a length-prefixed
  channel looks at no context). A sender blocked on `w.out` gets its turn
  (strong fairness: a Go channel queues its senders).
- `AppExit`: the goroutine that exits runs and the timer fires. No hook has to
  return, no task has to end, and `waitWg`'s goroutines need not run.
- `WsAgent`: `ServeHttp` and the pipes run, hooks end, and on a connection that
  is closed here reads and writes fail. On an open one neither has to end.
- `Framing`: the reader reads. No writer has to go on, nobody has to close.

## 5. Proofs

Every theorem has the form `Spec => []P`, `Spec => [][A]_vars` or
`Spec => Abstract!Spec` and holds for all values of the constants under the
module's named assumption, which only says that the null values are not members
of the sets they stand beside, that bounds are naturals, in `AppExit` that
there are finitely many hooks, and in `Framing` that the radix is at least two,
the limits are positive, and no length that `SplitJson` accepts has more digits
than `MaxHeader` (2 MB has seven digits, the code's limit is ten). Each proofs module defines `IInv`, proves
`Init => IInv` and `IInv /\ [Next]_vars => IInv'` by cases on the actions, and
derives the theorems.

| Module | Theorems | Why the invariant is inductive |
|---|---|---|
| `MutexTask_proofs` | `TypeCorrect`, `MutualExclusion`, `NoWaiterForgotten` | `WaiterOwedOnce` says in which of three places a waiter's answer is, and that it is in no two; with `OneLeaderPerKey` it is inductive as it stands |
| | `Refinement` | from `IInv`: the leader of a key and the answer owed to a waiter are unique, so the `CHOOSE` of the mapping is determined; each action is one abstract step or a stutter |
| `WsChannel_proofs` | `CondTypeCorrect`, `CondNoLostWakeup`, `CondRefinement` (of `CondChan`) | a channel is closed exactly when it is older than the current one |
| | `TypeCorrect`, `NoOverwrite`, `NoLostWakeup` | the mutex is held exactly in the states "looping" and "reading", and the slot changes only there |
| | `NothingLostOrReordered` | inductive given the others: a frame is read only into an empty slot and is the last one, so it goes to the end of its side's list; taking it moves it from the slot to `delivered` |
| `AutoReconnect_proofs` | `TypeCorrect`, `SingleDial`, `NoLostCreateSignal`, `NoConnectionLeaked`, `BrokenSignalIsTrue`, `CloseCloses` | `NeededDial` is added: while somebody dials no inner connection is alive, so installing one replaces none that works |
| `RpcCli_proofs` | `TypeCorrect`, `LoopNeverBlocks`, `NoStalePending`, `ResultIsThere` | `Fresh` (the id of a call that has not registered is unknown to the map and the peer) and `InHand` (a call taken out of the map is unanswered and in the loop's hands alone) are added |
| `RpcSession_proofs` | `TypeCorrect`, `WriterErrorWins`, `CallbackIsTold` | what is said of messages and what is said of the session's end are two parts, of which most steps touch one; `Caused` is added: whatever has ended is ended for a read error's or the parent's sake, or the writer's error is already stored; `OneInHand` ties the writer's message to its stage |
| `AppExit_proofs` | `TypeCorrect`, `OkExitIsComplete`, `CauseStays` | `HooksKept`, `HooksEnded` and `TasksEnded` follow the hooks and tasks of the cancellation through the phases of the exit; `OnceTaken` makes `exitErr` final |
| `WsAgent_proofs` | `TypeCorrect`, `FirstErrorIsReturned`, `CancelStopsPipes` | `Owner` says that only the winner of the swap is between it and its cancel, and has stored its error when it is past that; `Reported` that nobody gets to the return before there is a winner; `Staged` which pipe states go with which stage of `ServeHttp`; `Stopping` that a direction that wrote after the cancellation can only go on to fail |
| | `MessagesPassIntact` | the pipe's state says how far the message in hand is: before it is complete all of `ToWrite` is written, afterwards all but that one; `acc` enumerates the frames with data that came since the last message |
| `Framing_proofs` | `TypeCorrect`, `MessagesIntact`, `ErrorsOnlyForCause` | see below |

`Framing`. The theorems are about bytes: any radix, segment size and limits, any
messages, failing writes that leave any part of a message behind, and any way
in which the stream is cut into reads. The proof has three parts.

1. Numbers. `Digits` and the scanner's `Value` are recursive functions.
   `StrongInduct` (a set of naturals that holds `n` whenever it holds all below
   `n` is all of them; it follows from `NatLessThanWellFounded`) replaces
   induction over a predicate. From it: `Digits` yields digits only, of which
   the first is not zero unless the number is (`DigitsAreDigits`), and digits
   left over in front of a header make the number that is read larger than the
   one that was written unless they are zeros (`ValueInFront`).
2. Layout (`Streamed`). `Stream`, the scanner's buffer and what is on the way,
   is the bytes written of the messages behind the last one delivered, laid end
   to end: a function `pos` gives where each begins. Only a broken connection
   takes bytes from its end.
3. What the scanner takes. `Accepted`: a token that `Unmarshal` accepts is the
   whole of a message `m`, with nothing before it but zeros. Its json is all
   `m`'s, so the comma before it is `m`'s too; and as the number in front of
   that comma is the length of the token, no digits of a cut message were
   joined to `m`'s. `ErrorsHaveCause`: without a cause the
   message at the front of the buffer is sound, and the scanner waits for it or
   takes it. `NothingLeft`: once all bytes are in the buffer, a whole message
   that could be delivered makes it yield a token.

`Given` (what is delivered is all that is whole up to the last one delivered)
and `AtEnd` (after a nil there is nothing left) are kept by the steps of the
reader by 3, and by those of the writers because a message behind a cut one
never becomes deliverable.

Only model-checked: all liveness properties (`EveryCallReturns`,
`BroadcastReleases`, `CloseEndsReads`, `SlotIsTaken`, `DialEndIsTold`,
`StopEndsCalls`, `ResponseEndsCall`, `RequestIsAnswered`, `EmitEnds`,
`SessionEnds`, `ExitEnds`, `PipesEnd`, `FullMessageArrives`), as liveness under
fairness is out of the prover's reach. Every invariant and action property of
the passing runs has its theorem.

## 6. Not modelled, and why

- json and wording everywhere, and bytes everywhere but in `Framing`.
- The components of section 1 without state of their own: the http handler
  (174-277: it checks origin and method and runs one session per connection),
  error codes, err_util, json-util, grpc over http, logger, curl-to-go. They are
  sequential; what the logger ships is the vendor's producer's to deliver.
- The write side of a websocket channel: a mutex around one `Write`.
- Emitting before `Serve` has run, which would find a nil context.
- Nested reconnecting channels (`json-msg-ws.go:311-313, 326-328, 333, 367`).
- `handleServerChannel` (442): a user's function on the server side, for which
  `WsChannel` already has a reader.

## 7. Plan

Done: the two primitives, the websocket channels, the reconnecting channel, the
client and the session, in this order, because each is used by the next; the
exit of the process; the websocket agent with its frames, the length-prefixed
channel, the log subscription point.

Next, in this order:

1. A composition of `RpcCli` with a peer's `RpcSession` over channels that
   break, against an abstract remote call: answered with the result of its own
   execution, or with an error; executed at most once. The refinement proved.
2. The safety half of the liveness properties: that a state in which nobody can
   move is one in which everything is settled, by module.
3. Nested reconnecting channels, and `Emit` before `Serve`.
