------------------------------ MODULE AppExit ------------------------------
(***************************************************************************)
(* utils/app/app.go: the end of the process.  The first Exit or            *)
(* ExitWithErr cancels the application's context, runs the exit hooks and  *)
(* waits, three seconds in all, for the tasks and then for the hooks.      *)
(*                                                                         *)
(* Goroutines that call Exit (the signal handler's among them), register   *)
(* hooks and start and end tasks run alongside.  Nothing guards exitHooks: *)
(* two OnExit at once may lose a hook, and OnExit may fall between the     *)
(* count of the hooks (line 94) and the loop that starts them (line 95).   *)
(* The timer may fire at any time.                                         *)
(***************************************************************************)
EXTENDS Integers, FiniteSets

CONSTANTS
  Exiters,    \* goroutines that call Exit or ExitWithErr
  WithErr,    \* those that call ExitWithErr
  Hooks,      \* calls of OnExit, each with its function
  Tasks,      \* calls of TaskStart
  NoErr,      \* exitErr is nil
  NoOne       \* exitOnce has not been entered

ASSUME AppExitAssumption ==
  /\ WithErr \subseteq Exiters
  /\ IsFiniteSet(Hooks)
  /\ NoErr \notin Exiters
  /\ NoOne \notin Exiters

VARIABLES
  once,        \* who has entered exitOnce.Do, and never leaves it
  calling,     \* the exiters that have called; all but once wait in exitOnce.Do
  phase,       \* where once is
  exitErr,     \* whose error exitErr holds
  ctxDone,     \* the application's context is done
  exitHooks,   \* the hooks registered
  reg,         \* reg[h]: "new", "appending" or "done", how far OnExit(h) has come
  seen,        \* seen[h]: the exitHooks that OnExit(h) appends to
  hook,        \* hook[h]: "idle", "running", "blocked" (it called Exit), "returned"
  hookWg,      \* the counter of hookWg
  task,        \* task[t]: "idle", "running", "done"; taskWg counts the running ones
  waiter,      \* the goroutine in taskWg.Wait: "ready", "blocked" or "woken"
  waited,      \* which of taskWgDone and hookWgDone are closed
  timedOut,    \* timeout is done
  exitCode,    \* "none" while the process runs; "ok", "timeout", "panic"
  tasksBefore, \* the tasks that were running when the context was cancelled (history)
  hooksBefore, \* the hooks registered by then (history)
  raced        \* an OnExit changed the hooks between lines 94 and 95, or lost
               \* one between lines 63 and 94 (history)

exitVars == <<once, calling, phase, exitErr, ctxDone, tasksBefore, hooksBefore>>
regVars  == <<exitHooks, reg, seen, raced>>
taskVars == <<task, waiter>>
hookVars == <<hook, hookWg>>
vars     == <<exitVars, regVars, taskVars, hookVars, waited, timedOut, exitCode>>

Init ==
  /\ once = NoOne
  /\ calling = {}
  /\ phase = "none"
  /\ exitErr = NoErr
  /\ ctxDone = FALSE
  /\ exitHooks = {}
  /\ reg = [h \in Hooks |-> "new"]
  /\ seen = [h \in Hooks |-> {}]
  /\ hook = [h \in Hooks |-> "idle"]
  /\ hookWg = 0
  /\ task = [t \in Tasks |-> "idle"]
  /\ waiter = "ready"
  /\ waited = {}
  /\ timedOut = FALSE
  /\ exitCode = "none"
  /\ tasksBefore = {}
  /\ hooksBefore = {}
  /\ raced = FALSE

RunningTasks == {t \in Tasks : task[t] = "running"}
Unreturned   == {h \in Hooks : hook[h] \in {"running", "blocked"}}

-----------------------------------------------------------------------------
\* append reads exitHooks and writes it back, and nothing keeps another OnExit out.
OnExit(h) ==
  /\ reg[h] = "new"
  /\ reg' = [reg EXCEPT ![h] = "appending"]
  /\ seen' = [seen EXCEPT ![h] = exitHooks]
  /\ UNCHANGED <<exitVars, exitHooks, raced, taskVars, hookVars, waited, timedOut,
                 exitCode>>

Appended(h) ==
  /\ reg[h] = "appending"
  /\ reg' = [reg EXCEPT ![h] = "done"]
  /\ seen' = [seen EXCEPT ![h] = {}]
  /\ exitHooks' = seen[h] \cup {h}
  /\ raced' = \/ raced
              \/ phase = "spawning"
              \/ phase = "counting" /\ seen[h] # exitHooks
  /\ UNCHANGED <<exitVars, taskVars, hookVars, waited, timedOut, exitCode>>

TaskStart(t) ==
  /\ task[t] = "idle"
  /\ task' = [task EXCEPT ![t] = "running"]
  /\ UNCHANGED <<exitVars, regVars, waiter, hookVars, waited, timedOut, exitCode>>

\* The function TaskStart returned is called; a second call does nothing.  The
\* end of the last task releases the goroutine in Wait.
TaskDone(t) ==
  /\ task[t] = "running"
  /\ task' = [task EXCEPT ![t] = "done"]
  /\ waiter' = IF waiter = "blocked" /\ RunningTasks = {t} THEN "woken" ELSE waiter
  /\ UNCHANGED <<exitVars, regVars, hookVars, waited, timedOut, exitCode>>

-----------------------------------------------------------------------------
CallExit(e) ==
  /\ e \notin calling
  /\ calling' = calling \cup {e}
  /\ UNCHANGED <<once, phase, exitErr, ctxDone, tasksBefore, hooksBefore, regVars,
                 taskVars, hookVars, waited, timedOut, exitCode>>

\* exitOnce.Do runs its function for one caller; it never returns.
FirstCall_Always == TRUE   \* mutant: no sync.Once
FirstCall == once = NoOne

EnterOnce(e) ==
  /\ e \in calling
  /\ FirstCall
  /\ once' = e
  /\ exitErr' = IF e \in WithErr THEN e ELSE exitErr
  /\ phase' = "cancelling"
  /\ UNCHANGED <<calling, ctxDone, tasksBefore, hooksBefore, regVars, taskVars,
                 hookVars, waited, timedOut, exitCode>>

Cancel ==
  /\ phase = "cancelling"
  /\ ctxDone' = TRUE
  /\ tasksBefore' = RunningTasks
  /\ hooksBefore' = exitHooks
  /\ phase' = "counting"
  /\ UNCHANGED <<once, calling, exitErr, regVars, taskVars, hookVars, waited, timedOut,
                 exitCode>>

\* The timer is started and the hooks are counted.
Counted_None == 0   \* mutant: each hook's goroutine is left to count itself
Counted == Cardinality(exitHooks)

CountHooks ==
  /\ phase = "counting"
  /\ hookWg' = Counted
  /\ phase' = "spawning"
  /\ UNCHANGED <<once, calling, exitErr, ctxDone, tasksBefore, hooksBefore, regVars,
                 taskVars, hook, waited, timedOut, exitCode>>

\* The loop over exitHooks as it is now; then the two goroutines that wait.
SpawnHooks ==
  /\ phase = "spawning"
  /\ hook' = [h \in Hooks |-> IF h \in exitHooks THEN "running" ELSE hook[h]]
  /\ phase' = "awaitingTasks"
  /\ UNCHANGED <<once, calling, exitErr, ctxDone, tasksBefore, hooksBefore, regVars,
                 taskVars, hookWg, waited, timedOut, exitCode>>

\* A hook returns; hookWg.Done panics when it makes the counter negative.
HookReturns(h) ==
  /\ hook[h] = "running"
  /\ hook' = [hook EXCEPT ![h] = "returned"]
  /\ IF hookWg = 0 THEN exitCode' = "panic" /\ UNCHANGED hookWg
                   ELSE hookWg' = hookWg - 1 /\ UNCHANGED exitCode
  /\ UNCHANGED <<exitVars, regVars, taskVars, waited, timedOut>>

\* A hook calls Exit and waits in exitOnce.Do for its own caller.
HookCallsExit(h) ==
  /\ hook[h] = "running"
  /\ hook' = [hook EXCEPT ![h] = "blocked"]
  /\ UNCHANGED <<exitVars, regVars, taskVars, hookWg, waited, timedOut, exitCode>>

HookPanics(h) ==
  /\ hook[h] = "running"
  /\ exitCode' = "panic"
  /\ UNCHANGED <<exitVars, regVars, taskVars, hookVars, waited, timedOut>>

\* The reader of a slice that is being appended to may take the length of the
\* new one and the array of the old one.
TornRead ==
  /\ phase = "spawning"
  /\ \E h \in Hooks : reg[h] = "appending"
  /\ exitCode' = "panic"
  /\ UNCHANGED <<exitVars, regVars, taskVars, hookVars, waited, timedOut>>

\* waitWg: wg.Wait() returns and its channel is closed.
Waiting == phase \in {"awaitingTasks", "awaitingHooks"}

TasksBlock ==
  /\ Waiting
  /\ waiter = "ready" /\ RunningTasks # {} /\ "tasks" \notin waited
  /\ waiter' = "blocked"
  /\ UNCHANGED <<exitVars, regVars, task, hookVars, waited, timedOut, exitCode>>

TasksWaited ==
  /\ Waiting
  /\ waiter # "blocked"
  /\ RunningTasks = {}
  /\ waiter' = "ready"
  /\ waited' = waited \cup {"tasks"}
  /\ UNCHANGED <<exitVars, regVars, task, hookVars, timedOut, exitCode>>

\* A task was started after the last one had ended and before Wait returned.
WaitGroupReused ==
  /\ waiter = "woken"
  /\ RunningTasks # {}
  /\ exitCode' = "panic"
  /\ UNCHANGED <<exitVars, regVars, taskVars, hookVars, waited, timedOut>>

HooksWaited ==
  /\ Waiting
  /\ hookWg = 0
  /\ waited' = waited \cup {"hooks"}
  /\ UNCHANGED <<exitVars, regVars, taskVars, hookVars, timedOut, exitCode>>

TimeOut ==
  /\ phase \in {"spawning", "awaitingTasks", "awaitingHooks"}
  /\ timedOut' = TRUE
  /\ UNCHANGED <<exitVars, regVars, taskVars, hookVars, waited, exitCode>>

-----------------------------------------------------------------------------
\* The two selects of doExit.
TasksFinished_Hooks == "hooks" \in waited   \* mutant: the channels are swapped
TasksFinished == "tasks" \in waited

AllTasksFinished ==
  /\ phase = "awaitingTasks"
  /\ TasksFinished
  /\ phase' = "awaitingHooks"
  /\ UNCHANGED <<once, calling, exitErr, ctxDone, tasksBefore, hooksBefore, regVars,
                 taskVars, hookVars, waited, timedOut, exitCode>>

AllHooksReturned ==
  /\ phase = "awaitingHooks"
  /\ "hooks" \in waited
  /\ exitCode' = "ok"
  /\ UNCHANGED <<exitVars, regVars, taskVars, hookVars, waited, timedOut>>

TimedPhases_First == {"awaitingTasks"}   \* mutant: the second select has no timeout
TimedPhases == {"awaitingTasks", "awaitingHooks"}

ExitTimeout ==
  /\ phase \in TimedPhases
  /\ timedOut
  /\ exitCode' = "timeout"
  /\ UNCHANGED <<exitVars, regVars, taskVars, hookVars, waited, timedOut>>

-----------------------------------------------------------------------------
DoExit == \/ Cancel \/ CountHooks \/ SpawnHooks
          \/ AllTasksFinished \/ AllHooksReturned \/ ExitTimeout

\* os.Exit, or a panic, ends every goroutine.
Alive == exitCode = "none"

Next ==
  /\ Alive
  /\ \/ \E h \in Hooks : \/ OnExit(h) \/ Appended(h)
                         \/ HookReturns(h) \/ HookCallsExit(h) \/ HookPanics(h)
     \/ \E t \in Tasks : TaskStart(t) \/ TaskDone(t)
     \/ \E e \in Exiters : CallExit(e) \/ EnterOnce(e)
     \/ Cancel \/ CountHooks \/ SpawnHooks
     \/ TornRead \/ TasksBlock \/ TasksWaited \/ WaitGroupReused \/ HooksWaited
     \/ TimeOut
     \/ AllTasksFinished \/ AllHooksReturned \/ ExitTimeout

Spec == Init /\ [][Next]_vars

\* The goroutine that exits runs, and the timer fires.  No hook has to return,
\* no task has to end.
FairSpec ==
  /\ Spec
  /\ \A e \in Exiters : WF_vars(Alive /\ EnterOnce(e))
  /\ WF_vars(Alive /\ DoExit)
  /\ WF_vars(Alive /\ TimeOut)

-----------------------------------------------------------------------------
\* Unless OnExit raced with the exit, hookWg counts exactly the hooks that are
\* about to be started, and then those that have not returned.
HookWgCounts ==
  ~ raced => hookWg = Cardinality(IF phase = "spawning" THEN exitHooks ELSE Unreturned)

\* Types, and that hookWg counts the hooks (lines 93-101).
TypeOK ==
  /\ once \in Exiters \cup {NoOne}
  /\ calling \subseteq Exiters
  /\ phase \in {"none", "cancelling", "counting", "spawning", "awaitingTasks",
                "awaitingHooks"}
  /\ exitErr \in WithErr \cup {NoErr}
  /\ ctxDone = (phase \notin {"none", "cancelling"})
  /\ exitHooks \subseteq Hooks
  /\ reg \in [Hooks -> {"new", "appending", "done"}]
  /\ seen \in [Hooks -> SUBSET Hooks]
  /\ hook \in [Hooks -> {"idle", "running", "blocked", "returned"}]
  /\ hookWg \in Nat
  /\ HookWgCounts
  /\ task \in [Tasks -> {"idle", "running", "done"}]
  /\ waiter \in {"ready", "blocked", "woken"}
  /\ waited \subseteq {"tasks", "hooks"}
  /\ timedOut \in BOOLEAN
  /\ exitCode \in {"none", "ok", "timeout", "panic"}
  /\ tasksBefore \subseteq Tasks
  /\ hooksBefore \subseteq Hooks
  /\ raced \in BOOLEAN

\* The process exits with 0 only when the tasks that were running when the
\* context was cancelled have ended, and the hooks registered by then have
\* returned, unless an OnExit came between lines 94 and 95 or, before that,
\* lost one of them to a concurrent OnExit (lines 20-22, 94-120).
OkMeansDone ==
  exitCode = "ok" =>
    /\ \A t \in tasksBefore : task[t] = "done"
    /\ ~ raced => \A h \in hooksBefore : hook[h] = "returned"

\* What hooks and tasks read with GetExitErr once the context is done is the
\* cause of this exit, whoever else calls ExitWithErr (lines 59-66).
CauseIsStable == [][ctxDone => UNCHANGED exitErr]_vars

\* Once somebody has called, the process ends, though hooks and tasks hang and
\* hooks call Exit themselves (lines 89-120).
ExitEnds == calling # {} ~> exitCode # "none"
=============================================================================
