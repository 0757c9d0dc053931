--------------------------- MODULE AppExit_proofs ---------------------------
(***************************************************************************)
(* Theorems about AppExit, for any sets of exiters, hooks and tasks.  The  *)
(* strengthening follows the exit: what has happened to the hooks and the  *)
(* tasks of the history variables by the time each channel is closed.      *)
(***************************************************************************)
EXTENDS AppExit, FiniteSetTheorems, TLAPS

\* exitOnce is taken for good.
OnceTaken == once = NoOne <=> phase = "none"

\* Nothing is started or waited for before line 95.
NothingYet ==
  ~ Waiting => /\ \A h \in Hooks : hook[h] = "idle"
               /\ waited = {} /\ waiter = "ready" /\ exitCode \in {"none", "panic"}

\* The hooks of the cancellation are still registered, and then started.
HooksKept ==
  ~ raced =>
    /\ phase \in {"counting", "spawning"} => hooksBefore \subseteq exitHooks
    /\ Waiting => \A h \in hooksBefore : hook[h] # "idle"

\* They have returned once hookWg was seen at zero.
HooksEnded ==
  ~ raced /\ ("hooks" \in waited \/ exitCode = "ok") =>
    \A h \in hooksBefore : hook[h] = "returned"

\* The tasks of the cancellation have ended once taskWg was at zero after it.
TasksEnded ==
  /\ phase \in {"none", "cancelling"} => tasksBefore = {}
  /\ \A t \in tasksBefore : task[t] # "idle"
  /\ "tasks" \in waited \/ waiter = "woken" \/ phase = "awaitingHooks" \/ exitCode = "ok" =>
       \A t \in tasksBefore : task[t] = "done"

IInv ==
  /\ TypeOK
  /\ OnceTaken
  /\ NothingYet
  /\ HooksKept
  /\ HooksEnded
  /\ TasksEnded

\* The invariant holds initially.
LEMMA InitIInv == Init => IInv
<1> SUFFICES ASSUME Init PROVE IInv
  OBVIOUS
<1> USE AppExitAssumption DEF Init
<1>1. HookWgCounts
  <2>1. Unreturned = {}
    BY DEF Unreturned
  <2> QED BY <2>1, FS_EmptySet DEF HookWgCounts
<1>2. TypeOK
  BY <1>1 DEF TypeOK
<1> QED
  BY <1>2 DEF IInv, OnceTaken, NothingYet, HooksKept, HooksEnded, TasksEnded, Waiting

\* The counter while nothing about the hooks changes.
LEMMA SameCount ==
  ASSUME HookWgCounts, UNCHANGED <<raced, hookWg, hook>>, phase' # "spawning", phase # "spawning"
  PROVE  HookWgCounts'
BY DEF HookWgCounts, Unreturned

\* Every step preserves the invariant.
LEMMA NextIInv == IInv /\ [Next]_vars => IInv'
<1> SUFFICES ASSUME IInv, [Next]_vars PROVE IInv'
  OBVIOUS
<1> NoOne \notin Exiters /\ NoErr \notin Exiters /\ WithErr \subseteq Exiters
  BY AppExitAssumption
<1>0. IsFiniteSet(exitHooks) /\ IsFiniteSet(Unreturned)
  BY AppExitAssumption, FS_Subset DEF IInv, TypeOK, Unreturned
<1> USE DEF IInv, TypeOK, OnceTaken, NothingYet, HooksKept, HooksEnded, TasksEnded,
            Waiting, exitVars, regVars, taskVars, hookVars
<1>1. ASSUME NEW h \in Hooks, OnExit(h) PROVE IInv'
  <2> USE <1>1 DEF OnExit
  <2>1. HookWgCounts'
    BY DEF HookWgCounts, Unreturned
  <2> QED BY <2>1
<1>2. ASSUME NEW h \in Hooks, Appended(h) PROVE IInv'
  <2> USE <1>2 DEF Appended
  <2>1. HookWgCounts'
    BY DEF HookWgCounts, Unreturned
  <2> QED BY <2>1
<1>3. ASSUME NEW h \in Hooks, Alive, HookReturns(h) PROVE IInv'
  <2> USE <1>3 DEF HookReturns, Alive
  <2>1. Waiting
    OBVIOUS
  <2>2. ~ raced => hookWg = Cardinality(Unreturned) /\ hookWg # 0
    BY <1>0, <2>1, FS_EmptySet DEF HookWgCounts, Unreturned
  <2>3. Unreturned' = Unreturned \ {h}
    BY DEF Unreturned
  <2>4. Cardinality(Unreturned') = Cardinality(Unreturned) - 1
    <3>1. h \in Unreturned
      BY DEF Unreturned
    <3>2. Cardinality(Unreturned \ {h}) = Cardinality(Unreturned) - 1
      BY ONLY <1>0, <3>1, FS_RemoveElement
    <3> QED BY ONLY <2>3, <3>2
  <2>5. HookWgCounts'
    BY <2>1, <2>2, <2>4 DEF HookWgCounts
  <2>6. hookWg' \in Nat
    OBVIOUS
  <2> QED BY <2>1, <2>5, <2>6
<1>4. ASSUME NEW h \in Hooks, HookCallsExit(h) PROVE IInv'
  <2> USE <1>4 DEF HookCallsExit
  <2>1. Unreturned' = Unreturned
    BY DEF Unreturned
  <2>2. HookWgCounts'
    BY <2>1 DEF HookWgCounts
  <2> QED BY <2>2
<1>5. ASSUME NEW h \in Hooks, HookPanics(h) PROVE IInv'
  <2> USE <1>5 DEF HookPanics
  <2>1. HookWgCounts'
    BY DEF HookWgCounts, Unreturned
  <2> QED BY <2>1
<1>6. ASSUME NEW t \in Tasks, TaskStart(t) PROVE IInv'
  <2> USE <1>6 DEF TaskStart
  <2>1. HookWgCounts'
    BY DEF HookWgCounts, Unreturned
  <2> QED BY <2>1
<1>7. ASSUME NEW t \in Tasks, TaskDone(t) PROVE IInv'
  <2> USE <1>7 DEF TaskDone
  <2>1. HookWgCounts'
    BY DEF HookWgCounts, Unreturned
  <2>2. TasksEnded'
    BY DEF RunningTasks
  <2> QED BY <2>1, <2>2
<1>8. ASSUME NEW e \in Exiters, CallExit(e) PROVE IInv'
  <2> USE <1>8 DEF CallExit
  <2>1. HookWgCounts'
    BY DEF HookWgCounts, Unreturned
  <2> QED BY <2>1
<1>9. ASSUME NEW e \in Exiters, EnterOnce(e) PROVE IInv'
  <2> USE <1>9 DEF EnterOnce, FirstCall
  <2>1. HookWgCounts'
    BY SameCount
  <2> QED BY <2>1
<1>10. CASE Cancel
  <2> USE <1>10 DEF Cancel
  <2>1. HookWgCounts'
    BY SameCount
  <2> QED BY <2>1 DEF RunningTasks
<1>11. CASE CountHooks
  <2> USE <1>11 DEF CountHooks, Counted
  <2>1. HookWgCounts'
    BY DEF HookWgCounts
  <2>2. hookWg' \in Nat
    BY <1>0, FS_CardinalityType
  <2> QED BY <2>1, <2>2
<1>12. CASE SpawnHooks
  <2> USE <1>12 DEF SpawnHooks
  <2>1. Unreturned' = exitHooks
    BY DEF Unreturned
  <2>2. HookWgCounts'
    BY <2>1 DEF HookWgCounts
  <2> QED BY <2>2
<1>13. CASE TornRead
  <2> USE <1>13 DEF TornRead
  <2>1. HookWgCounts'
    BY DEF HookWgCounts, Unreturned
  <2> QED BY <2>1
<1>14. CASE TasksBlock
  <2> USE <1>14 DEF TasksBlock
  <2>1. HookWgCounts'
    BY DEF HookWgCounts, Unreturned
  <2> QED BY <2>1
<1>15. CASE WaitGroupReused
  <2> USE <1>15 DEF WaitGroupReused
  <2>1. HookWgCounts'
    BY DEF HookWgCounts, Unreturned
  <2> QED BY <2>1
<1>16. CASE TimeOut
  <2> USE <1>16 DEF TimeOut
  <2>1. HookWgCounts'
    BY DEF HookWgCounts, Unreturned
  <2> QED BY <2>1
<1>17. CASE TasksWaited
  <2> USE <1>17 DEF TasksWaited
  <2>1. HookWgCounts'
    BY DEF HookWgCounts, Unreturned
  <2>2. TasksEnded'
    BY DEF RunningTasks
  <2> QED BY <2>1, <2>2
<1>18. CASE HooksWaited
  <2> USE <1>18 DEF HooksWaited
  <2>1. HookWgCounts'
    BY DEF HookWgCounts, Unreturned
  <2>2. ~ raced => Unreturned = {}
    BY <1>0, FS_EmptySet DEF HookWgCounts
  <2>3. HooksEnded'
    BY <2>2 DEF Unreturned
  <2> QED BY <2>1, <2>3
<1>19. CASE AllTasksFinished
  <2> USE <1>19 DEF AllTasksFinished, TasksFinished
  <2>1. HookWgCounts'
    BY SameCount
  <2> QED BY <2>1
<1>20. CASE AllHooksReturned
  <2> USE <1>20 DEF AllHooksReturned
  <2>1. HookWgCounts'
    BY DEF HookWgCounts, Unreturned
  <2> QED BY <2>1
<1>21. CASE ExitTimeout
  <2> USE <1>21 DEF ExitTimeout, TimedPhases
  <2>1. HookWgCounts'
    BY DEF HookWgCounts, Unreturned
  <2> QED BY <2>1
<1>22. CASE UNCHANGED vars
  <2> USE <1>22 DEF vars
  <2>1. HookWgCounts'
    BY DEF HookWgCounts, Unreturned
  <2> QED BY <2>1
<1> QED
  BY <1>1, <1>2, <1>3, <1>4, <1>5, <1>6, <1>7, <1>8, <1>9, <1>10, <1>11, <1>12,
     <1>13, <1>14, <1>15, <1>16, <1>17, <1>18, <1>19, <1>20, <1>21, <1>22 DEF Next

\* The invariant holds in every reachable state.
THEOREM Invariance == Spec => []IInv
  BY InitIInv, NextIInv, PTL DEF Spec

\* Types, and that hookWg counts the hooks (lines 93-101 of app.go).
THEOREM TypeCorrect == Spec => []TypeOK
<1>1. IInv => TypeOK
  BY DEF IInv
<1> QED BY <1>1, Invariance, PTL

\* An exit with 0 has waited for the tasks and the hooks (lines 102-120).
THEOREM OkExitIsComplete == Spec => []OkMeansDone
<1>1. IInv => OkMeansDone
  BY DEF IInv, OkMeansDone, TasksEnded, HooksEnded
<1> QED BY <1>1, Invariance, PTL

\* The exit error is settled when the context is done (lines 59-66).
THEOREM CauseStays == Spec => CauseIsStable
<1>1. IInv /\ [Next]_vars => [ctxDone => UNCHANGED exitErr]_vars
  BY DEF IInv, TypeOK, OnceTaken, Next, exitVars, OnExit, Appended, HookReturns,
         HookCallsExit, HookPanics, TaskStart, TaskDone, CallExit, EnterOnce,
         FirstCall, Cancel, CountHooks, SpawnHooks, TornRead, TasksBlock,
         TasksWaited, WaitGroupReused, HooksWaited, TimeOut, AllTasksFinished,
         AllHooksReturned, ExitTimeout
<1> QED BY <1>1, Invariance, PTL DEF Spec, CauseIsStable
=============================================================================
