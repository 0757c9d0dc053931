----------------------------- MODULE MutexTask -----------------------------
(***************************************************************************)
(* mutex-task/mutex-task.go: Exec runs the user's function once per key    *)
(* at a time; a call that finds its key registered waits on a channel of   *)
(* its own for the running call's outcome.                                 *)
(*                                                                         *)
(* m.mu guards three short sections without blocking operations, so each   *)
(* is one action.  A waiter's channel is identified with the waiter: each  *)
(* call makes a fresh one of capacity 1 and drops it when it returns, so a *)
(* set of waiters stands for the slice of channels of a key.               *)
(***************************************************************************)
CONSTANTS Callers, Keys, Returns, ZeroResult, Panicked, NoOutcome, NoLeader

ASSUME MutexTaskAssumption ==
  /\ ZeroResult \in Returns
  /\ Panicked \notin Returns
  /\ NoOutcome \notin Returns \cup {Panicked}
  /\ NoLeader \notin Callers

VARIABLES
  running,     \* the keys present in waitingMap
  waitingMap,  \* waitingMap[k]: the callers waiting on k, {} for an absent key
  pc,          \* where each goroutine is in Exec
  key,         \* key[c]: the key of c's current (or last) call
  outcome,     \* outcome[c]: a leader's local result, err
  waitingList, \* waitingList[c]: channels a leader has still to send on
  ch,          \* ch[c]: the buffer of the channel c waits on
  returned     \* returned[c]: what c's last call returned, until its next call

vars == <<running, waitingMap, pc, key, outcome, waitingList, ch, returned>>

Outcomes == Returns \cup {Panicked}
Answers  == Outcomes \cup {NoOutcome}

\* The pc values of a leader whose key is registered in waitingMap.
Leading(c) == pc[c] \in {"executing", "finishing"}

Init ==
  /\ running = {}
  /\ waitingMap = [k \in Keys |-> {}]
  /\ pc = [c \in Callers |-> "idle"]
  /\ key \in [Callers -> Keys]
  /\ outcome = [c \in Callers |-> NoOutcome]
  /\ waitingList = [c \in Callers |-> {}]
  /\ ch = [c \in Callers |-> NoOutcome]
  /\ returned = [c \in Callers |-> NoOutcome]

-----------------------------------------------------------------------------
\* The lookup of the key in waitingMap.
NotRunning_Racy(k) == TRUE   \* mutant: looked up outside the lock, stale
NotRunning(k) == k \notin running

\* A call finds its key absent: it registers it and runs the function.
Lead(c, k) ==
  /\ pc[c] = "idle"
  /\ NotRunning(k)
  /\ running' = running \cup {k}
  /\ waitingMap' = [waitingMap EXCEPT ![k] = {}]
  /\ key' = [key EXCEPT ![c] = k]
  /\ pc' = [pc EXCEPT ![c] = "executing"]
  /\ returned' = [returned EXCEPT ![c] = NoOutcome]
  /\ UNCHANGED <<outcome, waitingList, ch>>

\* A call finds its key registered: it leaves a channel and waits on it.
Join(c, k) ==
  /\ pc[c] = "idle"
  /\ k \in running
  /\ waitingMap' = [waitingMap EXCEPT ![k] = @ \cup {c}]
  /\ key' = [key EXCEPT ![c] = k]
  /\ pc' = [pc EXCEPT ![c] = "waiting"]
  /\ returned' = [returned EXCEPT ![c] = NoOutcome]
  /\ UNCHANGED <<running, outcome, waitingList, ch>>

\* The user's function returns or panics (the deferred function recovers).
\* Its duration is the environment's: other calls may join meanwhile.
ExecEnds(c) ==
  /\ pc[c] = "executing"
  /\ \E o \in Outcomes : outcome' = [outcome EXCEPT ![c] = o]
  /\ pc' = [pc EXCEPT ![c] = "finishing"]
  /\ UNCHANGED <<running, waitingMap, key, waitingList, ch, returned>>

\* What deleting the key leaves registered.
Deleted_Kept(k) == running   \* mutant: the entry is emptied, not deleted
Deleted(k) == running \ {k}

\* The deferred section takes the waiters and deletes the key, under the lock.
Publish(c) ==
  /\ pc[c] = "finishing"
  /\ waitingList' = [waitingList EXCEPT ![c] = waitingMap[key[c]]]
  /\ running' = Deleted(key[c])
  /\ waitingMap' = [waitingMap EXCEPT ![key[c]] = {}]
  /\ pc' = [pc EXCEPT ![c] = "sending"]
  /\ UNCHANGED <<key, outcome, ch, returned>>

\* The pair a leader sends, and the channels left after the send to w.
Sent_Zero(c) ==   \* mutant: the recovered panic is not stored in err
  IF outcome[c] = Panicked THEN ZeroResult ELSE outcome[c]
Sent(c) == outcome[c]

LeftToSend(c, w) == waitingList[c] \ {w}

\* One send of the delivery loop; it needs room in the waiter's channel.
Send(c, w) ==
  /\ pc[c] = "sending"
  /\ w \in waitingList[c]
  /\ ch[w] = NoOutcome
  /\ ch' = [ch EXCEPT ![w] = Sent(c)]
  /\ waitingList' = [waitingList EXCEPT ![c] = LeftToSend(c, w)]
  /\ UNCHANGED <<running, waitingMap, pc, key, outcome, returned>>

\* The loop over the channels has ended.
Drained(c) == waitingList[c] = {}

\* `return result, err` fixed the leader's results before the deferred
\* function ran; after a panic they are still the zero value and nil.
LeaderSees(o) == IF o = Panicked THEN ZeroResult ELSE o

LeaderReturns(c) ==
  /\ pc[c] = "sending"
  /\ Drained(c)
  /\ returned' = [returned EXCEPT ![c] = LeaderSees(outcome[c])]
  /\ outcome' = [outcome EXCEPT ![c] = NoOutcome]
  /\ pc' = [pc EXCEPT ![c] = "idle"]
  /\ UNCHANGED <<running, waitingMap, key, waitingList, ch>>

\* A waiter receives from its channel and returns what it got.
WaiterReturns(c) ==
  /\ pc[c] = "waiting"
  /\ ch[c] # NoOutcome
  /\ returned' = [returned EXCEPT ![c] = ch[c]]
  /\ ch' = [ch EXCEPT ![c] = NoOutcome]
  /\ pc' = [pc EXCEPT ![c] = "idle"]
  /\ UNCHANGED <<running, waitingMap, key, outcome, waitingList>>

-----------------------------------------------------------------------------
\* What a goroutine does once it is inside Exec.
Progress(c) ==
  \/ ExecEnds(c)
  \/ Publish(c)
  \/ \E w \in Callers : Send(c, w)
  \/ LeaderReturns(c)
  \/ WaiterReturns(c)

Next ==
  \/ \E c \in Callers, k \in Keys : Lead(c, k) \/ Join(c, k)
  \/ \E c \in Callers : Progress(c)

Spec == Init /\ [][Next]_vars

\* Goroutines are scheduled, and the user's function is taken to end; nobody
\* has to call Exec.
FairSpec == Spec /\ \A c \in Callers : WF_vars(Progress(c))

-----------------------------------------------------------------------------
\* Types, and the local variables that are set exactly in the part of Exec
\* where the code gives them a value.
TypeOK ==
  /\ running \subseteq Keys
  /\ waitingMap \in [Keys -> SUBSET Callers]
  /\ \A k \in Keys : k \notin running => waitingMap[k] = {}
  /\ pc \in [Callers -> {"idle", "executing", "finishing", "sending", "waiting"}]
  /\ key \in [Callers -> Keys]
  /\ outcome \in [Callers -> Answers]
  /\ waitingList \in [Callers -> SUBSET Callers]
  /\ ch \in [Callers -> Answers]
  /\ returned \in [Callers -> Answers]
  /\ \A c \in Callers :
       /\ outcome[c] # NoOutcome <=> pc[c] \in {"finishing", "sending"}
       /\ waitingList[c] # {} => pc[c] = "sending"

\* At most one call per key runs the user's function, and a key is registered
\* exactly while such a call lives: a registered key without a leader would
\* make every later call on it wait for ever (Exec, lines 38-55, 68-71).
OneLeaderPerKey ==
  /\ \A c, d \in Callers : Leading(c) /\ Leading(d) /\ key[c] = key[d] => c = d
  /\ \A k \in Keys :
       k \in running <=> \E c \in Callers : Leading(c) /\ key[c] = k

\* The three places a waiter's answer can still come from.
Registered(w) == w \in waitingMap[key[w]]
OwedBy(w)     == {c \in Callers : w \in waitingList[c]}
Answered(w)   == ch[w] # NoOutcome

\* Every waiting call is owed exactly one answer: it is registered with a
\* running execution, or on the list of exactly one leader that is sending, or
\* its answer is in its channel, and never two of these; nobody else is on any
\* list.  So no waiter is forgotten when the key changes hands between two
\* flights, and no send finds a full channel (lines 68-77).
WaiterOwedOnce ==
  \A w \in Callers :
    IF pc[w] = "waiting"
    THEN \/ /\ Registered(w) /\ OwedBy(w) = {} /\ ~ Answered(w)
         \/ /\ ~ Registered(w) /\ ~ Answered(w)
            /\ \E c \in Callers : OwedBy(w) = {c}
         \/ /\ ~ Registered(w) /\ OwedBy(w) = {} /\ Answered(w)
    ELSE /\ \A k \in Keys : w \notin waitingMap[k]
         /\ OwedBy(w) = {} /\ ~ Answered(w)

\* Every call of Exec returns, the leader's and the waiters' alike.
EveryCallReturns == \A c \in Callers : pc[c] # "idle" ~> pc[c] = "idle"

-----------------------------------------------------------------------------
\* The refinement mapping to the abstract flights.  A waiter is answered as
\* soon as its leader has published, whether or not the send has happened.
AbsLeader ==
  [k \in Keys |-> IF k \notin running THEN NoLeader
                  ELSE CHOOSE c \in Callers : Leading(c) /\ key[c] = k]
AbsAnswer ==
  [c \in Callers |->
     IF pc[c] = "sending" THEN LeaderSees(outcome[c])
     ELSE IF OwedBy(c) # {} THEN outcome[CHOOSE d \in Callers : d \in OwedBy(c)]
     ELSE ch[c]]

Flights == INSTANCE SingleFlight
             WITH leader <- AbsLeader, followers <- waitingMap, answer <- AbsAnswer

\* The code implements the abstract flights: a call answers with the outcome of
\* the very execution it joined, for every follower alike (Exec, lines 37-81).
ImplementsSingleFlight == Flights!Spec
=============================================================================
