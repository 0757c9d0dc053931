---------------------------- MODULE SingleFlight ----------------------------
(***************************************************************************)
(* What mutex-task promises to its callers, with no lock, no map and no    *)
(* channel: the calls made on one key while an execution of that key is    *)
(* registered form one flight; a flight ends once, all at once, and every  *)
(* follower is answered with the outcome of the flight it joined.  The     *)
(* leader is answered too, but sees a panic as a zero result without error.*)
(***************************************************************************)
CONSTANTS
  Callers,     \* goroutines that call Exec
  Keys,        \* values of keyGetter
  Returns,     \* (result, err) pairs the user's function may return
  ZeroResult,  \* the pair (zero value, nil)
  Panicked,    \* the pair (zero value, error made from the panic)
  NoOutcome,   \* no answer yet
  NoLeader     \* the key has no flight

VARIABLES
  leader,      \* leader[k]: the caller that runs the user's function for k
  followers,   \* followers[k]: the callers that joined the flight of k
  answer,      \* answer[c]: what c is about to return
  returned     \* returned[c]: what c's last call returned, until its next call

vars == <<leader, followers, answer, returned>>

Outcomes == Returns \cup {Panicked}

\* Exec's results are unnamed, so the deferred function that recovers a panic
\* cannot change them: the leader returns (zero, nil).
LeaderSees(o) == IF o = Panicked THEN ZeroResult ELSE o

Free(c) ==
  /\ answer[c] = NoOutcome
  /\ \A k \in Keys : leader[k] # c /\ c \notin followers[k]

Init ==
  /\ leader = [k \in Keys |-> NoLeader]
  /\ followers = [k \in Keys |-> {}]
  /\ answer = [c \in Callers |-> NoOutcome]
  /\ returned = [c \in Callers |-> NoOutcome]

Start(c, k) ==
  /\ Free(c)
  /\ leader[k] = NoLeader
  /\ leader' = [leader EXCEPT ![k] = c]
  /\ returned' = [returned EXCEPT ![c] = NoOutcome]
  /\ UNCHANGED <<followers, answer>>

Join(c, k) ==
  /\ Free(c)
  /\ leader[k] # NoLeader
  /\ followers' = [followers EXCEPT ![k] = @ \cup {c}]
  /\ returned' = [returned EXCEPT ![c] = NoOutcome]
  /\ UNCHANGED <<leader, answer>>

Complete(k) ==
  /\ leader[k] # NoLeader
  /\ \E o \in Outcomes :
       answer' = [c \in Callers |->
                    IF c = leader[k] THEN LeaderSees(o)
                    ELSE IF c \in followers[k] THEN o ELSE answer[c]]
  /\ leader' = [leader EXCEPT ![k] = NoLeader]
  /\ followers' = [followers EXCEPT ![k] = {}]
  /\ UNCHANGED returned

Return(c) ==
  /\ answer[c] # NoOutcome
  /\ returned' = [returned EXCEPT ![c] = answer[c]]
  /\ answer' = [answer EXCEPT ![c] = NoOutcome]
  /\ UNCHANGED <<leader, followers>>

Next ==
  \/ \E c \in Callers, k \in Keys : Start(c, k) \/ Join(c, k)
  \/ \E k \in Keys : Complete(k)
  \/ \E c \in Callers : Return(c)

Spec == Init /\ [][Next]_vars

FairSpec ==
  /\ Spec
  /\ \A k \in Keys : WF_vars(Complete(k))
  /\ \A c \in Callers : WF_vars(Return(c))
=============================================================================
