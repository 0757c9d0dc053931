-------------------------- MODULE MutexTask_proofs --------------------------
(***************************************************************************)
(* Theorems about MutexTask, for any set of callers, keys and results.     *)
(***************************************************************************)
EXTENDS MutexTask, TLAPS

(***************************************************************************)
(* The inductive invariant.  WaiterOwedOnce speaks of each waiter alone;   *)
(* what makes it survive a step is where the entries of the map and of the *)
(* leaders' lists come from: Entries says that an entry belongs to a       *)
(* waiting call of that very key that nothing else is owed to, Sole that   *)
(* the lists of two leaders are disjoint, NoneForgotten that the three     *)
(* places together hold every waiting call.                                *)
(***************************************************************************)
MapEntries ==
  \A k \in Keys : \A w \in waitingMap[k] :
    /\ pc[w] = "waiting"
    /\ key[w] = k
    /\ ch[w] = NoOutcome
    /\ \A c \in Callers : w \notin waitingList[c]

ListEntries ==
  \A c \in Callers : \A w \in waitingList[c] : pc[w] = "waiting" /\ ch[w] = NoOutcome

Sole ==
  \A c, d \in Callers : \A w \in Callers :
    w \in waitingList[c] /\ w \in waitingList[d] => c = d

NoneForgotten ==
  \A w \in Callers :
    /\ pc[w] = "waiting" => \/ w \in waitingMap[key[w]]
                            \/ \E c \in Callers : w \in waitingList[c]
                            \/ ch[w] # NoOutcome
    /\ ch[w] # NoOutcome => pc[w] = "waiting"

IInv ==
  /\ TypeOK
  /\ OneLeaderPerKey
  /\ MapEntries
  /\ ListEntries
  /\ Sole
  /\ NoneForgotten

\* The inductive invariant implies that every waiter is owed one answer.
LEMMA OwedOnce == IInv => WaiterOwedOnce
<1> SUFFICES ASSUME IInv, NEW w \in Callers
             PROVE  IF pc[w] = "waiting"
                    THEN \/ /\ Registered(w) /\ OwedBy(w) = {} /\ ~ Answered(w)
                         \/ /\ ~ Registered(w) /\ ~ Answered(w)
                            /\ \E c \in Callers : OwedBy(w) = {c}
                         \/ /\ ~ Registered(w) /\ OwedBy(w) = {} /\ Answered(w)
                    ELSE /\ \A k \in Keys : w \notin waitingMap[k]
                         /\ OwedBy(w) = {} /\ ~ Answered(w)
  BY DEF WaiterOwedOnce
<1> USE DEF IInv, TypeOK
<1>1. key[w] \in Keys
  OBVIOUS
<1>2. Registered(w) => pc[w] = "waiting" /\ OwedBy(w) = {} /\ ~ Answered(w)
  BY <1>1 DEF Registered, OwedBy, Answered, MapEntries
<1>3. ASSUME NEW c \in Callers, w \in waitingList[c]
      PROVE  /\ pc[w] = "waiting" /\ ~ Registered(w) /\ ~ Answered(w)
             /\ OwedBy(w) = {c}
  <2>1. pc[w] = "waiting" /\ ~ Answered(w)
    BY <1>3 DEF ListEntries, Answered
  <2>2. ~ Registered(w)
    BY <1>1, <1>3 DEF MapEntries, Registered
  <2>3. OwedBy(w) = {c}
    BY <1>3 DEF Sole, OwedBy
  <2> QED BY <2>1, <2>2, <2>3
<1>4. OwedBy(w) # {} => \E c \in Callers : w \in waitingList[c]
  BY DEF OwedBy
<1>5. CASE pc[w] = "waiting"
  BY <1>2, <1>3, <1>4, <1>5 DEF NoneForgotten, Registered, Answered
<1>6. CASE pc[w] # "waiting"
  <2>1. \A k \in Keys : w \notin waitingMap[k]
    BY <1>6 DEF MapEntries
  <2>2. OwedBy(w) = {}
    BY <1>3, <1>4, <1>6
  <2>3. ~ Answered(w)
    BY <1>6 DEF NoneForgotten, Answered
  <2> QED BY <1>6, <2>1, <2>2, <2>3
<1> QED BY <1>5, <1>6

\* It holds initially.
LEMMA InitIInv == Init => IInv
  BY MutexTaskAssumption
  DEF Init, IInv, TypeOK, OneLeaderPerKey, Leading, MapEntries, ListEntries, Sole,
      NoneForgotten, Answers, Outcomes

\* Every step of the code preserves it.
LEMMA NextIInv == IInv /\ [Next]_vars => IInv'
<1> USE MutexTaskAssumption
<1> SUFFICES ASSUME IInv, [Next]_vars PROVE IInv'
  OBVIOUS
<1>1. ASSUME NEW c \in Callers, NEW k \in Keys, Lead(c, k) PROVE IInv'
  <2> USE <1>1 DEF Lead, NotRunning, IInv
  <2>1. TypeOK'
    BY DEF TypeOK, Answers
  <2>2. OneLeaderPerKey'
    BY DEF TypeOK, OneLeaderPerKey, Leading
  <2>3. MapEntries' /\ ListEntries' /\ Sole' /\ NoneForgotten'
    BY DEF TypeOK, MapEntries, ListEntries, Sole, NoneForgotten
  <2> QED BY <2>1, <2>2, <2>3
<1>2. ASSUME NEW c \in Callers, NEW k \in Keys, Join(c, k) PROVE IInv'
  <2> USE <1>2 DEF Join, IInv
  <2>1. TypeOK'
    BY DEF TypeOK, Answers
  <2>2. OneLeaderPerKey'
    BY DEF TypeOK, OneLeaderPerKey, Leading
  <2>3. MapEntries' /\ ListEntries' /\ Sole' /\ NoneForgotten'
    BY DEF TypeOK, MapEntries, ListEntries, Sole, NoneForgotten
  <2> QED BY <2>1, <2>2, <2>3
<1>3. ASSUME NEW c \in Callers, ExecEnds(c) PROVE IInv'
  <2> USE <1>3 DEF ExecEnds, IInv
  <2>1. TypeOK'
    BY DEF TypeOK, Answers, Outcomes
  <2>2. OneLeaderPerKey'
    BY DEF TypeOK, OneLeaderPerKey, Leading
  <2>3. MapEntries' /\ ListEntries' /\ Sole' /\ NoneForgotten'
    BY DEF TypeOK, MapEntries, ListEntries, Sole, NoneForgotten
  <2> QED BY <2>1, <2>2, <2>3
<1>4. ASSUME NEW c \in Callers, Publish(c) PROVE IInv'
  <2> USE <1>4 DEF Publish, Deleted, IInv
  <2>1. TypeOK'
    BY DEF TypeOK, Answers
  <2>2. OneLeaderPerKey'
    BY DEF TypeOK, OneLeaderPerKey, Leading
  <2>3. MapEntries' /\ ListEntries'
    BY DEF TypeOK, MapEntries, ListEntries
  <2>4. Sole'
    BY DEF TypeOK, MapEntries, Sole
  <2>5. NoneForgotten'
    BY DEF TypeOK, MapEntries, NoneForgotten
  <2> QED BY <2>1, <2>2, <2>3, <2>4, <2>5
<1>5. ASSUME NEW c \in Callers, NEW w \in Callers, Send(c, w) PROVE IInv'
  <2> USE <1>5 DEF Send, Sent, LeftToSend, IInv
  <2>1. TypeOK'
    BY DEF TypeOK, Answers
  <2>2. OneLeaderPerKey'
    BY DEF TypeOK, OneLeaderPerKey, Leading
  <2>3. MapEntries' /\ ListEntries' /\ Sole'
    BY DEF TypeOK, MapEntries, ListEntries, Sole
  <2>4. NoneForgotten'
    BY DEF TypeOK, ListEntries, NoneForgotten, Answers
  <2> QED BY <2>1, <2>2, <2>3, <2>4
<1>6. ASSUME NEW c \in Callers, LeaderReturns(c) PROVE IInv'
  <2> USE <1>6 DEF LeaderReturns, Drained, LeaderSees, IInv
  <2>1. TypeOK'
    BY DEF TypeOK, Answers, Outcomes
  <2>2. OneLeaderPerKey'
    BY DEF TypeOK, OneLeaderPerKey, Leading
  <2>3. MapEntries' /\ ListEntries' /\ Sole' /\ NoneForgotten'
    BY DEF TypeOK, MapEntries, ListEntries, Sole, NoneForgotten
  <2> QED BY <2>1, <2>2, <2>3
<1>7. ASSUME NEW c \in Callers, WaiterReturns(c) PROVE IInv'
  <2> USE <1>7 DEF WaiterReturns, IInv
  <2>1. TypeOK'
    BY DEF TypeOK, Answers, Outcomes
  <2>2. OneLeaderPerKey'
    BY DEF TypeOK, OneLeaderPerKey, Leading
  <2>3. MapEntries' /\ ListEntries' /\ Sole' /\ NoneForgotten'
    BY DEF TypeOK, MapEntries, ListEntries, Sole, NoneForgotten, Answers
  <2> QED BY <2>1, <2>2, <2>3
<1>8. CASE UNCHANGED vars
  BY <1>8 DEF vars, IInv, TypeOK, OneLeaderPerKey, Leading, MapEntries, ListEntries,
              Sole, NoneForgotten
<1> QED
  BY <1>1, <1>2, <1>3, <1>4, <1>5, <1>6, <1>7, <1>8 DEF Next, Progress

\* The inductive invariant holds in every reachable state.
THEOREM Invariance == Spec => []IInv
<1>1. Init => IInv
  BY InitIInv
<1>2. IInv /\ [Next]_vars => IInv'
  BY NextIInv
<1> QED
  BY <1>1, <1>2, PTL DEF Spec

\* Type correctness of Exec's state (mutex-task.go:37-81).
THEOREM TypeCorrect == Spec => []TypeOK
<1>1. IInv => TypeOK
  BY DEF IInv
<1> QED
  BY <1>1, Invariance, PTL

\* However many calls race on a key, one runs the function at a time, and a key
\* is registered exactly while one does.
THEOREM MutualExclusion == Spec => []OneLeaderPerKey
<1>1. IInv => OneLeaderPerKey
  BY DEF IInv
<1> QED
  BY <1>1, Invariance, PTL

\* Every waiting call is owed exactly one answer, from one place.
THEOREM NoWaiterForgotten == Spec => []WaiterOwedOnce
  BY OwedOnce, Invariance, PTL

-----------------------------------------------------------------------------
(***************************************************************************)
(* Exec implements the abstract flights.  The mapping chooses the leader   *)
(* of a key and the leader that owes a waiter its answer; the invariant    *)
(* makes both choices unique, which LeaderFact and AnswerFact say without  *)
(* CHOOSE.                                                                 *)
(***************************************************************************)
LeaderFact ==
  /\ AbsLeader = [k \in Keys |-> AbsLeader[k]]
  /\ \A k \in Keys : k \notin running => AbsLeader[k] = NoLeader
  /\ \A k \in running : AbsLeader[k] \in Callers
  /\ \A c \in Callers : Leading(c) => AbsLeader[key[c]] = c
  /\ \A k \in Keys, c \in Callers : AbsLeader[k] = c => Leading(c) /\ key[c] = k

AnswerFact ==
  /\ AbsAnswer = [c \in Callers |-> AbsAnswer[c]]
  /\ \A c \in Callers : pc[c] = "sending" => AbsAnswer[c] = LeaderSees(outcome[c])
  /\ \A c, w \in Callers : w \in waitingList[c] => AbsAnswer[w] = outcome[c]
  /\ \A c \in Callers :
       pc[c] # "sending" /\ (\A d \in Callers : c \notin waitingList[d])
         => AbsAnswer[c] = ch[c]

\* The leader the mapping chooses is the one that runs the key.
LEMMA LeaderOf == IInv => LeaderFact
<1> SUFFICES ASSUME IInv PROVE LeaderFact
  OBVIOUS
<1> USE DEF IInv
<1>1. AbsLeader = [k \in Keys |-> AbsLeader[k]]
  BY DEF AbsLeader
<1>2. ASSUME NEW k \in Keys, k \notin running PROVE AbsLeader[k] = NoLeader
  BY <1>2 DEF AbsLeader
<1>3. ASSUME NEW k \in Keys, k \in running
      PROVE  AbsLeader[k] \in Callers /\ Leading(AbsLeader[k]) /\ key[AbsLeader[k]] = k
  <2>1. \E c \in Callers : Leading(c) /\ key[c] = k
    BY <1>3 DEF OneLeaderPerKey
  <2>2. AbsLeader[k] = CHOOSE c \in Callers : Leading(c) /\ key[c] = k
    BY <1>3 DEF AbsLeader
  <2> QED BY <2>1, <2>2
<1>4. ASSUME NEW c \in Callers, Leading(c) PROVE key[c] \in running
  BY <1>4 DEF OneLeaderPerKey, TypeOK
<1>5. ASSUME NEW c \in Callers, Leading(c) PROVE AbsLeader[key[c]] = c
  <2>1. key[c] \in Keys
    BY DEF TypeOK
  <2> QED BY <1>3, <1>4, <1>5, <2>1 DEF OneLeaderPerKey
<1>6. ASSUME NEW k \in Keys, NEW c \in Callers, AbsLeader[k] = c
      PROVE  Leading(c) /\ key[c] = k
  BY <1>2, <1>3, <1>6, MutexTaskAssumption
<1>7. running \subseteq Keys
  BY DEF TypeOK
<1> QED BY <1>1, <1>2, <1>3, <1>5, <1>6, <1>7 DEF LeaderFact

\* The answer the mapping gives a waiter is its own leader's.
LEMMA AnswerOf == IInv => AnswerFact
<1> SUFFICES ASSUME IInv PROVE AnswerFact
  OBVIOUS
<1> USE DEF IInv
<1>1. AbsAnswer = [c \in Callers |-> AbsAnswer[c]]
  BY DEF AbsAnswer
<1>2. ASSUME NEW c \in Callers, pc[c] = "sending"
      PROVE  AbsAnswer[c] = LeaderSees(outcome[c])
  BY <1>2 DEF AbsAnswer
<1>3. ASSUME NEW c \in Callers, NEW w \in Callers, w \in waitingList[c]
      PROVE  AbsAnswer[w] = outcome[c]
  <2>1. pc[w] # "sending"
    BY <1>3 DEF ListEntries
  <2>2. OwedBy(w) # {} /\ \A d \in OwedBy(w) : d \in Callers /\ d = c
    BY <1>3 DEF OwedBy, Sole
  <2>3. (CHOOSE d \in Callers : d \in OwedBy(w)) = c
    BY <2>2
  <2> QED BY <2>1, <2>2, <2>3 DEF AbsAnswer
<1>4. ASSUME NEW c \in Callers, pc[c] # "sending",
             \A d \in Callers : c \notin waitingList[d]
      PROVE  AbsAnswer[c] = ch[c]
  <2>1. OwedBy(c) = {}
    BY <1>4 DEF OwedBy
  <2> QED BY <1>4, <2>1 DEF AbsAnswer
<1> QED BY <1>1, <1>2, <1>3, <1>4 DEF AnswerFact

\* Both facts hold in the state after a step that preserves the invariant.
LEMMA FactsAfter == IInv' => LeaderFact' /\ AnswerFact'
  BY LeaderOf, AnswerOf, PTL

\* Initial states map to initial states.
LEMMA InitMaps == Init => Flights!Init
<1> SUFFICES ASSUME Init PROVE Flights!Init
  OBVIOUS
<1>1. LeaderFact /\ AnswerFact
  BY InitIInv, LeaderOf, AnswerOf
<1>2. AbsLeader = [k \in Keys |-> NoLeader]
  BY <1>1 DEF Init, LeaderFact
<1>3. AbsAnswer = [c \in Callers |-> NoOutcome]
  BY <1>1 DEF Init, AnswerFact
<1> QED BY <1>2, <1>3 DEF Init, Flights!Init

\* A caller between two calls takes part in no flight.
LEMMA IdleIsFree ==
  ASSUME IInv, NEW c \in Callers, pc[c] = "idle"
  PROVE  Flights!Free(c)
<1> USE DEF IInv
<1>1. LeaderFact /\ AnswerFact
  BY LeaderOf, AnswerOf
<1>2. ASSUME NEW d \in Callers PROVE c \notin waitingList[d]
  BY DEF ListEntries
<1>3. AbsAnswer[c] = NoOutcome
  BY <1>1, <1>2 DEF AnswerFact, NoneForgotten
<1>4. ASSUME NEW k \in Keys PROVE AbsLeader[k] # c /\ c \notin waitingMap[k]
  BY <1>1, <1>4 DEF LeaderFact, Leading, MapEntries
<1> QED BY <1>3, <1>4 DEF Flights!Free

\* A step that moves no leader and registers no key leaves the mapped leaders as
\* they are.
LEMMA SameLeaders ==
  ASSUME LeaderFact, LeaderFact', TypeOK, TypeOK', running' = running,
         \A d \in Callers : Leading(d) => Leading(d)' /\ key'[d] = key[d]
  PROVE  AbsLeader' = AbsLeader
<1>1. ASSUME NEW j \in Keys PROVE AbsLeader'[j] = AbsLeader[j]
  <2>1. CASE j \in running
    <3>1. PICK d \in Callers : d = AbsLeader[j]
      BY <2>1 DEF LeaderFact
    <3>2. Leading(d) /\ key[d] = j
      BY <3>1 DEF LeaderFact
    <3>3. Leading(d)' /\ key'[d] = j
      BY <3>2
    <3> QED BY <3>1, <3>3 DEF LeaderFact
  <2>2. CASE j \notin running
    BY <2>2 DEF LeaderFact
  <2> QED BY <2>1, <2>2
<1> QED BY <1>1 DEF LeaderFact

\* The answers are equal when they are equal caller by caller.
LEMMA SameAnswers ==
  ASSUME AnswerFact, AnswerFact', \A d \in Callers : AbsAnswer'[d] = AbsAnswer[d]
  PROVE  AbsAnswer' = AbsAnswer
BY DEF AnswerFact

\* Every step of the code is a step of the flights or leaves them as they are.
LEMMA NextMaps == IInv /\ IInv' /\ [Next]_vars => [Flights!Next]_(Flights!vars)
<1> SUFFICES ASSUME IInv, IInv', [Next]_vars PROVE [Flights!Next]_(Flights!vars)
  OBVIOUS
<1> USE MutexTaskAssumption
<1>0. LeaderFact /\ AnswerFact /\ LeaderFact' /\ AnswerFact' /\ TypeOK /\ TypeOK'
  BY LeaderOf, AnswerOf, FactsAfter DEF IInv
<1>1. ASSUME NEW c \in Callers, NEW k \in Keys, Lead(c, k) PROVE Flights!Start(c, k)
  <2> USE DEF Lead, NotRunning
  <2>1. Flights!Free(c)
    BY <1>1, IdleIsFree
  <2>2. AbsLeader[k] = NoLeader
    BY <1>0, <1>1 DEF LeaderFact
  <2>3. AbsLeader' = [AbsLeader EXCEPT ![k] = c]
    <3>1. ASSUME NEW j \in Keys
          PROVE  AbsLeader'[j] = [AbsLeader EXCEPT ![k] = c][j]
      <4>1. CASE j = k
        BY <1>0, <1>1, <4>1 DEF LeaderFact, Leading, TypeOK
      <4>2. CASE j # k /\ j \in running
        <5>1. PICK d \in Callers : d = AbsLeader[j]
          BY <1>0, <4>2 DEF LeaderFact
        <5>2. Leading(d) /\ key[d] = j /\ d # c
          BY <1>0, <1>1, <5>1 DEF LeaderFact, Leading
        <5>3. Leading(d)' /\ key'[d] = j
          BY <1>0, <1>1, <5>2 DEF Leading, TypeOK
        <5>4. AbsLeader'[j] = d
          BY <1>0, <5>3 DEF LeaderFact
        <5> QED BY <1>0, <4>2, <5>1, <5>4 DEF LeaderFact
      <4>3. CASE j # k /\ j \notin running
        BY <1>0, <1>1, <4>3 DEF LeaderFact, TypeOK
      <4> QED BY <4>1, <4>2, <4>3
    <3> QED BY <1>0, <3>1 DEF LeaderFact
  <2>4. waitingMap' = waitingMap
    BY <1>0, <1>1 DEF TypeOK
  <2>5. AbsAnswer' = AbsAnswer
    <3>1. ASSUME NEW d \in Callers PROVE AbsAnswer'[d] = AbsAnswer[d]
      BY <1>0, <1>1 DEF AnswerFact, TypeOK
    <3> QED BY <1>0, <3>1 DEF AnswerFact
  <2> QED BY <1>1, <2>1, <2>2, <2>3, <2>4, <2>5 DEF Flights!Start
<1>2. ASSUME NEW c \in Callers, NEW k \in Keys, Join(c, k) PROVE Flights!Join(c, k)
  <2> USE DEF Join
  <2>1. Flights!Free(c)
    BY <1>2, IdleIsFree
  <2>2. AbsLeader[k] # NoLeader
    BY <1>0, <1>2 DEF LeaderFact
  <2>3. AbsLeader' = AbsLeader
    <3>1. \A d \in Callers : Leading(d) => Leading(d)' /\ key'[d] = key[d]
      BY <1>0, <1>2 DEF Leading, TypeOK
    <3> QED BY <1>0, <1>2, <3>1, SameLeaders
  <2>4. AbsAnswer' = AbsAnswer
    <3>1. ASSUME NEW d \in Callers PROVE AbsAnswer'[d] = AbsAnswer[d]
      BY <1>0, <1>2 DEF AnswerFact, TypeOK
    <3> QED BY <1>0, <3>1, SameAnswers
  <2> QED BY <1>2, <2>1, <2>2, <2>3, <2>4 DEF Flights!Join
<1>3. ASSUME NEW c \in Callers, ExecEnds(c) PROVE UNCHANGED Flights!vars
  <2> USE DEF ExecEnds
  <2>1. AbsLeader' = AbsLeader
    <3>1. \A d \in Callers : Leading(d) => Leading(d)' /\ key'[d] = key[d]
      BY <1>0, <1>3 DEF Leading, TypeOK
    <3> QED BY <1>0, <1>3, <3>1, SameLeaders
  <2>2. AbsAnswer' = AbsAnswer
    <3>1. waitingList[c] = {}
      BY <1>0, <1>3 DEF TypeOK
    <3>2. ASSUME NEW d \in Callers PROVE AbsAnswer'[d] = AbsAnswer[d]
      BY <1>0, <1>3, <3>1 DEF AnswerFact, TypeOK
    <3> QED BY <1>0, <3>2, SameAnswers
  <2> QED BY <1>3, <2>1, <2>2 DEF Flights!vars
<1>4. ASSUME NEW c \in Callers, Publish(c) PROVE Flights!Complete(key[c])
  <2> USE DEF Publish, Deleted
  <2>0. key[c] \in Keys /\ waitingList[c] = {} /\ waitingList'[c] = waitingMap[key[c]]
    BY <1>0, <1>4 DEF TypeOK
  <2>1. AbsLeader[key[c]] = c /\ c # NoLeader
    BY <1>0, <1>4 DEF LeaderFact, Leading
  <2>2. AbsLeader' = [AbsLeader EXCEPT ![key[c]] = NoLeader]
    <3>1. ASSUME NEW j \in Keys
          PROVE  AbsLeader'[j] = [AbsLeader EXCEPT ![key[c]] = NoLeader][j]
      <4>1. CASE j \notin running'
        BY <1>0, <1>4, <4>1 DEF LeaderFact, TypeOK
      <4>2. CASE j \in running'
        <5>1. j \in running /\ j # key[c]
          BY <1>4, <4>2
        <5>2. PICK d \in Callers : d = AbsLeader[j]
          BY <1>0, <5>1 DEF LeaderFact
        <5>3. Leading(d) /\ key[d] = j /\ d # c
          BY <1>0, <5>1, <5>2 DEF LeaderFact
        <5>4. Leading(d)' /\ key'[d] = j
          BY <1>0, <1>4, <5>3 DEF Leading, TypeOK
        <5> QED BY <1>0, <5>1, <5>2, <5>4 DEF LeaderFact
      <4> QED BY <4>1, <4>2
    <3> QED BY <1>0, <3>1 DEF LeaderFact
  <2>3. AbsAnswer' = [d \in Callers |->
                        IF d = AbsLeader[key[c]] THEN LeaderSees(outcome[c])
                        ELSE IF d \in waitingMap[key[c]] THEN outcome[c]
                        ELSE AbsAnswer[d]]
    <3>1. AbsAnswer'[c] = LeaderSees(outcome[c])
      BY <1>0, <1>4 DEF AnswerFact, TypeOK
    <3>2. ASSUME NEW d \in Callers, d \in waitingMap[key[c]], d # c
          PROVE  AbsAnswer'[d] = outcome[c]
      BY <1>0, <1>4, <2>0, <3>2 DEF AnswerFact, TypeOK
    <3>3. ASSUME NEW d \in Callers, d \notin waitingMap[key[c]], d # c
          PROVE  AbsAnswer'[d] = AbsAnswer[d]
      BY <1>0, <1>4, <2>0, <3>3 DEF AnswerFact, TypeOK
    <3> QED BY <1>0, <2>1, <3>1, <3>2, <3>3 DEF AnswerFact
  <2>4. outcome[c] \in Flights!Outcomes
    BY <1>0, <1>4 DEF TypeOK, Answers, Outcomes, Flights!Outcomes
  <2> QED BY <1>4, <2>0, <2>1, <2>2, <2>3, <2>4
          DEF Flights!Complete, Flights!LeaderSees, LeaderSees
<1>5. ASSUME NEW c \in Callers, NEW w \in Callers, Send(c, w)
      PROVE  UNCHANGED Flights!vars
  <2> USE DEF Send, Sent, LeftToSend
  <2>1. AbsLeader' = AbsLeader
    <3>1. \A d \in Callers : Leading(d) => Leading(d)' /\ key'[d] = key[d]
      BY <1>5 DEF Leading
    <3> QED BY <1>0, <1>5, <3>1, SameLeaders
  <2>2. AbsAnswer' = AbsAnswer
    <3>1. AbsAnswer[w] = outcome[c]
      BY <1>0, <1>5 DEF AnswerFact
    <3>2. pc[w] = "waiting" /\ \A d \in Callers : w \notin waitingList'[d]
      BY <1>0, <1>5 DEF IInv, ListEntries, Sole, TypeOK
    <3>3. AbsAnswer'[w] = outcome[c]
      BY <1>0, <1>5, <3>2 DEF AnswerFact, TypeOK
    <3>4. ASSUME NEW d \in Callers, d # w PROVE AbsAnswer'[d] = AbsAnswer[d]
      BY <1>0, <1>5, <3>4 DEF AnswerFact, TypeOK
    <3> QED BY <1>0, <3>1, <3>3, <3>4, SameAnswers
  <2> QED BY <1>5, <2>1, <2>2 DEF Flights!vars
<1>6. ASSUME NEW c \in Callers, LeaderReturns(c) PROVE Flights!Return(c)
  <2> USE DEF LeaderReturns, Drained
  <2>1. AbsLeader' = AbsLeader
    <3>1. \A d \in Callers : Leading(d) => Leading(d)' /\ key'[d] = key[d]
      BY <1>0, <1>6 DEF Leading, TypeOK
    <3> QED BY <1>0, <1>6, <3>1, SameLeaders
  <2>2. AbsAnswer[c] = LeaderSees(outcome[c]) /\ AbsAnswer[c] # NoOutcome
    BY <1>0, <1>6 DEF AnswerFact, TypeOK, LeaderSees, Answers, Outcomes
  <2>3. \A d \in Callers : c \notin waitingList[d]
    BY <1>6 DEF IInv, ListEntries
  <2>4. AbsAnswer'[c] = NoOutcome
    BY <1>0, <1>6, <2>3 DEF AnswerFact, TypeOK, IInv, NoneForgotten
  <2>5. ASSUME NEW d \in Callers, d # c PROVE AbsAnswer'[d] = AbsAnswer[d]
    BY <1>0, <1>6, <2>5 DEF AnswerFact, TypeOK
  <2>6. AbsAnswer' = [AbsAnswer EXCEPT ![c] = NoOutcome]
    BY <1>0, <2>4, <2>5 DEF AnswerFact
  <2> QED BY <1>6, <2>1, <2>2, <2>6 DEF Flights!Return
<1>7. ASSUME NEW c \in Callers, WaiterReturns(c) PROVE Flights!Return(c)
  <2> USE DEF WaiterReturns
  <2>1. AbsLeader' = AbsLeader
    <3>1. \A d \in Callers : Leading(d) => Leading(d)' /\ key'[d] = key[d]
      BY <1>0, <1>7 DEF Leading, TypeOK
    <3> QED BY <1>0, <1>7, <3>1, SameLeaders
  <2>2. \A d \in Callers : c \notin waitingList[d]
    BY <1>7 DEF IInv, ListEntries
  <2>3. AbsAnswer[c] = ch[c] /\ AbsAnswer'[c] = NoOutcome
    BY <1>0, <1>7, <2>2 DEF AnswerFact, TypeOK
  <2>4. ASSUME NEW d \in Callers, d # c PROVE AbsAnswer'[d] = AbsAnswer[d]
    BY <1>0, <1>7, <2>4 DEF AnswerFact, TypeOK
  <2>5. AbsAnswer' = [AbsAnswer EXCEPT ![c] = NoOutcome]
    BY <1>0, <2>3, <2>4 DEF AnswerFact
  <2> QED BY <1>7, <2>1, <2>3, <2>5 DEF Flights!Return
<1>8. CASE UNCHANGED vars
  BY <1>8 DEF vars, Flights!vars, AbsLeader, AbsAnswer, Leading, OwedBy
<1>9. ASSUME NEW c \in Callers, Publish(c) PROVE key[c] \in Keys
  BY <1>0 DEF TypeOK
<1> QED
  BY <1>1, <1>2, <1>3, <1>4, <1>5, <1>6, <1>7, <1>8, <1>9
  DEF Next, Progress, Flights!Next

\* Exec implements the abstract flights (mutex-task.go:37-81): every follower
\* of an execution gets the outcome of that very execution, all of them the
\* same, and no call is answered twice or by another key's execution.
THEOREM Refinement == Spec => ImplementsSingleFlight
<1>1. Init => Flights!Init
  BY InitMaps
<1>2. IInv /\ IInv' /\ [Next]_vars => [Flights!Next]_(Flights!vars)
  BY NextMaps
<1> QED
  BY <1>1, <1>2, Invariance, PTL DEF Spec, ImplementsSingleFlight, Flights!Spec
=============================================================================
