------------------------- MODULE TrafficLoopProofs -------------------------
(***************************************************************************)
(* Proof about the main loop, for any finite set of calls, any             *)
(* -max_sched_loops and -m: the loop never cuts off an open call, unless   *)
(* it is forced to; then, about the run queue: no task is in it twice, and *)
(* the iterator of a pass is always in it.                                 *)
(***************************************************************************)
EXTENDS TrafficLoop, FiniteSetTheorems, SequenceTheorems, TLAPS

(* Every set of naturals has a least element.                              *)
LEMMA Least ==
    ASSUME NEW S \in SUBSET Nat, S # {}
    PROVE  \E m \in S : \A k \in S : m <= k
<1> DEFINE R == {p \in Nat \X Nat : p[1] < p[2]}
<1>1. IsWellFoundedOn(R, Nat)
  BY NatLessThanWellFounded DEF OpToRel
<1>2. PICK m \in S : \A k \in S : <<k, m>> \notin R
  <2> HIDE DEF R
  <2> QED
    BY <1>1, WFMin
<1>3. \A k \in S : ~(k < m)
  BY <1>2
<1> QED
  BY <1>3

Kind == {"none", "open", "report", "call", "auto", "zombie", "dead"}
Types == /\ kind \in [Task -> Kind]
         /\ CurrentCall \in Int
         /\ quitting \in Nat

(* No call is counted off before it has ended; or so many were aborted     *)
(* that the count went below 0, and then the process quits and no call     *)
(* can be opened any more.                                                 *)
Counted == \/ CurrentCall >= Cardinality(Open)
           \/ quitting > 0 /\ Open = {}

IInv == Types /\ Counted

-----------------------------------------------------------------------------
(***************************************************************************)
(* Counting the open calls.                                                *)
(***************************************************************************)
(* Every set of calls is finite.                                           *)
LEMMA CallsFinite ==
    ASSUME NEW S \in SUBSET Calls
    PROVE  IsFiniteSet(S) /\ Cardinality(S) \in Nat
BY LoopAssumption, FS_Subset, FS_CardinalityType

(* A part of the calls is not larger than the whole.                       *)
LEMMA CallsSubset ==
    ASSUME NEW S \in SUBSET Calls, NEW R \in SUBSET S
    PROVE  Cardinality(R) <= Cardinality(S)
<1>1. IsFiniteSet(S)
  BY CallsFinite
<1> QED
  BY <1>1, FS_Subset

(* Calls that are taken out of a set are counted off it.                   *)
LEMMA CallsDifference ==
    ASSUME NEW S \in SUBSET Calls, NEW R \in SUBSET S
    PROVE  Cardinality(S \ R) = Cardinality(S) - Cardinality(R)
<1>1. IsFiniteSet(S \ R) /\ IsFiniteSet(R)
  BY CallsFinite
<1>2. /\ Cardinality(S) \in Nat /\ Cardinality(R) \in Nat
      /\ Cardinality(S \ R) \in Nat
  BY CallsFinite
<1>3. (S \ R) \cup R = S /\ (S \ R) \cap R = {}
  OBVIOUS
<1>4. Cardinality(S) = Cardinality(S \ R) + Cardinality(R) - Cardinality({})
  BY <1>1, <1>3, FS_Union
<1> QED
  BY <1>2, <1>4, FS_EmptySet

(* Calls that join a set are counted with it.                              *)
LEMMA CallsUnion ==
    ASSUME NEW S \in SUBSET Calls, NEW R \in SUBSET Calls, S \cap R = {}
    PROVE  Cardinality(S \cup R) = Cardinality(S) + Cardinality(R)
<1>1. IsFiniteSet(S) /\ IsFiniteSet(R)
  BY CallsFinite
<1>2. Cardinality(S) \in Nat /\ Cardinality(R) \in Nat
  BY CallsFinite
<1>3. Cardinality(S \cup R) = Cardinality(S) + Cardinality(R) - Cardinality({})
  BY <1>1, FS_Union
<1> QED
  BY <1>2, <1>3, FS_EmptySet

(* The open calls are calls.                                               *)
LEMMA OpenIsCalls == Open \in SUBSET Calls
BY DEF Open, Kinds

(* A step that opens no call and counts off none of those that stay.       *)
LEMMA FewerOpen ==
    ASSUME IInv, Types', Open' \subseteq Open, quitting > 0 => quitting' > 0,
           CurrentCall' >= CurrentCall - (Cardinality(Open) - Cardinality(Open'))
    PROVE  IInv'
<1>1. Open \in SUBSET Calls /\ Open' \in SUBSET Calls
  BY OpenIsCalls
<1>2. Cardinality(Open) \in Nat /\ Cardinality(Open') \in Nat
  BY <1>1, CallsFinite
<1>3. CASE CurrentCall >= Cardinality(Open)
  <2>1. CurrentCall' >= Cardinality(Open')
    BY <1>2, <1>3 DEF IInv, Types
  <2> QED
    BY <2>1 DEF IInv, Counted
<1>4. CASE quitting > 0 /\ Open = {}
  BY <1>4 DEF IInv, Counted
<1> QED
  BY <1>3, <1>4 DEF IInv, Counted

(* In particular one that leaves the calls alone.                          *)
LEMMA SameOpen ==
    ASSUME IInv, Types', Open' = Open, CurrentCall' >= CurrentCall,
           quitting > 0 => quitting' > 0
    PROVE  IInv'
<1>1. Cardinality(Open) \in Nat
  BY OpenIsCalls, CallsFinite
<1>2. CurrentCall' >= CurrentCall - (Cardinality(Open) - Cardinality(Open'))
  BY <1>1 DEF IInv, Types
<1> QED
  BY <1>2, FewerOpen

-----------------------------------------------------------------------------
(***************************************************************************)
(* What the steps of the tasks do to the count.                            *)
(***************************************************************************)
OpenOf(k) == {t \in Calls : k[t] = "call"}

(* Calls that end are counted off.                                         *)
LEMMA CallsEndCount ==
    ASSUME NEW S \in SUBSET Calls, NEW k \in [Task -> Kind], NEW n \in Int, NEW q,
           CallsEnd(S, q, k, n)
    PROVE  /\ kind' \in [Task -> Kind] /\ CurrentCall' \in Int
           /\ Open' \subseteq OpenOf(k)
           /\ CurrentCall' = n - (Cardinality(OpenOf(k)) - Cardinality(Open'))
<1> DEFINE Ended == {t \in S : k[t] = "call"}
<1>1. PICK dead \in SUBSET S :
             kind' = [t \in Task |-> IF t \in dead THEN "dead"
                                     ELSE IF t \in S THEN "none" ELSE k[t]]
  BY DEF CallsEnd
<1>2. CurrentCall' = n - Cardinality(Ended)
  BY DEF CallsEnd, CountedOff
<1>3. kind' \in [Task -> Kind]
  BY <1>1 DEF Kind
<1>4. Open' = OpenOf(k) \ Ended
  BY <1>1 DEF Open, Kinds, OpenOf, Task
<1>5. OpenOf(k) \in SUBSET Calls /\ Ended \in SUBSET OpenOf(k)
  BY DEF OpenOf
<1>6. Cardinality(Open') = Cardinality(OpenOf(k)) - Cardinality(Ended)
  BY <1>4, <1>5, CallsDifference
<1>7. Cardinality(OpenOf(k)) \in Nat /\ Cardinality(Ended) \in Nat
  BY <1>5, CallsFinite
<1> QED
  BY <1>2, <1>3, <1>4, <1>6, <1>7

(* A call that runs is counted off if it ends.                             *)
LEMMA CallRunsCount ==
    ASSUME NEW t \in Calls, NEW k \in [Task -> Kind], NEW n \in Int, NEW q,
           quitting \in Nat, CallRuns(t, q, k, n)
    PROVE  /\ Types' /\ Open' \subseteq OpenOf(k)
           /\ CurrentCall' = n - (Cardinality(OpenOf(k)) - Cardinality(Open'))
           /\ quitting > 0 => quitting' > 0
<1>1. quitting' \in Nat /\ (quitting > 0 => quitting' > 0)
  BY DEF CallRuns
<1>2. CASE kind' = k /\ CurrentCall' = n
  <2>1. Open' = OpenOf(k)
    BY <1>2 DEF Open, Kinds, OpenOf
  <2>2. Cardinality(OpenOf(k)) \in Nat
    BY CallsFinite DEF OpenOf
  <2> QED
    BY <1>1, <1>2, <2>1, <2>2 DEF Types
<1>3. CASE CallsEnd({t}, q, k, n)
  BY <1>1, <1>3, CallsEndCount DEF Types
<1> QED
  BY <1>2, <1>3 DEF CallRuns

(* The opentask counts the calls that it opens, the zombies aside.         *)
LEMMA OpenTaskCount ==
    ASSUME IInv, NEW q, OpenTaskRuns(OpenTask, q)
    PROVE  IInv'
<1> USE DEF IInv
<1>1. CASE quitting > 0
  <2>1. /\ kind' = [kind EXCEPT ![OpenTask] = "none"]
        /\ UNCHANGED <<CurrentCall, quitting>>
    BY <1>1 DEF OpenTaskRuns, Deleted
  <2>2. Types'
    BY <2>1 DEF Types, Kind
  <2>3. Open' = Open
    BY <2>1, LoopAssumption DEF Open, Kinds, Types, Task
  <2> QED
    BY <2>1, <2>2, <2>3, SameOpen DEF Types
<1>2. CASE ~ (quitting > 0)
  <2>1. PICK new \in SUBSET Free, zombies \in SUBSET Free :
             /\ kind' = [c \in Task |-> IF c \in zombies THEN "zombie"
                                        ELSE IF c \in new THEN "call" ELSE kind[c]]
             /\ CurrentCall' = CurrentCall + Cardinality(new \ zombies)
             /\ quitting' = IF created >= StopAfter THEN 1 ELSE quitting
    BY <1>2 DEF OpenTaskRuns
  <2>2. new \ zombies \in SUBSET Calls /\ Open \in SUBSET Calls
    BY DEF Free, Kinds, Open
  <2>3. Cardinality(new \ zombies) \in Nat /\ Cardinality(Open) \in Nat
    BY <2>2, CallsFinite
  <2>4. Types'
    BY <2>1, <2>3 DEF Types, Kind
  <2>5. Open' = Open \cup (new \ zombies) /\ Open \cap (new \ zombies) = {}
    BY <2>1 DEF Open, Free, Kinds, Types, Task
  <2>6. Cardinality(Open') = Cardinality(Open) + Cardinality(new \ zombies)
    BY <2>2, <2>5, CallsUnion
  <2> QED
    BY <1>2, <2>1, <2>3, <2>4, <2>6 DEF Counted, Types
<1> QED
  BY <1>1, <1>2

(* A task that is deleted without being counted off.                       *)
LEMMA DeletedCount ==
    ASSUME IInv, NEW t \in Task, NEW q, Deleted(t, q), CurrentCall' = CurrentCall,
           quitting' \in Nat, quitting > 0 => quitting' > 0
    PROVE  IInv'
<1>1. kind' = [kind EXCEPT ![t] = "none"]
  BY DEF Deleted
<1>2. Types'
  BY <1>1 DEF IInv, Types, Kind
<1>3. Open \in SUBSET Calls /\ Open' \in SUBSET Open
  BY <1>1 DEF IInv, Types, Open, Kinds, Task
<1>4. Cardinality(Open') <= Cardinality(Open)
  BY <1>3, CallsSubset
<1>5. Cardinality(Open) \in Nat /\ Cardinality(Open') \in Nat
  BY <1>3, CallsFinite
<1>6. CurrentCall' >= CurrentCall - (Cardinality(Open) - Cardinality(Open'))
  BY <1>4, <1>5 DEF IInv, Types
<1> QED
  BY <1>2, <1>3, <1>6, FewerOpen

(* A step that changes neither the tasks nor the count.                    *)
LEMMA QuietStep ==
    ASSUME IInv, UNCHANGED <<kind, CurrentCall>>, quitting' \in Nat,
           quitting > 0 => quitting' > 0
    PROVE  IInv'
BY SameOpen DEF IInv, Types, Open, Kinds

(* run() of an open or an automatic call.                                  *)
LEMMA OpenCallCount ==
    ASSUME IInv, NEW t \in Calls, NEW q, CallRuns(t, q, kind, CurrentCall)
    PROVE  IInv'
<1>1. kind \in [Task -> Kind] /\ CurrentCall \in Int /\ quitting \in Nat
  BY DEF IInv, Types
<1>2. /\ Types' /\ Open' \subseteq OpenOf(kind)
      /\ CurrentCall' = CurrentCall - (Cardinality(OpenOf(kind)) - Cardinality(Open'))
      /\ quitting > 0 => quitting' > 0
  BY <1>1, CallRunsCount
<1>3. OpenOf(kind) = Open
  BY DEF OpenOf, Open, Kinds
<1>4. CurrentCall' >= CurrentCall - (Cardinality(Open) - Cardinality(Open'))
  BY <1>2, <1>3 DEF Types
<1> QED
  BY <1>2, <1>3, <1>4, FewerOpen

(* Open or automatic calls that end together.                              *)
LEMMA EndsCount ==
    ASSUME IInv, NEW S \in SUBSET Calls, CallsEnd(S, run_queue, kind, CurrentCall),
           UNCHANGED quitting
    PROVE  IInv'
<1>1. kind \in [Task -> Kind] /\ CurrentCall \in Int /\ quitting \in Nat
  BY DEF IInv, Types
<1>2. /\ Types' /\ Open' \subseteq OpenOf(kind)
      /\ CurrentCall' = CurrentCall - (Cardinality(OpenOf(kind)) - Cardinality(Open'))
  BY <1>1, CallsEndCount DEF Types
<1>3. OpenOf(kind) = Open
  BY DEF OpenOf, Open, Kinds
<1>4. CurrentCall' >= CurrentCall - (Cardinality(Open) - Cardinality(Open'))
  BY <1>2, <1>3 DEF Types
<1> QED
  BY <1>2, <1>3, <1>4, FewerOpen

(* Whatever task runs.                                                     *)
LEMMA RunsCount ==
    ASSUME IInv, NEW t, NEW q, Runs(t, q)
    PROVE  IInv'
<1>1. CASE t \in Calls /\ CallRuns(t, q, kind, CurrentCall)
  BY <1>1, OpenCallCount
<1>2. CASE t \in Calls /\ ZombieRuns(t, q) /\ UNCHANGED quitting
  BY <1>2, DeletedCount DEF ZombieRuns, Task, IInv, Types
<1>3. CASE t \in Calls /\ DeadcallRuns(t, q) /\ UNCHANGED <<CurrentCall, quitting>>
  <2>1. CASE Deleted(t, q)
    BY <1>3, <2>1, DeletedCount DEF Task, IInv, Types
  <2>2. CASE UNCHANGED kind
    BY <1>3, <2>2, QuietStep DEF IInv, Types
  <2> QED
    BY <1>3, <2>1, <2>2 DEF DeadcallRuns
<1>4. CASE t = Report /\ ReportRuns(t, q) /\ UNCHANGED CurrentCall
  <2>1. quitting' \in Nat /\ (quitting > 0 => quitting' > 0)
    BY <1>4 DEF ReportRuns, Pressed, IInv, Types
  <2>2. CASE Deleted(t, q)
    BY <1>4, <2>1, <2>2, DeletedCount DEF Task
  <2>3. CASE UNCHANGED kind
    BY <1>4, <2>1, <2>3, QuietStep
  <2> QED
    BY <1>4, <2>2, <2>3 DEF ReportRuns
<1>5. CASE t = OpenTask /\ OpenTaskRuns(t, q)
  BY <1>5, OpenTaskCount
<1> QED
  BY <1>1, <1>2, <1>3, <1>4, <1>5 DEF Runs
-----------------------------------------------------------------------------
(***************************************************************************)
(* The steps of the loop and of the poll.                                  *)
(***************************************************************************)
(* Connections that are reset end calls.                                   *)
LEMMA ResetCount ==
    ASSUME IInv, ResetSockets, UNCHANGED quitting
    PROVE  IInv'
<1>1. kind \in [Task -> Kind] /\ CurrentCall \in Int /\ quitting \in Nat
  BY DEF IInv, Types
<1>2. CASE UNCHANGED tasks
  BY <1>1, <1>2, QuietStep DEF tasks
<1>3. ASSUME NEW S \in SUBSET (Open \cup Kinds("auto")),
             CallsEnd(S, run_queue, kind, CurrentCall)
      PROVE  IInv'
  BY <1>1, <1>3, EndsCount DEF Open, Kinds
<1> QED
  BY <1>2, <1>3 DEF ResetSockets

(* The loop aborts all tasks only when it is quitting, and then nothing is *)
(* open any more.                                                          *)
LEMMA QuitCount ==
    ASSUME IInv, Quit
    PROVE  IInv'
<1> DEFINE n == IF quitting' > 11 THEN CurrentCall - Aborted ELSE CurrentCall
<1>1. quitting' \in Nat /\ (quitting > 0 => quitting' > 0)
  BY DEF Quit, IInv, Types
<1>2. CurrentCall' = n
  BY DEF Quit
<1>3. CASE AbortAll /\ quitting' > 0
  <2>1. kind' = [t \in Task |-> "none"]
    BY <1>3 DEF AbortAll
  <2>2. Open' = {}
    BY <2>1 DEF Open, Kinds, Task
  <2>3. Aborted \in Nat
    BY CallsFinite DEF Aborted, Open, Kinds
  <2>4. Types'
    BY <1>1, <1>2, <2>1, <2>3 DEF IInv, Types, Kind
  <2> QED
    BY <1>3, <2>2, <2>4 DEF IInv, Counted
<1>4. CASE UNCHANGED kind /\ ~ (quitting' > 11)
  BY <1>1, <1>2, <1>4, QuietStep
<1> QED
  BY <1>1, <1>3, <1>4 DEF Quit

(* A message.                                                              *)
LEMMA MessageCount ==
    ASSUME IInv, NEW t \in Calls, Message(t)
    PROVE  IInv'
<1>1. CASE CallRuns(t, Woken(t), kind, CurrentCall)
  BY <1>1, OpenCallCount
<1>2. CASE Deleted(t, run_queue) /\ UNCHANGED <<CurrentCall, quitting>>
  BY <1>2, DeletedCount DEF Task, IInv, Types
<1>3. CASE UNCHANGED <<kind, CurrentCall, quitting>>
  BY <1>3, QuietStep DEF IInv, Types
<1> QED
  BY <1>1, <1>2, <1>3 DEF Message

(* A call that a message opens.                                            *)
LEMMA NewCallCount ==
    ASSUME IInv, NEW t \in Calls, NewCall(t)
    PROVE  IInv'
<1>1. kind \in [Task -> Kind] /\ CurrentCall \in Int /\ quitting \in Nat /\ t \in Task
  BY DEF IInv, Types, Task
<1>2. kind[t] = "none"
  BY DEF NewCall
<1>3. Open \in SUBSET Calls /\ Open' \in SUBSET Calls
  BY DEF Open, Kinds
<1>4. Cardinality(Open) \in Nat /\ Cardinality(Open') \in Nat
  BY <1>3, CallsFinite
<1>5. ASSUME quitting = 0,
             NEW k, k = [kind EXCEPT ![t] = "call"],
             NEW n, n = CurrentCall + 1,
             CallRuns(t, Append(run_queue, t), k, n)
      PROVE  IInv'
  <2>1. k \in [Task -> Kind] /\ n \in Int
    BY <1>1, <1>5 DEF Kind
  <2>2. /\ Types'
        /\ CurrentCall' = n - (Cardinality(OpenOf(k)) - Cardinality(Open'))
    BY <1>1, <1>5, <2>1, CallRunsCount
  <2>3. OpenOf(k) = Open \cup {t} /\ Open \cap {t} = {}
    BY <1>1, <1>2, <1>5 DEF OpenOf, Open, Kinds, Task
  <2>4. Cardinality(OpenOf(k)) = Cardinality(Open) + 1
    <3>1. {t} \in SUBSET Calls /\ Cardinality({t}) = 1
      BY FS_Singleton
    <3>2. Cardinality(Open \cup {t}) = Cardinality(Open) + Cardinality({t})
      BY <1>3, <2>3, <3>1, CallsUnion
    <3> QED
      BY <2>3, <3>1, <3>2
  <2>5. CurrentCall >= Cardinality(Open)
    BY <1>5 DEF IInv, Counted
  <2> QED
    BY <1>1, <1>4, <1>5, <2>2, <2>4, <2>5 DEF IInv, Counted
<1>6. ASSUME NEW k, k = [kind EXCEPT ![t] = "auto"],
             CallRuns(t, Append(run_queue, t), k, CurrentCall)
      PROVE  IInv'
  <2>1. k \in [Task -> Kind]
    BY <1>1, <1>6 DEF Kind
  <2>2. OpenOf(k) = Open
    BY <1>1, <1>2, <1>6 DEF OpenOf, Open, Kinds, Task
  <2>3. /\ Types' /\ Open' \subseteq Open
        /\ CurrentCall' = CurrentCall - (Cardinality(Open) - Cardinality(Open'))
        /\ quitting > 0 => quitting' > 0
    BY <1>1, <1>6, <2>1, <2>2, CallRunsCount
  <2>4. CurrentCall' >= CurrentCall - (Cardinality(Open) - Cardinality(Open'))
    BY <2>3 DEF Types
  <2> QED
    BY <2>3, <2>4, FewerOpen
<1> QED
  BY <1>5, <1>6 DEF NewCall

(* Connections that close end calls, or wait for their reset.              *)
LEMMA CloseCount ==
    ASSUME IInv, ConnectionCloses
    PROVE  IInv'
<1>1. kind \in [Task -> Kind] /\ CurrentCall \in Int /\ quitting \in Nat
      /\ UNCHANGED quitting
  BY DEF IInv, Types, ConnectionCloses
<1>2. CASE UNCHANGED tasks
  BY <1>1, <1>2, QuietStep DEF tasks
<1>3. ASSUME NEW S \in SUBSET (Open \cup Kinds("auto")),
             CallsEnd(S, run_queue, kind, CurrentCall)
      PROVE  IInv'
  BY <1>1, <1>3, EndsCount DEF Open, Kinds
<1> QED
  BY <1>2, <1>3 DEF ConnectionCloses
-----------------------------------------------------------------------------
(***************************************************************************)
(* The theorem.                                                            *)
(***************************************************************************)
(* No call is open and none is counted at the start.                       *)
LEMMA InitCount == Init => IInv
<1> SUFFICES ASSUME Init PROVE IInv
  OBVIOUS
<1>1. kind \in [Task -> Kind] /\ Open = {}
  BY LoopAssumption DEF Init, Kind, Open, Kinds, Task
<1> QED
  BY <1>1, FS_EmptySet DEF Init, IInv, Types, Counted

(* Every step keeps the count.                                             *)
LEMMA NextCount == IInv /\ [Next]_vars => IInv'
<1> SUFFICES ASSUME IInv, [Next]_vars PROVE IInv'
  OBVIOUS
<1>1. CASE Top
  BY <1>1, ResetCount DEF Top
<1>2. CASE Quit
  BY <1>2, QuitCount
<1>3. CASE Expire
  BY <1>3, QuietStep DEF Expire, IInv, Types
<1>4. CASE Body
  BY <1>4, RunsCount, QuietStep DEF Body, tasks, IInv, Types
<1>5. CASE Final
  BY <1>5, RunsCount, QuietStep DEF Final, tasks, IInv, Types
<1>6. CASE After
  BY <1>6, ResetCount DEF After
<1>7. CASE EndPoll
  BY <1>7, QuietStep DEF EndPoll, tasks, IInv, Types
<1>8. ASSUME NEW t \in Calls, Message(t) \/ NewCall(t) PROVE IInv'
  BY <1>8, MessageCount, NewCallCount
<1>9. CASE ConnectionCloses
  BY <1>9, CloseCount
<1>10. ASSUME NEW m \in {10, 20}, Key(m) PROVE IInv'
  BY <1>10, QuietStep DEF Key, Pressed, tasks, IInv, Types
<1>11. CASE Signal
  BY <1>11, QuietStep DEF Signal, Pressed, tasks, IInv, Types
<1>12. CASE UNCHANGED vars
  BY <1>12, QuietStep DEF vars, tasks, IInv, Types
<1> QED
  BY <1>1, <1>2, <1>3, <1>4, <1>5, <1>6, <1>7, <1>8, <1>9, <1>10, <1>11, <1>12
  DEF Next, Loop, Event

(* The loop never leaves with an open call, unless it is forced to: only   *)
(* Quit leaves it, and the count that it finds at 0 is not below the       *)
(* number of open calls.                                                   *)
LEMMA QuitExits ==
    IInv /\ [Next]_vars =>
      [pc' = "exited" /\ pc # "exited" /\ quitting <= 11 => Open = {}]_vars
<1> SUFFICES ASSUME IInv, [Next]_vars, pc' = "exited", pc # "exited", quitting <= 11
             PROVE  Open = {}
  OBVIOUS
<1>1. Quit
  BY DEF Next, Loop, Event, Top, Expire, Break, Body, Moves, Final, After, EndPoll, Message,
         NewCall, ConnectionCloses, Key, Signal, vars
<1>2. quitting' <= 11
  BY <1>1 DEF Quit
<1>3. CurrentCall = 0
  BY <1>1, <1>2 DEF Quit
<1>4. IsFiniteSet(Open) /\ Cardinality(Open) \in Nat
  BY OpenIsCalls, CallsFinite
<1>5. Cardinality(Open) = 0 \/ Open = {}
  BY <1>3, <1>4 DEF IInv, Counted
<1> QED
  BY <1>4, <1>5, FS_EmptySet

(* OnlyQuietExits: a run ends no open call of its own accord, for any      *)
(* number of calls, any -m and any -max_sched_loops.                       *)
THEOREM NeverCutsOff == Spec => OnlyQuietExits
BY InitCount, NextCount, QuitExits, PTL DEF Spec, OnlyQuietExits

-----------------------------------------------------------------------------
(***************************************************************************)
(* Queues: sequences without repetition.                                   *)
(***************************************************************************)
Queue(q, S) == q \in Seq(S) /\ IsInjective(q)

(* The members of a sequence of elements of S.                             *)
LEMMA RangeOf ==
    ASSUME NEW S, NEW q \in Seq(S)
    PROVE  /\ Range(q) \in SUBSET S
           /\ \A t : t \in Range(q) <=> \E i \in 1..Len(q) : q[i] = t
           /\ \A t : Contains(q, t) <=> t \in Range(q)
BY DEF Range, Contains

(* A sequence of elements of S that are all in R.                          *)
LEMMA RangeInSet ==
    ASSUME NEW S, NEW q \in Seq(S), NEW R, Range(q) \subseteq R
    PROVE  q \in Seq(R)
<1>1. q \in Seq(Range(q))
  BY SeqOfRange
<1> QED
  BY <1>1, SeqMonotonic

(* How many of K are not above i.                                          *)
UpTo(K, i) == Cardinality(K \cap 1..i)

(* From i to i + 1 the number of those up to there grows by at most one.   *)
LEMMA UpToGrows ==
    ASSUME NEW K \in SUBSET (Nat \ {0}), NEW i \in Nat
    PROVE  /\ UpTo(K, i) \in Nat
           /\ UpTo(K, i + 1) = IF i + 1 \in K THEN UpTo(K, i) + 1 ELSE UpTo(K, i)
<1>1. IsFiniteSet(1..i)
  BY FS_Interval
<1>2. IsFiniteSet(K \cap 1..i)
  BY <1>1, FS_Subset
<1>3. CASE i + 1 \in K
  <2>1. K \cap 1..(i + 1) = (K \cap 1..i) \cup {i + 1} /\ i + 1 \notin K \cap 1..i
    BY <1>3
  <2> QED
    BY <1>2, <1>3, <2>1, FS_AddElement, FS_CardinalityType DEF UpTo
<1>4. CASE i + 1 \notin K
  <2>1. K \cap 1..(i + 1) = K \cap 1..i
    BY <1>4
  <2> QED
    BY <1>2, <1>4, <2>1, FS_CardinalityType DEF UpTo
<1> QED
  BY <1>3, <1>4

(* There are more up to a later member than up to an earlier number.       *)
LEMMA UpToOrder ==
    ASSUME NEW K \in SUBSET (Nat \ {0}), NEW i \in Nat, NEW j \in K, i < j
    PROVE  UpTo(K, i) < UpTo(K, j)
<1>1. IsFiniteSet(1..j)
  BY FS_Interval
<1>2. IsFiniteSet(K \cap 1..j)
  BY <1>1, FS_Subset
<1>3. K \cap 1..i \in SUBSET (K \cap 1..j) /\ j \in K \cap 1..j /\ j \notin K \cap 1..i
  OBVIOUS
<1>4. IsFiniteSet(K \cap 1..i)
  BY <1>2, <1>3, FS_Subset
<1>5. /\ Cardinality(K \cap 1..i) <= Cardinality(K \cap 1..j)
      /\ Cardinality(K \cap 1..i) # Cardinality(K \cap 1..j)
  BY <1>2, <1>3, FS_Subset
<1>6. Cardinality(K \cap 1..i) \in Nat /\ Cardinality(K \cap 1..j) \in Nat
  BY <1>2, <1>4, FS_CardinalityType
<1> QED
  BY <1>5, <1>6 DEF UpTo

(* Each of the numbers up to the size of K is the place of a member of K.  *)
LEMMA NthExists ==
    ASSUME NEW m \in Nat, NEW K \in SUBSET (1..m), NEW n \in 1..Cardinality(K)
    PROVE  \E i \in K : UpTo(K, i) = n
<1>1. IsFiniteSet(1..m) /\ K \cap 1..m = K
  <2>1. 1 \in Int /\ m \in Int
    OBVIOUS
  <2> QED
    BY <2>1, FS_Interval
<1>2. IsFiniteSet(K) /\ Cardinality(K) \in Nat
  BY <1>1, FS_Subset, FS_CardinalityType
<1> DEFINE F == {i \in Nat : UpTo(K, i) >= n}
<1>3. UpTo(K, m) = Cardinality(K)
  BY <1>1 DEF UpTo
<1>4. F \in SUBSET Nat /\ m \in F
  BY <1>2, <1>3
<1>5. PICK j \in F : \A k \in F : j <= k
  <2> HIDE DEF F
  <2> QED
    BY <1>4, Least
<1>6. UpTo(K, 0) = 0
  BY FS_EmptySet DEF UpTo
<1>7. j # 0
  BY <1>2, <1>6
<1>8. j - 1 \in Nat /\ j - 1 \notin F /\ (j - 1) + 1 = j
  BY <1>5, <1>7
<1>9. /\ UpTo(K, j - 1) \in Nat
      /\ UpTo(K, j) = IF j \in K THEN UpTo(K, j - 1) + 1 ELSE UpTo(K, j - 1)
  BY <1>8, UpToGrows
<1> QED
  BY <1>2, <1>8, <1>9

(* Taking tasks out of a queue leaves the others, each once.               *)
LEMMA WithoutIsQueue ==
    ASSUME NEW T, NEW q, Queue(q, T), NEW S
    PROVE  /\ Queue(Without(q, S), T)
           /\ Range(Without(q, S)) = Range(q) \ S
<1> DEFINE K == {i \in DOMAIN q : q[i] \notin S}
           At(n) == CHOOSE i \in K : Cardinality(K \cap 1..i) = n
           w == [n \in 1..Cardinality(K) |-> q[At(n)]]
<1>1. q \in Seq(T) /\ Len(q) \in Nat /\ DOMAIN q = 1..Len(q)
  BY DEF Queue
<1>2. K \in SUBSET (1..Len(q)) /\ K \in SUBSET (Nat \ {0}) /\ \A i \in K : q[i] \in T \ S
  BY <1>1
<1>3. IsFiniteSet(1..Len(q))
  BY <1>1, FS_Interval
<1>4. IsFiniteSet(K) /\ Cardinality(K) \in Nat
  BY <1>2, <1>3, FS_Subset, FS_CardinalityType
<1>5. Without(q, S) = w
  BY DEF Without
<1>6. \A n \in 1..Cardinality(K) : At(n) \in K /\ UpTo(K, At(n)) = n
  <2> SUFFICES ASSUME NEW n \in 1..Cardinality(K)
               PROVE  At(n) \in K /\ UpTo(K, At(n)) = n
    OBVIOUS
  <2>1. \E i \in K : UpTo(K, i) = n
    BY <1>1, <1>2, NthExists
  <2> QED
    BY <2>1 DEF UpTo
<1>7. \A i \in K : UpTo(K, i) \in 1..Cardinality(K) /\ At(UpTo(K, i)) = i
  <2> SUFFICES ASSUME NEW i \in K
               PROVE  UpTo(K, i) \in 1..Cardinality(K) /\ At(UpTo(K, i)) = i
    OBVIOUS
  <2>1. UpTo(K, i) \in 1..Cardinality(K)
    <3>1. K \cap 1..i \in SUBSET K /\ i \in K \cap 1..i
      BY <1>2
    <3>2. IsFiniteSet(K \cap 1..i) /\ Cardinality(K \cap 1..i) <= Cardinality(K)
      BY <1>4, <3>1, FS_Subset
    <3>3. Cardinality(K \cap 1..i) \in Nat /\ Cardinality(K \cap 1..i) # 0
      BY <3>1, <3>2, FS_CardinalityType, FS_EmptySet
    <3> QED
      BY <1>4, <3>2, <3>3 DEF UpTo
  <2>2. At(UpTo(K, i)) \in K /\ UpTo(K, At(UpTo(K, i))) = UpTo(K, i)
    BY <1>6, <2>1
  <2>3. \A j \in K : UpTo(K, j) = UpTo(K, i) => j = i
    <3> SUFFICES ASSUME NEW j \in K, UpTo(K, j) = UpTo(K, i), j # i PROVE FALSE
      OBVIOUS
    <3>1. i \in Nat /\ j \in Nat /\ UpTo(K, i) \in Nat /\ UpTo(K, j) \in Nat
      BY <1>2, UpToGrows
    <3>2. CASE i < j
      BY <1>2, <3>1, <3>2, UpToOrder
    <3>3. CASE j < i
      BY <1>2, <3>1, <3>3, UpToOrder
    <3> QED
      BY <3>1, <3>2, <3>3
  <2> QED
    BY <2>1, <2>2, <2>3
<1> HIDE DEF At, K
<1>8. w \in Seq(T)
  <2>1. \A n \in 1..Cardinality(K) : q[At(n)] \in T
    BY <1>2, <1>6
  <2> QED
    BY <1>4, <2>1
<1>9. IsInjective(w)
  <2> SUFFICES ASSUME NEW a \in 1..Cardinality(K), NEW b \in 1..Cardinality(K),
                      q[At(a)] = q[At(b)]
               PROVE  a = b
    BY DEF IsInjective
  <2>1. At(a) \in DOMAIN q /\ At(b) \in DOMAIN q
    BY <1>1, <1>2, <1>6
  <2>2. At(a) = At(b)
    BY <2>1 DEF Queue, IsInjective
  <2> QED
    BY <1>6, <2>2
<1>10. Range(w) = Range(q) \ S
  <2>1. ASSUME NEW t \in Range(w) PROVE t \in Range(q) \ S
    <3>1. PICK n \in 1..Cardinality(K) : t = q[At(n)]
      BY DEF Range
    <3>2. At(n) \in DOMAIN q /\ q[At(n)] \notin S
      BY <1>1, <1>2, <1>6
    <3> QED
      BY <3>1, <3>2 DEF Range
  <2>2. ASSUME NEW t \in Range(q) \ S PROVE t \in Range(w)
    <3>1. PICK i \in DOMAIN q : t = q[i]
      BY DEF Range
    <3>2. i \in K
      BY <3>1 DEF K
    <3>3. UpTo(K, i) \in DOMAIN w /\ w[UpTo(K, i)] = t
      BY <1>7, <3>1, <3>2
    <3> QED
      BY <3>3 DEF Range
  <2> QED
    BY <2>1, <2>2
<1> QED
  BY <1>5, <1>8, <1>9, <1>10 DEF Queue

(* A finite set as a queue.                                                *)
LEMMA SetToSeqIsQueue ==
    ASSUME NEW S, IsFiniteSet(S)
    PROVE  Queue(SetToSeq(S), S)
<1>1. Cardinality(S) \in Nat /\ ExistsBijection(1..Cardinality(S), S)
  BY FS_CardinalityType
<1>2. \E f \in [1..Cardinality(S) -> S] : IsInjective(f)
  BY <1>1 DEF ExistsBijection, Bijection, Injection, IsInjective
<1>3. SetToSeq(S) \in [1..Cardinality(S) -> S] /\ IsInjective(SetToSeq(S))
  BY <1>2 DEF SetToSeq
<1> QED
  BY <1>1, <1>3 DEF Queue

(* Two queues without a common task, one behind the other.                 *)
LEMMA ConcatIsQueue ==
    ASSUME NEW T, NEW p, NEW q, Queue(p, T), Queue(q, T), Range(p) \cap Range(q) = {}
    PROVE  Queue(p \o q, T) /\ Range(p \o q) = Range(p) \cup Range(q)
<1>1. /\ p \in Seq(T) /\ q \in Seq(T) /\ Len(p) \in Nat /\ Len(q) \in Nat
      /\ DOMAIN p = 1..Len(p) /\ DOMAIN q = 1..Len(q)
  BY DEF Queue
<1>2. /\ p \o q \in Seq(T) /\ DOMAIN (p \o q) = 1..(Len(p) + Len(q))
      /\ \A i \in 1..Len(p) : (p \o q)[i] = p[i]
      /\ \A i \in (Len(p) + 1)..(Len(p) + Len(q)) :
           (p \o q)[i] = q[i - Len(p)] /\ i - Len(p) \in 1..Len(q)
  BY <1>1
<1>3. \A i \in 1..(Len(p) + Len(q)) :
         i \in 1..Len(p) \/ i \in (Len(p) + 1)..(Len(p) + Len(q))
  BY <1>1
<1>4. Range(p \o q) = Range(p) \cup Range(q)
  <2>1. Range(p \o q) \subseteq Range(p) \cup Range(q)
    BY <1>1, <1>2, <1>3 DEF Range
  <2>2. ASSUME NEW i \in DOMAIN p PROVE p[i] \in Range(p \o q)
    <3>1. i \in DOMAIN (p \o q) /\ (p \o q)[i] = p[i]
      BY <1>1, <1>2
    <3> QED
      BY <3>1 DEF Range
  <2>3. ASSUME NEW i \in DOMAIN q PROVE q[i] \in Range(p \o q)
    <3>1. /\ Len(p) + i \in (Len(p) + 1)..(Len(p) + Len(q)) /\ (Len(p) + i) - Len(p) = i
          /\ Len(p) + i \in 1..(Len(p) + Len(q))
      BY <1>1
    <3>2. (p \o q)[Len(p) + i] = q[i]
      BY <1>2, <3>1
    <3>3. Len(p) + i \in DOMAIN (p \o q)
      BY <1>2, <3>1
    <3> QED
      BY <3>2, <3>3 DEF Range
  <2> QED
    BY <2>1, <2>2, <2>3 DEF Range
<1>5. IsInjective(p \o q)
  <2> SUFFICES ASSUME NEW a \in 1..(Len(p) + Len(q)), NEW b \in 1..(Len(p) + Len(q)),
                      (p \o q)[a] = (p \o q)[b]
               PROVE  a = b
    BY <1>2 DEF IsInjective
  <2>1. \A i \in DOMAIN p, j \in DOMAIN q : p[i] # q[j]
    BY DEF Range
  <2>2. CASE a \in 1..Len(p) /\ b \in 1..Len(p)
    BY <1>1, <1>2, <2>2 DEF Queue, IsInjective
  <2>3. CASE a \in (Len(p) + 1)..(Len(p) + Len(q)) /\ b \in (Len(p) + 1)..(Len(p) + Len(q))
    <3>1. /\ a - Len(p) \in DOMAIN q /\ b - Len(p) \in DOMAIN q
          /\ q[a - Len(p)] = q[b - Len(p)]
      BY <1>1, <1>2, <2>3
    <3>2. a - Len(p) = b - Len(p)
      BY <3>1 DEF Queue, IsInjective
    <3> QED
      BY <1>1, <3>2
  <2>4. CASE a \in 1..Len(p) /\ b \in (Len(p) + 1)..(Len(p) + Len(q))
    BY <1>1, <1>2, <2>1, <2>4
  <2>5. CASE a \in (Len(p) + 1)..(Len(p) + Len(q)) /\ b \in 1..Len(p)
    BY <1>1, <1>2, <2>1, <2>5
  <2> QED
    BY <1>3, <2>2, <2>3, <2>4, <2>5
<1> QED
  BY <1>2, <1>4, <1>5 DEF Queue

(* A task that joins the queue at its end.                                 *)
LEMMA AppendIsQueue ==
    ASSUME NEW T, NEW q, Queue(q, T), NEW t \in T, t \notin Range(q)
    PROVE  Queue(Append(q, t), T) /\ Range(Append(q, t)) = Range(q) \cup {t}
<1>1. Queue(<<t>>, T) /\ Range(<<t>>) = {t}
  BY DEF Queue, IsInjective, Range
<1>2. Append(q, t) = q \o <<t>>
  BY DEF Queue
<1> QED
  BY <1>1, <1>2, ConcatIsQueue

-----------------------------------------------------------------------------
(***************************************************************************)
(* The run queue and the iterator of the loop over it.                     *)
(***************************************************************************)
(* The iterator is at a task of the queue during the loop, one ahead of    *)
(* the task that runs next; elsewhere it is at none.                       *)
Position == /\ pc = "loop" => iter \in Range(run_queue) /\ iter # last
            /\ pc # "loop" => iter = NoTask
            /\ pc \notin {"loop", "final"} => last = NoTask

QInv == TypeOK /\ Position

(* The part of the state that tasks change.                                *)
Living(k) == {t \in Task : k[t] # "none"}
TasksOK == /\ kind \in [Task -> Kind]
           /\ Queue(run_queue, Alive)
           /\ CurrentCall \in Int /\ created \in 0..StopAfter
           /\ quitting \in 0..20
           /\ pending \in BOOLEAN /\ resets \in 0..MaxResets

(* The state of the loop itself.                                           *)
LoopOK == /\ creationMode \in Modes
          /\ pc \in {"top", "quit", "expire", "loop", "final", "after", "poll", "exited"}
          /\ iter \in Range(run_queue) \cup {NoTask}
          /\ last \in Range(run_queue) \cup {NoTask}
          /\ loops \in 0..MaxSchedLoops
          /\ miscounted \in BOOLEAN

(* The type invariant in these parts.                                      *)
LEMMA TypeParts == TypeOK <=> TasksOK /\ LoopOK
BY DEF TypeOK, TasksOK, LoopOK, Kind, Queue

(* A queue of tasks that live, under other kinds.                          *)
LEMMA QueueOfLiving ==
    ASSUME NEW T, NEW q, Queue(q, T), NEW R, Range(q) \subseteq R
    PROVE  Queue(q, R)
BY RangeInSet DEF Queue

(* A task that pauses stays, or goes to the end.                           *)
LEMMA PausesQueue ==
    ASSUME NEW T, NEW q, Queue(q, T), NEW t \in T, Pauses(t, q)
    PROVE  /\ Queue(run_queue', T)
           /\ Range(q) \ {t} \subseteq Range(run_queue')
           /\ Range(run_queue') \subseteq Range(q) \cup {t}
<1>1. Queue(Without(q, {t}), T) /\ Range(Without(q, {t})) = Range(q) \ {t}
  BY WithoutIsQueue
<1>2. /\ Queue(Append(Without(q, {t}), t), T)
      /\ Range(Append(Without(q, {t}), t)) = (Range(q) \ {t}) \cup {t}
  <2> DEFINE w == Without(q, {t})
  <2>1. Queue(w, T) /\ t \notin Range(w) /\ Range(w) = Range(q) \ {t}
    BY <1>1
  <2> HIDE DEF w
  <2>2. Queue(Append(w, t), T) /\ Range(Append(w, t)) = Range(w) \cup {t}
    BY <2>1, AppendIsQueue
  <2> QED
    BY <2>1, <2>2 DEF w
<1> QED
  BY <1>1, <1>2 DEF Pauses

(* A task that deletes itself leaves the others.                           *)
LEMMA DeletedQueue ==
    ASSUME kind \in [Task -> Kind], NEW q, Queue(q, Alive), NEW t \in Task, Deleted(t, q)
    PROVE  /\ kind' \in [Task -> Kind]
           /\ Queue(run_queue', Alive')
           /\ Range(q) \ {t} \subseteq Range(run_queue')
<1>1. kind' = [kind EXCEPT ![t] = "none"] /\ run_queue' = Without(q, {t})
  BY DEF Deleted
<1>2. Queue(run_queue', Alive) /\ Range(run_queue') = Range(q) \ {t}
  BY <1>1, WithoutIsQueue
<1>3. Range(run_queue') \subseteq Alive'
  <2>1. Range(q) \subseteq Alive
    BY RangeOf DEF Queue
  <2>2. Alive \ {t} \subseteq Alive'
    BY <1>1 DEF Alive
  <2> QED
    BY <1>2, <2>1, <2>2
<1> QED
  BY <1>1, <1>2, <1>3, QueueOfLiving DEF Kind

(* Calls that end together leave the others, and may wake the opentask.    *)
LEMMA CallsEndQueue ==
    ASSUME NEW k \in [Task -> Kind], NEW q, Queue(q, Living(k)), NEW S \in SUBSET Calls,
           NEW n \in Int, CallsEnd(S, q, k, n),
           Asleep(OpenTask) => k[OpenTask] # "none" /\ OpenTask \notin Range(q)
    PROVE  /\ kind' \in [Task -> Kind] /\ CurrentCall' \in Int
           /\ Queue(run_queue', Alive')
           /\ Range(q) \ S \subseteq Range(run_queue')
<1>1. PICK dead \in SUBSET S :
          kind' = [t \in Task |-> IF t \in dead THEN "dead"
                                  ELSE IF t \in S THEN "none" ELSE k[t]]
  BY DEF CallsEnd
<1> DEFINE rest == Without(q, S)
<1>2. /\ run_queue' \in {rest} \cup (IF S # {} /\ Asleep(OpenTask)
                                       THEN {Append(rest, OpenTask)} ELSE {})
      /\ CurrentCall' = n - CountedOff(S, k)
  BY DEF CallsEnd
<1>3. kind' \in [Task -> Kind]
  BY <1>1 DEF Kind
<1>4. CurrentCall' \in Int
  <2>1. CountedOff(S, k) \in Nat
    BY CallsFinite DEF CountedOff
  <2> QED
    BY <1>2, <2>1
<1>5. Queue(rest, Living(k)) /\ Range(rest) = Range(q) \ S
  BY WithoutIsQueue
<1>6. Living(k) \ S \subseteq Alive'
  BY <1>1 DEF Living, Alive
<1>7. Range(q) \subseteq Living(k)
  BY RangeOf DEF Queue
<1>8. Queue(rest, Alive')
  BY <1>5, <1>6, <1>7, QueueOfLiving
<1>9. CASE run_queue' = rest
  BY <1>3, <1>4, <1>5, <1>8, <1>9
<1>10. CASE Asleep(OpenTask) /\ run_queue' = Append(rest, OpenTask)
  <2>1. OpenTask \in Alive' /\ OpenTask \notin Range(rest)
    BY <1>5, <1>6, <1>10, LoopAssumption DEF Living, Task
  <2>2. /\ Queue(Append(rest, OpenTask), Alive')
        /\ Range(Append(rest, OpenTask)) = Range(rest) \cup {OpenTask}
    BY <1>8, <2>1, AppendIsQueue
  <2> QED
    BY <1>3, <1>4, <1>5, <1>10, <2>2
<1> QED
  BY <1>2, <1>9, <1>10

(* A call that runs leaves the other tasks in the queue.                   *)
LEMMA CallRunsQueue ==
    ASSUME NEW k \in [Task -> Kind], NEW q, Queue(q, Living(k)), NEW t \in Calls,
           k[t] # "none", NEW n \in Int, CallRuns(t, q, k, n),
           Asleep(OpenTask) => k[OpenTask] # "none" /\ OpenTask \notin Range(q),
           created' \in 0..StopAfter, quitting \in 0..20,
           pending \in BOOLEAN, resets \in 0..MaxResets
    PROVE  TasksOK' /\ Range(q) \ {t} \subseteq Range(run_queue')
<1>1. quitting' \in 0..20
  BY DEF CallRuns
<1>2. pending' \in BOOLEAN
  BY DEF CallRuns
<1>3. resets' \in 0..MaxResets
  BY LoopAssumption DEF CallRuns
<1>4. CASE (Pauses(t, q) \/ run_queue' = q) /\ kind' = k /\ CurrentCall' = n
  <2>1. Alive' = Living(k)
    BY <1>4 DEF Alive, Living
  <2>2. t \in Living(k)
    BY DEF Living, Task
  <2>3. Queue(run_queue', Living(k)) /\ Range(q) \ {t} \subseteq Range(run_queue')
    BY <1>4, <2>2, PausesQueue
  <2> QED
    BY <1>1, <1>2, <1>3, <1>4, <2>1, <2>3 DEF TasksOK
<1>5. CASE CallsEnd({t}, q, k, n)
  <2>1. /\ kind' \in [Task -> Kind] /\ CurrentCall' \in Int
        /\ Queue(run_queue', Alive')
        /\ Range(q) \ {t} \subseteq Range(run_queue')
    BY ZenonT(60), <1>5, CallsEndQueue
  <2> QED
    BY <1>1, <1>2, <1>3, <2>1 DEF TasksOK
<1> QED
  BY <1>4, <1>5 DEF CallRuns

(* The opentask opens calls, which join the queue.                         *)
LEMMA OpenTaskQueue ==
    ASSUME TasksOK, OpenTaskRuns(OpenTask, run_queue), OpenTask \in Range(run_queue),
           UNCHANGED <<pending, resets>>
    PROVE  TasksOK' /\ Range(run_queue) \ {OpenTask} \subseteq Range(run_queue')
<1>1. /\ kind \in [Task -> Kind] /\ Queue(run_queue, Alive) /\ OpenTask \in Task
      /\ Range(run_queue) \subseteq Alive
  BY RangeOf DEF TasksOK, Queue, Task
<1>2. CASE quitting > 0
  <2>1. Deleted(OpenTask, run_queue) /\ UNCHANGED <<CurrentCall, created, quitting>>
    BY <1>2 DEF OpenTaskRuns
  <2> QED
    BY <1>1, <2>1, DeletedQueue DEF TasksOK
<1>3. CASE ~ (quitting > 0)
  <2>1. PICK new \in SUBSET Free, zombies \in SUBSET Free :
             /\ zombies \subseteq new
             /\ created + Cardinality(new) <= StopAfter
             /\ \/ Pauses(OpenTask, run_queue \o SetToSeq(new))
                \/ new # {} /\ run_queue' = run_queue \o SetToSeq(new)
             /\ kind' = [c \in Task |-> IF c \in zombies THEN "zombie"
                                        ELSE IF c \in new THEN "call" ELSE kind[c]]
             /\ CurrentCall' = CurrentCall + Cardinality(new \ zombies)
             /\ created' = created + Cardinality(new)
             /\ quitting' = IF created >= StopAfter THEN 1 ELSE quitting
    BY <1>3 DEF OpenTaskRuns
  <2>2. new \in SUBSET Calls /\ new \ zombies \in SUBSET Calls /\ new \cap Alive = {}
    BY DEF Free, Kinds, Alive
  <2>3. /\ Cardinality(new) \in Nat /\ Cardinality(new \ zombies) \in Nat
        /\ Queue(SetToSeq(new), new)
    BY <2>2, CallsFinite, SetToSeqIsQueue
  <2>4. kind' \in [Task -> Kind] /\ Alive' = Alive \cup new
    <3>1. kind' \in [Task -> Kind]
      BY <1>1, <2>1 DEF Kind
    <3>2. Alive' = Alive \cup new
      BY <2>1, <2>2 DEF Alive, Task
    <3> QED
      BY <3>1, <3>2
  <2>5. /\ Queue(run_queue, Alive') /\ Queue(SetToSeq(new), Alive')
        /\ Range(run_queue) \cap Range(SetToSeq(new)) = {}
    <3>1. Range(SetToSeq(new)) \subseteq new
      BY <2>3, RangeOf DEF Queue
    <3> QED
      BY <1>1, <2>2, <2>3, <2>4, <3>1, QueueOfLiving
  <2> DEFINE q == run_queue \o SetToSeq(new)
  <2>6. Queue(q, Alive') /\ Range(q) = Range(run_queue) \cup Range(SetToSeq(new))
    <3> DEFINE s == SetToSeq(new)
    <3>1. /\ Queue(run_queue, Alive') /\ Queue(s, Alive')
          /\ Range(run_queue) \cap Range(s) = {}
      BY <2>5
    <3> HIDE DEF s
    <3>2. \A T, p : Queue(p, T) /\ Queue(s, T) /\ Range(p) \cap Range(s) = {}
                      => Queue(p \o s, T) /\ Range(p \o s) = Range(p) \cup Range(s)
      BY SMTT(40), ConcatIsQueue
    <3>3. /\ Queue(run_queue \o s, Alive')
          /\ Range(run_queue \o s) = Range(run_queue) \cup Range(s)
      BY <3>1, <3>2
    <3> QED
      BY <3>3 DEF s
  <2>7. /\ Queue(run_queue', Alive')
        /\ Range(run_queue) \ {OpenTask} \subseteq Range(run_queue')
    <3>1. CASE run_queue' = q
      BY <2>6, <3>1
    <3>2. CASE Pauses(OpenTask, q)
      <4>1. OpenTask \in Alive'
        BY <1>1, <2>4
      <4>2. Queue(run_queue', Alive') /\ Range(q) \ {OpenTask} \subseteq Range(run_queue')
        <5> HIDE DEF q
        <5> QED
          BY <2>6, <3>2, <4>1, PausesQueue
      <4> QED
        BY <2>6, <4>2
    <3> QED
      BY <2>1, <3>1, <3>2
  <2>8. CurrentCall' \in Int /\ created' \in 0..StopAfter /\ quitting' \in 0..20
    <3>1. CurrentCall \in Int /\ created \in 0..StopAfter /\ quitting \in 0..20 /\ StopAfter \in Nat
      BY LoopAssumption DEF TasksOK
    <3>2. CurrentCall' = CurrentCall + Cardinality(new \ zombies)
      BY <2>1
    <3>3. created' = created + Cardinality(new) /\ created + Cardinality(new) <= StopAfter
      BY <2>1
    <3>4. quitting' = quitting \/ quitting' = 1
      BY <2>1
    <3> QED
      BY <2>3, <3>1, <3>2, <3>3, <3>4
  <2> QED
    BY <2>4, <2>7, <2>8 DEF TasksOK
<1> QED
  BY <1>2, <1>3

(* A sleeping opentask lives and is not in the queue.                      *)
LEMMA SleepingOpenTask ==
    ASSUME TasksOK, Asleep(OpenTask)
    PROVE  kind[OpenTask] # "none" /\ OpenTask \notin Range(run_queue)
BY RangeOf DEF Asleep, Alive, TasksOK, Queue

(* Whatever task of the queue runs, the others stay in it.                 *)
LEMMA RunsQueue ==
    ASSUME TasksOK, NEW t \in Range(run_queue), Runs(t, run_queue)
    PROVE  TasksOK' /\ Range(run_queue) \ {t} \subseteq Range(run_queue')
<1>1. /\ kind \in [Task -> Kind] /\ Queue(run_queue, Alive) /\ t \in Task /\ t \in Alive
      /\ CurrentCall \in Int /\ created \in 0..StopAfter /\ quitting \in 0..20
      /\ pending \in BOOLEAN /\ resets \in 0..MaxResets
  BY RangeOf DEF TasksOK, Queue, Alive
<1>2. CASE t \in Calls /\ CallRuns(t, run_queue, kind, CurrentCall) /\ UNCHANGED created
  <2>1. Alive = Living(kind) /\ kind[t] # "none"
    BY <1>1 DEF Alive, Living
  <2>2. created' \in 0..StopAfter
    BY <1>1, <1>2
  <2> QED
    BY <1>1, <1>2, <2>1, <2>2, CallRunsQueue, SleepingOpenTask
<1>3. CASE Deleted(t, run_queue)
  <2>1. /\ kind' \in [Task -> Kind] /\ Queue(run_queue', Alive')
        /\ Range(run_queue) \ {t} \subseteq Range(run_queue')
    BY <1>1, <1>3, DeletedQueue
  <2>2. CASE ZombieRuns(t, run_queue) /\ UNCHANGED <<created, quitting, pending, resets>>
    BY <1>1, <2>1, <2>2 DEF TasksOK, ZombieRuns
  <2>3. CASE UNCHANGED <<CurrentCall, created, quitting, pending, resets>>
    BY <1>1, <2>1, <2>3 DEF TasksOK
  <2>4. CASE t = OpenTask /\ OpenTaskRuns(t, run_queue) /\ UNCHANGED <<pending, resets>>
    BY <2>4, OpenTaskQueue
  <2>5. CASE t \in Calls /\ CallRuns(t, run_queue, kind, CurrentCall) /\ UNCHANGED created
    BY <1>2, <2>5
  <2>6. CASE t = Report /\ ReportRuns(t, run_queue)
              /\ UNCHANGED <<CurrentCall, created, pending, resets>>
    <3>1. quitting' \in 0..20
      BY <1>1, <2>6 DEF ReportRuns, Pressed
    <3> QED
      BY <1>1, <2>1, <2>6, <3>1 DEF TasksOK
  <2> QED
    BY <2>2, <2>3, <2>4, <2>5, <2>6 DEF Runs
<1>4. CASE Pauses(t, run_queue) /\ UNCHANGED <<kind, CurrentCall, created, pending, resets>>
           /\ quitting' \in 0..20
  <2>1. Queue(run_queue', Alive) /\ Range(run_queue) \ {t} \subseteq Range(run_queue')
    BY <1>1, <1>4, PausesQueue
  <2>2. Alive' = Alive
    BY <1>4 DEF Alive
  <2> QED
    BY <1>1, <1>4, <2>1, <2>2 DEF TasksOK
<1>5. CASE t = OpenTask /\ OpenTaskRuns(t, run_queue) /\ UNCHANGED <<pending, resets>>
  BY <1>5, OpenTaskQueue
<1>6. CASE t \in Calls /\ ZombieRuns(t, run_queue)
           /\ UNCHANGED <<created, quitting, pending, resets>>
  BY <1>3, <1>6 DEF ZombieRuns
<1>7. CASE t = Report /\ ReportRuns(t, run_queue)
           /\ UNCHANGED <<CurrentCall, created, pending, resets>>
  <2>1. quitting' \in 0..20
    BY <1>1, <1>7 DEF ReportRuns, Pressed
  <2> QED
    BY <1>3, <1>4, <1>7, <2>1 DEF ReportRuns
<1>8. CASE t \in Calls /\ DeadcallRuns(t, run_queue) /\ UNCHANGED CurrentCall
           /\ UNCHANGED <<created, quitting, pending, resets>>
  BY <1>1, <1>3, <1>4, <1>8 DEF DeadcallRuns
<1> QED
  BY <1>2, <1>5, <1>6, <1>7, <1>8 DEF Runs

(* The task behind another one in the queue is in it, too.                 *)
LEMMA FollowingTask ==
    ASSUME NEW T, NoTask \notin T, NEW q, Queue(q, T), NEW t \in Range(q)
    PROVE  \/ Following(t, q) = NoTask
           \/ Following(t, q) \in Range(q) /\ Following(t, q) # t
<1>1. q \in Seq(T) /\ Len(q) \in Nat /\ DOMAIN q = 1..Len(q) /\ IsInjective(q)
  BY DEF Queue
<1> DEFINE i == CHOOSE j \in DOMAIN q : q[j] = t
<1>2. i \in DOMAIN q /\ q[i] = t
  BY DEF Range
<1>3. Contains(q, t)
  BY <1>1, RangeOf
<1>4. Following(t, q) = IF i = Len(q) THEN NoTask ELSE q[i + 1]
  BY <1>3 DEF Following
<1> HIDE DEF i
<1>5. CASE i # Len(q)
  <2>1. i + 1 \in DOMAIN q /\ i + 1 # i
    BY <1>1, <1>2, <1>5
  <2>2. q[i + 1] \in Range(q)
    BY <2>1 DEF Range
  <2>3. q[i + 1] # q[i]
    BY <1>1, <1>2, <2>1 DEF IsInjective
  <2> QED
    BY <1>2, <1>4, <1>5, <2>2, <2>3
<1> QED
  BY <1>4, <1>5

(* The iterator moves on, over the queue that the task before it has left. *)
LEMMA MovesPosition ==
    ASSUME TasksOK', LoopOK, pc = "loop", iter \in Range(run_queue'),
           Moves(run_queue'), UNCHANGED <<creationMode, miscounted>>
    PROVE  QInv'
<1>1. Queue(run_queue', Task) /\ NoTask \notin Task
  <2>1. Range(run_queue') \subseteq Alive' /\ Alive' \subseteq Task
    BY RangeOf DEF TasksOK, Queue, Alive
  <2> QED
    BY <2>1, QueueOfLiving, LoopAssumption DEF TasksOK, Task
<1>2. \/ Following(iter, run_queue') = NoTask
      \/ Following(iter, run_queue') \in Range(run_queue') /\ Following(iter, run_queue') # iter
  BY <1>1, FollowingTask
<1>3. last' = iter
  BY DEF Moves
<1>4. CASE Break
  <2>1. pc' = "final" /\ iter' = NoTask /\ loops' = 0
    BY <1>4 DEF Break
  <2>2. loops' \in 0..MaxSchedLoops
    BY <2>1, LoopAssumption
  <2>3. LoopOK'
    BY <1>3, <2>1, <2>2 DEF LoopOK
  <2>4. Position'
    BY <2>1 DEF Position
  <2> QED
    BY <2>3, <2>4, TypeParts, PTL DEF QInv
<1>5. CASE /\ ~(loops <= 1) /\ Following(iter, run_queue') # NoTask
           /\ pc' = "loop" /\ loops' = loops - 1 /\ iter' = Following(iter, run_queue')
  <2>1. loops' \in 0..MaxSchedLoops
    BY <1>5, LoopAssumption DEF LoopOK
  <2>2. iter' \in Range(run_queue') /\ iter' # last'
    BY <1>2, <1>3, <1>5
  <2>3. LoopOK'
    BY <1>3, <1>5, <2>1, <2>2 DEF LoopOK
  <2> QED
    <3>1. Position'
      BY <1>5, <2>2 DEF Position
    <3> QED
      BY <2>3, <3>1, TypeParts, PTL DEF QInv
<1> QED
  BY <1>4, <1>5 DEF Moves

(* A step that leaves the loop's own variables alone while it is outside   *)
(* of its pass over the queue.                                             *)
LEMMA OutsidePass ==
    ASSUME QInv, pc \notin {"loop", "final"}, TasksOK', UNCHANGED <<creationMode, pass>>,
           miscounted' \in BOOLEAN, pc' \notin {"loop"},
           pc' \in {"top", "quit", "expire", "final", "after", "poll", "exited"}
    PROVE  QInv'
<1>1. iter = NoTask /\ last = NoTask /\ LoopOK
  BY TypeParts DEF QInv, Position
<1>2. LoopOK' /\ Position'
  BY <1>1 DEF LoopOK, Position, pass
<1> QED
  BY <1>2, TypeParts, PTL DEF QInv

(* A step that leaves the tasks and the loop alone.                        *)
LEMMA TasksAlone ==
    ASSUME QInv, UNCHANGED <<creationMode, tasks, pc, pass>>, quitting' \in 0..20,
           pending' \in BOOLEAN, resets' \in 0..MaxResets, miscounted' \in BOOLEAN
    PROVE  QInv'
<1>1. TasksOK /\ LoopOK /\ Position
  BY TypeParts DEF QInv
<1>2. TasksOK'
  BY <1>1 DEF TasksOK, tasks, Alive
<1>3. LoopOK' /\ Position'
  BY <1>1 DEF LoopOK, Position, tasks, pass
<1> QED
  BY <1>2, <1>3, TypeParts, PTL DEF QInv

(* Connections that are reset or close end calls.                          *)
LEMMA EndsQueue ==
    ASSUME TasksOK, NEW S \in SUBSET Calls, CallsEnd(S, run_queue, kind, CurrentCall),
           UNCHANGED <<created, quitting, resets>>, pending' \in BOOLEAN
    PROVE  TasksOK'
<1>1. /\ kind \in [Task -> Kind] /\ Queue(run_queue, Living(kind)) /\ CurrentCall \in Int
      /\ created \in 0..StopAfter /\ quitting \in 0..20 /\ resets \in 0..MaxResets
  BY DEF TasksOK, Alive, Living
<1>2. /\ kind' \in [Task -> Kind] /\ CurrentCall' \in Int
      /\ Queue(run_queue', Alive')
  BY <1>1, CallsEndQueue, SleepingOpenTask
<1> QED
  BY <1>1, <1>2 DEF TasksOK

(* reset_connection() of what waits for it.                                *)
LEMMA ResetQueue ==
    ASSUME TasksOK, ResetSockets, UNCHANGED <<quitting, resets>>
    PROVE  TasksOK'
<1>1. CASE UNCHANGED <<tasks, pending>>
  BY <1>1 DEF TasksOK, tasks, Alive
<1>2. ASSUME NEW S \in SUBSET (Open \cup Kinds("auto")),
             CallsEnd(S, run_queue, kind, CurrentCall),
             pending' = FALSE, UNCHANGED created
      PROVE  TasksOK'
  BY <1>2, EndsQueue DEF Open, Kinds
<1> QED
  BY <1>1, <1>2 DEF ResetSockets

(* Quitting: all tasks are aborted, or none.                               *)
LEMMA QuitQueue ==
    ASSUME TasksOK, Quit
    PROVE  TasksOK'
<1>1. /\ kind \in [Task -> Kind] /\ Queue(run_queue, Alive) /\ CurrentCall \in Int
      /\ created \in 0..StopAfter /\ quitting \in 0..20 /\ resets \in 0..MaxResets
      /\ pending \in BOOLEAN
  BY DEF TasksOK
<1>2. CurrentCall' \in Int
  <2>1. Aborted \in Nat
    BY CallsFinite DEF Aborted, Open, Kinds
  <2>2. CurrentCall' = CurrentCall - Aborted \/ CurrentCall' = CurrentCall
    BY DEF Quit
  <2> QED
    BY <1>1, <2>1, <2>2
<1>3. quitting' \in 0..20 /\ UNCHANGED <<created, pending, resets>>
  BY <1>1 DEF Quit
<1>4. CASE AbortAll
  <2>1. kind' \in [Task -> Kind] /\ Queue(run_queue', Alive')
    BY <1>4 DEF AbortAll, Kind, Queue, IsInjective
  <2> QED
    BY <1>1, <1>2, <1>3, <2>1 DEF TasksOK
<1>5. CASE UNCHANGED <<kind, run_queue>>
  BY <1>1, <1>2, <1>3, <1>5 DEF TasksOK, Alive
<1> QED
  BY <1>4, <1>5 DEF Quit

(* Sleepers that are due join the queue, and the pass begins at its front. *)
LEMMA ExpireQueue ==
    ASSUME QInv, Expire
    PROVE  QInv'
<1>1. TasksOK /\ LoopOK /\ last = NoTask /\ iter = NoTask
  BY TypeParts DEF QInv, Position, Expire
<1>2. PICK due \in SUBSET {t \in Task : Asleep(t)} :
         run_queue' = run_queue \o SetToSeq(due)
  BY DEF Expire
<1>3. IsFiniteSet(due)
  <2>1. IsFiniteSet(Calls \cup {OpenTask, Report})
    <3>1. IsFiniteSet({OpenTask} \cup {Report}) /\ {OpenTask} \cup {Report} = {OpenTask, Report}
      BY FS_AddElement, FS_Singleton
    <3>2. IsFiniteSet(Calls) /\ IsFiniteSet({OpenTask, Report})
      BY <3>1, LoopAssumption
    <3> QED
      BY <3>2, FS_Union
  <2>2. due \in SUBSET (Calls \cup {OpenTask, Report})
    BY DEF Task
  <2> QED
    BY <2>1, <2>2, FS_Subset
<1>4. Queue(SetToSeq(due), due) /\ Range(SetToSeq(due)) \subseteq due
  BY <1>3, SetToSeqIsQueue, RangeOf DEF Queue
<1>5. due \subseteq Alive /\ due \cap Range(run_queue) = {}
  BY <1>1, RangeOf DEF Asleep, TasksOK, Queue
<1>6. Queue(run_queue', Alive')
  <2> DEFINE s == SetToSeq(due)
  <2>1. Queue(run_queue, Alive) /\ Queue(s, Alive) /\ Range(run_queue) \cap Range(s) = {}
    BY <1>1, <1>4, <1>5, QueueOfLiving DEF TasksOK
  <2> HIDE DEF s
  <2>2. Queue(run_queue \o s, Alive)
    BY <2>1, ConcatIsQueue
  <2>3. Alive' = Alive /\ run_queue' = run_queue \o s
    BY <1>2 DEF Expire, Alive, s
  <2> QED
    BY <2>2, <2>3
<1>7. TasksOK'
  BY <1>1, <1>6 DEF TasksOK, Expire
<1>8. CASE run_queue' = << >>
  <2>1. /\ pc' = "final" /\ iter' = NoTask /\ loops' = 0 /\ last' = NoTask
        /\ UNCHANGED <<creationMode, miscounted>>
    BY <1>1, <1>8 DEF Expire, Break
  <2>2. LoopOK' /\ Position'
    BY <1>1, <2>1, LoopAssumption DEF LoopOK, Position
  <2> QED
    BY <1>7, <2>2, TypeParts, PTL DEF QInv
<1>9. CASE run_queue' # << >>
  <2>1. /\ pc' = "loop" /\ iter' = Head(run_queue') /\ loops' = MaxSchedLoops
        /\ last' = NoTask /\ UNCHANGED <<creationMode, miscounted>>
    BY <1>1, <1>9 DEF Expire
  <2>2. iter' \in Range(run_queue') /\ iter' \in Task
    <3>1. run_queue' \in Seq(Alive') /\ Alive' \subseteq Task
      BY <1>6 DEF Queue, Alive
    <3>2. 1 \in DOMAIN run_queue' /\ Head(run_queue') = run_queue'[1]
      BY <1>9, <3>1
    <3> QED
      BY <2>1, <3>1, <3>2 DEF Range
  <2>3. iter' # NoTask
    BY <2>2, LoopAssumption DEF Task
  <2>4. LoopOK' /\ Position'
    BY <1>1, <2>1, <2>2, <2>3, LoopAssumption DEF LoopOK, Position
  <2> QED
    BY <1>7, <2>4, TypeParts, PTL DEF QInv
<1> QED
  BY <1>8, <1>9

(* A round of the loop over the queue: the task behind the iterator may    *)
(* delete itself, end, append to the queue: the iterator stays in it.      *)
LEMMA BodyQueue ==
    ASSUME QInv, Body
    PROVE  QInv'
<1>1. /\ TasksOK /\ LoopOK /\ pc = "loop" /\ iter \in Range(run_queue) /\ iter # last
      /\ last \in Range(run_queue) \cup {NoTask} /\ UNCHANGED <<creationMode, miscounted>>
  BY TypeParts DEF QInv, Position, LoopOK, Body
<1>2. CASE last = NoTask
  <2>1. Moves(run_queue) /\ UNCHANGED <<tasks, quitting, pending, resets>>
    BY <1>2 DEF Body
  <2>2. run_queue' = run_queue /\ TasksOK'
    BY <1>1, <2>1 DEF TasksOK, tasks, Alive
  <2>3. Moves(run_queue') /\ iter \in Range(run_queue')
    BY <1>1, <2>1, <2>2
  <2> QED
    BY <1>1, <2>2, <2>3, MovesPosition
<1>3. CASE last # NoTask
  <2>1. /\ Runs(last, run_queue) /\ last \in Range(run_queue)
        /\ IF pending' THEN Break /\ last' = NoTask ELSE Moves(run_queue')
    BY <1>1, <1>3 DEF Body
  <2>2. TasksOK' /\ iter \in Range(run_queue')
    BY <1>1, <2>1, RunsQueue
  <2>3. CASE ~pending'
    BY <1>1, <2>1, <2>2, <2>3, MovesPosition
  <2>4. CASE pending'
    <3>1. pc' = "final" /\ iter' = NoTask /\ loops' = 0 /\ last' = NoTask
      BY <2>1, <2>4 DEF Break
    <3>2. LoopOK' /\ Position'
      BY <1>1, <3>1, LoopAssumption DEF LoopOK, Position
    <3> QED
      BY <2>2, <3>2, TypeParts, PTL DEF QInv
  <2> QED
    BY <2>3, <2>4
<1> QED
  BY <1>2, <1>3

(* The last task of the pass.                                              *)
LEMMA FinalQueue ==
    ASSUME QInv, Final
    PROVE  QInv'
<1>1. /\ TasksOK /\ LoopOK /\ iter = NoTask /\ last \in Range(run_queue) \cup {NoTask}
  BY TypeParts DEF QInv, Position, LoopOK, Final
<1>2. /\ pc' = "after" /\ last' = NoTask /\ iter' = NoTask
      /\ UNCHANGED <<creationMode, loops, miscounted>>
  BY <1>1 DEF Final
<1>3. TasksOK'
  <2>1. CASE last = NoTask
    BY <1>1, <2>1 DEF Final, TasksOK, tasks, Alive
  <2>2. CASE last # NoTask
    <3>1. Runs(last, run_queue) /\ last \in Range(run_queue)
      BY <1>1, <2>2 DEF Final
    <3> QED
      BY <1>1, <3>1, RunsQueue
  <2> QED
    BY <2>1, <2>2
<1>4. LoopOK' /\ Position'
  BY <1>1, <1>2 DEF LoopOK, Position
<1> QED
  BY <1>3, <1>4, TypeParts, PTL DEF QInv

(* A task that a message wakes joins the queue.                            *)
LEMMA WokenQueue ==
    ASSUME TasksOK, NEW t \in Calls, kind[t] # "none"
    PROVE  /\ Queue(Woken(t), Alive) /\ t \in Alive
           /\ Asleep(OpenTask) => kind[OpenTask] # "none" /\ OpenTask \notin Range(Woken(t))
<1>1. Queue(run_queue, Alive) /\ t \in Alive /\ t # OpenTask
  BY LoopAssumption DEF TasksOK, Alive, Task
<1>2. CASE Asleep(t)
  <2>1. t \notin Range(run_queue)
    BY <1>1, <1>2, RangeOf DEF Asleep, Queue
  <2>2. /\ Queue(Append(run_queue, t), Alive)
        /\ Range(Append(run_queue, t)) = Range(run_queue) \cup {t}
    BY <1>1, <2>1, AppendIsQueue
  <2> QED
    BY <1>1, <1>2, <2>2, SleepingOpenTask DEF Woken
<1>3. CASE ~Asleep(t)
  BY <1>1, <1>3, SleepingOpenTask DEF Woken
<1> QED
  BY <1>2, <1>3

(* A message for a call or a deadcall.                                     *)
LEMMA MessageQueue ==
    ASSUME QInv, NEW t \in Calls, Message(t)
    PROVE  QInv'
<1>1. /\ TasksOK /\ LoopOK /\ pc = "poll" /\ pc' = pc /\ kind[t] # "none"
      /\ UNCHANGED <<creationMode, created, pass>>
  BY TypeParts DEF QInv, Message
<1>2. miscounted' \in BOOLEAN
  BY <1>1 DEF Message, LoopOK
<1>3. /\ kind \in [Task -> Kind] /\ Queue(run_queue, Alive) /\ CurrentCall \in Int
      /\ created \in 0..StopAfter /\ quitting \in 0..20
      /\ pending \in BOOLEAN /\ resets \in 0..MaxResets /\ t \in Task /\ Alive = Living(kind)
  BY <1>1 DEF TasksOK, Task, Alive, Living
<1>4. TasksOK'
  <2>1. CASE CallRuns(t, Woken(t), kind, CurrentCall)
    <3>1. created' \in 0..StopAfter
      BY <1>1, <1>3
    <3>2. Queue(Woken(t), Living(kind))
      BY <1>1, <1>3, WokenQueue
    <3>3. Asleep(OpenTask) => kind[OpenTask] # "none" /\ OpenTask \notin Range(Woken(t))
      BY <1>1, WokenQueue
    <3> QED
      BY <1>1, <1>3, <2>1, <3>1, <3>2, <3>3, CallRunsQueue
  <2>2. CASE Deleted(t, run_queue) /\ UNCHANGED <<CurrentCall, quitting, pending, resets>>
    <3>1. kind' \in [Task -> Kind] /\ Queue(run_queue', Alive')
      BY <1>3, <2>2, DeletedQueue
    <3> QED
      BY <1>1, <1>3, <2>2, <3>1 DEF TasksOK
  <2>3. CASE /\ Pauses(t, Woken(t))
             /\ UNCHANGED <<kind, CurrentCall, quitting, pending, resets>>
    <3>1. Queue(Woken(t), Alive) /\ t \in Alive
      BY <1>1, WokenQueue
    <3>2. Queue(run_queue', Alive) /\ Alive' = Alive
      BY <2>3, <3>1, PausesQueue DEF Alive
    <3> QED
      BY <1>1, <1>3, <2>3, <3>2 DEF TasksOK
  <2> QED
    BY <2>1, <2>2, <2>3 DEF Message
<1> QED
  BY <1>1, <1>2, <1>4, OutsidePass

(* A message that opens a call.                                            *)
LEMMA NewCallQueue ==
    ASSUME QInv, NEW t \in Calls, NewCall(t)
    PROVE  QInv'
<1>1. /\ TasksOK /\ LoopOK /\ pc = "poll" /\ pc' = pc /\ kind[t] = "none"
      /\ UNCHANGED <<creationMode, pass, miscounted>>
  BY TypeParts DEF QInv, NewCall
<1>2. /\ kind \in [Task -> Kind] /\ Queue(run_queue, Alive) /\ CurrentCall \in Int
      /\ created \in 0..StopAfter /\ quitting \in 0..20
      /\ pending \in BOOLEAN /\ resets \in 0..MaxResets /\ t \in Task
      /\ miscounted' \in BOOLEAN /\ Range(run_queue) \subseteq Alive
  BY <1>1, RangeOf DEF TasksOK, LoopOK, Task, Queue
<1>3. t # OpenTask /\ t \notin Range(run_queue)
  BY <1>1, <1>2, LoopAssumption DEF Alive
<1>4. ASSUME NEW new \in {"call", "auto"}, NEW k, k = [kind EXCEPT ![t] = new],
             NEW n \in Int, CallRuns(t, Append(run_queue, t), k, n),
             created' \in 0..StopAfter
      PROVE  TasksOK'
  <2>1. k \in [Task -> Kind] /\ k[t] # "none"
    BY <1>2, <1>4 DEF Kind
  <2>2. Queue(run_queue, Living(k)) /\ t \in Living(k)
    <3>1. Alive \subseteq Living(k) /\ t \in Living(k)
      BY <1>2, <1>4, <2>1 DEF Alive, Living
    <3> QED
      BY <1>2, <3>1, QueueOfLiving
  <2>3. /\ Queue(Append(run_queue, t), Living(k))
        /\ Range(Append(run_queue, t)) = Range(run_queue) \cup {t}
    BY <1>3, <2>2, AppendIsQueue
  <2>4. Asleep(OpenTask) =>
          k[OpenTask] # "none" /\ OpenTask \notin Range(Append(run_queue, t))
    BY <1>1, <1>2, <1>3, <1>4, <2>3, SleepingOpenTask
  <2> DEFINE q == Append(run_queue, t)
  <2>5. CallRuns(t, q, k, n) /\ Queue(q, Living(k))
        /\ (Asleep(OpenTask) => k[OpenTask] # "none" /\ OpenTask \notin Range(q))
    BY <1>4, <2>3, <2>4
  <2> HIDE DEF q
  <2> QED
    BY <1>2, <1>4, <2>1, <2>5, CallRunsQueue
<1>5. TasksOK'
  <2>1. CASE /\ creationMode = "server" /\ created < StopAfter /\ created' = created + 1
             /\ CallRuns(t, Append(run_queue, t), [kind EXCEPT ![t] = "call"], CurrentCall + 1)
    <3>1. created' \in 0..StopAfter /\ CurrentCall + 1 \in Int
      BY <1>2, <2>1, LoopAssumption
    <3> QED
      BY <1>4, <2>1, <3>1
  <2>2. CASE /\ CallRuns(t, Append(run_queue, t), [kind EXCEPT ![t] = "auto"], CurrentCall)
             /\ UNCHANGED created
    <3>1. created' \in 0..StopAfter
      BY <1>2, <2>2
    <3> QED
      BY <1>2, <1>4, <2>2, <3>1
  <2> QED
    BY <2>1, <2>2 DEF NewCall
<1> QED
  BY <1>1, <1>2, <1>5, OutsidePass

(* Connections that close or break.                                        *)
LEMMA CloseQueue ==
    ASSUME QInv, ConnectionCloses
    PROVE  QInv'
<1>1. /\ TasksOK /\ LoopOK /\ pc = "poll" /\ pc' = pc
      /\ UNCHANGED <<creationMode, quitting, pass, miscounted>>
  BY TypeParts DEF QInv, ConnectionCloses
<1>2. miscounted' \in BOOLEAN /\ pending \in BOOLEAN /\ resets \in 0..MaxResets
  BY <1>1 DEF LoopOK, TasksOK
<1>3. ASSUME NEW S \in (SUBSET (Open \cup Kinds("auto"))) \ {{}},
             CallsEnd(S, run_queue, kind, CurrentCall),
             UNCHANGED <<created, pending, resets>>
      PROVE  QInv'
  <2>1. S \in SUBSET Calls /\ pending' \in BOOLEAN
    BY <1>2, <1>3 DEF Open, Kinds
  <2>2. TasksOK'
    BY <1>1, <1>3, <2>1, EndsQueue
  <2> QED
    BY <1>1, <1>2, <2>2, OutsidePass
<1>4. CASE resets < MaxResets /\ resets' = resets + 1 /\ pending' = TRUE /\ UNCHANGED tasks
  <2>1. resets' \in 0..MaxResets /\ pending' \in BOOLEAN
    BY <1>2, <1>4, LoopAssumption
  <2>2. quitting' \in 0..20
    BY <1>1 DEF TasksOK
  <2> QED
    BY <1>1, <1>2, <1>4, <2>1, <2>2, TasksAlone
<1> QED
  BY <1>3, <1>4 DEF ConnectionCloses

(* No task sleeps at the start, and the loop is at its top.                *)
LEMMA InitQueue == Init => QInv
<1> SUFFICES ASSUME Init PROVE QInv
  OBVIOUS
<1>1. kind \in [Task -> Kind] /\ Report \in Alive
      /\ (creationMode = "client" => OpenTask \in Alive)
  BY LoopAssumption DEF Init, Kind, Alive, Task
<1>2. Queue(run_queue, Alive)
  <2>1. CASE creationMode = "client"
    <3>1. run_queue = <<OpenTask, Report>>
      BY <2>1 DEF Init
    <3> QED
      BY <1>1, <2>1, <3>1, LoopAssumption DEF Queue, IsInjective
  <2>2. CASE creationMode # "client"
    <3>1. run_queue = <<Report>>
      BY <2>2 DEF Init
    <3> QED
      BY <1>1, <3>1 DEF Queue, IsInjective
  <2> QED
    BY <2>1, <2>2
<1>3. /\ creationMode \in Modes
      /\ CurrentCall = 0 /\ created = 0 /\ quitting = 0
      /\ pending = FALSE /\ resets = 0 /\ miscounted = FALSE
      /\ pc = "top" /\ iter = NoTask /\ last = NoTask /\ loops = 0
  BY DEF Init
<1>4. /\ 0 \in 0..StopAfter /\ 0 \in 0..MaxResets /\ 0 \in 0..MaxSchedLoops
      /\ 0 \in 0..20 /\ 0 \in Nat /\ 0 \in Int
  BY LoopAssumption
<1>5. TasksOK
  BY <1>1, <1>2, <1>3, <1>4 DEF TasksOK
<1>6. LoopOK /\ Position
  BY <1>3, <1>4 DEF LoopOK, Position
<1>7. resets \in 0..MaxResets /\ pending \in BOOLEAN /\ miscounted \in BOOLEAN
  BY <1>3, <1>4
<1> QED
  BY <1>5, <1>6, <1>7, TypeParts DEF QInv

(* Every step keeps the queue, and the iterator in it.                     *)
LEMMA NextQueue == QInv /\ [Next]_vars => QInv'
<1> SUFFICES ASSUME QInv, [Next]_vars PROVE QInv'
  OBVIOUS
<1>1. /\ TasksOK /\ LoopOK /\ quitting \in 0..20 /\ pending \in BOOLEAN
      /\ resets \in 0..MaxResets /\ miscounted \in BOOLEAN
  BY TypeParts DEF QInv, TasksOK, LoopOK
<1>2. CASE Top
  <2>1. TasksOK'
    BY <1>1, <1>2, ResetQueue DEF Top
  <2> QED
    BY <1>1, <1>2, <2>1, OutsidePass DEF Top
<1>3. CASE Quit
  <2>1. TasksOK'
    BY <1>1, <1>3, QuitQueue
  <2>2. miscounted' \in BOOLEAN /\ pc' \in {"exited", "expire"} /\ pc = "quit"
        /\ UNCHANGED <<creationMode, pass>>
    BY <1>1, <1>3 DEF Quit
  <2> QED
    BY <2>1, <2>2, OutsidePass
<1>4. CASE Expire
  BY <1>4, ExpireQueue
<1>5. CASE Body
  BY <1>5, BodyQueue
<1>6. CASE Final
  BY <1>6, FinalQueue
<1>7. CASE After
  <2>1. TasksOK'
    BY <1>1, <1>7, ResetQueue DEF After
  <2> QED
    BY <1>1, <1>7, <2>1, OutsidePass DEF After
<1>8. CASE EndPoll
  <2>1. TasksOK'
    BY <1>1, <1>8 DEF EndPoll, TasksOK, tasks, Alive
  <2> QED
    BY <1>1, <1>8, <2>1, OutsidePass DEF EndPoll
<1>9. ASSUME NEW t \in Calls, Message(t) \/ NewCall(t) PROVE QInv'
  BY <1>9, MessageQueue, NewCallQueue
<1>10. CASE ConnectionCloses
  BY <1>10, CloseQueue
<1>11. ASSUME NEW m \in {10, 20}, Key(m) PROVE QInv'
  <2>1. quitting' \in 0..20
    BY <1>1, <1>11 DEF Key, Pressed
  <2> QED
    BY <1>1, <1>11, <2>1, TasksAlone DEF Key
<1>12. CASE Signal
  <2>1. quitting' \in 0..20
    BY <1>1, <1>12 DEF Signal, Pressed
  <2> QED
    BY <1>1, <1>12, <2>1, TasksAlone DEF Signal
<1>13. CASE UNCHANGED vars
  BY <1>1, <1>13, TasksAlone DEF vars
<1> QED
  BY <1>2, <1>3, <1>4, <1>5, <1>6, <1>7, <1>8, <1>9, <1>10, <1>11, <1>12, <1>13
  DEF Next, Loop, Event

(* TypeOK: the run queue holds tasks that live, each once, and the loop's  *)
(* iterator is at one of them, although the task that runs may delete      *)
(* itself, wake others, open calls and break connections meanwhile.        *)
THEOREM QueueTypes == Spec => []TypeOK
<1>1. QInv => TypeOK
  BY DEF QInv
<1> QED
  BY <1>1, InitQueue, NextQueue, PTL DEF Spec

(* The iterator is one task ahead of the task that runs: the loop never    *)
(* goes on from a task that has deleted itself.                            *)
THEOREM OneTaskAhead == Spec => []Position
<1>1. QInv => Position
  BY DEF QInv
<1> QED
  BY <1>1, InitQueue, NextQueue, PTL DEF Spec
=============================================================================
