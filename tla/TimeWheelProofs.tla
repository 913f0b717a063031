-------------------------- MODULE TimeWheelProofs --------------------------
(***************************************************************************)
(* Proofs about the timing wheel of task.cpp, for wheels of any size and   *)
(* any finite set of tasks.                                                *)
(***************************************************************************)
EXTENDS TimeWheel, TLAPS, FiniteSetTheorems

(***************************************************************************)
(* Arithmetic of the slots.                                                *)
(***************************************************************************)
(* Quotient and remainder, which the slots of the wheels are made of.      *)
LEMMA DivFacts ==
    ASSUME NEW a \in Nat, NEW n \in Nat \ {0}
    PROVE  /\ a \div n \in Nat
           /\ a % n \in 0..n-1
           /\ a = n * (a \div n) + (a % n)
BY SMT

(* A later time is in a block that is not earlier.                         *)
LEMMA DivMonotone ==
    ASSUME NEW a \in Nat, NEW b \in Nat, a <= b, NEW n \in Nat \ {0}
    PROVE  a \div n <= b \div n
BY SMT

(* One more millisecond starts a new block exactly when its remainder is   *)
(* 0.                                                                      *)
LEMMA DivSuccessor ==
    ASSUME NEW a \in Nat, NEW n \in Nat \ {0}
    PROVE  /\ (a + 1) % n # 0 => (a + 1) \div n = a \div n
           /\ (a + 1) % n = 0 => (a + 1) \div n = a \div n + 1
BY SMT

(* The quotient is bounded when the number is.                             *)
LEMMA DivBound ==
    ASSUME NEW a \in Nat, NEW n \in Nat \ {0}, NEW m \in Nat, a < n * m
    PROVE  a \div n < m
BY SMT

(* The blocks of a time are natural numbers.                               *)
LEMMA BlockType ==
    ASSUME NEW w \in Nat
    PROVE  Block1(w) \in Nat /\ Block2(w) \in Nat
BY DivFacts, SlotsAssumption DEF Block1, Block2

(* Blocks grow with the time, on both levels.                              *)
LEMMA BlockMonotone ==
    ASSUME NEW v \in Nat, NEW w \in Nat, v <= w
    PROVE  Block1(v) <= Block1(w) /\ Block2(v) <= Block2(w)
BY BlockType, DivMonotone, SlotsAssumption DEF Block1, Block2

(* The blocks of the next millisecond.                                     *)
LEMMA BlockSuccessor ==
    ASSUME NEW b \in Nat
    PROVE  /\ (b + 1) % L1 # 0 => Block1(b + 1) = Block1(b)
           /\ (b + 1) % L1 = 0 => Block1(b + 1) = Block1(b) + 1
           /\ Block2(b + 1) # Block2(b) =>
                 /\ (b + 1) % L1 = 0
                 /\ Block1(b + 1) % L2 = 0
                 /\ Block2(b + 1) = Block2(b) + 1
<1>1. /\ (b + 1) % L1 # 0 => Block1(b + 1) = Block1(b)
      /\ (b + 1) % L1 = 0 => Block1(b + 1) = Block1(b) + 1
  BY DivSuccessor, SlotsAssumption DEF Block1
<1>2. ASSUME Block2(b + 1) # Block2(b)
      PROVE  /\ (b + 1) % L1 = 0
             /\ Block1(b + 1) % L2 = 0
             /\ Block2(b + 1) = Block2(b) + 1
  <2>1. (b + 1) % L1 = 0
    BY <1>1, <1>2 DEF Block2
  <2>2. Block1(b + 1) = Block1(b) + 1
    BY <1>1, <2>1
  <2>3. Block1(b) \in Nat
    BY BlockType
  <2> QED
    BY <1>2, <2>1, <2>2, <2>3, DivSuccessor, SlotsAssumption DEF Block2
<1> QED
  BY <1>1, <1>2

(* A time within MaxTick has its slot on wheel_three: the assertion slot3  *)
(* < LEVEL_THREE_SLOTS of expire_paused_tasks.                             *)
LEMMA TopBlockBound ==
    ASSUME NEW w \in 0..MaxTick
    PROVE  Block2(w) \in 0..L3-1
<1>1. w < L1 * (L2 * L3)
  BY SlotsAssumption, TickAssumption
<1>2. Block1(w) < L2 * L3
  BY <1>1, DivBound, SlotsAssumption, L2 * L3 \in Nat DEF Block1
<1>3. Block2(w) < L3
  BY <1>2, DivBound, BlockType, SlotsAssumption DEF Block2
<1> QED
  BY <1>3, BlockType, SlotsAssumption, TickAssumption

(* Two times of the same block and the same slot of wheel_one are equal.   *)
LEMMA SameSlot ==
    ASSUME NEW v \in Nat, NEW w \in Nat,
           Block1(v) = Block1(w), v % L1 = w % L1
    PROVE  v = w
BY DivFacts, SlotsAssumption DEF Block1

(* The slots of wheel_one and wheel_two are within their arrays.           *)
LEMMA SlotTypes ==
    ASSUME NEW w \in 0..MaxTick
    PROVE  /\ w % L1 \in 0..L1-1
           /\ Block1(w) % L2 \in 0..L2-1
<1>1. w \in Nat /\ Block1(w) \in Nat
  BY BlockType, TickAssumption
<1>2. w % L1 \in 0..L1-1
  BY <1>1, DivFacts, SlotsAssumption
<1>3. Block1(w) % L2 \in 0..L2-1
  BY <1>1, DivFacts, SlotsAssumption
<1> QED
  BY <1>2, <1>3

(* task2list() returns one of the lists of the wheel.                      *)
LEMMA ListType ==
    ASSUME NEW w \in 0..MaxTick, NEW b \in 0..MaxTick
    PROVE  task2list(w, b) \in List
BY SlotTypes, TopBlockBound
   DEF task2list, List, WheelOne, WheelTwo, WheelThree

(***************************************************************************)
(* The inductive invariant.                                                *)
(***************************************************************************)
Counted == CountNotBelow /\ (Fickle = {} => CountExact)

IInv == /\ TypeOK
        /\ Placement
        /\ Counted
        /\ NotOverslept
        /\ RightSlot
        /\ wheel_base <= clock_tick

(* The tasks that the slot of this base must wake.                         *)
DueNow == {t \in Paused : wake[t] # 0 /\ wake[t] = wheel_base}

(* Where a sleeper that is not late is after the migration.                *)
NewPlace(t) == IF t \in Moved THEN NewList(t) ELSE pauselist[t]

(* The tasks that the turn wakes.                                          *)
Woken == Late \cup Due

(* What moves is what sleeps in the lists that are emptied; only Fickle    *)
(* tasks are late; after the migration every other sleeper is in one list, *)
(* which is the one for its wake-up time unless the task is Fickle.        *)
LEMMA MigrationSettles ==
    ASSUME IInv
    PROVE  /\ Moved \subseteq Paused
           /\ Late \subseteq Moved \cap Fickle
           /\ \A l \in List : Migrated(l) = {t \in Paused \ Late : NewPlace(t) = l}
           /\ \A t \in Paused \ Fickle : NewPlace(t) = NewList(t)
<1> USE DEF IInv
<1>1. Moved = {t \in Paused : pauselist[t] \in Migrating}
  BY DEF Moved, Migrating, Placement, TypeOK, Paused
<1>2. Late \subseteq Moved \cap Fickle
  BY <1>1 DEF Late, IsLate, NotOverslept, TypeOK, Paused
<1>3. ASSUME NEW t \in Paused \ Fickle, pauselist[t] \notin Migrating
      PROVE  pauselist[t] = NewList(t)
  <2>1. pauselist[t] \in List /\ SlotFor(t)
    BY DEF RightSlot, TypeOK, Paused
  <2> QED
    BY <1>3, <2>1 DEF SlotFor, Migrating, NewList
<1>4. ASSUME NEW l \in List
      PROVE  Migrated(l) = {t \in Paused \ Late : NewPlace(t) = l}
  <2>1. \A t : t \in wheel[l] <=> t \in Paused /\ pauselist[t] = l
    BY DEF Placement, TypeOK, Paused
  <2>2. CASE l \in Migrating
    <3>1. Migrated(l) = {t \in Moved \ Late : NewList(t) = l}
      BY <2>2 DEF Migrated
    <3> QED
      BY <1>1, <2>2, <3>1 DEF NewPlace
  <2>3. CASE l \notin Migrating
    <3>1. Migrated(l) = wheel[l] \cup {t \in Moved \ Late : NewList(t) = l}
      BY <2>3 DEF Migrated
    <3> QED
      BY <1>1, <1>2, <2>1, <2>3, <3>1 DEF NewPlace
  <2> QED
    BY <2>2, <2>3
<1>5. \A t \in Paused \ Fickle : NewPlace(t) = NewList(t)
  BY <1>1, <1>3 DEF NewPlace
<1> QED
  BY <1>1, <1>2, <1>4, <1>5

(* The slot that expires holds, beside Fickle tasks, exactly the tasks due *)
(* at the base.                                                            *)
LEMMA SlotIsDue ==
    ASSUME IInv
    PROVE  /\ Due = {t \in Paused \ Late : NewPlace(t) = Slot1}
           /\ Due \ Fickle = DueNow \ Fickle
<1> USE DEF IInv
<1>1. wheel_base \in 0..MaxTick /\ wheel_base \in Nat
  BY TickAssumption DEF TypeOK
<1>2. Slot1 \in List
  BY <1>1, SlotTypes DEF Slot1, List
<1>3. Due = {t \in Paused \ Late : NewPlace(t) = Slot1}
  BY <1>2, MigrationSettles DEF Due
<1>4. ASSUME NEW t \in Paused
      PROVE  NewList(t) = Slot1 <=> wake[t] # 0 /\ wake[t] = wheel_base
  <2>1. wake[t] \in Nat
    BY TickAssumption DEF TypeOK, Paused
  <2>2. ASSUME NewList(t) = Slot1
        PROVE  wake[t] # 0 /\ wake[t] = wheel_base
    <3>1. /\ wake[t] # 0
          /\ Block1(wake[t]) = Block1(wheel_base)
          /\ wake[t] % L1 = wheel_base % L1
      BY <2>2 DEF NewList, Slot1, task2list, Forever, WheelOne, WheelTwo, WheelThree
    <3> QED
      BY <1>1, <2>1, <3>1, SameSlot
  <2>3. ASSUME wake[t] # 0, wake[t] = wheel_base
        PROVE  NewList(t) = Slot1
    BY <2>3 DEF NewList, Slot1, task2list
  <2> QED
    BY <2>2, <2>3
<1>5. \A t \in Paused \ Fickle : t \notin Late /\ NewPlace(t) = NewList(t)
  BY MigrationSettles
<1> QED
  BY <1>3, <1>4, <1>5 DEF DueNow

(* A list that was right at base b is still right at b + 1, or is one of   *)
(* the lists that the turn for b + 1 empties.                              *)
LEMMA SlotAdvance ==
    ASSUME NEW w \in Nat, NEW b \in Nat, w # 0, b + 1 <= w,
           NEW l, l = task2list(w, b)
    PROVE  \/ l = task2list(w, b + 1)
           \/ /\ (b + 1) % L1 = 0
              /\ l = WheelTwo(Block1(b + 1) % L2)
              /\ Block1(w) = Block1(b + 1)
           \/ /\ (b + 1) % L1 = 0
              /\ Block1(b + 1) % L2 = 0
              /\ l = WheelThree(Block2(b + 1))
              /\ Block2(w) = Block2(b + 1)
<1>1. /\ Block1(b) \in Nat /\ Block2(b) \in Nat
      /\ Block1(w) \in Nat /\ Block2(w) \in Nat
      /\ Block1(b + 1) \in Nat /\ Block2(b + 1) \in Nat
  BY BlockType
<1>2. /\ Block1(b) <= Block1(b + 1) /\ Block2(b) <= Block2(b + 1)
      /\ Block1(b + 1) <= Block1(w) /\ Block2(b + 1) <= Block2(w)
  BY BlockMonotone
<1>3. CASE Block1(b + 1) = Block1(b)
  <2>1. Block2(b + 1) = Block2(b)
    BY <1>3 DEF Block2
  <2> QED
    BY <1>3, <2>1 DEF task2list
<1>4. CASE Block1(b + 1) # Block1(b)
  <2>1. (b + 1) % L1 = 0 /\ Block1(w) # Block1(b)
    BY <1>1, <1>2, <1>4, BlockSuccessor
  <2>2. CASE Block2(w) = Block2(b)
    <3>1. l = WheelTwo(Block1(w) % L2) /\ Block2(b + 1) = Block2(w)
      BY <1>1, <1>2, <2>1, <2>2 DEF task2list
    <3> QED
      BY <2>1, <3>1 DEF task2list
  <2>3. CASE Block2(w) # Block2(b)
    <3>1. l = WheelThree(Block2(w))
      BY <2>1, <2>3 DEF task2list
    <3>2. CASE Block2(b + 1) = Block2(b)
      <4>1. Block1(w) # Block1(b + 1)
        BY <2>3, <3>2 DEF Block2
      <4> QED
        BY <2>3, <3>1, <3>2, <4>1 DEF task2list
    <3>3. CASE Block2(b + 1) # Block2(b)
      <4>1. Block1(b + 1) % L2 = 0
        BY <3>3, BlockSuccessor
      <4>2. Block2(w) # Block2(b + 1) => Block1(w) # Block1(b + 1)
        BY DEF Block2
      <4> QED
        BY <2>1, <3>1, <4>1, <4>2 DEF task2list
    <3> QED
      BY <3>2, <3>3
  <2> QED
    BY <2>2, <2>3
<1> QED
  BY <1>3, <1>4

(***************************************************************************)
(* Counting the sleepers.                                                  *)
(***************************************************************************)
(* There are finitely many sleepers, so they can be counted.               *)
LEMMA FiniteTasks ==
    ASSUME TypeOK
    PROVE  /\ IsFiniteSet(Paused)
           /\ Cardinality(Paused) \in Nat
<1>1. Paused \in SUBSET Task /\ IsFiniteSet(Task)
  BY TaskAssumption DEF TypeOK, Paused
<1> QED
  BY <1>1, FS_Subset, FS_CardinalityType

(* Taking some sleepers away takes their number off the count.             *)
LEMMA CardinalityMinus ==
    ASSUME NEW S, IsFiniteSet(S), NEW T, T \subseteq S
    PROVE  Cardinality(S \ T) = Cardinality(S) - Cardinality(T)
<1>1. S \cap T = T
  OBVIOUS
<1> QED
  BY ZenonT(60), <1>1, FS_Difference, FS_CardinalityType, FS_Subset

(* One sleeper less, one off the count.                                    *)
LEMMA CountDown ==
    ASSUME TypeOK, Counted, NEW t \in Paused,
           Paused' = Paused \ {t}, count' = count - 1
    PROVE  Counted'
<1>1. Cardinality(Paused') = Cardinality(Paused) - 1
  BY FiniteTasks, FS_RemoveElement
<1> QED
  BY <1>1, FiniteTasks DEF Counted, CountNotBelow, CountExact, TypeOK

(* The empty wheel satisfies the invariant.                                *)
LEMMA InitInv == Init => IInv
<1> SUFFICES ASSUME Init PROVE IInv
  OBVIOUS
<1>1. TypeOK
  <2>1. Forever \in List
    BY DEF List
  <2>2. pauselist \in [Task -> List] /\ wheel \in [List -> SUBSET Task]
    BY <2>1 DEF Init
  <2>3. wake \in [Task -> 0..MaxTick]
    BY TickAssumption DEF Init
  <2>4. count \in Int /\ wheel_base \in 0..MaxTick /\ clock_tick \in 0..MaxTick
    BY TickAssumption DEF Init
  <2>5. /\ all_tasks \in SUBSET Task
        /\ running_tasks \in SUBSET all_tasks
        /\ expiring \in BOOLEAN
    BY DEF Init
  <2> QED
    BY <2>2, <2>3, <2>4, <2>5 DEF TypeOK
<1>2. Paused = {}
  BY DEF Init, Paused
<1>3. Counted
  BY <1>2, FS_EmptySet DEF Init, Counted, CountNotBelow, CountExact
<1> QED
  BY <1>1, <1>2, <1>3 DEF Init, IInv, Placement, NotOverslept, RightSlot

(* The conjuncts about where sleepers are depend on nothing but the        *)
(* sleepers, their lists, their wake-up times and the base.                *)
LEMMA SleepersShrink ==
    ASSUME IInv, Paused' \subseteq Paused, wheel_base' = wheel_base,
           \A t \in Paused' \ Fickle :
              wake'[t] = wake[t] /\ pauselist'[t] = pauselist[t]
    PROVE  NotOverslept' /\ RightSlot'
BY DEF IInv, NotOverslept, RightSlot, SlotFor, task2list, Block1, Block2

(* task() keeps the invariant: a new task does not sleep.                  *)
LEMMA CreateInv ==
    ASSUME IInv, NEW t \in Task, Create(t)
    PROVE  IInv'
<1> USE DEF IInv, Create
<1>1. Paused' = Paused
  BY DEF Paused, TypeOK
<1>2. TypeOK'
  BY DEF TypeOK
<1>3. Placement' /\ Counted'
  BY <1>1 DEF Placement, Counted, CountNotBelow, CountExact
<1> QED
  BY <1>1, <1>2, <1>3, SleepersShrink

(* ~task() keeps it: a deleted sleeper leaves its list and the count.      *)
LEMMA DeleteInv ==
    ASSUME IInv, NEW t \in Task, Delete(t)
    PROVE  IInv'
<1> USE DEF IInv, Delete
<1>1. TypeOK'
  BY DEF TypeOK, remove_paused_task
<1>2. CASE t \in running_tasks
  <2>1. Paused' = Paused
    BY <1>2 DEF Paused, TypeOK
  <2>2. Placement' /\ Counted'
    BY <1>2, <2>1 DEF Placement, Counted, CountNotBelow, CountExact
  <2> QED
    BY <1>1, <2>1, <2>2, SleepersShrink
<1>3. CASE t \notin running_tasks
  <2>1. Paused' = Paused \ {t} /\ t \in Paused
    BY <1>3 DEF Paused, TypeOK
  <2>2. Placement'
    BY <1>3, <2>1 DEF Placement, TypeOK, remove_paused_task
  <2>3. Counted'
    BY <1>3, <2>1, CountDown DEF remove_paused_task
  <2> QED
    BY <1>1, <2>1, <2>2, <2>3, SleepersShrink
<1> QED
  BY <1>2, <1>3

(* abort_all_tasks() keeps it: the wheel is empty afterwards.              *)
LEMMA AbortAllInv ==
    ASSUME IInv, AbortAllTasks
    PROVE  IInv'
<1> USE DEF IInv, AbortAllTasks
<1>1. Paused' = {}
  BY DEF Paused
<1>2. TypeOK'
  BY FiniteTasks DEF TypeOK
<1>3. Placement'
  BY <1>1 DEF Placement, TypeOK
<1>4. Counted'
  <2>1. Cardinality(Paused') = 0
    BY <1>1, FS_EmptySet
  <2> QED
    BY <2>1, FiniteTasks DEF Counted, CountNotBelow, CountExact, TypeOK
<1> QED
  BY <1>1, <1>2, <1>3, <1>4, SleepersShrink

(* setRunning() keeps it: the sleeper leaves its list and the count.       *)
LEMMA SetRunningInv ==
    ASSUME IInv, NEW t \in Task, SetRunning(t)
    PROVE  IInv'
<1> USE DEF IInv, SetRunning
<1>1. Paused' = Paused \ {t} /\ t \in Paused
  BY DEF Paused, TypeOK
<1>2. TypeOK'
  BY DEF TypeOK, remove_paused_task, Paused
<1>3. Placement'
  BY <1>1 DEF Placement, TypeOK, remove_paused_task
<1>4. Counted'
  BY <1>1, CountDown DEF remove_paused_task
<1> QED
  BY <1>1, <1>2, <1>3, <1>4, SleepersShrink

(* setPaused() keeps it, for a running task and for a sleeper.             *)
LEMMA SetPausedInv ==
    ASSUME IInv, NEW t \in Task, NEW w \in 0..MaxTick, SetPaused(t, w)
    PROVE  IInv'
<1> DEFINE l == task2list(w, wheel_base)
           was == IF t \in running_tasks
                    THEN wheel
                    ELSE [wheel EXCEPT ![pauselist[t]] = @ \ {t}]
           cnt == IF t \in running_tasks THEN count ELSE count - 1
<1> USE DEF IInv
<1>1. l \in List
  BY ListType DEF TypeOK
<1>2. /\ was \in [List -> SUBSET Task]
      /\ \A u \in Task, m \in List :
            u \in was[m] <=> u \in Paused \ {t} /\ pauselist[u] = m
      /\ cnt \in Int
      /\ cnt >= Cardinality(Paused \ {t})
      /\ Fickle = {} => cnt = Cardinality(Paused \ {t})
  <2>1. CASE t \in running_tasks
    <3>1. t \notin Paused /\ Paused \ {t} = Paused
      BY <2>1 DEF Paused
    <3> QED
      BY <2>1, <3>1, FiniteTasks DEF TypeOK, Placement, Counted, CountNotBelow, CountExact
  <2>2. CASE t \notin running_tasks
    <3>1. t \in Paused
      BY <2>2 DEF Paused, SetPaused
    <3>2. /\ cnt \in Int
          /\ cnt >= Cardinality(Paused \ {t})
          /\ Fickle = {} => cnt = Cardinality(Paused \ {t})
      <4>1. Cardinality(Paused \ {t}) = Cardinality(Paused) - 1
        BY <3>1, FiniteTasks, FS_RemoveElement
      <4> QED
        BY <2>2, <4>1, FiniteTasks DEF Counted, CountNotBelow, CountExact, TypeOK
    <3> QED
      BY <2>2, <3>1, <3>2 DEF TypeOK, Placement
  <2> QED
    BY <2>1, <2>2
<1>3. wake' = [wake EXCEPT ![t] = w] /\ UNCHANGED <<all_tasks, wheel_base, clock_tick, expiring>>
  BY DEF SetPaused
<1>4. CASE IsLate(w, wheel_base)
  <2>1. /\ running_tasks' = running_tasks \cup {t} /\ wheel' = was
        /\ count' = cnt /\ pauselist' = pauselist
    BY <1>4 DEF SetPaused
  <2>2. Paused' = Paused \ {t}
    BY <1>3, <2>1 DEF Paused, SetPaused
  <2>3. TypeOK'
    BY <1>2, <1>3, <2>1 DEF TypeOK, SetPaused
  <2>4. Placement' /\ Counted'
    BY <1>2, <2>1, <2>2 DEF Placement, Counted, CountNotBelow, CountExact
  <2>5. \A u \in Paused' : wake'[u] = wake[u] /\ pauselist'[u] = pauselist[u]
    BY <1>3, <2>1, <2>2 DEF TypeOK, Paused
  <2>6. NotOverslept' /\ RightSlot'
    BY <1>3, <2>2, <2>5, SleepersShrink
  <2> QED
    BY <1>3, <2>3, <2>4, <2>6
<1>5. CASE ~IsLate(w, wheel_base)
  <2>1. /\ running_tasks' = running_tasks \ {t}
        /\ wheel' = [was EXCEPT ![l] = @ \cup {t}]
        /\ pauselist' = [pauselist EXCEPT ![t] = l]
        /\ count' = cnt + 1
    BY <1>5 DEF SetPaused
  <2>2. Paused' = (Paused \ {t}) \cup {t}
    BY <1>3, <2>1 DEF Paused, SetPaused
  <2>3. TypeOK'
    <3>1. wheel' \in [List -> SUBSET Task] /\ pauselist' \in [Task -> List]
      BY <1>1, <1>2, <2>1 DEF TypeOK
    <3>2. wake' \in [Task -> 0..MaxTick] /\ count' \in Int
      BY <1>2, <1>3, <2>1 DEF TypeOK
    <3> QED
      BY <1>3, <2>1, <3>1, <3>2 DEF TypeOK
  <2>4. Placement'
    BY <1>1, <1>2, <2>1, <2>2 DEF Placement, TypeOK
  <2>5. Counted'
    <3>1. IsFiniteSet(Paused \ {t}) /\ Cardinality(Paused \ {t}) \in Nat
      BY FiniteTasks, FS_RemoveElement, FS_CardinalityType
    <3>2. Cardinality((Paused \ {t}) \cup {t}) = Cardinality(Paused \ {t}) + 1
      BY <3>1, FS_AddElement
    <3> QED
      BY <1>2, <2>1, <2>2, <3>1, <3>2 DEF Counted, CountNotBelow, CountExact
  <2>6. ASSUME NEW u \in Paused' \ Fickle
        PROVE  /\ wake'[u] # 0 => wake'[u] >= wheel_base'
               /\ SlotFor(u)'
    <3>1. CASE u = t
      <4>1. wake'[u] = w /\ pauselist'[u] = l
        BY <1>3, <2>1, <3>1 DEF TypeOK
      <4>2. SlotFor(u)'
        BY <1>3, <4>1 DEF SlotFor, task2list, Block1, Block2
      <4>3. wheel_base \in Nat /\ w \in Nat
        BY TickAssumption DEF TypeOK
      <4> QED
        BY <1>3, <1>5, <4>1, <4>2, <4>3 DEF IsLate
    <3>2. CASE u # t
      <4>1. u \in Paused /\ wake'[u] = wake[u] /\ pauselist'[u] = pauselist[u]
        BY <1>3, <2>1, <2>2, <3>2 DEF TypeOK, Paused
      <4> QED
        BY <1>3, <4>1 DEF NotOverslept, RightSlot, SlotFor, task2list, Block1, Block2
    <3> QED
      BY <3>1, <3>2
  <2> QED
    BY <1>3, <2>3, <2>4, <2>5, <2>6 DEF NotOverslept, RightSlot
<1> QED
  BY <1>4, <1>5

(* The clock does not touch the wheel.                                     *)
LEMMA TickInv ==
    ASSUME IInv, NEW now \in 0..MaxTick, Tick(now)
    PROVE  IInv'
<1> USE DEF IInv, Tick
<1>1. Paused' = Paused
  BY DEF Paused
<1>2. TypeOK' /\ wheel_base' <= clock_tick'
  BY TickAssumption DEF TypeOK
<1>3. Placement' /\ Counted'
  BY <1>1 DEF Placement, Counted, CountNotBelow, CountExact
<1> QED
  BY <1>1, <1>2, <1>3, SleepersShrink

(* A turn of expire_paused_tasks() keeps it: the sleepers that are left    *)
(* are those not woken, each in its list for the next base.                *)
LEMMA ExpireInv ==
    ASSUME IInv, ExpireSlot
    PROVE  IInv'
<1> USE DEF IInv
<1>1. /\ running_tasks' = running_tasks \cup Woken
      /\ wheel' = [l \in List |-> IF l = Slot1 THEN {} ELSE Migrated(l)]
      /\ count' = count - Cardinality(Due)
      /\ wheel_base' = wheel_base + 1
      /\ UNCHANGED <<all_tasks, clock_tick, wake>>
  BY DEF ExpireSlot, Woken
<1>2. /\ Woken \subseteq Paused
      /\ Paused' = Paused \ Woken
      /\ Woken \ Fickle = DueNow \ Fickle
  <2>1. Woken \subseteq Paused /\ Woken \ Fickle = DueNow \ Fickle
    BY MigrationSettles, SlotIsDue DEF Woken
  <2> QED
    BY <1>1, <2>1 DEF Paused
<1>3. \A t \in Paused \ Late : pauselist'[t] = NewPlace(t)
  BY MigrationSettles DEF ExpireSlot, TypeOK, Paused, NewPlace
<1>5. TypeOK'
  <2>1. pauselist' \in [Task -> List]
    <3>1. \A t \in Task : NewList(t) \in List
      BY ListType DEF NewList, TypeOK
    <3> QED
      BY <3>1 DEF ExpireSlot, TypeOK
  <2>2. wheel' \in [List -> SUBSET Task]
    BY <1>1, MigrationSettles DEF TypeOK, Paused
  <2>3. wheel_base' \in 0..MaxTick /\ expiring' \in BOOLEAN
    BY TickAssumption DEF ExpireSlot, TypeOK
  <2>4. count' \in Int
    <3>1. Due \subseteq Paused
      BY SlotIsDue
    <3> QED
      BY <1>1, <3>1, FiniteTasks, FS_Subset, FS_CardinalityType DEF TypeOK
  <2>5. running_tasks' \in SUBSET all_tasks'
    BY <1>1, <1>2 DEF Paused, TypeOK
  <2> QED
    BY <1>1, <2>1, <2>2, <2>3, <2>4, <2>5 DEF TypeOK
<1>6. Placement'
  <2> SUFFICES ASSUME NEW t \in Task, NEW l \in List
               PROVE  t \in wheel'[l] <=> t \in Paused' /\ pauselist'[t] = l
    BY DEF Placement
  <2>1. CASE l = Slot1
    BY <1>1, <1>2, <1>3, <2>1, SlotIsDue DEF Woken
  <2>2. CASE l # Slot1
    <3>1. wheel'[l] = {u \in Paused \ Late : NewPlace(u) = l}
      BY <1>1, <2>2, MigrationSettles
    <3> QED
      BY <1>2, <1>3, <2>2, <3>1, SlotIsDue DEF Woken
  <2> QED
    BY <2>1, <2>2
<1>7. Counted'
  <2>1. /\ Due \subseteq Paused
        /\ IsFiniteSet(Paused \ Due)
        /\ Cardinality(Paused \ Due) = Cardinality(Paused) - Cardinality(Due)
        /\ Cardinality(Due) \in Nat
        /\ Cardinality(Paused \ Due) \in Nat
    BY FiniteTasks, CardinalityMinus, SlotIsDue, FS_Subset, FS_CardinalityType
  <2>2. Cardinality(Paused') <= Cardinality(Paused \ Due) /\ Cardinality(Paused') \in Nat
    <3>1. Paused' \subseteq Paused \ Due
      BY <1>2 DEF Woken
    <3> QED
      BY <2>1, <3>1, FS_Subset, FS_CardinalityType
  <2>3. CountNotBelow'
    BY <1>1, <2>1, <2>2, FiniteTasks DEF Counted, CountNotBelow, TypeOK
  <2>4. ASSUME Fickle = {}
        PROVE  CountExact'
    <3>1. Paused' = Paused \ Due
      BY <1>2, <2>4, MigrationSettles DEF Woken
    <3> QED
      BY <1>1, <2>1, <2>4, <3>1, FiniteTasks DEF Counted, CountExact
  <2> QED
    BY <2>3, <2>4 DEF Counted
<1>8. ASSUME NEW t \in Paused' \ Fickle
      PROVE  /\ wake'[t] # 0 => wake'[t] >= wheel_base'
             /\ SlotFor(t)'
  <2>1. /\ t \in Paused /\ wake'[t] = wake[t] /\ wake[t] \in Nat
        /\ wheel_base \in Nat
        /\ pauselist'[t] = task2list(wake[t], wheel_base)
    <3>1. t \in Paused /\ t \notin Late
      BY <1>2, MigrationSettles
    <3>2. pauselist'[t] = NewList(t)
      BY <1>3, <3>1, MigrationSettles
    <3> QED
      BY <1>1, <3>1, <3>2, TickAssumption DEF TypeOK, Paused, NewList
  <2>2. CASE wake[t] = 0
    BY <2>1, <2>2 DEF SlotFor, task2list
  <2>3. CASE wake[t] # 0
    <3>1. wheel_base + 1 <= wake[t]
      BY <1>2, <2>1, <2>3 DEF NotOverslept, DueNow
    <3>2. SlotFor(t)'
      BY <1>1, <2>1, <2>3, <3>1, SlotAdvance DEF SlotFor, task2list, Block1, Block2
    <3> QED
      BY <1>1, <2>1, <3>1, <3>2
  <2> QED
    BY <2>2, <2>3
<1> QED
  <2>1. wheel_base' <= clock_tick'
    BY <1>1, TickAssumption DEF ExpireSlot, TypeOK
  <2> QED
    BY <1>5, <1>6, <1>7, <1>8, <2>1 DEF NotOverslept, RightSlot

(* A change of wake() during the sleep of a Fickle task touches nothing    *)
(* that is claimed of it.                                                  *)
LEMMA WakeChangesInv ==
    ASSUME IInv, NEW t \in Task, NEW w \in 0..MaxTick, WakeChanges(t, w)
    PROVE  IInv'
<1> USE DEF IInv, WakeChanges
<1>1. Paused' = Paused
  BY DEF Paused
<1>2. TypeOK'
  BY DEF TypeOK
<1>3. Placement' /\ Counted'
  BY <1>1 DEF Placement, Counted, CountNotBelow, CountExact
<1>4. \A u \in Paused' \ Fickle : wake'[u] = wake[u] /\ pauselist'[u] = pauselist[u]
  BY DEF TypeOK
<1> QED
  BY <1>1, <1>2, <1>3, <1>4, SleepersShrink

(* Every step keeps the invariant.                                         *)
LEMMA NextInv ==
    ASSUME IInv, [Next]_vars
    PROVE  IInv'
<1>1. CASE UNCHANGED vars
  BY <1>1 DEF vars, IInv, TypeOK, Placement, Counted, CountNotBelow, CountExact,
              NotOverslept, RightSlot,
              SlotFor, Paused, task2list, Block1, Block2
<1>2. ASSUME NEW t \in Task, Create(t) \/ Delete(t) \/ SetRunning(t)
      PROVE  IInv'
  BY <1>2, CreateInv, DeleteInv, SetRunningInv
<1>3. ASSUME NEW t \in Task, NEW w \in 0..MaxTick, SetPaused(t, w) \/ WakeChanges(t, w)
      PROVE  IInv'
  BY <1>3, SetPausedInv, WakeChangesInv
<1>4. ASSUME NEW now \in 0..MaxTick, Tick(now)
      PROVE  IInv'
  BY <1>4, TickInv
<1> QED
  BY <1>1, <1>2, <1>3, <1>4, AbortAllInv, ExpireInv DEF Next

(***************************************************************************)
(* The theorems.                                                           *)
(***************************************************************************)

(* For wheels of any size and any number of tasks: each paused task is in  *)
(* the one list it remembers, size() hides no paused task, and no task     *)
(* sleeps past the base unless its wake() changed.                         *)
THEOREM WheelInvariant ==
    Spec => [](TypeOK /\ Placement /\ CountNotBelow /\ NotOverslept /\ RightSlot)
<1>1. IInv /\ [Next]_vars => IInv'
  BY NextInv
<1>2. IInv => TypeOK /\ Placement /\ CountNotBelow /\ NotOverslept /\ RightSlot
  BY DEF IInv, Counted
<1> QED
  BY <1>1, <1>2, InitInv, PTL DEF Spec

(* TypeOK: whatever wake() says, task2list names a slot that its wheel     *)
(* has, and the base is never ahead of the clock, as its asserts demand.   *)
THEOREM Types == Spec => []TypeOK
BY WheelInvariant, PTL

(* Placement: the lists hold exactly the paused tasks, each in the one     *)
(* that it remembers, so that remove_paused_task() always finds it.        *)
THEOREM EachInItsList == Spec => []Placement
BY WheelInvariant, PTL

(* CountNotBelow: timewheel::size() never hides a paused task, not even    *)
(* one whose wake() changes.                                               *)
THEOREM SizeHidesNone == Spec => []CountNotBelow
BY WheelInvariant, PTL

(* timewheel::size() counts the paused tasks exactly, when no wake()       *)
(* changes during a sleep.                                                 *)
THEOREM WheelCounts ==
    ASSUME Fickle = {}
    PROVE  Spec => []CountExact
<1>1. IInv /\ [Next]_vars => IInv'
  BY NextInv
<1>2. IInv => CountExact
  BY DEF IInv, Counted
<1> QED
  BY <1>1, <1>2, InitInv, PTL DEF Spec

(* The wheel's steps are steps of the plain scheduler.                     *)
LEMMA InitRefines == Init => Scheduler!Init
BY DEF Init, Scheduler!Init, Paused, Steady

(* Every step of the wheel is a step of the plain scheduler, or none.      *)
LEMMA NextRefines ==
    ASSUME IInv, [Next]_vars
    PROVE  [Scheduler!Next]_Scheduler!vars
<1> USE DEF IInv
<1>1. CASE UNCHANGED vars
  BY <1>1 DEF vars, Scheduler!vars, Paused
<1>2. ASSUME NEW t \in Task, Create(t)
      PROVE  \/ t \in Steady /\ Scheduler!Create(t)
             \/ UNCHANGED Scheduler!vars
  BY <1>2 DEF Create, Scheduler!Create, Scheduler!vars, Steady, Paused, TypeOK
<1>3. ASSUME NEW t \in Task, Delete(t)
      PROVE  \/ t \in Steady /\ Scheduler!Destroy({t})
             \/ UNCHANGED Scheduler!vars
  BY <1>3 DEF Delete, Scheduler!Destroy, Scheduler!vars, Steady, Paused, TypeOK
<1>4. ASSUME NEW t \in Task, SetRunning(t)
      PROVE  \/ t \in Steady /\ Scheduler!Wake(t)
             \/ UNCHANGED Scheduler!vars
  BY <1>4 DEF SetRunning, Scheduler!Wake, Scheduler!vars, Steady, Paused, TypeOK
<1>5. ASSUME AbortAllTasks
      PROVE  Scheduler!Destroy(all_tasks \ Fickle) \/ UNCHANGED Scheduler!vars
  BY <1>5 DEF AbortAllTasks, Scheduler!Destroy, Scheduler!vars, Paused, TypeOK
<1>6. ASSUME NEW t \in Task, NEW w \in 0..MaxTick, SetPaused(t, w)
      PROVE  \/ t \in Steady /\ Scheduler!Sleep(t, w)
             \/ UNCHANGED Scheduler!vars
  <2>1. t \in running_tasks \cup Paused
    BY <1>6 DEF SetPaused, Paused
  <2>2. /\ UNCHANGED wheel_base
        /\ wake' = [wake EXCEPT ![t] = w]
        /\ IF w # 0 /\ w < wheel_base
             THEN /\ running_tasks' = running_tasks \cup {t}
                  /\ Paused' = Paused \ {t}
             ELSE /\ running_tasks' = running_tasks \ {t}
                  /\ Paused' = Paused \cup {t}
    BY <1>6 DEF SetPaused, Paused, TypeOK, IsLate
  <2>3. CASE t \in Fickle
    BY <2>2, <2>3 DEF Scheduler!vars, Steady, TypeOK
  <2>4. CASE t \notin Fickle
    <3>1. [u \in Steady |-> wake[u]]' = [[u \in Steady |-> wake[u]] EXCEPT ![t] = w]
      BY <2>2, <2>4 DEF Steady, TypeOK
    <3> QED
      BY <2>1, <2>2, <2>4, <3>1 DEF Scheduler!Sleep, Steady
  <2> QED
    BY <2>3, <2>4
<1>7. ASSUME NEW t \in Task, NEW w \in 0..MaxTick, WakeChanges(t, w)
      PROVE  UNCHANGED Scheduler!vars
  BY <1>7 DEF WakeChanges, Scheduler!vars, Paused, Steady, TypeOK
<1>8. ASSUME NEW now \in 0..MaxTick, Tick(now)
      PROVE  UNCHANGED Scheduler!vars
  BY <1>8 DEF Tick, Scheduler!vars, Paused
<1>9. ASSUME ExpireSlot
      PROVE  Scheduler!Advance
  <2>1. /\ running_tasks' \ Fickle = (running_tasks \ Fickle) \cup (DueNow \ Fickle)
        /\ Paused' \ Fickle = (Paused \ Fickle) \ (DueNow \ Fickle)
    <3>1. running_tasks' = running_tasks \cup Woken /\ all_tasks' = all_tasks
      BY <1>9 DEF ExpireSlot, Woken
    <3>2. Woken \ Fickle = DueNow \ Fickle
      BY MigrationSettles, SlotIsDue DEF Woken
    <3> QED
      BY <3>1, <3>2 DEF Paused
  <2>2. wheel_base < MaxTick
    BY <1>9, TickAssumption DEF ExpireSlot, TypeOK
  <2>3. DueNow \ Fickle = {t \in Paused \ Fickle :
                              /\ [u \in Steady |-> wake[u]][t] # 0
                              /\ [u \in Steady |-> wake[u]][t] = wheel_base}
    BY DEF DueNow, Steady, Paused, TypeOK
  <2> QED
    BY <1>9, <2>1, <2>2, <2>3 DEF ExpireSlot, Scheduler!Advance
<1>10. Next => \/ \E t \in Task : Create(t) \/ Delete(t) \/ SetRunning(t)
               \/ AbortAllTasks
               \/ \E t \in Task, w \in 0..MaxTick : SetPaused(t, w) \/ WakeChanges(t, w)
               \/ \E now \in 0..MaxTick : Tick(now)
               \/ ExpireSlot
  BY DEF Next
<1>11. /\ \A t \in Steady : Scheduler!Create(t) \/ Scheduler!Wake(t) => Scheduler!Next
       /\ \A t \in Steady, w \in 0..MaxTick : Scheduler!Sleep(t, w) => Scheduler!Next
       /\ \A S \in SUBSET Steady : Scheduler!Destroy(S) => Scheduler!Next
       /\ Scheduler!Advance => Scheduler!Next
  BY DEF Scheduler!Next
<1>12. all_tasks \ Fickle \in SUBSET Steady /\ \A t \in Steady : {t} \in SUBSET Steady
  BY DEF TypeOK, Steady
<1> QED
  BY <1>1, <1>2, <1>3, <1>4, <1>5, <1>6, <1>7, <1>8, <1>9, <1>10, <1>11, <1>12

(* The timing wheel implements the plain scheduler: whatever the sizes of  *)
(* the wheels, a sleeper whose wake() does not change wakes when its own   *)
(* time comes or an event says so, never earlier and never later.          *)
THEOREM WheelImplementsScheduler == Spec => SchedulerSpec
<1>1. IInv /\ [Next]_vars => IInv'
  BY NextInv
<1>2. IInv /\ [Next]_vars => [Scheduler!Next]_Scheduler!vars
  BY NextRefines
<1> QED
  BY <1>1, <1>2, InitInv, InitRefines, PTL DEF Spec, SchedulerSpec, Scheduler!Spec
=============================================================================
