----------------------------- MODULE TimeWheel -----------------------------
(***************************************************************************)
(* The task scheduler of task.cpp: the list of all tasks, the run queue,   *)
(* and the three-level timing wheel in which the paused tasks sleep.       *)
(* The lists of the wheel are one function from a list's name to the tasks *)
(* in it; a task's `pauselist' is the name of the list it was put in.      *)
(* The order of tasks in a list is left out: it only orders the run queue. *)
(***************************************************************************)
EXTENDS Integers, FiniteSets, FiniteSetsExt

CONSTANTS Task,     \* the task objects
          Fickle,   \* the tasks whose wake() changes while they are paused
          L1,       \* LEVEL_ONE_SLOTS   (4096 in the code)
          L2,       \* LEVEL_TWO_SLOTS   (1024)
          L3,       \* LEVEL_THREE_SLOTS (1024)
          MaxTick   \* bound on the clock and on what wake() returns, in ms

ASSUME SlotsAssumption == /\ L1 \in Nat \ {0}
                          /\ L2 \in Nat \ {0}
                          /\ L3 \in Nat \ {0}
ASSUME TickAssumption == MaxTick \in Nat /\ MaxTick < L1 * L2 * L3
ASSUME TaskAssumption == Fickle \subseteq Task /\ IsFiniteSet(Task)

VARIABLES all_tasks,     \* the task objects that exist
          running_tasks, \* the run queue
          wheel,         \* list name -> the tasks in that list
          pauselist,     \* task -> the list it was last paused in
          count,         \* timewheel::count
          wheel_base,    \* the next slot to expire
          clock_tick,    \* the time of the last getmilliseconds()
          wake,          \* task -> what its wake() returns now
          expiring       \* control is inside the loop of expire_paused_tasks

vars == <<all_tasks, running_tasks, wheel, pauselist, count, wheel_base,
          clock_tick, wake, expiring>>

Forever == <<0, 0>>                       \* forever_list
WheelOne(s)   == <<1, s>>
WheelTwo(s)   == <<2, s>>
WheelThree(s) == <<3, s>>

List == {Forever} \cup {WheelOne(s) : s \in 0..L1-1}
                  \cup {WheelTwo(s) : s \in 0..L2-1}
                  \cup {WheelThree(s) : s \in 0..L3-1}

Paused == all_tasks \ running_tasks

Block1(w) == w \div L1                    \* wake_sigbits after one division
Block2(w) == Block1(w) \div L2            \* and after two

(* timewheel::task2list: the list for a task that wakes at w.              *)
task2list(w, base) ==
    IF w = 0 THEN Forever
    ELSE IF Block1(w) = Block1(base) THEN WheelOne(w % L1)
    ELSE IF Block2(w) = Block2(base) THEN WheelTwo(Block1(w) % L2)
    ELSE WheelThree(Block2(w))

(* A slip: a task due at the base itself is taken for late.                *)
IsLate_OffByOne(w, base) == w # 0 /\ w <= base

(* The guard of timewheel::add_paused_task: too late to sleep at all.      *)
IsLate(w, base) == w # 0 /\ w < base

-----------------------------------------------------------------------------
TypeOK == /\ all_tasks \in SUBSET Task
          /\ running_tasks \in SUBSET all_tasks
          /\ wheel \in [List -> SUBSET Task]
          /\ pauselist \in [Task -> List]
          /\ count \in Int
          /\ wheel_base \in 0..MaxTick
          /\ clock_tick \in 0..MaxTick
          /\ wake \in [Task -> 0..MaxTick]
          /\ expiring \in BOOLEAN

Init == /\ all_tasks = {}
        /\ running_tasks = {}
        /\ wheel = [l \in List |-> {}]
        /\ pauselist = [t \in Task |-> Forever]
        /\ count = 0
        /\ wheel_base = 0
        /\ clock_tick = 0
        /\ wake = [t \in Task |-> 0]
        /\ expiring = FALSE

(* task::task()                                                            *)
Create(t) == /\ ~expiring
             /\ t \notin all_tasks
             /\ all_tasks' = all_tasks \cup {t}
             /\ running_tasks' = running_tasks \cup {t}
             /\ UNCHANGED <<wheel, pauselist, count, wheel_base, clock_tick,
                            wake, expiring>>

(* timewheel::remove_paused_task: the task leaves the list it remembers.   *)
remove_paused_task(t) ==
    /\ wheel' = [wheel EXCEPT ![pauselist[t]] = @ \ {t}]
    /\ count' = count - 1

(* A slip: the destructor forgets the run queue.                           *)
Delete_StaysQueued(t) ==
    /\ ~expiring
    /\ t \in all_tasks
    /\ all_tasks' = all_tasks \ {t}
    /\ IF t \in running_tasks THEN UNCHANGED <<wheel, count>>
                              ELSE remove_paused_task(t)
    /\ UNCHANGED <<running_tasks, pauselist, wheel_base, clock_tick, wake, expiring>>

(* task::~task()                                                           *)
Delete(t) == /\ ~expiring
             /\ t \in all_tasks
             /\ all_tasks' = all_tasks \ {t}
             /\ IF t \in running_tasks
                  THEN /\ running_tasks' = running_tasks \ {t}
                       /\ UNCHANGED <<wheel, count>>
                  ELSE /\ remove_paused_task(t)
                       /\ UNCHANGED running_tasks
             /\ UNCHANGED <<pauselist, wheel_base, clock_tick, wake, expiring>>

(* abort_all_tasks(): every task is deleted, the paused ones from the list *)
(* each remembers.                                                         *)
AbortAllTasks ==
    /\ ~expiring
    /\ all_tasks # {}
    /\ all_tasks' = {}
    /\ running_tasks' = {}
    /\ wheel' = [l \in List |-> wheel[l] \ {t \in Paused : pauselist[t] = l}]
    /\ count' = count - Cardinality(Paused)
    /\ UNCHANGED <<pauselist, wheel_base, clock_tick, wake, expiring>>

(* A slip: the task is queued without leaving the list it sleeps in.       *)
SetRunning_StaysListed(t) ==
    /\ ~expiring
    /\ t \in Paused
    /\ count' = count - 1
    /\ running_tasks' = running_tasks \cup {t}
    /\ UNCHANGED <<all_tasks, wheel, pauselist, wheel_base, clock_tick, wake,
                   expiring>>

(* task::setRunning() does nothing for a task that runs.                   *)
SetRunning(t) == /\ ~expiring
                 /\ t \in Paused
                 /\ remove_paused_task(t)
                 /\ running_tasks' = running_tasks \cup {t}
                 /\ UNCHANGED <<all_tasks, pauselist, wheel_base, clock_tick,
                                wake, expiring>>

(* task::setPaused() of a task whose wake() returns w: it leaves the run   *)
(* queue, or the list it sleeps in, and add_paused_task(this, true) puts   *)
(* it in the list for w, or on the run queue when w is before wheel_base.  *)
SetPaused(t, w) ==
    LET was == IF t \in running_tasks
                 THEN wheel
                 ELSE [wheel EXCEPT ![pauselist[t]] = @ \ {t}]
        cnt == IF t \in running_tasks THEN count ELSE count - 1
        l   == task2list(w, wheel_base)
    IN  /\ ~expiring
        /\ t \in all_tasks
        /\ wake' = [wake EXCEPT ![t] = w]
        /\ IF IsLate(w, wheel_base)
             THEN /\ running_tasks' = running_tasks \cup {t}
                  /\ wheel' = was
                  /\ count' = cnt
                  /\ UNCHANGED pauselist
             ELSE /\ running_tasks' = running_tasks \ {t}
                  /\ wheel' = [was EXCEPT ![l] = @ \cup {t}]
                  /\ pauselist' = [pauselist EXCEPT ![t] = l]
                  /\ count' = cnt + 1
        /\ UNCHANGED <<all_tasks, wheel_base, clock_tick, expiring>>

(* What wake() returns changes while the task sleeps (opentask::wake()     *)
(* reads the rate, which opentask::set_rate assigns).                      *)
WakeChanges(t, w) ==
    /\ ~expiring
    /\ t \in Fickle \cap Paused
    /\ wake' = [wake EXCEPT ![t] = w]
    /\ UNCHANGED <<all_tasks, running_tasks, wheel, pauselist, count,
                   wheel_base, clock_tick, expiring>>

(* getmilliseconds(): the clock may jump by any amount.                    *)
Tick(now) == /\ ~expiring
             /\ now > clock_tick
             /\ clock_tick' = now
             /\ UNCHANGED <<all_tasks, running_tasks, wheel, pauselist, count,
                            wheel_base, wake, expiring>>

(* A slip: wheel_three is never emptied.                                   *)
Migrating_OneLevel ==
    {l \in List : wheel_base % L1 = 0 /\ l = WheelTwo(Block1(wheel_base) % L2)}

(* The lists that a turn of the loop empties into lower ones: wheel_three  *)
(* first, when both lower slots are 0, then wheel_two, when the lowest is. *)
Migrating ==
    {l \in List :
       /\ wheel_base % L1 = 0
       /\ \/ l = WheelTwo(Block1(wheel_base) % L2)
          \/ Block1(wheel_base) % L2 = 0 /\ l = WheelThree(Block2(wheel_base))}

(* Their tasks go through add_paused_task(task, false): to the run queue   *)
(* when late, without a change of count, else to the list for their wake().*)
Moved == UNION {wheel[l] : l \in Migrating}
Late == {t \in Moved : IsLate(wake[t], wheel_base)}
NewList(t) == task2list(wake[t], wheel_base)

(* What list l holds after the migration.                                  *)
Migrated(l) == (IF l \in Migrating THEN {} ELSE wheel[l])
                 \cup {t \in Moved \ Late : NewList(t) = l}

(* The slot of wheel_one that expires, and the tasks then in it.           *)
Slot1 == WheelOne(wheel_base % L1)
Due == Migrated(Slot1)

(* A slip: the tasks that migrate are counted out as well.                 *)
ExpireSlot_CountsMoved ==
    /\ wheel_base < clock_tick
    /\ running_tasks' = running_tasks \cup Late \cup Due
    /\ wheel' = [l \in List |-> IF l = Slot1 THEN {} ELSE Migrated(l)]
    /\ pauselist' = [t \in Task |-> IF t \in Moved \ Late THEN NewList(t)
                                    ELSE pauselist[t]]
    /\ count' = count - Cardinality(Due \cup Moved)
    /\ wheel_base' = wheel_base + 1
    /\ expiring' = (wheel_base + 1 < clock_tick)
    /\ UNCHANGED <<all_tasks, clock_tick, wake>>

(* One turn of the loop of expire_paused_tasks(): migrate, put every task  *)
(* of the slot on the run queue, count going down by one each time, and    *)
(* advance the base.                                                       *)
ExpireSlot ==
    /\ wheel_base < clock_tick
    /\ running_tasks' = running_tasks \cup Late \cup Due
    /\ wheel' = [l \in List |-> IF l = Slot1 THEN {} ELSE Migrated(l)]
    /\ pauselist' = [t \in Task |-> IF t \in Moved \ Late THEN NewList(t)
                                    ELSE pauselist[t]]
    /\ count' = count - Cardinality(Due)
    /\ wheel_base' = wheel_base + 1
    /\ expiring' = (wheel_base + 1 < clock_tick)
    /\ UNCHANGED <<all_tasks, clock_tick, wake>>

Next == \/ \E t \in Task : Create(t) \/ Delete(t) \/ SetRunning(t)
        \/ AbortAllTasks
        \/ \E t \in Task, w \in 0..MaxTick : SetPaused(t, w) \/ WakeChanges(t, w)
        \/ \E now \in 0..MaxTick : Tick(now)
        \/ ExpireSlot

(* The main loop calls expire_paused_tasks() again and again.              *)
Spec == Init /\ [][Next]_vars /\ WF_vars(ExpireSlot)

-----------------------------------------------------------------------------
(* A paused task is in the one list it remembers, and in no other; a task  *)
(* on the run queue, or deleted, is in none.  The iterators `pauselist'    *)
(* and `pauseit' that remove_paused_task() erases with are never stale.    *)
Placement == \A t \in Task, l \in List :
                t \in wheel[l] <=> t \in Paused /\ pauselist[t] = l

(* Even when wake() of a sleeper changes, count never drops below the      *)
(* number of paused tasks, so the screens never hide a paused call.        *)
CountNotBelow == count >= Cardinality(Paused)

(* timewheel::size() is "How many task are in this wheel" (task.hpp:57),   *)
(* when no wake() changes during a sleep: a migration that finds a task    *)
(* late puts it on the run queue without a count--.                        *)
CountExact == count = Cardinality(Paused)

(* Once expire_paused_tasks() has gone past a time, no task due at that    *)
(* time is still asleep, whichever wheel it was put in and however often   *)
(* it migrated, unless its wake() changed since.                           *)
NotOverslept == \A t \in Paused \ Fickle : wake[t] # 0 => wake[t] >= wheel_base

(* Where a paused task sleeps: in the list for its wake-up time as seen    *)
(* from the base, unless the base has just entered the block of a higher   *)
(* list and has not emptied that list yet.                                 *)
SlotFor(t) == \/ pauselist[t] = task2list(wake[t], wheel_base)
              \/ /\ wake[t] # 0
                 /\ wheel_base % L1 = 0
                 /\ pauselist[t] = WheelTwo(Block1(wheel_base) % L2)
                 /\ Block1(wake[t]) = Block1(wheel_base)
              \/ /\ wake[t] # 0
                 /\ wheel_base % L1 = 0
                 /\ Block1(wheel_base) % L2 = 0
                 /\ pauselist[t] = WheelThree(Block2(wheel_base))
                 /\ Block2(wake[t]) = Block2(wheel_base)

RightSlot == \A t \in Paused \ Fickle : SlotFor(t)

(* The wheels implement the plain scheduler, for all tasks but the Fickle  *)
(* ones: they wake when their own time comes or an event says so, never    *)
(* earlier and never later.                                                *)
Steady == Task \ Fickle
Scheduler == INSTANCE TaskScheduler
               WITH Task <- Steady,
                    running <- running_tasks \ Fickle, paused <- Paused \ Fickle,
                    deadline <- [t \in Steady |-> wake[t]], time <- wheel_base
SchedulerSpec == Scheduler!Spec

(* A sleeper whose time is behind the clock does not stay one: it is woken *)
(* or deleted, or sets itself another time.                                *)
Overdue(t) == t \in Paused /\ wake[t] # 0 /\ wake[t] < clock_tick
OverdueTasksRun == \A t \in Steady : Overdue(t) ~> ~Overdue(t)
=============================================================================
