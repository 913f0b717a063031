--------------------------- MODULE TaskScheduler ---------------------------
(***************************************************************************)
(* What the scheduler of task.cpp promises to the tasks, with no wheel in  *)
(* it: a task is running or paused; a paused task has a deadline (0 is "no *)
(* deadline"), stays paused while its deadline has not passed, and is on   *)
(* the run queue as soon as the time of the scheduler goes past it.        *)
(***************************************************************************)
EXTENDS Naturals

CONSTANTS Task,     \* the task objects
          MaxTick   \* bound on the clock and on the deadlines, in ms

VARIABLES running,  \* the tasks on the run queue
          paused,   \* the tasks that sleep
          deadline, \* Task -> Nat: when a paused task wants to wake; 0 is never
          time      \* every deadline before this time has been served

vars == <<running, paused, deadline, time>>

Init == /\ running = {}
        /\ paused = {}
        /\ deadline = [t \in Task |-> 0]
        /\ time = 0

(* A new task starts on the run queue.                                     *)
Create(t) == /\ t \notin running \cup paused
             /\ running' = running \cup {t}
             /\ UNCHANGED <<paused, deadline, time>>

(* A task is destroyed in any state.                                       *)
Destroy(S) == /\ S # {}
              /\ S \subseteq running \cup paused
              /\ running' = running \ S
              /\ paused' = paused \ S
              /\ UNCHANGED <<deadline, time>>

(* A task goes to sleep until w, or for ever; it keeps running when w has  *)
(* passed already.                                                         *)
Sleep(t, w) == /\ t \in running \cup paused
               /\ deadline' = [deadline EXCEPT ![t] = w]
               /\ IF w # 0 /\ w < time
                    THEN /\ running' = running \cup {t}
                         /\ paused' = paused \ {t}
                    ELSE /\ running' = running \ {t}
                         /\ paused' = paused \cup {t}
               /\ UNCHANGED time

(* An event makes a sleeping task run before its deadline.                 *)
Wake(t) == /\ t \in paused
           /\ running' = running \cup {t}
           /\ paused' = paused \ {t}
           /\ UNCHANGED <<deadline, time>>

(* One millisecond goes by: exactly the tasks due at `time' wake up.       *)
Advance == LET due == {t \in paused : deadline[t] # 0 /\ deadline[t] = time}
           IN  /\ time < MaxTick
               /\ running' = running \cup due
               /\ paused' = paused \ due
               /\ time' = time + 1
               /\ UNCHANGED deadline

Next == \/ \E t \in Task : Create(t) \/ Wake(t)
        \/ \E t \in Task, w \in 0..MaxTick : Sleep(t, w)
        \/ \E S \in SUBSET Task : Destroy(S)
        \/ Advance

Spec == Init /\ [][Next]_vars
=============================================================================
