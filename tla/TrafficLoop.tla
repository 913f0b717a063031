---------------------------- MODULE TrafficLoop ----------------------------
(***************************************************************************)
(* traffic_thread(), the main loop: resets, quitting, the pass over the    *)
(* run queue with its iterator one task ahead, and the poll.  What tasks   *)
(* do in run() and process_incoming() is every effect that the code of     *)
(* their classes has on the tasks, the count of open calls and quitting.   *)
(* When sleepers are due is left to module TimeWheel: here any of them may *)
(* wake up on a pass.                                                      *)
(***************************************************************************)
EXTENDS Integers, Sequences, FiniteSets, SequencesExt

CONSTANTS Calls,         \* call and deadcall objects
          OpenTask,      \* the opentask
          Report,        \* the screentask, or the stattask or the watchdog
          NoTask,        \* NULL, and end() for the iterator
          Modes,         \* creationMode: a subset of {"client", "server"}
          MaxSchedLoops, \* -max_sched_loops
          StopAfter,     \* -m
          MaxResets      \* bound on the connections that break

ASSUME LoopAssumption ==
    /\ MaxSchedLoops \in Nat \ {0}
    /\ StopAfter \in Nat /\ MaxResets \in Nat
    /\ Modes \subseteq {"client", "server"}
    /\ IsFiniteSet(Calls)
    /\ OpenTask # Report /\ {OpenTask, Report, NoTask} \cap Calls = {}
    /\ NoTask \notin {OpenTask, Report}

Task == Calls \cup {OpenTask, Report}

VARIABLES creationMode,
          kind,        \* task -> its class and state; "none": there is no such task
          run_queue,   \* running_tasks, in their order
          CurrentCall, \* the statistics' count of open calls
          created,     \* calls counted as created
          quitting,
          pending,     \* sockets_pending_reset is not empty
          resets,      \* connections that have broken
          pc,          \* where the loop is
          iter, last, loops,
          miscounted   \* a call was not counted off, or twice

Pressed(n) == IF quitting + n > 11 THEN 20 ELSE quitting + n \* over 11 it makes no difference

tasks == <<kind, run_queue, CurrentCall, created>>
pass == <<iter, last, loops>>
vars == <<creationMode, tasks, quitting, pending, resets, pc, pass, miscounted>>

Alive == {t \in Task : kind[t] # "none"}
Asleep(t) == t \in Alive /\ ~Contains(run_queue, t)
Kinds(k) == {t \in Calls : kind[t] = k}
Open == Kinds("call")
Free == Kinds("none")

-----------------------------------------------------------------------------
(***************************************************************************)
(* Tasks.  q is the run queue before the step.                             *)
(***************************************************************************)
(* What is left of q when the tasks of S are taken out, in its order.      *)
Without(q, S) ==
    LET kept == {i \in DOMAIN q : q[i] \notin S}
        At(n) == CHOOSE i \in kept : Cardinality(kept \cap 1..i) = n
    IN  [n \in 1..Cardinality(kept) |-> q[At(n)]]

(* setPaused(): a task whose deadline has passed is queued again.          *)
Pauses(t, q) == run_queue' \in {Without(q, {t}), Append(Without(q, {t}), t)}

(* `delete this'.                                                          *)
Deleted(t, q) == /\ kind' = [kind EXCEPT ![t] = "none"]
                 /\ run_queue' = Without(q, {t})

(* E_CALL_FAILED and E_CALL_SUCCESSFULLY_ENDED of call_scenario, which is  *)
(* the main one but for automatic calls.                                   *)
CountedOff(S, k) == Cardinality({t \in S : k[t] = "call"})

(* Calls end: ~call() gives a user back, which wakes a sleeping opentask,  *)
(* and a deadcall may take the place of the call.  k: the kinds before.    *)
CallsEnd(S, q, k, n) ==
    \E dead \in SUBSET S :
      /\ kind' = [t \in Task |-> IF t \in dead THEN "dead"
                                 ELSE IF t \in S THEN "none" ELSE k[t]]
      /\ LET rest == Without(q, S)
         IN  run_queue' \in {rest} \cup (IF S # {} /\ Asleep(OpenTask)
                                           THEN {Append(rest, OpenTask)} ELSE {})
      /\ CurrentCall' = n - CountedOff(S, k)

(* call::run() and process_incoming(): the call goes on or ends.  An       *)
(* action may stop_all, and a connection may break on sending.             *)
CallRuns(t, q, k, n) ==
    /\ \/ /\ Pauses(t, q) \/ run_queue' = q
          /\ kind' = k /\ CurrentCall' = n
       \/ CallsEnd({t}, q, k, n)
    /\ quitting' \in {quitting, 1}
    /\ \/ UNCHANGED <<pending, resets>>
       \/ resets < MaxResets /\ resets' = resets + 1 /\ pending' = TRUE

(* A zombie was counted off by its constructor.  A slip: again here.       *)
ZombieRuns_Counted(t, q) == /\ Deleted(t, q)
                            /\ CurrentCall' = CurrentCall - 1
ZombieRuns(t, q) == /\ Deleted(t, q)
                    /\ UNCHANGED CurrentCall

(* deadcall::run()                                                         *)
DeadcallRuns(t, q) == \/ Deleted(t, q)
                      \/ Pauses(t, q) /\ UNCHANGED kind

(* opentask::run(): calls open in a batch, those without a circuit as      *)
(* zombies.                                                                *)
OpenTaskRuns(t, q) ==
    IF quitting > 0
    THEN Deleted(t, q) /\ UNCHANGED <<CurrentCall, created, quitting>>
    ELSE \E new \in SUBSET Free, zombies \in SUBSET Free :
           /\ zombies \subseteq new
           /\ created + Cardinality(new) <= StopAfter
           /\ \/ Pauses(t, q \o SetToSeq(new))
              \/ new # {} /\ run_queue' = q \o SetToSeq(new)
           /\ kind' = [c \in Task |-> IF c \in zombies THEN "zombie"
                                      ELSE IF c \in new THEN "call" ELSE kind[c]]
           /\ CurrentCall' = CurrentCall + Cardinality(new \ zombies)
           /\ created' = created + Cardinality(new)
           /\ quitting' = IF created >= StopAfter THEN 1 ELSE quitting

(* screentask::run(), stattask::run() with -rate_quit, watchdog::run()     *)
ReportRuns(t, q) ==
    \/ quitting > 11 /\ Deleted(t, q) /\ UNCHANGED quitting
    \/ /\ Pauses(t, q) /\ UNCHANGED kind
       /\ \/ UNCHANGED quitting
          \/ quitting' = Pressed(10)

Runs(t, q) ==
    \/ /\ t \in Calls /\ kind[t] \in {"call", "auto"}
       /\ CallRuns(t, q, kind, CurrentCall)
       /\ UNCHANGED created
    \/ /\ t \in Calls
       /\ \/ kind[t] = "zombie" /\ ZombieRuns(t, q)
          \/ kind[t] = "dead" /\ DeadcallRuns(t, q) /\ UNCHANGED CurrentCall
       /\ UNCHANGED <<created, quitting, pending, resets>>
    \/ /\ t = Report /\ ReportRuns(t, q)
       /\ UNCHANGED <<CurrentCall, created, pending, resets>>
    \/ /\ t = OpenTask /\ OpenTaskRuns(t, q)
       /\ UNCHANGED <<pending, resets>>

(* abort_all_tasks(), which aborts the deadcalls it makes, too: what it    *)
(* counts off is every call, and every zombie once more.                   *)
Aborted == Cardinality(Open) + Cardinality(Kinds("zombie"))
AbortAll == /\ kind' = [t \in Task |-> "none"]
            /\ run_queue' = << >>

-----------------------------------------------------------------------------
(***************************************************************************)
(* The loop.                                                               *)
(***************************************************************************)
Init == /\ creationMode \in Modes
        /\ kind = [t \in Task |-> IF t = Report THEN "report"
                                 ELSE IF t = OpenTask /\ creationMode = "client" THEN "open"
                                 ELSE "none"]
        /\ run_queue = IF creationMode = "client" THEN <<OpenTask, Report>> ELSE <<Report>>
        /\ CurrentCall = 0 /\ created = 0 /\ quitting = 0
        /\ pending = FALSE /\ resets = 0
        /\ pc = "top"
        /\ iter = NoTask /\ last = NoTask /\ loops = 0
        /\ miscounted = FALSE

(* reset_connection() of every socket that waits for it; close_calls()     *)
(* ends some calls.                                                        *)
ResetSockets ==
    IF pending
    THEN /\ \E S \in SUBSET (Open \cup Kinds("auto")) : CallsEnd(S, run_queue, kind, CurrentCall)
         /\ pending' = FALSE
         /\ UNCHANGED created
    ELSE UNCHANGED <<tasks, pending>>

Top == /\ pc = "top" /\ pc' = "quit"
       /\ ResetSockets
       /\ UNCHANGED <<creationMode, quitting, resets, pass, miscounted>>

(* Quitting: forced, or when the last call has ended.                      *)
Quit ==
    /\ pc = "quit"
    /\ quitting' = IF quitting = 0 /\ created >= StopAfter THEN 1 ELSE quitting
    /\ LET forced == quitting' > 11
           n == IF forced THEN CurrentCall - Aborted ELSE CurrentCall
           exits == quitting' > 0 /\ n = 0
       IN  /\ IF forced \/ exits THEN AbortAll ELSE UNCHANGED <<kind, run_queue>>
           /\ CurrentCall' = n
           /\ miscounted' = (miscounted \/ (forced /\ Kinds("zombie") # {}))
           /\ pc' = IF exits THEN "exited" ELSE "expire"
    /\ UNCHANGED <<creationMode, created, pending, resets, pass>>

(* The loop over the run queue is left.                                    *)
Break == pc' = "final" /\ iter' = NoTask /\ loops' = 0

(* expire_paused_tasks(), when the clock has advanced; the pass begins.    *)
Expire ==
    /\ pc = "expire"
    /\ \E due \in SUBSET {t \in Task : Asleep(t)} :
         run_queue' = run_queue \o SetToSeq(due)
    /\ IF run_queue' = << >>
         THEN Break
         ELSE pc' = "loop" /\ iter' = Head(run_queue') /\ loops' = MaxSchedLoops
    /\ UNCHANGED <<creationMode, kind, CurrentCall, created, quitting, pending, resets, last,
                   miscounted>>

(* The rest of the body: last = *iter, --loops, iter++; and the condition. *)
Following(t, q) == LET i == CHOOSE j \in DOMAIN q : q[j] = t
                   IN  IF ~Contains(q, t) THEN "undefined"
                       ELSE IF i = Len(q) THEN NoTask ELSE q[i + 1]
(* A slip: it leaves before it takes over the task.                        *)
Moves_Late(q) ==
    IF loops <= 1 \/ Following(iter, q) = NoTask
      THEN Break /\ UNCHANGED last
      ELSE pc' = "loop" /\ loops' = loops - 1 /\ last' = iter /\ iter' = Following(iter, q)

Moves(q) ==
    /\ last' = iter
    /\ IF loops <= 1 \/ Following(iter, q) = NoTask
         THEN Break
         ELSE pc' = "loop" /\ loops' = loops - 1 /\ iter' = Following(iter, q)

(* The body: the task behind the iterator runs.  A slip: the task at it.   *)
Body_AtIterator ==
    /\ pc = "loop"
    /\ Runs(iter, run_queue)
    /\ IF pending' THEN Break /\ last' = NoTask ELSE Moves(run_queue')
    /\ UNCHANGED <<creationMode, miscounted>>

Body ==
    /\ pc = "loop"
    /\ IF last = NoTask
       THEN Moves(run_queue) /\ UNCHANGED <<tasks, quitting, pending, resets>>
       ELSE /\ Runs(last, run_queue)
            /\ IF pending' THEN Break /\ last' = NoTask ELSE Moves(run_queue')
    /\ UNCHANGED <<creationMode, miscounted>>

(* The last task of the pass.                                              *)
Final ==
    /\ pc = "final" /\ pc' = "after"
    /\ IF last = NoTask THEN UNCHANGED <<tasks, quitting, pending, resets>>
                        ELSE Runs(last, run_queue)
    /\ last' = NoTask
    /\ UNCHANGED <<creationMode, iter, loops, miscounted>>

After == /\ pc = "after" /\ pc' = "poll"
         /\ ResetSockets
         /\ UNCHANGED <<creationMode, quitting, resets, pass, miscounted>>

(* pollset_process() takes max_recv_loops messages at most.                *)
EndPoll == /\ pc = "poll" /\ pc' = "top"
           /\ UNCHANGED <<creationMode, tasks, quitting, pending, resets, pass, miscounted>>

Loop == Top \/ Quit \/ Expire \/ Body \/ Final \/ After \/ EndPoll

-----------------------------------------------------------------------------
(***************************************************************************)
(* What happens in the poll.                                               *)
(***************************************************************************)
Woken(t) == IF Asleep(t) THEN Append(run_queue, t) ELSE run_queue

(* A message for a call or a deadcall; an unexpected PING deletes the call *)
(* and counts nothing.                                                     *)
Message(t) ==
    /\ pc = "poll"
    /\ \/ /\ kind[t] \in {"call", "auto"}
          /\ CallRuns(t, Woken(t), kind, CurrentCall)
          /\ UNCHANGED miscounted
       \/ /\ kind[t] \in {"call", "auto"}
          /\ Deleted(t, run_queue)
          /\ miscounted' = (miscounted \/ kind[t] = "call")
          /\ UNCHANGED <<CurrentCall, quitting, pending, resets>>
       \/ /\ kind[t] = "dead"
          /\ Pauses(t, Woken(t))
          /\ UNCHANGED <<kind, CurrentCall, quitting, pending, resets, miscounted>>
    /\ UNCHANGED <<creationMode, created, pc, pass>>

(* A message without a listener: a server opens a call unless it quits, a  *)
(* client may answer automatically.                                        *)
NewCall(t) ==
    /\ pc = "poll" /\ kind[t] = "none"
    /\ \/ /\ creationMode = "server" /\ quitting = 0 /\ created < StopAfter
          /\ created' = created + 1
          /\ CallRuns(t, Append(run_queue, t), [kind EXCEPT ![t] = "call"], CurrentCall + 1)
       \/ /\ creationMode = "client"
          /\ CallRuns(t, Append(run_queue, t), [kind EXCEPT ![t] = "auto"], CurrentCall)
          /\ UNCHANGED created
    /\ UNCHANGED <<creationMode, pc, pass, miscounted>>

(* read_error(): the peer closes a connection, or it breaks.               *)
ConnectionCloses ==
    /\ pc = "poll"
    /\ \/ /\ \E S \in (SUBSET (Open \cup Kinds("auto"))) \ {{}} :
               CallsEnd(S, run_queue, kind, CurrentCall)
          /\ UNCHANGED <<created, pending, resets>>
       \/ /\ resets < MaxResets /\ resets' = resets + 1 /\ pending' = TRUE
          /\ UNCHANGED tasks
    /\ UNCHANGED <<creationMode, quitting, pc, pass, miscounted>>

(* process_key(): q and Q.                                                 *)
Key(n) ==
    /\ pc = "poll"
    /\ quitting' = Pressed(n)
    /\ UNCHANGED <<creationMode, tasks, pending, resets, pc, pass, miscounted>>

(* sipp_sigusr1() and timeout_alarm(); at other points the effect is the   *)
(* same.                                                                   *)
Signal ==
    /\ pc \in {"loop", "final", "poll"}
    /\ quitting' \in {Pressed(10), 1}
    /\ UNCHANGED <<creationMode, tasks, pending, resets, pc, pass, miscounted>>

Event == \/ \E t \in Calls : Message(t) \/ NewCall(t)
         \/ ConnectionCloses
         \/ \E n \in {10, 20} : Key(n)
         \/ Signal

Next == Loop \/ Event

(* The loop goes round: no step of it waits but the poll, for a            *)
(* millisecond.                                                            *)
Spec == Init /\ [][Next]_vars /\ WF_vars(Loop)

-----------------------------------------------------------------------------
(***************************************************************************)
(* Properties.                                                             *)
(***************************************************************************)
(* The types, and: a task of the run queue is there once, and the iterator *)
(* is at a task of it.                                                     *)
TypeOK ==
    /\ creationMode \in Modes
    /\ kind \in [Task -> {"none", "open", "report", "call", "auto", "zombie", "dead"}]
    /\ run_queue \in Seq(Alive)
    /\ IsInjective(run_queue)
    /\ CurrentCall \in Int /\ created \in 0..StopAfter
    /\ quitting \in 0..20
    /\ pending \in BOOLEAN /\ resets \in 0..MaxResets
    /\ pc \in {"top", "quit", "expire", "loop", "final", "after", "poll", "exited"}
    /\ iter \in Range(run_queue) \cup {NoTask}
    /\ last \in Range(run_queue) \cup {NoTask}
    /\ loops \in 0..MaxSchedLoops
    /\ miscounted \in BOOLEAN

(* The loop ends no open call, unless it is forced to: the count is never  *)
(* 0 too early, whichever way calls, zombies and automatic calls ended.    *)
OnlyQuietExits ==
    [][pc' = "exited" /\ pc # "exited" /\ quitting <= 11 => Open = {}]_vars

(* and it ends when it is quitting and no call is open, unless calls were  *)
(* counted wrong: deleted by a PING, or zombies that were aborted.         *)
QuietExit == quitting > 0 /\ Open = {} ~> pc = "exited" \/ miscounted

(* As long as the run queue is not longer than -max_sched_loops, each call *)
(* in it gets its turn, which is to become `last', whoever goes to sleep,  *)
(* ends, wakes up or breaks a connection meanwhile.  Each pass starts from *)
(* the front: with a longer queue, tasks at the front that stay there keep *)
(* the others from running.                                                *)
TurnForAll == \A t \in Calls :
    Contains(run_queue, t)
      ~> \/ ~Contains(run_queue, t) \/ last = t
         \/ Len(run_queue) > MaxSchedLoops

(* "Waiting for active calls to end. Press [q] again to force exit."       *)
(* [q] and SIGUSR1 add 10, and whatever else says to quit assigns 1.       *)
QAgainForces == quitting > 10 ~> pc = "exited"
=============================================================================
