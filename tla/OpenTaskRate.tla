--------------------------- MODULE OpenTaskRate ---------------------------
(***************************************************************************)
(* opentask.cpp in rate mode (-r, -rp): the task that opens calls so that  *)
(* their number since the last change of rate follows rate * elapsed time, *)
(* within the limits on open calls and on calls in all, and that sleeps    *)
(* until the next call is due.                                             *)
(* The timing wheel is abstracted to what TimeWheel shows of it: a sleeper *)
(* wakes once its deadline is behind the clock, and its wake() may be read *)
(* again on a migration.                                                   *)
(***************************************************************************)
EXTENDS Integers

CONSTANTS Rates,          \* the rates the operator may set, calls per period
          StartRate,      \* the argument of -r
          rate_period_ms, \* in ticks of the model's clock
          DurationFactor, \* 3 * call duration / rate_period_ms
          Limits,         \* the values of "set limit" (0 is no limit)
          StopAfter,      \* stop_after (-m)
          MaxTick         \* bound on the clock

ASSUME RateAssumption == /\ Rates \subseteq Nat
                         /\ StartRate \in Nat
                         /\ rate_period_ms \in Nat \ {0}
                         /\ DurationFactor \in Nat
                         /\ Limits \subseteq Nat
                         /\ StopAfter \in Nat
                         /\ MaxTick \in Nat \ {0}

VARIABLES rate,
          clock_tick,
          last_rate_change_time,
          calls_since_last_rate_change,
          open_calls_allowed,      \* the limit on open calls, 0 for none
          open_calls_user_setting, \* the operator set it
          current_calls,           \* CPT_C_CurrentCall
          total_calls,             \* CPT_C_OutgoingCallCreated
          paused,
          running,                 \* the opentask is on the run queue
          deadline,                \* else what wake() was when it was put to sleep
          instance,                \* opentask::instance is not NULL
          quitting,
          earned                   \* rate_period_ms times the calls that the rates
                                   \* asked for, pauses left out; nobody reads it

rateVars == <<rate, last_rate_change_time, calls_since_last_rate_change>>
limitVars == <<open_calls_allowed, open_calls_user_setting>>
callVars == <<current_calls, total_calls>>
vars == <<rateVars, limitVars, callVars, clock_tick, paused, running, deadline,
          instance, quitting, earned>>

AtLeast(n, m) == IF n < m THEN m ELSE n
AtMost(n, m) == IF n > m THEN m ELSE n

(* opentask::wake(). With rate 0 the quotient is infinite, and as an       *)
(* unsigned int the builds make it 0: no deadline.                         *)
wake(r, last, since) ==
    IF r = 0 THEN 0 ELSE last + ((since + 1) * rate_period_ms) \div r

(* set_rate: open_calls_allowed follows the rate unless the operator set it.*)
AllowedFor(r) == AtLeast(DurationFactor * r, 1)

(* The calls that should have been opened since the last change of rate.   *)
Expected == ((clock_tick - last_rate_change_time) * rate) \div rate_period_ms

TypeOK == /\ rate \in Rates \cup {StartRate}
          /\ clock_tick \in 1..MaxTick
          /\ last_rate_change_time \in 1..clock_tick
          /\ calls_since_last_rate_change \in 0..total_calls
          /\ open_calls_allowed \in Nat
          /\ open_calls_user_setting \in BOOLEAN
          /\ current_calls \in 0..total_calls
          /\ total_calls \in Nat
          /\ paused \in BOOLEAN
          /\ running \in BOOLEAN
          /\ deadline \in Nat
          /\ instance \in BOOLEAN
          /\ running => instance
          /\ quitting \in BOOLEAN
          /\ earned \in Nat

(* main(): opentask::initialize(), in client mode only, and set_rate(rate), *)
(* once the clock runs.                                                    *)
Init == /\ rate = StartRate
        /\ clock_tick = 1
        /\ last_rate_change_time = 1
        /\ calls_since_last_rate_change = 0
        /\ open_calls_allowed = AllowedFor(StartRate)
        /\ open_calls_user_setting = FALSE
        /\ current_calls = 0
        /\ total_calls = 0
        /\ paused = FALSE
        /\ instance \in BOOLEAN
        /\ running = instance
        /\ deadline = 0
        /\ quitting = FALSE
        /\ earned = 0

(* A slip: the calls opened already are not taken off the limit.           *)
Clamped_Absolute(n) ==
    AtLeast(AtMost(AtMost(n, StopAfter - total_calls),
                   IF open_calls_allowed # 0 THEN open_calls_allowed ELSE n), 0)

(* The clamps of run(): to stop_after, then to open_calls_allowed.         *)
Clamped(n) ==
    AtLeast(AtMost(AtMost(n, StopAfter - total_calls),
                   IF open_calls_allowed # 0
                     THEN open_calls_allowed - current_calls ELSE n), 0)

calls_to_open == Clamped(AtLeast(Expected - calls_since_last_rate_change, 0))

(* A slip: the deleted task stays on the run queue.                        *)
RunQuitting_StaysQueued == /\ running
                           /\ quitting
                           /\ instance' = FALSE
                           /\ deadline' = 0
                           /\ UNCHANGED <<rateVars, limitVars, callVars,
                                          clock_tick, paused, running, quitting,
                                          earned>>

(* run(): "if (quitting) delete this".                                     *)
RunQuitting == /\ running
               /\ quitting
               /\ running' = FALSE
               /\ instance' = FALSE
               /\ deadline' = 0
               /\ UNCHANGED <<rateVars, limitVars, callVars, clock_tick, paused,
                              quitting, earned>>

(* run() when the operator paused the traffic: wake() is 0.                *)
RunPaused == /\ running
             /\ ~quitting
             /\ paused
             /\ running' = FALSE
             /\ deadline' = 0
             /\ UNCHANGED <<rateVars, limitVars, callVars, clock_tick, paused,
                            instance, quitting, earned>>

(* run(): open k calls, all of calls_to_open unless a millisecond goes by  *)
(* in the loop; sleep when all are opened. total_calls is the count taken  *)
(* before the loop.                                                        *)
RunOpens(k) ==
    /\ running
    /\ ~quitting
    /\ ~paused
    /\ k \in 0..calls_to_open
    /\ k = 0 => calls_to_open = 0
    /\ calls_since_last_rate_change' = calls_since_last_rate_change + k
    /\ current_calls' = current_calls + k
    /\ total_calls' = total_calls + k
    /\ running' = (k < calls_to_open)
    /\ deadline' = wake(rate, last_rate_change_time, calls_since_last_rate_change')
    /\ quitting' = (total_calls >= StopAfter)
    /\ UNCHANGED <<rate, last_rate_change_time, limitVars, clock_tick, paused,
                   instance, earned>>

(* expire_paused_tasks(): the deadline is behind the clock.                *)
Expire == /\ ~running
          /\ deadline # 0
          /\ deadline < clock_tick
          /\ running' = TRUE
          /\ UNCHANGED <<rateVars, limitVars, callVars, clock_tick, paused,
                         deadline, instance, quitting, earned>>

(* The list the task sleeps in is emptied into lower ones, and wake() is   *)
(* read again; a task that sleeps without a deadline is in no such list.   *)
Migrate == /\ ~running
           /\ deadline # 0
           /\ deadline' = IF paused THEN 0
                          ELSE wake(rate, last_rate_change_time,
                                    calls_since_last_rate_change)
           /\ deadline' # deadline
           /\ UNCHANGED <<rateVars, limitVars, callVars, clock_tick, paused,
                          running, instance, quitting, earned>>

(* 'q'                                                                     *)
Quit == /\ ~quitting
        /\ quitting' = TRUE
        /\ UNCHANGED <<rateVars, limitVars, callVars, clock_tick, paused,
                       running, deadline, instance, earned>>

Tick == /\ clock_tick < MaxTick
        /\ clock_tick' = clock_tick + 1
        /\ earned' = earned + (IF paused THEN 0 ELSE rate)
        /\ UNCHANGED <<rateVars, limitVars, callVars, paused, running, deadline,
                       instance, quitting>>

CallEnds == /\ current_calls > 0
            /\ current_calls' = current_calls - 1
            /\ UNCHANGED <<rateVars, limitVars, total_calls, clock_tick, paused,
                           running, deadline, instance, quitting, earned>>

(* opentask::set_rate(r): nothing wakes the task, and nothing is skipped   *)
(* when there is none.                                                     *)
SetRate(r) ==
    /\ rate' = r
    /\ last_rate_change_time' = clock_tick
    /\ calls_since_last_rate_change' = 0
    /\ open_calls_allowed' = IF open_calls_user_setting THEN open_calls_allowed
                                                        ELSE AllowedFor(r)

(* '+', '-', '*', '/', "set rate", and the stattask with -rate_increase.    *)
OperatorSetsRate(r) ==
    /\ SetRate(r)
    /\ UNCHANGED <<open_calls_user_setting, callVars, clock_tick, paused,
                   running, deadline, instance, quitting, earned>>

(* "set limit"                                                             *)
OperatorSetsLimit(n) ==
    /\ open_calls_allowed' = n
    /\ open_calls_user_setting' = TRUE
    /\ UNCHANGED <<rateVars, callVars, clock_tick, paused, running, deadline,
                   instance, quitting, earned>>

(* set_paused(true): setPaused() reads wake() before paused is assigned.   *)
Pause == /\ instance
         /\ ~paused
         /\ paused' = TRUE
         /\ running' = FALSE
         /\ deadline' = wake(rate, last_rate_change_time,
                             calls_since_last_rate_change)
         /\ UNCHANGED <<rateVars, limitVars, callVars, clock_tick, instance,
                        quitting, earned>>

(* A slip: the task is left asleep when the traffic goes on.               *)
Unpause_NoWake == /\ instance
                  /\ paused
                  /\ paused' = FALSE
                  /\ SetRate(rate)
                  /\ UNCHANGED <<open_calls_user_setting, callVars, clock_tick,
                                 running, deadline, instance, quitting, earned>>

(* A slip: the calls that the pause put off are still asked for.           *)
Unpause_KeepsTime == /\ instance
                     /\ paused
                     /\ paused' = FALSE
                     /\ running' = TRUE
                     /\ UNCHANGED <<rateVars, limitVars, callVars, clock_tick,
                                    deadline, instance, quitting, earned>>

(* set_paused(false): setRunning(), set_rate(rate).                        *)
Unpause == /\ instance
           /\ paused
           /\ paused' = FALSE
           /\ running' = TRUE
           /\ SetRate(rate)
           /\ UNCHANGED <<open_calls_user_setting, callVars, clock_tick,
                          deadline, instance, quitting, earned>>

RunTask == RunQuitting \/ RunPaused \/ \E k \in 0..StopAfter : RunOpens(k)

Next == \/ RunTask
        \/ Expire
        \/ Migrate
        \/ Tick
        \/ CallEnds
        \/ \E r \in Rates : OperatorSetsRate(r)
        \/ \E n \in Limits : OperatorSetsLimit(n)
        \/ Pause
        \/ Unpause
        \/ Quit

(* The main loop runs the run queue and expires the sleepers; time passes. *)
Spec == Init /\ [][Next]_vars /\ WF_vars(RunTask) /\ WF_vars(Expire) /\ WF_vars(Tick)

-----------------------------------------------------------------------------
(* No burst: over the whole run never more calls than the rates in force   *)
(* asked for while the traffic was not paused. When the traffic goes on,   *)
(* or its rate changes, the time before is not counted again, at the old   *)
(* rate or at the new one (set_paused, set_rate, run).                     *)
NoBurst == total_calls * rate_period_ms <= earned

(* No call is opened beyond the limit on open calls that holds when it is  *)
(* opened.                                                                 *)
LimitRespected ==
    [][total_calls' > total_calls =>
         open_calls_allowed = 0 \/ current_calls' <= open_calls_allowed]_vars

(* Calls are missing, and neither a limit nor the operator forbids them.   *)
TrafficDue == calls_to_open > 0 /\ instance /\ ~paused /\ ~quitting

(* A deadline at or after the end of the bounded clock does not come.      *)
BeyondClock == ~running /\ deadline >= MaxTick

(* Unless the rate is ever 0, it is never the case from some time on that  *)
(* the rate in force asks for calls and none is opened: early breaks,      *)
(* pauses, limits and changes of rate all leave the task with a deadline.  *)
TrafficFlows == [](rate # 0) => []<>(~TrafficDue \/ BeyondClock)

(* The keys that "Adjust rate" (reporttask.cpp:688) do so for every rate.  *)
AlwaysTrafficFlows == []<>(~TrafficDue \/ BeyondClock)
=============================================================================
