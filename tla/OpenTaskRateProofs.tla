------------------------- MODULE OpenTaskRateProofs -------------------------
(***************************************************************************)
(* For every rate, period, limit and number of calls, what the opentask    *)
(* opens in rate mode: never more calls than the rate asks for, never      *)
(* beyond the limit on open calls, never more than stop_after.             *)
(***************************************************************************)
EXTENDS OpenTaskRate, TLAPS

(* A quotient of naturals is a natural and grows with the dividend: what   *)
(* Expected and wake() are computed with.                                  *)
LEMMA QuotientIsNat ==
    ASSUME NEW a \in Nat, NEW b \in Nat \ {0}
    PROVE  a \div b \in Nat
  OBVIOUS

(* Division rounds down, but not so that the order is lost.                *)
LEMMA QuotientGrows ==
    ASSUME NEW a \in Nat, NEW b \in Nat, a <= b, NEW p \in Nat \ {0}
    PROVE  a \div p <= b \div p
<1> DEFINE q == a \div p
           r == b \div p
<1>1. /\ q \in Nat /\ r \in Nat
      /\ p * q <= a
      /\ b < p * r + p
  OBVIOUS
<1>2. SUFFICES ASSUME r + 1 <= q PROVE FALSE
  BY <1>1
<1>3. p * (r + 1) <= p * q
  <2>1. PICK d \in Nat : q = r + 1 + d
    <3>1. q - (r + 1) \in Nat /\ q = r + 1 + (q - (r + 1))
      BY <1>1, <1>2
    <3> QED
      BY <3>1
  <2>2. p * q = p * (r + 1) + p * d
    BY <1>1, <2>1
  <2>3. p * d \in Nat
    BY <2>1
  <2>4. p * (r + 1) \in Nat
    BY <1>1
  <2> QED
    BY <2>2, <2>3, <2>4
<1>4. p * (r + 1) = p * r + p
  BY <1>1
<1> QED
  BY <1>1, <1>3, <1>4

(* The products of the formula are numbers,                                *)
LEMMA ProductIsNat ==
    ASSUME NEW a \in Nat, NEW b \in Nat
    PROVE  a * b \in Nat
  OBVIOUS

(* and grow with the time elapsed.                                         *)
LEMMA ProductGrows ==
    ASSUME NEW a \in Nat, NEW r \in Nat
    PROVE  a * r <= (a + 1) * r
<1>1. (a + 1) * r = a * r + r
  OBVIOUS
<1> QED
  BY <1>1, ProductIsNat

(* Whatever the rate, wake() is a time or none.                            *)
LEMMA WakeIsNat ==
    ASSUME NEW r \in Nat, NEW last \in Nat, NEW since \in Nat
    PROVE  wake(r, last, since) \in Nat
<1>1. CASE r = 0
  BY <1>1 DEF wake
<1>2. CASE r # 0
  <2>1. (since + 1) * rate_period_ms \in Nat
    BY RateAssumption, ProductIsNat
  <2>2. ((since + 1) * rate_period_ms) \div r \in Nat
    BY <1>2, <2>1, QuotientIsNat
  <2> QED
    BY <1>2, <2>2 DEF wake
<1> QED
  BY <1>1, <1>2

(* The limit that a rate implies is a number.                              *)
LEMMA AllowedIsNat == ASSUME NEW r \in Nat PROVE AllowedFor(r) \in Nat
  BY RateAssumption, ProductIsNat DEF AllowedFor, AtLeast

(* Never more calls than the rate asks for since it was last changed, over *)
(* early breaks of the loop, limits and pauses.                            *)
RateRespected == calls_since_last_rate_change <= Expected

(* What was earned covers the calls before the last change of rate and     *)
(* what the rate asks for since then, or in a pause, what was opened.      *)
Elapsed == clock_tick - last_rate_change_time
Budget == rate_period_ms * (total_calls - calls_since_last_rate_change)
            + (IF paused THEN rate_period_ms * calls_since_last_rate_change
                         ELSE Elapsed * rate) <= earned

(* The expiry of a sleeper makes the task run: TypeOK needs that no task   *)
(* sleeps with a deadline unless there is one.                             *)
IInv == /\ TypeOK
        /\ deadline # 0 => instance
        /\ total_calls <= StopAfter
        /\ RateRespected
        /\ Budget

(* Expected is 0 when the rate was just set, and grows with the clock.     *)
LEMMA ExpectedIsNat == TypeOK => Expected \in Nat
<1>1. ASSUME TypeOK
      PROVE  clock_tick - last_rate_change_time \in Nat /\ rate \in Nat
  BY <1>1, RateAssumption DEF TypeOK
<1> QED
  BY <1>1, ProductIsNat, QuotientIsNat, RateAssumption DEF Expected

(* The clamps of run(): what it opens is missing, is within stop_after,    *)
(* and fits in the limit on open calls.                                    *)
LEMMA OpensWithinBounds ==
    ASSUME IInv
    PROVE  /\ calls_to_open \in Nat
           /\ calls_since_last_rate_change + calls_to_open <= Expected
           /\ total_calls + calls_to_open <= StopAfter
           /\ \/ calls_to_open = 0
              \/ open_calls_allowed = 0
              \/ current_calls + calls_to_open <= open_calls_allowed
<1>1. /\ Expected \in Nat /\ calls_since_last_rate_change \in Nat
      /\ calls_since_last_rate_change <= Expected
      /\ total_calls \in Nat /\ StopAfter \in Nat /\ total_calls <= StopAfter
      /\ open_calls_allowed \in Nat /\ current_calls \in Nat
  BY ExpectedIsNat, RateAssumption DEF IInv, TypeOK, RateRespected
<1> DEFINE missing == Expected - calls_since_last_rate_change
<1>2. missing \in Nat /\ AtLeast(missing, 0) = missing
  BY <1>1 DEF AtLeast
<1> QED
  BY <1>1, <1>2 DEF calls_to_open, Clamped, AtLeast, AtMost

(* The invariant holds when the test starts,                               *)
LEMMA InitIInv == Init => IInv
<1> SUFFICES ASSUME Init PROVE IInv
  OBVIOUS
<1>1. TypeOK
  <2>1. AllowedFor(StartRate) \in Nat
    BY RateAssumption, AllowedIsNat
  <2>2. running => instance
    BY DEF Init
  <2>3. running \in BOOLEAN /\ instance \in BOOLEAN
    BY DEF Init
  <2>4. 1 \in 1..MaxTick /\ 1 \in 1..1 /\ 0 \in 0..0
    BY RateAssumption
  <2>5. /\ rate \in Rates \cup {StartRate}
        /\ clock_tick \in 1..MaxTick
        /\ last_rate_change_time \in 1..clock_tick
        /\ calls_since_last_rate_change \in 0..total_calls
        /\ open_calls_allowed \in Nat
        /\ current_calls \in 0..total_calls
    BY <2>1, <2>4 DEF Init
  <2>6. /\ open_calls_user_setting \in BOOLEAN
        /\ paused \in BOOLEAN
        /\ quitting \in BOOLEAN
        /\ total_calls \in Nat
        /\ deadline \in Nat
        /\ earned \in Nat
    BY DEF Init
  <2> QED
    BY <2>2, <2>3, <2>5, <2>6 DEF TypeOK
<1>2. RateRespected
  BY <1>1, ExpectedIsNat DEF Init, RateRespected, TypeOK
<1>3. Budget
  <2>1. StartRate \in Nat /\ rate_period_ms \in Nat
    BY RateAssumption
  <2>2. 0 * StartRate = 0 /\ rate_period_ms * 0 = 0
    BY <2>1
  <2> QED
    BY <2>2 DEF Init, Budget, Elapsed
<1> QED
  BY <1>1, <1>2, <1>3, RateAssumption DEF Init, IInv

(* The actions that leave the counts, the rate and the clock alone.        *)
LEMMA ExpectedUnchanged ==
    ASSUME UNCHANGED rateVars, UNCHANGED clock_tick
    PROVE  Expected' = Expected
  BY DEF rateVars, Expected

(* Nor do they touch the budget.                                           *)
LEMMA BudgetUnchanged ==
    ASSUME UNCHANGED rateVars, UNCHANGED <<total_calls, clock_tick, paused, earned>>
    PROVE  Budget' = Budget
  BY DEF rateVars, Budget, Elapsed

(* What was opened since the last change of rate was earned, so that all   *)
(* was; a pause begins and a new count starts within the budget.           *)
LEMMA AllIsEarned ==
    ASSUME IInv
    PROVE  /\ rate_period_ms * calls_since_last_rate_change <= Elapsed * rate
           /\ rate_period_ms * total_calls <= earned
<1> DEFINE p == rate_period_ms
           T == total_calls
           s == calls_since_last_rate_change
           w == Elapsed * rate
<1>1. /\ p \in Nat \ {0} /\ T \in Nat /\ s \in Nat /\ rate \in Nat /\ Elapsed \in Nat
      /\ earned \in Nat
  BY RateAssumption DEF IInv, TypeOK, Elapsed
<1>2. w \in Nat
  BY <1>1, ProductIsNat
<1>3. s <= w \div p
  BY DEF IInv, RateRespected, Expected, Elapsed
<1> HIDE DEF w
<1>4. p * s <= w
  <2> DEFINE q == w \div p
  <2>1. q \in Nat /\ p * q <= w
    BY <1>1, <1>2
  <2>2. s <= q
    BY <1>3
  <2> HIDE DEF q
  <2>3. PICK d \in Nat : q = s + d
    <3>1. q - s \in Nat /\ q = s + (q - s)
      BY <1>1, <2>1, <2>2
    <3> QED
      BY <3>1
  <2>4. p * q = p * s + p * d /\ p * d \in Nat /\ p * s \in Nat
    BY <1>1, <2>3
  <2> QED
    BY <1>2, <2>1, <2>4
<1>5. p * (T - s) + p * s = p * T
  BY <1>1
<1>6. p * (T - s) + (IF paused THEN p * s ELSE w) <= earned
  BY DEF IInv, Budget, w
<1>7. p * (T - s) \in Int /\ p * s \in Nat
  BY <1>1
<1> QED
  BY <1>1, <1>2, <1>4, <1>5, <1>6, <1>7 DEF w

(* SetRate() starts a new count at the clock.                              *)
LEMMA SetRateRespects ==
    ASSUME IInv, NEW r \in Nat, SetRate(r), UNCHANGED clock_tick
    PROVE  RateRespected'
<1>1. clock_tick \in Nat /\ 0 * r = 0 /\ 0 \div rate_period_ms = 0
  BY RateAssumption DEF IInv, TypeOK
<1>2. Expected' = 0
  BY <1>1 DEF SetRate, Expected
<1> QED
  BY <1>2 DEF SetRate, RateRespected

(* and so within the budget of the one before;                             *)
LEMMA SetRateWithinBudget ==
    ASSUME IInv, NEW r \in Nat, SetRate(r), UNCHANGED <<total_calls, clock_tick, earned>>
    PROVE  Budget'
<1>1. /\ rate_period_ms \in Nat /\ total_calls \in Nat /\ clock_tick \in Nat
      /\ rate_period_ms * total_calls <= earned /\ earned \in Nat
  BY RateAssumption, AllIsEarned DEF IInv, TypeOK
<1>2. 0 * r = 0 /\ rate_period_ms * 0 = 0 /\ clock_tick - clock_tick = 0
      /\ total_calls - 0 = total_calls /\ rate_period_ms * total_calls \in Nat
  BY <1>1
<1>3. calls_since_last_rate_change' = 0 /\ rate' = r /\ Elapsed' = 0
  BY <1>2 DEF SetRate, Elapsed
<1>4. /\ rate_period_ms * (total_calls' - calls_since_last_rate_change')
            = rate_period_ms * total_calls
      /\ rate_period_ms * calls_since_last_rate_change' = 0
      /\ Elapsed' * rate' = 0
  BY <1>2, <1>3
<1> QED
  BY <1>1, <1>2, <1>4 DEF Budget

(* every step keeps it: the task, the calls, the operator,                 *)
LEMMA NextIInv == IInv /\ [Next]_vars => IInv'
<1> SUFFICES ASSUME IInv, [Next]_vars PROVE IInv'
  OBVIOUS
<1> USE DEF rateVars, limitVars, callVars
<1>0. /\ TypeOK /\ rate \in Nat /\ last_rate_change_time \in Nat
      /\ calls_since_last_rate_change \in Nat
  BY RateAssumption DEF IInv, TypeOK
<1>1. CASE RunQuitting
  BY <1>1, ExpectedUnchanged, BudgetUnchanged DEF RunQuitting, IInv, TypeOK, RateRespected
<1>2. CASE RunPaused
  BY <1>2, ExpectedUnchanged, BudgetUnchanged DEF RunPaused, IInv, TypeOK, RateRespected
<1>3. ASSUME NEW k \in 0..StopAfter, RunOpens(k)
      PROVE  IInv'
  <2>1. /\ k \in Nat /\ k <= calls_to_open
        /\ calls_since_last_rate_change + k <= Expected
        /\ total_calls + k <= StopAfter
    BY <1>0, <1>3, OpensWithinBounds, ExpectedIsNat, RateAssumption
       DEF RunOpens, IInv, TypeOK
  <2>2. deadline' \in Nat
    <3>1. calls_since_last_rate_change' \in Nat
      BY <1>0, <1>3, <2>1 DEF RunOpens
    <3> QED
      BY <1>0, <1>3, <3>1, WakeIsNat DEF RunOpens
  <2>3. Expected' = Expected
    BY <1>3 DEF RunOpens, Expected
  <2>4. TypeOK'
    BY <1>0, <1>3, <2>1, <2>2 DEF RunOpens, TypeOK
  <2>5. Budget'
    <3>1. total_calls' - calls_since_last_rate_change'
            = total_calls - calls_since_last_rate_change
      BY <1>0, <1>3, <2>1 DEF RunOpens, TypeOK
    <3>2. ~paused /\ ~paused' /\ Elapsed' = Elapsed /\ rate' = rate /\ earned' = earned
      BY <1>3 DEF RunOpens, Elapsed
    <3> QED
      BY <3>1, <3>2 DEF IInv, Budget
  <2> QED
    BY <1>3, <2>1, <2>3, <2>4, <2>5 DEF RunOpens, IInv, TypeOK, RateRespected
<1>4. CASE Expire
  BY <1>4, ExpectedUnchanged, BudgetUnchanged DEF Expire, IInv, TypeOK, RateRespected
<1>5. CASE Migrate
  <2>1. deadline' \in Nat
    BY <1>0, <1>5, WakeIsNat DEF Migrate
  <2> QED
    BY <1>5, <2>1, ExpectedUnchanged, BudgetUnchanged DEF Migrate, IInv, TypeOK, RateRespected
<1>6. CASE Tick
  <2> DEFINE elapsed == clock_tick - last_rate_change_time
  <2>1. elapsed \in Nat /\ clock_tick' - last_rate_change_time' = elapsed + 1
    BY <1>0, <1>6 DEF Tick, TypeOK
  <2>2. elapsed * rate \in Nat /\ (elapsed + 1) * rate \in Nat
    BY <1>0, <2>1, ProductIsNat
  <2>3. elapsed * rate <= (elapsed + 1) * rate
    BY <1>0, <2>1, ProductGrows
  <2>4. (elapsed * rate) \div rate_period_ms
          <= ((elapsed + 1) * rate) \div rate_period_ms
    <3> HIDE DEF elapsed
    <3> QED
      BY <2>2, <2>3, QuotientGrows, RateAssumption
  <2>5. Expected' = ((elapsed + 1) * rate) \div rate_period_ms
    BY <1>6, <2>1 DEF Tick, Expected
  <2>6. Expected \in Nat /\ Expected' \in Nat
    BY <1>0, <2>2, <2>5, ExpectedIsNat, QuotientIsNat, RateAssumption
  <2>7. Expected <= Expected'
    BY <2>4, <2>5 DEF Expected
  <2>8. TypeOK'
    BY <1>0, <1>6, RateAssumption DEF Tick, TypeOK
  <2>9. Budget'
    <3>1. /\ total_calls' = total_calls /\ paused' = paused /\ rate' = rate
          /\ calls_since_last_rate_change' = calls_since_last_rate_change
          /\ Elapsed' = elapsed + 1 /\ Elapsed = elapsed
      BY <1>6, <2>1 DEF Tick, Elapsed
    <3> DEFINE b == rate_period_ms * (total_calls - calls_since_last_rate_change)
    <3>2. b \in Int /\ earned \in Nat
      BY <1>0, RateAssumption DEF TypeOK
    <3> HIDE DEF b
    <3>3. CASE paused
      <4>1. earned' = earned
        BY <1>6, <3>2, <3>3 DEF Tick
      <4> QED
        BY <3>1, <3>3, <4>1 DEF IInv, Budget
    <3>4. CASE ~paused
      <4>1. b + elapsed * rate <= earned /\ earned' = earned + rate
        BY <1>6, <3>1, <3>4 DEF Tick, IInv, Budget, b
      <4>2. (elapsed + 1) * rate = elapsed * rate + rate
        BY <1>0, <2>1
      <4>3. b + (elapsed + 1) * rate <= earned'
        <5> HIDE DEF elapsed
        <5> QED
          BY <1>0, <2>2, <3>2, <4>1, <4>2
      <4> QED
        BY <3>1, <3>4, <4>3 DEF Budget, b
    <3> QED
      BY <3>3, <3>4
  <2> QED
    BY <1>0, <1>6, <2>6, <2>7, <2>8, <2>9 DEF Tick, IInv, RateRespected
<1>7. CASE CallEnds
  BY <1>7, ExpectedUnchanged, BudgetUnchanged DEF CallEnds, IInv, TypeOK, RateRespected
<1>8. ASSUME NEW r \in Rates, OperatorSetsRate(r)
      PROVE  IInv'
  <2>1. r \in Nat /\ AllowedFor(r) \in Nat
    BY RateAssumption, AllowedIsNat
  <2>2. TypeOK'
    BY <1>0, <1>8, <2>1 DEF OperatorSetsRate, SetRate, TypeOK
  <2>3. RateRespected'
    BY <1>8, <2>1, SetRateRespects DEF OperatorSetsRate
  <2>4. Budget'
    BY <1>8, <2>1, SetRateWithinBudget DEF OperatorSetsRate
  <2> QED
    BY <1>8, <2>2, <2>3, <2>4 DEF OperatorSetsRate, IInv
<1>9. ASSUME NEW n \in Limits, OperatorSetsLimit(n)
      PROVE  IInv'
  <2>1. n \in Nat
    BY RateAssumption
  <2> QED
    BY <1>9, <2>1, ExpectedUnchanged, BudgetUnchanged
       DEF OperatorSetsLimit, IInv, TypeOK, RateRespected
<1>10. CASE Pause
  <2>1. deadline' \in Nat
    BY <1>0, <1>10, WakeIsNat DEF Pause
  <2>2. Budget'
    <3> DEFINE b == rate_period_ms * (total_calls - calls_since_last_rate_change)
               e == rate_period_ms * calls_since_last_rate_change
               w == Elapsed * rate
    <3>1. /\ b' = b /\ e' = e /\ earned' = earned /\ paused' /\ ~paused
      BY <1>10 DEF Pause
    <3>2. b \in Int /\ e \in Nat /\ earned \in Nat /\ w \in Nat
      <4>1. Elapsed \in Nat /\ rate_period_ms \in Nat /\ total_calls \in Nat
        BY <1>0, RateAssumption DEF TypeOK, Elapsed
      <4> QED
        BY <1>0, <4>1, ProductIsNat DEF TypeOK
    <3>3. e <= w
      BY AllIsEarned
    <3>4. b + w <= earned
      BY <3>1 DEF IInv, Budget
    <3> HIDE DEF b, e, w
    <3>5. b + e <= earned
      BY <3>2, <3>3, <3>4
    <3> QED
      BY <3>1, <3>5 DEF Budget, b, e
  <2> QED
    BY <1>10, <2>1, <2>2, ExpectedUnchanged DEF Pause, IInv, TypeOK, RateRespected
<1>11. CASE Unpause
  <2>1. AllowedFor(rate) \in Nat
    BY <1>0, AllowedIsNat
  <2>2. TypeOK'
    <3>1. open_calls_allowed' \in Nat
      BY <1>0, <1>11, <2>1 DEF Unpause, SetRate, TypeOK
    <3>2. instance' /\ instance' \in BOOLEAN
      BY <1>0, <1>11 DEF Unpause, TypeOK
    <3>3. running' \in BOOLEAN /\ paused' \in BOOLEAN /\ quitting' \in BOOLEAN
      BY <1>0, <1>11 DEF Unpause, TypeOK
    <3> QED
      BY <1>0, <1>11, <3>1, <3>2, <3>3 DEF Unpause, SetRate, TypeOK
  <2>3. RateRespected'
    BY <1>0, <1>11, SetRateRespects DEF Unpause
  <2>4. Budget'
    BY <1>0, <1>11, SetRateWithinBudget DEF Unpause
  <2> QED
    BY <1>11, <2>2, <2>3, <2>4 DEF Unpause, IInv
<1>12. CASE Quit
  BY <1>12, ExpectedUnchanged, BudgetUnchanged DEF Quit, IInv, TypeOK, RateRespected
<1>13. CASE UNCHANGED vars
  BY <1>13, ExpectedUnchanged, BudgetUnchanged DEF vars, IInv, TypeOK, RateRespected
<1> QED
  BY <1>1, <1>2, <1>3, <1>4, <1>5, <1>6, <1>7, <1>8, <1>9, <1>10, <1>11,
     <1>12, <1>13 DEF Next, RunTask

(* so that it always holds.                                                *)
LEMMA Invariance == Spec => []IInv
  BY InitIInv, NextIInv, PTL DEF Spec

(* The types, and the order of the counts: no more calls are open, or are  *)
(* counted since the last change of rate, than were created.               *)
THEOREM Types == Spec => []TypeOK
<1>1. IInv => TypeOK
  BY DEF IInv
<1> QED
  BY <1>1, Invariance, PTL

(* NoBurst, for every rate and period and whatever the operator does: over *)
(* the whole run no more calls than the rates asked for outside of pauses  *)
(* (set_paused, set_rate, run).                                            *)
THEOREM RateHolds == Spec => []NoBurst
<1>1. IInv => NoBurst
  <2> SUFFICES ASSUME IInv PROVE NoBurst
    OBVIOUS
  <2>1. rate_period_ms * total_calls <= earned
    BY AllIsEarned
  <2>2. rate_period_ms * total_calls = total_calls * rate_period_ms
    BY RateAssumption DEF IInv, TypeOK
  <2> QED
    BY <2>1, <2>2 DEF NoBurst
<1> QED
  BY <1>1, Invariance, PTL

(* -m is "Stop the test and exit when 'calls' calls are processed"         *)
(* (sipp.cpp:282): no more are ever created, whatever the breaks of the    *)
(* loop of run() and the changes of rate and limit.                        *)
THEOREM NeverPastStop == Spec => [](total_calls <= StopAfter)
<1>1. IInv => total_calls <= StopAfter
  BY DEF IInv
<1> QED
  BY <1>1, Invariance, PTL

(* LimitRespected, for every limit, set by the operator or by the rate.    *)
THEOREM LimitHolds == Spec => LimitRespected
<1>1. ASSUME IInv, [Next]_vars, total_calls' > total_calls
      PROVE  open_calls_allowed = 0 \/ current_calls' <= open_calls_allowed
  <2>1. total_calls \in Nat
    BY <1>1 DEF IInv, TypeOK
  <2>2. PICK k \in 0..StopAfter : RunOpens(k)
    BY <1>1, <2>1 DEF Next, RunTask, RunQuitting, RunPaused, Expire, Migrate, Tick,
       CallEnds, OperatorSetsRate, OperatorSetsLimit, Pause, Unpause, Quit,
       vars, callVars
  <2> QED
    BY <1>1, <2>1, <2>2, OpensWithinBounds, RateAssumption DEF RunOpens, IInv, TypeOK
<1>2. IInv /\ [Next]_vars =>
        [total_calls' > total_calls =>
           open_calls_allowed = 0 \/ current_calls' <= open_calls_allowed]_vars
  BY <1>1
<1> QED
  BY <1>2, Invariance, PTL DEF Spec, LimitRespected
=============================================================================
