------------------------ MODULE LooseSequenceProofs ------------------------
(***************************************************************************)
(* Proofs about LooseSequence, for every scenario the loader accepts and   *)
(* every number of calls, copies and strays: where a call waits, what it   *)
(* skips, and that it keeps the order of each dialog.                      *)
(***************************************************************************)
EXTENDS LooseSequence, FiniteSetTheorems, TLAPS

(* Every set of naturals has a least element.                              *)
LEMMA Least ==
    ASSUME NEW S \in SUBSET Nat, S # {}
    PROVE  \E m \in S : \A k \in S : m <= k
<1> DEFINE R == {p \in Nat \X Nat : p[1] < p[2]}
<1>1. IsWellFoundedOn(R, Nat)
  BY NatLessThanWellFounded DEF OpToRel
<1>2. PICK m \in S : \A k \in S : <<k, m>> \notin R
  <2> HIDE DEF R
  <2> QED
    BY <1>1, WFMin
<1>3. \A k \in S : ~(k < m)
  BY <1>2
<1> QED
  BY <1>3

(* Min of module FiniteSetsExt is the least element.                       *)
LEMMA MinIsLeast ==
    ASSUME NEW S \in SUBSET Nat, S # {}
    PROVE  Min(S) \in S /\ \A k \in S : Min(S) <= k
BY Least DEF Min

(* Max of the same module is the greatest, if there is a bound.            *)
LEMMA MaxIsGreatest ==
    ASSUME NEW n \in Nat, NEW S \in SUBSET (0..n), S # {}
    PROVE  Max(S) \in S /\ \A k \in S : k <= Max(S)
<1> DEFINE T == {n - k : k \in S}
<1>0. \A k \in S : k \in 0..n
  OBVIOUS
<1>1. T \in SUBSET Nat /\ T # {}
  <2>1. \A k \in S : n - k \in Nat
    BY <1>0
  <2> QED
    BY <2>1
<1>2. PICK t \in T : \A k \in T : t <= k
  <2> HIDE DEF T
  <2> QED
    BY <1>1, Least
<1>3. PICK m \in S : t = n - m
  OBVIOUS
<1>4. \A k \in S : m >= k
  <2> SUFFICES ASSUME NEW k \in S PROVE m >= k
    OBVIOUS
  <2>1. t <= n - k
    BY <1>2
  <2>2. m \in Int /\ k \in Int /\ n \in Int
    BY <1>0
  <2> QED
    BY <1>3, <2>1, <2>2
<1>5. \E x \in S : \A y \in S : x >= y
  BY <1>4
<1>6. Max(S) \in S /\ \A y \in S : Max(S) >= y
  BY <1>5 DEF Max
<1>7. \A x, y \in S : x >= y => y <= x
  BY <1>0
<1> QED
  BY <1>6, <1>7

-----------------------------------------------------------------------------
(***************************************************************************)
(* The scenario, and the counters a call is advanced by: recv is how often *)
(* an element was received, n the number of calls.                         *)
(***************************************************************************)
LEMMA ScenarioFacts ==
    ASSUME scenario \in Scenarios
    PROVE  /\ Last \in Nat /\ 1 <= Last
           /\ Sends(1)
           /\ \A i \in Elements : /\ Type(i) \in {"send", "recv", "pause", "nop"}
                                  /\ Optional(i) \in BOOLEAN
                                  /\ Optional(i) => Receives(i)
                                  /\ Dialog(i) # None
<1>1. /\ Len(scenario) \in Nat \ {0} /\ DOMAIN scenario = 1..Len(scenario)
      /\ scenario[1].type = "send"
      /\ \A i \in DOMAIN scenario :
           /\ scenario[i].type \in {"send", "recv", "pause", "nop"}
           /\ scenario[i].optional \in BOOLEAN
           /\ scenario[i].optional => scenario[i].type = "recv"
           /\ scenario[i].dialog # None
  BY LooseAssumption
<1> QED
  BY <1>1 DEF Last, Elements, Sends, Type, Optional, Receives, Dialog

Walkable(recv, n) ==
    /\ scenario \in Scenarios
    /\ recv \in [Elements -> Nat]
    /\ n \in Nat /\ n > 0
    /\ \A i \in Elements : ~Receives(i) => recv[i] = 0

(* What a call goes past without doing it.                                 *)
Skipped(recv, n, i) == Receives(i) /\ ~Unreceived(recv, n, i)

(* The next mandatory message from p on, past optional ones.               *)
NextMandatory(p, k) ==
    /\ k \in Elements /\ p <= k /\ Receives(k) /\ ~Optional(k)
    /\ \A j \in Elements : p <= j /\ j < k => Optional(j)

(* Whoever waits at p does not wait for what came.                         *)
NothingCame(recv, n, p) ==
    \A k \in Elements : NextMandatory(p, k) => Unreceived(recv, n, k)

(* get_last_insequence_received_message(): only messages are skipped, and  *)
(* the search goes as far as it can.                                       *)
LEMMA LastInSequence ==
    ASSUME NEW recv, NEW n, Walkable(recv, n), NEW from \in Elements,
           NEW last, last = get_last_insequence_received_message(recv, n, from)
    PROVE  /\ last \in Elements /\ from <= last
           /\ \A j \in Elements : from < j /\ j <= last => Skipped(recv, n, j)
           /\ last = from \/ (Receives(last) /\ ~Optional(last))
           /\ IF Receives(from) /\ Unreceived(recv, n, from)
                THEN last = from ELSE NothingCame(recv, n, last + 1)
<1> DEFINE S == {from} \cup
                {k \in (from + 1)..Last :
                   /\ ~Optional(k)
                   /\ \A j \in (from + 1)..k : ~Sends(j) /\ ~Unreceived(recv, n, j)}
<1>1. /\ Last \in Nat /\ 1 <= Last /\ from \in Nat /\ from <= Last /\ 1 <= from
      /\ \A i \in Elements : i \in Nat /\ 1 <= i /\ i <= Last
  BY ScenarioFacts DEF Walkable, Elements
<1>2. CASE Receives(from) /\ Unreceived(recv, n, from)
  BY <1>1, <1>2 DEF get_last_insequence_received_message
<1>3. CASE ~(Receives(from) /\ Unreceived(recv, n, from))
  <2>1. last = Max(S)
    BY <1>3 DEF get_last_insequence_received_message
  <2>2. S \in SUBSET (0..Last) /\ S # {}
    BY <1>1
  <2>3. last \in S /\ \A k \in S : k <= last
    <3> HIDE DEF S
    <3> QED
      BY <1>1, <2>1, <2>2, MaxIsGreatest
  <2>4. last \in Elements /\ from <= last
    BY <1>1, <2>3 DEF Elements
  <2>5. ASSUME NEW j \in Elements, from < j, j <= last
        PROVE  Skipped(recv, n, j)
    <3>1. last # from /\ last \in (from + 1)..Last
      BY <1>1, <2>3, <2>4, <2>5
    <3>2. j \in (from + 1)..last
      BY <1>1, <2>4, <2>5
    <3>3. ~Sends(j) /\ ~Unreceived(recv, n, j)
      BY <2>3, <3>1, <3>2
    <3>4. Receives(j)
      <4>1. CASE Optional(j)
        BY <4>1, ScenarioFacts DEF Walkable
      <4>2. CASE ~Optional(j)
        <5>1. ~(recv[j] < n)
          BY <3>3, <4>2 DEF Unreceived
        <5>2. recv[j] # 0
          BY <5>1 DEF Walkable
        <5> QED
          BY <5>2 DEF Walkable
      <4> QED
        BY <4>1, <4>2
    <3> QED
      BY <3>3, <3>4 DEF Skipped
  <2>6. last = from \/ (Receives(last) /\ ~Optional(last))
    <3>1. CASE last # from
      <4>1. ~Optional(last) /\ from < last
        BY <1>1, <2>3, <2>4, <3>1
      <4>2. Skipped(recv, n, last)
        BY <1>1, <2>4, <2>5, <4>1
      <4> QED
        BY <4>1, <4>2 DEF Skipped
    <3> QED
      BY <3>1
  <2>7. NothingCame(recv, n, last + 1)
    <3> SUFFICES ASSUME NEW k \in Elements, NextMandatory(last + 1, k),
                        ~Unreceived(recv, n, k)
                 PROVE  FALSE
      BY DEF NothingCame
    <3>1. last < k /\ Receives(k) /\ ~Optional(k)
      BY <1>1, <2>4 DEF NextMandatory
    <3>2. ASSUME NEW j \in (from + 1)..k
          PROVE  ~Sends(j) /\ ~Unreceived(recv, n, j)
      <4>1. j \in Elements /\ from < j /\ j <= k
        BY <1>1, <3>2 DEF Elements
      <4>2. CASE j <= last
        <5>1. Skipped(recv, n, j)
          BY <2>5, <4>1, <4>2
        <5> QED
          BY <5>1 DEF Skipped, Sends, Receives
      <4>3. CASE last < j /\ j < k
        <5>1. last + 1 <= j
          BY <1>1, <2>4, <4>1, <4>3
        <5>2. Optional(j)
          BY <4>1, <4>3, <5>1 DEF NextMandatory
        <5>3. Receives(j)
          BY <4>1, <5>2, ScenarioFacts DEF Walkable
        <5> QED
          BY <5>2, <5>3 DEF Unreceived, Sends, Receives
      <4>4. CASE j = k
        BY <3>1, <4>4 DEF Sends, Receives
      <4> QED
        BY <1>1, <2>4, <4>1, <4>2, <4>3, <4>4
    <3>3. k \in (from + 1)..Last
      BY <1>1, <2>4, <3>1
    <3>4. k \in S
      BY <3>1, <3>2, <3>3
    <3>5. k <= last
      BY <2>3, <3>4
    <3> QED
      BY <1>1, <2>4, <3>1, <3>5
  <2> QED
    BY <1>3, <2>4, <2>5, <2>6, <2>7
<1> QED
  BY <1>2, <1>3

(* next(): past skipped messages only.                                     *)
LEMMA NextIndexFacts ==
    ASSUME NEW recv, NEW n, Walkable(recv, n), NEW i \in Elements,
           NEW next, next = NextIndex(recv, n, i)
    PROVE  /\ next \in 1..(Last + 1) /\ i < next
           /\ \A j \in Elements : i < j /\ j < next => Skipped(recv, n, j)
           /\ ~Receives(i) => NothingCame(recv, n, next)
<1>1. /\ Last \in Nat /\ 1 <= Last
      /\ \A k \in Elements : k \in Nat /\ 1 <= k /\ k <= Last
  BY ScenarioFacts DEF Walkable, Elements
<1>2. CASE Receives(i)
  <2>1. next = 1 + i
    BY <1>2 DEF NextIndex
  <2> QED
    BY <1>1, <1>2, <2>1
<1>3. CASE ~Receives(i)
  <2> DEFINE last == get_last_insequence_received_message(recv, n, i)
  <2>1. next = 1 + last
    BY <1>3 DEF NextIndex
  <2>2. /\ last \in Elements /\ i <= last
        /\ \A j \in Elements : i < j /\ j <= last => Skipped(recv, n, j)
        /\ NothingCame(recv, n, last + 1)
    <3> HIDE DEF last
    <3> QED
      BY <1>3, LastInSequence DEF last
  <2> HIDE DEF last
  <2>3. next = last + 1
    BY <1>1, <2>1, <2>2
  <2> QED
    BY <1>1, <2>2, <2>3
<1> QED
  BY <1>2, <1>3

-----------------------------------------------------------------------------
(***************************************************************************)
(* The elements that a call goes through at once.                          *)
(***************************************************************************)
Goes(i) == i \in Elements /\ Type(i) \in {"send", "nop"}

(* The recursion of Reached has a value: at i the least set that has i and *)
(* is closed under next().                                                 *)
LEMMA ReachedUnfolds ==
    ASSUME NEW recv, NEW n, Walkable(recv, n), NEW i \in 1..(Last + 1)
    PROVE  Reached(recv, n, i) =
             {i} \cup (IF Goes(i) THEN Reached(recv, n, NextIndex(recv, n, i)) ELSE {})
<1> DEFINE D == 1..(Last + 1)
           Step(f, k) == {k} \cup (IF k \in Elements /\ Type(k) \in {"send", "nop"}
                                   THEN f[NextIndex(recv, n, k)] ELSE {})
           reached == CHOOSE f : f = [k \in D |-> Step(f, k)]
           Closed(T) == \A k \in T : Goes(k) => NextIndex(recv, n, k) \in T
           g == [k \in D |-> {m \in D : \A T \in SUBSET D : k \in T /\ Closed(T) => m \in T}]
<1>1. \A k \in D : Goes(k) => NextIndex(recv, n, k) \in D
  BY NextIndexFacts DEF Goes
<1>2. ASSUME NEW k \in D
      PROVE  g[k] = Step(g, k)
  <2>1. CASE ~Goes(k)
    <3>1. {k} \in SUBSET D /\ Closed({k})
      BY <2>1
    <3>2. k \in g[k] /\ \A m \in g[k] : m \in {k}
      BY <3>1
    <3>3. Step(g, k) = {k}
      BY <2>1 DEF Goes
    <3> QED
      BY <3>2, <3>3
  <2>2. CASE Goes(k)
    <3> DEFINE next == NextIndex(recv, n, k)
               W == {k} \cup g[next]
    <3>1. next \in D
      BY <1>1, <2>2
    <3>2. Step(g, k) = W
      BY <2>2 DEF Goes
    <3>3. W \in SUBSET D /\ k \in W
      BY <3>1
    <3>4. next \in g[next]
      BY <3>1
    <3>5. Closed(W)
      <4> SUFFICES ASSUME NEW m \in W, Goes(m)
                   PROVE  NextIndex(recv, n, m) \in W
        OBVIOUS
      <4>1. CASE m = k
        BY <3>4, <4>1
      <4>2. CASE m \in g[next]
        <5>1. m \in D /\ NextIndex(recv, n, m) \in D
          BY <1>1, <3>1, <4>2
        <5>2. ASSUME NEW T \in SUBSET D, next \in T, Closed(T)
              PROVE  NextIndex(recv, n, m) \in T
          <6>1. m \in T
            BY <3>1, <4>2, <5>2
          <6> QED
            BY <5>2, <6>1
        <5>3. NextIndex(recv, n, m) \in g[next]
          BY <3>1, <5>1, <5>2
        <5> QED
          BY <5>3
      <4> QED
        BY <4>1, <4>2
    <3>6. \A m \in g[k] : m \in W
      BY <3>3, <3>5
    <3>7. ASSUME NEW m \in W
          PROVE  m \in g[k]
      <4>1. ASSUME NEW T \in SUBSET D, k \in T, Closed(T)
            PROVE  m \in T
        <5>1. next \in T
          BY <2>2, <4>1
        <5>2. CASE m \in g[next]
          BY <3>1, <4>1, <5>1, <5>2
        <5> QED
          BY <4>1, <5>2
      <4> QED
        BY <3>3, <4>1
    <3> HIDE DEF W
    <3> QED
      BY <3>2, <3>6, <3>7
  <2> QED
    BY <2>1, <2>2
<1>3. reached = [k \in D |-> Step(reached, k)]
  <2>1. g = [k \in D |-> Step(g, k)]
    BY <1>2
  <2> HIDE DEF g, Step
  <2> QED
    BY <2>1
<1>4. \A k : Reached(recv, n, k) = reached[k]
  BY DEF Reached
<1>5. Reached(recv, n, i) = Step(reached, i)
  <2> HIDE DEF reached, Step
  <2> QED
    BY <1>3, <1>4
<1>6. Step(reached, i) = {i} \cup (IF Goes(i) THEN reached[NextIndex(recv, n, i)] ELSE {})
  <2> HIDE DEF reached
  <2> QED
    BY DEF Goes
<1> HIDE DEF reached, Step
<1> QED
  BY <1>4, <1>5, <1>6

(* What it does on its way is its own, the rest it skips.                  *)
GoneBy(recv, n, i, k) ==
    IF k \in Reached(recv, n, i) THEN ~Receives(k) ELSE Skipped(recv, n, k)

(* Where a call comes to that goes on at i.                                *)
Arrives(recv, n, i, at) ==
    /\ at \in Reached(recv, n, i) /\ at \in 1..(Last + 1) /\ i <= at
    /\ \A k \in Reached(recv, n, i) : k \in i..at
    /\ at \in Elements => Type(at) \in {"recv", "pause"}
    /\ \A k \in Elements : i <= k /\ k < at => GoneBy(recv, n, i, k)
    /\ i = at \/ NothingCame(recv, n, at)

(* From every element a call comes to one where it waits, or to the end.   *)
LEMMA EveryoneArrives ==
    ASSUME NEW recv, NEW n, Walkable(recv, n), NEW i \in 1..(Last + 1)
    PROVE  \E at : Arrives(recv, n, i, at)
<1> DEFINE Bad == {d \in Nat : /\ Last + 1 - d \in 1..(Last + 1)
                               /\ ~\E at : Arrives(recv, n, Last + 1 - d, at)}
<1>1. /\ Last \in Nat /\ 1 <= Last
      /\ \A k \in Elements : k \in Nat /\ 1 <= k /\ k <= Last
  BY ScenarioFacts DEF Walkable, Elements
<1>2. SUFFICES ASSUME Bad # {} PROVE FALSE
  <2>1. Last + 1 - i \in Nat /\ Last + 1 - (Last + 1 - i) = i
    BY <1>1
  <2> QED
    BY <2>1
<1>3. PICK d \in Bad : \A c \in Bad : d <= c
  <2>1. Bad \in SUBSET Nat
    OBVIOUS
  <2> HIDE DEF Bad
  <2> QED
    BY <1>2, <2>1, Least
<1> DEFINE j == Last + 1 - d
<1>4. j \in 1..(Last + 1) /\ ~\E at : Arrives(recv, n, j, at)
  OBVIOUS
<1>5. d \in Nat
  OBVIOUS
<1>6. CASE ~Goes(j)
  <2>1. Reached(recv, n, j) = {j}
    <3> HIDE DEF j
    <3> QED
      BY <1>4, <1>6, ReachedUnfolds
  <2>2. j \in Elements => Type(j) \in {"recv", "pause"}
    <3> HIDE DEF j
    <3> QED
      BY <1>6, ScenarioFacts DEF Walkable, Goes
  <2>3. Arrives(recv, n, j, j)
    <3> HIDE DEF j
    <3> QED
      BY <1>1, <1>4, <2>1, <2>2 DEF Arrives
  <2> QED
    BY <1>4, <2>3
<1>7. CASE Goes(j)
  <2> DEFINE next == NextIndex(recv, n, j)
  <2>1. j \in Elements /\ ~Receives(j) /\ j \in Nat
    <3> HIDE DEF j
    <3> QED
      BY <1>1, <1>7 DEF Goes, Receives
  <2>2. /\ next \in 1..(Last + 1) /\ j < next
        /\ \A k \in Elements : j < k /\ k < next => Skipped(recv, n, k)
        /\ NothingCame(recv, n, next)
    <3> HIDE DEF j, next
    <3> QED
      BY <2>1, NextIndexFacts DEF next
  <2>3. PICK at : Arrives(recv, n, next, at)
    <3>1. Last + 1 - next \in Nat /\ Last + 1 - (Last + 1 - next) = next
          /\ Last + 1 - next < d
      <4> HIDE DEF next
      <4> QED
        BY <1>1, <1>4, <1>5, <2>2
    <3>2. Last + 1 - next \notin Bad
      <4> HIDE DEF Bad, j, next
      <4>1. Bad \in SUBSET Nat
        BY DEF Bad
      <4> QED
        BY <1>3, <1>5, <3>1, <4>1
    <3> HIDE DEF j, next
    <3> QED
      BY <2>2, <3>1, <3>2
  <2>4. Reached(recv, n, j) = {j} \cup Reached(recv, n, next)
    <3> HIDE DEF j
    <3> QED
      BY <1>4, <1>7, ReachedUnfolds
  <2> HIDE DEF next
  <2>5. next \in Nat /\ at \in Nat /\ next <= at
    BY <2>2, <2>3 DEF Arrives
  <2>6. \A k \in Reached(recv, n, j) : k \in j..at
    <3> HIDE DEF j
    <3> QED
      BY <1>1, <2>1, <2>2, <2>3, <2>4, <2>5 DEF Arrives
  <2>7. ASSUME NEW k \in Elements, j <= k, k < at
        PROVE  GoneBy(recv, n, j, k)
    <3> HIDE DEF j
    <3>1. CASE k = j
      BY <2>1, <2>4, <3>1 DEF GoneBy
    <3>2. CASE j < k /\ k < next
      <4>1. k \notin Reached(recv, n, next)
        BY <1>1, <2>3, <2>5, <3>2 DEF Arrives
      <4>2. k # j /\ k \notin Reached(recv, n, j)
        BY <1>1, <2>1, <2>4, <3>2, <4>1
      <4> QED
        BY <2>2, <3>2, <4>2 DEF GoneBy
    <3>3. CASE next <= k
      <4>1. k # j
        BY <1>1, <2>1, <2>2, <2>5, <3>3
      <4>2. k \in Reached(recv, n, j) <=> k \in Reached(recv, n, next)
        BY <2>4, <4>1
      <4>3. GoneBy(recv, n, next, k)
        BY <2>3, <2>7, <3>3 DEF Arrives
      <4> QED
        BY <4>2, <4>3 DEF GoneBy
    <3>4. k = j \/ (j < k /\ k < next) \/ next <= k
      BY <1>1, <2>1, <2>5, <2>7
    <3> QED
      BY <3>1, <3>2, <3>3, <3>4
  <2>8. NothingCame(recv, n, at)
    BY <2>2, <2>3 DEF Arrives
  <2>9. j <= at /\ at \in Reached(recv, n, j)
    <3> HIDE DEF j
    <3> QED
      BY <2>1, <2>2, <2>3, <2>4, <2>5 DEF Arrives
  <2>10. Arrives(recv, n, j, at)
    <3> HIDE DEF j
    <3> QED
      BY <2>3, <2>6, <2>7, <2>8, <2>9 DEF Arrives
  <2> QED
    BY <1>4, <2>10
<1> QED
  BY <1>6, <1>7

(* Runs(): the call waits where it comes to, and has done all on its way   *)
(* that is its own.                                                        *)
LEMMA RunsFacts ==
    ASSUME NEW recv, NEW n, Walkable(recv, n), NEW first \in 1..(Last + 1),
           NEW ids, NEW past, Runs(recv, n, first, ids, past)
    PROVE  /\ Arrives(recv, n, first, msg_index')
           /\ msg_index' \in 1..(Last + 1) /\ first <= msg_index'
           /\ executed' = past \cup {k \in Elements : /\ first <= k /\ k <= msg_index'
                                                      /\ ~Receives(k)}
           /\ paused' \in BOOLEAN
           /\ paused' => msg_index' \in Elements /\ Type(msg_index') = "pause"
           /\ outcome' \in {"open", "success"}
           /\ outcome' = "open" <=> msg_index' \in Elements
           /\ call_ids' = [d \in Dialogs |-> call_ids'[d]]
           /\ \A d \in Dialogs : call_ids'[d] \in {ids[d], d}
<1>1. /\ Last \in Nat /\ 1 <= Last
      /\ \A k \in Elements : k \in Nat /\ 1 <= k /\ k <= Last
  BY ScenarioFacts DEF Walkable, Elements
<1> DEFINE reached == Reached(recv, n, first)
           own == {k \in reached \cap Elements : ~Receives(k)}
<1>2. /\ msg_index' = Max(reached)
      /\ executed' = past \cup own
      /\ paused' = (Max(reached) \in own)
      /\ outcome' = IF Max(reached) > Last THEN "success" ELSE "open"
      /\ call_ids' = [d \in Dialogs |->
                         IF ids[d] = None /\ \E k \in own : Sends(k) /\ Dialog(k) = d
                         THEN d ELSE ids[d]]
  BY DEF Runs
<1>3. PICK at : Arrives(recv, n, first, at)
  BY EveryoneArrives
<1>4. Max(reached) = at
  <2>1. \A k \in reached : k \in 0..(Last + 1)
    BY <1>1, <1>3 DEF Arrives
  <2>2. at \in reached /\ \A k \in reached : k <= at
    BY <1>1, <1>3 DEF Arrives
  <2>3. reached \in SUBSET (0..(Last + 1)) /\ reached # {}
    BY <2>1, <2>2
  <2>4. Max(reached) \in reached /\ \A k \in reached : k <= Max(reached)
    <3>1. Last + 1 \in Nat
      BY <1>1
    <3> HIDE DEF reached
    <3> QED
      BY <2>3, <3>1, MaxIsGreatest
  <2> HIDE DEF reached
  <2> DEFINE m == Max(reached)
  <2>5. m \in Nat /\ at \in Nat /\ m <= at /\ at <= m
    <3>1. m \in reached /\ at <= m
      BY <2>2, <2>4
    <3> HIDE DEF m
    <3> QED
      BY <1>1, <2>1, <2>2, <3>1
  <2> HIDE DEF m
  <2>6. m = at
    BY <2>5
  <2> QED
    BY <2>6 DEF m
<1>5. Arrives(recv, n, first, msg_index') /\ msg_index' = at
  BY <1>2, <1>3, <1>4
<1>6. at \in 1..(Last + 1) /\ first <= at /\ at \in reached
  BY <1>3 DEF Arrives
<1>7. own = {k \in Elements : first <= k /\ k <= at /\ ~Receives(k)}
  <2>1. ASSUME NEW k \in own
        PROVE  first <= k /\ k <= at
    <3>1. k \in first..at
      BY <1>3 DEF Arrives
    <3> QED
      BY <1>6, <3>1
  <2>2. ASSUME NEW k \in Elements, first <= k, k <= at, ~Receives(k)
        PROVE  k \in reached
    <3>1. CASE k = at
      BY <1>6, <3>1
    <3>2. CASE k # at
      <4>1. k < at
        BY <1>1, <1>6, <2>2, <3>2
      <4>2. GoneBy(recv, n, first, k)
        BY <1>3, <2>2, <4>1 DEF Arrives
      <4> QED
        BY <2>2, <4>2 DEF GoneBy, Skipped
    <3> QED
      BY <3>1, <3>2
  <2> HIDE DEF reached
  <2> QED
    BY <2>1, <2>2
<1>8. paused' \in BOOLEAN
  BY <1>2
<1>9. paused' => at \in Elements /\ Type(at) = "pause"
  <2>1. ASSUME at \in own
        PROVE  at \in Elements /\ Type(at) = "pause"
    BY <1>3, <2>1 DEF Arrives, Receives
  <2> HIDE DEF reached, own
  <2> QED
    BY <1>2, <1>4, <2>1
<1>10. at \in Elements <=> ~(at > Last)
  BY <1>1, <1>6 DEF Elements
<1>11. outcome' = IF at > Last THEN "success" ELSE "open"
  BY <1>2, <1>4
<1>12. outcome' \in {"open", "success"} /\ (outcome' = "open" <=> at \in Elements)
  BY <1>10, <1>11
<1>13. executed' = past \cup {k \in Elements : first <= k /\ k <= at /\ ~Receives(k)}
  <2> HIDE DEF own
  <2> QED
    BY <1>2, <1>7
<1>14. /\ call_ids' = [d \in Dialogs |-> call_ids'[d]]
       /\ \A d \in Dialogs : call_ids'[d] \in {ids[d], d}
  <2> HIDE DEF own
  <2> QED
    BY <1>2
<1> QED
  BY <1>5, <1>6, <1>8, <1>9, <1>12, <1>13, <1>14

-----------------------------------------------------------------------------
(***************************************************************************)
(* Types, and the counters.                                                *)
(***************************************************************************)
Mandatory(i) == Receives(i) /\ ~Optional(i)

(* An element other than <recv> is never received, and a mandatory one not *)
(* more often than there were calls.                                       *)
Counts(recv, bef, n) ==
    \A i \in Elements : /\ bef[i] <= recv[i]
                        /\ ~Receives(i) => recv[i] = 0
                        /\ Mandatory(i) => recv[i] <= n

TInv == /\ TypeOK
        /\ scenario \in Scenarios
        /\ Counts(nb_recv, before, calls)
        /\ outcome # "none" => calls > 0
        /\ outcome = "open" => Type(msg_index) \in {"recv", "pause"}

(* The next state has the types if its values have, as the scenario stays. *)
LEMMA TypesFrom ==
    ASSUME scenario' = scenario,
           calls' \in 0..Calls,
           outcome' \in {"none", "open", "success", "failed"},
           msg_index' \in 1..(Last + 1), outcome' = "open" => msg_index' \in Elements,
           nb_recv' \in [Elements -> Nat], before' \in [Elements -> Nat],
           paused' \in BOOLEAN, outcome' = "open" /\ paused' => Type(msg_index') = "pause",
           call_ids' \in [Dialogs -> Dialogs \cup {None}],
           executed' \subseteq {i \in Elements : ~Receives(i)},
           delivered' \subseteq {i \in Elements : Receives(i)},
           recvhash' \subseteq {Message(i, c) : i \in Elements, c \in 0..MaxStrays},
           strays' \in 0..MaxStrays
    PROVE  TypeOK'
BY SMTT(40) DEF TypeOK, Last, Elements, Type, Receives, Sends, Dialogs, Dialog, Message

(* and likewise the rest of the invariant.                                 *)
LEMMA TInvFrom ==
    ASSUME scenario' = scenario, scenario \in Scenarios, TypeOK',
           Counts(nb_recv', before', calls'),
           outcome' # "none" => calls' > 0,
           outcome' = "open" => Type(msg_index') \in {"recv", "pause"}
    PROVE  TInv'
BY DEF TInv, Counts, Mandatory, Last, Elements, Type, Receives, Optional

(* The counters let the call be advanced.                                  *)
LEMMA CountersWalkable ==
    ASSUME TInv, NEW n \in Nat, n > 0
    PROVE  Walkable(nb_recv, n)
BY DEF TInv, TypeOK, Walkable, Counts

(* What a peer may send: the message of an element, new or again.          *)
FromPeer(m) == \E k \in Elements, c \in 0..MaxStrays : Receives(k) /\ m = Message(k, c)

(* The element that takes a message.                                       *)
Takes(i, m) == Candidates(m) # {} /\ i = Min(Candidates(m))

(* It is one of the candidates, and the first.                             *)
LEMMA TakesFacts ==
    ASSUME TInv, outcome = "open", NEW m, NEW i, Takes(i, m)
    PROVE  /\ i \in Elements /\ msg_index <= i /\ Receives(i)
           /\ i \in Candidates(m) /\ \A j \in Candidates(m) : i <= j
<1>1. /\ Last \in Nat /\ 1 <= Last /\ msg_index \in Nat /\ 1 <= msg_index
      /\ \A k \in Elements : k \in Nat /\ 1 <= k /\ k <= Last
  BY ScenarioFacts DEF TInv, TypeOK, Elements
<1>2. ASSUME NEW k \in Candidates(m)
      PROVE  k \in Elements /\ k \in Nat /\ msg_index <= k /\ Receives(k)
  <2>1. k \in msg_index..Last /\ Receives(k)
    BY DEF Candidates, matches_scenario
  <2> QED
    BY <1>1, <2>1 DEF Elements
<1>3. Candidates(m) \in SUBSET Nat
  BY <1>2
<1>4. i \in Candidates(m) /\ \A j \in Candidates(m) : i <= j
  BY <1>3, MinIsLeast DEF Takes
<1> QED
  BY <1>2, <1>4

(* How the call goes on after a message that element i took: recv and ids  *)
(* are the counters and Call-IDs then, last is how far it can go.          *)
Stays(i, last) == last < i \/ (i = msg_index /\ Optional(i))
GoesOn(i, m, recv, ids, last) ==
    /\ recv = [nb_recv EXCEPT ![i] = @ + 1] /\ nb_recv' = recv
    /\ ids = [call_ids EXCEPT ![Dialog(i)] = m.call_id]
    /\ last = get_last_insequence_received_message(recv, calls, msg_index)
    /\ recvhash' = recvhash \cup {m}
    /\ Stays(i, last) => Waits(i, last, ids)
    /\ ~Stays(i, last) => Runs(recv, calls, NextIndex(recv, calls, last), ids, executed)

(* An incoming message is taken, absorbed or fatal.                        *)
LEMMA IncomingCases ==
    ASSUME NEW m, process_incoming(m)
    PROVE  /\ outcome = "open" /\ UNCHANGED <<scenario, calls, before>>
           /\ \/ \E i, recv, ids, last : Takes(i, m) /\ GoesOn(i, m, recv, ids, last)
              \/ Candidates(m) = {} /\ m \in recvhash /\ UNCHANGED callvars
              \/ /\ Candidates(m) = {} /\ m \notin recvhash /\ outcome' = "failed"
                 /\ UNCHANGED <<msg_index, executed, paused, call_ids, recvhash, nb_recv>>
<1>1. CASE Candidates(m) # {}
  <2>1. Match(Min(Candidates(m)), m)
    BY <1>1 DEF process_incoming
  <2>2. \E recv, ids, last : GoesOn(Min(Candidates(m)), m, recv, ids, last)
    BY <2>1 DEF Match, GoesOn, Stays
  <2> QED
    BY <1>1, <2>2 DEF process_incoming, Takes
<1>2. CASE Candidates(m) = {}
  BY <1>2 DEF process_incoming, Unexpected
<1> QED
  BY <1>1, <1>2

(* A message that is taken is counted, and leaves the call at an element   *)
(* at which it may wait.                                                   *)
LEMMA TakenFacts ==
    ASSUME TInv, outcome = "open", NEW m, NEW i, Takes(i, m),
           NEW recv, NEW ids, NEW last, GoesOn(i, m, recv, ids, last)
    PROVE  /\ i \in Elements /\ Receives(i) /\ msg_index <= i /\ msg_index \in Elements
           /\ Walkable(recv, calls) /\ Counts(recv, before, calls)
           /\ recv[i] = nb_recv[i] + 1
           /\ \A k \in Elements : k # i => recv[k] = nb_recv[k]
           /\ last \in Elements /\ msg_index <= last
<1>1. /\ i \in Elements /\ msg_index <= i /\ Receives(i) /\ i \in Candidates(m)
      /\ msg_index \in Elements
  BY TakesFacts DEF TInv, TypeOK
<1>2. /\ nb_recv \in [Elements -> Nat] /\ before \in [Elements -> Nat]
      /\ calls \in Nat /\ calls > 0
  BY LooseAssumption DEF TInv, TypeOK
<1>3. recv \in [Elements -> Nat]
  <2>1. nb_recv[i] + 1 \in Nat
    BY <1>1, <1>2
  <2>2. recv = [nb_recv EXCEPT ![i] = nb_recv[i] + 1]
    BY DEF GoesOn
  <2> QED
    BY <1>2, <2>1, <2>2
<1>4. recv[i] = nb_recv[i] + 1 /\ \A k \in Elements : k # i => recv[k] = nb_recv[k]
  BY <1>1, <1>2 DEF GoesOn
<1>5. \A k \in Elements : ~Receives(k) => recv[k] = 0
  BY <1>1, <1>4 DEF TInv, Counts
<1>6. Walkable(recv, calls)
  BY <1>2, <1>3, <1>5 DEF TInv, Walkable
<1>7. Mandatory(i) => nb_recv[i] < calls
  BY <1>1 DEF Candidates, Mandatory, Unreceived
<1>8. Counts(recv, before, calls)
  <2> SUFFICES ASSUME NEW k \in Elements
               PROVE  /\ before[k] <= recv[k]
                      /\ ~Receives(k) => recv[k] = 0
                      /\ Mandatory(k) => recv[k] <= calls
    BY DEF Counts
  <2>1. /\ before[k] <= nb_recv[k] /\ nb_recv[k] \in Nat /\ before[k] \in Nat
        /\ Mandatory(k) => nb_recv[k] <= calls
    BY <1>2 DEF TInv, Counts
  <2>2. before[k] <= recv[k]
    BY <1>4, <2>1
  <2>3. Mandatory(k) => recv[k] <= calls
    BY <1>2, <1>4, <1>7, <2>1
  <2> QED
    BY <1>5, <2>2, <2>3
<1>9. last \in Elements /\ msg_index <= last
  BY <1>1, <1>6, LastInSequence DEF GoesOn
<1> QED
  BY <1>1, <1>4, <1>6, <1>8, <1>9

(* Where the call goes on: behind last, for what it took.                  *)
LEMMA NextFirst ==
    ASSUME NEW recv, NEW n, Walkable(recv, n), NEW last \in Elements
    PROVE  NextIndex(recv, n, last) \in 1..(Last + 1)
BY NextIndexFacts

(* The Call-IDs of a call.                                                 *)
LEMMA RunsCallIds ==
    ASSUME NEW ids \in [Dialogs -> Dialogs \cup {None}],
           call_ids' = [d \in Dialogs |-> call_ids'[d]],
           \A d \in Dialogs : call_ids'[d] \in {ids[d], d}
    PROVE  call_ids' \in [Dialogs -> Dialogs \cup {None}]
<1>1. \A d \in Dialogs : call_ids'[d] \in Dialogs \cup {None}
  OBVIOUS
<1> DEFINE f == call_ids'
<1>2. f = [d \in Dialogs |-> f[d]] /\ \A d \in Dialogs : f[d] \in Dialogs \cup {None}
  BY <1>1
<1> HIDE DEF f
<1>3. f \in [Dialogs -> Dialogs \cup {None}]
  BY <1>2
<1> QED
  BY <1>3 DEF f

(* Runs() leaves the types in order, and so does a step that takes a       *)
(* message.                                                                *)
LEMMA RunsTypes ==
    ASSUME TypeOK, scenario \in Scenarios,
           NEW recv, NEW n \in Nat, Walkable(recv, n), NEW first \in 1..(Last + 1),
           NEW ids \in [Dialogs -> Dialogs \cup {None}],
           NEW past \in SUBSET {i \in Elements : ~Receives(i)},
           Runs(recv, n, first, ids, past)
    PROVE  /\ msg_index' \in 1..(Last + 1) /\ outcome' \in {"open", "success"}
           /\ outcome' = "open" => /\ msg_index' \in Elements
                                   /\ Type(msg_index') \in {"recv", "pause"}
           /\ paused' \in BOOLEAN
           /\ outcome' = "open" /\ paused' => Type(msg_index') = "pause"
           /\ call_ids' \in [Dialogs -> Dialogs \cup {None}]
           /\ executed' \subseteq {i \in Elements : ~Receives(i)}
<1>1. /\ Arrives(recv, n, first, msg_index')
      /\ msg_index' \in 1..(Last + 1)
      /\ executed' = past \cup {k \in Elements : /\ first <= k /\ k <= msg_index'
                                                 /\ ~Receives(k)}
      /\ paused' \in BOOLEAN
      /\ paused' => Type(msg_index') = "pause"
      /\ outcome' \in {"open", "success"}
      /\ outcome' = "open" => msg_index' \in Elements
      /\ call_ids' = [d \in Dialogs |-> call_ids'[d]]
      /\ \A d \in Dialogs : call_ids'[d] \in {ids[d], d}
  BY RunsFacts
<1>2. msg_index' \in Elements => Type(msg_index') \in {"recv", "pause"}
  BY <1>1 DEF Arrives
<1>3. call_ids' \in [Dialogs -> Dialogs \cup {None}]
  BY <1>1, RunsCallIds
<1>4. executed' \subseteq {i \in Elements : ~Receives(i)}
  BY <1>1
<1> QED
  BY <1>1, <1>2, <1>3, <1>4

(* A message that is taken leads to an element of the scenario, or to its  *)
(* end.                                                                    *)
LEMMA TakenTypes ==
    ASSUME TInv, outcome = "open", NEW m, FromPeer(m), NEW i, Takes(i, m),
           NEW recv, NEW ids, NEW last, GoesOn(i, m, recv, ids, last)
    PROVE  /\ msg_index' \in 1..(Last + 1) /\ outcome' \in {"open", "success"}
           /\ outcome' = "open" => /\ msg_index' \in Elements
                                   /\ Type(msg_index') \in {"recv", "pause"}
           /\ paused' \in BOOLEAN
           /\ outcome' = "open" /\ paused' => Type(msg_index') = "pause"
           /\ call_ids' \in [Dialogs -> Dialogs \cup {None}]
           /\ executed' \subseteq {k \in Elements : ~Receives(k)}
<1>1. /\ i \in Elements /\ Receives(i) /\ msg_index \in Elements
      /\ Walkable(recv, calls) /\ last \in Elements
  BY TakenFacts
<1>2. TypeOK /\ scenario \in Scenarios /\ calls \in Nat
  BY LooseAssumption DEF TInv, TypeOK
<1>3. ids \in [Dialogs -> Dialogs \cup {None}]
  <2>1. m.call_id \in Dialogs
    BY DEF FromPeer, Message, Dialogs
  <2>2. call_ids \in [Dialogs -> Dialogs \cup {None}]
    BY <1>2 DEF TypeOK
  <2> QED
    BY <2>1, <2>2 DEF GoesOn
<1>4. /\ executed \in SUBSET {k \in Elements : ~Receives(k)}
      /\ Last \in Nat /\ 1 <= Last
  BY <1>2, ScenarioFacts DEF TypeOK
<1>5. CASE Stays(i, last)
  <2>1. /\ msg_index' = IF i = msg_index THEN i ELSE last
        /\ paused' = FALSE /\ call_ids' = ids
        /\ UNCHANGED <<executed, outcome>>
    BY <1>5 DEF GoesOn, Waits
  <2>2. msg_index' \in Elements
    BY <1>1, <2>1
  <2>3. Type(msg_index') \in {"recv", "pause"}
    <3>1. CASE msg_index' = i
      BY <1>1, <3>1 DEF Receives
    <3>2. CASE msg_index' = last
      <4>1. last = msg_index \/ Receives(last)
        BY <1>1, LastInSequence DEF GoesOn
      <4> QED
        BY <3>2, <4>1 DEF TInv, Receives
    <3> QED
      BY <2>1, <3>1, <3>2
  <2>4. msg_index' \in 1..(Last + 1)
    BY <1>4, <2>2 DEF Elements
  <2> QED
    BY <1>3, <1>4, <2>1, <2>2, <2>3, <2>4
<1>6. CASE ~Stays(i, last)
  <2>1. Runs(recv, calls, NextIndex(recv, calls, last), ids, executed)
    BY <1>6 DEF GoesOn
  <2>2. NextIndex(recv, calls, last) \in 1..(Last + 1)
    BY <1>1, NextFirst
  <2> QED
    BY <1>1, <1>2, <1>3, <1>4, <2>1, <2>2, RunsTypes
<1> QED
  BY <1>5, <1>6

(* A message leaves the types and the counters in order, whatever it does. *)
LEMMA IncomingKeeps ==
    ASSUME TInv, NEW m, FromPeer(m), process_incoming(m),
           delivered' \subseteq {i \in Elements : Receives(i)},
           strays' \in 0..MaxStrays
    PROVE  TInv'
<1>1. outcome = "open" /\ UNCHANGED <<scenario, calls, before>>
  BY IncomingCases
<1>2. TypeOK /\ scenario \in Scenarios /\ calls' \in 0..Calls /\ calls' > 0
  BY <1>1 DEF TInv, TypeOK
<1>3. before' \in [Elements -> Nat]
  BY <1>1, <1>2 DEF TypeOK
<1>4. ASSUME NEW i, NEW recv, NEW ids, NEW last,
             Takes(i, m), GoesOn(i, m, recv, ids, last)
      PROVE  TInv'
  <2>1. /\ msg_index' \in 1..(Last + 1) /\ outcome' \in {"open", "success"}
        /\ outcome' = "open" => /\ msg_index' \in Elements
                                /\ Type(msg_index') \in {"recv", "pause"}
        /\ paused' \in BOOLEAN
        /\ outcome' = "open" /\ paused' => Type(msg_index') = "pause"
        /\ call_ids' \in [Dialogs -> Dialogs \cup {None}]
        /\ executed' \subseteq {k \in Elements : ~Receives(k)}
    BY <1>1, <1>4, TakenTypes
  <2>2. nb_recv' \in [Elements -> Nat] /\ Counts(nb_recv', before', calls')
    <3>1. Walkable(recv, calls) /\ Counts(recv, before, calls)
      BY <1>1, <1>4, TakenFacts
    <3> QED
      BY <1>1, <1>4, <3>1 DEF GoesOn, Walkable
  <2>3. recvhash' \subseteq {Message(k, c) : k \in Elements, c \in 0..MaxStrays}
    <3>1. m \in {Message(k, c) : k \in Elements, c \in 0..MaxStrays}
      BY DEF FromPeer
    <3> QED
      BY <1>2, <1>4, <3>1 DEF GoesOn, TypeOK
  <2>4. outcome' \in {"none", "open", "success", "failed"}
    BY <2>1
  <2>5. TypeOK'
    BY <1>1, <1>2, <1>3, <2>1, <2>2, <2>3, <2>4, TypesFrom
  <2> QED
    BY <1>1, <1>2, <2>1, <2>2, <2>5, TInvFrom
<1>5. ASSUME UNCHANGED callvars
      PROVE  TInv'
  <2>1. UNCHANGED <<msg_index, executed, outcome, paused, call_ids, recvhash, nb_recv>>
    BY <1>5 DEF callvars, position
  <2>2. TypeOK'
    BY <1>1, <1>2, <2>1, TypesFrom DEF TypeOK
  <2> QED
    BY <1>1, <1>2, <2>1, <2>2, TInvFrom DEF TInv
<1>6. ASSUME outcome' = "failed",
             UNCHANGED <<msg_index, executed, paused, call_ids, recvhash, nb_recv>>
      PROVE  TInv'
  <2>1. TypeOK'
    BY <1>1, <1>2, <1>6, TypesFrom DEF TypeOK
  <2> QED
    BY <1>1, <1>2, <1>6, <2>1, TInvFrom DEF TInv
<1> QED
  BY <1>4, <1>5, <1>6, IncomingCases

(* A stray, or what a peer sends in turn, is a message of an element.      *)
LEMMA PeersSend ==
    ASSUME TInv, NEW i \in Elements, Receives(i), NEW c \in 0..MaxStrays
    PROVE  FromPeer(Message(i, c))
BY DEF FromPeer

(* The call by itself keeps the types.                                     *)
LEMMA MainLoopKeeps ==
    ASSUME TInv, MainLoop
    PROVE  TInv'
<1>1. /\ TypeOK /\ scenario \in Scenarios /\ Counts(nb_recv, before, calls)
      /\ calls \in Nat /\ Calls \in Nat
      /\ Last \in Nat /\ 1 <= Last
  BY ScenarioFacts, LooseAssumption DEF TInv, TypeOK
<1>2. CASE NewCall
  <2> DEFINE none == [d \in Dialogs |-> None]
  <2>1. /\ calls' = calls + 1 /\ before' = nb_recv
        /\ recvhash' = {} /\ delivered' = {}
        /\ UNCHANGED <<scenario, nb_recv, strays>>
        /\ Runs(nb_recv, calls', 1, none, {})
        /\ calls < Calls
    BY <1>2 DEF NewCall
  <2>2. calls' \in Nat /\ calls' > 0 /\ calls' \in 0..Calls
    BY <1>1, <2>1
  <2>3. Walkable(nb_recv, calls')
    BY <2>2, CountersWalkable
  <2>4. /\ none \in [Dialogs -> Dialogs \cup {None}]
        /\ 1 \in 1..(Last + 1)
    BY <1>1
  <2>5. /\ msg_index' \in 1..(Last + 1) /\ outcome' \in {"open", "success"}
        /\ outcome' = "open" => /\ msg_index' \in Elements
                                /\ Type(msg_index') \in {"recv", "pause"}
        /\ paused' \in BOOLEAN
        /\ outcome' = "open" /\ paused' => Type(msg_index') = "pause"
        /\ call_ids' \in [Dialogs -> Dialogs \cup {None}]
        /\ executed' \subseteq {i \in Elements : ~Receives(i)}
    <3>1. {} \in SUBSET {i \in Elements : ~Receives(i)}
      OBVIOUS
    <3> HIDE DEF none
    <3> QED
      BY <1>1, <2>1, <2>2, <2>3, <2>4, <3>1, RunsTypes
  <2>6. outcome' \in {"none", "open", "success", "failed"}
    BY <2>5
  <2>7. TypeOK'
    <3>1. nb_recv' \in [Elements -> Nat] /\ before' \in [Elements -> Nat]
      BY <1>1, <2>1 DEF TypeOK
    <3>2. strays' \in 0..MaxStrays
      BY <1>1, <2>1 DEF TypeOK
    <3>3. recvhash' \subseteq {Message(i, c) : i \in Elements, c \in 0..MaxStrays}
      BY <2>1
    <3>4. delivered' \subseteq {i \in Elements : Receives(i)}
      BY <2>1
    <3> QED
      BY <2>1, <2>2, <2>5, <2>6, <3>1, <3>2, <3>3, <3>4, TypesFrom
  <2>8. Counts(nb_recv', before', calls')
    <3>1. \A i \in Elements : nb_recv[i] \in Nat
      BY <1>1 DEF TypeOK
    <3> QED
      BY <1>1, <2>1, <3>1 DEF Counts
  <2> QED
    BY <1>1, <2>1, <2>2, <2>5, <2>7, <2>8, TInvFrom
<1>3. CASE PauseEnds
  <2>1. /\ outcome = "open"
        /\ Runs(nb_recv, calls, NextIndex(nb_recv, calls, msg_index), call_ids, executed)
        /\ UNCHANGED <<scenario, calls, before, recvhash, nb_recv, delivered, strays>>
    BY <1>3 DEF PauseEnds
  <2>2. calls > 0 /\ msg_index \in Elements
    BY <2>1 DEF TInv, TypeOK
  <2>3. Walkable(nb_recv, calls)
    BY <1>1, <2>2, CountersWalkable
  <2>4. NextIndex(nb_recv, calls, msg_index) \in 1..(Last + 1)
    BY <2>2, <2>3, NextFirst
  <2>5. /\ call_ids \in [Dialogs -> Dialogs \cup {None}]
        /\ executed \in SUBSET {i \in Elements : ~Receives(i)}
    BY <1>1 DEF TypeOK
  <2>6. /\ msg_index' \in 1..(Last + 1) /\ outcome' \in {"open", "success"}
        /\ outcome' = "open" => /\ msg_index' \in Elements
                                /\ Type(msg_index') \in {"recv", "pause"}
        /\ paused' \in BOOLEAN
        /\ outcome' = "open" /\ paused' => Type(msg_index') = "pause"
        /\ call_ids' \in [Dialogs -> Dialogs \cup {None}]
        /\ executed' \subseteq {i \in Elements : ~Receives(i)}
    BY <1>1, <2>1, <2>3, <2>4, <2>5, RunsTypes
  <2>7. outcome' \in {"none", "open", "success", "failed"}
    BY <2>6
  <2>8. TypeOK'
    BY <1>1, <2>1, <2>6, <2>7, TypesFrom DEF TypeOK
  <2> QED
    BY <1>1, <2>1, <2>2, <2>6, <2>8, TInvFrom
<1>4. CASE PauseAgain
  <2>1. /\ outcome = "open" /\ Type(msg_index) = "pause" /\ paused' = TRUE
        /\ UNCHANGED <<scenario, calls, msg_index, executed, outcome, call_ids,
                       recvhash, nb_recv, before, delivered, strays>>
    BY <1>4 DEF PauseAgain, position
  <2>2. TypeOK'
    BY <1>1, <2>1, TypesFrom DEF TypeOK
  <2> QED
    BY <1>1, <2>1, <2>2, TInvFrom DEF TInv
<1> QED
  BY <1>2, <1>3, <1>4 DEF MainLoop

(* A step of a peer is the processing of one of its messages.              *)
LEMMA PeerSteps ==
    ASSUME TInv, NEW i \in Elements, Deliver(i) \/ Retransmit(i) \/ Stray(i)
    PROVE  \E c \in 0..MaxStrays :
              /\ FromPeer(Message(i, c)) /\ process_incoming(Message(i, c))
              /\ delivered' \subseteq {k \in Elements : Receives(k)}
              /\ strays' \in 0..MaxStrays
<1>1. /\ TypeOK /\ MaxStrays \in Nat /\ 0 \in 0..MaxStrays
      /\ delivered \subseteq {k \in Elements : Receives(k)}
      /\ strays \in 0..MaxStrays
  BY SMTT(40), LooseAssumption DEF TInv, TypeOK
<1>2. CASE Deliver(i)
  <2>1. Receives(i) /\ process_incoming(Message(i, 0))
        /\ delivered' = delivered \cup {i} /\ strays' = strays
    BY <1>2 DEF Deliver
  <2> QED
    BY <1>1, <2>1, PeersSend
<1>3. CASE Retransmit(i)
  <2>1. Receives(i) /\ process_incoming(Message(i, 0))
        /\ delivered' = delivered /\ strays' = strays
    BY <1>1, <1>3 DEF Retransmit
  <2> QED
    BY <1>1, <2>1, PeersSend
<1>4. CASE Stray(i)
  <2>1. Receives(i) /\ process_incoming(Message(i, strays + 1))
        /\ delivered' = delivered /\ strays' = strays + 1 /\ strays < MaxStrays
    BY <1>4 DEF Stray
  <2>2. strays + 1 \in 0..MaxStrays
    BY <1>1, <2>1
  <2> QED
    BY <1>1, <2>1, <2>2, PeersSend
<1> QED
  BY <1>2, <1>3, <1>4

(* The invariant holds before the first call,                              *)
LEMMA InitTypes == Init => TInv
<1> SUFFICES ASSUME Init PROVE TInv
  OBVIOUS
<1>1. /\ scenario \in Scenarios /\ calls = 0 /\ strays = 0
      /\ nb_recv = [i \in Elements |-> 0] /\ before = nb_recv
      /\ outcome = "none" /\ msg_index = 1 /\ paused = FALSE
      /\ call_ids = [d \in Dialogs |-> None]
      /\ recvhash = {} /\ executed = {} /\ delivered = {}
  BY DEF Init
<1>2. /\ Last \in Nat /\ 1 <= Last /\ Calls \in Nat /\ MaxStrays \in Nat
  BY <1>1, ScenarioFacts, LooseAssumption
<1>3. /\ 1 \in 1..(Last + 1) /\ 0 \in 0..Calls /\ 0 \in 0..MaxStrays
      /\ nb_recv \in [Elements -> Nat] /\ before \in [Elements -> Nat]
  BY <1>1, <1>2
<1>4. call_ids \in [Dialogs -> Dialogs \cup {None}]
  BY <1>1
<1>5. TypeOK
  <2>1. paused \in BOOLEAN /\ (outcome = "open" /\ paused => Type(msg_index) = "pause")
    BY <1>1
  <2>2. calls \in 0..Calls /\ strays \in 0..MaxStrays /\ msg_index \in 1..(Last + 1)
    BY <1>1, <1>3
  <2>3. /\ outcome \in {"none", "open", "success", "failed"}
        /\ outcome = "open" => msg_index \in Elements
        /\ executed \subseteq {i \in Elements : ~Receives(i)}
        /\ delivered \subseteq {i \in Elements : Receives(i)}
        /\ recvhash \subseteq {Message(i, c) : i \in Elements, c \in 0..MaxStrays}
    BY <1>1
  <2> QED
    BY <1>3, <1>4, <2>1, <2>2, <2>3 DEF TypeOK
<1>6. Counts(nb_recv, before, calls)
  BY <1>1 DEF Counts
<1> QED
  BY <1>1, <1>5, <1>6 DEF TInv

(* and every step keeps it.                                                *)
LEMMA NextTypes == TInv /\ [Next]_vars => TInv'
<1> SUFFICES ASSUME TInv, [Next]_vars PROVE TInv'
  OBVIOUS
<1>1. CASE MainLoop
  BY <1>1, MainLoopKeeps
<1>2. ASSUME NEW i \in Elements, Deliver(i) \/ Retransmit(i) \/ Stray(i)
      PROVE  TInv'
  BY <1>2, PeerSteps, IncomingKeeps
<1>3. CASE UNCHANGED vars
  <2>1. /\ UNCHANGED <<scenario, calls, msg_index, executed, outcome, paused, call_ids,
                       recvhash, nb_recv, before, delivered, strays>>
    BY <1>3 DEF vars, callvars, position
  <2>2. TypeOK'
    BY <2>1, TypesFrom DEF TInv, TypeOK
  <2> QED
    BY <2>1, <2>2, TInvFrom DEF TInv
<1> QED
  BY <1>1, <1>2, <1>3 DEF Next

(* The types always hold.                                                  *)
LEMMA TInvariance == Spec => []TInv
  BY InitTypes, NextTypes, PTL DEF Spec

(* The types, for every scenario and in every order of messages: the call  *)
(* never leaves its scenario, whatever next() and                          *)
(* get_last_insequence_received_message() skip, and a pause is set only at *)
(* a <pause>.                                                              *)
THEOREM Types == Spec => []TypeOK
<1>1. TInv => TypeOK
  BY DEF TInv
<1> QED
  BY <1>1, TInvariance, PTL

-----------------------------------------------------------------------------
(***************************************************************************)
(* Order.  The code tells by a comparison of nb_recv with the number of    *)
(* calls whether this call received an element; it does so rightly as long *)
(* as every earlier call received all that is mandatory, which is so if    *)
(* none of them failed (README, section 5, for when one does).             *)
(***************************************************************************)
OnlyLastFails == calls < Calls => outcome # "failed"

Fresh(bef, n) == \A i \in Elements : Mandatory(i) => bef[i] = n - 1

(* All before the call's position is done or received.                     *)
Positioned(recv, n, ex, at) ==
    /\ ex = {k \in Elements : k <= at /\ ~Receives(k)}
    /\ \A k \in Elements : k < at /\ Receives(k) => ~Unreceived(recv, n, k)

(* What was received came after all that is mandatory in its dialog.       *)
Precedes(recv, n, ex, i) ==
    \A j \in Elements : j < i /\ Dialog(j) = Dialog(i) =>
        /\ Sends(j) => j \in ex
        /\ Receives(j) => ~Unreceived(recv, n, j)
InOrder(recv, bef, n, ex) ==
    \A i \in Elements : Receives(i) /\ bef[i] < recv[i] => Precedes(recv, n, ex, i)

HInv ==
    /\ outcome = "none" => /\ calls = 0 /\ executed = {}
                           /\ nb_recv = [i \in Elements |-> 0] /\ before = nb_recv
    /\ outcome # "none" => /\ Fresh(before, calls)
                           /\ Positioned(nb_recv, calls, executed, msg_index)
                           /\ InOrder(nb_recv, before, calls, executed)
    /\ outcome = "success" => msg_index = Last + 1

(* It holds in the next state if the scenario stays and the values fit.    *)
LEMMA HInvFrom ==
    ASSUME scenario' = scenario, outcome' # "none",
           Fresh(before', calls'),
           Positioned(nb_recv', calls', executed', msg_index'),
           InOrder(nb_recv', before', calls', executed'),
           outcome' = "success" => msg_index' = Last + 1
    PROVE  HInv'
BY DEF HInv, Fresh, Positioned, InOrder, Precedes, Unreceived, Mandatory, Last, Elements, Type,
       Receives, Sends, Optional, Dialog

(* A call that goes on where all before is done comes to where all before  *)
(* is done.                                                                *)
LEMMA RunsPosition ==
    ASSUME NEW recv, NEW n, Walkable(recv, n), NEW first \in 1..(Last + 1),
           NEW ids, NEW past, Runs(recv, n, first, ids, past),
           past = {k \in Elements : k < first /\ ~Receives(k)},
           \A k \in Elements : k < first /\ Receives(k) => ~Unreceived(recv, n, k)
    PROVE  /\ Positioned(recv, n, executed', msg_index')
           /\ NothingCame(recv, n, first) => NothingCame(recv, n, msg_index')
           /\ outcome' \in {"open", "success"}
           /\ outcome' = "success" => msg_index' = Last + 1
<1>1. /\ Last \in Nat /\ 1 <= Last
      /\ \A k \in Elements : k \in Nat /\ 1 <= k /\ k <= Last
  BY ScenarioFacts DEF Walkable, Elements
<1>2. /\ Arrives(recv, n, first, msg_index')
      /\ msg_index' \in 1..(Last + 1) /\ first <= msg_index'
      /\ executed' = past \cup {k \in Elements : /\ first <= k /\ k <= msg_index'
                                                 /\ ~Receives(k)}
      /\ outcome' \in {"open", "success"}
      /\ outcome' = "open" <=> msg_index' \in Elements
  BY RunsFacts
<1>3. executed' = {k \in Elements : k <= msg_index' /\ ~Receives(k)}
  <2>1. ASSUME NEW k \in Elements
        PROVE  k <= msg_index' <=> (k < first \/ (first <= k /\ k <= msg_index'))
    BY <1>1, <1>2
  <2> QED
    BY <1>2, <2>1
<1>4. ASSUME NEW k \in Elements, k < msg_index', Receives(k)
      PROVE  ~Unreceived(recv, n, k)
  <2>1. CASE k < first
    BY <1>4, <2>1
  <2>2. CASE first <= k
    <3>1. GoneBy(recv, n, first, k)
      BY <1>2, <1>4, <2>2 DEF Arrives
    <3> QED
      BY <1>4, <3>1 DEF GoneBy, Skipped
  <2> QED
    BY <1>1, <2>1, <2>2
<1>5. Positioned(recv, n, executed', msg_index')
  BY <1>3, <1>4 DEF Positioned
<1>6. NothingCame(recv, n, first) => NothingCame(recv, n, msg_index')
  BY <1>2 DEF Arrives
<1>7. outcome' = "success" => msg_index' = Last + 1
  BY <1>1, <1>2 DEF Elements
<1> QED
  BY <1>2, <1>5, <1>6, <1>7

(* next() from an element all up to which is done.                         *)
LEMMA StepOver ==
    ASSUME NEW recv, NEW n, Walkable(recv, n), NEW from \in Elements,
           NEW ex, ex = {k \in Elements : k <= from /\ ~Receives(k)},
           \A k \in Elements : k <= from /\ Receives(k) => ~Unreceived(recv, n, k),
           NEW first, first = NextIndex(recv, n, from)
    PROVE  /\ first \in 1..(Last + 1)
           /\ ex = {k \in Elements : k < first /\ ~Receives(k)}
           /\ \A k \in Elements : k < first /\ Receives(k) => ~Unreceived(recv, n, k)
           /\ ~Receives(from) \/ NothingCame(recv, n, from + 1) => NothingCame(recv, n, first)
<1>1. /\ Last \in Nat /\ 1 <= Last
      /\ \A k \in Elements : k \in Nat /\ 1 <= k /\ k <= Last
  BY ScenarioFacts DEF Walkable, Elements
<1>2. /\ first \in 1..(Last + 1) /\ from < first
      /\ \A j \in Elements : from < j /\ j < first => Skipped(recv, n, j)
      /\ ~Receives(from) => NothingCame(recv, n, first)
  BY NextIndexFacts
<1>3. ASSUME NEW k \in Elements, ~Receives(k)
      PROVE  k < first <=> k <= from
  <2>1. k < first => ~(from < k)
    BY <1>2, <1>3 DEF Skipped
  <2> QED
    BY <1>1, <1>2, <2>1
<1>4. ASSUME NEW k \in Elements, k < first, Receives(k)
      PROVE  ~Unreceived(recv, n, k)
  <2>1. CASE k <= from
    BY <1>4, <2>1
  <2>2. CASE from < k
    BY <1>2, <1>4, <2>2 DEF Skipped
  <2> QED
    BY <1>1, <2>1, <2>2
<1>5. Receives(from) /\ NothingCame(recv, n, from + 1) => NothingCame(recv, n, first)
  <2>1. Receives(from) => first = from + 1
    BY <1>1 DEF NextIndex
  <2> QED
    BY <2>1
<1>6. ex = {k \in Elements : k < first /\ ~Receives(k)}
  BY <1>3
<1> QED
  BY <1>2, <1>4, <1>5, <1>6

(* The message that is taken is received then, and in the order of its     *)
(* dialog.                                                                 *)
LEMMA TakenIsReceived ==
    ASSUME TInv, HInv, outcome = "open", NEW m, NEW i, Takes(i, m),
           NEW recv, NEW ids, NEW last, GoesOn(i, m, recv, ids, last)
    PROVE  /\ ~Unreceived(recv, calls, i)
           /\ \A k \in Elements :
                ~Unreceived(nb_recv, calls, k) => ~Unreceived(recv, calls, k)
<1>1. /\ i \in Elements /\ recv[i] = nb_recv[i] + 1
      /\ \A k \in Elements : k # i => recv[k] = nb_recv[k]
  BY TakenFacts
<1>2. /\ nb_recv[i] \in Nat /\ before[i] \in Nat /\ calls \in Nat
      /\ before[i] <= nb_recv[i]
  BY <1>1, LooseAssumption DEF TInv, TypeOK, Counts
<1>3. Receives(i)
  BY TakenFacts
<1>4. ~Optional(i) => before[i] = calls - 1
  BY <1>1, <1>3 DEF HInv, Fresh, Mandatory
<1>5. ~Unreceived(recv, calls, i)
  BY <1>1, <1>2, <1>4 DEF Unreceived
<1> QED
  BY <1>1, <1>5 DEF Unreceived

(* A message that a call takes comes in the order of its dialog.           *)
LEMMA TakenInOrder ==
    ASSUME TInv, HInv, outcome = "open", NEW m, NEW i, Takes(i, m)
    PROVE  Precedes(nb_recv, calls, executed, i)
<1>1. /\ i \in Elements /\ msg_index <= i /\ Receives(i)
      /\ i \in Candidates(m) /\ \A j \in Candidates(m) : i <= j
  BY TakesFacts
<1>2. /\ Last \in Nat /\ msg_index \in Nat /\ calls \in Nat /\ calls > 0
      /\ \A k \in Elements : k \in Nat /\ 1 <= k /\ k <= Last
      /\ \A k \in Elements : ~Receives(k) => nb_recv[k] = 0 /\ ~Optional(k)
  BY ScenarioFacts, LooseAssumption DEF TInv, TypeOK, Elements, Counts
<1>3. \A j \in msg_index..(i - 1) : Dialog(j) = Dialog(i) => ~Blocks(j, m)
  BY <1>1 DEF Candidates
<1>4. Positioned(nb_recv, calls, executed, msg_index)
  BY DEF HInv
<1> SUFFICES ASSUME NEW j \in Elements, j < i, Dialog(j) = Dialog(i)
             PROVE  /\ Sends(j) => j \in executed
                    /\ Receives(j) => ~Unreceived(nb_recv, calls, j)
  BY DEF Precedes
<1>5. CASE j < msg_index
  <2>1. Sends(j) => j \in executed
    BY <1>2, <1>4, <1>5 DEF Positioned, Sends, Receives
  <2> QED
    BY <1>4, <1>5, <2>1 DEF Positioned
<1>6. CASE msg_index <= j
  <2>1. j \in msg_index..(i - 1)
    BY <1>1, <1>2, <1>6
  <2>2. ~Blocks(j, m)
    BY <1>3, <2>1
  <2>3. ~Sends(j)
    <3> SUFFICES ASSUME Sends(j) PROVE FALSE
      OBVIOUS
    <3>1. ~Receives(j)
      BY DEF Sends, Receives
    <3>2. ~matches_scenario(j, m)
      BY <3>1 DEF matches_scenario
    <3>3. ~Unreceived(nb_recv, calls, j)
      BY <2>2, <3>2 DEF Blocks
    <3>4. nb_recv[j] = 0 /\ ~Optional(j)
      BY <1>2, <3>1
    <3> QED
      BY <1>2, <3>3, <3>4 DEF Unreceived
  <2>4. ASSUME Receives(j), Unreceived(nb_recv, calls, j)
        PROVE  FALSE
    <3>1. matches_scenario(j, m)
      BY <2>2, <2>4 DEF Blocks
    <3>2. \A h \in msg_index..(j - 1) : Dialog(h) = Dialog(j) => ~Blocks(h, m)
      <4> SUFFICES ASSUME NEW h \in msg_index..(j - 1), Dialog(h) = Dialog(j)
                   PROVE  ~Blocks(h, m)
        OBVIOUS
      <4>1. h \in msg_index..(i - 1)
        BY <1>1, <1>2
      <4> QED
        BY <1>3, <4>1
    <3>3. j \in msg_index..Last
      BY <1>2, <1>6
    <3>4. j \in Candidates(m)
      BY <2>4, <3>1, <3>2, <3>3 DEF Candidates
    <3>5. i <= j
      BY <1>1, <3>4
    <3> QED
      BY <1>1, <1>2, <3>5
  <2> QED
    BY <2>3, <2>4
<1> QED
  BY <1>2, <1>5, <1>6

(* The message may have let the call past where it waits.                  *)
Freed(recv) == ~(Receives(msg_index) /\ Unreceived(recv, calls, msg_index))

(* Then all is done or received up to where it can go.                     *)
LEMMA LastIsPast ==
    ASSUME TInv, HInv, outcome = "open", NEW m, NEW i, Takes(i, m),
           NEW recv, NEW ids, NEW last, GoesOn(i, m, recv, ids, last), Freed(recv)
    PROVE  /\ executed = {k \in Elements : k <= last /\ ~Receives(k)}
           /\ \A k \in Elements : k <= last /\ Receives(k) => ~Unreceived(recv, calls, k)
           /\ NothingCame(recv, calls, last + 1)
<1>1. /\ Walkable(recv, calls) /\ msg_index \in Elements
      /\ last \in Elements /\ msg_index <= last
  BY TakenFacts
<1>2. \A k \in Elements : k \in Nat
  BY ScenarioFacts DEF TInv, Elements
<1>3. /\ \A j \in Elements : msg_index < j /\ j <= last => Skipped(recv, calls, j)
      /\ NothingCame(recv, calls, last + 1)
  BY <1>1, LastInSequence DEF GoesOn, Freed
<1>4. /\ executed = {k \in Elements : k <= msg_index /\ ~Receives(k)}
      /\ \A k \in Elements : k < msg_index /\ Receives(k) => ~Unreceived(nb_recv, calls, k)
  BY DEF HInv, Positioned
<1>5. ASSUME NEW k \in Elements, ~Receives(k)
      PROVE  k <= msg_index <=> k <= last
  <2>1. k <= last => ~(msg_index < k)
    BY <1>3, <1>5 DEF Skipped
  <2> QED
    BY <1>1, <1>2, <2>1
<1>6. ASSUME NEW k \in Elements, k <= last, Receives(k)
      PROVE  ~Unreceived(recv, calls, k)
  <2>1. CASE k < msg_index
    BY <1>4, <1>6, <2>1, TakenIsReceived
  <2>2. CASE k = msg_index
    BY <1>6, <2>2 DEF Freed
  <2>3. CASE msg_index < k
    BY <1>3, <1>6, <2>3 DEF Skipped
  <2> QED
    BY <1>1, <1>2, <2>1, <2>2, <2>3
<1> QED
  BY <1>3, <1>4, <1>5, <1>6

(* Whatever the message does, all before the call's position stays done,   *)
(* and a call is successful only at its end.                               *)
LEMMA TakenPosition ==
    ASSUME TInv, HInv, outcome = "open", NEW m, NEW i, Takes(i, m),
           NEW recv, NEW ids, NEW last, GoesOn(i, m, recv, ids, last)
    PROVE  /\ Positioned(recv, calls, executed', msg_index')
           /\ executed \subseteq executed'
           /\ outcome' \in {"open", "success"}
           /\ outcome' = "success" => msg_index' = Last + 1
<1>1. /\ Walkable(recv, calls) /\ msg_index \in Elements /\ i \in Elements /\ Receives(i)
      /\ last \in Elements /\ msg_index <= last /\ msg_index <= i
  BY TakenFacts
<1>2. \A k \in Elements : k \in Nat
  BY ScenarioFacts DEF TInv, Elements
<1>3. /\ executed = {k \in Elements : k <= msg_index /\ ~Receives(k)}
      /\ \A k \in Elements : k < msg_index /\ Receives(k) => ~Unreceived(nb_recv, calls, k)
  BY DEF HInv, Positioned
<1>4. CASE Stays(i, last)
  <2>1. /\ msg_index' = IF i = msg_index THEN i ELSE last
        /\ UNCHANGED <<executed, outcome>>
    BY <1>4 DEF GoesOn, Waits
  <2>2. CASE msg_index' = msg_index
    <3>1. Positioned(recv, calls, executed, msg_index)
      BY <1>3, TakenIsReceived DEF Positioned
    <3> QED
      BY <2>1, <2>2, <3>1
  <2>3. CASE msg_index' # msg_index
    <3>1. msg_index' = last /\ last # msg_index
      BY <2>1, <2>3
    <3>2. Freed(recv)
      BY <1>1, <3>1, LastInSequence DEF GoesOn, Freed
    <3>3. Positioned(recv, calls, executed, last)
      BY <1>2, <1>1, <3>2, LastIsPast DEF Positioned
    <3> QED
      BY <2>1, <3>1, <3>3
  <2> QED
    BY <2>2, <2>3
<1>5. CASE ~Stays(i, last)
  <2> DEFINE first == NextIndex(recv, calls, last)
  <2>1. Runs(recv, calls, first, ids, executed)
    BY <1>5 DEF GoesOn
  <2>2. i <= last
    BY <1>1, <1>2, <1>5 DEF Stays
  <2>3. Freed(recv)
    <3>1. ASSUME ~Freed(recv)
          PROVE  FALSE
      <4>1. last = msg_index
        BY <1>1, <3>1, LastInSequence DEF GoesOn, Freed
      <4>2. i = msg_index
        BY <1>1, <1>2, <2>2, <4>1
      <4> QED
        BY <3>1, <4>2, TakenIsReceived DEF Freed
    <3> QED
      BY <3>1
  <2>4. /\ executed = {k \in Elements : k <= last /\ ~Receives(k)}
        /\ \A k \in Elements : k <= last /\ Receives(k) => ~Unreceived(recv, calls, k)
    BY <2>3, LastIsPast
  <2> HIDE DEF first
  <2>5. /\ first \in 1..(Last + 1)
        /\ executed = {k \in Elements : k < first /\ ~Receives(k)}
        /\ \A k \in Elements : k < first /\ Receives(k) => ~Unreceived(recv, calls, k)
    BY <1>1, <2>4, StepOver DEF first
  <2>6. /\ Positioned(recv, calls, executed', msg_index')
        /\ outcome' \in {"open", "success"}
        /\ outcome' = "success" => msg_index' = Last + 1
    BY <1>1, <2>1, <2>5, RunsPosition
  <2>7. executed \subseteq executed'
    BY <1>1, <2>1, <2>5, RunsFacts
  <2> QED
    BY <2>6, <2>7
<1> QED
  BY <1>4, <1>5

(* What is in order stays so when more is done and received.               *)
LEMMA TakenKeepsOrder ==
    ASSUME TInv, HInv, outcome = "open", NEW m, NEW i, Takes(i, m),
           NEW recv, NEW ids, NEW last, GoesOn(i, m, recv, ids, last)
    PROVE  InOrder(recv, before, calls, executed')
<1>1. executed \subseteq executed'
  BY TakenPosition
<1>2. \A k \in Elements : ~Unreceived(nb_recv, calls, k) => ~Unreceived(recv, calls, k)
  BY TakenIsReceived
<1>3. \A k \in Elements : k # i => recv[k] = nb_recv[k]
  BY TakenFacts
<1>4. \A k \in Elements : Precedes(nb_recv, calls, executed, k)
                            => Precedes(recv, calls, executed', k)
  BY <1>1, <1>2 DEF Precedes
<1>5. ASSUME NEW k \in Elements, Receives(k), before[k] < recv[k]
      PROVE  Precedes(nb_recv, calls, executed, k)
  <2>1. CASE k = i
    BY <2>1, TakenInOrder
  <2>2. CASE k # i
    BY <1>3, <1>5, <2>2 DEF HInv, InOrder
  <2> QED
    BY <2>1, <2>2
<1> QED
  BY <1>4, <1>5 DEF InOrder

(* A new call begins with counters that tell what it received: when none   *)
(* before it failed, each of them received all that is mandatory.          *)
LEMMA NewCallIsFresh ==
    ASSUME TInv, HInv, OnlyLastFails, outcome # "open", calls < Calls
    PROVE  Fresh(nb_recv, calls + 1)
<1>1. /\ outcome \in {"none", "success"}
      /\ calls \in Nat /\ nb_recv \in [Elements -> Nat]
      /\ Last \in Nat /\ 1 <= Last
      /\ \A k \in Elements : k \in Nat /\ 1 <= k /\ k <= Last
  BY ScenarioFacts, LooseAssumption DEF TInv, TypeOK, OnlyLastFails, Elements
<1> SUFFICES ASSUME NEW k \in Elements, Mandatory(k)
             PROVE  nb_recv[k] = calls
  BY <1>1 DEF Fresh
<1>2. CASE outcome = "none"
  BY <1>2 DEF HInv
<1>3. CASE outcome = "success"
  <2>1. k < msg_index /\ Receives(k) /\ ~Optional(k)
    BY <1>1, <1>3 DEF HInv, Mandatory
  <2>2. ~Unreceived(nb_recv, calls, k)
    BY <1>3, <2>1 DEF HInv, Positioned
  <2>3. nb_recv[k] <= calls /\ nb_recv[k] \in Nat
    BY <1>1 DEF TInv, Counts
  <2> QED
    BY <1>1, <2>1, <2>2, <2>3 DEF Unreceived
<1> QED
  BY <1>1, <1>2, <1>3

(* The new call's first steps.                                             *)
LEMMA NewCallFacts ==
    ASSUME TInv, HInv, OnlyLastFails, NewCall
    PROVE  /\ scenario' = scenario /\ calls' = calls + 1
           /\ nb_recv' = nb_recv /\ before' = nb_recv
           /\ Fresh(before', calls')
           /\ Positioned(nb_recv', calls', executed', msg_index')
           /\ InOrder(nb_recv', before', calls', executed')
           /\ NothingCame(nb_recv', calls', msg_index')
           /\ outcome' \in {"open", "success"}
           /\ outcome' = "success" => msg_index' = Last + 1
<1> DEFINE none == [d \in Dialogs |-> None]
<1>1. /\ calls' = calls + 1 /\ before' = nb_recv /\ outcome # "open" /\ calls < Calls
      /\ UNCHANGED <<scenario, nb_recv, strays>>
      /\ Runs(nb_recv, calls', 1, none, {})
  BY DEF NewCall
<1> HIDE DEF none
<1>2. /\ calls \in Nat /\ nb_recv \in [Elements -> Nat]
      /\ Last \in Nat /\ 1 <= Last /\ Sends(1)
      /\ \A k \in Elements : k \in Nat /\ 1 <= k /\ k <= Last
  BY ScenarioFacts, LooseAssumption DEF TInv, TypeOK, Elements
<1>3. calls' \in Nat /\ calls' > 0 /\ 1 \in 1..(Last + 1)
  BY <1>1, <1>2
<1>4. Walkable(nb_recv, calls')
  BY <1>3, CountersWalkable
<1>5. /\ {} = {k \in Elements : k < 1 /\ ~Receives(k)}
      /\ \A k \in Elements : k < 1 /\ Receives(k) => ~Unreceived(nb_recv, calls', k)
  <2>1. \A k \in Elements : ~(k < 1)
    BY <1>2
  <2> QED
    BY <2>1
<1>6. /\ Positioned(nb_recv, calls', executed', msg_index')
      /\ outcome' \in {"open", "success"}
      /\ outcome' = "success" => msg_index' = Last + 1
  BY <1>1, <1>3, <1>4, <1>5, RunsPosition
<1>7. NothingCame(nb_recv, calls', msg_index')
  <2>1. /\ Arrives(nb_recv, calls', 1, msg_index')
        /\ msg_index' \in Elements => Type(msg_index') \in {"recv", "pause"}
    BY <1>1, <1>3, <1>4, RunsFacts DEF Arrives
  <2>2. 1 \in Elements
    BY <1>2 DEF Elements
  <2>3. msg_index' # 1
    BY <1>2, <2>1, <2>2 DEF Sends
  <2> QED
    BY <2>1, <2>3 DEF Arrives
<1>8. InOrder(nb_recv, before', calls', executed')
  <2>1. \A k \in Elements : ~(nb_recv[k] < nb_recv[k])
    BY <1>2
  <2> QED
    BY <1>1, <2>1 DEF InOrder
<1>9. Fresh(before', calls')
  BY <1>1, NewCallIsFresh
<1> QED
  BY <1>1, <1>6, <1>7, <1>8, <1>9

(* The end of a pause: the call goes on from a <pause> all up to which is  *)
(* done.                                                                   *)
LEMMA PauseEndsFacts ==
    ASSUME TInv, HInv, PauseEnds
    PROVE  /\ outcome = "open"
           /\ UNCHANGED <<scenario, calls, before, nb_recv>>
           /\ executed \subseteq executed'
           /\ Positioned(nb_recv, calls, executed', msg_index')
           /\ NothingCame(nb_recv, calls, msg_index')
           /\ outcome' \in {"open", "success"}
           /\ outcome' = "success" => msg_index' = Last + 1
<1> DEFINE first == NextIndex(nb_recv, calls, msg_index)
<1>1. /\ outcome = "open" /\ paused
      /\ Runs(nb_recv, calls, first, call_ids, executed)
      /\ UNCHANGED <<scenario, calls, before, nb_recv>>
  BY DEF PauseEnds
<1>2. /\ msg_index \in Elements /\ Type(msg_index) = "pause"
      /\ calls \in Nat /\ calls > 0
  BY <1>1, LooseAssumption DEF TInv, TypeOK
<1>3. Walkable(nb_recv, calls) /\ ~Receives(msg_index)
  BY <1>2, CountersWalkable DEF Receives
<1>4. \A k \in Elements : k \in Nat
  BY ScenarioFacts DEF TInv, Elements
<1>5. /\ executed = {k \in Elements : k <= msg_index /\ ~Receives(k)}
      /\ \A k \in Elements : k <= msg_index /\ Receives(k) => ~Unreceived(nb_recv, calls, k)
  <2>1. Positioned(nb_recv, calls, executed, msg_index)
    BY <1>1 DEF HInv
  <2>2. \A k \in Elements : Receives(k) /\ k <= msg_index => k < msg_index
    BY <1>2, <1>3, <1>4
  <2> QED
    BY <2>1, <2>2 DEF Positioned
<1> HIDE DEF first
<1>6. /\ first \in 1..(Last + 1)
      /\ executed = {k \in Elements : k < first /\ ~Receives(k)}
      /\ \A k \in Elements : k < first /\ Receives(k) => ~Unreceived(nb_recv, calls, k)
      /\ NothingCame(nb_recv, calls, first)
  BY <1>2, <1>3, <1>5, StepOver DEF first
<1>7. /\ Positioned(nb_recv, calls, executed', msg_index')
      /\ NothingCame(nb_recv, calls, msg_index')
      /\ outcome' \in {"open", "success"}
      /\ outcome' = "success" => msg_index' = Last + 1
  BY <1>1, <1>3, <1>6, RunsPosition
<1>8. executed \subseteq executed'
  BY <1>1, <1>3, <1>6, RunsFacts
<1> QED
  BY <1>1, <1>7, <1>8

(* The invariant holds before the first call,                              *)
LEMMA InitOrder == Init => HInv
<1> SUFFICES ASSUME Init PROVE HInv
  OBVIOUS
<1>1. /\ calls = 0 /\ outcome = "none" /\ executed = {}
      /\ nb_recv = [i \in Elements |-> 0] /\ before = nb_recv
  BY DEF Init
<1> QED
  BY <1>1 DEF HInv

(* an incoming message keeps it,                                           *)
LEMMA IncomingOrder ==
    ASSUME TInv, HInv, NEW m, process_incoming(m)
    PROVE  HInv'
<1>1. outcome = "open" /\ UNCHANGED <<scenario, calls, before>>
  BY IncomingCases
<1>2. /\ Fresh(before, calls)
      /\ Positioned(nb_recv, calls, executed, msg_index)
      /\ InOrder(nb_recv, before, calls, executed)
  BY <1>1 DEF HInv
<1>3. ASSUME NEW i, NEW recv, NEW ids, NEW last,
             Takes(i, m), GoesOn(i, m, recv, ids, last)
      PROVE  HInv'
  <2>1. /\ Positioned(recv, calls, executed', msg_index')
        /\ outcome' \in {"open", "success"}
        /\ outcome' = "success" => msg_index' = Last + 1
    BY <1>1, <1>3, TakenPosition
  <2>2. InOrder(recv, before, calls, executed')
    BY <1>1, <1>3, TakenKeepsOrder
  <2>3. nb_recv' = recv /\ outcome' # "none"
    BY <1>3, <2>1 DEF GoesOn
  <2> QED
    BY <1>1, <1>2, <2>1, <2>2, <2>3, HInvFrom
<1>4. ASSUME UNCHANGED callvars
      PROVE  HInv'
  <2>1. UNCHANGED <<msg_index, executed, outcome, nb_recv>>
    BY <1>4 DEF callvars, position
  <2> QED
    BY <1>1, <1>2, <2>1, HInvFrom
<1>5. ASSUME outcome' = "failed", UNCHANGED <<msg_index, executed, nb_recv>>
      PROVE  HInv'
  BY <1>1, <1>2, <1>5, HInvFrom
<1> QED
  BY <1>3, <1>4, <1>5, IncomingCases

(* and so does every step while calls succeed.                             *)
LEMMA NextOrder == TInv /\ HInv /\ OnlyLastFails /\ [Next]_vars => HInv'
<1> SUFFICES ASSUME TInv, HInv, OnlyLastFails, [Next]_vars PROVE HInv'
  OBVIOUS
<1>1. CASE NewCall
  <2>1. /\ scenario' = scenario
        /\ Fresh(before', calls')
        /\ Positioned(nb_recv', calls', executed', msg_index')
        /\ InOrder(nb_recv', before', calls', executed')
        /\ outcome' \in {"open", "success"}
        /\ outcome' = "success" => msg_index' = Last + 1
    BY <1>1, NewCallFacts
  <2> QED
    BY <2>1, HInvFrom
<1>2. CASE PauseEnds
  <2>1. /\ outcome = "open"
        /\ UNCHANGED <<scenario, calls, before, nb_recv>>
        /\ executed \subseteq executed'
        /\ Positioned(nb_recv, calls, executed', msg_index')
        /\ outcome' \in {"open", "success"}
        /\ outcome' = "success" => msg_index' = Last + 1
    BY <1>2, PauseEndsFacts
  <2>2. Fresh(before, calls) /\ InOrder(nb_recv, before, calls, executed)
    BY <2>1 DEF HInv
  <2>3. InOrder(nb_recv, before, calls, executed')
    BY <2>1, <2>2 DEF InOrder, Precedes
  <2> QED
    BY <2>1, <2>2, <2>3, HInvFrom
<1>3. CASE PauseAgain \/ UNCHANGED vars
  <2>1. UNCHANGED <<scenario, calls, msg_index, executed, outcome, nb_recv, before>>
    BY <1>3 DEF PauseAgain, vars, callvars, position
  <2>2. CASE outcome = "none"
    <3>1. scenario' = scenario /\ Elements' = Elements
      BY <2>1 DEF Elements, Last
    <3> QED
      BY <2>1, <2>2, <3>1 DEF HInv
  <2>3. CASE outcome # "none"
    BY <2>1, <2>3, HInvFrom DEF HInv
  <2> QED
    BY <2>2, <2>3
<1>4. ASSUME NEW i \in Elements, Deliver(i) \/ Retransmit(i) \/ Stray(i)
      PROVE  HInv'
  BY <1>4, PeerSteps, IncomingOrder
<1> QED
  BY <1>1, <1>2, <1>3, <1>4 DEF Next, MainLoop

(* While no call but the last one fails, the history always has its order. *)
LEMMA HInvariance == Spec /\ []OnlyLastFails => []HInv
BY TInvariance, InitOrder, NextOrder, PTL DEF Spec

-----------------------------------------------------------------------------
(***************************************************************************)
(* A call never waits for what it has.  One that pauses right before a     *)
(* message may (call.cpp:4566 advances it only to what it skips over, and  *)
(* a pause is not skipped: README, section 5).                             *)
(***************************************************************************)
Waiting == outcome = "open" => NothingCame(nb_recv, calls, msg_index)

(* It holds in the next state if the values fit.                           *)
LEMMA WaitingFrom ==
    ASSUME scenario' = scenario, outcome' = "open" => NothingCame(nb_recv', calls', msg_index')
    PROVE  Waiting'
BY DEF Waiting, NothingCame, NextMandatory, Unreceived, Last, Elements, Type, Receives, Optional

(* A call that is not let past where it waits does not skip on.            *)
LEMMA StaysWithoutSkip ==
    ASSUME NoPauseBeforeMessage, TInv, HInv, Waiting, outcome = "open",
           NEW m, NEW i, Takes(i, m),
           NEW recv, NEW ids, NEW last, GoesOn(i, m, recv, ids, last), last < i
    PROVE  last = msg_index
<1>1. /\ Walkable(recv, calls) /\ msg_index \in Elements /\ i \in Elements /\ Receives(i)
      /\ last \in Elements /\ msg_index <= last /\ msg_index <= i
      /\ \A k \in Elements : k # i => recv[k] = nb_recv[k]
  BY TakenFacts
<1>2. /\ \A k \in Elements : k \in Nat /\ 1 <= k /\ k <= Last
      /\ Last \in Nat
      /\ \A k \in Elements : Optional(k) => Receives(k)
  BY ScenarioFacts DEF TInv, Elements
<1>3. /\ \A j \in Elements : msg_index < j /\ j <= last => Skipped(recv, calls, j)
      /\ last = msg_index \/ (Receives(last) /\ ~Optional(last))
  BY <1>1, LastInSequence DEF GoesOn
<1> SUFFICES ASSUME last # msg_index PROVE FALSE
  OBVIOUS
<1>4. msg_index < last /\ ~Optional(last)
  BY <1>1, <1>2, <1>3
<1> DEFINE P == {k \in Elements : msg_index <= k /\ k <= last /\ Receives(k) /\ ~Optional(k)}
<1>5. PICK p \in P : \A k \in P : p <= k
  <2>1. P \in SUBSET Nat
    BY <1>2
  <2>2. last \in P
    BY <1>1, <1>2, <1>3, <1>4
  <2> HIDE DEF P
  <2> QED
    BY <2>1, <2>2, Least
<1>6. /\ p \in Elements /\ msg_index <= p /\ p <= last /\ Receives(p) /\ ~Optional(p)
      /\ p \in Nat /\ p # i
  BY <1>1, <1>2
<1>7. \A j \in Elements : msg_index < j /\ j < p => Optional(j)
  <2> SUFFICES ASSUME NEW j \in Elements, msg_index < j, j < p, ~Optional(j)
               PROVE  FALSE
    OBVIOUS
  <2>1. j <= last /\ msg_index <= j
    BY <1>1, <1>2, <1>6
  <2>2. Receives(j)
    BY <1>3, <2>1 DEF Skipped
  <2>3. p <= j
    BY <1>5, <2>1, <2>2
  <2> QED
    BY <1>2, <1>6, <2>3
<1>8. p = msg_index \/ Optional(msg_index)
  <2> SUFFICES ASSUME p # msg_index, ~Optional(msg_index) PROVE FALSE
    OBVIOUS
  <2>1. ~Receives(msg_index)
    <3>1. Receives(msg_index) => msg_index \in P
      BY <1>1, <1>2
    <3>2. msg_index \in P => p <= msg_index
      BY <1>5
    <3> QED
      BY <1>1, <1>2, <1>6, <3>1, <3>2
  <2>2. Type(msg_index) = "pause"
    BY <2>1 DEF TInv, Receives
  <2>3. /\ msg_index + 1 \in Elements /\ msg_index < msg_index + 1 /\ msg_index + 1 <= last
        /\ msg_index + 1 \in 2..Len(scenario)
        /\ (msg_index + 1) - 1 = msg_index
    BY <1>1, <1>2, <1>4 DEF Elements, Last
  <2>4. Receives(msg_index + 1)
    BY <1>3, <2>3 DEF Skipped
  <2>5. scenario[(msg_index + 1) - 1].type = "pause" => scenario[msg_index + 1].type # "recv"
    BY <2>3 DEF NoPauseBeforeMessage, TInv
  <2> QED
    BY <2>2, <2>3, <2>4, <2>5 DEF Type, Receives
<1>9. NextMandatory(msg_index, p)
  <2>1. \A j \in Elements : msg_index <= j /\ j < p => j = msg_index \/ msg_index < j
    BY <1>1, <1>2
  <2>2. \A j \in Elements : j < p /\ j = msg_index => p # msg_index
    BY <1>2, <1>6
  <2> QED
    BY <1>6, <1>7, <1>8, <2>1, <2>2 DEF NextMandatory
<1>10. Unreceived(nb_recv, calls, p)
  BY <1>6, <1>9 DEF Waiting, NothingCame
<1>11. Unreceived(recv, calls, p)
  BY <1>1, <1>6, <1>10 DEF Unreceived
<1>12. CASE p = msg_index
  <2>1. Receives(msg_index) /\ Unreceived(recv, calls, msg_index)
    BY <1>6, <1>11, <1>12
  <2>2. last = msg_index
    BY <1>1, <2>1, LastInSequence DEF GoesOn
  <2> QED
    BY <2>2
<1>13. CASE p # msg_index
  <2>1. Skipped(recv, calls, p)
    BY <1>1, <1>2, <1>3, <1>6, <1>13
  <2> QED
    BY <1>11, <2>1 DEF Skipped
<1> QED
  BY <1>12, <1>13

(* A message that is taken leaves nothing to wait for in vain.             *)
LEMMA TakenWaits ==
    ASSUME NoPauseBeforeMessage, TInv, HInv, Waiting, outcome = "open",
           NEW m, NEW i, Takes(i, m),
           NEW recv, NEW ids, NEW last, GoesOn(i, m, recv, ids, last)
    PROVE  NothingCame(recv, calls, msg_index')
<1>1. /\ Walkable(recv, calls) /\ msg_index \in Elements /\ i \in Elements /\ Receives(i)
      /\ last \in Elements /\ msg_index <= last /\ msg_index <= i
      /\ \A k \in Elements : k # i => recv[k] = nb_recv[k]
  BY TakenFacts
<1>2. /\ \A k \in Elements : k \in Nat /\ 1 <= k /\ k <= Last
      /\ Last \in Nat
      /\ \A k \in Elements : Optional(k) => Receives(k)
  BY ScenarioFacts DEF TInv, Elements
<1>3. \A k \in Elements : NextMandatory(msg_index, k) /\ k # i => Unreceived(recv, calls, k)
  BY <1>1 DEF Waiting, NothingCame, Unreceived
<1>4. ~Unreceived(recv, calls, i)
  BY TakenIsReceived
<1>5. CASE Stays(i, last)
  <2>1. msg_index' = IF i = msg_index THEN i ELSE last
    BY <1>5 DEF GoesOn, Waits
  <2>2. CASE i = msg_index
    <3>1. Optional(i)
      BY <1>1, <1>2, <1>5, <2>2 DEF Stays
    <3>2. \A k \in Elements : NextMandatory(msg_index, k) => k # i
      BY <3>1 DEF NextMandatory
    <3> QED
      BY <1>3, <2>1, <2>2, <3>2 DEF NothingCame
  <2>3. CASE i # msg_index
    <3>1. last < i
      BY <1>5, <2>3 DEF Stays
    <3>2. last = msg_index /\ msg_index' = msg_index
      BY <2>1, <2>3, <3>1, StaysWithoutSkip
    <3>3. ~NextMandatory(msg_index, i)
      <4> SUFFICES ASSUME NextMandatory(msg_index, i) PROVE FALSE
        OBVIOUS
      <4>1. Optional(msg_index)
        BY <1>1, <3>1, <3>2 DEF NextMandatory
      <4>2. NothingCame(recv, calls, last + 1)
        BY <1>1, <4>1, LastInSequence DEF GoesOn, Unreceived
      <4>3. NextMandatory(last + 1, i)
        <5>1. last + 1 <= i /\ \A j \in Elements : last + 1 <= j => msg_index <= j
          BY <1>1, <1>2, <3>1, <3>2
        <5> QED
          BY <5>1 DEF NextMandatory
      <4> QED
        BY <1>1, <1>4, <4>2, <4>3 DEF NothingCame
    <3> QED
      BY <1>3, <3>2, <3>3 DEF NothingCame
  <2> QED
    BY <2>2, <2>3
<1>6. CASE ~Stays(i, last)
  <2> DEFINE first == NextIndex(recv, calls, last)
  <2>1. Runs(recv, calls, first, ids, executed)
    BY <1>6 DEF GoesOn
  <2>2. i <= last
    BY <1>1, <1>2, <1>6 DEF Stays
  <2>3. Freed(recv)
    <3>1. ASSUME ~Freed(recv)
          PROVE  FALSE
      <4>1. last = msg_index
        BY <1>1, <3>1, LastInSequence DEF GoesOn, Freed
      <4>2. i = msg_index
        BY <1>1, <1>2, <2>2, <4>1
      <4> QED
        BY <1>4, <3>1, <4>2 DEF Freed
    <3> QED
      BY <3>1
  <2>4. /\ executed = {k \in Elements : k <= last /\ ~Receives(k)}
        /\ \A k \in Elements : k <= last /\ Receives(k) => ~Unreceived(recv, calls, k)
        /\ NothingCame(recv, calls, last + 1)
    BY <2>3, LastIsPast
  <2> HIDE DEF first
  <2>5. /\ first \in 1..(Last + 1)
        /\ executed = {k \in Elements : k < first /\ ~Receives(k)}
        /\ \A k \in Elements : k < first /\ Receives(k) => ~Unreceived(recv, calls, k)
        /\ NothingCame(recv, calls, first)
    BY <1>1, <2>4, StepOver DEF first
  <2> QED
    BY <1>1, <2>1, <2>5, RunsPosition
<1> QED
  BY <1>5, <1>6

(* Every step keeps the call from it,                                      *)
LEMMA IncomingWaits ==
    ASSUME NoPauseBeforeMessage, TInv, HInv, Waiting, NEW m, process_incoming(m)
    PROVE  Waiting'
<1>1. outcome = "open" /\ UNCHANGED <<scenario, calls, before>>
  BY IncomingCases
<1>2. NothingCame(nb_recv, calls, msg_index)
  BY <1>1 DEF Waiting
<1>3. ASSUME NEW i, NEW recv, NEW ids, NEW last,
             Takes(i, m), GoesOn(i, m, recv, ids, last)
      PROVE  Waiting'
  <2>1. NothingCame(recv, calls, msg_index') /\ nb_recv' = recv
    BY <1>1, <1>3, TakenWaits DEF GoesOn
  <2> QED
    BY <1>1, <2>1, WaitingFrom
<1>4. CASE UNCHANGED callvars
  <2>1. UNCHANGED <<msg_index, nb_recv>>
    BY <1>4 DEF callvars, position
  <2> QED
    BY <1>1, <1>2, <2>1, WaitingFrom
<1>5. ASSUME outcome' = "failed"
      PROVE  Waiting'
  BY <1>5 DEF Waiting
<1> QED
  BY <1>3, <1>4, <1>5, IncomingCases

(* No step makes a call wait in vain.                                      *)
LEMMA NextWaits ==
    ASSUME NoPauseBeforeMessage
    PROVE  TInv /\ HInv /\ OnlyLastFails /\ Waiting /\ [Next]_vars => Waiting'
<1> SUFFICES ASSUME TInv, HInv, OnlyLastFails, Waiting, [Next]_vars PROVE Waiting'
  OBVIOUS
<1>1. CASE NewCall
  BY <1>1, NewCallFacts, WaitingFrom
<1>2. CASE PauseEnds
  BY <1>2, PauseEndsFacts, WaitingFrom
<1>3. CASE PauseAgain \/ UNCHANGED vars
  <2>1. UNCHANGED <<scenario, calls, msg_index, outcome, nb_recv>>
    BY <1>3 DEF PauseAgain, vars, callvars, position
  <2> QED
    BY <2>1, WaitingFrom DEF Waiting
<1>4. ASSUME NEW i \in Elements, Deliver(i) \/ Retransmit(i) \/ Stray(i)
      PROVE  Waiting'
  BY <1>4, PeerSteps, IncomingWaits
<1> QED
  BY <1>1, <1>2, <1>3, <1>4 DEF Next, MainLoop

(* and what it says of nb_recv says it of this call.                       *)
LEMMA WaitingIsForThis ==
    ASSUME TInv, HInv, Waiting
    PROVE  NeverWaitsInVain
<1> SUFFICES ASSUME outcome = "open",
                    NEW k \in msg_index..Last, Receives(k),
                    \A j \in msg_index..k : Optional(j) <=> j < k
             PROVE  Received(k) = 0
  BY DEF NeverWaitsInVain
<1>1. /\ msg_index \in Elements /\ calls \in Nat
      /\ Last \in Nat /\ \A i \in Elements : i \in Nat /\ 1 <= i /\ i <= Last
      /\ nb_recv \in [Elements -> Nat] /\ before \in [Elements -> Nat]
  BY ScenarioFacts, LooseAssumption DEF TInv, TypeOK, Elements
<1>2. k \in Elements /\ msg_index <= k /\ k \in Nat
  BY <1>1 DEF Elements
<1>3. ~Optional(k)
  BY <1>1, <1>2
<1>4. NextMandatory(msg_index, k)
  <2>1. \A j \in Elements : msg_index <= j /\ j < k => j \in msg_index..k
    BY <1>1, <1>2
  <2> QED
    BY <1>2, <1>3, <2>1 DEF NextMandatory
<1>5. nb_recv[k] < calls
  BY <1>2, <1>4 DEF Waiting, NothingCame, Unreceived
<1>6. before[k] = calls - 1 /\ before[k] <= nb_recv[k]
  BY <1>2, <1>3 DEF HInv, Fresh, Mandatory, TInv, Counts
<1>7. nb_recv[k] \in Nat /\ before[k] \in Nat
  BY <1>1, <1>2
<1> QED
  BY <1>1, <1>5, <1>6, <1>7 DEF Received

(* A call never waits at, or just before, a mandatory message that it      *)
(* received already, if no call before it failed and no scenario pauses    *)
(* right before a message: the post condition of                           *)
(* get_last_insequence_received_message(), whatever came early, late, or   *)
(* twice.                                                                  *)
THEOREM WaitsForWhatIsMissing ==
    ASSUME NoPauseBeforeMessage
    PROVE  Spec /\ []OnlyLastFails => []NeverWaitsInVain
<1>1. Init => Waiting
  BY DEF Init, Waiting
<1>2. TInv /\ HInv /\ OnlyLastFails /\ Waiting /\ [Next]_vars => Waiting'
  BY NextWaits
<1>3. TInv /\ HInv /\ Waiting => NeverWaitsInVain
  BY WaitingIsForThis
<1> QED
  BY <1>1, <1>2, <1>3, TInvariance, HInvariance, PTL DEF Spec

-----------------------------------------------------------------------------
(***************************************************************************)
(* LooseSequence implements DialogOrders: how often each element was       *)
(* received or done in this call is what DialogOrders counts.              *)
(***************************************************************************)
CountOf(recv, bef, ex) ==
    [i \in Elements |-> IF Receives(i) THEN recv[i] - bef[i] ELSE IF i \in ex THEN 1 ELSE 0]

(* Where an element is done, its count says so.                            *)
LEMMA CountsDone ==
    ASSUME TInv, HInv, outcome # "none", NEW j \in Elements,
           NEW c, c = CountOf(nb_recv, before, executed),
           IF Receives(j) THEN ~Optional(j) /\ ~Unreceived(nb_recv, calls, j)
                          ELSE j \in executed
    PROVE  c[j] > 0
<1>1. CASE Receives(j)
  <2>1. c[j] = nb_recv[j] - before[j]
    BY <1>1 DEF CountOf
  <2>2. nb_recv[j] \in Nat /\ before[j] \in Nat /\ calls \in Nat
    BY LooseAssumption DEF TInv, TypeOK
  <2>3. before[j] = calls - 1 /\ ~(nb_recv[j] < calls)
    BY <1>1 DEF HInv, Fresh, Mandatory, Unreceived
  <2> QED
    BY <2>1, <2>2, <2>3
<1>2. CASE ~Receives(j)
  BY <1>2 DEF CountOf
<1> QED
  BY <1>1, <1>2

(* The counts of a call are in the order of DialogOrders.                  *)
LEMMA CallsOrdered ==
    ASSUME TInv, HInv, outcome # "none",
           NEW c, c = CountOf(nb_recv, before, executed)
    PROVE  Orders!Ordered(c)
<1>1. /\ DOMAIN scenario = Elements
      /\ Last \in Nat /\ msg_index \in Nat
      /\ \A i \in Elements : i \in Nat /\ 1 <= i /\ i <= Last
  BY ScenarioFacts, LooseAssumption DEF TInv, TypeOK, Elements, Last
<1>2. /\ executed = {k \in Elements : k <= msg_index /\ ~Receives(k)}
      /\ \A k \in Elements : k < msg_index /\ Receives(k) => ~Unreceived(nb_recv, calls, k)
  BY DEF HInv, Positioned
<1>3. ASSUME NEW i \in Elements, c[i] > 0, NEW j \in Orders!Needs(i)
      PROVE  c[j] > 0
  <2>1. /\ j \in 1..(i - 1) /\ ~Optional(j)
        /\ Receives(i) => (Sends(j) \/ Receives(j)) /\ Dialog(j) = Dialog(i)
    BY <1>3 DEF Orders!Needs, Orders!Own, Orders!IsMessage, Optional, Sends, Receives, Type,
                Dialog
  <2>2. j \in Elements /\ j < i
    BY <1>1, <2>1 DEF Elements
  <2>3. CASE Receives(i)
    <3>1. c[i] = nb_recv[i] - before[i]
      BY <2>3 DEF CountOf
    <3>2. nb_recv[i] \in Nat /\ before[i] \in Nat
      BY DEF TInv, TypeOK
    <3>3. before[i] < nb_recv[i]
      BY <1>3, <3>1, <3>2
    <3>4. Precedes(nb_recv, calls, executed, i)
      BY <2>3, <3>3 DEF HInv, InOrder
    <3>5. IF Receives(j) THEN ~Unreceived(nb_recv, calls, j) ELSE j \in executed
      BY <2>1, <2>2, <2>3, <3>4 DEF Precedes
    <3> QED
      BY <2>1, <2>2, <3>5, CountsDone
  <2>4. CASE ~Receives(i)
    <3>1. i \in executed
      BY <1>3, <2>4 DEF CountOf
    <3>2. i <= msg_index
      BY <1>2, <3>1
    <3>3. j < msg_index
      BY <1>1, <2>2, <3>2
    <3>4. IF Receives(j) THEN ~Unreceived(nb_recv, calls, j) ELSE j \in executed
      BY <1>1, <1>2, <2>2, <3>3
    <3> QED
      BY <2>1, <2>2, <3>4, CountsDone
  <2> QED
    BY <2>3, <2>4
<1>4. ASSUME NEW i \in Elements, c[i] > 1
      PROVE  scenario[i].optional
  <2>1. CASE Receives(i)
    <3>1. c[i] = nb_recv[i] - before[i]
      BY <2>1 DEF CountOf
    <3>2. nb_recv[i] \in Nat /\ before[i] \in Nat /\ calls \in Nat
      BY LooseAssumption DEF TInv, TypeOK
    <3>3. Mandatory(i) => before[i] = calls - 1 /\ nb_recv[i] <= calls
      BY DEF HInv, Fresh, TInv, Counts
    <3>4. ~Mandatory(i)
      BY <1>4, <3>1, <3>2, <3>3
    <3> QED
      BY <2>1, <3>4 DEF Mandatory, Optional
  <2>2. CASE ~Receives(i)
    <3>1. c[i] \in {0, 1}
      BY <2>2 DEF CountOf
    <3> QED
      BY <1>4, <3>1
  <2> QED
    BY <2>1, <2>2
<1>5. Orders!Elements = Elements
  BY <1>1 DEF Orders!Elements
<1> QED
  BY <1>3, <1>4, <1>5 DEF Orders!Ordered

(* A call that is successful has all that is mandatory.                    *)
LEMMA SuccessIsComplete ==
    ASSUME TInv, HInv, outcome = "success",
           NEW c, c = CountOf(nb_recv, before, executed)
    PROVE  Orders!Complete(c)
<1>1. /\ DOMAIN scenario = Elements
      /\ Last \in Nat
      /\ \A i \in Elements : i \in Nat /\ 1 <= i /\ i <= Last
  BY ScenarioFacts, LooseAssumption DEF TInv, Elements, Last
<1>2. /\ executed = {k \in Elements : k <= msg_index /\ ~Receives(k)}
      /\ \A k \in Elements : k < msg_index /\ Receives(k) => ~Unreceived(nb_recv, calls, k)
      /\ msg_index = Last + 1
  BY DEF HInv, Positioned
<1>3. ASSUME NEW i \in Elements, ~Optional(i)
      PROVE  c[i] > 0
  <2>1. i < msg_index /\ i <= msg_index
    BY <1>1, <1>2
  <2>2. IF Receives(i) THEN ~Unreceived(nb_recv, calls, i) ELSE i \in executed
    BY <1>2, <2>1
  <2> QED
    BY <1>3, <2>2, CountsDone
<1>4. Orders!Elements = Elements
  BY <1>1 DEF Orders!Elements
<1> QED
  BY <1>3, <1>4 DEF Orders!Complete, Optional

Count == CountOf(nb_recv, before, executed)

(* The counts of a call are in the order of its dialogs.                   *)
LEMMA OrderlyCounts ==
    TInv /\ HInv /\ outcome # "none" =>
        Orders!Ordered(Count) /\ (outcome = "success" => Orders!Complete(Count))
BY CallsOrdered, SuccessIsComplete DEF Count

(* A step to a state of the invariant is progress, if it raises the counts *)
(* as it should.                                                           *)
LEMMA ProgressTo ==
    ASSUME TInv', HInv', scenario' = scenario, outcome' \in {"open", "success"},
           NEW from, Orders!Raises(from, Count')
    PROVE  Orders!Progress(from)
<1>1. (TInv /\ HInv /\ outcome # "none" =>
         Orders!Ordered(Count) /\ (outcome = "success" => Orders!Complete(Count)))'
  BY OrderlyCounts, PTL
<1>2. /\ Orders!Ordered(Count)'
      /\ outcome' = "success" => Orders!Complete(Count)'
  BY <1>1
<1> DEFINE c == Count'
<1>3. Orders!Ordered(c) /\ (outcome' = "success" => Orders!Complete(c))
  <2>1. Orders!Ordered(Count)' => Orders!Ordered(c)
    BY DEF Orders!Ordered, Orders!Elements, Orders!Needs, Orders!Own, Orders!IsMessage
  <2>2. Orders!Complete(Count)' => Orders!Complete(c)
    BY DEF Orders!Complete, Orders!Elements
  <2> QED
    BY <1>2, <2>1, <2>2
<1>4. c = [i \in Elements |-> IF Receives(i) THEN Received(i)
                              ELSE IF i \in executed THEN 1 ELSE 0]'
  BY DEF Count, CountOf, Received
<1> HIDE DEF c
<1> QED
  BY <1>3, <1>4 DEF Orders!Progress, c

(* What raises counts by one, and at most one of them for a message.       *)
LEMMA RaisesByOne ==
    ASSUME TInv, NEW from, NEW to, NEW m,
           \A i \in Elements : from[i] \in Nat /\ to[i] \in {from[i], from[i] + 1},
           \A i \in Elements : Receives(i) /\ i # m => to[i] = from[i]
    PROVE  Orders!Raises(from, to)
<1> DEFINE S == {i \in Orders!Elements : ~Orders!Own(i) /\ to[i] > from[i]}
<1>1. Orders!Elements = Elements
  BY ScenarioFacts, LooseAssumption DEF Orders!Elements, TInv, Elements, Last
<1>2. \A i \in Orders!Elements : to[i] \in from[i]..(from[i] + 1)
  BY <1>1
<1>3. ASSUME NEW i \in S
      PROVE  i = m
  <2>1. i \in Elements /\ Receives(i) /\ to[i] > from[i]
    BY <1>1, <1>3 DEF Orders!Own, Receives, Type
  <2>2. to[i] # from[i]
    BY <2>1
  <2> QED
    BY <2>1, <2>2
<1> HIDE DEF S
<1>4. S \in SUBSET {m}
  BY <1>3
<1>5. IsFiniteSet({m}) /\ Cardinality({m}) = 1
  BY FS_Singleton
<1>6. Cardinality(S) <= 1
  BY <1>4, <1>5, FS_Subset
<1>7. Orders!Cardinality(S) = Cardinality(S)
  BY DEF Orders!Cardinality, Cardinality, Orders!IsFiniteSet, IsFiniteSet
<1> QED
  BY <1>2, <1>6, <1>7 DEF Orders!Raises, S

(* Counts are numbers.                                                     *)
LEMMA CountsAreNat ==
    ASSUME TInv, NEW i \in Elements
    PROVE  Count[i] \in Nat
<1>1. /\ nb_recv[i] \in Nat /\ before[i] \in Nat /\ before[i] <= nb_recv[i]
  BY DEF TInv, TypeOK, Counts
<1>2. nb_recv[i] - before[i] \in Nat
  BY <1>1
<1> QED
  BY <1>2 DEF Count, CountOf

(* A new call counts from nothing,                                         *)
LEMMA CreateRaises ==
    ASSUME TInv, scenario' = scenario, nb_recv' = nb_recv, before' = nb_recv
    PROVE  Orders!Raises(Orders!NoneYet, Count')
<1>1. Orders!Elements = Elements
  BY ScenarioFacts, LooseAssumption DEF Orders!Elements, TInv, Elements, Last
<1>2. \A i \in Elements : nb_recv[i] - nb_recv[i] = 0
  BY DEF TInv, TypeOK
<1>3. Count' = CountOf(nb_recv, nb_recv, executed')
  BY DEF Count, CountOf, Elements, Last, Receives, Type
<1> DEFINE to == CountOf(nb_recv, nb_recv, executed')
<1>4. ASSUME NEW i \in Elements
      PROVE  /\ Orders!NoneYet[i] = 0 /\ to[i] \in {0, 0 + 1}
             /\ Receives(i) => to[i] = 0
  BY <1>1, <1>2 DEF Orders!NoneYet, CountOf
<1> HIDE DEF to
<1>5. Orders!Raises(Orders!NoneYet, to)
  BY <1>4, RaisesByOne
<1> QED
  BY <1>3, <1>5 DEF to

(* one that goes on raises what it does itself, and what it received.      *)
LEMMA AdvanceRaises ==
    ASSUME TInv, scenario' = scenario, before' = before, executed \subseteq executed',
           NEW m, \A i \in Elements : nb_recv'[i] = nb_recv[i] + (IF i = m THEN 1 ELSE 0)
    PROVE  Orders!Raises(Count, Count')
<1>1. ASSUME NEW i \in Elements
      PROVE  /\ Count'[i] \in {Count[i], Count[i] + 1}
             /\ Receives(i) /\ i # m => Count'[i] = Count[i]
  <2>1. /\ nb_recv[i] \in Nat /\ before[i] \in Nat
        /\ nb_recv'[i] = nb_recv[i] + (IF i = m THEN 1 ELSE 0)
    BY DEF TInv, TypeOK
  <2>2. Count'[i] = IF Receives(i) THEN nb_recv'[i] - before[i]
                    ELSE IF i \in executed' THEN 1 ELSE 0
    BY DEF Count, CountOf, Elements, Last, Receives, Type
  <2>3. Count[i] = IF Receives(i) THEN nb_recv[i] - before[i]
                   ELSE IF i \in executed THEN 1 ELSE 0
    BY DEF Count, CountOf
  <2>4. CASE Receives(i)
    <3>1. Count'[i] = nb_recv'[i] - before[i] /\ Count[i] = nb_recv[i] - before[i]
      BY <2>2, <2>3, <2>4
    <3> QED
      BY <2>1, <3>1
  <2>5. CASE ~Receives(i)
    BY <2>2, <2>3, <2>5
  <2> QED
    BY <2>4, <2>5
<1>2. \A i \in Elements : Count[i] \in Nat
  BY CountsAreNat
<1> QED
  BY <1>1, <1>2, RaisesByOne

(* The steps of LooseSequence are those of DialogOrders.                   *)
LEMMA IncomingAdvances ==
    ASSUME TInv, HInv, TInv', HInv', NEW m, process_incoming(m)
    PROVE  [Orders!Next]_(Orders!vars)
<1>1. outcome = "open" /\ UNCHANGED <<scenario, calls, before>>
  BY IncomingCases
<1>2. /\ Count = [i \in Elements |-> IF Receives(i) THEN Received(i)
                                     ELSE IF i \in executed THEN 1 ELSE 0]
      /\ Count' = [i \in Elements |-> IF Receives(i) THEN Received(i)
                                      ELSE IF i \in executed THEN 1 ELSE 0]'
  BY DEF Count, CountOf, Received
<1>3. ASSUME NEW i, NEW recv, NEW ids, NEW last,
             Takes(i, m), GoesOn(i, m, recv, ids, last)
      PROVE  Orders!Next
  <2>1. executed \subseteq executed' /\ outcome' \in {"open", "success"}
    BY <1>1, <1>3, TakenPosition
  <2>2. /\ recv[i] = nb_recv[i] + 1
        /\ \A k \in Elements : k # i => recv[k] = nb_recv[k]
    BY <1>1, <1>3, TakenFacts
  <2>3. \A k \in Elements : nb_recv'[k] = nb_recv[k] + (IF k = i THEN 1 ELSE 0)
    <3>1. \A k \in Elements : nb_recv[k] \in Nat
      BY DEF TInv, TypeOK
    <3>2. nb_recv' = recv
      BY <1>3 DEF GoesOn
    <3> QED
      BY <2>2, <3>1, <3>2
  <2>4. Orders!Raises(Count, Count')
    BY <1>1, <2>1, <2>3, AdvanceRaises
  <2>5. Orders!Progress(Count)
    BY <1>1, <2>1, <2>4, ProgressTo DEF Orders!Progress
  <2> QED
    BY <1>1, <1>2, <2>5 DEF Orders!Next, Orders!Advance, Orders!Progress
<1>4. ASSUME UNCHANGED callvars
      PROVE  UNCHANGED Orders!vars
  <2>1. UNCHANGED <<scenario, executed, outcome, nb_recv, before>>
    BY <1>1, <1>4 DEF callvars, position
  <2> QED
    BY <2>1 DEF Orders!vars, Elements, Last, Receives, Type, Received
<1>5. ASSUME outcome' = "failed", UNCHANGED <<msg_index, executed, nb_recv>>
      PROVE  Orders!Next
  BY <1>1, <1>5
     DEF Orders!Next, Orders!Refuse, Elements, Last, Receives, Type, Received
<1> QED
  BY <1>3, <1>4, <1>5, IncomingCases

(* A step counts one more element, or none.                                *)
LEMMA NextAdvances ==
    TInv /\ HInv /\ TInv' /\ HInv' /\ OnlyLastFails /\ [Next]_vars
        => [Orders!Next]_(Orders!vars)
<1> SUFFICES ASSUME TInv, HInv, TInv', HInv', OnlyLastFails, [Next]_vars
             PROVE  [Orders!Next]_(Orders!vars)
  OBVIOUS
<1>1. /\ Count = [i \in Elements |-> IF Receives(i) THEN Received(i)
                                     ELSE IF i \in executed THEN 1 ELSE 0]
      /\ Count' = [i \in Elements |-> IF Receives(i) THEN Received(i)
                                      ELSE IF i \in executed THEN 1 ELSE 0]'
  BY DEF Count, CountOf, Received
<1>2. CASE NewCall
  <2>1. /\ scenario' = scenario /\ nb_recv' = nb_recv /\ before' = nb_recv
        /\ outcome' \in {"open", "success"} /\ outcome # "open"
    BY <1>2, NewCallFacts DEF NewCall
  <2>2. Orders!Raises(Orders!NoneYet, Count')
    BY <2>1, CreateRaises
  <2>3. Orders!Progress(Orders!NoneYet)
    BY <2>1, <2>2, ProgressTo DEF Orders!Progress
  <2> QED
    BY <2>1, <2>3 DEF Orders!Next, Orders!Create, Orders!Progress
<1>3. CASE PauseEnds
  <2>1. /\ outcome = "open" /\ outcome' \in {"open", "success"}
        /\ UNCHANGED <<scenario, calls, before, nb_recv>>
        /\ executed \subseteq executed'
    BY <1>3, PauseEndsFacts
  <2>2. \A k \in Elements : nb_recv'[k] = nb_recv[k] + (IF k = 0 THEN 1 ELSE 0)
    <3>1. \A k \in Elements : nb_recv[k] \in Nat /\ k # 0
      BY DEF TInv, TypeOK, Elements
    <3> QED
      BY <2>1, <3>1
  <2>3. Orders!Raises(Count, Count')
    BY <2>1, <2>2, AdvanceRaises
  <2>4. Orders!Progress(Count)
    BY <2>1, <2>3, ProgressTo DEF Orders!Progress
  <2> QED
    BY <1>1, <2>1, <2>4 DEF Orders!Next, Orders!Advance, Orders!Progress
<1>4. CASE PauseAgain \/ UNCHANGED vars
  <2>1. UNCHANGED <<scenario, executed, outcome, nb_recv, before>>
    BY <1>4 DEF PauseAgain, vars, callvars, position
  <2> QED
    BY <2>1 DEF Orders!vars, Elements, Last, Receives, Type, Received
<1>5. ASSUME NEW i \in Elements, Deliver(i) \/ Retransmit(i) \/ Stray(i)
      PROVE  [Orders!Next]_(Orders!vars)
  BY <1>5, PeerSteps, IncomingAdvances
<1> QED
  BY <1>2, <1>3, <1>4, <1>5 DEF Next, MainLoop

(* Nothing is counted at first.                                            *)
LEMMA InitCounts == TInv /\ Init => Orders!Init
<1> SUFFICES ASSUME TInv, Init PROVE Orders!Init
  OBVIOUS
<1>1. /\ outcome = "none" /\ nb_recv = [i \in Elements |-> 0] /\ before = nb_recv
      /\ executed = {}
  BY DEF Init
<1>2. Orders!Elements = Elements
  BY ScenarioFacts, LooseAssumption DEF Orders!Elements, TInv, Elements, Last
<1>3. [i \in Elements |-> IF Receives(i) THEN Received(i)
                          ELSE IF i \in executed THEN 1 ELSE 0] = [i \in Elements |-> 0]
  BY <1>1 DEF Received
<1> QED
  BY <1>1, <1>2, <1>3 DEF Orders!Init, Orders!NoneYet

(* If no call before it failed, a call keeps the order of each dialog,     *)
(* waits for all of them before it sends, pauses or acts, counts nothing   *)
(* mandatory twice, and is successful only when nothing mandatory is left, *)
(* although it compares counters that all calls share.                     *)
THEOREM KeepsDialogOrders == Spec /\ []OnlyLastFails => OrdersSpec
<1>1. Spec => Orders!Init
  <2>1. Init => Orders!Init
    BY InitTypes, InitCounts
  <2> QED
    BY <2>1, PTL DEF Spec
<1>2. Spec /\ []OnlyLastFails => [][Orders!Next]_(Orders!vars)
  BY TInvariance, HInvariance, NextAdvances, PTL DEF Spec
<1> QED
  BY <1>1, <1>2, PTL DEF OrdersSpec, Orders!Spec

-----------------------------------------------------------------------------
(***************************************************************************)
(* Calls fail only for messages that come out of the order of their own    *)
(* dialog, if scenarios are Distinguishable and peers send no optional     *)
(* message that the call is past.                                          *)
(***************************************************************************)
(* A dialog has no Call-ID or its own; the mandatory messages that came    *)
(* are those that were sent; what was sent is absorbed if it comes again.  *)
Known(ids) == \A d \in Dialogs : ids[d] \in {None, d}
Sent(recv, bef, del) == \A k \in Elements : Mandatory(k) => (k \in del <=> bef[k] < recv[k])
Absorbed(del, hash) == \A k \in del : Message(k, 0) \in hash

Orderly == /\ outcome # "failed"
           /\ Known(call_ids)
           /\ Sent(nb_recv, before, delivered)
           /\ Absorbed(delivered, recvhash)

OInv == strays = 0 => HInv /\ Orderly

(* It holds in the next state if the scenario stays and the values fit.    *)
LEMMA OrderlyFrom ==
    ASSUME scenario' = scenario, outcome' # "failed",
           Known(call_ids'), Sent(nb_recv', before', delivered'),
           Absorbed(delivered', recvhash')
    PROVE  Orderly'
BY DEF Orderly, Known, Sent, Absorbed, Mandatory, Message, Dialogs, Dialog, Last, Elements, Type,
       Receives, Sends, Optional

(* What the call is past, or did not receive.                              *)
LEMMA ReceivedOrNot ==
    ASSUME TInv, HInv, Orderly, outcome = "open", NEW k \in Elements, Mandatory(k)
    PROVE  /\ k \in delivered <=> ~Unreceived(nb_recv, calls, k)
           /\ k < msg_index => k \in delivered
<1>1. /\ nb_recv[k] \in Nat /\ before[k] \in Nat /\ calls \in Nat
      /\ before[k] = calls - 1 /\ nb_recv[k] <= calls
  BY LooseAssumption DEF TInv, TypeOK, Counts, HInv, Fresh
<1>2. k \in delivered <=> before[k] < nb_recv[k]
  BY DEF Orderly, Sent
<1>3. Unreceived(nb_recv, calls, k) <=> nb_recv[k] < calls
  BY DEF Unreceived, Mandatory
<1>4. before[k] < nb_recv[k] <=> ~(nb_recv[k] < calls)
  BY <1>1
<1>5. k < msg_index => ~Unreceived(nb_recv, calls, k)
  BY DEF HInv, Positioned, Mandatory
<1> QED
  BY <1>2, <1>3, <1>4, <1>5

(* Elements that a message may be taken for.                               *)
LEMMA SameClass ==
    ASSUME Distinguishable, TInv, NEW i \in Elements, NEW j \in Elements, Receives(i),
           NEW c, matches_scenario(j, Message(i, c)), j # i
    PROVE  Dialog(j) = Dialog(i) /\ Mandatory(i) /\ Mandatory(j)
<1>1. DOMAIN scenario = Elements /\ scenario \in Scenarios
  BY LooseAssumption DEF TInv, Elements, Last
<1>2. Receives(j) /\ scenario[j].class = scenario[i].class
  BY DEF matches_scenario, Message
<1> QED
  BY <1>1, <1>2 DEF Distinguishable, Mandatory, Receives, Type, Optional, Dialog

(* What a peer sends in turn is taken by the element it is meant for.      *)
LEMMA InTurnIsTaken ==
    ASSUME Distinguishable, TInv, HInv, Orderly, outcome = "open",
           NEW i \in Elements, Receives(i), InTurn(i), Optional(i) => msg_index <= i
    PROVE  Takes(i, Message(i, 0))
<1> DEFINE m == Message(i, 0)
<1>1. /\ Last \in Nat /\ msg_index \in Elements /\ calls \in Nat
      /\ \A k \in Elements : /\ k \in Nat /\ 1 <= k /\ k <= Last
                             /\ Dialog(k) # None
                             /\ Optional(k) => Receives(k)
  BY ScenarioFacts, LooseAssumption DEF TInv, TypeOK, Elements
<1>2. Mandatory(i) => i \notin delivered
  BY <1>1 DEF InTurn, Own, Mandatory
<1>3. msg_index <= i
  BY <1>1, <1>2, ReceivedOrNot DEF Mandatory
<1>4. Optional(i) \/ Unreceived(nb_recv, calls, i)
  BY <1>2, ReceivedOrNot DEF Mandatory
<1>5. matches_scenario(i, m)
  <2>1. m.class = scenario[i].class /\ m.call_id = Dialog(i)
    BY DEF Message
  <2>2. Dialog(i) \in Dialogs /\ Dialog(i) # None
    BY <1>1 DEF Dialogs
  <2>3. \A d \in Dialogs : call_ids[d] \in {None, d}
    BY DEF Orderly, Known
  <2> HIDE DEF m
  <2> QED
    BY <2>1, <2>2, <2>3 DEF matches_scenario
<1>6. ASSUME NEW j \in Elements, j < i, Dialog(j) = Dialog(i), Mandatory(j)
      PROVE  ~Unreceived(nb_recv, calls, j)
  <2>1. j \in delivered
    <3>1. j \in executed \cup delivered
      BY <1>6 DEF InTurn, Own, Mandatory
    <3>2. j \notin executed
      BY <1>6 DEF Mandatory, HInv, Positioned
    <3> QED
      BY <3>1, <3>2
  <2> QED
    BY <1>6, <2>1, ReceivedOrNot
<1>7. ASSUME NEW j \in msg_index..(i - 1), Dialog(j) = Dialog(i)
      PROVE  ~Blocks(j, m)
  <2>1. j \in Elements /\ j < i /\ msg_index <= j
    BY <1>1 DEF Elements
  <2>2. CASE Receives(j)
    <3>1. Unreceived(nb_recv, calls, j) => Mandatory(j)
      BY <2>2 DEF Unreceived, Mandatory
    <3> QED
      BY <1>6, <1>7, <2>1, <3>1 DEF Blocks
  <2>3. CASE Sends(j)
    <3>1. ~Receives(j) /\ ~Optional(j)
      BY <1>1, <2>1, <2>3 DEF Sends, Receives
    <3>2. j \in executed \cup delivered
      BY <1>7, <2>1, <3>1 DEF InTurn, Own
    <3>3. j \in executed
      BY <3>1, <3>2 DEF TInv, TypeOK
    <3>4. j <= msg_index
      BY <3>3 DEF HInv, Positioned
    <3>5. j = msg_index
      BY <1>1, <2>1, <3>4
    <3> QED
      BY <2>3, <3>5 DEF TInv, Sends
  <2> QED
    BY <2>2, <2>3 DEF Blocks
<1>8. i \in Candidates(m)
  <2>1. i \in msg_index..Last
    BY <1>1, <1>3
  <2> HIDE DEF m
  <2> QED
    BY <1>4, <1>5, <1>7, <2>1 DEF Candidates
<1>9. ASSUME NEW j \in Candidates(m), j < i
      PROVE  FALSE
  <2>1. /\ j \in msg_index..Last /\ matches_scenario(j, m)
        /\ Optional(j) \/ Unreceived(nb_recv, calls, j)
    <3> HIDE DEF m
    <3> QED
      BY DEF Candidates
  <2>2. j \in Elements /\ j # i
    BY <1>1, <1>9, <2>1 DEF Elements
  <2>3. Dialog(j) = Dialog(i) /\ Mandatory(j)
    BY <2>1, <2>2, SameClass
  <2> QED
    BY <1>6, <1>9, <2>1, <2>2, <2>3 DEF Mandatory
<1>10. PICK first : Takes(first, m)
  <2> HIDE DEF m
  <2> QED
    BY <1>8 DEF Takes
<1>11. first \in Candidates(m) /\ first <= i /\ first \in Elements
  <2> HIDE DEF m
  <2> QED
    BY <1>8, <1>10, TakesFacts
<1>12. first = i
  <2>1. ~(first < i)
    BY <1>9, <1>11
  <2> QED
    BY <1>1, <1>11, <2>1
<1> QED
  BY <1>10, <1>12

(* A message that its own element takes leaves the call orderly.           *)
LEMMA OwnTakes ==
    ASSUME TInv, HInv, Orderly, NEW i \in Elements,
           process_incoming(Message(i, 0)), Takes(i, Message(i, 0)),
           delivered' = delivered \cup {i}
    PROVE  Orderly'
<1> DEFINE m == Message(i, 0)
<1>1. /\ outcome = "open" /\ UNCHANGED <<scenario, calls, before>>
      /\ \E k, recv, ids, last : Takes(k, m) /\ GoesOn(k, m, recv, ids, last)
  BY IncomingCases DEF Takes
<1>2. PICK recv, ids, last : GoesOn(i, m, recv, ids, last)
  BY <1>1 DEF Takes
<1> HIDE DEF m
<1>3. /\ Walkable(recv, calls) /\ last \in Elements /\ Receives(i)
      /\ recv[i] = nb_recv[i] + 1
      /\ \A k \in Elements : k # i => recv[k] = nb_recv[k]
  BY <1>1, <1>2, TakenFacts DEF m
<1>4. Known(ids)
  <2>1. m.call_id = Dialog(i)
    BY DEF m, Message
  <2>2. ids = [call_ids EXCEPT ![Dialog(i)] = Dialog(i)]
    BY <1>2, <2>1 DEF GoesOn
  <2>3. call_ids \in [Dialogs -> Dialogs \cup {None}]
    BY DEF TInv, TypeOK
  <2>4. \A d \in Dialogs : ids[d] \in {call_ids[d], d}
    BY <2>2, <2>3
  <2> QED
    BY <2>4 DEF Orderly, Known
<1>5. Known(call_ids')
  <2>1. CASE Stays(i, last)
    BY <1>2, <1>4, <2>1 DEF GoesOn, Waits
  <2>2. CASE ~Stays(i, last)
    <3> DEFINE first == NextIndex(recv, calls, last)
    <3>1. Runs(recv, calls, first, ids, executed)
      BY <1>2, <2>2 DEF GoesOn
    <3>2. first \in 1..(Last + 1)
      BY <1>3, NextFirst
    <3> HIDE DEF first
    <3>3. \A d \in Dialogs : call_ids'[d] \in {ids[d], d}
      BY <1>3, <3>1, <3>2, RunsFacts
    <3> QED
      BY <1>4, <3>3 DEF Known
  <2> QED
    BY <2>1, <2>2
<1>6. Sent(recv, before, delivered')
  <2> SUFFICES ASSUME NEW k \in Elements, Mandatory(k)
               PROVE  k \in delivered' <=> before[k] < recv[k]
    BY DEF Sent
  <2>1. k \in delivered <=> before[k] < nb_recv[k]
    BY DEF Orderly, Sent
  <2>2. CASE k = i
    <3>1. nb_recv[i] \in Nat /\ before[i] \in Nat /\ before[i] <= nb_recv[i]
      BY DEF TInv, TypeOK, Counts
    <3>2. before[i] < recv[i]
      BY <1>3, <3>1
    <3> QED
      BY <2>2, <3>2
  <2>3. CASE k # i
    BY <1>3, <2>1, <2>3
  <2> QED
    BY <2>2, <2>3
<1>7. Absorbed(delivered', recvhash')
  <2>1. recvhash' = recvhash \cup {m}
    BY <1>2 DEF GoesOn
  <2> QED
    BY <2>1 DEF Orderly, Absorbed, m
<1>8. nb_recv' = recv
  BY <1>2 DEF GoesOn
<1>9. outcome' # "failed"
  BY <1>1, <1>2, TakenPosition DEF m, Takes
<1> QED
  BY <1>1, <1>5, <1>6, <1>7, <1>8, <1>9, OrderlyFrom

(* What comes again is absorbed, or taken by its own optional element.     *)
LEMMA AgainIsAbsorbed ==
    ASSUME Distinguishable, TInv, HInv, Orderly, NEW i \in Elements, Retransmit(i)
    PROVE  Orderly'
<1> DEFINE m == Message(i, 0)
<1>1. /\ i \in delivered /\ process_incoming(m) /\ delivered' = delivered
      /\ \A j \in Own(i) : scenario[j].class = scenario[i].class => j <= i
  BY DEF Retransmit
<1>2. /\ outcome = "open" /\ UNCHANGED <<scenario, calls, before>>
  BY <1>1, IncomingCases
<1>3. m \in recvhash /\ Receives(i)
  BY <1>1 DEF Orderly, Absorbed, TInv, TypeOK
<1>4. CASE UNCHANGED callvars
  <2>1. UNCHANGED <<outcome, call_ids, recvhash, nb_recv>>
    BY <1>4 DEF callvars, position
  <2> QED
    BY <1>1, <1>2, <2>1, OrderlyFrom DEF Orderly
<1>5. ASSUME NEW k, Takes(k, m)
      PROVE  k = i
  <2>1. /\ k \in Elements /\ matches_scenario(k, m)
        /\ Optional(k) \/ Unreceived(nb_recv, calls, k)
    <3> HIDE DEF m
    <3> QED
      BY <1>2, <1>5, TakesFacts DEF Candidates
  <2>2. SUFFICES ASSUME k # i PROVE FALSE
    OBVIOUS
  <2>3. Dialog(k) = Dialog(i) /\ Mandatory(i) /\ Mandatory(k)
    BY <1>3, <2>1, <2>2, SameClass
  <2>4. k <= i
    BY <1>1, <2>1, <2>3 DEF Own, matches_scenario, Message
  <2>5. k < i
    BY <2>1, <2>2, <2>4 DEF Elements
  <2>6. before[i] < nb_recv[i]
    BY <1>1, <2>3 DEF Orderly, Sent
  <2>7. Precedes(nb_recv, calls, executed, i)
    BY <1>2, <1>3, <2>6 DEF HInv, InOrder
  <2>8. ~Unreceived(nb_recv, calls, k)
    BY <2>1, <2>3, <2>5, <2>7 DEF Precedes, Mandatory
  <2> QED
    BY <2>1, <2>3, <2>8 DEF Mandatory
<1>6. ASSUME NEW k, Takes(k, m)
      PROVE  Orderly'
  <2>1. Takes(i, m) /\ delivered' = delivered \cup {i}
    BY <1>1, <1>5, <1>6
  <2> QED
    BY <1>1, <2>1, OwnTakes
<1> HIDE DEF m
<1> QED
  BY <1>1, <1>3, <1>4, <1>6, IncomingCases

(* Every step but a stray keeps the call orderly.                          *)
LEMMA NextOrderly ==
    ASSUME Distinguishable, ~LateOptionals,
           TInv, HInv, Orderly, [Next]_vars, strays' = 0, strays = 0
    PROVE  Orderly'
<1>1. OnlyLastFails
  BY DEF Orderly, OnlyLastFails
<1>2. CASE NewCall
  <2>1. /\ scenario' = scenario /\ nb_recv' = nb_recv /\ before' = nb_recv
        /\ outcome' \in {"open", "success"}
    BY <1>1, <1>2, NewCallFacts
  <2> DEFINE none == [d \in Dialogs |-> None]
  <2>2. /\ delivered' = {} /\ recvhash' = {} /\ calls' = calls + 1
        /\ Runs(nb_recv, calls', 1, none, {})
    BY <1>2 DEF NewCall
  <2>3. none \in [Dialogs -> {None}]
    OBVIOUS
  <2> HIDE DEF none
  <2>4. calls \in Nat /\ 1 \in 1..(Last + 1)
    BY ScenarioFacts, LooseAssumption DEF TInv, TypeOK
  <2>5. Walkable(nb_recv, calls')
    <3>1. calls' \in Nat /\ calls' > 0
      BY <2>2, <2>4
    <3> QED
      BY <3>1, CountersWalkable
  <2>6. \A d \in Dialogs : call_ids'[d] \in {none[d], d}
    BY <2>2, <2>4, <2>5, RunsFacts
  <2>7. Known(call_ids')
    BY <2>3, <2>6 DEF Known
  <2>8. Sent(nb_recv', before', delivered')
    <3>1. \A k \in Elements : ~(nb_recv[k] < nb_recv[k])
      BY DEF TInv, TypeOK
    <3> QED
      BY <2>1, <2>2, <3>1 DEF Sent
  <2>9. Absorbed(delivered', recvhash')
    BY <2>2 DEF Absorbed
  <2> QED
    BY <2>1, <2>7, <2>8, <2>9, OrderlyFrom
<1>3. CASE PauseEnds
  <2> DEFINE first == NextIndex(nb_recv, calls, msg_index)
  <2>1. /\ outcome = "open" /\ Runs(nb_recv, calls, first, call_ids, executed)
        /\ UNCHANGED <<scenario, calls, before, recvhash, nb_recv, delivered>>
    BY <1>3 DEF PauseEnds
  <2>2. msg_index \in Elements /\ calls \in Nat /\ calls > 0
    BY <2>1, LooseAssumption DEF TInv, TypeOK
  <2>3. Walkable(nb_recv, calls)
    BY <2>2, CountersWalkable
  <2>4. first \in 1..(Last + 1)
    BY <2>2, <2>3, NextFirst
  <2> HIDE DEF first
  <2>5. /\ \A d \in Dialogs : call_ids'[d] \in {call_ids[d], d}
        /\ outcome' \in {"open", "success"}
    BY <2>1, <2>3, <2>4, RunsFacts
  <2>6. Known(call_ids')
    BY <2>5 DEF Orderly, Known
  <2> QED
    BY <2>1, <2>5, <2>6, OrderlyFrom DEF Orderly
<1>4. CASE PauseAgain \/ UNCHANGED vars
  <2>1. UNCHANGED <<scenario, outcome, call_ids, nb_recv, before, delivered, recvhash>>
    BY <1>4 DEF PauseAgain, vars, callvars, position
  <2> QED
    BY <2>1, OrderlyFrom DEF Orderly
<1>5. ASSUME NEW i \in Elements, Deliver(i)
      PROVE  Orderly'
  <2>1. /\ Receives(i) /\ InTurn(i)
        /\ Optional(i) => msg_index <= i
        /\ process_incoming(Message(i, 0)) /\ delivered' = delivered \cup {i}
    BY <1>5 DEF Deliver
  <2>2. outcome = "open"
    BY <2>1, IncomingCases
  <2>3. Takes(i, Message(i, 0))
    BY <2>1, <2>2, InTurnIsTaken
  <2> QED
    BY <2>1, <2>3, OwnTakes
<1>6. ASSUME NEW i \in Elements, Retransmit(i)
      PROVE  Orderly'
  BY <1>6, AgainIsAbsorbed
<1>7. ASSUME NEW i \in Elements, Stray(i)
      PROVE  FALSE
  BY <1>7 DEF Stray
<1> QED
  BY <1>2, <1>3, <1>4, <1>5, <1>6, <1>7 DEF Next, MainLoop

(* Strays are only counted up.                                             *)
LEMMA StraysGrow ==
    ASSUME TInv, [Next]_vars
    PROVE  strays' \in Nat /\ strays <= strays'
<1>1. strays \in Nat
  BY LooseAssumption DEF TInv, TypeOK
<1>2. strays' = strays \/ strays' = strays + 1
  BY DEF Next, MainLoop, NewCall, PauseEnds, PauseAgain, Deliver, Retransmit, Stray, vars
<1> QED
  BY <1>1, <1>2

(* A call that no stray message reaches does not fail, and has received    *)
(* what was sent to it.                                                    *)
LEMMA OInvariance ==
    ASSUME Distinguishable, ~LateOptionals
    PROVE  Spec => []OInv
<1>1. Init => OInv
  <2> SUFFICES ASSUME Init PROVE Orderly
    BY InitOrder DEF OInv
  <2>1. /\ nb_recv = [i \in Elements |-> 0] /\ before = nb_recv
        /\ outcome = "none" /\ delivered = {} /\ call_ids = [d \in Dialogs |-> None]
    BY DEF Init
  <2>2. \A k \in Elements : ~(before[k] < nb_recv[k])
    BY <2>1
  <2> QED
    BY <2>1, <2>2 DEF Orderly, Known, Sent, Absorbed
<1>2. TInv /\ OInv /\ [Next]_vars => OInv'
  <2> SUFFICES ASSUME TInv, OInv, [Next]_vars, strays' = 0
               PROVE  HInv' /\ Orderly'
    BY DEF OInv
  <2>1. strays = 0
    <3>1. strays \in Nat /\ strays <= strays'
      BY StraysGrow, LooseAssumption DEF TInv, TypeOK
    <3> QED
      BY <3>1
  <2>2. HInv /\ Orderly /\ OnlyLastFails
    BY <2>1 DEF OInv, Orderly, OnlyLastFails
  <2>3. HInv'
    BY <2>2, NextOrder
  <2>4. Orderly'
    BY <2>1, <2>2, NextOrderly
  <2> QED
    BY <2>3, <2>4
<1> QED
  BY <1>1, <1>2, TInvariance, PTL DEF Spec

(* No call fails but for a message out of the order of its own dialog: the *)
(* first half of OrderlyCallsSucceed.                                      *)
OrderlyCallsHold == outcome = "failed" => strays > 0

(* While every peer keeps the order of its own dialog, no call fails,      *)
(* whatever the order between dialogs and whatever comes twice.            *)
THEOREM OrderlyCallsDoNotFail ==
    ASSUME Distinguishable, ~LateOptionals
    PROVE  Spec => []OrderlyCallsHold
<1>1. TInv /\ OInv => OrderlyCallsHold
  <2>1. TInv => strays \in Nat
    BY LooseAssumption DEF TInv, TypeOK
  <2>2. \A n \in Nat : n = 0 \/ n > 0
    OBVIOUS
  <2> QED
    BY <2>1, <2>2 DEF OInv, Orderly, OrderlyCallsHold
<1> QED
  BY <1>1, TInvariance, OInvariance, PTL

-----------------------------------------------------------------------------
(***************************************************************************)
(* The two results above without the condition on failures, for behaviours *)
(* in which only the last call meets messages that are out of order.       *)
(***************************************************************************)
LateStrays == strays > 0 => calls = Calls

(* So only the last call can fail.                                         *)
LEMMA OnlyTheLastFails ==
    ASSUME Distinguishable, ~LateOptionals, StrayCalls \subseteq {Calls}
    PROVE  Spec => []OnlyLastFails
<1>1. Init => LateStrays
  BY DEF Init, LateStrays
<1>2. TInv /\ LateStrays /\ [Next]_vars => LateStrays'
  <2> SUFFICES ASSUME TInv, LateStrays, [Next]_vars PROVE LateStrays'
    OBVIOUS
  <2>1. calls \in Nat /\ Calls \in Nat
    BY LooseAssumption DEF TInv, TypeOK
  <2>2. CASE NewCall
    <3>1. calls < Calls /\ strays' = strays
      BY <2>2 DEF NewCall
    <3>2. calls # Calls
      BY <2>1, <3>1
    <3> QED
      BY <3>1, <3>2 DEF LateStrays
  <2>3. CASE PauseEnds \/ PauseAgain \/ UNCHANGED vars
    BY <2>3 DEF PauseEnds, PauseAgain, vars, LateStrays
  <2>4. ASSUME NEW i \in Elements, Deliver(i) \/ Retransmit(i)
        PROVE  LateStrays'
    BY <2>4 DEF Deliver, Retransmit, process_incoming, LateStrays
  <2>5. ASSUME NEW i \in Elements, Stray(i)
        PROVE  LateStrays'
    BY <2>5 DEF Stray, process_incoming, LateStrays
  <2> QED
    BY <2>2, <2>3, <2>4, <2>5 DEF Next, MainLoop
<1>3. LateStrays /\ OrderlyCallsHold => OnlyLastFails
  <2> SUFFICES ASSUME LateStrays, OrderlyCallsHold, calls < Calls, outcome = "failed"
               PROVE  FALSE
    BY DEF OnlyLastFails
  <2>1. calls = Calls
    BY DEF LateStrays, OrderlyCallsHold
  <2> QED
    BY <2>1, LooseAssumption
<1> QED
  BY <1>1, <1>2, <1>3, TInvariance, OrderlyCallsDoNotFail, PTL DEF Spec

(* Only the last call meeting messages out of order, every call waits only *)
(* for what is missing,                                                    *)
THEOREM CallsWaitForWhatIsMissing ==
    ASSUME Distinguishable, ~LateOptionals, StrayCalls \subseteq {Calls}, NoPauseBeforeMessage
    PROVE  Spec => []NeverWaitsInVain
BY OnlyTheLastFails, WaitsForWhatIsMissing, PTL

(* and every call keeps the order of its dialogs, the last one too.        *)
THEOREM CallsKeepDialogOrders ==
    ASSUME Distinguishable, ~LateOptionals, StrayCalls \subseteq {Calls}
    PROVE  Spec => OrdersSpec
BY OnlyTheLastFails, KeepsDialogOrders, PTL
=============================================================================
