------------------------ MODULE SocketBuffersProofs ------------------------
(***************************************************************************)
(* Proofs about SocketBuffers, for every set of messages and every size of *)
(* buffers: read_message() returns whole messages in the order in which    *)
(* they were written, also when the connection breaks.                     *)
(***************************************************************************)
EXTENDS SocketBuffers, SequenceTheorems, WellFoundedInduction, TLAPS

(***************************************************************************)
(* Naturals, and functions that are defined by recursion.                  *)
(***************************************************************************)
(* Every set of naturals has a least element.                              *)
LEMMA Least ==
    ASSUME NEW S \in SUBSET Nat, S # {}
    PROVE  \E m \in S : \A k \in S : m <= k
<1> DEFINE R == {p \in Nat \X Nat : p[1] < p[2]}
<1>1. IsWellFoundedOn(R, Nat)
  BY NatLessThanWellFounded DEF OpToRel
<1>2. PICK m \in S : \A k \in S : <<k, m>> \notin R
  <2> HIDE DEF R
  <2> QED
    BY <1>1, WFMin
<1>3. \A k \in S : ~(k < m)
  BY <1>2
<1> QED
  BY <1>3

(* Min of module FiniteSetsExt is the least element.                       *)
LEMMA MinIsLeast ==
    ASSUME NEW S \in SUBSET Nat, S # {}
    PROVE  Min(S) \in S /\ \A k \in S : Min(S) <= k
BY Least DEF Min

(* What holds of 0, and of n + 1 when it holds of n.                       *)
LEMMA Induction ==
    ASSUME NEW S \in SUBSET Nat, 0 \in S, \A n \in S : n + 1 \in S
    PROVE  S = Nat
<1>1. SUFFICES ASSUME Nat \ S # {} PROVE FALSE
  OBVIOUS
<1>2. PICK m \in Nat \ S : \A k \in Nat \ S : m <= k
  BY <1>1, Least
<1>3. m - 1 \in Nat /\ ~(m <= m - 1)
  BY <1>2
<1>4. m - 1 \in S /\ m - 1 + 1 = m
  BY <1>2, <1>3
<1> QED
  BY <1>2, <1>4

(* A function is determined by its first value and the step to the next.   *)
Recursion(f, n, V, first, step) ==
    /\ f = [i \in 0..n |-> IF i = 0 THEN first ELSE step[i][f[i - 1]]]
    /\ f \in [0..n -> V]

(* There is one.                                                           *)
LEMMA RecursiveFunction ==
    ASSUME NEW n \in Nat, NEW V, NEW first \in V,
           NEW step, \A i \in 1..n, v \in V : step[i][v] \in V
    PROVE  \E f : Recursion(f, n, V, first, step)
<1> DEFINE Good(m, f) == /\ f \in [0..m -> V]
                         /\ f[0] = first
                         /\ \A i \in 1..m : f[i] = step[i][f[i - 1]]
           S == {m \in Nat : m <= n => \E f : Good(m, f)}
<1>1. 0 \in S
  <2>1. [i \in 0..0 |-> first] \in [0..0 -> V] /\ [i \in 0..0 |-> first][0] = first
    OBVIOUS
  <2>2. Good(0, [i \in 0..0 |-> first])
    BY <2>1
  <2> QED
    BY <2>2
<1>2. ASSUME NEW m \in S PROVE m + 1 \in S
  <2>1. SUFFICES ASSUME m + 1 <= n PROVE \E f : Good(m + 1, f)
    OBVIOUS
  <2>2. m \in Nat /\ m <= n /\ m + 1 \in 1..n
    BY <2>1
  <2>3. PICK f : Good(m, f)
    BY <2>2
  <2> DEFINE g == [i \in 0..(m + 1) |-> IF i = m + 1 THEN step[i][f[m]] ELSE f[i]]
  <2>4. step[m + 1][f[m]] \in V
    <3>1. m \in 0..m
      BY <2>2
    <3> QED
      BY <2>2, <2>3, <3>1
  <2>5. g \in [0..(m + 1) -> V]
    <3>1. \A i \in 0..(m + 1) : i # m + 1 => i \in 0..m
      BY <2>2
    <3> QED
      BY <2>3, <2>4, <3>1
  <2>6. g[0] = first
    <3>1. 0 \in 0..(m + 1) /\ 0 # m + 1
      BY <2>2
    <3> QED
      BY <2>3, <3>1
  <2>7. ASSUME NEW i \in 1..(m + 1) PROVE g[i] = step[i][g[i - 1]]
    <3>1. i \in Int /\ i \in 0..(m + 1) /\ i - 1 \in 0..(m + 1) /\ i - 1 # m + 1
      BY <2>2
    <3>2. g[i - 1] = f[i - 1]
      BY <3>1
    <3>3. CASE i = m + 1
      <4>1. i - 1 = m
        BY <2>2, <3>3
      <4> QED
        BY <3>1, <3>2, <3>3, <4>1
    <3>4. CASE i # m + 1
      <4>1. i \in 1..m
        BY <2>2, <3>4
      <4>2. g[i] = f[i]
        BY <3>1, <3>4
      <4> QED
        BY <2>3, <3>2, <4>1, <4>2
    <3> QED
      BY <3>3, <3>4
  <2> HIDE DEF g
  <2> QED
    BY <2>5, <2>6, <2>7
<1>3. S = Nat
  <2>1. S \in SUBSET Nat
    OBVIOUS
  <2> HIDE DEF S
  <2> QED
    BY <1>1, <1>2, <2>1, Induction
<1>4. PICK f : Good(n, f)
  BY <1>3
<1>5. f = [i \in 0..n |-> IF i = 0 THEN first ELSE step[i][f[i - 1]]]
  <2>1. \A i \in 0..n : i # 0 => i \in 1..n
    OBVIOUS
  <2>2. \A i \in 0..n : f[i] = IF i = 0 THEN first ELSE step[i][f[i - 1]]
    BY <1>4, <2>1
  <2> QED
    BY <1>4, <2>2
<1> QED
  BY <1>4, <1>5 DEF Recursion

(***************************************************************************)
(* The automaton of check_for_message().                                   *)
(***************************************************************************)
Characters == Nat \cup {CR, LF, ESC, TEXT}

(* What it finds from position i on when it has found so much of the mark. *)
Finds(chars, mark, i, found, end) ==
    IF found = Len(mark) THEN i
    ELSE IF i = Len(chars) THEN 0
    ELSE end[<<i + 1, IF chars[i + 1] = mark[found + 1] THEN found + 1 ELSE 0>>]

(* The function that HeaderEnd chooses exists.                             *)
LEMMA HeaderEndUnfolds ==
    ASSUME NEW C, NEW chars \in Seq(C), NEW mark \in Seq(C), Len(mark) > 0
    PROVE  \E end :
             /\ HeaderEnd(chars, mark) = end[<<0, 0>>]
             /\ \A i \in 0..Len(chars), found \in 0..Len(mark) :
                  end[<<i, found>>] = Finds(chars, mark, i, found, end)
<1> DEFINE n == Len(chars)
           k == Len(mark)
           V == [0..k -> 0..n]
           next(i, found) == IF chars[i + 1] = mark[found + 1] THEN found + 1 ELSE 0
           row(i, v) == [found \in 0..k |-> IF found = k THEN i ELSE v[next(i, found)]]
           first == [found \in 0..k |-> IF found = k THEN n ELSE 0]
           step == [j \in 1..n |-> [v \in V |-> row(n - j, v)]]
<1>1. n \in Nat /\ k \in Nat
  OBVIOUS
<1>2. first \in V
  BY <1>1
<1>3. \A i, found : found \in 0..k /\ found # k => next(i, found) \in 0..k
  BY <1>1
<1>4. ASSUME NEW j \in 1..n, NEW v \in V PROVE step[j][v] = row(n - j, v) /\ step[j][v] \in V
  <2>1. n - j \in 0..n
    BY <1>1
  <2>2. \A found \in 0..k : (IF found = k THEN n - j ELSE v[next(n - j, found)]) \in 0..n
    <3> HIDE DEF next
    <3> QED
      BY <1>3, <2>1
  <2> HIDE DEF next
  <2> QED
    BY <2>2
<1>40. \A j \in 1..n, v \in V : step[j][v] \in V
  <2> HIDE DEF step, V
  <2> QED
    BY <1>4
<1>50. PICK h : Recursion(h, n, V, first, step)
  <2> HIDE DEF first, step, V, n
  <2> QED
    BY ONLY <1>1, <1>2, <1>40, RecursiveFunction
<1>5. h = [j \in 0..n |-> IF j = 0 THEN first ELSE step[j][h[j - 1]]] /\ h \in [0..n -> V]
  BY <1>50 DEF Recursion
<1> DEFINE end == [at \in (0..n) \X (0..k) |-> h[n - at[1]][at[2]]]
<1>6. ASSUME NEW i \in 0..n, NEW found \in 0..k
      PROVE  end[<<i, found>>] = Finds(chars, mark, i, found, end) /\ end[<<i, found>>] \in 0..n
  <2>1. n - i \in 0..n /\ i \in Int
    BY <1>1
  <2>2. end[<<i, found>>] = h[n - i][found] /\ h[n - i][found] \in 0..n
    BY <1>5, <2>1
  <2>3. CASE i = n
    <3>1. n - i = 0
      BY <1>1, <2>3
    <3>2. h[n - i] = first
      BY <1>5, <2>1, <3>1
    <3> QED
      BY <2>2, <2>3, <3>2 DEF Finds
  <2>4. CASE i # n
    <3>1. n - i \in 1..n /\ n - i - 1 \in 0..n /\ i + 1 \in 0..n /\ n - (i + 1) = n - i - 1
          /\ n - (n - i) = i
      BY <1>1, <2>1, <2>4
    <3>2. h[n - i] = step[n - i][h[n - i - 1]] /\ h[n - i - 1] \in V
      <4> HIDE DEF step, first, V
      <4>1. n - i # 0
        BY <1>1, <2>1, <2>4
      <4> QED
        BY <1>5, <2>1, <3>1, <4>1
    <3>3. h[n - i] = row(i, h[n - i - 1])
      <4> HIDE DEF step, row, V
      <4> QED
        BY <1>4, <3>1, <3>2
    <3>4. CASE found = k
      BY <2>2, <3>3, <3>4 DEF Finds
    <3>5. CASE found # k
      <4>1. next(i, found) \in 0..k
        BY <1>3, <3>5
      <4>2. h[n - i][found] = h[n - i - 1][next(i, found)]
        <5> HIDE DEF next
        <5> QED
          BY <3>3, <3>5
      <4>3. end[<<i + 1, next(i, found)>>] = h[n - i - 1][next(i, found)]
        <5> HIDE DEF next
        <5> QED
          BY <3>1, <4>1
      <4>4. Finds(chars, mark, i, found, end) = end[<<i + 1, next(i, found)>>]
        <5> HIDE DEF end
        <5> QED
          BY <2>4, <3>5 DEF Finds
      <4> QED
        BY <2>2, <4>2, <4>3, <4>4
    <3> QED
      BY <3>4, <3>5
  <2> QED
    BY <2>3, <2>4
<1>7. end = [at \in (0..n) \X (0..k) |-> Finds(chars, mark, at[1], at[2], end)]
  <2> DEFINE f == [at \in (0..n) \X (0..k) |-> Finds(chars, mark, at[1], at[2], end)]
  <2>1. \A i \in 0..n, found \in 0..k : h[n - i][found] = Finds(chars, mark, i, found, end)
    <3>1. \A i \in 0..n, found \in 0..k : end[<<i, found>>] = h[n - i][found]
      OBVIOUS
    <3> HIDE DEF end
    <3> QED
      BY <1>6, <3>1
  <2> QED
    BY <2>1
<1> DEFINE e == CHOOSE x : x = [at \in (0..n) \X (0..k) |-> Finds(chars, mark, at[1], at[2], x)]
<1>8. e = [at \in (0..n) \X (0..k) |-> Finds(chars, mark, at[1], at[2], e)]
  <2> HIDE DEF end
  <2> QED
    BY <1>7
<1>9. HeaderEnd(chars, mark) = e[<<0, 0>>]
  BY DEF HeaderEnd, Finds
<1> HIDE DEF e
<1>10. \A i \in 0..n, found \in 0..k : e[<<i, found>>] = Finds(chars, mark, i, found, e)
  BY <1>8
<1> QED
  BY <1>9, <1>10

(* It finds the end of the mark behind where it looks, or nothing.         *)
LEMMA HeaderEndRange ==
    ASSUME NEW C, NEW chars \in Seq(C), NEW mark \in Seq(C), Len(mark) > 0, NEW end,
           \A i \in 0..Len(chars), found \in 0..Len(mark) :
              end[<<i, found>>] = Finds(chars, mark, i, found, end)
    PROVE  \A i \in 0..Len(chars), found \in 0..Len(mark) :
              IF found = Len(mark) THEN end[<<i, found>>] = i
              ELSE end[<<i, found>>] \in {0} \cup (i + 1)..Len(chars)
<1> DEFINE n == Len(chars)
           k == Len(mark)
           Good(i) == \A found \in 0..k :
                        IF found = k THEN end[<<i, found>>] = i
                        ELSE end[<<i, found>>] \in {0} \cup (i + 1)..n
           S == {j \in Nat : j <= n => Good(n - j)}
<1>1. n \in Nat /\ k \in Nat /\ k > 0
  OBVIOUS
<1>2. 0 \in S
  <2>1. n - 0 = n /\ n \in 0..n
    BY <1>1
  <2>2. ASSUME NEW found \in 0..k
        PROVE  end[<<n, found>>] = IF found = k THEN n ELSE 0
    BY <2>1 DEF Finds
  <2>3. Good(n)
    BY <2>2
  <2> QED
    BY <2>1, <2>3
<1>3. ASSUME NEW j \in S PROVE j + 1 \in S
  <2>1. SUFFICES ASSUME j + 1 <= n PROVE Good(n - (j + 1))
    OBVIOUS
  <2> DEFINE i == n - (j + 1)
  <2>2. /\ j \in Nat /\ i \in 0..n /\ i \in Int /\ i # n /\ i + 1 = n - j /\ i + 1 \in 1..n
        /\ j <= n
    BY <1>1, <2>1
  <2>3. Good(i + 1)
    BY <2>2
  <2> HIDE DEF i
  <2>4. ASSUME NEW found \in 0..k, found # k
        PROVE  end[<<i, found>>] \in {0} \cup (i + 1)..n
    <3> DEFINE next == IF chars[i + 1] = mark[found + 1] THEN found + 1 ELSE 0
    <3>1. next \in 0..k
      BY <1>1, <2>4
    <3>2. end[<<i, found>>] = end[<<i + 1, next>>]
      BY <2>2, <2>4 DEF Finds
    <3> HIDE DEF next
    <3>3. end[<<i + 1, next>>] = i + 1 \/ end[<<i + 1, next>>] \in {0} \cup (i + 2)..n
      <4>1. i + 1 + 1 = i + 2
        BY <2>2
      <4> QED
        BY <2>3, <3>1, <4>1
    <3> QED
      BY <1>1, <2>2, <3>2, <3>3
  <2>5. ASSUME NEW found \in 0..k, found = k
        PROVE  end[<<i, found>>] = i
    BY <2>2, <2>5 DEF Finds
  <2>6. Good(i)
    BY <2>4, <2>5
  <2> QED
    BY <2>6 DEF i
<1>4. S = Nat
  <2>1. S \in SUBSET Nat
    OBVIOUS
  <2> HIDE DEF S
  <2> QED
    BY <1>2, <1>3, <2>1, Induction
<1>5. ASSUME NEW i \in 0..n PROVE Good(i)
  <2>1. n - i \in Nat /\ n - i <= n /\ n - (n - i) = i
    BY <1>1
  <2>2. n - i \in S
    BY <1>4, <2>1
  <2>3. Good(n - (n - i))
    BY <2>1, <2>2
  <2> HIDE DEF Good
  <2> QED
    BY <2>1, <2>3
<1> QED
  BY <1>5

(* s is how t begins.                                                      *)
Prefix(s, t) == Len(s) <= Len(t) /\ \A i \in 1..Len(s) : s[i] = t[i]

(* What comes later does not change where the headers end.                 *)
LEMMA HeaderEndOfPrefix ==
    ASSUME NEW C, NEW s \in Seq(C), NEW t \in Seq(C), Prefix(s, t),
           NEW mark \in Seq(C), Len(mark) > 0
    PROVE  /\ HeaderEnd(s, mark) \in 0..Len(s)
           /\ HeaderEnd(s, mark) # 0 => HeaderEnd(t, mark) = HeaderEnd(s, mark)
           /\ HeaderEnd(t, mark) \in 1..Len(s) => HeaderEnd(s, mark) = HeaderEnd(t, mark)
<1>1. PICK e :
        /\ HeaderEnd(s, mark) = e[<<0, 0>>]
        /\ \A i \in 0..Len(s), found \in 0..Len(mark) :
             e[<<i, found>>] = Finds(s, mark, i, found, e)
  BY HeaderEndUnfolds
<1>2. PICK g :
        /\ HeaderEnd(t, mark) = g[<<0, 0>>]
        /\ \A i \in 0..Len(t), found \in 0..Len(mark) :
             g[<<i, found>>] = Finds(t, mark, i, found, g)
  BY HeaderEndUnfolds
<1> DEFINE n == Len(s)
           k == Len(mark)
           Good(i) == \A found \in 0..k :
                        /\ e[<<i, found>>] # 0 => g[<<i, found>>] = e[<<i, found>>]
                        /\ g[<<i, found>>] \in 1..n => e[<<i, found>>] = g[<<i, found>>]
           S == {j \in Nat : j <= n => Good(n - j)}
<1>3. n \in Nat /\ k \in Nat /\ k > 0 /\ Len(t) \in Nat /\ n <= Len(t) /\ 0..n \subseteq 0..Len(t)
  BY DEF Prefix
<1>4. \A i \in 0..n, found \in 0..k :
         IF found = k THEN e[<<i, found>>] = i
         ELSE e[<<i, found>>] \in {0} \cup (i + 1)..n
  BY <1>1, HeaderEndRange
<1>5. \A i \in 0..n, found \in 0..k :
         IF found = k THEN g[<<i, found>>] = i
         ELSE g[<<i, found>>] \in {0} \cup (i + 1)..Len(t)
  BY <1>2, <1>3, HeaderEndRange
<1>6. 0 \in S
  <2>1. n - 0 = n /\ n \in 0..n
    BY <1>3
  <2>2. ASSUME NEW found \in 0..k
        PROVE  /\ e[<<n, found>>] # 0 => g[<<n, found>>] = e[<<n, found>>]
               /\ g[<<n, found>>] \in 1..n => e[<<n, found>>] = g[<<n, found>>]
    <3>1. CASE found = k
      BY <1>4, <1>5, <2>1, <3>1
    <3>2. CASE found # k
      <4>1. e[<<n, found>>] = 0
        BY <1>1, <2>1, <3>2 DEF Finds
      <4>2. g[<<n, found>>] = 0 \/ g[<<n, found>>] \in (n + 1)..Len(t)
        BY <1>5, <2>1, <3>2
      <4>3. g[<<n, found>>] \notin 1..n
        BY <1>3, <4>2
      <4> QED
        BY <4>1, <4>3
    <3> QED
      BY <3>1, <3>2
  <2>3. Good(n)
    BY <2>2
  <2> QED
    BY <2>1, <2>3
<1>7. ASSUME NEW j \in S PROVE j + 1 \in S
  <2>1. SUFFICES ASSUME j + 1 <= n PROVE Good(n - (j + 1))
    OBVIOUS
  <2> DEFINE i == n - (j + 1)
  <2>2. /\ j \in Nat /\ i \in 0..n /\ i \in Int /\ i # n /\ i + 1 = n - j /\ i + 1 \in 1..n
        /\ j <= n /\ i < n
    BY <1>3, <2>1
  <2>3. Good(i + 1)
    BY <2>2
  <2> HIDE DEF i
  <2>4. ASSUME NEW found \in 0..k, found # k
        PROVE  /\ e[<<i, found>>] # 0 => g[<<i, found>>] = e[<<i, found>>]
               /\ g[<<i, found>>] \in 1..n => e[<<i, found>>] = g[<<i, found>>]
    <3> DEFINE next == IF s[i + 1] = mark[found + 1] THEN found + 1 ELSE 0
    <3>1. next \in 0..k
      BY <1>3, <2>4
    <3>2. e[<<i, found>>] = e[<<i + 1, next>>]
      BY <1>1, <2>2, <2>4 DEF Finds
    <3>3. s[i + 1] = t[i + 1]
      BY <2>2 DEF Prefix
    <3>4. g[<<i, found>>] = g[<<i + 1, next>>]
      <4>1. i \in 0..Len(t) /\ i # Len(t)
        BY <1>3, <2>2
      <4>2. next = IF t[i + 1] = mark[found + 1] THEN found + 1 ELSE 0
        BY <3>3
      <4>3. g[<<i, found>>] = Finds(t, mark, i, found, g)
        BY <1>2, <4>1
      <4> HIDE DEF next
      <4> QED
        BY <2>4, <4>1, <4>2, <4>3 DEF Finds
    <3> HIDE DEF next
    <3> QED
      BY <2>3, <3>1, <3>2, <3>4
  <2>5. ASSUME NEW found \in 0..k, found = k
        PROVE  /\ e[<<i, found>>] # 0 => g[<<i, found>>] = e[<<i, found>>]
               /\ g[<<i, found>>] \in 1..n => e[<<i, found>>] = g[<<i, found>>]
    BY <1>4, <1>5, <2>2, <2>5
  <2>6. Good(i)
    BY <2>4, <2>5
  <2> QED
    BY <2>6 DEF i
<1>8. S = Nat
  <2>1. S \in SUBSET Nat
    OBVIOUS
  <2> HIDE DEF S
  <2> QED
    BY <1>6, <1>7, <2>1, Induction
<1>9. Good(0)
  <2>1. n \in S /\ n <= n /\ n - n = 0
    <3> HIDE DEF S
    <3> QED
      BY <1>3, <1>8
  <2>2. Good(n - n)
    BY <2>1
  <2> HIDE DEF Good
  <2> QED
    BY <2>1, <2>2
<1>10. e[<<0, 0>>] \in 0..n
  <2>1. 0 \in 0..n /\ 0 \in 0..k /\ 0 # k
    BY <1>3
  <2>2. e[<<0, 0>>] = 0 \/ e[<<0, 0>>] \in (0 + 1)..n
    BY <1>4, <2>1
  <2> QED
    BY <1>3, <2>2
<1> QED
  BY <1>1, <1>2, <1>3, <1>9, <1>10

(***************************************************************************)
(* The length of a message.                                                *)
(***************************************************************************)
LengthOf(chars, control) == MessageLength(chars, control, HeaderEnd(chars, Mark(control)))

(* The end of the headers is at least one character.                       *)
LEMMA MarkIsNotEmpty ==
    ASSUME NEW control
    PROVE  Mark(control) \in Seq(Characters) /\ Len(Mark(control)) > 0
<1>1. {CR, LF, ESC, TEXT} \subseteq Characters
  BY DEF Characters
<1>2. CASE control
  <2>1. Mark(control) = <<ESC>>
    BY <1>2 DEF Mark
  <2> QED
    BY <1>1, <2>1
<1>3. CASE ~control
  <2>1. Mark(control) = <<CR, LF, CR, LF>>
    BY <1>3 DEF Mark
  <2> QED
    BY <1>1, <2>1
<1> QED
  BY <1>2, <1>3

(* A content is not negative, and the headers alone tell how long it is.   *)
LEMMA ContentLengthFacts ==
    ASSUME NEW control, NEW s \in Seq(Characters), NEW end \in 0..Len(s),
           NEW t \in Seq(Characters), Prefix(s, t)
    PROVE  /\ ContentLength(s, control, end) \in Nat
           /\ ContentLength(t, control, end) = ContentLength(s, control, end)
<1> DEFINE headers == {i \in 1..end : s[i] >= 0}
<1>1. Len(s) \in Nat /\ end \in Nat /\ end <= Len(s)
  OBVIOUS
<1>2. \A i \in 1..end : s[i] = t[i] /\ i \in 1..Len(s)
  BY <1>1 DEF Prefix
<1>3. headers = {i \in 1..end : t[i] >= 0}
  BY <1>2
<1>4. CASE control \/ headers = {}
  BY <1>3, <1>4 DEF ContentLength
<1>5. CASE ~(control \/ headers = {})
  <2>1. Min(headers) \in headers
    <3>1. headers \in SUBSET Nat
      BY <1>1
    <3> HIDE DEF headers
    <3> QED
      BY <1>5, <3>1, MinIsLeast
  <2>2. s[Min(headers)] >= 0 /\ s[Min(headers)] \in Characters /\ s[Min(headers)] = t[Min(headers)]
    BY <1>2, <2>1
  <2>3. s[Min(headers)] \in Nat
    BY <2>2 DEF Characters, CR, LF, ESC, TEXT
  <2>4. /\ ContentLength(s, control, end) = s[Min(headers)]
        /\ ContentLength(t, control, end) = t[Min(headers)]
    <3>1. ContentLength(s, control, end) = s[Min(headers)]
      BY <1>5 DEF ContentLength
    <3>2. ContentLength(t, control, end) = t[Min(headers)]
      <4>1. ~(control \/ {i \in 1..end : t[i] >= 0} = {})
        BY <1>3, <1>5
      <4>2. ContentLength(t, control, end) = t[Min({i \in 1..end : t[i] >= 0})]
        BY <4>1 DEF ContentLength
      <4> HIDE DEF headers
      <4> QED
        BY <1>3, <4>2
    <3> QED
      BY <3>1, <3>2
  <2> QED
    BY <2>2, <2>3, <2>4
<1> QED
  BY <1>4, <1>5

(* A message is found when it is all there, and what comes later does not  *)
(* change it.                                                              *)
LEMMA LengthOfPrefix ==
    ASSUME NEW control, NEW s \in Seq(Characters), NEW t \in Seq(Characters), Prefix(s, t)
    PROVE  /\ LengthOf(s, control) \in 0..Len(s)
           /\ LengthOf(s, control) # 0 => LengthOf(t, control) = LengthOf(s, control)
           /\ LengthOf(t, control) \in 1..Len(s) => LengthOf(s, control) = LengthOf(t, control)
<1> DEFINE mark == Mark(control)
           d == HeaderEnd(s, mark)
           e == HeaderEnd(t, mark)
           cs == ContentLength(s, control, d)
           ct == ContentLength(t, control, e)
<1>1. mark \in Seq(Characters) /\ Len(mark) > 0
  BY MarkIsNotEmpty
<1>2. Prefix(t, t)
  BY DEF Prefix
<1>3. /\ d \in 0..Len(s)
      /\ d # 0 => e = d
      /\ e \in 1..Len(s) => d = e
      /\ e \in 0..Len(t)
  <2> HIDE DEF mark
  <2> QED
    BY <1>1, <1>2, HeaderEndOfPrefix
<1>4. cs \in Nat /\ ct \in Nat /\ (d = e => ct = cs)
  <2> HIDE DEF d, e
  <2> QED
    BY <1>2, <1>3, ContentLengthFacts
<1>5. /\ LengthOf(s, control) = IF d = 0 \/ d + cs > Len(s) THEN 0 ELSE d + cs
      /\ LengthOf(t, control) = IF e = 0 \/ e + ct > Len(t) THEN 0 ELSE e + ct
  BY DEF LengthOf, MessageLength
<1>6. Len(s) \in Nat /\ Len(t) \in Nat /\ Len(s) <= Len(t)
  BY DEF Prefix
<1> HIDE DEF d, e, cs, ct, mark
<1>7. LengthOf(s, control) # 0 => LengthOf(t, control) = LengthOf(s, control)
  BY <1>3, <1>4, <1>5, <1>6
<1>8. LengthOf(t, control) \in 1..Len(s) => LengthOf(s, control) = LengthOf(t, control)
  <2>1. SUFFICES ASSUME LengthOf(t, control) \in 1..Len(s)
                 PROVE  LengthOf(s, control) = LengthOf(t, control)
    OBVIOUS
  <2>2. LengthOf(t, control) = e + ct /\ e # 0
    BY <1>5, <1>6, <2>1
  <2>3. e \in 1..Len(s) /\ d = e /\ cs = ct
    BY <1>3, <1>4, <1>6, <2>1, <2>2
  <2> QED
    BY <1>4, <1>5, <1>6, <2>1, <2>2, <2>3
<1> QED
  BY <1>3, <1>4, <1>5, <1>6, <1>7, <1>8

(***************************************************************************)
(* The bytes of messages.  What depends on the variable traffic, which no  *)
(* step changes, is stated for a value t of it.                            *)
(***************************************************************************)
BytesOf(t) == UNION {{<<m, i>> : i \in DOMAIN t.chars[m]} : m \in Messages}
LastOf(t, b) == b[2] = Len(t.chars[b[1]])
MessageBytes(t, m) == [i \in DOMAIN t.chars[m] |-> <<m, i>>]
CharsOf(t, s) == [i \in DOMAIN s |-> t.chars[s[i][1]][s[i][2]]]
MessagesIn(t, s) ==
    LET of[i \in 0..Len(s)] ==
          IF i = 0 THEN << >>
          ELSE IF LastOf(t, s[i]) THEN Append(of[i - 1], s[i][1]) ELSE of[i - 1]
    IN  of[Len(s)]

(* The messages of a connection are sequences of characters.               *)
LEMMA TrafficFacts ==
    ASSUME NEW t \in Traffics
    PROVE  /\ t.control \in BOOLEAN
           /\ \A m \in Messages : /\ t.chars[m] \in Seq(Characters)
                                  /\ DOMAIN t.chars[m] = 1..Len(t.chars[m])
                                  /\ Len(t.chars[m]) \in Nat
<1>1. t \in [control : BOOLEAN, chars : [Messages -> Seq(Characters)]]
  BY BuffersAssumption DEF Characters
<1>2. ASSUME NEW m \in Messages PROVE t.chars[m] \in Seq(Characters)
  BY <1>1
<1> QED
  BY <1>1, <1>2, LenProperties

(* A byte is one of a message, at one of its places.                       *)
LEMMA ByteFacts ==
    ASSUME NEW t \in Traffics
    PROVE  /\ \A b \in BytesOf(t) : /\ b[1] \in Messages /\ b[2] \in 1..Len(t.chars[b[1]])
                                    /\ b = <<b[1], b[2]>>
           /\ \A m \in Messages : \A i \in 1..Len(t.chars[m]) : <<m, i>> \in BytesOf(t)
<1>1. \A m \in Messages : DOMAIN t.chars[m] = 1..Len(t.chars[m])
  BY TrafficFacts
<1>2. ASSUME NEW b \in BytesOf(t)
      PROVE  /\ b[1] \in Messages /\ b[2] \in 1..Len(t.chars[b[1]])
             /\ b = <<b[1], b[2]>>
  <2>1. PICK m \in Messages : b \in {<<m, i>> : i \in DOMAIN t.chars[m]}
    BY DEF BytesOf
  <2>2. PICK i \in DOMAIN t.chars[m] : b = <<m, i>>
    BY <2>1
  <2> QED
    BY <1>1, <2>2
<1>3. ASSUME NEW m \in Messages, NEW i \in 1..Len(t.chars[m])
      PROVE  <<m, i>> \in BytesOf(t)
  <2>1. <<m, i>> \in {<<m, j>> : j \in DOMAIN t.chars[m]}
    BY <1>1
  <2> QED
    BY <2>1 DEF BytesOf
<1> QED
  BY <1>2, <1>3

(* The bytes of a message, one for each of its characters.                 *)
LEMMA MessageBytesFacts ==
    ASSUME NEW t \in Traffics, NEW m \in Messages
    PROVE  /\ MessageBytes(t, m) \in Seq(BytesOf(t))
           /\ Len(MessageBytes(t, m)) = Len(t.chars[m])
           /\ \A i \in 1..Len(t.chars[m]) : MessageBytes(t, m)[i] = <<m, i>>
           /\ CharsOf(t, MessageBytes(t, m)) = t.chars[m]
<1> DEFINE n == Len(t.chars[m])
           s == MessageBytes(t, m)
<1>1. n \in Nat /\ DOMAIN t.chars[m] = 1..n /\ t.chars[m] \in Seq(Characters)
  BY TrafficFacts
<1>2. s = [i \in 1..n |-> <<m, i>>]
  BY <1>1 DEF MessageBytes
<1>3. \A i \in 1..n : <<m, i>> \in BytesOf(t)
  BY ByteFacts
<1> HIDE DEF n, s
<1>4. s \in Seq(BytesOf(t)) /\ Len(s) = n /\ DOMAIN s = 1..n
  BY <1>1, <1>2, <1>3
<1>5. \A i \in 1..n : s[i] = <<m, i>>
  BY <1>2
<1>6. CharsOf(t, s) = [i \in 1..n |-> t.chars[m][i]]
  BY <1>4, <1>5 DEF CharsOf
<1>7. t.chars[m] = [i \in 1..n |-> t.chars[m][i]]
  BY <1>1
<1> QED
  BY <1>4, <1>5, <1>6, <1>7 DEF n, s

(* The characters of bytes in a row,                                       *)
LEMMA CharsFacts ==
    ASSUME NEW t \in Traffics, NEW s \in Seq(BytesOf(t))
    PROVE  /\ CharsOf(t, s) \in Seq(Characters)
           /\ Len(CharsOf(t, s)) = Len(s)
           /\ \A i \in 1..Len(s) : CharsOf(t, s)[i] = t.chars[s[i][1]][s[i][2]]
<1>1. DOMAIN s = 1..Len(s) /\ Len(s) \in Nat
  OBVIOUS
<1>2. ASSUME NEW i \in 1..Len(s) PROVE t.chars[s[i][1]][s[i][2]] \in Characters
  <2>1. s[i] \in BytesOf(t)
    OBVIOUS
  <2>2. s[i][1] \in Messages /\ s[i][2] \in 1..Len(t.chars[s[i][1]])
    BY <2>1, ByteFacts
  <2>3. t.chars[s[i][1]] \in Seq(Characters)
    BY <2>2, TrafficFacts
  <2> QED
    BY <2>2, <2>3
<1> QED
  BY <1>1, <1>2 DEF CharsOf

(* of which a part has a part.                                             *)
LEMMA CharsOfPrefix ==
    ASSUME NEW t \in Traffics, NEW s \in Seq(BytesOf(t)), NEW u \in Seq(BytesOf(t)), Prefix(s, u)
    PROVE  Prefix(CharsOf(t, s), CharsOf(t, u))
<1>1. \A i \in 1..Len(s) : i \in 1..Len(u) /\ s[i] = u[i]
  BY DEF Prefix
<1> QED
  BY SMTT(40), <1>1, CharsFacts DEF Prefix

(***************************************************************************)
(* The messages of a sequence of bytes.                                    *)
(***************************************************************************)
LEMMA MessagesUnfold ==
    ASSUME NEW t \in Traffics, NEW s \in Seq(BytesOf(t))
    PROVE  \E f \in [0..Len(s) -> Seq(Messages)] :
             /\ MessagesIn(t, s) = f[Len(s)]
             /\ f[0] = << >>
             /\ \A i \in 1..Len(s) :
                  f[i] = IF LastOf(t, s[i]) THEN Append(f[i - 1], s[i][1]) ELSE f[i - 1]
<1> DEFINE n == Len(s)
           V == Seq(Messages)
           next(i, v) == IF LastOf(t, s[i]) THEN Append(v, s[i][1]) ELSE v
           step == [i \in 1..n |-> [v \in V |-> next(i, v)]]
           of(f) == [i \in 0..n |-> IF i = 0 THEN << >> ELSE next(i, f[i - 1])]
<1>1. n \in Nat /\ << >> \in V
  OBVIOUS
<1>2. ASSUME NEW i \in 1..n, NEW v \in V PROVE step[i][v] = next(i, v) /\ step[i][v] \in V
  <2>1. s[i] \in BytesOf(t)
    OBVIOUS
  <2>2. s[i][1] \in Messages
    BY <2>1, ByteFacts
  <2> QED
    BY <2>2
<1>3. \A i \in 1..n, v \in V : step[i][v] \in V
  <2> HIDE DEF step, V
  <2> QED
    BY <1>2
<1> DEFINE first == << >>
<1>4. PICK f : Recursion(f, n, V, first, step)
  <2>1. first \in V
    BY <1>1
  <2>2. n \in Nat
    BY <1>1
  <2> HIDE DEF step, V, n, first
  <2> QED
    BY ONLY <1>3, <2>1, <2>2, RecursiveFunction
<1>44. f = [i \in 0..n |-> IF i = 0 THEN first ELSE step[i][f[i - 1]]] /\ f \in [0..n -> V]
  BY <1>4 DEF Recursion
<1>5. ASSUME NEW g, g = of(g) PROVE g \in [0..n -> V]
  <2> DEFINE S == {j \in Nat : j <= n => g[j] \in V}
  <2>1. 0 \in S
    <3>1. 0 \in 0..n
      BY <1>1
    <3> QED
      BY <1>1, <1>5, <3>1
  <2>2. ASSUME NEW j \in S PROVE j + 1 \in S
    <3>1. SUFFICES ASSUME j + 1 <= n PROVE g[j + 1] \in V
      OBVIOUS
    <3>2. j + 1 \in 1..n /\ j + 1 \in 0..n /\ j + 1 - 1 = j /\ j + 1 # 0 /\ j <= n
      BY <1>1, <3>1
    <3>3. g[j] \in V
      BY <3>2
    <3>4. g[j + 1] = next(j + 1, g[j])
      <4> HIDE DEF next
      <4> QED
        BY <1>5, <3>2
    <3>5. next(j + 1, g[j]) \in V
      <4> HIDE DEF next, V, step
      <4> QED
        BY <1>2, <3>2, <3>3
    <3> QED
      BY <3>4, <3>5
  <2>3. S = Nat
    <3>1. S \in SUBSET Nat
      OBVIOUS
    <3> HIDE DEF S
    <3> QED
      BY <2>1, <2>2, <3>1, Induction
  <2>4. \A j \in 0..n : g[j] \in V
    BY <1>1, <2>3
  <2> HIDE DEF next, V
  <2> QED
    BY <1>5, <2>4
<1>6. f = of(f)
  <2>1. ASSUME NEW i \in 0..n, i # 0 PROVE step[i][f[i - 1]] = next(i, f[i - 1])
    <3>1. i \in 1..n /\ i - 1 \in 0..n
      BY <1>1, <2>1
    <3>2. f[i - 1] \in V
      BY <1>44, <3>1
    <3> HIDE DEF step, next, V
    <3> QED
      BY <1>2, <3>1, <3>2
  <2> HIDE DEF step, next
  <2> QED
    BY <1>44, <2>1
<1> DEFINE g == CHOOSE x : x = of(x)
<1>7. g = of(g)
  BY <1>6
<1>8. MessagesIn(t, s) = g[n]
  BY DEF MessagesIn
<1> HIDE DEF g
<1>9. g \in [0..n -> V]
  BY <1>5, <1>7
<1>10. g[0] = << >>
  BY <1>1, <1>7
<1>11. ASSUME NEW i \in 1..n PROVE g[i] = next(i, g[i - 1])
  <2>1. i \in 0..n /\ i # 0
    BY <1>1
  <2> HIDE DEF next
  <2> QED
    BY <1>7, <2>1
<1> QED
  BY <1>8, <1>9, <1>10, <1>11

(* So the messages in bytes are messages.                                  *)
LEMMA MessagesInType ==
    ASSUME NEW t \in Traffics, NEW s \in Seq(BytesOf(t))
    PROVE  MessagesIn(t, s) \in Seq(Messages)
<1>1. PICK f \in [0..Len(s) -> Seq(Messages)] : MessagesIn(t, s) = f[Len(s)]
  BY MessagesUnfold
<1>2. Len(s) \in 0..Len(s)
  OBVIOUS
<1> QED
  BY <1>1, <1>2

(* Bytes in a row have the messages of the ones, then of the others.       *)
LEMMA MessagesOfConcat ==
    ASSUME NEW t \in Traffics, NEW s \in Seq(BytesOf(t)), NEW u \in Seq(BytesOf(t))
    PROVE  MessagesIn(t, s \o u) = MessagesIn(t, s) \o MessagesIn(t, u)
<1> DEFINE a == Len(s)
           b == Len(u)
           w == s \o u
           next(x, v) == IF LastOf(t, x) THEN Append(v, x[1]) ELSE v
<1>1. /\ w \in Seq(BytesOf(t)) /\ Len(w) = a + b /\ a \in Nat /\ b \in Nat
      /\ \A i \in 1..(a + b) : w[i] = IF i <= a THEN s[i] ELSE u[i - a]
  BY ConcatProperties, LenProperties
<1>2. PICK f \in [0..Len(w) -> Seq(Messages)] :
         /\ MessagesIn(t, w) = f[Len(w)] /\ f[0] = << >>
         /\ \A i \in 1..Len(w) : f[i] = next(w[i], f[i - 1])
  <2> HIDE DEF w
  <2> QED
    BY <1>1, MessagesUnfold
<1>3. PICK g \in [0..a -> Seq(Messages)] :
         /\ MessagesIn(t, s) = g[a] /\ g[0] = << >>
         /\ \A i \in 1..a : g[i] = next(s[i], g[i - 1])
  BY MessagesUnfold
<1>4. PICK h \in [0..b -> Seq(Messages)] :
         /\ MessagesIn(t, u) = h[b] /\ h[0] = << >>
         /\ \A i \in 1..b : h[i] = next(u[i], h[i - 1])
  BY MessagesUnfold
<1> DEFINE S == {i \in Nat : i <= a => f[i] = g[i]}
<1>5. S = Nat
  <2>1. 0 \in S
    BY <1>2, <1>3
  <2>2. ASSUME NEW i \in S PROVE i + 1 \in S
    <3>1. SUFFICES ASSUME i + 1 <= a PROVE f[i + 1] = g[i + 1]
      OBVIOUS
    <3>2. /\ i \in Nat /\ i <= a /\ i + 1 \in 1..a /\ i + 1 \in 1..(a + b)
          /\ i + 1 - 1 = i
      BY <1>1, <3>1
    <3>3. f[i] = g[i] /\ w[i + 1] = s[i + 1]
      BY <1>1, <3>1, <3>2
    <3> HIDE DEF w, S, next
    <3>4. f[i + 1] = next(w[i + 1], f[i])
      BY <1>1, <1>2, <3>2
    <3>5. g[i + 1] = next(s[i + 1], g[i])
      BY <1>3, <3>2
    <3> QED
      BY <3>3, <3>4, <3>5
  <2>3. S \in SUBSET Nat
    OBVIOUS
  <2> HIDE DEF S
  <2> QED
    BY <2>1, <2>2, <2>3, Induction
<1>6. f[a] = g[a]
  BY SMTT(40), <1>1, <1>5
<1> DEFINE T == {i \in Nat : i <= b => f[a + i] = g[a] \o h[i]}
<1>7. T = Nat
  <2>1. 0 \in T
    <3>1. a + 0 = a /\ a \in 0..a
      BY <1>1
    <3>2. g[a] \in Seq(Messages)
      BY <1>3, <3>1
    <3>3. g[a] \o << >> = g[a]
      BY <3>2, ConcatEmptySeq
    <3> HIDE DEF w
    <3> QED
      BY <1>4, <1>6, <3>1, <3>3
  <2>2. ASSUME NEW i \in T PROVE i + 1 \in T
    <3>0. i \in Nat /\ i + 1 \in Nat
      OBVIOUS
    <3>1. SUFFICES ASSUME i + 1 <= b PROVE f[a + (i + 1)] = g[a] \o h[i + 1]
      <4> HIDE DEF w, a, b
      <4> QED
        BY <3>0
    <3>2. /\ i \in Nat /\ i <= b /\ i + 1 \in 1..b /\ a + (i + 1) \in 1..(a + b)
          /\ i + 1 - 1 = i /\ a + (i + 1) - 1 = a + i /\ ~(a + (i + 1) <= a)
          /\ a + (i + 1) - a = i + 1 /\ i \in 0..b /\ a \in 0..a
      BY <1>1, <3>1
    <3>3. f[a + i] = g[a] \o h[i] /\ w[a + (i + 1)] = u[i + 1]
      BY <1>1, <3>1, <3>2
    <3>4. g[a] \in Seq(Messages) /\ h[i] \in Seq(Messages)
      BY <1>3, <1>4, <3>2
    <3>5. u[i + 1][1] \in Messages
      <4>1. u[i + 1] \in BytesOf(t)
        BY <3>2
      <4> QED
        BY <4>1, ByteFacts
    <3>6. f[a + (i + 1)] = next(u[i + 1], g[a] \o h[i])
      <4>1. PICK j \in 1..Len(w) : j = a + (i + 1)
        <5> HIDE DEF a, b, w
        <5> QED
          BY <1>1, <3>2
      <4>2. j - 1 = a + i
        BY <3>2, <4>1
      <4>3. w[j] = u[i + 1] /\ f[j - 1] = g[a] \o h[i]
        <5> HIDE DEF w, a
        <5> QED
          BY <3>3, <4>1, <4>2
      <4>4. f[j] = next(w[j], f[j - 1])
        <5> HIDE DEF w, next
        <5> QED
          BY <1>2
      <4> HIDE DEF w, a
      <4>5. f[j] = next(u[i + 1], g[a] \o h[i])
        BY <4>3, <4>4
      <4> QED
        BY <4>1, <4>5
    <3>7. h[i + 1] = next(u[i + 1], h[i])
      <4> HIDE DEF w, T, next
      <4> QED
        BY <1>4, <3>2
    <3>8. Append(g[a] \o h[i], u[i + 1][1]) = g[a] \o Append(h[i], u[i + 1][1])
      <4> DEFINE c == u[i + 1][1]
                 p == g[a]
                 q == h[i]
      <4> HIDE DEF c, p, q
      <4>1. p \in Seq(Messages) /\ q \in Seq(Messages) /\ c \in Messages
        BY <3>4, <3>5 DEF c, p, q
      <4>2. p \o q \in Seq(Messages) /\ <<c>> \in Seq(Messages)
        BY <4>1, ConcatProperties
      <4>3. Append(p \o q, c) = (p \o q) \o <<c>> /\ Append(q, c) = q \o <<c>>
        BY <4>1, <4>2, AppendIsConcat
      <4>4. (p \o q) \o <<c>> = p \o (q \o <<c>>)
        BY SMTT(40), <4>1, <4>2, ConcatAssociative
      <4> QED
        BY <4>3, <4>4 DEF c, p, q
    <3> QED
      BY <3>6, <3>7, <3>8
  <2>3. T \in SUBSET Nat
    OBVIOUS
  <2> HIDE DEF T
  <2> QED
    BY <2>1, <2>2, <2>3, Induction
<1>8. f[a + b] = g[a] \o h[b]
  <2>1. b \in T /\ b <= b
    <3> HIDE DEF T
    <3> QED
      BY <1>1, <1>7
  <2> HIDE DEF w, a, b
  <2> QED
    BY <2>1
<1> HIDE DEF w
<1>9. MessagesIn(t, w) = MessagesIn(t, s) \o MessagesIn(t, u)
  BY <1>1, <1>2, <1>3, <1>4, <1>8
<1> QED
  BY <1>9 DEF w

(* Only the last bytes of messages count.                                  *)
LEMMA NoMessageEnds ==
    ASSUME NEW t \in Traffics, NEW s \in Seq(BytesOf(t)), \A i \in 1..Len(s) : ~LastOf(t, s[i])
    PROVE  MessagesIn(t, s) = << >>
<1>1. PICK f \in [0..Len(s) -> Seq(Messages)] :
         /\ MessagesIn(t, s) = f[Len(s)] /\ f[0] = << >>
         /\ \A i \in 1..Len(s) :
              f[i] = IF LastOf(t, s[i]) THEN Append(f[i - 1], s[i][1]) ELSE f[i - 1]
  BY MessagesUnfold
<1> DEFINE S == {i \in Nat : i <= Len(s) => f[i] = << >>}
<1>2. 0 \in S
  BY <1>1
<1>3. ASSUME NEW i \in S PROVE i + 1 \in S
  <2>1. SUFFICES ASSUME i + 1 <= Len(s) PROVE f[i + 1] = << >>
    OBVIOUS
  <2>2. i \in Nat /\ i + 1 \in 1..Len(s) /\ i + 1 - 1 = i /\ i <= Len(s)
    BY <2>1
  <2>3. f[i] = << >>
    BY <2>2
  <2> QED
    BY <1>1, <2>2, <2>3
<1>4. S = Nat
  <2>1. S \in SUBSET Nat
    OBVIOUS
  <2> HIDE DEF S
  <2> QED
    BY <1>2, <1>3, <2>1, Induction
<1> QED
  BY <1>1, <1>4

(* A message has itself, once.                                             *)
LEMMA OneMessage ==
    ASSUME NEW t \in Traffics, NEW m \in Messages, Len(t.chars[m]) > 0
    PROVE  MessagesIn(t, MessageBytes(t, m)) = <<m>>
<1> DEFINE n == Len(t.chars[m])
           s == MessageBytes(t, m)
           u == SubSeq(s, 1, n - 1)
           w == <<<<m, n>>>>
<1>1. /\ n \in Nat /\ n > 0 /\ s \in Seq(BytesOf(t)) /\ Len(s) = n
      /\ \A i \in 1..n : s[i] = <<m, i>>
  BY TrafficFacts, MessageBytesFacts
<1> HIDE DEF n, s
<1>2. /\ u \in Seq(BytesOf(t)) /\ Len(u) = n - 1
      /\ \A i \in 1..(n - 1) : u[i] = <<m, i>>
  <2>1. \A i \in 1..(n - 1) : s[i] \in BytesOf(t) /\ s[i] = <<m, i>>
    BY <1>1
  <2> QED
    BY <1>1, <2>1, SubSeqProperties
<1>3. <<m, n>> \in BytesOf(t) /\ LastOf(t, <<m, n>>)
  <2>1. n \in 1..Len(t.chars[m])
    BY <1>1 DEF n
  <2> QED
    BY <2>1, ByteFacts DEF LastOf, n
<1>4. w \in Seq(BytesOf(t)) /\ Len(w) = 1 /\ w[1] = <<m, n>>
  BY <1>3
<1>5. s = u \o w
  <2> HIDE DEF u, w
  <2>1. /\ u \o w \in Seq(BytesOf(t)) /\ Len(u \o w) = n
        /\ \A i \in 1..n : (u \o w)[i] = IF i <= n - 1 THEN u[i] ELSE w[i - (n - 1)]
    <3>1. Len(u) + Len(w) = n
      BY <1>1, <1>2, <1>4
    <3>2. /\ u \o w \in Seq(BytesOf(t)) /\ Len(u \o w) = Len(u) + Len(w)
          /\ \A i \in 1..(Len(u) + Len(w)) :
               (u \o w)[i] = IF i <= Len(u) THEN u[i] ELSE w[i - Len(u)]
      BY <1>2, <1>4, ConcatProperties
    <3> QED
      BY <1>2, <3>1, <3>2
  <2>2. \A i \in 1..n : (u \o w)[i] = s[i]
    <3>1. ASSUME NEW i \in 1..n PROVE (u \o w)[i] = s[i]
      <4>1. CASE i <= n - 1
        <5>1. i \in 1..(n - 1)
          BY <1>1, <4>1
        <5> QED
          BY <1>1, <1>2, <2>1, <4>1, <5>1
      <4>2. CASE i = n
        <5>1. ~(i <= n - 1) /\ i - (n - 1) = 1
          BY <1>1, <4>2
        <5> QED
          BY <1>1, <1>4, <2>1, <4>2, <5>1
      <4>3. i <= n - 1 \/ i = n
        BY <1>1
      <4> QED
        BY <4>1, <4>2, <4>3
    <3> QED
      BY <3>1
  <2> QED
    BY <1>1, <2>1, <2>2, SeqEqual
<1>6. MessagesIn(t, u) = << >>
  <2>1. \A i \in 1..Len(u) : ~LastOf(t, u[i])
    BY <1>1, <1>2 DEF LastOf, n
  <2> HIDE DEF u
  <2> QED
    BY <1>2, <2>1, NoMessageEnds
<1>7. MessagesIn(t, w) = <<m>>
  <2>1. PICK f \in [0..1 -> Seq(Messages)] :
           /\ MessagesIn(t, w) = f[1] /\ f[0] = << >>
           /\ \A i \in 1..1 :
                f[i] = IF LastOf(t, w[i]) THEN Append(f[i - 1], w[i][1]) ELSE f[i - 1]
    <3> HIDE DEF w
    <3> QED
      BY <1>4, MessagesUnfold
  <2>2. 1 \in 1..1 /\ 1 - 1 = 0
    OBVIOUS
  <2>3. f[1] = Append(f[0], w[1][1])
    <3> HIDE DEF w
    <3> QED
      BY <1>3, <1>4, <2>1, <2>2
  <2>4. w[1][1] = m
    BY <1>4
  <2> HIDE DEF w
  <2> QED
    BY <2>1, <2>3, <2>4
<1>8. MessagesIn(t, s) = << >> \o <<m>>
  <2> HIDE DEF u, w
  <2> QED
    BY <1>2, <1>4, <1>5, <1>6, <1>7, MessagesOfConcat
<1> QED
  BY <1>8 DEF s

(***************************************************************************)
(* Bytes in the order in which they were written.                          *)
(***************************************************************************)
(* It begins with a message,                                               *)
Starts(s) == s # << >> => s[1][2] = 1
(* each byte is followed by the next of its message, or another message,   *)
Follows(t, b, c) == IF LastOf(t, b) THEN c[2] = 1 ELSE c = <<b[1], b[2] + 1>>
Flows(t, s) == \A i \in 1..(Len(s) - 1) : Follows(t, s[i], s[i + 1])
(* and it ends with a message.                                             *)
Ends(t, s) == s # << >> => LastOf(t, s[Len(s)])
Entire(t, s) == Starts(s) /\ Flows(t, s) /\ Ends(t, s)

(* An empty sequence of bytes tears no message,                            *)
LEMMA EmptyIsEntire == ASSUME NEW t PROVE Entire(t, << >>)
BY DEF Entire, Starts, Flows, Ends

(* and nor is a message.                                                   *)
LEMMA MessageIsEntire ==
    ASSUME NEW t \in Traffics, NEW m \in Messages, Len(t.chars[m]) > 0
    PROVE  Entire(t, MessageBytes(t, m))
<1> DEFINE n == Len(t.chars[m])
           s == MessageBytes(t, m)
<1>1. /\ n \in Nat /\ n > 0 /\ Len(s) = n
      /\ \A i \in 1..n : s[i] = <<m, i>>
  BY TrafficFacts, MessageBytesFacts
<1> HIDE DEF s
<1>2. s[1] = <<m, 1>> /\ s[n] = <<m, n>>
  BY <1>1
<1>3. ASSUME NEW i \in 1..(n - 1) PROVE Follows(t, s[i], s[i + 1])
  <2>1. s[i] = <<m, i>> /\ s[i + 1] = <<m, i + 1>> /\ i # n
    BY <1>1
  <2> QED
    BY <2>1 DEF Follows, LastOf
<1> QED
  BY <1>1, <1>2, <1>3 DEF Entire, Starts, Flows, Ends, LastOf, s

(* How the parts of a sequence of bytes are in order, and the other way.   *)
LEMMA FlowOfConcat ==
    ASSUME NEW t \in Traffics, NEW s \in Seq(BytesOf(t)), NEW u \in Seq(BytesOf(t))
    PROVE  /\ Starts(s \o u) /\ s # << >> => Starts(s)
           /\ Flows(t, s \o u) => Flows(t, s) /\ Flows(t, u)
           /\ Ends(t, s \o u) => Ends(t, u)
           /\ Flows(t, s \o u) /\ s # << >> /\ Ends(t, s) => Starts(u)
           /\ Entire(t, s) /\ Entire(t, u) => Entire(t, s \o u)
<1> DEFINE a == Len(s)
           b == Len(u)
           w == s \o u
<1>1. /\ w \in Seq(BytesOf(t)) /\ Len(w) = a + b /\ a \in Nat /\ b \in Nat
      /\ \A i \in 1..(a + b) : w[i] = IF i <= a THEN s[i] ELSE u[i - a]
  BY ConcatProperties, LenProperties
<1>2. (s = << >> <=> a = 0) /\ (u = << >> <=> b = 0) /\ (w = << >> <=> a + b = 0)
  <2> HIDE DEF w
  <2> QED
    BY <1>1, EmptySeq
<1>3. /\ \A i \in 1..a : w[i] = s[i]
      /\ \A i \in 1..b : w[a + i] = u[i]
  <2>1. ASSUME NEW i \in 1..a PROVE w[i] = s[i]
    <3>1. i \in 1..(a + b) /\ i <= a
      BY <1>1
    <3> HIDE DEF w, a, b
    <3> QED
      BY <1>1, <3>1
  <2>2. ASSUME NEW i \in 1..b PROVE w[a + i] = u[i]
    <3>1. a + i \in 1..(a + b) /\ ~(a + i <= a) /\ a + i - a = i
      BY <1>1
    <3> HIDE DEF w, a, b
    <3> QED
      BY <1>1, <3>1
  <2> QED
    BY <2>1, <2>2
<1> HIDE DEF w, a, b
<1>4. Starts(w) /\ s # << >> => Starts(s)
  <2>1. SUFFICES ASSUME Starts(w), s # << >> PROVE s[1][2] = 1
    BY DEF Starts
  <2>2. 1 \in 1..a /\ w # << >>
    BY <1>1, <1>2, <2>1
  <2> QED
    BY <1>3, <2>1, <2>2 DEF Starts
<1>5. ASSUME Flows(t, w) PROVE Flows(t, s) /\ Flows(t, u)
  <2>1. ASSUME NEW i \in 1..(a - 1) PROVE Follows(t, s[i], s[i + 1])
    <3>1. i \in 1..a /\ i + 1 \in 1..a /\ i \in 1..(Len(w) - 1)
      BY <1>1
    <3>2. Follows(t, w[i], w[i + 1])
      BY <1>5, <3>1 DEF Flows
    <3> QED
      BY <1>3, <3>1, <3>2
  <2>2. ASSUME NEW i \in 1..(b - 1) PROVE Follows(t, u[i], u[i + 1])
    <3>1. i \in 1..b /\ i + 1 \in 1..b /\ a + i \in 1..(Len(w) - 1) /\ a + i + 1 = a + (i + 1)
      BY <1>1
    <3>2. Follows(t, w[a + i], w[a + i + 1])
      <4>1. PICK j \in 1..(Len(w) - 1) : j = a + i
        BY <3>1
      <4>2. Follows(t, w[j], w[j + 1])
        BY <1>5 DEF Flows
      <4> QED
        BY <4>1, <4>2
    <3>3. w[a + i] = u[i] /\ w[a + i + 1] = u[i + 1]
      BY <1>3, <3>1
    <3> QED
      BY <3>2, <3>3
  <2> QED
    BY <2>1, <2>2 DEF Flows, a, b
<1>6. ASSUME Ends(t, w) PROVE Ends(t, u)
  <2>1. SUFFICES ASSUME u # << >> PROVE LastOf(t, u[b])
    BY DEF Ends, b
  <2>2. w # << >> /\ b \in 1..b
    BY <1>1, <1>2, <2>1
  <2>3. w[Len(w)] = u[b]
    BY <1>1, <1>3, <2>2
  <2> QED
    BY <1>6, <2>2, <2>3 DEF Ends
<1>7. ASSUME s # << >>, u # << >>
      PROVE  a \in 1..(Len(w) - 1) /\ w[a] = s[a] /\ w[a + 1] = u[1]
  <2>1. a \in 1..a /\ 1 \in 1..b /\ a \in 1..(Len(w) - 1)
    BY <1>1, <1>2, <1>7
  <2> QED
    BY <1>3, <2>1
<1>8. ASSUME Flows(t, w), s # << >>, Ends(t, s) PROVE Starts(u)
  <2>1. SUFFICES ASSUME u # << >> PROVE u[1][2] = 1
    BY DEF Starts
  <2>2. Follows(t, w[a], w[a + 1])
    BY <1>7, <1>8, <2>1 DEF Flows
  <2>3. LastOf(t, s[a])
    BY <1>8 DEF Ends, a
  <2> QED
    BY <1>7, <1>8, <2>1, <2>2, <2>3 DEF Follows
<1>9. ASSUME Entire(t, s), Entire(t, u) PROVE Entire(t, w)
  <2>1. Starts(w)
    <3>1. SUFFICES ASSUME w # << >> PROVE w[1][2] = 1
      BY DEF Starts
    <3>2. CASE s # << >>
      <4>1. 1 \in 1..a
        BY <1>1, <1>2, <3>2
      <4> QED
        BY <1>3, <1>9, <3>2, <4>1 DEF Entire, Starts
    <3>3. CASE s = << >>
      <4>1. a = 0 /\ 1 \in 1..b /\ u # << >> /\ a + 1 = 1
        BY <1>1, <1>2, <3>1, <3>3
      <4>2. w[1] = u[1]
        BY <1>3, <4>1
      <4> QED
        BY <1>9, <4>1, <4>2 DEF Entire, Starts
    <3> QED
      BY <3>2, <3>3
  <2>2. ASSUME NEW i \in 1..(Len(w) - 1) PROVE Follows(t, w[i], w[i + 1])
    <3>1. CASE i < a
      <4>1. i \in 1..(a - 1) /\ i \in 1..a /\ i + 1 \in 1..a
        BY <1>1, <3>1
      <4>2. Follows(t, s[i], s[i + 1])
        BY <1>9, <4>1 DEF Entire, Flows, a
      <4> QED
        BY <1>3, <4>1, <4>2
    <3>2. CASE i = a
      <4>1. s # << >> /\ u # << >>
        BY <1>1, <1>2, <3>2
      <4>2. LastOf(t, s[a]) /\ u[1][2] = 1
        BY <1>9, <4>1 DEF Entire, Ends, Starts, a
      <4> QED
        BY <1>7, <3>2, <4>1, <4>2 DEF Follows
    <3>3. CASE i > a
      <4>1. PICK j \in 1..(b - 1) : i = a + j
        <5>1. i - a \in 1..(b - 1) /\ i = a + (i - a)
          BY <1>1, <3>3
        <5> QED
          BY <5>1
      <4>2. j \in 1..b /\ j + 1 \in 1..b /\ i + 1 = a + (j + 1)
        BY <1>1, <4>1
      <4>3. w[i] = u[j] /\ w[i + 1] = u[j + 1]
        BY <1>3, <4>1, <4>2
      <4>4. Follows(t, u[j], u[j + 1])
        BY <1>9 DEF Entire, Flows, b
      <4> QED
        BY <4>3, <4>4
    <3>4. i < a \/ i = a \/ i > a
      BY <1>1
    <3> QED
      BY <3>1, <3>2, <3>3, <3>4
  <2>3. Ends(t, w)
    <3>1. SUFFICES ASSUME w # << >> PROVE LastOf(t, w[Len(w)])
      BY DEF Ends
    <3>2. CASE u # << >>
      <4>1. b \in 1..b
        BY <1>1, <1>2, <3>2
      <4>2. w[Len(w)] = u[b]
        BY <1>1, <1>3, <4>1
      <4> QED
        BY <1>9, <3>2, <4>2 DEF Entire, Ends, b
    <3>3. CASE u = << >>
      <4>1. b = 0 /\ a \in 1..a /\ Len(w) = a /\ s # << >>
        BY <1>1, <1>2, <3>1, <3>3
      <4>2. w[Len(w)] = s[a]
        BY <1>3, <4>1
      <4> QED
        BY <1>9, <4>1, <4>2 DEF Entire, Ends, a
    <3> QED
      BY <3>2, <3>3
  <2> QED
    BY <2>1, <2>2, <2>3 DEF Entire, Flows
<1> QED
  BY <1>4, <1>5, <1>6, <1>8, <1>9 DEF w

(* The message that is found is the one that was written first.            *)
LEMMA FirstMessage ==
    ASSUME NEW t \in Traffics, Framed(t), NEW s \in Seq(BytesOf(t)), Starts(s), Flows(t, s),
           LengthOf(CharsOf(t, s), t.control) > 0
    PROVE  \E m \in Messages :
             /\ LengthOf(CharsOf(t, s), t.control) = Len(t.chars[m])
             /\ Len(t.chars[m]) \in 1..Len(s)
             /\ \A i \in 1..Len(t.chars[m]) : s[i] = <<m, i>>
<1> DEFINE m == s[1][1]
           chars == t.chars[m]
           L == Len(chars)
           n == LengthOf(CharsOf(t, s), t.control)
<1>1. CharsOf(t, s) \in Seq(Characters) /\ Len(CharsOf(t, s)) = Len(s) /\ Len(s) \in Nat
  BY CharsFacts, LenProperties
<1>2. Prefix(CharsOf(t, s), CharsOf(t, s))
  BY DEF Prefix
<1>3. n \in 0..Len(s) /\ n # 0
  <2>1. n \in 0..Len(CharsOf(t, s))
    BY <1>1, <1>2, LengthOfPrefix
  <2> QED
    BY <1>1, <2>1
<1>4. 1 \in 1..Len(s) /\ s # << >>
  BY <1>1, <1>3
<1>5. s[1] \in BytesOf(t) /\ m \in Messages /\ s[1] = <<m, 1>>
  <2>1. s[1] \in BytesOf(t)
    BY <1>4
  <2>2. s[1] = <<m, s[1][2]>> /\ m \in Messages
    BY <2>1, ByteFacts
  <2> QED
    BY <1>4, <2>1, <2>2 DEF Starts
<1>6. chars \in Seq(Characters) /\ L \in Nat /\ L > 0 /\ LengthOf(chars, t.control) = L
  BY <1>5, TrafficFacts DEF Framed, LengthOf
<1> HIDE DEF m, chars, L, n
<1>7. \A i \in 1..Len(s) : i <= L => s[i] = <<m, i>>
  <2> DEFINE S == {i \in Nat : i + 1 <= Len(s) /\ i + 1 <= L => s[i + 1] = <<m, i + 1>>}
  <2>1. 0 \in S
    BY <1>5
  <2>2. ASSUME NEW i \in S PROVE i + 1 \in S
    <3>1. SUFFICES ASSUME i + 1 + 1 <= Len(s), i + 1 + 1 <= L
                   PROVE  s[i + 1 + 1] = <<m, i + 1 + 1>>
      OBVIOUS
    <3>2. /\ i \in Nat /\ i + 1 <= Len(s) /\ i + 1 <= L /\ i + 1 # L
          /\ i + 1 \in 1..(Len(s) - 1)
      BY <1>1, <1>6, <3>1
    <3>3. s[i + 1] = <<m, i + 1>>
      BY <3>2
    <3>4. ~LastOf(t, s[i + 1])
      BY <3>2, <3>3 DEF LastOf, L, chars
    <3>5. Follows(t, s[i + 1], s[i + 1 + 1])
      <4>1. PICK j \in 1..(Len(s) - 1) : j = i + 1
        BY <3>2
      <4>2. Follows(t, s[j], s[j + 1])
        BY DEF Flows
      <4> QED
        BY <4>1, <4>2
    <3> QED
      BY <3>3, <3>4, <3>5 DEF Follows
  <2>3. S = Nat
    <3>1. S \in SUBSET Nat
      OBVIOUS
    <3> HIDE DEF S
    <3> QED
      BY <2>1, <2>2, <3>1, Induction
  <2>4. ASSUME NEW i \in 1..Len(s), i <= L PROVE s[i] = <<m, i>>
    <3>1. i - 1 \in Nat /\ i - 1 + 1 = i /\ i <= Len(s)
      BY <1>1
    <3>2. i - 1 \in S
      BY <2>3, <3>1
    <3>3. i - 1 + 1 <= Len(s) /\ i - 1 + 1 <= L => s[i - 1 + 1] = <<m, i - 1 + 1>>
      BY <3>2
    <3> QED
      BY <2>4, <3>1, <3>3
  <2> QED
    BY <2>4
<1>8. \A i \in 1..Len(s) : i <= L => CharsOf(t, s)[i] = chars[i]
  <2>1. ASSUME NEW i \in 1..Len(s), i <= L PROVE CharsOf(t, s)[i] = chars[i]
    <3>1. CharsOf(t, s)[i] = t.chars[s[i][1]][s[i][2]]
      BY CharsFacts
    <3>2. s[i][1] = m /\ s[i][2] = i
      BY <1>7, <2>1
    <3> QED
      BY <3>1, <3>2 DEF chars
  <2> QED
    BY <2>1
<1>9. L <= Len(s)
  <2>1. SUFFICES ASSUME Len(s) < L PROVE FALSE
    BY <1>1, <1>6
  <2>2. Prefix(CharsOf(t, s), chars)
    BY <1>1, <1>6, <1>8, <2>1 DEF Prefix, L
  <2>3. LengthOf(chars, t.control) = n
    BY <1>1, <1>3, <1>6, <2>2, LengthOfPrefix DEF n
  <2> QED
    BY <1>1, <1>3, <1>6, <2>1, <2>3
<1>10. n = L
  <2>1. Prefix(chars, CharsOf(t, s))
    <3>1. \A i \in 1..L : i \in 1..Len(s) /\ i <= L
      BY <1>1, <1>6, <1>9
    <3> QED
      BY <1>1, <1>6, <1>8, <1>9, <3>1 DEF Prefix, L
  <2> QED
    BY <1>1, <1>6, <2>1, LengthOfPrefix DEF n
<1>11. L \in 1..Len(s) /\ \A i \in 1..L : s[i] = <<m, i>>
  <2>1. \A i \in 1..L : i \in 1..Len(s) /\ i <= L
    BY <1>1, <1>6, <1>9
  <2> QED
    BY <1>1, <1>6, <1>7, <1>9, <2>1
<1> QED
  BY <1>5, <1>10, <1>11 DEF n, L, chars

(***************************************************************************)
(* Sequences.                                                              *)
(***************************************************************************)
LEMMA SplitAt ==
    ASSUME NEW B, NEW s \in Seq(B), NEW n \in 0..Len(s)
    PROVE  /\ SubSeq(s, 1, n) \in Seq(B) /\ SubSeq(s, n + 1, Len(s)) \in Seq(B)
           /\ s = SubSeq(s, 1, n) \o SubSeq(s, n + 1, Len(s))
           /\ Len(SubSeq(s, 1, n)) = n /\ Len(SubSeq(s, n + 1, Len(s))) = Len(s) - n
           /\ \A i \in 1..n : SubSeq(s, 1, n)[i] = s[i]
<1>1. Len(s) \in Nat /\ n \in Nat /\ n <= Len(s) /\ \A i \in 1..Len(s) : s[i] \in B
  OBVIOUS
<1>2. \A i \in 1..n : s[i] \in B
  BY <1>1
<1>3. \A i \in (n + 1)..Len(s) : s[i] \in B
  BY <1>1
<1>4. /\ SubSeq(s, 1, n) \in Seq(B) /\ Len(SubSeq(s, 1, n)) = n
      /\ \A i \in 1..n : SubSeq(s, 1, n)[i] = s[i]
  <2>1. Len(SubSeq(s, 1, n)) = IF 1 <= n THEN n - 1 + 1 ELSE 0
    BY <1>1, <1>2, SubSeqProperties
  <2>2. \A i \in 1..(n - 1 + 1) : SubSeq(s, 1, n)[i] = s[1 + i - 1]
    BY <1>1, <1>2, SubSeqProperties
  <2>3. n - 1 + 1 = n /\ \A i \in 1..n : 1 + i - 1 = i
    BY <1>1
  <2>4. SubSeq(s, 1, n) \in Seq(B)
    BY <1>1, <1>2, SubSeqProperties
  <2> QED
    BY <1>1, <2>1, <2>2, <2>3, <2>4
<1>5. SubSeq(s, n + 1, Len(s)) \in Seq(B) /\ Len(SubSeq(s, n + 1, Len(s))) = Len(s) - n
  <2>1. n + 1 \in Int /\ Len(s) \in Int
    BY <1>1
  <2>2. /\ SubSeq(s, n + 1, Len(s)) \in Seq(B)
        /\ Len(SubSeq(s, n + 1, Len(s))) = IF n + 1 <= Len(s) THEN Len(s) - (n + 1) + 1 ELSE 0
    BY <1>3, <2>1, SubSeqProperties
  <2> QED
    BY <1>1, <2>2
<1>6. SubSeq(s, 1, n) \o SubSeq(s, n + 1, Len(s)) = SubSeq(s, 1, Len(s))
  <2>1. 1 \in 1..(Len(s) + 1) /\ n \in (1 - 1)..Len(s) /\ Len(s) \in n..Len(s)
    BY <1>1
  <2> QED
    BY <2>1, ConcatAdjacentSubSeq
<1> QED
  BY <1>4, <1>5, <1>6, SubSeqFull

(* A second buffer.                                                        *)
LEMMA AppendSecond ==
    ASSUME NEW S, NEW a \in S, NEW b \in S
    PROVE  Append(<<a>>, b) = <<a, b>>
<1> DEFINE s == <<a>>
           u == Append(s, b)
           w == <<a, b>>
<1>1. s \in Seq(S) /\ Len(s) = 1 /\ s[1] = a
  OBVIOUS
<1>2. w \in Seq(S) /\ Len(w) = 2 /\ w[1] = a /\ w[2] = b
  OBVIOUS
<1> HIDE DEF s
<1>3. u \in Seq(S) /\ Len(u) = 2 /\ u[1] = a /\ u[2] = b
  <2>1. u \in Seq(S) /\ Len(u) = Len(s) + 1
    BY <1>1, AppendProperties
  <2>2. \A i \in 1..Len(s) : u[i] = s[i]
    BY <1>1, AppendProperties
  <2>3. u = s \o <<b>>
    BY <1>1, AppendIsConcat
  <2>4. <<b>> \in Seq(S) /\ Len(<<b>>) = 1 /\ <<b>>[1] = b
    OBVIOUS
  <2>5. \A i \in 1..(Len(s) + Len(<<b>>)) :
           u[i] = IF i <= Len(s) THEN s[i] ELSE <<b>>[i - Len(s)]
    BY <1>1, <2>3, <2>4, ConcatProperties
  <2> HIDE DEF u
  <2>6. u[2] = b
    <3>1. 2 \in 1..(Len(s) + Len(<<b>>)) /\ ~(2 <= Len(s)) /\ 2 - Len(s) = 1
      BY <1>1, <2>4
    <3> QED
      BY <2>4, <2>5, <3>1
  <2> QED
    BY <1>1, <2>1, <2>2, <2>6
<1> HIDE DEF u, w
<1>4. \A i \in 1..Len(u) : u[i] = w[i]
  <2>1. \A i \in 1..2 : i = 1 \/ i = 2
    OBVIOUS
  <2> QED
    BY <1>2, <1>3, <2>1
<1>5. u = w
  BY <1>2, <1>3, <1>4, SeqEqual
<1> QED
  BY <1>5 DEF u, w, s

(* Up to two buffers in a row.                                             *)
LEMMA Flatten ==
    /\ FlattenSeq(<< >>) = << >>
    /\ \A a : FlattenSeq(<<a>>) = a
    /\ \A a, b : FlattenSeq(<<a, b>>) = a \o b
<1>1. FlattenSeq(<< >>) = << >>
  BY DEF FlattenSeq
<1>2. ASSUME NEW a PROVE FlattenSeq(<<a>>) = a
  <2> DEFINE s == <<a>>
             of(f) == [i \in 1..Len(s) |-> IF i = 1 THEN s[i] ELSE f[i - 1] \o s[i]]
             g == CHOOSE f : f = of(f)
  <2>1. Len(s) = 1 /\ s[1] = a
    OBVIOUS
  <2>2. FlattenSeq(s) = g[Len(s)]
    BY <2>1 DEF FlattenSeq
  <2> HIDE DEF s
  <2>3. [i \in 1..1 |-> a] = of([i \in 1..1 |-> a])
    BY <2>1
  <2>4. g = of(g)
    BY <2>3
  <2> HIDE DEF g
  <2>5. g[1] = a
    BY <2>1, <2>4
  <2> QED
    BY <2>1, <2>2, <2>5 DEF s
<1>3. ASSUME NEW a, NEW b PROVE FlattenSeq(<<a, b>>) = a \o b
  <2> DEFINE s == <<a, b>>
             of(f) == [i \in 1..Len(s) |-> IF i = 1 THEN s[i] ELSE f[i - 1] \o s[i]]
             g == CHOOSE f : f = of(f)
             h == [i \in 1..2 |-> IF i = 1 THEN a ELSE a \o b]
  <2>1. Len(s) = 2 /\ s[1] = a /\ s[2] = b
    OBVIOUS
  <2>2. FlattenSeq(s) = g[Len(s)]
    BY <2>1 DEF FlattenSeq
  <2> HIDE DEF s
  <2>3. h = of(h)
    <3>1. ASSUME NEW i \in 1..2 PROVE h[i] = IF i = 1 THEN s[i] ELSE h[i - 1] \o s[i]
      <4>1. i = 1 \/ i = 2
        OBVIOUS
      <4>2. h[1] = a /\ h[2] = a \o b /\ 2 - 1 = 1
        OBVIOUS
      <4> HIDE DEF h
      <4> QED
        BY <2>1, <4>1, <4>2
    <3>2. h = [i \in 1..2 |-> h[i]]
      OBVIOUS
    <3> HIDE DEF h
    <3> QED
      BY <2>1, <3>1, <3>2
  <2>4. g = of(g)
    <3> HIDE DEF h
    <3> QED
      BY <2>3
  <2> HIDE DEF g
  <2>5. g[1] = a /\ g[2] = g[1] \o b
    <3>1. 1 \in 1..2 /\ 2 \in 1..2 /\ 2 # 1 /\ 2 - 1 = 1
      OBVIOUS
    <3>2. \A i \in 1..2 : g[i] = IF i = 1 THEN s[i] ELSE g[i - 1] \o s[i]
      BY <2>1, <2>4
    <3>3. g[2] = g[2 - 1] \o s[2]
      BY <3>1, <3>2
    <3> QED
      BY <2>1, <3>1, <3>2, <3>3
  <2> QED
    BY <2>1, <2>2, <2>5 DEF s
<1> QED
  BY <1>1, <1>2, <1>3

(***************************************************************************)
(* The sender.                                                             *)
(***************************************************************************)
SenderOf(t) == [out : Seq(BytesOf(t)), congested : BOOLEAN, pollout : BOOLEAN,
                line : {"up", "broken", "closed"}, wire : Seq(BytesOf(t))]
Fits(x) == Len(x.wire) <= Capacity
Sent(x) == x.wire \o x.out

(* What is flushed goes from ss_out to the kernel; without a connection    *)
(* nothing moves.                                                          *)
LEMMA FlushKeeps ==
    ASSUME NEW t, NEW x \in SenderOf(t), Fits(x)
    PROVE  /\ Flushed(x) \in SenderOf(t)
           /\ Fits(Flushed(x))
           /\ Sent(Flushed(x)) = Sent(x)
           /\ Fails(Flushed(x)) => Flushed(x).wire = x.wire
<1> DEFINE B == BytesOf(t)
<1>1. /\ x.out \in Seq(B) /\ x.wire \in Seq(B) /\ Len(x.wire) \in Nat /\ Len(x.out) \in Nat
      /\ x.line \in {"up", "broken", "closed"}
  BY DEF SenderOf
<1>2. CASE x.out = << >>
  <2>1. Flushed(x) = x
    BY <1>2 DEF Flushed
  <2> QED
    BY <2>1
<1>3. CASE x.out # << >> /\ x.congested
  <2>1. Flushed(x) = [x EXCEPT !.congested = TRUE, !.pollout = TRUE]
    BY <1>3 DEF Flushed, Congested
  <2>2. /\ Flushed(x) \in SenderOf(t) /\ Flushed(x).wire = x.wire /\ Flushed(x).out = x.out
    BY <2>1 DEF SenderOf
  <2> QED
    BY <2>2 DEF Fits, Sent
<1>4. CASE x.out # << >> /\ ~x.congested /\ x.line = "up"
  <2> DEFINE k == Min({Len(x.out), Capacity - Len(x.wire)})
             y == TakenByKernel(x, k)
  <2>1. k \in 0..Len(x.out) /\ k <= Capacity - Len(x.wire)
    <3>1. Capacity - Len(x.wire) \in Nat
      BY <1>1, BuffersAssumption DEF Fits
    <3>2. /\ {Len(x.out), Capacity - Len(x.wire)} \in SUBSET Nat
          /\ {Len(x.out), Capacity - Len(x.wire)} # {}
      BY <1>1, <3>1
    <3>3. /\ k \in {Len(x.out), Capacity - Len(x.wire)}
          /\ \A j \in {Len(x.out), Capacity - Len(x.wire)} : k <= j
      BY <3>2, MinIsLeast
    <3> QED
      BY <1>1, <3>1, <3>3
  <2> HIDE DEF k
  <2>2. /\ SubSeq(x.out, 1, k) \in Seq(B) /\ SubSeq(x.out, k + 1, Len(x.out)) \in Seq(B)
        /\ x.out = SubSeq(x.out, 1, k) \o SubSeq(x.out, k + 1, Len(x.out))
        /\ Len(SubSeq(x.out, 1, k)) = k
    BY ZenonT(60), <1>1, <2>1, SplitAt
  <2> DEFINE sent == SubSeq(x.out, 1, k)
             rest == SubSeq(x.out, k + 1, Len(x.out))
  <2>3. y = [x EXCEPT !.wire = x.wire \o sent, !.out = rest]
    BY DEF TakenByKernel
  <2> HIDE DEF y, sent, rest
  <2>4. sent \in Seq(B) /\ rest \in Seq(B) /\ x.out = sent \o rest /\ Len(sent) = k
    BY <2>2 DEF sent, rest
  <2>5. x.wire \o sent \in Seq(B) /\ Len(x.wire \o sent) = Len(x.wire) + k
    BY <1>1, <2>4, ConcatProperties
  <2>6. y.wire = x.wire \o sent /\ y.out = rest /\ y \in SenderOf(t)
    BY <2>3, <2>4, <2>5 DEF SenderOf
  <2>7. Sent(y) = Sent(x)
    <3>1. (x.wire \o sent) \o rest = x.wire \o (sent \o rest)
      <4> DEFINE w == x.wire
      <4>1. w \in Seq(B)
        BY <1>1
      <4> HIDE DEF B, w
      <4>2. (w \o sent) \o rest = w \o (sent \o rest)
        BY SMTT(40), <2>4, <4>1, ConcatAssociative
      <4> QED
        BY <4>2 DEF w
    <3> QED
      BY <2>4, <2>6, <3>1 DEF Sent
  <2>8. Fits(y)
    BY <1>1, <2>1, <2>5, <2>6, BuffersAssumption DEF Fits
  <2>9. Flushed(x) = IF y.out = << >> THEN y ELSE Congested(y)
    BY <1>4 DEF Flushed, y, k
  <2>10. /\ Congested(y) \in SenderOf(t) /\ Congested(y).wire = y.wire
         /\ Congested(y).out = y.out /\ Congested(y).congested
    BY <2>6 DEF SenderOf, Congested
  <2>11. CASE y.out = << >>
    BY <2>6, <2>7, <2>8, <2>9, <2>11 DEF Fails
  <2>12. CASE y.out # << >>
    <3>1. Flushed(x) = Congested(y)
      BY <2>9, <2>12
    <3>2. ~Fails(Flushed(x))
      BY <2>10, <3>1 DEF Fails
    <3> QED
      BY <2>7, <2>8, <2>10, <3>1, <3>2 DEF Fits, Sent
  <2> QED
    BY <2>11, <2>12
<1>5. CASE x.out # << >> /\ ~x.congested /\ x.line # "up"
  <2>1. Flushed(x) = x \/ Flushed(x) = [x EXCEPT !.line = "closed"]
    BY <1>5 DEF Flushed
  <2>2. /\ Flushed(x) \in SenderOf(t) /\ Flushed(x).wire = x.wire /\ Flushed(x).out = x.out
    BY <2>1 DEF SenderOf
  <2> QED
    BY <2>2 DEF Fits, Sent
<1> QED
  BY <1>2, <1>3, <1>4, <1>5

(* A message is written behind the others, or not at all.                  *)
LEMMA WriteAppends ==
    ASSUME NEW t, NEW x \in SenderOf(t), Fits(x), NEW bytes \in Seq(BytesOf(t))
    PROVE  /\ Written(x, bytes) \in SenderOf(t)
           /\ Fits(Written(x, bytes))
           /\ Sent(Written(x, bytes)) \in {Sent(x), Sent(x) \o bytes}
<1> DEFINE B == BytesOf(t)
           y == Flushed(x)
           y1 == [y EXCEPT !.out = bytes]
           z == Flushed(y1)
<1>1. y \in SenderOf(t) /\ Fits(y) /\ Sent(y) = Sent(x)
  BY FlushKeeps
<1> HIDE DEF y
<1>2. y.out \in Seq(B) /\ y.wire \in Seq(B)
  BY <1>1 DEF SenderOf
<1>3. CASE Fails(y)
  <2>1. Written(x, bytes) = y
    BY <1>3 DEF Written, y
  <2> QED
    BY <1>1, <2>1
<1>4. CASE ~Fails(y) /\ y.out # << >>
  <2>1. Written(x, bytes) = [y EXCEPT !.out = y.out \o bytes]
    BY <1>4 DEF Written, y
  <2>2. y.out \o bytes \in Seq(B)
    BY <1>2, ConcatProperties
  <2>3. /\ Written(x, bytes) \in SenderOf(t) /\ Written(x, bytes).wire = y.wire
        /\ Written(x, bytes).out = y.out \o bytes
    BY <1>1, <2>1, <2>2 DEF SenderOf
  <2>4. y.wire \o (y.out \o bytes) = (y.wire \o y.out) \o bytes
    <3> DEFINE w == y.wire
               o == y.out
    <3>1. w \in Seq(B) /\ o \in Seq(B) /\ bytes \in Seq(B)
      BY <1>2
    <3> HIDE DEF B, w, o
    <3>2. (w \o o) \o bytes = w \o (o \o bytes)
      BY <3>1, ConcatAssociative
    <3> QED
      BY <3>2 DEF w, o
  <2> QED
    BY <1>1, <2>3, <2>4 DEF Fits, Sent
<1>5. CASE ~Fails(y) /\ y.out = << >>
  <2>1. y1 \in SenderOf(t) /\ y1.wire = y.wire /\ y1.out = bytes /\ Fits(y1)
    BY <1>1 DEF SenderOf, Fits
  <2> HIDE DEF y1
  <2>2. z \in SenderOf(t) /\ Fits(z) /\ Sent(z) = Sent(y1) /\ (Fails(z) => z.wire = y1.wire)
    BY <2>1, FlushKeeps
  <2> HIDE DEF z
  <2>3. Written(x, bytes) = IF Fails(z) THEN [z EXCEPT !.out = << >>] ELSE z
    BY <1>5 DEF Written, y, y1, z
  <2>4. y.wire = Sent(x)
    BY <1>1, <1>2, <1>5, ConcatEmptySeq DEF Sent
  <2>5. CASE Fails(z)
    <3>1. << >> \in Seq(B)
      OBVIOUS
    <3>2. /\ Written(x, bytes) \in SenderOf(t) /\ Written(x, bytes).wire = z.wire
          /\ Written(x, bytes).out = << >>
      BY <2>2, <2>3, <2>5, <3>1 DEF SenderOf
    <3>3. Sent(Written(x, bytes)) = Sent(x)
      <4>1. y.wire \o << >> = y.wire
        BY <1>2, ConcatEmptySeq
      <4> QED
        BY <2>1, <2>2, <2>4, <2>5, <3>2, <4>1 DEF Sent
    <3> QED
      BY <2>2, <3>2, <3>3 DEF Fits
  <2>6. CASE ~Fails(z)
    <3>1. Sent(z) = Sent(x) \o bytes
      BY <2>1, <2>2, <2>4 DEF Sent
    <3> QED
      BY <2>2, <2>3, <2>6, <3>1
  <2> QED
    BY <2>5, <2>6
<1> QED
  BY <1>3, <1>4, <1>5

(***************************************************************************)
(* The receiver.                                                           *)
(***************************************************************************)
(* check_for_message() merges all buffers as long as there are at most two *)
(* and no message in the first one.                                        *)
LEMMA CheckMerges ==
    ASSUME traffic \in Traffics, NEW bufs, NEW flat \in Seq(BytesOf(traffic)),
           \/ bufs = << >> /\ flat = << >>
           \/ bufs = <<flat>>
           \/ \E a, b \in Seq(BytesOf(traffic)) :
                /\ bufs = <<a, b>> /\ flat = a \o b
                /\ LengthOf(CharsOf(traffic, a), traffic.control) = 0,
           Checked(bufs)
    PROVE  /\ msglen' = LengthOf(CharsOf(traffic, flat), traffic.control)
           /\ in' = IF bufs = << >> THEN << >> ELSE <<flat>>
<1> DEFINE chars == CharsOf(traffic, flat)
           end == HeaderEnd(chars, Mark(traffic.control))
           n == LengthOf(chars, traffic.control)
<1>1. FlattenSeq(bufs) = flat
  BY Flatten
<1>2. Chars(FlattenSeq(bufs)) = chars
  BY <1>1 DEF Chars, Char, CharsOf
<1>3. msglen' = n /\ in' = Merged(bufs, end, n)
  BY <1>2 DEF Checked, LengthOf
<1> HIDE DEF chars, end, n
<1>4. CASE bufs = << >>
  BY <1>3, <1>4 DEF Merged, n, chars
<1> DEFINE enough(k) == /\ n > 0 /\ n <= Len(FlattenSeq(SubSeq(bufs, 1, k)))
                        /\ traffic.control \/ end < Len(FlattenSeq(SubSeq(bufs, 1, k)))
           k == Min({i \in DOMAIN bufs : enough(i)} \cup {Len(bufs)})
<1>5. bufs # << >> =>
        Merged(bufs, end, n) =
          <<FlattenSeq(SubSeq(bufs, 1, k))>> \o SubSeq(bufs, k + 1, Len(bufs))
  BY DEF Merged
<1>6. ASSUME bufs # << >>, Len(bufs) \in Nat, bufs \in Seq({bufs[i] : i \in DOMAIN bufs}),
             k = Len(bufs)
      PROVE  in' = <<flat>>
  <2> HIDE DEF k
  <2>1. SubSeq(bufs, 1, Len(bufs)) = bufs
    BY <1>6, SubSeqFull
  <2>2. SubSeq(bufs, Len(bufs) + 1, Len(bufs)) = << >>
    BY <1>6, SubSeqEmpty
  <2>3. in' = <<flat>> \o << >>
    BY <1>1, <1>3, <1>5, <1>6, <2>1, <2>2
  <2> QED
    BY <2>3
<1>7. CASE bufs = <<flat>>
  <2>1. bufs # << >> /\ Len(bufs) = 1 /\ DOMAIN bufs = 1..1
        /\ bufs \in Seq({bufs[i] : i \in DOMAIN bufs})
    BY <1>7
  <2>2. {i \in DOMAIN bufs : enough(i)} \cup {Len(bufs)} = {1}
    <3> HIDE DEF enough
    <3> QED
      BY <2>1
  <2>3. k = 1
    <3>1. {1} \in SUBSET Nat /\ {1} # {}
      OBVIOUS
    <3>2. Min({1}) \in {1}
      BY <3>1, MinIsLeast
    <3> HIDE DEF enough
    <3> QED
      BY <2>2, <3>2
  <2>4. in' = <<flat>>
    <3> HIDE DEF k
    <3> QED
      BY <1>6, <2>1, <2>3
  <2> QED
    BY <1>3, <2>1, <2>4 DEF n, chars
<1>8. ASSUME NEW a \in Seq(BytesOf(traffic)), NEW b \in Seq(BytesOf(traffic)),
             bufs = <<a, b>>, flat = a \o b,
             LengthOf(CharsOf(traffic, a), traffic.control) = 0
      PROVE  bufs # << >> /\ in' = <<flat>>
  <2>1. bufs # << >> /\ Len(bufs) = 2 /\ DOMAIN bufs = 1..2 /\ bufs[1] = a
        /\ bufs \in Seq({bufs[i] : i \in DOMAIN bufs})
    BY <1>8
  <2>2. ~enough(1)
    <3>1. SubSeq(bufs, 1, 1) = <<a>>
      <4> DEFINE S == {bufs[i] : i \in DOMAIN bufs}
                 s == SubSeq(bufs, 1, 1)
      <4>1. 1 \in 0..Len(bufs) /\ 1 \in 1..1
        BY <2>1
      <4>2. s \in Seq(S) /\ Len(s) = 1 /\ s[1] = a
        <5>1. \A i \in 1..1 : bufs[i] \in S
          BY <2>1
        <5> HIDE DEF S
        <5>2. /\ s \in Seq(S) /\ Len(s) = IF 1 <= 1 THEN 1 - 1 + 1 ELSE 0
              /\ \A i \in 1..(1 - 1 + 1) : s[i] = bufs[1 + i - 1]
          BY <5>1, SubSeqProperties
        <5> HIDE DEF s
        <5>3. Len(s) = 1
          BY <5>2
        <5>4. 1 \in 1..(1 - 1 + 1) /\ 1 + 1 - 1 = 1
          OBVIOUS
        <5>5. s[1] = bufs[1]
          BY <5>2, <5>4
        <5> QED
          BY <2>1, <5>2, <5>3, <5>5
      <4>3. <<a>> \in Seq(S) /\ Len(<<a>>) = 1 /\ <<a>>[1] = a
        BY <2>1
      <4> HIDE DEF s, S
      <4>4. s = <<a>>
        BY <4>2, <4>3, SeqEqual
      <4> QED
        BY <4>4 DEF s
    <3>2. FlattenSeq(SubSeq(bufs, 1, 1)) = a
      BY <3>1, Flatten
    <3>3. SUFFICES ASSUME n > 0, n <= Len(a) PROVE FALSE
      BY <3>2
    <3>4. Prefix(a, flat)
      BY <1>8, ConcatProperties DEF Prefix
    <3>5. Prefix(CharsOf(traffic, a), chars)
      BY <3>4, CharsOfPrefix DEF chars
    <3>6. /\ CharsOf(traffic, a) \in Seq(Characters) /\ Len(CharsOf(traffic, a)) = Len(a)
          /\ chars \in Seq(Characters) /\ Len(chars) \in Nat
      BY CharsFacts, LenProperties DEF chars
    <3>7. n \in Int
      <4>1. Prefix(chars, chars)
        BY DEF Prefix
      <4>2. n \in 0..Len(chars)
        BY <3>6, <4>1, LengthOfPrefix DEF n
      <4> QED
        BY <4>2
    <3>8. n \in 1..Len(CharsOf(traffic, a))
      BY <3>3, <3>6, <3>7
    <3>9. LengthOf(CharsOf(traffic, a), traffic.control) = n
      BY <3>5, <3>6, <3>8, LengthOfPrefix DEF n
    <3> QED
      BY <1>8, <3>3, <3>9
  <2>3. {i \in DOMAIN bufs : enough(i)} \cup {Len(bufs)} = {2}
    <3>1. \A i \in DOMAIN bufs : i = 1 \/ i = 2
      BY <2>1
    <3> HIDE DEF enough
    <3> QED
      BY <2>1, <2>2, <3>1
  <2>4. k = 2
    <3>1. {2} \in SUBSET Nat /\ {2} # {}
      OBVIOUS
    <3>2. Min({2}) \in {2}
      BY <3>1, MinIsLeast
    <3> HIDE DEF enough
    <3> QED
      BY <2>3, <3>2
  <2>5. in' = <<flat>>
    <3> HIDE DEF k
    <3> QED
      BY <1>6, <2>1, <2>4
  <2> QED
    BY <2>1, <2>5
<1>9. CASE \E a, b \in Seq(BytesOf(traffic)) :
             /\ bufs = <<a, b>> /\ flat = a \o b
             /\ LengthOf(CharsOf(traffic, a), traffic.control) = 0
  <2> HIDE DEF k
  <2> QED
    BY <1>3, <1>8, <1>9 DEF n, chars
<1> QED
  BY <1>4, <1>7, <1>9

(* check_for_message() finds no message longer than what was read.         *)
LEMMA LengthIsBounded ==
    ASSUME NEW t \in Traffics, NEW s \in Seq(BytesOf(t))
    PROVE  LengthOf(CharsOf(t, s), t.control) \in 0..Len(s)
<1>1. CharsOf(t, s) \in Seq(Characters) /\ Len(CharsOf(t, s)) = Len(s)
  BY CharsFacts
<1>2. Prefix(CharsOf(t, s), CharsOf(t, s))
  BY DEF Prefix
<1>3. LengthOf(CharsOf(t, s), t.control) \in 0..Len(CharsOf(t, s))
  BY <1>1, <1>2, LengthOfPrefix
<1> QED
  BY <1>1, <1>3

(***************************************************************************)
(* The types.  At most one buffer waits, and msglen is up to date.         *)
(***************************************************************************)
(* The bytes that wait at the receiver.                                    *)
Held == IF in = << >> THEN << >> ELSE in[1]

TypeInv ==
    /\ traffic \in Traffics
    /\ tx \in SenderOf(traffic) /\ Fits(tx)
    /\ in = << >> \/ \E b \in Seq(BytesOf(traffic)) : b # << >> /\ in = <<b>>
    /\ msglen = LengthOf(CharsOf(traffic, Held), traffic.control)
    /\ got \in Seq(BytesOf(traffic))
    /\ turn \in {0, 1} /\ stale \in BOOLEAN /\ torn \in BOOLEAN
    /\ breaks \in 0..MaxBreaks

(* Of the buffers of a receiver there is at most one.                      *)
LEMMA HeldFacts ==
    ASSUME TypeInv
    PROVE  /\ Held \in Seq(BytesOf(traffic)) /\ FlattenSeq(in) = Held
           /\ msglen \in 0..Len(Held)
           /\ in # << >> => Held # << >> /\ Head(in) = Held /\ Tail(in) = << >> /\ in = <<Held>>
           /\ in = << >> => Held = << >>
           /\ Len(in) \in 0..1
<1>1. /\ Held \in Seq(BytesOf(traffic)) /\ FlattenSeq(in) = Held
      /\ in # << >> => Held # << >> /\ Head(in) = Held /\ Tail(in) = << >> /\ in = <<Held>>
      /\ in = << >> => Held = << >>
      /\ Len(in) \in 0..1
  <2>1. CASE in = << >>
    <3>1. Held = << >>
      BY <2>1 DEF Held
    <3>2. Held \in Seq(BytesOf(traffic))
      BY <3>1
    <3>3. FlattenSeq(in) = Held
      BY <2>1, <3>1, Flatten
    <3> QED
      BY <2>1, <3>1, <3>2, <3>3
  <2>2. CASE in # << >>
    <3>1. PICK b \in Seq(BytesOf(traffic)) : b # << >> /\ in = <<b>>
      BY <2>2 DEF TypeInv
    <3>2. Held = b
      BY <2>2, <3>1 DEF Held
    <3>3. FlattenSeq(in) = b
      BY <3>1, Flatten
    <3>4. Head(in) = b /\ Tail(in) = << >> /\ Len(in) = 1
      BY <3>1
    <3> QED
      BY <2>2, <3>1, <3>2, <3>3, <3>4
  <2> QED
    BY <2>1, <2>2
<1>2. msglen \in 0..Len(Held)
  BY <1>1, LengthIsBounded DEF TypeInv
<1> QED
  BY <1>1, <1>2

(* What a read adds.                                                       *)
LEMMA ReadAdds ==
    ASSUME TypeInv, Read
    PROVE  \E bytes \in Seq(BytesOf(traffic)) :
             /\ traffic' = traffic /\ ~stale /\ msglen = 0
             /\ tx' \in SenderOf(traffic) /\ Fits(tx')
             /\ tx.wire = bytes \o tx'.wire /\ tx'.out = tx.out
             /\ Held \o bytes \in Seq(BytesOf(traffic)) /\ Held \o bytes # << >>
             /\ in' = <<Held \o bytes>> /\ Held' = Held \o bytes
             /\ msglen' = LengthOf(CharsOf(traffic, Held \o bytes), traffic.control)
<1> DEFINE B == BytesOf(traffic)
<1>1. /\ tx \in SenderOf(traffic) /\ tx.wire \in Seq(B) /\ Len(tx.wire) \in Nat /\ Fits(tx)
      /\ traffic \in Traffics
  BY DEF TypeInv, SenderOf
<1>2. PICK k \in 1..Min({Len(tx.wire), ReadSize}) :
         /\ tx' = [tx EXCEPT !.wire = SubSeq(@, k + 1, Len(@))]
         /\ Checked(Buffered(in, SubSeq(tx.wire, 1, k)))
  BY DEF Read
<1>3. /\ traffic' = traffic /\ ~stale /\ msglen = 0 /\ tx.wire # << >>
  BY DEF Read
<1>4. k \in 0..Len(tx.wire) /\ k > 0
  <2>1. {Len(tx.wire), ReadSize} \in SUBSET Nat /\ {Len(tx.wire), ReadSize} # {}
    BY <1>1, BuffersAssumption
  <2>2. Min({Len(tx.wire), ReadSize}) \in Nat /\ Min({Len(tx.wire), ReadSize}) <= Len(tx.wire)
    BY <2>1, MinIsLeast
  <2> QED
    BY <1>1, <1>2, <2>2
<1> DEFINE w == tx.wire
           bytes == SubSeq(w, 1, k)
           rest == SubSeq(w, k + 1, Len(w))
<1>5. /\ bytes \in Seq(B) /\ rest \in Seq(B) /\ w = bytes \o rest
      /\ Len(bytes) = k /\ Len(rest) = Len(w) - k
  <2>1. w \in Seq(B) /\ k \in 0..Len(w)
    BY <1>1, <1>4
  <2> HIDE DEF w, B
  <2> QED
    BY <2>1, SplitAt
<1>6. tx' = [tx EXCEPT !.wire = rest]
  BY <1>2
<1>7. Checked(Buffered(in, bytes))
  BY <1>2
<1> HIDE DEF bytes, rest
<1>8. tx' \in SenderOf(traffic) /\ tx'.wire = rest /\ tx'.out = tx.out
  BY <1>1, <1>5, <1>6 DEF SenderOf
<1>9. Fits(tx')
  <2>1. Len(rest) <= Len(tx.wire)
    BY <1>1, <1>4, <1>5
  <2>2. Capacity \in Nat
    BY BuffersAssumption
  <2>3. Len(rest) \in Nat
    BY <1>5
  <2> QED
    BY <1>1, <1>8, <2>1, <2>2, <2>3 DEF Fits
<1>10. Held \in Seq(B)
  BY HeldFacts
<1>11. Held \o bytes \in Seq(B) /\ Held \o bytes # << >>
  <2>1. Held \o bytes \in Seq(B) /\ Len(Held \o bytes) = Len(Held) + Len(bytes)
    BY <1>5, <1>10, ConcatProperties
  <2>2. Len(Held) \in Nat
    BY <1>10
  <2> QED
    BY <1>4, <1>5, <2>1, <2>2
<1>12. in' = <<Held \o bytes>>
       /\ msglen' = LengthOf(CharsOf(traffic, Held \o bytes), traffic.control)
  <2>1. CASE in = << >>
    <3>1. Buffered(in, bytes) = <<bytes>>
      BY <2>1 DEF Buffered
    <3>2. Held \o bytes = bytes
      BY <1>5, <2>1, ConcatEmptySeq DEF Held
    <3>3. <<bytes>> # << >>
      OBVIOUS
    <3> QED
      BY <1>1, <1>5, <1>7, <3>1, <3>2, <3>3, CheckMerges
  <2>2. CASE in # << >>
    <3>1. in = <<Held>>
      BY <2>2, HeldFacts
    <3>2. Buffered(in, bytes) = <<Held, bytes>>
      <4>1. Len(in) = 1
        BY <3>1
      <4>2. Buffered(in, bytes) = Append(in, bytes)
        BY <4>1 DEF Buffered
      <4>3. Append(<<Held>>, bytes) = <<Held, bytes>>
        BY <1>5, <1>10, AppendSecond
      <4> QED
        BY <3>1, <4>2, <4>3
    <3>3. LengthOf(CharsOf(traffic, Held), traffic.control) = 0
      BY <1>3 DEF TypeInv
    <3>4. <<Held, bytes>> # << >>
      OBVIOUS
    <3> DEFINE flat == Held \o bytes
    <3>5. flat \in Seq(B) /\ flat = Held \o bytes
      BY <1>11
    <3> HIDE DEF flat
    <3>6. \E a, b \in Seq(BytesOf(traffic)) :
                /\ <<Held, bytes>> = <<a, b>> /\ flat = a \o b
                /\ LengthOf(CharsOf(traffic, a), traffic.control) = 0
      BY <1>5, <1>10, <3>3, <3>5
    <3>7. Checked(<<Held, bytes>>)
      BY <1>7, <3>2
    <3>8. /\ msglen' = LengthOf(CharsOf(traffic, flat), traffic.control)
          /\ in' = IF <<Held, bytes>> = << >> THEN << >> ELSE <<flat>>
      BY <1>1, <3>5, <3>6, <3>7, CheckMerges
    <3> QED
      BY <3>4, <3>5, <3>8
  <2> QED
    BY <2>1, <2>2
<1>13. Held' = Held \o bytes
  <2>1. in' # << >> /\ in'[1] = Held \o bytes
    BY <1>12
  <2>2. Held' = IF in' = << >> THEN << >> ELSE in'[1]
    BY DEF Held
  <2> QED
    BY <2>1, <2>2
<1> QED
  BY <1>3, <1>5, <1>8, <1>9, <1>11, <1>12, <1>13

(* What read_message() takes.                                              *)
LEMMA DeliverTakes ==
    ASSUME TypeInv, Deliver
    PROVE  /\ traffic' = traffic /\ tx' = tx /\ msglen \in 1..Len(Held)
           /\ got' = SubSeq(Held, 1, msglen)
           /\ Held' = SubSeq(Held, msglen + 1, Len(Held))
           /\ in' = IF Held' = << >> THEN << >> ELSE <<Held'>>
           /\ msglen' = LengthOf(CharsOf(traffic, Held'), traffic.control)
<1> DEFINE B == BytesOf(traffic)
           rest == SubSeq(Held, msglen + 1, Len(Held))
           bufs == IF rest = << >> THEN << >> ELSE <<rest>>
<1>1. traffic' = traffic /\ tx' = tx /\ msglen > 0 /\ traffic \in Traffics
  BY DEF Deliver, TypeInv
<1>2. Held \in Seq(B) /\ msglen \in 0..Len(Held) /\ Len(Held) \in Nat
  BY HeldFacts, LenProperties
<1>3. in # << >>
  <2>1. SUFFICES ASSUME in = << >> PROVE FALSE
    OBVIOUS
  <2>2. Len(Held) = 0
    BY <2>1 DEF Held
  <2> QED
    BY <1>1, <1>2, <2>2
<1>4. Head(in) = Held /\ Tail(in) = << >>
  BY <1>3, HeldFacts
<1>5. got' = SubSeq(Held, 1, msglen)
  BY <1>4 DEF Deliver
<1>6. Checked(bufs)
  <2>1. <<rest>> \o << >> = <<rest>>
    OBVIOUS
  <2>2. Checked(IF rest = << >> THEN << >> ELSE <<rest>> \o << >>)
    BY <1>4 DEF Deliver
  <2> HIDE DEF rest
  <2> QED
    BY <2>1, <2>2
<1>7. rest \in Seq(B)
  BY <1>2, SplitAt
<1> HIDE DEF rest
<1>8. msglen' = LengthOf(CharsOf(traffic, rest), traffic.control)
      /\ in' = IF bufs = << >> THEN << >> ELSE <<rest>>
  BY <1>1, <1>6, <1>7, CheckMerges
<1>9. in' = IF rest = << >> THEN << >> ELSE <<rest>>
  BY <1>8
<1>10. Held' = rest
  <2>1. Held' = IF in' = << >> THEN << >> ELSE in'[1]
    BY DEF Held
  <2> QED
    BY <1>9, <2>1
<1>11. msglen \in 1..Len(Held)
  BY <1>1, <1>2
<1> QED
  BY <1>1, <1>5, <1>8, <1>9, <1>10, <1>11 DEF rest

(* A new connection has no buffers,                                        *)
LEMMA TypeInits == ASSUME Init PROVE TypeInv
<1>1. traffic \in Traffics /\ in = << >> /\ msglen = 0 /\ Held = << >>
  BY DEF Init, Held
<1>2. << >> \in Seq(BytesOf(traffic))
  OBVIOUS
<1>3. tx \in SenderOf(traffic)
  BY <1>2 DEF Init, SenderOf
<1>4. Fits(tx)
  BY BuffersAssumption DEF Init, Fits
<1>5. LengthOf(CharsOf(traffic, Held), traffic.control) = 0
  <2>1. LengthOf(CharsOf(traffic, Held), traffic.control) \in 0..Len(Held)
    BY <1>1, <1>2, LengthIsBounded
  <2>2. Len(Held) = 0
    BY <1>1
  <2> QED
    BY <2>1, <2>2
<1>6. got \in Seq(BytesOf(traffic)) /\ turn \in {0, 1} /\ stale \in BOOLEAN /\ torn \in BOOLEAN
  BY <1>2 DEF Init
<1>7. breaks \in 0..MaxBreaks
  BY BuffersAssumption DEF Init
<1> QED
  BY <1>1, <1>3, <1>4, <1>5, <1>6, <1>7 DEF TypeInv

(* What the sender does leaves the receiver alone.                         *)
LEMMA SenderKeepsTypes ==
    ASSUME TypeInv, traffic' = traffic, rx' = rx, tx' \in SenderOf(traffic), Fits(tx'),
           stale' \in BOOLEAN, torn' \in BOOLEAN, breaks' \in 0..MaxBreaks
    PROVE  TypeInv'
<1>1. in' = in /\ msglen' = msglen /\ got' = got /\ turn' = turn
  BY DEF rx
<1>2. Held' = Held
  BY <1>1 DEF Held
<1>3. TypeInv' = (/\ traffic' \in Traffics
                  /\ tx' \in SenderOf(traffic') /\ (Fits(tx))'
                  /\ in' = << >> \/ \E b \in Seq(BytesOf(traffic')) : b # << >> /\ in' = <<b>>
                  /\ msglen' = LengthOf(CharsOf(traffic', Held'), traffic'.control)
                  /\ got' \in Seq(BytesOf(traffic'))
                  /\ turn' \in {0, 1} /\ stale' \in BOOLEAN /\ torn' \in BOOLEAN
                  /\ breaks' \in 0..MaxBreaks)
  BY DEF TypeInv
<1>4. (Fits(tx))'
  BY DEF Fits
<1> QED
  BY <1>1, <1>2, <1>3, <1>4 DEF TypeInv

(* no step leaves more than one to be read behind, or msglen out of date,  *)
LEMMA TypeSteps == ASSUME TypeInv, [Next]_vars PROVE TypeInv'
<1>1. traffic \in Traffics /\ tx \in SenderOf(traffic) /\ Fits(tx)
      /\ stale \in BOOLEAN /\ torn \in BOOLEAN /\ breaks \in 0..MaxBreaks
  BY DEF TypeInv
<1>2. ASSUME NEW m \in Messages, Write(m) PROVE TypeInv'
  <2>1. Bytes(m) = MessageBytes(traffic, m)
    BY DEF Bytes, MessageBytes
  <2>2. Bytes(m) \in Seq(BytesOf(traffic))
    BY <1>1, <2>1, MessageBytesFacts
  <2>3. tx' \in SenderOf(traffic) /\ Fits(tx')
    BY <1>1, <1>2, <2>2, WriteAppends DEF Write
  <2> QED
    BY <1>1, <1>2, <2>3, SenderKeepsTypes DEF Write
<1>3. CASE PollOut
  <2> DEFINE x == [tx EXCEPT !.pollout = FALSE, !.congested = FALSE]
  <2>1. x \in SenderOf(traffic) /\ x.wire = tx.wire
    BY <1>1 DEF SenderOf
  <2>2. Fits(x)
    BY <1>1, <2>1 DEF Fits
  <2>3. tx' = Flushed(x)
    BY <1>3 DEF PollOut
  <2> HIDE DEF x
  <2>4. tx' \in SenderOf(traffic) /\ Fits(tx')
    BY <2>1, <2>2, <2>3, FlushKeeps
  <2> QED
    BY <1>1, <1>3, <2>4, SenderKeepsTypes DEF PollOut
<1>4. CASE SenderReadError
  <2>1. tx' \in SenderOf(traffic) /\ tx'.wire = tx.wire
    BY <1>1, <1>4 DEF SenderReadError, SenderOf
  <2>2. Fits(tx')
    BY <1>1, <2>1 DEF Fits
  <2> QED
    BY <1>1, <1>4, <2>1, <2>2, SenderKeepsTypes DEF SenderReadError
<1>5. CASE Reset
  <2>1. tx' \in SenderOf(traffic) /\ tx'.wire = tx.wire
    BY <1>1, <1>5 DEF Reset, SenderOf
  <2>2. Fits(tx')
    BY <1>1, <2>1 DEF Fits
  <2> QED
    BY <1>1, <1>5, <2>1, <2>2, SenderKeepsTypes DEF Reset
<1>6. CASE Break
  <2>1. << >> \in Seq(BytesOf(traffic))
    OBVIOUS
  <2>2. tx' \in SenderOf(traffic) /\ tx'.wire = << >>
    BY <1>1, <1>6, <2>1 DEF Break, SenderOf
  <2>3. Fits(tx')
    BY <2>2, BuffersAssumption DEF Fits
  <2>4. stale' \in BOOLEAN /\ torn' \in BOOLEAN
    BY <1>1, <1>6 DEF Break
  <2>5. breaks' \in 0..MaxBreaks
    BY <1>1, <1>6, BuffersAssumption DEF Break
  <2> QED
    BY <1>6, <2>2, <2>3, <2>4, <2>5, SenderKeepsTypes DEF Break
<1>7. CASE Read
  <2>1. PICK bytes \in Seq(BytesOf(traffic)) :
           /\ traffic' = traffic
           /\ tx' \in SenderOf(traffic) /\ Fits(tx')
           /\ Held \o bytes \in Seq(BytesOf(traffic)) /\ Held \o bytes # << >>
           /\ in' = <<Held \o bytes>> /\ Held' = Held \o bytes
           /\ msglen' = LengthOf(CharsOf(traffic, Held \o bytes), traffic.control)
    BY <1>7, ReadAdds
  <2> DEFINE new == Held \o bytes
  <2> HIDE DEF new
  <2>2. /\ new \in Seq(BytesOf(traffic)) /\ new # << >> /\ in' = <<new>> /\ Held' = new
        /\ msglen' = LengthOf(CharsOf(traffic, new), traffic.control)
    BY <2>1 DEF new
  <2>3. (Fits(tx))'
    BY <2>1 DEF Fits
  <2>4. UNCHANGED <<got, turn, stale, torn, breaks>>
    BY <1>7 DEF Read
  <2> QED
    BY <2>1, <2>2, <2>3, <2>4 DEF TypeInv
<1>8. CASE ReceiverReadError
  <2>1. /\ in' = << >> /\ stale' = FALSE /\ UNCHANGED <<traffic, tx, msglen, got, turn, torn, breaks>>
        /\ msglen = 0
    BY <1>8 DEF ReceiverReadError
  <2>2. Held' = << >>
    <3>1. Held' = IF in' = << >> THEN << >> ELSE in'[1]
      BY DEF Held
    <3> QED
      BY <2>1, <3>1
  <2>3. << >> \in Seq(BytesOf(traffic)) /\ Len(<< >>) = 0
    OBVIOUS
  <2>4. LengthOf(CharsOf(traffic, << >>), traffic.control) = 0
    <3>1. LengthOf(CharsOf(traffic, << >>), traffic.control) \in 0..Len(<< >>)
      BY <1>1, <2>3, LengthIsBounded
    <3> QED
      BY <2>3, <3>1
  <2>5. (Fits(tx))'
    BY <1>1, <2>1 DEF Fits
  <2>6. msglen' = LengthOf(CharsOf(traffic', Held'), traffic'.control)
    BY <2>1, <2>2, <2>4
  <2> QED
    BY <2>1, <2>5, <2>6 DEF TypeInv
<1>9. CASE Deliver
  <2>1. /\ traffic' = traffic /\ tx' = tx /\ msglen \in 1..Len(Held)
        /\ got' = SubSeq(Held, 1, msglen)
        /\ Held' = SubSeq(Held, msglen + 1, Len(Held))
        /\ in' = IF Held' = << >> THEN << >> ELSE <<Held'>>
        /\ msglen' = LengthOf(CharsOf(traffic, Held'), traffic.control)
    BY <1>9, DeliverTakes
  <2>2. Held \in Seq(BytesOf(traffic)) /\ msglen \in 0..Len(Held)
    BY HeldFacts
  <2>3. got' \in Seq(BytesOf(traffic)) /\ Held' \in Seq(BytesOf(traffic))
    BY <2>1, <2>2, SplitAt
  <2>4. in' = << >> \/ \E b \in Seq(BytesOf(traffic')) : b # << >> /\ in' = <<b>>
    BY <2>1, <2>3
  <2>5. (Fits(tx))'
    BY <1>1, <2>1 DEF Fits
  <2>6. turn' \in {0, 1} /\ UNCHANGED <<stale, torn, breaks>>
    BY <1>9 DEF Deliver, TypeInv
  <2> QED
    BY <2>1, <2>3, <2>4, <2>5, <2>6 DEF TypeInv
<1>10. CASE UNCHANGED vars
  BY <1>1, <1>10, SenderKeepsTypes DEF vars, rx
<1> QED
  BY <1>2, <1>3, <1>4, <1>5, <1>6, <1>7, <1>8, <1>9, <1>10
  DEF Next, SenderLoop, ReceiverLoop

(* so that this is always so.                                              *)
LEMMA AlwaysTypeInv == Spec => []TypeInv
<1>1. Init => TypeInv
  BY TypeInits
<1>2. TypeInv /\ [Next]_vars => TypeInv'
  BY TypeSteps
<1> QED
  BY <1>1, <1>2, PTL DEF Spec

(* The variables have their types.                                         *)
THEOREM Types == Spec => []TypeOK
<1>1. ASSUME TypeInv PROVE TypeOK
  <2>1. AllBytes = BytesOf(traffic)
    BY DEF AllBytes, BytesOf
  <2>2. traffic \in Traffics /\ tx \in SenderOf(traffic) /\ Fits(tx) /\ got \in Seq(AllBytes)
    BY <1>1, <2>1 DEF TypeInv
  <2>3. tx.out \in Seq(AllBytes) /\ tx.wire \in Seq(AllBytes)
    BY <2>1, <2>2 DEF SenderOf
  <2>4. /\ Range(tx.out) \subseteq AllBytes /\ Range(tx.wire) \subseteq AllBytes
        /\ Range(got) \subseteq AllBytes
    BY <2>2, <2>3, RangeOfSeq
  <2>5. Len(tx.wire) <= Capacity
    BY <2>2 DEF Fits
  <2>6. DOMAIN tx = {"out", "congested", "pollout", "line", "wire"}
    BY <2>2 DEF SenderOf
  <2>7. {tx.congested, tx.pollout} \subseteq BOOLEAN /\ tx.line \in {"up", "broken", "closed"}
    BY <2>2 DEF SenderOf
  <2>8. Held \in Seq(AllBytes) /\ Range(Held) \subseteq AllBytes
    <3>1. Held \in Seq(AllBytes)
      BY <1>1, <2>1, HeldFacts
    <3> QED
      BY <3>1, RangeOfSeq
  <2>9. \A k \in DOMAIN in : in[k] # << >> /\ Range(in[k]) \subseteq AllBytes
    <3>1. CASE in = << >>
      BY <3>1
    <3>2. CASE in # << >>
      <4>1. in = <<Held>> /\ Held # << >>
        BY <1>1, <3>2, HeldFacts
      <4>2. \A k \in DOMAIN in : in[k] = Held
        BY <4>1
      <4> QED
        BY <2>8, <4>1, <4>2
    <3> QED
      BY <3>1, <3>2
  <2>10. msglen \in Nat /\ (msglen > 0 => in # << >> /\ msglen <= Len(Head(in)))
    <3>1. Held \in Seq(AllBytes) /\ msglen \in 0..Len(Held)
      BY <1>1, <2>8, HeldFacts
    <3>2. Len(Held) \in Nat
      BY <3>1
    <3>3. in = << >> => Len(Held) = 0
      BY DEF Held
    <3>4. in # << >> => Head(in) = Held
      BY <1>1, HeldFacts
    <3> QED
      BY <3>1, <3>2, <3>3, <3>4
  <2>11. turn \in {0, 1} /\ {stale, torn} \subseteq BOOLEAN /\ breaks \in 0..MaxBreaks
    BY <1>1 DEF TypeInv
  <2> QED
    BY <2>2, <2>4, <2>5, <2>6, <2>7, <2>9, <2>10, <2>11 DEF TypeOK
<1> QED
  BY <1>1, AlwaysTypeInv, PTL

(* buffer_read() never replaces a buffer that waits: it has always at most *)
(* one, because check_for_message() leaves one.                            *)
THEOREM BuffersAreKept == Spec => []NoBufferReplaced
<1>1. ASSUME TypeInv PROVE NoBufferReplaced
  <2>1. Len(in) \in 0..1
    BY <1>1, HeldFacts
  <2>2. Len(in) <= 1
    BY <2>1
  <2> QED
    BY <2>2 DEF NoBufferReplaced
<1> QED
  BY <1>1, AlwaysTypeInv, PTL

(***************************************************************************)
(* The order.  As long as no message was torn, the bytes that wait at the  *)
(* receiver begin with a message and are in order, and what it will have   *)
(* read are entire messages: after a break, only what was written since.   *)
(***************************************************************************)
Unread == IF stale THEN Sent(tx) ELSE Held \o Sent(tx)

OrderInv ==
    ~torn => /\ Starts(Held) /\ Flows(traffic, Held)
             /\ Entire(traffic, Unread)

(* What is on the wire and what waits in ss_out are bytes in a row.        *)
LEMMA SentFacts ==
    ASSUME NEW t, NEW x \in SenderOf(t), NEW held \in Seq(BytesOf(t))
    PROVE  /\ Sent(x) \in Seq(BytesOf(t)) /\ x.wire \in Seq(BytesOf(t)) /\ x.out \in Seq(BytesOf(t))
           /\ held \o Sent(x) \in Seq(BytesOf(t))
           /\ (held \o x.wire) \o x.out = held \o Sent(x)
<1> DEFINE B == BytesOf(t)
           w == x.wire
           o == x.out
<1>1. w \in Seq(B) /\ o \in Seq(B) /\ held \in Seq(B)
  BY DEF SenderOf
<1>2. Sent(x) = w \o o
  BY DEF Sent
<1> HIDE DEF B, w, o
<1>3. w \o o \in Seq(B) /\ held \o (w \o o) \in Seq(B)
  BY <1>1, ConcatProperties
<1>4. (held \o w) \o o = held \o (w \o o)
  BY SMTT(40), <1>1, ConcatAssociative
<1> QED
  BY <1>1, <1>2, <1>3, <1>4 DEF B, w, o

(* The messages on their way, before and after a step.                     *)
LEMMA Queues ==
    ASSUME TypeInv, TypeInv', traffic' = traffic
    PROVE  /\ InFlight = MessagesIn(traffic, Held \o Sent(tx))
           /\ InFlight' = MessagesIn(traffic, Held' \o Sent(tx'))
           /\ Held \in Seq(BytesOf(traffic)) /\ Held' \in Seq(BytesOf(traffic))
           /\ Sent(tx) \in Seq(BytesOf(traffic)) /\ Sent(tx') \in Seq(BytesOf(traffic))
           /\ traffic \in Traffics
           /\ tx \in SenderOf(traffic) /\ tx' \in SenderOf(traffic)
<1>1. traffic \in Traffics /\ tx \in SenderOf(traffic) /\ tx' \in SenderOf(traffic)
  BY DEF TypeInv
<1>2. Held \in Seq(BytesOf(traffic)) /\ FlattenSeq(in) = Held
  BY HeldFacts
<1>3. Held' \in Seq(BytesOf(traffic)) /\ FlattenSeq(in') = Held'
  <2>1. Held' = IF in' = << >> THEN << >> ELSE in'[1]
    BY DEF Held
  <2>2. CASE in' = << >>
    <3>1. Held' = << >> /\ << >> \in Seq(BytesOf(traffic))
      BY <2>1, <2>2
    <3> QED
      BY <2>2, <3>1, Flatten
  <2>3. CASE in' # << >>
    <3>1. PICK b \in Seq(BytesOf(traffic)) : b # << >> /\ in' = <<b>>
      BY <2>3 DEF TypeInv
    <3>2. Held' = b
      BY <2>1, <2>3, <3>1
    <3> QED
      BY <3>1, <3>2, Flatten
  <2> QED
    BY <2>2, <2>3
<1>4. Stream = Held \o Sent(tx) /\ Sent(tx) \in Seq(BytesOf(traffic))
  BY <1>1, <1>2, SentFacts DEF Stream
<1>5. Stream' = Held' \o Sent(tx') /\ Sent(tx') \in Seq(BytesOf(traffic))
  <2>1. Stream' = (FlattenSeq(in') \o tx'.wire) \o tx'.out
    BY DEF Stream
  <2>2. (Held' \o tx'.wire) \o tx'.out = Held' \o Sent(tx')
    BY <1>1, <1>3, SentFacts
  <2>3. Sent(tx') \in Seq(BytesOf(traffic))
    BY <1>1, <1>3, SentFacts
  <2> QED
    BY <1>3, <2>1, <2>2, <2>3
<1>6. InFlight = MessagesIn(traffic, Stream)
  BY DEF InFlight, MessagesOf, MessagesIn, IsLast, LastOf
<1>7. InFlight' = MessagesIn(traffic, Stream')
  BY DEF InFlight, MessagesOf, MessagesIn, IsLast, LastOf
<1> QED
  BY <1>1, <1>2, <1>3, <1>4, <1>5, <1>6, <1>7

(* What a delivery takes is a whole message, the first one.                *)
LEMMA DeliversFirst ==
    ASSUME TypeInv, OrderInv, ~torn, Framed(traffic), Deliver
    PROVE  \E m \in Messages :
             /\ got' = MessageBytes(traffic, m)
             /\ Len(traffic.chars[m]) > 0
             /\ Held = MessageBytes(traffic, m) \o Held'
             /\ Held' \in Seq(BytesOf(traffic))
<1>1. /\ msglen \in 1..Len(Held)
      /\ got' = SubSeq(Held, 1, msglen)
      /\ Held' = SubSeq(Held, msglen + 1, Len(Held))
  BY DeliverTakes
<1>2. /\ traffic \in Traffics /\ Held \in Seq(BytesOf(traffic)) /\ msglen \in 0..Len(Held)
      /\ msglen = LengthOf(CharsOf(traffic, Held), traffic.control)
      /\ Starts(Held) /\ Flows(traffic, Held) /\ msglen > 0
  BY <1>1, HeldFacts DEF TypeInv, OrderInv
<1>3. PICK m \in Messages :
         /\ msglen = Len(traffic.chars[m])
         /\ \A i \in 1..Len(traffic.chars[m]) : Held[i] = <<m, i>>
  <2> DEFINE s == Held
  <2>1. /\ s \in Seq(BytesOf(traffic)) /\ Starts(s) /\ Flows(traffic, s)
        /\ LengthOf(CharsOf(traffic, s), traffic.control) > 0
    BY <1>2
  <2> HIDE DEF s
  <2>2. \E m \in Messages :
             /\ LengthOf(CharsOf(traffic, s), traffic.control) = Len(traffic.chars[m])
             /\ \A i \in 1..Len(traffic.chars[m]) : s[i] = <<m, i>>
    BY <1>2, <2>1, FirstMessage
  <2> QED
    BY <1>2, <2>2 DEF s
<1>4. /\ got' \in Seq(BytesOf(traffic)) /\ Held' \in Seq(BytesOf(traffic))
      /\ Held = got' \o Held' /\ Len(got') = msglen
      /\ \A i \in 1..msglen : got'[i] = Held[i]
  BY ZenonT(60), <1>1, <1>2, SplitAt
<1>5. got' = MessageBytes(traffic, m)
  <2>1. /\ MessageBytes(traffic, m) \in Seq(BytesOf(traffic))
        /\ Len(MessageBytes(traffic, m)) = msglen
        /\ \A i \in 1..msglen : MessageBytes(traffic, m)[i] = <<m, i>>
    BY <1>2, <1>3, MessageBytesFacts
  <2>2. \A i \in 1..Len(got') : got'[i] = MessageBytes(traffic, m)[i]
    BY <1>3, <1>4, <2>1
  <2> QED
    BY <1>4, <2>1, <2>2, SeqEqual
<1> QED
  BY <1>2, <1>3, <1>4, <1>5

(* The sender adds whole messages.                                         *)
LEMMA SenderAdds ==
    ASSUME TypeInv, (\E m \in Messages : Write(m)) \/ SenderLoop
    PROVE  /\ traffic' = traffic /\ in' = in /\ got' = got /\ stale' = stale /\ torn' = torn
           /\ Held' = Held
           /\ \/ Sent(tx') = Sent(tx)
              \/ \E m \in Messages : Sent(tx') = Sent(tx) \o MessageBytes(traffic, m)
<1>1. traffic \in Traffics /\ tx \in SenderOf(traffic) /\ Fits(tx)
  BY DEF TypeInv
<1>2. /\ traffic' = traffic /\ in' = in /\ got' = got /\ stale' = stale /\ torn' = torn
  BY DEF Write, SenderLoop, PollOut, SenderReadError, Reset, rx
<1>3. Held' = Held
  BY <1>2 DEF Held
<1>4. ASSUME NEW m \in Messages, Write(m)
      PROVE  Sent(tx') \in {Sent(tx), Sent(tx) \o MessageBytes(traffic, m)}
  <2>1. Bytes(m) = MessageBytes(traffic, m)
    BY DEF Bytes, MessageBytes
  <2>2. MessageBytes(traffic, m) \in Seq(BytesOf(traffic))
    BY <1>1, MessageBytesFacts
  <2>3. tx' = Written(tx, MessageBytes(traffic, m))
    BY <1>4, <2>1 DEF Write
  <2> QED
    BY <1>1, <2>2, <2>3, WriteAppends
<1>5. CASE PollOut
  <2> DEFINE x == [tx EXCEPT !.pollout = FALSE, !.congested = FALSE]
  <2>1. x \in SenderOf(traffic) /\ x.wire = tx.wire /\ x.out = tx.out
    BY <1>1 DEF SenderOf
  <2>2. Fits(x) /\ Sent(x) = Sent(tx)
    BY <1>1, <2>1 DEF Fits, Sent
  <2>3. tx' = Flushed(x)
    BY <1>5 DEF PollOut
  <2> HIDE DEF x
  <2> QED
    BY <1>2, <1>3, <2>1, <2>2, <2>3, FlushKeeps
<1>6. CASE SenderReadError \/ Reset
  <2>1. tx'.wire = tx.wire /\ tx'.out = tx.out
    BY <1>1, <1>6 DEF SenderReadError, Reset, SenderOf
  <2> QED
    BY <1>2, <1>3, <2>1 DEF Sent
<1> QED
  BY <1>2, <1>3, <1>4, <1>5, <1>6 DEF SenderLoop

(* A break that tears no message leaves entire messages in ss_out.         *)
LEMMA BreakLeaves ==
    ASSUME TypeInv, OrderInv, Break, ~torn'
    PROVE  ~torn /\ Entire(traffic, Sent(tx'))
<1>1. /\ traffic \in Traffics /\ tx \in SenderOf(traffic) /\ Held \in Seq(BytesOf(traffic))
  BY HeldFacts DEF TypeInv
<1>2. /\ tx.out \in Seq(BytesOf(traffic)) /\ tx.wire \in Seq(BytesOf(traffic))
      /\ Sent(tx) \in Seq(BytesOf(traffic))
  BY <1>1, SentFacts
<1>3. ~torn /\ (tx.out # << >> => Head(tx.out)[2] = 1)
  BY DEF Break
<1>4. Sent(tx') = tx.out
  <2>1. tx'.wire = << >> /\ tx'.out = tx.out
    BY <1>1 DEF Break, SenderOf
  <2> QED
    BY <1>2, <2>1, ConcatEmptySeq DEF Sent
<1>5. Starts(tx.out)
  <2>1. tx.out # << >> => Head(tx.out) = tx.out[1]
    BY <1>2
  <2> QED
    BY <1>3, <2>1 DEF Starts
<1>6. Flows(traffic, Sent(tx)) /\ Ends(traffic, Sent(tx))
  <2>1. CASE stale
    BY <1>3, <2>1 DEF OrderInv, Unread, Entire
  <2>2. CASE ~stale
    <3>1. Flows(traffic, Held \o Sent(tx)) /\ Ends(traffic, Held \o Sent(tx))
      BY <1>3, <2>2 DEF OrderInv, Unread, Entire
    <3> QED
      BY <1>1, <1>2, <3>1, FlowOfConcat
  <2> QED
    BY <2>1, <2>2
<1>7. Flows(traffic, tx.out) /\ Ends(traffic, tx.out)
  <2>1. Sent(tx) = tx.wire \o tx.out
    BY DEF Sent
  <2> QED
    BY <1>1, <1>2, <1>6, <2>1, FlowOfConcat
<1> QED
  BY <1>3, <1>4, <1>5, <1>7 DEF Entire

(* No step gets bytes out of order: a write adds a whole message, a        *)
(* delivery takes the first one, a break loses the wire.                   *)
LEMMA OrderSteps ==
    ASSUME TypeInv, TypeInv', OrderInv, Framed(traffic), [Next]_vars
    PROVE  OrderInv'
<1>0. SUFFICES ASSUME ~torn'
               PROVE  /\ Starts(Held') /\ Flows(traffic', Held')
                      /\ Entire(traffic', IF stale' THEN Sent(tx') ELSE Held' \o Sent(tx'))
  <2>1. Starts(Held)' = Starts(Held')
    BY DEF Starts
  <2>2. Flows(traffic, Held)' = Flows(traffic', Held')
    BY DEF Flows, Follows, LastOf
  <2>3. Entire(traffic, Unread)' = Entire(traffic', Unread')
    BY DEF Entire, Starts, Flows, Ends, Follows, LastOf
  <2>4. Unread' = IF stale' THEN Sent(tx') ELSE Held' \o Sent(tx')
    BY DEF Unread, Sent
  <2> QED
    BY <2>1, <2>2, <2>3, <2>4 DEF OrderInv
<1>1. /\ traffic \in Traffics /\ tx \in SenderOf(traffic) /\ Held \in Seq(BytesOf(traffic))
      /\ Sent(tx) \in Seq(BytesOf(traffic)) /\ Held \o Sent(tx) \in Seq(BytesOf(traffic))
      /\ stale \in BOOLEAN
  BY HeldFacts, SentFacts DEF TypeInv
<1>2. ~torn => Starts(Held) /\ Flows(traffic, Held) /\ Entire(traffic, Unread)
  BY DEF OrderInv
<1>3. CASE (\E m \in Messages : Write(m)) \/ SenderLoop
  <2>1. /\ traffic' = traffic /\ stale' = stale /\ torn' = torn /\ Held' = Held
    BY <1>3, SenderAdds
  <2>2. CASE Sent(tx') = Sent(tx)
    BY <1>0, <1>2, <2>1, <2>2 DEF Unread
  <2>3. ASSUME NEW m \in Messages, Sent(tx') = Sent(tx) \o MessageBytes(traffic, m)
        PROVE  Entire(traffic, IF stale THEN Sent(tx') ELSE Held \o Sent(tx'))
    <3> DEFINE bytes == MessageBytes(traffic, m)
    <3>1. bytes \in Seq(BytesOf(traffic)) /\ Entire(traffic, bytes)
      BY <1>1, MessageBytesFacts, MessageIsEntire DEF Framed
    <3> HIDE DEF bytes
    <3>2. CASE stale
      <4>1. Entire(traffic, Sent(tx))
        BY <1>0, <1>2, <2>1, <3>2 DEF Unread
      <4>2. Entire(traffic, Sent(tx) \o bytes)
        BY <1>1, <3>1, <4>1, FlowOfConcat
      <4> QED
        BY <2>3, <3>2, <4>2 DEF bytes
    <3>3. CASE ~stale
      <4>1. Entire(traffic, Held \o Sent(tx))
        BY <1>0, <1>2, <2>1, <3>3 DEF Unread
      <4>2. Entire(traffic, (Held \o Sent(tx)) \o bytes)
        BY <1>1, <3>1, <4>1, FlowOfConcat
      <4>3. (Held \o Sent(tx)) \o bytes = Held \o (Sent(tx) \o bytes)
        BY <1>1, <3>1, ConcatAssociative
      <4> QED
        BY <2>3, <3>3, <4>2, <4>3 DEF bytes
    <3> QED
      BY <3>2, <3>3
  <2> QED
    BY <1>0, <1>2, <1>3, <2>1, <2>2, <2>3, SenderAdds
<1>4. CASE Break
  <2>1. ~torn /\ Entire(traffic, Sent(tx'))
    BY <1>0, <1>4, BreakLeaves
  <2>2. traffic' = traffic /\ in' = in /\ stale'
    BY <1>4 DEF Break, rx
  <2>3. Held' = Held
    BY <2>2 DEF Held
  <2> QED
    BY <1>2, <2>1, <2>2, <2>3
<1>5. CASE Read
  <2>1. PICK bytes \in Seq(BytesOf(traffic)) :
           /\ traffic' = traffic /\ ~stale
           /\ tx' \in SenderOf(traffic)
           /\ tx.wire = bytes \o tx'.wire /\ tx'.out = tx.out
           /\ Held \o bytes \in Seq(BytesOf(traffic)) /\ Held \o bytes # << >>
           /\ Held' = Held \o bytes
    BY <1>5, ReadAdds
  <2>2. stale' = stale /\ torn' = torn
    BY <1>5 DEF Read
  <2>3. Sent(tx') \in Seq(BytesOf(traffic))
    BY <1>1, <2>1, SentFacts
  <2>4. Held \o Sent(tx) = Held' \o Sent(tx')
    <3>1. tx'.wire \in Seq(BytesOf(traffic)) /\ tx'.out \in Seq(BytesOf(traffic))
      BY <1>1, <2>1, SentFacts
    <3>2. Sent(tx) = (bytes \o tx'.wire) \o tx'.out
      BY <2>1 DEF Sent
    <3>3. Sent(tx) = bytes \o Sent(tx')
      <4>1. (bytes \o tx'.wire) \o tx'.out = bytes \o Sent(tx')
        BY <2>1, SentFacts
      <4> QED
        BY <3>2, <4>1
    <3>4. (Held \o bytes) \o Sent(tx') = Held \o (bytes \o Sent(tx'))
      BY SMTT(40), <1>1, <2>1, <2>3, ConcatAssociative
    <3> QED
      BY <2>1, <3>3, <3>4
  <2>5. Entire(traffic, Held' \o Sent(tx'))
    BY <1>0, <1>2, <2>1, <2>2, <2>4 DEF Unread
  <2>6. Starts(Held') /\ Flows(traffic, Held')
    <3>1. Held' \in Seq(BytesOf(traffic)) /\ Held' # << >>
      BY <2>1
    <3> QED
      BY <1>1, <2>3, <2>5, <3>1, FlowOfConcat DEF Entire
  <2> QED
    BY <2>1, <2>2, <2>5, <2>6
<1>6. CASE ReceiverReadError
  <2>1. in' = << >> /\ stale /\ ~stale' /\ traffic' = traffic /\ tx' = tx /\ torn' = torn
    BY <1>6 DEF ReceiverReadError
  <2>2. Held' = << >>
    <3>1. Held' = IF in' = << >> THEN << >> ELSE in'[1]
      BY DEF Held
    <3> QED
      BY <2>1, <3>1
  <2>3. << >> \o Sent(tx) = Sent(tx)
    BY <1>1, ConcatEmptySeq
  <2>4. Entire(traffic, Sent(tx))
    BY <1>0, <1>2, <2>1 DEF Unread
  <2>5. Starts(<< >>) /\ Flows(traffic, << >>)
    BY EmptyIsEntire DEF Entire
  <2> QED
    BY <2>1, <2>2, <2>3, <2>4, <2>5
<1>7. CASE Deliver
  <2>1. torn' = torn /\ stale' = stale /\ traffic' = traffic /\ tx' = tx
    BY <1>7 DEF Deliver
  <2>2. PICK m \in Messages :
             /\ Len(traffic.chars[m]) > 0
             /\ Held = MessageBytes(traffic, m) \o Held'
             /\ Held' \in Seq(BytesOf(traffic))
    BY <1>0, <1>7, <2>1, DeliversFirst
  <2> DEFINE bytes == MessageBytes(traffic, m)
             rest == Held'
  <2>3. /\ bytes \in Seq(BytesOf(traffic)) /\ Ends(traffic, bytes) /\ bytes # << >>
        /\ Held = bytes \o rest /\ rest \in Seq(BytesOf(traffic))
    <3>1. Len(bytes) > 0 /\ bytes \in Seq(BytesOf(traffic))
      BY <1>1, <2>2, MessageBytesFacts
    <3>2. bytes # << >>
      BY <3>1
    <3>3. Ends(traffic, bytes)
      BY <1>1, <2>2, MessageIsEntire DEF Entire
    <3> QED
      BY <2>2, <3>1, <3>2, <3>3
  <2> HIDE DEF bytes, rest
  <2>4. Starts(rest) /\ Flows(traffic, rest)
    <3>1. Flows(traffic, bytes \o rest)
      BY <1>0, <1>2, <2>1, <2>3
    <3> QED
      BY <1>1, <2>3, <3>1, FlowOfConcat
  <2>5. CASE stale
    BY <1>0, <1>2, <2>1, <2>4, <2>5 DEF Unread, rest
  <2>6. CASE ~stale
    <3>1. Held \o Sent(tx) = bytes \o (rest \o Sent(tx))
      BY <1>1, <2>3, ConcatAssociative
    <3>2. rest \o Sent(tx) \in Seq(BytesOf(traffic))
      BY <1>1, <2>3, ConcatProperties
    <3>3. Entire(traffic, bytes \o (rest \o Sent(tx)))
      BY <1>0, <1>2, <2>1, <2>6, <3>1 DEF Unread
    <3> DEFINE all == rest \o Sent(tx)
    <3>4. Entire(traffic, all)
      <4>1. all \in Seq(BytesOf(traffic)) /\ Entire(traffic, bytes \o all)
        BY <3>2, <3>3
      <4> HIDE DEF all
      <4> QED
        BY <1>1, <2>3, <4>1, FlowOfConcat DEF Entire
    <3> QED
      BY <2>1, <2>4, <2>6, <3>4 DEF rest
  <2> QED
    BY <2>5, <2>6
<1>8. CASE UNCHANGED vars
  <2>1. /\ traffic' = traffic /\ in' = in /\ stale' = stale /\ torn' = torn /\ tx' = tx
    BY <1>8 DEF vars
  <2>2. Held' = Held
    BY <2>1 DEF Held
  <2> QED
    BY <1>0, <1>2, <2>1, <2>2 DEF Unread
<1> QED
  BY <1>3, <1>4, <1>5, <1>6, <1>7, <1>8 DEF Next, ReceiverLoop

(***************************************************************************)
(* The steps of the channel.                                               *)
(***************************************************************************)
LEMMA WholeStays ==
    ASSUME traffic' = traffic, got' = got
    PROVE  Whole' = Whole
BY DEF Whole, Bytes

(* A message at the end of the bytes is the last one on its way,           *)
LEMMA OneMore ==
    ASSUME NEW t \in Traffics, Framed(t), NEW s \in Seq(BytesOf(t)), NEW m \in Messages
    PROVE  MessagesIn(t, s \o MessageBytes(t, m)) = Append(MessagesIn(t, s), m)
<1>1. Len(t.chars[m]) > 0 /\ MessageBytes(t, m) \in Seq(BytesOf(t))
  BY MessageBytesFacts DEF Framed
<1>2. MessagesIn(t, MessageBytes(t, m)) = <<m>>
  BY <1>1, OneMessage
<1>3. MessagesIn(t, s \o MessageBytes(t, m)) = MessagesIn(t, s) \o <<m>>
  BY <1>1, <1>2, MessagesOfConcat
<1>4. MessagesIn(t, s) \in Seq(Messages)
  BY MessagesInType
<1> QED
  BY <1>3, <1>4, AppendIsConcat

(* one at their beginning is the first one,                                *)
LEMMA OneLess ==
    ASSUME NEW t \in Traffics, NEW s \in Seq(BytesOf(t)), NEW m \in Messages,
           Len(t.chars[m]) > 0
    PROVE  /\ MessagesIn(t, MessageBytes(t, m) \o s) # << >>
           /\ Head(MessagesIn(t, MessageBytes(t, m) \o s)) = m
           /\ Tail(MessagesIn(t, MessageBytes(t, m) \o s)) = MessagesIn(t, s)
<1> DEFINE q == MessagesIn(t, s)
           all == MessagesIn(t, MessageBytes(t, m) \o s)
<1>1. MessageBytes(t, m) \in Seq(BytesOf(t))
  BY MessageBytesFacts
<1>2. MessagesIn(t, MessageBytes(t, m)) = <<m>>
  BY OneMessage
<1>3. all = <<m>> \o q
  BY <1>1, <1>2, MessagesOfConcat
<1>4. q \in Seq(Messages) /\ <<m>> \in Seq(Messages)
  BY MessagesInType
<1> HIDE DEF q, all
<1>5. /\ all \in Seq(Messages) /\ Len(all) = Len(q) + 1 /\ Len(q) \in Nat
      /\ all[1] = m
      /\ \A i \in 1..Len(q) : all[i + 1] = q[i]
  <2>1. Len(<<m>>) = 1 /\ <<m>>[1] = m
    OBVIOUS
  <2> DEFINE one == <<m>>
  <2>2. one \in Seq(Messages) /\ all = one \o q /\ Len(one) = 1 /\ one[1] = m
    BY <1>3, <1>4, <2>1
  <2> HIDE DEF one
  <2>3. /\ all \in Seq(Messages) /\ Len(all) = 1 + Len(q)
        /\ \A i \in 1..(1 + Len(q)) : all[i] = IF i <= 1 THEN one[i] ELSE q[i - 1]
    <3>1. /\ all \in Seq(Messages) /\ Len(all) = Len(one) + Len(q)
          /\ \A i \in 1..(Len(one) + Len(q)) :
               all[i] = IF i <= Len(one) THEN one[i] ELSE q[i - Len(one)]
      BY <1>4, <2>2, ConcatProperties
    <3> QED
      BY <2>2, <3>1
  <2>4. Len(q) \in Nat
    BY <1>4
  <2>5. all[1] = m
    BY <2>2, <2>3, <2>4
  <2>6. ASSUME NEW i \in 1..Len(q) PROVE all[i + 1] = q[i]
    <3>1. i + 1 \in 1..(1 + Len(q)) /\ ~(i + 1 <= 1) /\ i + 1 - 1 = i
      BY <2>4
    <3> QED
      BY <2>3, <3>1
  <2> QED
    BY <2>3, <2>4, <2>5, <2>6
<1>6. all # << >>
  BY <1>5
<1>7. Head(all) = m
  BY <1>5, <1>6
<1>8. Tail(all) = q
  <2>1. /\ Tail(all) \in Seq(Messages) /\ Len(Tail(all)) = Len(all) - 1
        /\ \A i \in 1..Len(Tail(all)) : Tail(all)[i] = all[i + 1]
    BY <1>5, <1>6, HeadTailProperties
  <2>2. Len(Tail(all)) = Len(q)
    BY <1>5, <2>1
  <2>3. \A i \in 1..Len(Tail(all)) : Tail(all)[i] = q[i]
    BY <1>5, <2>1, <2>2
  <2> QED
    BY <1>4, <2>1, <2>2, <2>3, SeqEqual
<1> QED
  BY <1>6, <1>7, <1>8 DEF q, all

(* and bytes that are lost are messages in a row that are lost.            *)
LosesARow(q, r) ==
    \E i, j \in 0..Len(q) :
       /\ i <= j
       /\ r = SubSeq(q, 1, i) \o SubSeq(q, j + 1, Len(q))

(* A middle part that is gone is such a row.                               *)
LEMMA LosesInARow ==
    ASSUME NEW a \in Seq(Messages), NEW b \in Seq(Messages), NEW c \in Seq(Messages),
           NEW q, q = (a \o b) \o c, NEW r, r = a \o c
    PROVE  LosesARow(q, r)
<1> DEFINE i == Len(a)
           j == Len(a) + Len(b)
           ab == a \o b
<1>1. ab \in Seq(Messages) /\ Len(ab) = j
  BY ConcatProperties
<1>2. /\ i \in Nat /\ Len(b) \in Nat /\ Len(c) \in Nat /\ j \in Nat /\ i <= j
  BY LenProperties
<1>3. \A k \in 1..i : ab[k] = a[k]
  <2>1. \A k \in 1..i : k \in 1..(Len(a) + Len(b)) /\ k <= Len(a)
    BY <1>2
  <2> QED
    BY <2>1, ConcatProperties
<1> HIDE DEF ab
<1>4. q = ab \o c
  BY DEF ab
<1>5. /\ q \in Seq(Messages) /\ Len(q) = j + Len(c)
      /\ \A k \in 1..(j + Len(c)) : q[k] = IF k <= j THEN ab[k] ELSE c[k - j]
  <2>1. /\ q \in Seq(Messages) /\ Len(q) = Len(ab) + Len(c)
        /\ \A k \in 1..(Len(ab) + Len(c)) :
             q[k] = IF k <= Len(ab) THEN ab[k] ELSE c[k - Len(ab)]
    <3>1. ab \in Seq(Messages) /\ c \in Seq(Messages)
      BY <1>1
    <3>2. /\ ab \o c \in Seq(Messages) /\ Len(ab \o c) = Len(ab) + Len(c)
          /\ \A k \in 1..(Len(ab) + Len(c)) :
               (ab \o c)[k] = IF k <= Len(ab) THEN ab[k] ELSE c[k - Len(ab)]
      BY ONLY <3>1, ConcatProperties
    <3> QED
      BY <1>4, <3>2
  <2> HIDE DEF j
  <2> QED
    BY <1>1, <2>1
<1>6. i \in 0..Len(q) /\ j \in 0..Len(q)
  BY <1>2, <1>5
<1> HIDE DEF i, j
<1>7. SubSeq(q, 1, i) = a
  <2>1. /\ SubSeq(q, 1, i) \in Seq(Messages) /\ Len(SubSeq(q, 1, i)) = i
        /\ \A k \in 1..i : SubSeq(q, 1, i)[k] = q[k]
    BY <1>5, <1>6, SplitAt
  <2>2. \A k \in 1..i : q[k] = a[k]
    <3>1. \A k \in 1..i : k \in 1..(j + Len(c)) /\ k <= j
      BY <1>2
    <3> QED
      BY <1>3, <1>5, <3>1
  <2>3. Len(a) = i
    BY DEF i
  <2> QED
    BY <2>1, <2>2, <2>3, SeqEqual
<1>8. SubSeq(q, j + 1, Len(q)) = c
  <2>1. SubSeq(q, j + 1, Len(q)) \in Seq(Messages) /\ Len(SubSeq(q, j + 1, Len(q))) = Len(q) - j
    BY <1>5, <1>6, SplitAt
  <2>2. Len(q) - j = Len(c)
    BY <1>2, <1>5
  <2>3. ASSUME NEW k \in 1..Len(c) PROVE SubSeq(q, j + 1, Len(q))[k] = c[k]
    <3>1. /\ k \in 1..(Len(q) - (j + 1) + 1) /\ j + 1 + k - 1 = j + k
          /\ j + k \in 1..(j + Len(c)) /\ ~(j + k <= j) /\ j + k - j = k
      BY <1>2, <1>5
    <3>2. \A x \in (j + 1)..Len(q) : q[x] \in Messages
      BY <1>2, <1>5
    <3>3. j + 1 \in Int /\ Len(q) \in Int
      BY <1>2, <1>5
    <3>4. SubSeq(q, j + 1, Len(q))[k] = q[j + 1 + k - 1]
      <4>1. \A n \in 1..(Len(q) - (j + 1) + 1) :
               SubSeq(q, j + 1, Len(q))[n] = q[j + 1 + n - 1]
        <5>1. PICK first \in Int : first = j + 1
          BY <3>3
        <5>2. \A x \in first..Len(q) : q[x] \in Messages
          BY <3>2, <5>1
        <5>3. \A n \in 1..(Len(q) - first + 1) :
                 SubSeq(q, first, Len(q))[n] = q[first + n - 1]
          BY ONLY <3>3, <5>2, SubSeqProperties
        <5> QED
          BY <5>1, <5>3
      <4> QED
        BY <3>1, <4>1
    <3>5. PICK x \in 1..(j + Len(c)) : x = j + k
      BY <3>1
    <3>6. q[x] = c[k]
      <4>1. q[x] = IF x <= j THEN ab[x] ELSE c[x - j]
        BY <1>5
      <4>2. ~(x <= j) /\ x - j = k
        BY <1>2, <3>5
      <4> QED
        BY <4>1, <4>2
    <3> QED
      BY <3>1, <3>4, <3>5, <3>6
  <2> QED
    BY <2>1, <2>2, <2>3, SeqEqual
<1> QED
  BY <1>2, <1>6, <1>7, <1>8 DEF LosesARow

(* A connection begins with no message on its way,                         *)
LEMMA ChannelInits == ASSUME Init PROVE Channel!Init
<1>1. TypeInv
  BY TypeInits
<1>2. traffic \in Traffics /\ torn = FALSE /\ got = << >>
  BY <1>1 DEF Init, TypeInv
<1>3. << >> \in Seq(BytesOf(traffic)) /\ Len(<< >>) = 0 /\ << >> \o << >> = << >>
  OBVIOUS
<1>4. Stream = << >>
  <2>1. in = << >> /\ tx.wire = << >> /\ tx.out = << >>
    BY DEF Init
  <2> QED
    BY <1>3, <2>1, Flatten DEF Stream
<1>5. InFlight = << >>
  <2>1. InFlight = MessagesIn(traffic, << >>)
    BY <1>4 DEF InFlight, MessagesOf, MessagesIn, IsLast, LastOf
  <2>2. \A i \in 1..Len(<< >>) : ~LastOf(traffic, << >>[i])
    BY <1>3
  <2> QED
    BY <1>2, <1>3, <2>1, <2>2, NoMessageEnds
<1>6. Whole = "none"
  BY <1>2 DEF Whole
<1> QED
  BY <1>2, <1>5, <1>6 DEF Channel!Init

(* and each of its steps sends a message, delivers the first one, loses    *)
(* some in a row, or is none of the channel.                               *)
LEMMA ChannelSteps ==
    ASSUME TypeInv, TypeInv', OrderInv, Framed(traffic), [Next]_vars
    PROVE  [Channel!Next]_Channel!vars
<1>1. traffic' = traffic
  BY DEF Next, vars, Write, SenderLoop, ReceiverLoop, PollOut, SenderReadError, Reset, Break,
         Read, ReceiverReadError, Deliver
<1>2. /\ traffic \in Traffics
      /\ tx \in SenderOf(traffic) /\ tx' \in SenderOf(traffic)
      /\ Held \in Seq(BytesOf(traffic)) /\ Held' \in Seq(BytesOf(traffic))
      /\ Sent(tx) \in Seq(BytesOf(traffic)) /\ Sent(tx') \in Seq(BytesOf(traffic))
  BY <1>1, Queues
<1>3. /\ InFlight = MessagesIn(traffic, Held \o Sent(tx))
      /\ InFlight' = MessagesIn(traffic, Held' \o Sent(tx'))
  BY <1>1, Queues
<1>4. CASE torn
  <2>1. torn'
    BY <1>4 DEF Next, vars, Write, SenderLoop, ReceiverLoop, PollOut, SenderReadError, Reset,
                Break, Read, ReceiverReadError, Deliver
  <2>2. Channel!Next
    BY <1>4, <2>1 DEF Channel!Next
  <2> QED
    BY <2>2
<1>5. ASSUME torn' = torn, got' = got, Held' \o Sent(tx') = Held \o Sent(tx)
      PROVE  UNCHANGED Channel!vars
  <2>1. InFlight' = InFlight
    BY <1>3, <1>5
  <2>2. Whole' = Whole
    BY <1>1, <1>5, WholeStays
  <2> QED
    BY <1>5, <2>1, <2>2 DEF Channel!vars
<1>6. CASE ~torn /\ ((\E m \in Messages : Write(m)) \/ SenderLoop)
  <2>1. /\ got' = got /\ torn' = torn /\ Held' = Held
        /\ \/ Sent(tx') = Sent(tx)
           \/ \E m \in Messages : Sent(tx') = Sent(tx) \o MessageBytes(traffic, m)
    BY <1>6, SenderAdds
  <2>2. CASE Sent(tx') = Sent(tx)
    BY <1>5, <2>1, <2>2
  <2>3. ASSUME NEW m \in Messages, Sent(tx') = Sent(tx) \o MessageBytes(traffic, m)
        PROVE  Channel!Next
    <3> DEFINE bytes == MessageBytes(traffic, m)
               all == Held \o Sent(tx)
    <3>1. bytes \in Seq(BytesOf(traffic)) /\ all \in Seq(BytesOf(traffic))
      BY <1>2, MessageBytesFacts, ConcatProperties
    <3>2. Held' \o Sent(tx') = all \o bytes
      <4> HIDE DEF bytes
      <4>1. Sent(tx') = Sent(tx) \o bytes
        BY <2>3 DEF bytes
      <4>2. (Held \o Sent(tx)) \o bytes = Held \o (Sent(tx) \o bytes)
        <5> DEFINE B == BytesOf(traffic)
                   h == Held
                   s == Sent(tx)
        <5>1. h \in Seq(B) /\ s \in Seq(B) /\ bytes \in Seq(B)
          BY <1>2, <3>1
        <5> HIDE DEF B, h, s
        <5>2. (h \o s) \o bytes = h \o (s \o bytes)
          BY ONLY SMTT(40), <5>1, ConcatAssociative
        <5> QED
          BY <5>2 DEF h, s
      <4> QED
        BY <2>1, <4>1, <4>2
    <3>3. MessagesIn(traffic, all \o bytes) = Append(MessagesIn(traffic, all), m)
      <4> HIDE DEF all
      <4> QED
        BY <1>2, <3>1, OneMore
    <3>4. InFlight' = Append(InFlight, m)
      BY <1>3, <3>2, <3>3
    <3>5. Whole' = Whole
      BY <1>1, <2>1, WholeStays
    <3>6. Channel!Send(m)
      BY <2>1, <3>4, <3>5 DEF Channel!Send
    <3> QED
      BY <1>6, <3>6 DEF Channel!Next
  <2> QED
    BY <2>1, <2>2, <2>3
<1>7. ASSUME ~torn, got' = got,
             \E a, b, c \in Seq(BytesOf(traffic)) :
                /\ Held \o Sent(tx) = (a \o b) \o c
                /\ Held' \o Sent(tx') = a \o c
      PROVE  Channel!Next
  <2>1. PICK a, b, c \in Seq(BytesOf(traffic)) :
                /\ Held \o Sent(tx) = (a \o b) \o c
                /\ Held' \o Sent(tx') = a \o c
    BY <1>7
  <2> DEFINE qa == MessagesIn(traffic, a)
             qb == MessagesIn(traffic, b)
             qc == MessagesIn(traffic, c)
  <2>2. a \o b \in Seq(BytesOf(traffic))
    BY ConcatProperties
  <2>3. MessagesIn(traffic, (a \o b) \o c) = (qa \o qb) \o qc
    <3>1. MessagesIn(traffic, a \o b) = qa \o qb
      BY <1>2, MessagesOfConcat
    <3> DEFINE ab == a \o b
    <3>2. ab \in Seq(BytesOf(traffic))
      BY <2>2
    <3> HIDE DEF ab
    <3>3. MessagesIn(traffic, ab \o c) = MessagesIn(traffic, ab) \o qc
      BY <1>2, <3>2, MessagesOfConcat
    <3> QED
      BY <3>1, <3>3 DEF ab
  <2>4. MessagesIn(traffic, a \o c) = qa \o qc
    BY <1>2, MessagesOfConcat
  <2>5. qa \in Seq(Messages) /\ qb \in Seq(Messages) /\ qc \in Seq(Messages)
    BY <1>2, MessagesInType
  <2> HIDE DEF qa, qb, qc
  <2>6. InFlight = (qa \o qb) \o qc /\ InFlight' = qa \o qc
    BY <1>3, <2>1, <2>3, <2>4
  <2>7. LosesARow(InFlight, InFlight')
    <3> DEFINE q == InFlight
               r == InFlight'
    <3>1. q = (qa \o qb) \o qc /\ r = qa \o qc
      BY <2>6
    <3> HIDE DEF q, r
    <3>2. LosesARow(q, r)
      BY ONLY <2>5, <3>1, LosesInARow
    <3> QED
      BY ONLY <3>2 DEF q, r
  <2>8. Whole' = Whole
    BY <1>1, <1>7, WholeStays
  <2>9. torn' \in BOOLEAN
    BY DEF TypeInv
  <2>10. Channel!Break
    BY <2>7, <2>8, <2>9 DEF Channel!Break, LosesARow
  <2> QED
    BY <1>7, <2>10 DEF Channel!Next
<1>8. CASE ~torn /\ Break
  <2>1. got' = got /\ in' = in
    BY <1>8 DEF Break, rx
  <2>2. Held' = Held
    BY <2>1 DEF Held
  <2>3. tx.wire \in Seq(BytesOf(traffic)) /\ tx.out \in Seq(BytesOf(traffic))
        /\ (Held \o tx.wire) \o tx.out = Held \o Sent(tx)
    BY <1>2, SentFacts
  <2>4. Sent(tx') = tx.out
    <3>1. tx'.wire = << >> /\ tx'.out = tx.out
      BY <1>2, <1>8 DEF Break, SenderOf
    <3> QED
      BY <2>3, <3>1, ConcatEmptySeq DEF Sent
  <2>5. \E a, b, c \in Seq(BytesOf(traffic)) :
                /\ Held \o Sent(tx) = (a \o b) \o c
                /\ Held' \o Sent(tx') = a \o c
    BY <1>2, <2>2, <2>3, <2>4
  <2> QED
    BY <1>7, <1>8, <2>1, <2>5
<1>9. CASE ~torn /\ Read
  <2>1. PICK bytes \in Seq(BytesOf(traffic)) :
           /\ tx.wire = bytes \o tx'.wire /\ tx'.out = tx.out
           /\ Held' = Held \o bytes
    BY <1>9, ReadAdds
  <2>2. torn' = torn /\ got' = got
    BY <1>9 DEF Read
  <2>3. Held' \o Sent(tx') = Held \o Sent(tx)
    <3>1. Sent(tx) = (bytes \o tx'.wire) \o tx'.out
      BY <2>1 DEF Sent
    <3>2. (bytes \o tx'.wire) \o tx'.out = bytes \o Sent(tx')
      BY <1>2, SentFacts
    <3>3. (Held \o bytes) \o Sent(tx') = Held \o (bytes \o Sent(tx'))
      <4> DEFINE B == BytesOf(traffic)
                 h == Held
                 s == Sent(tx')
      <4>1. h \in Seq(B) /\ s \in Seq(B) /\ bytes \in Seq(B)
        BY <1>2, <2>1
      <4> HIDE DEF B, h, s
      <4>2. (h \o bytes) \o s = h \o (bytes \o s)
        BY ONLY <4>1, ConcatAssociative
      <4> QED
        BY <4>2 DEF h, s
    <3> QED
      BY <2>1, <3>1, <3>2, <3>3
  <2> QED
    BY <1>5, <2>2, <2>3
<1>10. CASE ~torn /\ ReceiverReadError
  <2>1. in' = << >> /\ tx' = tx /\ got' = got
    BY <1>10 DEF ReceiverReadError
  <2>2. Held' = << >>
    <3>1. Held' = IF in' = << >> THEN << >> ELSE in'[1]
      BY DEF Held
    <3> QED
      BY <2>1, <3>1
  <2>3. << >> \in Seq(BytesOf(traffic)) /\ << >> \o Held = Held
    BY <1>2, ConcatEmptySeq
  <2>4. \E a, b, c \in Seq(BytesOf(traffic)) :
                /\ Held \o Sent(tx) = (a \o b) \o c
                /\ Held' \o Sent(tx') = a \o c
    BY <1>2, <2>1, <2>2, <2>3
  <2> QED
    BY <1>7, <1>10, <2>1, <2>4
<1>11. CASE ~torn /\ Deliver
  <2>1. torn' = torn /\ tx' = tx
    BY <1>11 DEF Deliver
  <2>2. PICK m \in Messages :
             /\ got' = MessageBytes(traffic, m)
             /\ Len(traffic.chars[m]) > 0
             /\ Held = MessageBytes(traffic, m) \o Held'
    BY <1>11, DeliversFirst
  <2> DEFINE bytes == MessageBytes(traffic, m)
             rest == Held' \o Sent(tx')
  <2>3. bytes \in Seq(BytesOf(traffic)) /\ rest \in Seq(BytesOf(traffic))
    BY <1>2, MessageBytesFacts, ConcatProperties
  <2>4. Held \o Sent(tx) = bytes \o rest
    <3> HIDE DEF bytes
    <3>1. (bytes \o Held') \o Sent(tx) = bytes \o (Held' \o Sent(tx))
      BY SMTT(40), <1>2, <2>3, ConcatAssociative
    <3>2. Held = bytes \o Held'
      BY <2>2 DEF bytes
    <3> QED
      BY <2>1, <3>1, <3>2
  <2>5. /\ MessagesIn(traffic, bytes \o rest) # << >>
        /\ Head(MessagesIn(traffic, bytes \o rest)) = m
        /\ Tail(MessagesIn(traffic, bytes \o rest)) = MessagesIn(traffic, rest)
    <3> HIDE DEF rest
    <3> QED
      BY <1>2, <2>2, <2>3, OneLess
  <2>6. InFlight # << >> /\ Head(InFlight) = m /\ InFlight' = Tail(InFlight)
    <3>1. InFlight = MessagesIn(traffic, bytes \o rest)
      BY <1>3, <2>4
    <3>2. InFlight' = MessagesIn(traffic, rest)
      BY <1>3
    <3> HIDE DEF bytes, rest
    <3> QED
      BY <2>5, <3>1, <3>2
  <2>7. Whole' = m
    <3>1. /\ got' \in Seq(BytesOf(traffic)) /\ Len(got') > 0 /\ got'[1] = <<m, 1>>
      <4>1. Len(traffic.chars[m]) \in Nat /\ 1 \in 1..Len(traffic.chars[m])
        BY <1>2, <2>2, TrafficFacts
      <4> QED
        BY <1>2, <2>2, <4>1, MessageBytesFacts
    <3>2. got' # << >> /\ got'[1][1] = m
      BY <3>1
    <3>3. got' = [i \in DOMAIN traffic'.chars[m] |-> <<m, i>>]
      BY <1>1, <2>2 DEF MessageBytes
    <3> QED
      BY <3>2, <3>3 DEF Whole, Bytes
  <2>8. Channel!Deliver
    BY <2>1, <2>6, <2>7 DEF Channel!Deliver
  <2> QED
    BY <1>11, <2>8 DEF Channel!Next
<1>12. CASE ~torn /\ UNCHANGED vars
  <2>1. torn' = torn /\ got' = got /\ tx' = tx /\ in' = in
    BY <1>12 DEF vars
  <2>2. Held' = Held
    BY <2>1 DEF Held
  <2> QED
    BY <1>5, <2>1, <2>2
<1>13. torn \in BOOLEAN
  BY DEF TypeInv
<1> QED
  BY <1>4, <1>6, <1>8, <1>9, <1>10, <1>11, <1>12, <1>13 DEF Next, ReceiverLoop

(* Whatever the kernel takes at a time and a read returns, the connection  *)
(* is a channel of messages: they arrive whole and in order, and a break   *)
(* loses some in a row.  A message by itself must be found, whole.         *)
THEOREM ConnectionIsAChannel ==
    ASSUME \A t \in Traffics : Framed(t)
    PROVE  Spec => ChannelSpec
<1>1. Init => Channel!Init
  BY ChannelInits
<1>2. TypeInv => Framed(traffic)
  BY DEF TypeInv
<1>3. Init => OrderInv
  <2> SUFFICES ASSUME Init PROVE OrderInv
    OBVIOUS
  <2>1. Held = << >> /\ ~stale
    BY DEF Init, Held
  <2>2. Sent(tx) = << >>
    BY DEF Init, Sent
  <2>3. Unread = << >>
    BY <2>1, <2>2 DEF Unread
  <2> QED
    BY <2>1, <2>3, EmptyIsEntire DEF OrderInv, Entire
<1>4. TypeInv /\ TypeInv' /\ OrderInv /\ [Next]_vars => OrderInv'
  BY <1>2, OrderSteps
<1>5. TypeInv /\ TypeInv' /\ OrderInv /\ [Next]_vars => [Channel!Next]_Channel!vars
  BY <1>2, ChannelSteps
<1>6. Spec => []OrderInv
  BY <1>3, <1>4, AlwaysTypeInv, PTL DEF Spec
<1> QED
  BY <1>1, <1>5, <1>6, AlwaysTypeInv, PTL DEF Spec, ChannelSpec, Channel!Spec
=============================================================================
