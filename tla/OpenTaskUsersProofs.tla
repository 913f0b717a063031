------------------------ MODULE OpenTaskUsersProofs ------------------------
(***************************************************************************)
(* For every number of users and calls: the lists of the opentask in users *)
(* mode lose no user and share none while the operator only adds users,    *)
(* and always hold a user for each call that may be opened.                *)
(***************************************************************************)
EXTENDS OpenTaskUsers, FiniteSetTheorems, SequenceTheorems, TLAPS

(***************************************************************************)
(* Induction over finite sets.  A property is given as the set of the sets *)
(* that have it, so that the principle can be cited: it follows from the   *)
(* fact that the strict inclusion of finite sets is well-founded.          *)
(***************************************************************************)

(* Among the subsets of a finite set, a family that is not empty has one   *)
(* that includes no other.                                                 *)
LEMMA MinimalSet ==
    ASSUME NEW S, IsFiniteSet(S), NEW F \in SUBSET SUBSET S, F # {}
    PROVE  \E T \in F : \A U \in F : U \subseteq T => U = T
<1> DEFINE R == StrictSubsetOrdering(S)
<1>1. IsWellFoundedOn(R, FiniteSubsetsOf(S)) /\ FiniteSubsetsOf(S) = SUBSET S
  BY FS_StrictSubsetOrderingWellFounded, FS_FiniteSubsetsOfFinite
<1>2. PICK T \in F : \A U \in F : <<U, T>> \notin R
  <2> HIDE DEF R
  <2> QED
    BY <1>1, WFMin
<1>3. \A U \in F : U \subseteq T => U = T
  BY <1>2 DEF StrictSubsetOrdering
<1> QED
  BY <1>2, <1>3

(* A finite set is in every family of sets that has the empty set and is   *)
(* closed under adding one element.                                        *)
LEMMA FiniteSetInduction ==
    ASSUME NEW S, IsFiniteSet(S), NEW F, {} \in F,
           \A T \in SUBSET S : \A x \in S \ T : T \in F => T \cup {x} \in F
    PROVE  S \in F
<1> DEFINE Bad == {T \in SUBSET S : T \notin F}
<1>1. SUFFICES ASSUME Bad # {} PROVE FALSE
  OBVIOUS
<1>2. PICK T \in Bad : \A U \in Bad : U \subseteq T => U = T
  <2>1. Bad \in SUBSET SUBSET S
    OBVIOUS
  <2> HIDE DEF Bad
  <2> QED
    BY <1>1, <2>1, MinimalSet
<1>3. PICK x \in T : TRUE
  OBVIOUS
<1>4. T \ {x} \in F
  BY <1>2
<1>5. (T \ {x}) \cup {x} = T
  OBVIOUS
<1> QED
  BY <1>4, <1>5

-----------------------------------------------------------------------------
(***************************************************************************)
(* Sums of functions (SumFunction of module Functions).  The recursion it  *)
(* is defined by takes the arguments in an order that CHOOSE decides; the  *)
(* sum is the number of pairs of an argument and a number below its value, *)
(* in whatever order.                                                      *)
(***************************************************************************)
Units(f, S) == {p \in S \X Nat : p[2] < f[p[1]]}

(* An element adds as many units as its value.                             *)
LEMMA UnitsGrow ==
    ASSUME NEW S, NEW f, \A x \in S : f[x] \in Nat,
           NEW x \in S, IsFiniteSet(Units(f, S \ {x}))
    PROVE  /\ IsFiniteSet(Units(f, S))
           /\ Cardinality(Units(f, S)) = f[x] + Cardinality(Units(f, S \ {x}))
<1> DEFINE C == {x} \X (0..(f[x] - 1))
           U == Units(f, S \ {x})
<1>1. /\ IsFiniteSet({x}) /\ Cardinality({x}) = 1
      /\ IsFiniteSet(0..(f[x] - 1)) /\ Cardinality(0..(f[x] - 1)) = f[x]
  <2>1. f[x] \in Nat /\ 0 \in Int /\ f[x] - 1 \in Int
    OBVIOUS
  <2>2. /\ IsFiniteSet(0..(f[x] - 1))
        /\ Cardinality(0..(f[x] - 1)) = IF 0 > f[x] - 1 THEN 0 ELSE (f[x] - 1) - 0 + 1
    BY <2>1, FS_Interval
  <2>3. Cardinality(0..(f[x] - 1)) = f[x]
    BY <2>1, <2>2
  <2> QED
    BY <2>2, <2>3, FS_Singleton
<1>2. IsFiniteSet(C) /\ Cardinality(C) = f[x]
  BY <1>1, FS_Product
<1>3. C \cap U = {} /\ Units(f, S) = C \cup U
  BY DEF Units
<1>4. Cardinality({}) = 0
  BY FS_EmptySet
<1>5. Cardinality(U) \in Nat /\ f[x] \in Nat
  BY FS_CardinalityType
<1> QED
  <2> HIDE DEF C, U
  <2>1. /\ IsFiniteSet(C \cup U)
        /\ Cardinality(C \cup U) = Cardinality(C) + Cardinality(U) - Cardinality(C \cap U)
    BY <1>2, FS_Union DEF U
  <2>2. Cardinality(C \cap U) = 0
    BY <1>3, <1>4
  <2>3. Cardinality(C \cup U) = f[x] + Cardinality(U) - 0
    BY <1>2, <2>1, <2>2
  <2>4. Cardinality(C \cup U) = f[x] + Cardinality(U)
    BY <1>5, <2>3
  <2> QED
    BY <1>3, <2>1, <2>4 DEF U

(* The units of finitely many elements are finitely many.                  *)
LEMMA UnitsFinite ==
    ASSUME NEW S, IsFiniteSet(S), NEW f, \A x \in S : f[x] \in Nat
    PROVE  IsFiniteSet(Units(f, S))
<1> DEFINE F == {T \in SUBSET S : IsFiniteSet(Units(f, T))}
<1>1. {} \in F
  <2>1. Units(f, {}) = {}
    BY DEF Units
  <2> QED
    BY <2>1, FS_EmptySet
<1>2. ASSUME NEW T \in SUBSET S, NEW x \in S \ T, T \in F
      PROVE  T \cup {x} \in F
  <2>1. (T \cup {x}) \ {x} = T /\ T \cup {x} \in SUBSET S
    OBVIOUS
  <2> QED
    BY <1>2, <2>1, UnitsGrow
<1>3. S \in F
  <2> HIDE DEF F
  <2> QED
    BY <1>1, <1>2, FiniteSetInduction
<1> QED
  BY <1>3

(* The fold behind SumFunctionOnSet counts the units.                      *)
LEMMA SumIsUnits ==
    ASSUME NEW S, IsFiniteSet(S), NEW f, \A x \in S : f[x] \in Nat
    PROVE  SumFunctionOnSet(f, S) = Cardinality(Units(f, S))
<1> DEFINE Rec(iter, s) == IF s = {} THEN 0
                           ELSE LET x == CHOOSE x \in s : TRUE
                                IN  f[x] + iter[s \ {x}]
           iter == CHOOSE i : i = [s \in SUBSET S |-> Rec(i, s)]
           g == [s \in SUBSET S |-> Cardinality(Units(f, s))]
<1>1. \A s \in SUBSET S : g[s] = Rec(g, s)
  <2> SUFFICES ASSUME NEW s \in SUBSET S PROVE g[s] = Rec(g, s)
    OBVIOUS
  <2>1. CASE s = {}
    <3>1. Units(f, {}) = {} /\ Cardinality({}) = 0
      BY FS_EmptySet DEF Units
    <3> QED
      BY <2>1, <3>1
  <2>2. CASE s # {}
    <3> DEFINE x == CHOOSE x \in s : TRUE
    <3>1. x \in s /\ s \ {x} \in SUBSET S
      BY <2>2
    <3>2. IsFiniteSet(Units(f, s \ {x}))
      <4>1. IsFiniteSet(s \ {x})
        BY <3>1, FS_Subset
      <4> QED
        BY <3>1, <4>1, UnitsFinite
    <3>3. Cardinality(Units(f, s)) = f[x] + Cardinality(Units(f, s \ {x}))
      <4> HIDE DEF x
      <4> QED
        BY <3>1, <3>2, UnitsGrow
    <3> QED
      BY <2>2, <3>1, <3>3
  <2> QED
    BY <2>1, <2>2
<1>2. iter = [s \in SUBSET S |-> Rec(iter, s)]
  <2>1. g = [s \in SUBSET S |-> Rec(g, s)]
    BY <1>1
  <2> HIDE DEF g, Rec
  <2> QED
    BY <2>1
<1>3. SumFunctionOnSet(f, S) = iter[S]
  BY DEF SumFunctionOnSet, FoldFunctionOnSet, MapThenFoldSet
<1> DEFINE Bad == {T \in SUBSET S : iter[T] # g[T]}
<1>4. Bad = {}
  <2> SUFFICES ASSUME Bad # {} PROVE FALSE
    OBVIOUS
  <2>1. PICK T \in Bad : \A U \in Bad : U \subseteq T => U = T
    <3>1. Bad \in SUBSET SUBSET S
      OBVIOUS
    <3> HIDE DEF Bad
    <3> QED
      BY <3>1, MinimalSet
  <2>2. T \in SUBSET S /\ iter[T] # g[T]
    OBVIOUS
  <2>3. iter[T] = Rec(iter, T) /\ g[T] = Rec(g, T)
    <3> HIDE DEF iter, g, Rec
    <3> QED
      BY <1>1, <1>2, <2>2
  <2> DEFINE x == CHOOSE x \in T : TRUE
  <2>4. T # {}
    <3> HIDE DEF iter, g
    <3> QED
      BY <2>2, <2>3
  <2>5. x \in T /\ T \ {x} \in SUBSET S /\ T \ {x} # T
    BY <2>2, <2>4
  <2>6. iter[T \ {x}] = g[T \ {x}]
    <3> HIDE DEF iter, g, x
    <3> QED
      BY <2>1, <2>5
  <2> HIDE DEF iter, g
  <2> QED
    BY <2>2, <2>3, <2>6
<1>5. iter[S] = g[S]
  <2> HIDE DEF iter, g
  <2> QED
    BY <1>4
<1> QED
  BY <1>3, <1>5

(* What the sums are used for: one more, one less, nothing.                *)
LEMMA SumOfZeros ==
    ASSUME NEW S, IsFiniteSet(S)
    PROVE  SumFunction([x \in S |-> 0]) = 0
<1> DEFINE f == [x \in S |-> 0]
<1>1. DOMAIN f = S /\ \A x \in S : f[x] \in Nat
  OBVIOUS
<1>2. Units(f, S) = {}
  BY DEF Units
<1> HIDE DEF f
<1> QED
  BY <1>1, <1>2, SumIsUnits, FS_EmptySet DEF SumFunction, f

(* A sum of numbers is a number.                                           *)
LEMMA SumIsNat ==
    ASSUME NEW S, IsFiniteSet(S), NEW f \in [S -> Nat]
    PROVE  SumFunction(f) \in Nat
<1>1. DOMAIN f = S /\ \A x \in S : f[x] \in Nat
  OBVIOUS
<1> QED
  BY <1>1, SumIsUnits, UnitsFinite, FS_CardinalityType DEF SumFunction

(* One of the values, and the units of the others.                         *)
LEMMA SumSplits ==
    ASSUME NEW S, IsFiniteSet(S), NEW f \in [S -> Nat], NEW x \in S
    PROVE  SumFunction(f) = f[x] + Cardinality(Units(f, S \ {x}))
<1>1. DOMAIN f = S /\ \A y \in S : f[y] \in Nat
  OBVIOUS
<1>2. IsFiniteSet(S \ {x})
  BY FS_Subset
<1>3. IsFiniteSet(Units(f, S \ {x}))
  BY <1>1, <1>2, UnitsFinite
<1> QED
  BY <1>1, <1>3, SumIsUnits, UnitsGrow DEF SumFunction

(* A sum in which one value changes, and no value is above the sum.        *)
LEMMA SumOfExcept ==
    ASSUME NEW S, IsFiniteSet(S), NEW f \in [S -> Nat], NEW x \in S, NEW n \in Nat
    PROVE  /\ SumFunction([f EXCEPT ![x] = n]) = SumFunction(f) + n - f[x]
           /\ f[x] <= SumFunction(f)
<1> DEFINE h == [f EXCEPT ![x] = n]
<1>1. h \in [S -> Nat] /\ h[x] = n /\ f[x] \in Nat
  OBVIOUS
<1>2. Units(h, S \ {x}) = Units(f, S \ {x})
  BY DEF Units
<1>3. Cardinality(Units(f, S \ {x})) \in Nat
  <2>1. IsFiniteSet(S \ {x}) /\ \A y \in S \ {x} : f[y] \in Nat
    BY FS_Subset
  <2> QED
    BY <2>1, UnitsFinite, FS_CardinalityType
<1> HIDE DEF h
<1>4. /\ SumFunction(h) = n + Cardinality(Units(f, S \ {x}))
      /\ SumFunction(f) = f[x] + Cardinality(Units(f, S \ {x}))
  BY <1>1, <1>2, SumSplits
<1> QED
  BY <1>1, <1>3, <1>4 DEF h

(* Every element of B adds one to the value of the argument it stands for. *)
Added(f, S, B, t) == [x \in S |-> f[x] + Cardinality({i \in B : t[i] = x})]

(* The sum grows by as many elements as are added.                         *)
LEMMA SumOfAdded ==
    ASSUME NEW S, IsFiniteSet(S), NEW f \in [S -> Nat],
           NEW B, IsFiniteSet(B), NEW t, \A i \in B : t[i] \in S
    PROVE  /\ Added(f, S, B, t) \in [S -> Nat]
           /\ SumFunction(Added(f, S, B, t)) = SumFunction(f) + Cardinality(B)
<1> DEFINE G(T) == [x \in S |-> f[x] + Cardinality({i \in T : t[i] = x})]
           F == {T \in SUBSET B : /\ G(T) \in [S -> Nat]
                                  /\ SumFunction(G(T)) = SumFunction(f) + Cardinality(T)}
<1>1. {} \in F
  <2>1. \A x \in S : {i \in {} : t[i] = x} = {}
    OBVIOUS
  <2>2. Cardinality({}) = 0
    BY FS_EmptySet
  <2>3. G({}) = [x \in S |-> f[x] + Cardinality({})]
    BY <2>1
  <2>4. G({}) = f
    BY <2>2, <2>3
  <2>5. SumFunction(f) \in Nat
    BY SumIsNat
  <2> HIDE DEF G
  <2> QED
    BY <2>2, <2>4, <2>5
<1>2. ASSUME NEW T \in SUBSET B, NEW i \in B \ T, T \in F
      PROVE  T \cup {i} \in F
  <2> DEFINE h == G(T)
  <2>1. IsFiniteSet(T) /\ Cardinality(T) \in Nat /\ Cardinality(T \cup {i}) = Cardinality(T) + 1
    BY FS_Subset, FS_AddElement, FS_CardinalityType
  <2>2. h \in [S -> Nat] /\ SumFunction(h) = SumFunction(f) + Cardinality(T) /\ t[i] \in S
    BY <1>2
  <2>3. ASSUME NEW x \in S
        PROVE  Cardinality({j \in T \cup {i} : t[j] = x})
                 = Cardinality({j \in T : t[j] = x}) + (IF x = t[i] THEN 1 ELSE 0)
    <3>1. IsFiniteSet({j \in T : t[j] = x}) /\ Cardinality({j \in T : t[j] = x}) \in Nat
      BY <2>1, FS_Subset, FS_CardinalityType
    <3>2. CASE x = t[i]
      <4>1. {j \in T \cup {i} : t[j] = x} = {j \in T : t[j] = x} \cup {i}
        BY <3>2
      <4>2. i \notin {j \in T : t[j] = x}
        OBVIOUS
      <4> QED
        BY <3>1, <3>2, <4>1, <4>2, FS_AddElement
    <3>3. CASE x # t[i]
      <4>1. {j \in T \cup {i} : t[j] = x} = {j \in T : t[j] = x}
        BY <3>3
      <4> QED
        BY <3>1, <3>3, <4>1
    <3> QED
      BY <3>2, <3>3
  <2>4. G(T \cup {i}) = [h EXCEPT ![t[i]] = h[t[i]] + 1]
    <3>1. \A x \in S : Cardinality({j \in T : t[j] = x}) \in Nat
      BY <2>1, FS_Subset, FS_CardinalityType
    <3>2. ASSUME NEW x \in S
          PROVE  f[x] + Cardinality({j \in T \cup {i} : t[j] = x})
                   = IF x = t[i] THEN h[t[i]] + 1 ELSE h[x]
      BY <2>3, <3>1, <3>2
    <3> QED
      BY <2>2, <3>2
  <2>5. h[t[i]] \in Nat /\ SumFunction(f) \in Nat
    BY <2>2, SumIsNat
  <2>6. /\ [h EXCEPT ![t[i]] = h[t[i]] + 1] \in [S -> Nat]
        /\ SumFunction([h EXCEPT ![t[i]] = h[t[i]] + 1])
             = SumFunction(h) + (h[t[i]] + 1) - h[t[i]]
    <3>1. h[t[i]] + 1 \in Nat
      BY <2>5
    <3> HIDE DEF h
    <3> QED
      BY <2>2, <3>1, SumOfExcept
  <2>7. SumFunction(h) + (h[t[i]] + 1) - h[t[i]] = SumFunction(f) + (Cardinality(T) + 1)
    <3> HIDE DEF h
    <3> QED
      BY <2>1, <2>2, <2>5
  <2>8. SumFunction(G(T \cup {i})) = SumFunction(f) + Cardinality(T \cup {i})
    <3> HIDE DEF h, G
    <3> QED
      BY <2>1, <2>4, <2>6, <2>7
  <2>9. G(T \cup {i}) \in [S -> Nat]
    <3> HIDE DEF h, G
    <3> QED
      BY <2>4, <2>6
  <2> HIDE DEF G
  <2> QED
    BY <2>8, <2>9
<1>3. B \in F
  <2> HIDE DEF F
  <2> QED
    BY <1>1, <1>2, FiniteSetInduction
<1> QED
  BY <1>3 DEF Added

-----------------------------------------------------------------------------
(***************************************************************************)
(* How often a user is in a list.                                          *)
(***************************************************************************)
LEMMA CountIsNat ==
    ASSUME NEW S, NEW s \in Seq(S), NEW u
    PROVE  IsFiniteSet({i \in DOMAIN s : s[i] = u}) /\ CountIn(s, u) \in Nat
<1>1. IsFiniteSet(1..Len(s)) /\ DOMAIN s = 1..Len(s)
  BY LenProperties, FS_Interval
<1>2. {i \in DOMAIN s : s[i] = u} \in SUBSET (1..Len(s))
  BY <1>1
<1> QED
  BY <1>1, <1>2, FS_Subset, FS_CardinalityType DEF CountIn

(* A user is in two lists as often as in each.                             *)
LEMMA CountConcat ==
    ASSUME NEW S, NEW s \in Seq(S), NEW t \in Seq(S), NEW u
    PROVE  CountIn(s \o t, u) = CountIn(s, u) + CountIn(t, u)
<1> DEFINE A == {i \in DOMAIN s : s[i] = u}
           B == {i \in DOMAIN t : t[i] = u}
           C == {i \in DOMAIN (s \o t) : (s \o t)[i] = u}
           D == {i \in Len(s)+1..Len(s)+Len(t) : t[i - Len(s)] = u}
<1>1. /\ Len(s) \in Nat /\ DOMAIN s = 1..Len(s)
      /\ Len(t) \in Nat /\ DOMAIN t = 1..Len(t)
      /\ DOMAIN (s \o t) = 1..Len(s) + Len(t)
      /\ \A i \in 1..Len(s) + Len(t) :
           (s \o t)[i] = IF i <= Len(s) THEN s[i] ELSE t[i - Len(s)]
  <2>1. s \o t \in Seq(S) /\ Len(s \o t) = Len(s) + Len(t)
    BY ConcatProperties
  <2>2. DOMAIN (s \o t) = 1..Len(s \o t)
    BY <2>1, LenProperties
  <2> QED
    BY <2>1, <2>2, LenProperties, ConcatProperties
<1>2. C = A \cup D
  <2>1. \A i \in A : i \in C
    BY <1>1
  <2>2. \A i \in D : i \in C
    BY <1>1
  <2>3. ASSUME NEW i \in C
        PROVE  i \in A \/ i \in D
    <3>1. CASE i <= Len(s)
      BY <1>1, <3>1
    <3>2. CASE ~(i <= Len(s))
      BY <1>1, <3>2
    <3> QED
      BY <3>1, <3>2
  <2> QED
    BY <2>1, <2>2, <2>3
<1>3. A \cap D = {}
  BY <1>1
<1>4. IsFiniteSet(A) /\ IsFiniteSet(B)
  BY CountIsNat
<1>5. IsFiniteSet(D) /\ Cardinality(D) = Cardinality(B)
  <2> DEFINE f == [i \in B |-> i + Len(s)]
  <2>1. f \in Bijection(B, D)
    <3>1. \A i \in B : i + Len(s) \in D
      BY <1>1
    <3>2. \A i, j \in B : i + Len(s) = j + Len(s) => i = j
      BY <1>1
    <3>3. ASSUME NEW d \in D
          PROVE  \E i \in B : d = i + Len(s)
      <4>1. d - Len(s) \in B /\ d = (d - Len(s)) + Len(s)
        BY <1>1
      <4> QED
        BY <4>1
    <3> HIDE DEF B, D
    <3> QED
      BY <3>1, <3>2, <3>3 DEF Bijection, Injection, Surjection, IsInjective
  <2> HIDE DEF f, B, D
  <2> QED
    BY <1>4, <2>1, FS_Bijection DEF ExistsBijection
<1> HIDE DEF A, B, C, D
<1>6. Cardinality(C) = Cardinality(A) + Cardinality(D)
  <2>1. Cardinality(A \cap D) = 0
    BY <1>3, FS_EmptySet
  <2>2. Cardinality(A) \in Nat /\ Cardinality(D) \in Nat
    BY <1>4, <1>5, FS_CardinalityType
  <2>3. Cardinality(C) = Cardinality(A) + Cardinality(D) - Cardinality(A \cap D)
    BY <1>2, <1>4, <1>5, FS_Union
  <2>4. Cardinality(C) = Cardinality(A) + Cardinality(D) - 0
    BY <2>1, <2>3
  <2> QED
    BY <2>2, <2>4
<1> QED
  BY <1>5, <1>6 DEF CountIn, A, B, C

(* Nobody is in an empty list.                                             *)
LEMMA CountOfEmpty == \A u : CountIn(<<>>, u) = 0
<1> SUFFICES ASSUME NEW u PROVE CountIn(<<>>, u) = 0
  OBVIOUS
<1>1. {i \in DOMAIN <<>> : <<>>[i] = u} = {}
  OBVIOUS
<1> QED
  BY <1>1, FS_EmptySet DEF CountIn

(* push_front() adds one user.                                             *)
LEMMA CountPushed ==
    ASSUME NEW S, NEW s \in Seq(S), NEW v \in S, NEW u
    PROVE  CountIn(<<v>> \o s, u) = CountIn(s, u) + (IF u = v THEN 1 ELSE 0)
<1>1. CountIn(<<v>>, u) = IF u = v THEN 1 ELSE 0
  <2>1. CASE u = v
    <3>1. {i \in DOMAIN <<v>> : <<v>>[i] = u} = {1}
      BY <2>1
    <3> QED
      BY <2>1, <3>1, FS_Singleton DEF CountIn
  <2>2. CASE u # v
    <3>1. {i \in DOMAIN <<v>> : <<v>>[i] = u} = {}
      BY <2>2
    <3> QED
      BY <2>2, <3>1, FS_EmptySet DEF CountIn
  <2> QED
    BY <2>1, <2>2
<1>2. <<v>> \in Seq(S)
  OBVIOUS
<1>3. CountIn(<<v>> \o s, u) = CountIn(<<v>>, u) + CountIn(s, u)
  BY <1>2, CountConcat
<1>4. CountIn(s, u) \in Nat
  BY CountIsNat
<1>5. CASE u = v
  BY <1>1, <1>3, <1>4, <1>5
<1>6. CASE u # v
  BY <1>1, <1>3, <1>4, <1>6
<1> QED
  BY <1>5, <1>6

(* A list that counts from a + 1 up to a + m, or down, has each of these   *)
(* numbers once.                                                           *)
Steps(s, a, m) == /\ DOMAIN s = 1..m
                  /\ \/ \A i \in 1..m : s[i] = a + i
                     \/ \A i \in 1..m : s[i] = a + m - i + 1

(* A run of numbers holds each of them once.                               *)
LEMMA CountOfSteps ==
    ASSUME NEW a \in Nat, NEW m \in Nat, NEW s, Steps(s, a, m), NEW u \in Nat
    PROVE  CountIn(s, u) = IF u \in a+1..a+m THEN 1 ELSE 0
<1> USE DEF Steps
<1>1. CASE u \in a+1..a+m
  <2>1. \E j \in 1..m : {i \in DOMAIN s : s[i] = u} = {j}
    <3>1. CASE \A i \in 1..m : s[i] = a + i
      <4>1. {i \in DOMAIN s : s[i] = u} = {u - a}
        BY <1>1, <3>1
      <4> QED
        BY <1>1, <4>1
    <3>2. CASE \A i \in 1..m : s[i] = a + m - i + 1
      <4>1. {i \in DOMAIN s : s[i] = u} = {a + m + 1 - u}
        BY <1>1, <3>2
      <4> QED
        BY <1>1, <4>1
    <3> QED
      BY <3>1, <3>2
  <2> QED
    BY <1>1, <2>1, FS_Singleton DEF CountIn
<1>2. CASE u \notin a+1..a+m
  <2>1. {i \in DOMAIN s : s[i] = u} = {}
    BY <1>2
  <2> QED
    BY <1>2, <2>1, FS_EmptySet DEF CountIn
<1> QED
  BY <1>1, <1>2

-----------------------------------------------------------------------------
(***************************************************************************)
(* The invariant.  While the operator has not lowered users, no user is    *)
(* put aside, because no more calls are open than there are users: so the  *)
(* users that are added are new.                                           *)
(***************************************************************************)
NobodyRetires == ~lowered => retiredUsers = <<>> /\ current_calls <= users

CountsActive == SumFunction(active) = current_calls

IInv == TypeOK /\ CountsActive /\ PoolSufficient /\ NobodyRetires /\ UserOnce

(* There are finitely many users.                                          *)
LEMMA UserIdFinite == IsFiniteSet(UserId)
  BY FS_Interval, UsersAssumption DEF UserId

(* The users that are counted: the call that ends was counted as open.     *)
LEMMA OneCallLess ==
    ASSUME NEW f \in [UserId -> Nat], NEW u \in UserId, f[u] > 0
    PROVE  /\ [f EXCEPT ![u] = @ - 1] \in [UserId -> Nat]
           /\ SumFunction(f) \in Nat /\ SumFunction(f) > 0
           /\ SumFunction([f EXCEPT ![u] = @ - 1]) = SumFunction(f) - 1
<1>1. f[u] \in Nat /\ f[u] - 1 \in Nat
  OBVIOUS
<1>2. SumFunction(f) \in Nat
  BY UserIdFinite, SumIsNat
<1>3. /\ SumFunction([f EXCEPT ![u] = f[u] - 1]) = SumFunction(f) + (f[u] - 1) - f[u]
      /\ f[u] <= SumFunction(f)
  BY <1>1, UserIdFinite, SumOfExcept
<1> QED
  BY <1>1, <1>2, <1>3

(* freeUser(): the user is in one of the lists again, and in the free one  *)
(* when no user is retired before.                                         *)
LEMMA FreedUser ==
    ASSUME TypeOK, NEW u \in UserId, NEW n \in Nat, freeUser(u, n)
    PROVE  /\ freeUsers' \in Seq(UserId) /\ retiredUsers' \in Seq(UserId)
           /\ running' \in BOOLEAN /\ (running' => instance)
           /\ n <= users =>
                /\ Len(freeUsers') = Len(freeUsers) + 1
                /\ retiredUsers' = retiredUsers
                /\ \A v \in UserId : CountIn(freeUsers', v)
                     = CountIn(freeUsers, v) + (IF v = u THEN 1 ELSE 0)
           /\ n > users => freeUsers' = freeUsers
<1>1. users \in Nat /\ freeUsers \in Seq(UserId) /\ retiredUsers \in Seq(UserId)
  BY UsersAssumption DEF TypeOK
<1>2. CASE n > users
  <2>1. <<u>> \o retiredUsers \in Seq(UserId)
    BY <1>1, ConcatProperties
  <2>2. /\ retiredUsers' = <<u>> \o retiredUsers
        /\ freeUsers' = freeUsers /\ running' = running
    BY <1>2 DEF freeUser
  <2>3. running' \in BOOLEAN /\ (running' => instance)
    BY <2>2 DEF TypeOK
  <2> QED
    BY <1>1, <1>2, <2>1, <2>2, <2>3
<1>3. CASE ~(n > users)
  <2>1. <<u>> \o freeUsers \in Seq(UserId) /\ Len(<<u>> \o freeUsers) = Len(freeUsers) + 1
    <3>1. <<u>> \in Seq(UserId) /\ Len(<<u>>) = 1
      OBVIOUS
    <3> QED
      BY <1>1, <3>1, ConcatProperties, LenProperties
  <2>2. \A v \in UserId : CountIn(<<u>> \o freeUsers, v)
                            = CountIn(freeUsers, v) + (IF v = u THEN 1 ELSE 0)
    BY <1>1, CountPushed
  <2>3. freeUsers' = <<u>> \o freeUsers /\ retiredUsers' = retiredUsers /\ running' = instance
    BY <1>3 DEF freeUser
  <2>4. running' \in BOOLEAN /\ (running' => instance)
    BY <2>3 DEF TypeOK
  <2> QED
    BY <1>1, <1>3, <2>1, <2>2, <2>3, <2>4
<1> QED
  BY <1>2, <1>3

(* The invariant holds when the test starts.                               *)
LEMMA InitIInv == Init => IInv
<1> SUFFICES ASSUME Init PROVE IInv
  OBVIOUS
<1>1. MaxUsers \in Nat /\ StartUsers \in Nat /\ StartUsers <= MaxUsers /\ StopAfter \in Nat
  BY UsersAssumption
<1>2. freeUsers \in Seq(UserId) /\ Len(freeUsers) = StartUsers /\ DOMAIN freeUsers = 1..StartUsers
  <2>1. \A i \in 1..StartUsers : i \in UserId
    BY <1>1 DEF UserId
  <2>2. freeUsers \in [1..StartUsers -> UserId]
    BY <2>1 DEF Init
  <2>3. freeUsers \in Seq(UserId)
    BY <1>1, <2>2, SeqDef
  <2> QED
    BY <1>1, <2>2, <2>3, LenProperties
<1>3. TypeOK
  <2>1. active \in [UserId -> Nat] /\ zombies \in [UserId -> Nat]
    BY DEF Init
  <2>2. users \in 0..MaxUsers /\ current_calls \in Nat /\ total_calls \in 0..StopAfter
    BY <1>1 DEF Init
  <2>3. retiredUsers \in Seq(UserId)
    BY EmptySeq DEF Init
  <2>4. /\ lowered \in BOOLEAN /\ paused \in BOOLEAN /\ running \in BOOLEAN
        /\ instance \in BOOLEAN /\ quitting \in BOOLEAN /\ undefined \in BOOLEAN
        /\ running => instance
    BY DEF Init
  <2> QED
    BY <1>2, <2>1, <2>2, <2>3, <2>4 DEF TypeOK
<1>4. SumFunction(active) = 0 /\ SumFunction(zombies) = 0
  BY UserIdFinite, SumOfZeros DEF Init
<1>5. CountsActive /\ PoolSufficient /\ NobodyRetires
  BY <1>1, <1>2, <1>4 DEF Init, CountsActive, PoolSufficient, Zombies, NobodyRetires
<1>6. UserOnce
  <2>1. ASSUME NEW u \in UserId
        PROVE  Places(u) = IF u \in 1..StartUsers THEN 1 ELSE 0
    <3>1. u \in Nat
      BY <1>1 DEF UserId
    <3>2. PICK a \in Nat : a = 0
      OBVIOUS
    <3>3. \A i \in 1..StartUsers : freeUsers[i] = a + i
      BY <1>1, <3>2 DEF Init
    <3>4. CountIn(freeUsers, u) = IF u \in a+1..a+StartUsers THEN 1 ELSE 0
      <4>1. Steps(freeUsers, a, StartUsers)
        BY <1>2, <3>3 DEF Steps
      <4> QED
        BY <1>1, <3>1, <4>1, CountOfSteps
    <3>5. CountIn(retiredUsers, u) = 0 /\ active[u] = 0 /\ zombies[u] = 0
      BY CountOfEmpty DEF Init
    <3> QED
      BY <1>1, <3>2, <3>4, <3>5 DEF Places
  <2>2. users = StartUsers
    BY DEF Init
  <2>3. ASSUME NEW u \in 1..users
        PROVE  Places(u) = 1
    BY <1>1, <2>1, <2>2 DEF UserId
  <2>4. ASSUME NEW u \in users+1..MaxUsers
        PROVE  Places(u) = 0
    BY <1>1, <2>1, <2>2 DEF UserId
  <2> QED
    BY <2>3, <2>4 DEF UserOnce
<1> QED
  BY <1>3, <1>5, <1>6 DEF IInv

-----------------------------------------------------------------------------
(***************************************************************************)
(* run() opens calls.                                                      *)
(***************************************************************************)
(* What is taken from the free list, and what stays.                       *)
LEMMA TakenUsers ==
    ASSUME freeUsers \in Seq(UserId), NEW k \in 0..Len(freeUsers)
    PROVE  /\ Taken(k) \in Seq(UserId) /\ DOMAIN Taken(k) = 1..k
           /\ SubSeq(freeUsers, 1, Len(freeUsers) - k) \in Seq(UserId)
           /\ Len(SubSeq(freeUsers, 1, Len(freeUsers) - k)) = Len(freeUsers) - k
           /\ \A u \in UserId :
                CountIn(freeUsers, u)
                  = CountIn(SubSeq(freeUsers, 1, Len(freeUsers) - k), u)
                      + CountIn(Taken(k), u)
<1> DEFINE L == Len(freeUsers)
           front == SubSeq(freeUsers, 1, L - k)
<1>1. L \in Nat /\ k \in Nat /\ k <= L /\ \A i \in 1..L : freeUsers[i] \in UserId
  BY LenProperties, ElementOfSeq
<1>2. /\ front \in Seq(UserId)
      /\ Len(front) = IF 1 <= L - k THEN (L - k) - 1 + 1 ELSE 0
  <2>1. \A i \in 1..L - k : freeUsers[i] \in UserId
    BY <1>1
  <2>2. 1 \in Int /\ L - k \in Int
    BY <1>1
  <2> QED
    BY <2>1, <2>2, SubSeqProperties
<1>3. Len(front) = L - k
  BY <1>1, <1>2
<1>4. /\ Taken(k) \in Seq(UserId)
      /\ Len(Taken(k)) = IF L - k + 1 <= L THEN L - (L - k + 1) + 1 ELSE 0
  <2>1. \A i \in L - k + 1..L : freeUsers[i] \in UserId
    BY <1>1
  <2>2. L - k + 1 \in Int /\ L \in Int
    BY <1>1
  <2> QED
    BY <2>1, <2>2, SubSeqProperties DEF Taken
<1>5. Len(Taken(k)) = k
  BY <1>1, <1>4
<1>6. DOMAIN Taken(k) = 1..k
  BY <1>4, <1>5, LenProperties
<1>7. front \o Taken(k) = freeUsers
  <2>1. L - k \in 1-1..L /\ L \in L - k..L /\ 1 \in 1..L+1
    BY <1>1
  <2>2. SubSeq(freeUsers, 1, L - k) \o SubSeq(freeUsers, L - k + 1, L)
          = SubSeq(freeUsers, 1, L)
    BY <2>1, ConcatAdjacentSubSeq
  <2> QED
    BY <2>2, SubSeqFull DEF Taken
<1>8. \A u \in UserId : CountIn(front \o Taken(k), u)
                            = CountIn(front, u) + CountIn(Taken(k), u)
  <2> HIDE DEF front
  <2> QED
    BY <1>2, <1>4, CountConcat
<1> QED
  BY <1>2, <1>3, <1>4, <1>6, <1>7, <1>8

(* The users that were taken are in calls or in zombies.                   *)
LEMMA TakenAreCounted ==
    ASSUME NEW s \in Seq(UserId), NEW busy \in SUBSET (DOMAIN s), NEW u
    PROVE  /\ Cardinality({i \in DOMAIN s \ busy : s[i] = u}) \in Nat
           /\ Cardinality({i \in busy : s[i] = u}) \in Nat
           /\ CountIn(s, u) = Cardinality({i \in DOMAIN s \ busy : s[i] = u})
                                + Cardinality({i \in busy : s[i] = u})
<1> DEFINE A == {i \in DOMAIN s \ busy : s[i] = u}
           B == {i \in busy : s[i] = u}
           C == {i \in DOMAIN s : s[i] = u}
<1>1. IsFiniteSet(C) /\ A \in SUBSET C /\ B \in SUBSET C
  BY CountIsNat
<1>2. C = A \cup B /\ A \cap B = {}
  OBVIOUS
<1> HIDE DEF A, B, C
<1>3. /\ IsFiniteSet(A) /\ Cardinality(A) \in Nat
      /\ IsFiniteSet(B) /\ Cardinality(B) \in Nat
  BY <1>1, FS_Subset, FS_CardinalityType
<1>4. Cardinality(C) = Cardinality(A) + Cardinality(B)
  <2>1. Cardinality(A \cap B) = 0
    BY <1>2, FS_EmptySet
  <2>2. Cardinality(C) = Cardinality(A) + Cardinality(B) - 0
    BY <1>2, <1>3, <2>1, FS_Union
  <2> QED
    BY <1>3, <2>2
<1> QED
  BY <1>3, <1>4 DEF A, B, C, CountIn

(* run() takes users from the list and opens their calls, or fails to.     *)
LEMMA RunOpensKeeps ==
    ASSUME IInv, NEW k, NEW busy, RunOpens(k, busy), UNCHANGED undefined
    PROVE  IInv'
<1> DEFINE taken == Taken(k)
           opened == DOMAIN taken \ busy
<1>1. /\ users \in Nat /\ current_calls \in Nat /\ total_calls \in Nat
      /\ StopAfter \in Nat /\ total_calls <= StopAfter
      /\ freeUsers \in Seq(UserId) /\ Len(freeUsers) \in Nat
      /\ active \in [UserId -> Nat] /\ zombies \in [UserId -> Nat]
  BY UsersAssumption, LenProperties DEF IInv, TypeOK
<1>2. /\ k \in Nat /\ k <= calls_to_open /\ k \in 0..Len(freeUsers)
      /\ k > 0 => k <= users - current_calls /\ k <= StopAfter - total_calls
  BY <1>1 DEF RunOpens, calls_to_open, AtLeast0, AtMost
<1>3. /\ taken \in Seq(UserId) /\ DOMAIN taken = 1..k
      /\ freeUsers' \in Seq(UserId) /\ Len(freeUsers') = Len(freeUsers) - k
      /\ \A u \in UserId : CountIn(freeUsers, u)
           = CountIn(freeUsers', u) + CountIn(taken, u)
  BY <1>1, <1>2, TakenUsers DEF RunOpens
<1>4. /\ busy \in SUBSET (DOMAIN taken)
      /\ active' = [u \in UserId |->
           active[u] + Cardinality({i \in opened : taken[i] = u})]
      /\ zombies' = [u \in UserId |->
           zombies[u] + Cardinality({i \in busy : taken[i] = u})]
  BY DEF RunOpens
<1>5. /\ IsFiniteSet(busy) /\ Cardinality(busy) \in Nat /\ Cardinality(busy) <= k
      /\ IsFiniteSet(opened) /\ Cardinality(opened) = k - Cardinality(busy)
  <2>1. IsFiniteSet(1..k) /\ Cardinality(1..k) = k
    <3>1. /\ IsFiniteSet(1..k)
          /\ Cardinality(1..k) = IF 1 > k THEN 0 ELSE k - 1 + 1
      BY <1>2, FS_Interval
    <3> QED
      BY <1>2, <3>1
  <2>2. /\ IsFiniteSet(busy) /\ Cardinality(busy) \in Nat /\ Cardinality(busy) <= k
    BY <1>3, <1>4, <2>1, FS_Subset, FS_CardinalityType
  <2>3. (1..k) \cap busy = busy /\ opened = (1..k) \ busy
    BY <1>3, <1>4
  <2>4. /\ IsFiniteSet((1..k) \ busy)
        /\ Cardinality((1..k) \ busy) = Cardinality(1..k) - Cardinality((1..k) \cap busy)
    BY <2>1, FS_Difference
  <2>5. IsFiniteSet(opened) /\ Cardinality(opened) = k - Cardinality(busy)
    <3> HIDE DEF opened
    <3> QED
      BY <2>1, <2>3, <2>4
  <2> QED
    BY <2>2, <2>5
<1>6. \A i \in DOMAIN taken : taken[i] \in UserId
  <2> HIDE DEF taken
  <2> QED
    BY <1>3, ElementOfSeq, LenProperties
<1>7. /\ active' \in [UserId -> Nat]
      /\ SumFunction(active') = SumFunction(active) + Cardinality(opened)
  <2>1. \A i \in opened : taken[i] \in UserId
    BY <1>6
  <2>2. active' = Added(active, UserId, opened, taken)
    BY <1>4 DEF Added
  <2> HIDE DEF taken, opened
  <2> QED
    BY <1>1, <1>5, <2>1, <2>2, UserIdFinite, SumOfAdded
<1>8. /\ zombies' \in [UserId -> Nat]
      /\ SumFunction(zombies') = SumFunction(zombies) + Cardinality(busy)
  <2>1. \A i \in busy : taken[i] \in UserId
    BY <1>4, <1>6
  <2>2. zombies' = Added(zombies, UserId, busy, taken)
    BY <1>4 DEF Added
  <2> HIDE DEF taken, opened
  <2> QED
    BY <1>1, <1>5, <2>1, <2>2, UserIdFinite, SumOfAdded
<1>9. SumFunction(active) \in Nat /\ SumFunction(zombies) \in Nat
  BY <1>1, UserIdFinite, SumIsNat
<1>10. /\ current_calls' = current_calls + k - Cardinality(busy)
       /\ total_calls' = total_calls + k
       /\ UNCHANGED <<users, lowered, retiredUsers, paused, instance>>
  BY DEF RunOpens
<1>11. TypeOK'
  <2>1. current_calls' \in Nat /\ total_calls' \in 0..StopAfter
    BY <1>1, <1>2, <1>5, <1>10
  <2>2. /\ lowered' \in BOOLEAN /\ paused' \in BOOLEAN /\ running' \in BOOLEAN
        /\ instance' \in BOOLEAN /\ quitting' \in BOOLEAN /\ undefined' \in BOOLEAN
        /\ running' => instance'
    BY DEF IInv, TypeOK, RunOpens, StaysRunning
  <2>3. users' \in 0..MaxUsers /\ retiredUsers' \in Seq(UserId)
    BY <1>10 DEF IInv, TypeOK
  <2> QED
    BY <1>3, <1>7, <1>8, <2>1, <2>2, <2>3 DEF TypeOK
<1>12. CountsActive'
  BY <1>1, <1>2, <1>5, <1>7, <1>9, <1>10 DEF IInv, CountsActive
<1>13. PoolSufficient'
  BY SMTT(40), <1>1, <1>2, <1>3, <1>5, <1>8, <1>9, <1>10 DEF IInv, PoolSufficient, Zombies
<1>14. NobodyRetires'
  BY <1>1, <1>2, <1>5, <1>10 DEF IInv, NobodyRetires
<1>15. \A u \in UserId : Places(u)' = Places(u)
  <2> SUFFICES ASSUME NEW u \in UserId PROVE Places(u)' = Places(u)
    OBVIOUS
  <2>1. /\ CountIn(freeUsers, u) = CountIn(freeUsers', u) + CountIn(taken, u)
        /\ CountIn(retiredUsers', u) = CountIn(retiredUsers, u)
    BY <1>3, <1>10
  <2>2. /\ CountIn(freeUsers', u) \in Nat /\ CountIn(taken, u) \in Nat
        /\ CountIn(retiredUsers, u) \in Nat
        /\ active[u] \in Nat /\ zombies[u] \in Nat
    <3>1. retiredUsers \in Seq(UserId)
      BY DEF IInv, TypeOK
    <3> HIDE DEF taken
    <3> QED
      BY <1>1, <1>3, <3>1, CountIsNat
  <2>3. /\ Cardinality({i \in opened : taken[i] = u}) \in Nat
        /\ Cardinality({i \in busy : taken[i] = u}) \in Nat
        /\ CountIn(taken, u) = Cardinality({i \in opened : taken[i] = u})
                                + Cardinality({i \in busy : taken[i] = u})
    <3> HIDE DEF taken
    <3> QED
      BY <1>3, <1>4, TakenAreCounted
  <2>4. /\ active'[u] = active[u] + Cardinality({i \in opened : taken[i] = u})
        /\ zombies'[u] = zombies[u] + Cardinality({i \in busy : taken[i] = u})
    BY <1>4
  <2> HIDE DEF taken, opened
  <2> QED
    BY <2>1, <2>2, <2>3, <2>4 DEF Places
<1>16. UserOnce'
  <2>1. 1..users \subseteq UserId /\ users+1..MaxUsers \subseteq UserId
    BY UsersAssumption DEF IInv, TypeOK, UserId
  <2> QED
    BY <1>10, <1>15, <2>1 DEF IInv, UserOnce
<1> QED
  BY <1>11, <1>12, <1>13, <1>14, <1>16 DEF IInv

-----------------------------------------------------------------------------
(***************************************************************************)
(* Calls and zombies give their users back.                                *)
(***************************************************************************)
LEMMA UserNumbers ==
    ASSUME TypeOK
    PROVE  /\ users \in Nat /\ current_calls \in Nat /\ total_calls \in Nat
           /\ Len(freeUsers) \in Nat
           /\ SumFunction(active) \in Nat /\ SumFunction(zombies) \in Nat
           /\ 1..users \subseteq UserId /\ users+1..MaxUsers \subseteq UserId
           /\ \A u \in UserId : /\ active[u] \in Nat /\ zombies[u] \in Nat
                                /\ CountIn(freeUsers, u) \in Nat
                                /\ CountIn(retiredUsers, u) \in Nat
<1>1. SumFunction(active) \in Nat /\ SumFunction(zombies) \in Nat
  BY UserIdFinite, SumIsNat DEF TypeOK
<1>2. \A u \in UserId : /\ CountIn(freeUsers, u) \in Nat
                         /\ CountIn(retiredUsers, u) \in Nat
  BY CountIsNat DEF TypeOK
<1>3. Len(freeUsers) \in Nat
  BY LenProperties DEF TypeOK
<1> QED
  BY <1>1, <1>2, <1>3, UsersAssumption DEF TypeOK, UserId

(* ~call() gives the user back.                                            *)
LEMMA CallEndsKeeps ==
    ASSUME IInv, NEW u \in UserId, CallEnds(u), UNCHANGED undefined
    PROVE  IInv'
<1>1. TypeOK
  BY DEF IInv
<1>2. /\ active' \in [UserId -> Nat]
      /\ SumFunction(active) > 0
      /\ SumFunction(active') = SumFunction(active) - 1
  BY <1>1, OneCallLess DEF CallEnds, TypeOK
<1>3. /\ current_calls - 1 \in Nat /\ current_calls' = current_calls - 1
      /\ freeUser(u, current_calls - 1)
      /\ UNCHANGED <<users, lowered, zombies, total_calls, paused, instance, quitting>>
  BY <1>1, <1>2, UserNumbers DEF CallEnds, IInv, CountsActive
<1>4. /\ freeUsers' \in Seq(UserId) /\ retiredUsers' \in Seq(UserId)
      /\ running' \in BOOLEAN /\ (running' => instance)
  BY <1>1, <1>3, FreedUser
<1>5. TypeOK'
  <2>1. /\ users' \in 0..MaxUsers /\ lowered' \in BOOLEAN
        /\ zombies' \in [UserId -> Nat] /\ total_calls' \in 0..StopAfter
        /\ paused' \in BOOLEAN /\ instance' = instance /\ instance' \in BOOLEAN
        /\ quitting' \in BOOLEAN /\ undefined' \in BOOLEAN
    BY <1>1, <1>3 DEF TypeOK
  <2> QED
    BY <1>2, <1>3, <1>4, <2>1 DEF TypeOK
<1>6. CountsActive'
  BY <1>2, <1>3 DEF IInv, CountsActive
<1>7. CASE current_calls - 1 <= users
  <2>1. /\ Len(freeUsers') = Len(freeUsers) + 1
        /\ retiredUsers' = retiredUsers
        /\ \A v \in UserId : CountIn(freeUsers', v)
             = CountIn(freeUsers, v) + (IF v = u THEN 1 ELSE 0)
    BY <1>1, <1>3, <1>7, FreedUser
  <2>2. PoolSufficient'
    <3>1. /\ users \in Nat /\ current_calls \in Nat /\ Len(freeUsers) \in Nat
          /\ SumFunction(zombies) \in Nat
      BY <1>1, UserNumbers
    <3> QED
      BY <1>3, <2>1, <3>1 DEF IInv, PoolSufficient, Zombies
  <2>3. NobodyRetires'
    BY <1>1, <1>3, <1>7, <2>1 DEF IInv, NobodyRetires
  <2>4. ASSUME NEW v \in UserId
        PROVE  Places(v)' = Places(v)
    <3>1. active'[v] = active[v] - (IF v = u THEN 1 ELSE 0)
      BY SMTT(40), <1>1, UserNumbers DEF CallEnds, TypeOK
    <3>2. /\ CountIn(freeUsers, v) \in Nat /\ CountIn(retiredUsers, v) \in Nat
          /\ active[v] \in Nat /\ zombies[v] \in Nat
      BY <1>1, UserNumbers
    <3>3. CASE v = u
      BY <1>3, <2>1, <3>1, <3>2, <3>3 DEF Places
    <3>4. CASE v # u
      BY <1>3, <2>1, <3>1, <3>2, <3>4 DEF Places
    <3> QED
      BY <3>3, <3>4
  <2>5. UserOnce'
    BY <1>1, <1>3, <2>4, UserNumbers DEF IInv, UserOnce
  <2> QED
    BY <1>5, <1>6, <2>2, <2>3, <2>5 DEF IInv
<1>8. CASE current_calls - 1 > users
  <2>1. freeUsers' = freeUsers
    BY <1>1, <1>3, <1>8, FreedUser
  <2>2. PoolSufficient'
    BY <1>1, <1>3, <1>8, <2>1, UserNumbers DEF PoolSufficient, Zombies
  <2>3. lowered'
    BY <1>1, <1>3, <1>8, UserNumbers DEF IInv, NobodyRetires
  <2> QED
    BY <1>5, <1>6, <2>2, <2>3 DEF IInv, NobodyRetires, UserOnce
<1> QED
  BY <1>1, <1>3, <1>7, <1>8, UserNumbers

(* So does a call that outlived its user's retirement.                     *)
LEMMA ZombieRunsKeeps ==
    ASSUME IInv, NEW u \in UserId, ZombieRuns(u), UNCHANGED undefined
    PROVE  IInv'
<1>1. TypeOK
  BY DEF IInv
<1>2. /\ zombies' \in [UserId -> Nat]
      /\ SumFunction(zombies) > 0
      /\ SumFunction(zombies') = SumFunction(zombies) - 1
  BY <1>1, OneCallLess DEF ZombieRuns, TypeOK
<1>3. /\ current_calls \in Nat
      /\ freeUser(u, current_calls)
      /\ UNCHANGED <<users, lowered, active, current_calls, total_calls, paused,
                     instance, quitting>>
  BY <1>1 DEF ZombieRuns, TypeOK
<1>4. /\ freeUsers' \in Seq(UserId) /\ retiredUsers' \in Seq(UserId)
      /\ running' \in BOOLEAN /\ (running' => instance)
  BY <1>1, <1>3, FreedUser
<1>5. TypeOK'
  <2>1. /\ users' \in 0..MaxUsers /\ lowered' \in BOOLEAN
        /\ active' \in [UserId -> Nat] /\ total_calls' \in 0..StopAfter
        /\ current_calls' \in Nat
        /\ paused' \in BOOLEAN /\ instance' = instance /\ instance' \in BOOLEAN
        /\ quitting' \in BOOLEAN /\ undefined' \in BOOLEAN
    BY <1>1, <1>3 DEF TypeOK
  <2> QED
    BY <1>2, <1>4, <2>1 DEF TypeOK
<1>6. CountsActive'
  BY <1>3 DEF IInv, CountsActive
<1>7. CASE current_calls <= users
  <2>1. /\ Len(freeUsers') = Len(freeUsers) + 1
        /\ retiredUsers' = retiredUsers
        /\ \A v \in UserId : CountIn(freeUsers', v)
             = CountIn(freeUsers, v) + (IF v = u THEN 1 ELSE 0)
    BY <1>1, <1>3, <1>7, FreedUser
  <2>2. PoolSufficient'
    BY SMTT(40), <1>1, <1>2, <1>3, <2>1, UserNumbers DEF IInv, PoolSufficient, Zombies
  <2>3. NobodyRetires'
    BY <1>3, <1>7, <2>1 DEF IInv, NobodyRetires
  <2>4. ASSUME NEW v \in UserId
        PROVE  Places(v)' = Places(v)
    <3>1. zombies'[v] = zombies[v] - (IF v = u THEN 1 ELSE 0)
      BY SMTT(40), <1>1, UserNumbers DEF ZombieRuns, TypeOK
    <3>2. /\ CountIn(freeUsers, v) \in Nat /\ CountIn(retiredUsers, v) \in Nat
          /\ active[v] \in Nat /\ zombies[v] \in Nat
      BY <1>1, UserNumbers
    <3>3. CountIn(freeUsers', v) + zombies'[v] = CountIn(freeUsers, v) + zombies[v]
      BY <2>1, <3>1, <3>2
    <3>4. /\ CountIn(freeUsers', v) \in Nat /\ zombies'[v] \in Int
          /\ CountIn(retiredUsers', v) = CountIn(retiredUsers, v)
          /\ active'[v] = active[v]
      BY <1>3, <2>1, <3>1, <3>2
    <3> QED
      BY <3>2, <3>3, <3>4 DEF Places
  <2>5. UserOnce'
    BY <1>1, <1>3, <2>4, UserNumbers DEF IInv, UserOnce
  <2> QED
    BY <1>5, <1>6, <2>2, <2>3, <2>5 DEF IInv
<1>8. CASE current_calls > users
  <2>1. freeUsers' = freeUsers
    BY <1>1, <1>3, <1>8, FreedUser
  <2>2. PoolSufficient'
    BY <1>1, <1>2, <1>3, <1>8, <2>1, UserNumbers DEF PoolSufficient, Zombies
  <2>3. lowered'
    BY <1>1, <1>3, <1>8, UserNumbers DEF IInv, NobodyRetires
  <2> QED
    BY <1>5, <1>6, <2>2, <2>3 DEF IInv, NobodyRetires, UserOnce
<1> QED
  BY <1>1, <1>3, <1>7, <1>8, UserNumbers

-----------------------------------------------------------------------------
(***************************************************************************)
(* The operator sets the number of users.                                  *)
(***************************************************************************)
LEMMA ReverseIsSeq ==
    ASSUME NEW S, NEW s \in Seq(S)
    PROVE  /\ Reverse(s) \in Seq(S) /\ Len(Reverse(s)) = Len(s)
           /\ DOMAIN Reverse(s) = 1..Len(s)
           /\ \A i \in 1..Len(s) : Reverse(s)[i] = s[(Len(s) - i) + 1]
<1>1. Len(s) \in Nat /\ \A i \in 1..Len(s) : s[i] \in S
  BY LenProperties, ElementOfSeq
<1>2. Reverse(s) \in [1..Len(s) -> S]
  BY <1>1 DEF Reverse
<1>3. Reverse(s) \in Seq(S)
  BY <1>1, <1>2, SeqDef
<1> QED
  BY <1>1, <1>2, <1>3, LenProperties DEF Reverse

(* The operator changes the number of users.                               *)
LEMMA SetUsersKeeps ==
    ASSUME IInv, NEW n \in 0..MaxUsers, SetUsers(n), paused' \in BOOLEAN,
           UNCHANGED undefined
    PROVE  IInv'
<1>1. TypeOK
  BY DEF IInv
<1> DEFINE m == AtLeast0(n - users)
           added == [i \in 1..m |->
                       IF i <= Len(retiredUsers)
                         THEN retiredUsers[Len(retiredUsers) - i + 1]
                         ELSE NewUser(i - 1)]
<1>2. /\ n \in Nat /\ m \in Nat /\ m >= n - users /\ n <= MaxUsers
      /\ n >= users => m = n - users
      /\ n < users => m = 0
  BY <1>1, UserNumbers, UsersAssumption DEF AtLeast0
<1>3. /\ retiredUsers \in Seq(UserId) /\ Len(retiredUsers) \in Nat
      /\ \A i \in 1..Len(retiredUsers) : retiredUsers[i] \in UserId
  BY <1>1, LenProperties, ElementOfSeq DEF TypeOK
<1>4. added \in Seq(UserId) /\ Len(added) = m
  <2>1. ASSUME NEW i \in 1..m
        PROVE  added[i] \in UserId
    <3>1. CASE i <= Len(retiredUsers)
      BY <1>2, <1>3, <3>1
    <3>2. CASE ~(i <= Len(retiredUsers))
      <4>1. added[i] = users + (i - 1) + 1
        BY <3>2 DEF NewUser
      <4>2. n >= users
        BY <1>1, <1>2, UserNumbers
      <4>3. users \in Nat /\ i \in Nat /\ 1 <= i /\ i <= n - users
        BY <1>1, <1>2, <4>2, UserNumbers
      <4>4. users + (i - 1) + 1 \in 1..MaxUsers
        BY <1>2, <4>3, UsersAssumption
      <4> QED
        BY <4>1, <4>4 DEF UserId
    <3> QED
      BY <3>1, <3>2
  <2>2. added \in [1..m -> UserId]
    BY <2>1
  <2> HIDE DEF added, m
  <2>3. added \in Seq(UserId)
    BY <1>2, <2>2, SeqDef
  <2> QED
    BY <1>2, <2>2, <2>3, LenProperties
<1>5. /\ freeUsers' = Reverse(added) \o freeUsers
      /\ retiredUsers' = SubSeq(retiredUsers, 1, AtLeast0(Len(retiredUsers) - m))
      /\ users' = n /\ lowered' = (lowered \/ n < users)
      /\ running' /\ running' = TRUE /\ instance
      /\ UNCHANGED <<calls, instance, quitting>>
  BY <1>4 DEF SetUsers
<1> HIDE DEF added
<1>6. /\ Reverse(added) \in Seq(UserId) /\ DOMAIN Reverse(added) = 1..m
      /\ freeUsers' \in Seq(UserId) /\ Len(freeUsers') = m + Len(freeUsers)
  <2>1. /\ Reverse(added) \in Seq(UserId) /\ Len(Reverse(added)) = m
        /\ DOMAIN Reverse(added) = 1..m
    BY <1>4, ReverseIsSeq
  <2> QED
    BY <1>1, <1>5, <2>1, ConcatProperties DEF TypeOK
<1>7. retiredUsers' \in Seq(UserId)
  <2>1. AtLeast0(Len(retiredUsers) - m) \in 0..Len(retiredUsers)
    BY <1>2, <1>3 DEF AtLeast0
  <2>2. \A i \in 1..AtLeast0(Len(retiredUsers) - m) : retiredUsers[i] \in UserId
    BY <1>3, <2>1
  <2> QED
    BY <1>5, <2>1, <2>2, SubSeqProperties
<1>8. TypeOK'
  <2>1. /\ users' \in 0..MaxUsers /\ lowered' \in BOOLEAN
    BY <1>1, <1>5 DEF TypeOK
  <2>2. /\ active' \in [UserId -> Nat] /\ zombies' \in [UserId -> Nat]
        /\ current_calls' \in Nat /\ total_calls' \in 0..StopAfter
        /\ instance' /\ instance' \in BOOLEAN /\ quitting' \in BOOLEAN
        /\ undefined' \in BOOLEAN
    BY <1>1, <1>5 DEF TypeOK, calls
  <2> QED
    BY <1>5, <1>6, <1>7, <2>1, <2>2 DEF TypeOK
<1>9. CountsActive'
  BY <1>5 DEF IInv, CountsActive, calls
<1>10. PoolSufficient'
  BY SMTT(40), <1>1, <1>2, <1>5, <1>6, UserNumbers DEF IInv, PoolSufficient, Zombies, calls
<1>11. CASE lowered'
  BY <1>8, <1>9, <1>10, <1>11 DEF IInv, NobodyRetires, UserOnce
<1>12. CASE ~lowered'
  <2>1. ~lowered /\ n >= users /\ m = n - users
    <3>1. ~lowered /\ ~(n < users)
      BY <1>5, <1>12
    <3> QED
      BY <1>1, <1>2, <3>1, UserNumbers
  <2>2. retiredUsers = <<>> /\ current_calls <= users
    BY <2>1 DEF IInv, NobodyRetires
  <2>3. retiredUsers' = <<>>
    <3>1. AtLeast0(Len(retiredUsers) - m) \in Int /\ AtLeast0(Len(retiredUsers) - m) < 1
      BY <1>2, <2>2 DEF AtLeast0
    <3> QED
      BY <1>5, <3>1, SubSeqEmpty
  <2>4. NobodyRetires'
    BY <1>1, <1>5, <2>1, <2>2, <2>3, <1>2, UserNumbers DEF NobodyRetires, calls
  <2>5. ASSUME NEW u \in UserId
        PROVE  Places(u)' = Places(u) + (IF u \in users+1..n THEN 1 ELSE 0)
    <3>1. u \in Nat
      BY DEF UserId
    <3>2. Steps(Reverse(added), users, m)
      <4>1. \A i \in 1..m : added[i] = users + i
        BY <1>1, <1>2, <2>2, UserNumbers DEF added, NewUser
      <4>2. \A i \in 1..m : Reverse(added)[i] = added[(m - i) + 1]
        BY <1>4, ReverseIsSeq
      <4>3. \A i \in 1..m : Reverse(added)[i] = users + m - i + 1
        <5> HIDE DEF m
        <5> QED
          BY <1>1, <1>2, <4>1, <4>2, UserNumbers
      <4> QED
        BY <1>6, <4>3 DEF Steps
    <3>3. CountIn(Reverse(added), u) = IF u \in users+1..users+m THEN 1 ELSE 0
      BY <1>1, <1>2, <3>1, <3>2, UserNumbers, CountOfSteps
    <3>4. CountIn(freeUsers', u) = CountIn(Reverse(added), u) + CountIn(freeUsers, u)
      BY <1>1, <1>5, <1>6, CountConcat DEF TypeOK
    <3>5. users + m = n
      BY <1>1, <1>2, <2>1, UserNumbers
    <3>6. CountIn(freeUsers', u) = CountIn(freeUsers, u) + (IF u \in users+1..n THEN 1 ELSE 0)
      BY <1>1, <3>3, <3>4, <3>5, UserNumbers
    <3>7. /\ CountIn(retiredUsers', u) = CountIn(retiredUsers, u)
          /\ active'[u] = active[u] /\ zombies'[u] = zombies[u]
      BY <1>5, <2>2, <2>3 DEF calls
    <3>8. /\ CountIn(freeUsers, u) \in Nat /\ CountIn(retiredUsers, u) \in Nat
          /\ active[u] \in Nat /\ zombies[u] \in Nat
      BY <1>1, UserNumbers
    <3> QED
      BY <3>6, <3>7, <3>8 DEF Places
  <2>6. UserOnce'
    <3>1. \A u \in 1..users : Places(u) = 1
      BY <2>1 DEF IInv, UserOnce
    <3>2. \A u \in users+1..MaxUsers : Places(u) = 0
      BY <2>1 DEF IInv, UserOnce
    <3>3. ASSUME NEW u \in 1..n
          PROVE  Places(u)' = 1
      <4>1. u \in UserId
        BY <1>2, UsersAssumption DEF UserId
      <4>2. CASE u <= users
        <5>1. u \in 1..users /\ u \notin users+1..n
          BY <1>1, <1>2, <4>2, UserNumbers
        <5>2. Places(u) = 1
          BY <3>1, <5>1
        <5> QED
          BY <2>5, <4>1, <5>1, <5>2
      <4>3. CASE ~(u <= users)
        <5>1. u \in users+1..MaxUsers /\ u \in users+1..n
          BY <1>1, <1>2, <4>3, UserNumbers, UsersAssumption
        <5>2. Places(u) = 0
          BY <3>2, <5>1
        <5> QED
          BY <2>5, <4>1, <5>1, <5>2
      <4> QED
        BY <4>2, <4>3
    <3>4. ASSUME NEW u \in n+1..MaxUsers
          PROVE  Places(u)' = 0
      <4>1. u \in UserId /\ u \in users+1..MaxUsers /\ u \notin users+1..n
        BY <1>1, <1>2, <2>1, UserNumbers, UsersAssumption DEF UserId
      <4>2. Places(u) = 0
        BY <3>2, <4>1
      <4> QED
        BY <2>5, <4>1, <4>2
    <3> QED
      BY <1>5, <3>3, <3>4 DEF UserOnce
  <2> QED
    BY <1>8, <1>9, <1>10, <2>4, <2>6 DEF IInv
<1> QED
  BY <1>11, <1>12

-----------------------------------------------------------------------------
(* The actions that leave the users where they are.                        *)
LEMMA Elsewhere ==
    ASSUME IInv, UNCHANGED <<pool, calls>>, instance' => instance, TypeOK'
    PROVE  IInv'
<1> USE DEF pool, calls
<1>1. CountsActive'
  BY DEF IInv, CountsActive
<1>2. PoolSufficient'
  BY DEF IInv, PoolSufficient, Zombies
<1>3. NobodyRetires'
  BY DEF IInv, NobodyRetires
<1>4. UserOnce'
  BY DEF IInv, UserOnce, Places
<1> QED
  BY <1>1, <1>2, <1>3, <1>4 DEF IInv

(* Every step keeps the invariant,                                         *)
LEMMA NextIInv == IInv /\ [Next]_vars => IInv'
<1> SUFFICES ASSUME IInv, [Next]_vars PROVE IInv'
  OBVIOUS
<1>0. TypeOK
  BY DEF IInv
<1> DEFINE Still == /\ UNCHANGED <<pool, calls>>
                    /\ instance' \in BOOLEAN /\ running' \in BOOLEAN
                    /\ paused' \in BOOLEAN /\ quitting' \in BOOLEAN
                    /\ undefined' \in BOOLEAN
                    /\ running' => instance'
                    /\ instance' => instance
<1>1. ASSUME Still PROVE IInv'
  <2>1. TypeOK'
    BY <1>0, <1>1 DEF TypeOK, pool, calls
  <2> QED
    BY <1>1, <2>1, Elsewhere
<1>2. CASE RunPopsEmpty
  <2>1. Still
    BY <1>0, <1>2 DEF RunPopsEmpty, TypeOK
  <2> QED
    BY <1>1, <2>1
<1>3. CASE RunQuitting /\ UNCHANGED undefined
  <2>1. Still
    BY <1>0, <1>3 DEF RunQuitting, TypeOK
  <2> QED
    BY <1>1, <2>1
<1>4. CASE RunPaused /\ UNCHANGED undefined
  <2>1. Still
    BY <1>0, <1>4 DEF RunPaused, TypeOK
  <2> QED
    BY <1>1, <2>1
<1>5. ASSUME NEW k, NEW busy, RunOpens(k, busy), UNCHANGED undefined
      PROVE  IInv'
  BY <1>5, RunOpensKeeps
<1>6. ASSUME NEW u \in UserId, RunZombie(u)
      PROVE  IInv'
  BY <1>6, ZombieRunsKeeps DEF RunZombie
<1>7. ASSUME NEW u \in UserId, CallEnds(u), UNCHANGED undefined
      PROVE  IInv'
  BY <1>7, CallEndsKeeps
<1>8. ASSUME NEW n \in 0..MaxUsers, OperatorSetsUsers(n), UNCHANGED undefined
      PROVE  IInv'
  BY <1>0, <1>8, SetUsersKeeps DEF OperatorSetsUsers, TypeOK
<1>9. CASE Pause /\ UNCHANGED undefined
  <2>1. Still
    BY <1>0, <1>9 DEF Pause, TypeOK
  <2> QED
    BY <1>1, <2>1
<1>10. CASE Unpause /\ UNCHANGED undefined
  BY <1>0, <1>10, SetUsersKeeps DEF Unpause, TypeOK
<1>11. CASE Quit /\ UNCHANGED undefined
  <2>1. Still
    BY <1>0, <1>11 DEF Quit, TypeOK
  <2> QED
    BY <1>1, <2>1
<1>12. CASE UNCHANGED vars
  <2>1. Still
    BY <1>0, <1>12 DEF vars, TypeOK, pool, calls
  <2> QED
    BY <1>1, <2>1
<1> QED
  BY <1>2, <1>3, <1>4, <1>5, <1>6, <1>7, <1>8, <1>9, <1>10, <1>11, <1>12
     DEF Next, RunTask, Event

(* so that it always holds.                                                *)
LEMMA Invariance == Spec => []IInv
  BY InitIInv, NextIInv, PTL DEF Spec

(* The types; no more calls than stop_after are created.                   *)
THEOREM Types == Spec => []TypeOK
<1>1. IInv => TypeOK
  BY DEF IInv
<1> QED
  BY <1>1, Invariance, PTL

(* UserOnce, for every number of users and calls: each user is in one      *)
(* place as long as the operator only adds users.                          *)
THEOREM EachUserOnce == Spec => []UserOnce
<1>1. IInv => UserOnce
  BY DEF IInv
<1> QED
  BY <1>1, Invariance, PTL

(* PoolSufficient, whatever the operator does.                             *)
THEOREM PoolIsSufficient == Spec => []PoolSufficient
<1>1. IInv => PoolSufficient
  BY DEF IInv
<1> QED
  BY <1>1, Invariance, PTL

-----------------------------------------------------------------------------
(***************************************************************************)
(* Only a zombie holds a user that the statistics have forgotten.          *)
(***************************************************************************)
NoZombies == zombies = [u \in UserId |-> 0]

(* Without -tdmmap no call is left behind.                                 *)
LEMMA NoZombieAppears ==
    ASSUME TdmMap = FALSE, TypeOK, NoZombies, [Next]_vars
    PROVE  NoZombies'
<1>1. ASSUME NEW u \in UserId, RunZombie(u) PROVE FALSE
  <2>1. zombies[u] = 0 /\ zombies[u] > 0
    BY <1>1 DEF RunZombie, ZombieRuns, NoZombies
  <2> QED
    BY <2>1
<1>2. ASSUME NEW k, NEW busy, RunOpens(k, busy) PROVE NoZombies'
  <2>1. busy = {}
    BY <1>2 DEF RunOpens
  <2>2. \A u \in UserId : Cardinality({i \in busy : Taken(k)[i] = u}) = 0
    <3>1. \A u \in UserId : {i \in busy : Taken(k)[i] = u} = {}
      BY <2>1
    <3> QED
      BY <3>1, FS_EmptySet
  <2>3. zombies' = [u \in UserId |->
                      zombies[u] + Cardinality({i \in busy : Taken(k)[i] = u})]
    BY <1>2 DEF RunOpens
  <2>4. \A u \in UserId : zombies[u] = 0
    BY DEF NoZombies
  <2> QED
    BY <2>2, <2>3, <2>4 DEF NoZombies
<1>3. CASE UNCHANGED zombies
  BY <1>3 DEF NoZombies
<1> QED
  BY <1>1, <1>2, <1>3
     DEF Next, RunTask, Event, RunPopsEmpty, RunQuitting, RunPaused, CallEnds,
         OperatorSetsUsers, SetUsers, Pause, Unpause, Quit, calls, vars

(* run() takes a user from the free list without looking whether there is  *)
(* one (opentask.cpp:139): without -tdmmap there always is, for every      *)
(* order of the ends of calls and of the operator's changes.               *)
THEOREM NeverPopsEmpty ==
    ASSUME TdmMap = FALSE
    PROVE  Spec => []~undefined
<1> DEFINE Inv == NoZombies /\ ~undefined
<1>1. Init => Inv
  BY DEF Init, NoZombies
<1>2. IInv /\ Inv /\ [Next]_vars => Inv'
  <2> SUFFICES ASSUME IInv, Inv, [Next]_vars PROVE Inv'
    OBVIOUS
  <2>1. NoZombies'
    BY NoZombieAppears DEF IInv
  <2>2. ASSUME RunPopsEmpty PROVE FALSE
    <3>1. instance /\ PoolSufficient
      BY <2>2 DEF RunPopsEmpty, IInv, TypeOK
    <3>2. SumFunction(zombies) = 0
      BY UserIdFinite, SumOfZeros DEF NoZombies
    <3>3. users - current_calls <= Len(freeUsers)
      BY <3>1, <3>2, UserNumbers DEF PoolSufficient, Zombies, IInv
    <3>4. users \in Nat /\ current_calls \in Nat /\ total_calls \in Nat
          /\ Len(freeUsers) \in Nat /\ StopAfter \in Nat
      BY UserNumbers, UsersAssumption DEF IInv
    <3>5. calls_to_open <= Len(freeUsers)
      BY <3>3, <3>4 DEF calls_to_open, AtLeast0, AtMost
    <3>6. calls_to_open > Len(freeUsers)
      BY <2>2 DEF RunPopsEmpty
    <3>7. calls_to_open \in Int
      BY <3>4 DEF calls_to_open, AtLeast0, AtMost
    <3> QED
      BY <3>4, <3>5, <3>6, <3>7
  <2>3. UNCHANGED undefined
    BY <2>2 DEF Next, RunTask, RunZombie, vars
  <2> QED
    BY <2>1, <2>3
<1>3. Inv => ~undefined
  OBVIOUS
<1> QED
  BY <1>1, <1>2, <1>3, Invariance, PTL DEF Spec
=============================================================================
