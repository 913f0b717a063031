--------------------------- MODULE SocketsProofs ---------------------------
(***************************************************************************)
(* Proofs about Sockets: that slots, counts and owners of sockets are      *)
(* right for every number of calls, addresses and descriptors, and every   *)
(* command line.                                                           *)
(***************************************************************************)
EXTENDS Sockets, FiniteSetTheorems, FunctionTheorems, SequenceTheorems, TLAPS

(* Every set of naturals has a least element.                              *)
LEMMA Least ==
    ASSUME NEW S \in SUBSET Nat, S # {}
    PROVE  \E m \in S : \A k \in S : m <= k
<1> DEFINE R == {p \in Nat \X Nat : p[1] < p[2]}
<1>1. IsWellFoundedOn(R, Nat)
  BY NatLessThanWellFounded DEF OpToRel
<1>2. PICK m \in S : \A k \in S : <<k, m>> \notin R
  <2> HIDE DEF R
  <2> QED
    BY <1>1, WFMin
<1>3. \A k \in S : ~(k < m)
  BY <1>2
<1> QED
  BY <1>3

(* Min of module FiniteSetsExt is the least element.                       *)
LEMMA MinIsLeast ==
    ASSUME NEW S \in SUBSET Nat, S # {}
    PROVE  Min(S) \in S /\ \A k \in S : Min(S) <= k
BY Least DEF Min

(* Induction on the naturals: a property is given as the set of those that *)
(* have it.                                                                *)
LEMMA NaturalInduction ==
    ASSUME NEW S, 0 \in S, \A n \in Nat : n \in S => n + 1 \in S
    PROVE  Nat \subseteq S
<1> DEFINE Bad == Nat \ S
<1>1. SUFFICES ASSUME Bad # {} PROVE FALSE
  OBVIOUS
<1>2. PICK m \in Bad : \A k \in Bad : m <= k
  <2>1. Bad \in SUBSET Nat
    OBVIOUS
  <2> HIDE DEF Bad
  <2> QED
    BY <1>1, <2>1, Least
<1>3. m # 0 /\ m - 1 \in Nat
  OBVIOUS
<1>4. m - 1 \in S
  BY <1>2, <1>3
<1>5. (m - 1) + 1 = m
  OBVIOUS
<1> QED
  BY <1>3, <1>4, <1>5

(* Among the subsets of a finite set, a family that is not empty has one   *)
(* that includes no other.                                                 *)
LEMMA MinimalSet ==
    ASSUME NEW S, IsFiniteSet(S), NEW F \in SUBSET SUBSET S, F # {}
    PROVE  \E T \in F : \A U \in F : U \subseteq T => U = T
<1> DEFINE R == StrictSubsetOrdering(S)
<1>1. IsWellFoundedOn(R, FiniteSubsetsOf(S)) /\ FiniteSubsetsOf(S) = SUBSET S
  BY FS_StrictSubsetOrderingWellFounded, FS_FiniteSubsetsOfFinite
<1>2. PICK T \in F : \A U \in F : <<U, T>> \notin R
  <2> HIDE DEF R
  <2> QED
    BY <1>1, WFMin
<1>3. \A U \in F : U \subseteq T => U = T
  BY <1>2 DEF StrictSubsetOrdering
<1> QED
  BY <1>2, <1>3

(***************************************************************************)
(* The inductive invariant, in named parts.  They speak of the tables `n', *)
(* because close_calls() goes through states that no step shows.           *)
(***************************************************************************)
Object == [alive: BOOLEAN, fd: Fd \cup {INVALID_SOCKET}, invalid: BOOLEAN,
           pollidx: Nat, count: Nat, ofCall: BOOLEAN, changed: BOOLEAN]
Slot == [sock: Addresses, fd: Fd]
Net == [socket: [Addresses -> Object], slots: Seq(Slot), line: [Fd -> Line],
        owners: [Addresses -> SUBSET Calls], call: [Calls -> {"new", "open", "over"}],
        call_socket: [Calls -> Addresses \cup {NoSocket}]]

Valid(k) == k.alive /\ ~k.invalid

(* Slots and sockets that are not invalid know each other.                 *)
Placed(n) ==
    /\ \A i \in 1..Len(n.slots) : /\ Valid(n.socket[n.slots[i].sock])
                                  /\ n.socket[n.slots[i].sock].pollidx = i
    /\ \A s \in Addresses : Valid(n.socket[s]) =>
            /\ n.socket[s].pollidx \in 1..Len(n.slots)
            /\ n.slots[n.socket[s].pollidx].sock = s
    /\ \A s \in Addresses : n.socket[s].pollidx <= Cardinality(Addresses)

(* Only an open call has a socket, which is allocated and knows the call.  *)
Held(n) == \A c \in Calls : n.call_socket[c] # NoSocket =>
                /\ n.call[c] = "open"
                /\ n.socket[n.call_socket[c]].alive
                /\ c \in n.owners[n.call_socket[c]]

UsersOf(n, s) == {c \in Calls : n.call_socket[c] = s}
References(n, s) == Cardinality(UsersOf(n, s)) + (IF n.socket[s].ofCall THEN 0 ELSE 1)
Counted(n) == \A s \in Addresses : n.socket[s].alive => n.socket[s].count >= References(n, s)

Sound(n) == n \in Net /\ Placed(n) /\ Held(n) /\ Counted(n)

(* Where calls stay with their sockets, they are what the owners and the   *)
(* count say, and the sockets of -t tn are valid.                          *)
OwnedExactly(n) == \A s \in Addresses : n.owners[s] = UsersOf(n, s)
CountedExactly(n) ==
    \A s \in Addresses : n.socket[s].alive => n.socket[s].count = References(n, s)
ValidBut(n, but) ==
    \A c \in Calls : n.call_socket[c] \notin {NoSocket, but} =>
                         ~n.socket[n.call_socket[c]].invalid
Exact(n) == OwnedExactly(n) /\ CountedExactly(n)

Attached(n) == \A c \in Calls : n.call[c] = "open" => n.call_socket[c] # NoSocket

(* The process keeps the connection of all calls.                          *)
Kept(n) == n.socket[Multiplex].alive /\ ~n.socket[Multiplex].ofCall

FdsAgree(n) == \A i \in 1..Len(n.slots) :
                  n.socket[n.slots[i].sock].fd \in {n.slots[i].fd, INVALID_SOCKET}

(* One client socket besides the main one: the descriptors are 0 and 1.    *)
Single(n) == /\ n.line[0] = "down"
             /\ n.socket[Main].fd = 0
             /\ n.socket[Multiplex].fd \in {1, INVALID_SOCKET}
             /\ (n.socket[Multiplex].fd = INVALID_SOCKET => n.line[1] = "closed")
             /\ \A i \in 1..Len(n.slots) :
                   n.slots[i] \in {[sock |-> Main, fd |-> 0], [sock |-> Multiplex, fd |-> 1]}
             /\ \A c \in Calls : n.call_socket[c] \in {NoSocket, Multiplex}

Solo == ~config.multisocket /\ ~config.server
Alone == Solo /\ ~config.closecon

Rest == /\ config \in Configurations
        /\ pending \subseteq Addresses
        /\ reset_number \in IF config.resets <= 0 THEN {config.resets} ELSE 0..config.resets
        /\ next_socket \in 0..Cardinality(Addresses)
        /\ phase \in {"run", "read", "process"}
        /\ status \in {"running", "exited", "blocked", "deleted call", "deleted owner",
                       "freed socket", "assertion", "no socket"}

(* All of it about the tables.  Of socket `but', the calls may not yet     *)
(* know that it is invalid.                                                *)
TablesBut(n, but) ==
    /\ Sound(n)
    /\ CallsStay => Exact(n)
    /\ CallsStay /\ config.multisocket => ValidBut(n, but)
    /\ ~config.multisocket /\ ~config.closecon => Attached(n)
    /\ Solo => Kept(n)
    /\ config.resets = 0 /\ ~config.setdest => FdsAgree(n)
    /\ Alone => Single(n)

IInv == /\ Rest
        /\ TablesBut(net, NoSocket)
        /\ Alone => /\ pending \subseteq {Multiplex}
                    /\ pending # {} => net.socket[Multiplex].fd = INVALID_SOCKET
        /\ NoMisuse

-----------------------------------------------------------------------------
(***************************************************************************)
(* close_calls() deletes one call after the other.                         *)
(***************************************************************************)
(* The result for each set T of the calls, from those of smaller sets.     *)
Results(g, n, S) ==
    [T \in SUBSET S |-> IF T = {} THEN n
                        ELSE LET x == CHOOSE x \in T : TRUE
                             IN  DeleteCall(g[T \ {x}], x)]

(* There are such results, those for sets up to size k by induction: the   *)
(* recursion behind the fold is well defined.                              *)
LEMMA FoldExists ==
    ASSUME NEW n, NEW S, IsFiniteSet(S)
    PROVE  \E g : g = Results(g, n, S)
<1> DEFINE Del(m, c) == DeleteCall(m, c)
           pick(T) == CHOOSE x \in T : TRUE
           Rec(g, T) == IF T = {} THEN n ELSE Del(g[T \ {pick(T)}], pick(T))
           UpTo(g, k) == g = [T \in SUBSET S |->
                                 IF Cardinality(T) <= k THEN Rec(g, T) ELSE n]
           K == {k \in Nat : \E g : UpTo(g, k)}
<1> HIDE DEF Del
<1>1. \A T \in SUBSET S : T # {} =>
         /\ pick(T) \in T
         /\ T \ {pick(T)} \in SUBSET S
         /\ Cardinality(T) \in Nat
         /\ Cardinality(T \ {pick(T)}) = Cardinality(T) - 1
  <2> SUFFICES ASSUME NEW T \in SUBSET S, T # {}
               PROVE  /\ pick(T) \in T
                      /\ T \ {pick(T)} \in SUBSET S
                      /\ Cardinality(T) \in Nat
                      /\ Cardinality(T \ {pick(T)}) = Cardinality(T) - 1
    OBVIOUS
  <2>1. pick(T) \in T
    OBVIOUS
  <2>2. IsFiniteSet(T)
    BY FS_Subset
  <2> HIDE DEF pick
  <2>3. Cardinality(T \ {pick(T)}) = Cardinality(T) - 1
    BY <2>1, <2>2, FS_RemoveElement
  <2>4. Cardinality(T) \in Nat
    BY <2>2, FS_CardinalityType
  <2> QED
    BY <2>1, <2>3, <2>4
<1>2. \A T \in SUBSET S : Cardinality(T) \in Nat /\ (Cardinality(T) = 0 => T = {})
  BY FS_Subset, FS_CardinalityType, FS_EmptySet
<1> HIDE DEF pick
<1>3. 0 \in K
  <2> DEFINE g == [T \in SUBSET S |-> n]
  <2>1. \A T \in SUBSET S : Cardinality(T) <= 0 => T = {}
    BY <1>2
  <2>2. UpTo(g, 0)
    BY <2>1
  <2> HIDE DEF UpTo
  <2> QED
    BY <2>2
<1>4. ASSUME NEW k \in Nat, k \in K PROVE k + 1 \in K
  <2>1. PICK g : UpTo(g, k)
    BY <1>4
  <2> DEFINE h == [T \in SUBSET S |-> IF Cardinality(T) <= k THEN g[T]
                                      ELSE IF Cardinality(T) <= k + 1 THEN Rec(g, T) ELSE n]
  <2>2. \A T \in SUBSET S : Cardinality(T) <= k => g[T] = Rec(g, T)
    BY <2>1
  <2>3. \A T \in SUBSET S : Cardinality(T) <= k + 1 => Rec(h, T) = Rec(g, T)
    <3> SUFFICES ASSUME NEW T \in SUBSET S, Cardinality(T) <= k + 1, T # {}
                 PROVE  h[T \ {pick(T)}] = g[T \ {pick(T)}]
      OBVIOUS
    <3>1. Cardinality(T \ {pick(T)}) <= k
      BY <1>1
    <3> QED
      BY <1>1, <3>1
  <2>4. \A T \in SUBSET S : h[T] = IF Cardinality(T) <= k + 1 THEN Rec(h, T) ELSE n
    <3> SUFFICES ASSUME NEW T \in SUBSET S
                 PROVE  h[T] = IF Cardinality(T) <= k + 1 THEN Rec(h, T) ELSE n
      OBVIOUS
    <3>1. Cardinality(T) <= k => Cardinality(T) <= k + 1
      BY <1>2
    <3>2. CASE Cardinality(T) <= k
      <4>1. h[T] = g[T]
        BY <3>2
      <4> QED
        BY <2>2, <2>3, <3>1, <3>2, <4>1
    <3>3. CASE ~(Cardinality(T) <= k) /\ Cardinality(T) <= k + 1
      <4>1. h[T] = Rec(g, T)
        BY <3>3
      <4> QED
        BY <2>3, <3>3, <4>1
    <3>4. CASE ~(Cardinality(T) <= k) /\ ~(Cardinality(T) <= k + 1)
      BY <3>4
    <3> QED
      BY <3>1, <3>2, <3>3, <3>4
  <2>5. h = [T \in SUBSET S |-> h[T]]
    OBVIOUS
  <2>6. UpTo(h, k + 1)
    <3> HIDE DEF h, Rec
    <3> QED
      BY <2>4, <2>5
  <2> HIDE DEF UpTo, h
  <2> QED
    BY <2>6
<1>5. Cardinality(S) \in K
  <2>1. Cardinality(S) \in Nat
    BY FS_CardinalityType
  <2> HIDE DEF K
  <2> QED
    BY <1>3, <1>4, <2>1, NaturalInduction
<1>6. PICK g : UpTo(g, Cardinality(S))
  BY <1>5
<1>7. \A T \in SUBSET S : Cardinality(T) <= Cardinality(S)
  BY FS_Subset
<1>8. g = [T \in SUBSET S |-> Rec(g, T)]
  BY <1>6, <1>7
<1>9. g = Results(g, n, S)
  BY <1>8 DEF Del, pick, Results
<1> QED
  BY <1>9

(* What holds of the sockets before, and is kept by the deletion of a      *)
(* call, holds after close_calls().  In G are pairs of the calls that are  *)
(* deleted and the tables then.                                            *)
LEMMA CloseCallsInduction ==
    ASSUME NEW n, NEW s, IsFiniteSet(n.owners[s]), NEW G, <<{}, n>> \in G,
           \A T \in SUBSET n.owners[s] : \A m : \A c \in n.owners[s] \ T :
               <<T, m>> \in G => <<T \cup {c}, DeleteCall(m, c)>> \in G
    PROVE  <<n.owners[s], CloseCalls(n, s)>> \in G
<1> DEFINE S == n.owners[s]
           Del(m, c) == DeleteCall(m, c)
           pick(T) == CHOOSE x \in T : TRUE
           Rec(g, T) == IF T = {} THEN n ELSE Del(g[T \ {pick(T)}], pick(T))
           iter == CHOOSE g : g = Results(g, n, S)
<1>1. iter = [T \in SUBSET S |-> Rec(iter, T)]
  <2>1. \E g : g = Results(g, n, S)
    BY FoldExists
  <2>2. iter = Results(iter, n, S)
    BY <2>1
  <2> HIDE DEF iter
  <2> QED
    BY <2>2 DEF Results
<1>2. CloseCalls(n, s) = iter[S]
  BY DEF CloseCalls, FoldSet, MapThenFoldSet, Results
<1> HIDE DEF Del, iter
<1> DEFINE Bad == {T \in SUBSET S : <<T, iter[T]>> \notin G}
<1>3. Bad = {}
  <2> SUFFICES ASSUME Bad # {} PROVE FALSE
    OBVIOUS
  <2>1. PICK T \in Bad : \A U \in Bad : U \subseteq T => U = T
    <3>1. Bad \in SUBSET SUBSET S
      OBVIOUS
    <3> HIDE DEF Bad
    <3> QED
      BY <3>1, MinimalSet
  <2>2. iter[T] = Rec(iter, T)
    BY <1>1
  <2>3. T # {}
    BY <2>2
  <2>4. pick(T) \in T
    BY <2>3
  <2> HIDE DEF pick
  <2>5. T \ {pick(T)} \in SUBSET S /\ T \ {pick(T)} # T /\ pick(T) \in S \ (T \ {pick(T)})
    BY <2>4
  <2>6. <<T \ {pick(T)}, iter[T \ {pick(T)}]>> \in G
    BY <2>1, <2>5
  <2>7. <<(T \ {pick(T)}) \cup {pick(T)}, Del(iter[T \ {pick(T)}], pick(T))>> \in G
    BY <2>5, <2>6 DEF Del
  <2>8. (T \ {pick(T)}) \cup {pick(T)} = T
    BY <2>4
  <2>9. iter[T] = Del(iter[T \ {pick(T)}], pick(T))
    BY <2>2, <2>3
  <2> QED
    BY <2>7, <2>8, <2>9
<1> QED
  BY <1>2, <1>3

-----------------------------------------------------------------------------
(***************************************************************************)
(* What the functions on sockets change.                                   *)
(***************************************************************************)
SameCalls(n, m) == m.owners = n.owners /\ m.call = n.call /\ m.call_socket = n.call_socket
SameUse(k, l) == l.alive = k.alive /\ l.count = k.count /\ l.ofCall = k.ofCall
SamePlace(k, l) == l.alive = k.alive /\ l.invalid = k.invalid /\ l.pollidx = k.pollidx

(* The descriptor of s is as before, or was closed.                        *)
FdClosed(n, m, s) == \/ m.socket[s].fd = n.socket[s].fd /\ m.line = n.line
                     \/ /\ m.socket[s].fd = INVALID_SOCKET
                        /\ n.socket[s].fd \in Fd
                        /\ m.line = [n.line EXCEPT ![n.socket[s].fd] = "closed"]

(* The types of the tables.                                                *)
LEMMA NetParts ==
    ASSUME NEW n \in Net
    PROVE  /\ n.socket \in [Addresses -> Object]
           /\ n.slots \in Seq(Slot)
           /\ n.line \in [Fd -> Line]
           /\ n.owners \in [Addresses -> SUBSET Calls]
           /\ n.call \in [Calls -> {"new", "open", "over"}]
           /\ n.call_socket \in [Calls -> Addresses \cup {NoSocket}]
BY DEF Net

(* The types of tables that were changed.                                  *)
LEMMA NetChanged ==
    ASSUME NEW n \in Net, NEW m, m.socket \in [Addresses -> Object],
           m.owners \in [Addresses -> SUBSET Calls],
           m.call_socket \in [Calls -> Addresses \cup {NoSocket}],
           m = [n EXCEPT !.socket = m.socket, !.owners = m.owners,
                         !.call_socket = m.call_socket]
    PROVE  m \in Net
BY DEF Net

(* The fields of a socket have their types.                                *)
LEMMA ObjectParts ==
    ASSUME NEW n \in Net, NEW s \in Addresses
    PROVE  /\ n.socket[s] \in Object
           /\ n.socket[s].alive \in BOOLEAN /\ n.socket[s].invalid \in BOOLEAN
           /\ n.socket[s].ofCall \in BOOLEAN
           /\ n.socket[s].fd \in Fd \cup {INVALID_SOCKET}
           /\ n.socket[s].pollidx \in Nat /\ n.socket[s].count \in Nat
<1>1. n.socket[s] \in Object
  BY NetParts
<1> QED
  BY <1>1 DEF Object

(* No descriptor is the invalid one.                                       *)
LEMMA FdFacts == Fd \subseteq Int /\ INVALID_SOCKET \notin Fd /\ INVALID_SOCKET = -1
BY SocketsAssumption DEF Fd, INVALID_SOCKET

(* A slot has an address and a descriptor.                                 *)
LEMMA SlotParts ==
    ASSUME NEW n \in Net, NEW i \in 1..Len(n.slots)
    PROVE  /\ n.slots[i] \in Slot
           /\ n.slots[i].sock \in Addresses /\ n.slots[i].fd \in Fd
<1>1. n.slots[i] \in Slot
  BY NetParts
<1> QED
  BY <1>1 DEF Slot

(* Each socket has at most one slot, so that there are no more slots than  *)
(* addresses.                                                              *)
LEMMA SlotsBound ==
    ASSUME NEW n \in Net, Placed(n)
    PROVE  Len(n.slots) \in Nat /\ Len(n.slots) <= Cardinality(Addresses)
<1>1. Len(n.slots) \in Nat
  BY NetParts
<1> DEFINE f == [i \in 1..Len(n.slots) |-> n.slots[i].sock]
<1>2. f \in [1..Len(n.slots) -> Addresses]
  BY SlotParts
<1>3. \A i, j \in 1..Len(n.slots) : f[i] = f[j] => i = j
  BY DEF Placed
<1>4. f \in Injection(1..Len(n.slots), Addresses)
  <2> HIDE DEF f
  <2> QED
    BY <1>2, <1>3 DEF Injection, IsInjective
<1>5. Cardinality(1..Len(n.slots)) <= Cardinality(Addresses)
  <2> HIDE DEF f
  <2> QED
    BY <1>4, FS_Injection, SocketsAssumption
<1>6. Cardinality(1..Len(n.slots)) = Len(n.slots)
  BY <1>1, FS_Interval
<1> QED
  BY <1>1, <1>5, <1>6

(* close() of the descriptor.                                              *)
LEMMA CloseFdEffect ==
    ASSUME NEW n \in Net, NEW s \in Addresses, NEW m, m = CloseFd(n, s)
    PROVE  /\ m \in Net
           /\ SameCalls(n, m) /\ m.slots = n.slots
           /\ \A t \in Addresses : /\ SameUse(n.socket[t], m.socket[t])
                                   /\ SamePlace(n.socket[t], m.socket[t])
                                   /\ t # s => m.socket[t] = n.socket[t]
           /\ m.socket[s].fd = INVALID_SOCKET
           /\ FdClosed(n, m, s)
<1>1. CASE n.socket[s].fd = INVALID_SOCKET
  BY <1>1 DEF CloseFd, SameCalls, SameUse, SamePlace, FdClosed
<1>2. CASE n.socket[s].fd # INVALID_SOCKET
  <2>1. m = [n EXCEPT !.line[n.socket[s].fd] = "closed", !.socket[s].fd = INVALID_SOCKET]
    BY <1>2 DEF CloseFd
  <2> DEFINE k == [n.socket[s] EXCEPT !.fd = INVALID_SOCKET]
  <2>2. /\ m.line = [n.line EXCEPT ![n.socket[s].fd] = "closed"]
        /\ m.socket = [n.socket EXCEPT ![s] = k]
        /\ m.slots = n.slots /\ SameCalls(n, m)
    BY <2>1 DEF Net, SameCalls
  <2>3. k \in Object /\ SameUse(n.socket[s], k) /\ SamePlace(n.socket[s], k)
        /\ k.fd = INVALID_SOCKET
    BY ObjectParts DEF Object, SameUse, SamePlace
  <2>4. n.socket[s].fd \in Fd
    BY <1>2, ObjectParts
  <2>5. m \in Net
    <3>1. [n.socket EXCEPT ![s] = k] \in [Addresses -> Object]
      <4> HIDE DEF k
      <4> QED
        BY <2>3, NetParts
    <3>2. [n.line EXCEPT ![n.socket[s].fd] = "closed"] \in [Fd -> Line]
      BY <2>4, NetParts DEF Line
    <3> HIDE DEF k
    <3>3. m = [n EXCEPT !.line = m.line, !.socket = m.socket]
      BY <2>1, <2>2 DEF Net
    <3> QED
      BY <2>2, <3>1, <3>2, <3>3 DEF Net
  <2> HIDE DEF k
  <2>6. m.socket[s] = k /\ \A t \in Addresses : t # s => m.socket[t] = n.socket[t]
    BY <2>2, NetParts
  <2>7. \A t \in Addresses : /\ SameUse(n.socket[t], m.socket[t])
                             /\ SamePlace(n.socket[t], m.socket[t])
    BY <2>3, <2>6 DEF SameUse, SamePlace
  <2> QED
    BY <2>2, <2>3, <2>4, <2>5, <2>6, <2>7 DEF FdClosed
<1> QED
  BY <1>1, <1>2

(* Slots stay right when sockets keep their places, or invalid ones        *)
(* change.                                                                 *)
LEMMA PlacedKept ==
    ASSUME NEW n \in Net, NEW m \in Net, Placed(n), m.slots = n.slots,
           \A t \in Addresses : \/ SamePlace(n.socket[t], m.socket[t])
                                \/ /\ ~Valid(n.socket[t]) /\ ~Valid(m.socket[t])
                                   /\ m.socket[t].pollidx <= Cardinality(Addresses)
    PROVE  Placed(m)
<1>1. \A t \in Addresses : Valid(m.socket[t]) = Valid(n.socket[t])
  BY DEF SamePlace, Valid
<1>2. \A t \in Addresses : Valid(m.socket[t]) => m.socket[t].pollidx = n.socket[t].pollidx
  BY DEF SamePlace, Valid
<1>3. \A t \in Addresses : m.socket[t].pollidx <= Cardinality(Addresses)
  BY DEF SamePlace, Placed
<1>4. \A i \in 1..Len(n.slots) : n.slots[i].sock \in Addresses
  BY SlotParts
<1> HIDE DEF Valid
<1> QED
  BY <1>1, <1>2, <1>3, <1>4 DEF Placed

(* They stay right when a socket gets the slot after the last.             *)
LEMMA PlacedAppended ==
    ASSUME NEW n \in Net, NEW m \in Net, Placed(n), NEW s \in Addresses, NEW fd \in Fd,
           ~Valid(n.socket[s]), Valid(m.socket[s]),
           m.socket[s].pollidx = Len(n.slots) + 1,
           m.slots = Append(n.slots, [sock |-> s, fd |-> fd]),
           \A t \in Addresses : t # s => SamePlace(n.socket[t], m.socket[t])
    PROVE  Placed(m)
<1>1. /\ Len(n.slots) \in Nat
      /\ Len(m.slots) = Len(n.slots) + 1
      /\ m.slots[Len(n.slots) + 1] = [sock |-> s, fd |-> fd]
      /\ \A i \in 1..Len(n.slots) : m.slots[i] = n.slots[i]
  BY NetParts, AppendProperties
<1>2. m.slots[Len(n.slots) + 1].sock = s
  BY <1>1
<1>3. \A i \in 1..Len(n.slots) : n.slots[i].sock \in Addresses \ {s}
  BY SlotParts DEF Placed
<1>4. \A t \in Addresses : t # s => /\ Valid(m.socket[t]) = Valid(n.socket[t])
                                    /\ m.socket[t].pollidx = n.socket[t].pollidx
  BY DEF SamePlace, Valid
<1>5. \A i \in 1..Len(m.slots) : i = Len(n.slots) + 1 \/ i \in 1..Len(n.slots)
  BY <1>1
<1>6. \A i \in 1..Len(m.slots) : /\ Valid(m.socket[m.slots[i].sock])
                                 /\ m.socket[m.slots[i].sock].pollidx = i
  <2> SUFFICES ASSUME NEW i \in 1..Len(m.slots)
               PROVE  /\ Valid(m.socket[m.slots[i].sock])
                      /\ m.socket[m.slots[i].sock].pollidx = i
    OBVIOUS
  <2>1. CASE i = Len(n.slots) + 1
    BY <1>2, <2>1
  <2>2. CASE i \in 1..Len(n.slots)
    <3> HIDE DEF Valid
    <3> QED
      BY SMTT(40), <1>1, <1>3, <1>4, <2>2 DEF Placed
  <2> QED
    BY <1>5, <2>1, <2>2
<1>7. \A t \in Addresses : Valid(m.socket[t]) =>
         m.socket[t].pollidx \in 1..Len(m.slots) /\ m.slots[m.socket[t].pollidx].sock = t
  <2> SUFFICES ASSUME NEW t \in Addresses, Valid(m.socket[t])
               PROVE  /\ m.socket[t].pollidx \in 1..Len(m.slots)
                      /\ m.slots[m.socket[t].pollidx].sock = t
    OBVIOUS
  <2>1. CASE t = s
    BY <1>1, <1>2, <2>1
  <2>2. CASE t # s
    <3>1. n.socket[t].pollidx \in 1..Len(n.slots) /\ n.slots[n.socket[t].pollidx].sock = t
      BY <1>4, <2>2 DEF Placed
    <3> QED
      BY <1>1, <1>4, <2>2, <3>1
  <2> QED
    BY <2>1, <2>2
<1>8. \A t \in Addresses : m.socket[t].pollidx <= Cardinality(Addresses)
  <2>1. Len(m.slots) <= Cardinality(Addresses)
    <3> DEFINE f == [i \in 1..Len(m.slots) |-> m.slots[i].sock]
    <3>1. f \in [1..Len(m.slots) -> Addresses]
      BY SlotParts
    <3>2. \A i, j \in 1..Len(m.slots) : f[i] = f[j] => i = j
      BY SMTT(40), <1>6
    <3>3. f \in Injection(1..Len(m.slots), Addresses)
      <4> HIDE DEF f
      <4> QED
        BY <3>1, <3>2 DEF Injection, IsInjective
    <3>4. Cardinality(1..Len(m.slots)) <= Cardinality(Addresses)
      <4> HIDE DEF f
      <4> QED
        BY <3>3, FS_Injection, SocketsAssumption
    <3>5. Cardinality(1..Len(m.slots)) = Len(m.slots)
      BY <1>1, FS_Interval
    <3> QED
      BY <3>4, <3>5
  <2> SUFFICES ASSUME NEW t \in Addresses
               PROVE  m.socket[t].pollidx <= Cardinality(Addresses)
    OBVIOUS
  <2>2. CASE t = s
    BY <1>1, <2>1, <2>2
  <2>3. CASE t # s
    BY <1>4, <2>3 DEF Placed
  <2> QED
    BY <2>2, <2>3
<1> HIDE DEF Valid
<1> QED
  BY <1>6, <1>7, <1>8 DEF Placed

(* A socket is invalid afterwards, and in no slot.                         *)
Invalidated(n, m, s) ==
    /\ SameCalls(n, m)
    /\ \A t \in Addresses : /\ SameUse(n.socket[t], m.socket[t])
                            /\ t # s => /\ m.socket[t].invalid = n.socket[t].invalid
                                        /\ m.socket[t].fd = n.socket[t].fd
    /\ m.socket[s].invalid
    /\ \A i \in 1..Len(m.slots) : /\ m.slots[i].sock # s
                                  /\ \E j \in 1..Len(n.slots) : m.slots[i] = n.slots[j]
    /\ FdClosed(n, m, s)

(* The last slot moves to slot i.                                          *)
LEMMA SlotsWithoutEffect ==
    ASSUME NEW slots \in Seq(Slot), NEW i \in 1..Len(slots)
    PROVE  /\ SlotsWithout(slots, i) \in Seq(Slot)
           /\ Len(SlotsWithout(slots, i)) = Len(slots) - 1
           /\ \A j \in 1..Len(slots)-1 :
                 SlotsWithout(slots, i)[j] = IF j = i THEN slots[Len(slots)] ELSE slots[j]
<1> DEFINE L == Len(slots)
           moved == [slots EXCEPT ![i] = slots[L]]
<1>1. L \in Nat /\ 1 <= L /\ L \in 1..L
  BY LenProperties
<1>2. slots[L] \in Slot
  BY <1>1, ElementOfSeq
<1>3. /\ moved \in Seq(Slot) /\ Len(moved) = L
      /\ \A j \in 1..L : moved[j] = IF j = i THEN slots[L] ELSE slots[j]
  <2> HIDE DEF L
  <2> QED
    BY <1>1, <1>2, ExceptSeq DEF L
<1> HIDE DEF moved
<1>4. \A j \in 1..L-1 : moved[j] \in Slot
  <2>1. \A j \in 1..L-1 : j \in 1..L
    BY <1>1
  <2> QED
    BY <1>3, <2>1, ElementOfSeq
<1>5. 1 \in Int /\ L - 1 \in Int
  BY <1>1
<1> HIDE DEF L
<1>6. /\ SubSeq(moved, 1, L - 1) \in Seq(Slot)
      /\ Len(SubSeq(moved, 1, L - 1)) = IF 1 <= L - 1 THEN L - 1 - 1 + 1 ELSE 0
      /\ \A j \in 1 .. L-1-1+1 : SubSeq(moved, 1, L - 1)[j] = moved[1 + j - 1]
  BY <1>4, <1>5, SubSeqProperties
<1>7. Len(SubSeq(moved, 1, L - 1)) = L - 1
  BY <1>1, <1>6
<1>8. \A j \in 1..L-1 : SubSeq(moved, 1, L - 1)[j] = IF j = i THEN slots[L] ELSE slots[j]
  <2> SUFFICES ASSUME NEW j \in 1..L-1
               PROVE  SubSeq(moved, 1, L - 1)[j] = IF j = i THEN slots[L] ELSE slots[j]
    OBVIOUS
  <2>1. j \in 1..L /\ j \in 1..L-1-1+1 /\ 1 + j - 1 = j
    BY <1>1
  <2> QED
    BY <1>3, <1>6, <2>1
<1>9. SlotsWithout(slots, i) = SubSeq(moved, 1, L - 1)
  BY DEF SlotsWithout, moved, L
<1> QED
  BY <1>6, <1>7, <1>8, <1>9 DEF L

(* sipp_socket_invalidate(): also the moved socket knows its slot.         *)
LEMMA InvalidateEffect ==
    ASSUME NEW n \in Net, Placed(n), NEW s \in Addresses, n.socket[s].alive,
           NEW m, m = Invalidate(n, s)
    PROVE  m \in Net /\ Placed(m) /\ Invalidated(n, m, s)
<1>1. CASE n.socket[s].invalid
  <2>1. m = n
    BY <1>1 DEF Invalidate
  <2>2. \A i \in 1..Len(n.slots) : n.slots[i].sock # s
    BY <1>1 DEF Placed, Valid
  <2> QED
    BY <1>1, <2>1, <2>2 DEF Invalidated, SameCalls, SameUse, FdClosed
<1>2. CASE ~n.socket[s].invalid
  <2> DEFINE i == n.socket[s].pollidx
             L == Len(n.slots)
             last == n.slots[L].sock
             k == CloseFd(n, s)
             a == [k.socket EXCEPT ![s].invalid = TRUE]
             b == [a EXCEPT ![s].pollidx = 0]
             d == [b EXCEPT ![last].pollidx = i]
  <2>1. /\ k \in Net
        /\ SameCalls(n, k) /\ k.slots = n.slots
        /\ \A t \in Addresses : /\ SameUse(n.socket[t], k.socket[t])
                                /\ SamePlace(n.socket[t], k.socket[t])
                                /\ t # s => k.socket[t] = n.socket[t]
        /\ k.socket[s].fd = INVALID_SOCKET
        /\ FdClosed(n, k, s)
    <3> HIDE DEF k
    <3> QED
      BY CloseFdEffect DEF k
  <2>2. /\ L \in Nat /\ i \in 1..L /\ n.slots[i].sock = s /\ L \in 1..L
    <3>1. L \in Nat
      BY NetParts
    <3>2. i \in 1..L /\ n.slots[i].sock = s
      BY <1>2 DEF Placed, Valid
    <3> QED
      BY <3>1, <3>2
  <2>3. last \in Addresses /\ n.socket[last].pollidx = L /\ Valid(n.socket[last])
    BY <2>2, SlotParts DEF Placed
  <2>4. /\ m.slots = SlotsWithout(n.slots, i) /\ m.socket = d /\ m.line = k.line
        /\ SameCalls(k, m)
        /\ m = [k EXCEPT !.slots = m.slots, !.socket = m.socket]
    <3>1. m = [k EXCEPT !.slots = SlotsWithout(@, i),
                        !.socket[s].invalid = TRUE,
                        !.socket[s].pollidx = 0,
                        !.socket[last].pollidx = i]
      BY <1>2 DEF Invalidate, LastSlot
    <3> HIDE DEF k, i, last
    <3>2. k.slots = n.slots /\ k \in Net
      BY <2>1
    <3>3. m.slots = SlotsWithout(n.slots, i) /\ m.line = k.line /\ SameCalls(k, m)
      BY <3>1, <3>2 DEF Net, SameCalls
    <3>4. m.socket = d
      BY <3>1, <3>2 DEF Net
    <3>5. m = [k EXCEPT !.slots = m.slots, !.socket = m.socket]
      BY <3>1, <3>2 DEF Net
    <3> QED
      BY <3>3, <3>4, <3>5
  <2>5. /\ SlotsWithout(n.slots, i) \in Seq(Slot)
        /\ Len(SlotsWithout(n.slots, i)) = L - 1
        /\ \A h \in 1..L-1 : SlotsWithout(n.slots, i)[h]
                               = IF h = i THEN n.slots[L] ELSE n.slots[h]
    <3>1. n.slots \in Seq(Slot) /\ i \in 1..Len(n.slots)
      BY <2>2, NetParts
    <3> HIDE DEF i
    <3> QED
      BY <3>1, SlotsWithoutEffect
  <2>6. /\ k.socket \in [Addresses -> Object]
        /\ \A t \in Addresses : k.socket[t] \in Object
    <3> HIDE DEF k
    <3> QED
      BY <2>1, NetParts
  <2>7. /\ d \in [Addresses -> Object]
        /\ \A t \in Addresses : t # s => d[t].invalid = k.socket[t].invalid
        /\ \A t \in Addresses : SameUse(k.socket[t], d[t]) /\ d[t].fd = k.socket[t].fd
        /\ d[s].invalid
        /\ d[last].pollidx = i
        /\ s # last => d[s].pollidx = 0
        /\ \A t \in Addresses \ {s, last} : d[t].pollidx = k.socket[t].pollidx
    <3> HIDE DEF k, i, last
    <3>1. i \in Nat
      BY <2>2
    <3>2. /\ a \in [Addresses -> Object]
          /\ a[s] = [k.socket[s] EXCEPT !.invalid = TRUE]
          /\ \A t \in Addresses : t # s => a[t] = k.socket[t]
      <4>1. [k.socket[s] EXCEPT !.invalid = TRUE] \in Object
        BY <2>6 DEF Object
      <4> QED
        BY <2>6, <4>1
    <3> HIDE DEF a
    <3>3. /\ b \in [Addresses -> Object]
          /\ b[s] = [a[s] EXCEPT !.pollidx = 0]
          /\ \A t \in Addresses : t # s => b[t] = a[t]
      <4>1. [a[s] EXCEPT !.pollidx = 0] \in Object
        BY <3>2 DEF Object
      <4> QED
        BY <3>2, <4>1
    <3> HIDE DEF b
    <3>4. /\ d \in [Addresses -> Object]
          /\ d[last] = [b[last] EXCEPT !.pollidx = i]
          /\ \A t \in Addresses : t # last => d[t] = b[t]
      <4>1. [b[last] EXCEPT !.pollidx = i] \in Object
        BY <2>3, <3>1, <3>3 DEF Object
      <4> QED
        BY <2>3, <3>3, <4>1
    <3> HIDE DEF d
    <3>5. \A t \in Addresses : a[t] \in Object /\ b[t] \in Object /\ d[t] \in Object
      BY <3>2, <3>3, <3>4
    <3>6. /\ SameUse(k.socket[s], a[s]) /\ a[s].fd = k.socket[s].fd /\ a[s].invalid
          /\ SameUse(a[s], b[s]) /\ b[s].fd = a[s].fd /\ b[s].invalid = a[s].invalid
          /\ b[s].pollidx = 0
      BY <2>6, <3>2, <3>3, <3>5 DEF Object, SameUse
    <3>7. /\ SameUse(b[last], d[last]) /\ d[last].fd = b[last].fd
          /\ d[last].invalid = b[last].invalid /\ d[last].pollidx = i
      BY <2>3, <3>4, <3>5 DEF Object, SameUse
    <3>8. \A t \in Addresses : SameUse(k.socket[t], b[t]) /\ b[t].fd = k.socket[t].fd
      BY ZenonT(60), <3>2, <3>3, <3>6 DEF SameUse
    <3>9. \A t \in Addresses : SameUse(k.socket[t], d[t]) /\ d[t].fd = k.socket[t].fd
      <4> SUFFICES ASSUME NEW t \in Addresses
                   PROVE  SameUse(k.socket[t], d[t]) /\ d[t].fd = k.socket[t].fd
        OBVIOUS
      <4>1. CASE t = last
        <5>1. SameUse(k.socket[last], b[last]) /\ b[last].fd = k.socket[last].fd
          BY <2>3, <3>8
        <5> QED
          BY <3>7, <4>1, <5>1 DEF SameUse
      <4>2. CASE t # last
        BY <3>4, <3>8, <4>2
      <4> QED
        BY <4>1, <4>2
    <3>10. d[s].invalid /\ \A t \in Addresses : t # s => d[t].invalid = k.socket[t].invalid
      <4>1. b[s].invalid /\ \A t \in Addresses : t # s => b[t].invalid = k.socket[t].invalid
        BY <3>2, <3>3, <3>6
      <4>2. \A t \in Addresses : d[t].invalid = b[t].invalid
        BY <3>4, <3>7
      <4> QED
        BY <4>1, <4>2
    <3>11. /\ s # last => d[s].pollidx = 0
           /\ \A t \in Addresses \ {s, last} : d[t].pollidx = k.socket[t].pollidx
      BY ZenonT(60), <3>2, <3>3, <3>4, <3>6
    <3> QED
      BY <3>4, <3>7, <3>9, <3>10, <3>11
  <2> HIDE DEF d, a, b
  <2>8. m \in Net /\ m.socket = d /\ m.slots = SlotsWithout(n.slots, i)
        /\ m.line = k.line /\ SameCalls(k, m)
    <3> HIDE DEF k, i, last
    <3> QED
      BY <2>1, <2>4, <2>5, <2>7 DEF Net
  <2>9. Invalidated(n, m, s)
    <3>1. SameCalls(n, m)
      BY <2>1, <2>8 DEF SameCalls
    <3>2. \A t \in Addresses : /\ SameUse(n.socket[t], m.socket[t])
                               /\ t # s => /\ m.socket[t].invalid = n.socket[t].invalid
                                           /\ m.socket[t].fd = n.socket[t].fd
      <4> HIDE DEF k
      <4> QED
        BY <2>1, <2>7, <2>8 DEF SameUse
    <3>3. FdClosed(n, m, s)
      <4>1. m.socket[s].fd = k.socket[s].fd
        <5> HIDE DEF k
        <5> QED
          BY <2>7, <2>8
      <4> HIDE DEF k
      <4> QED
        BY <2>1, <2>8, <4>1 DEF FdClosed
    <3>4. \A j \in 1..Len(m.slots) : /\ m.slots[j].sock # s
                                      /\ \E h \in 1..Len(n.slots) : m.slots[j] = n.slots[h]
      <4> SUFFICES ASSUME NEW j \in 1..Len(m.slots)
                   PROVE  m.slots[j].sock # s /\ \E h \in 1..Len(n.slots) : m.slots[j] = n.slots[h]
        OBVIOUS
      <4>1. /\ Len(m.slots) = L - 1
            /\ \A h \in 1..L-1 : m.slots[h] = IF h = i THEN n.slots[L] ELSE n.slots[h]
        BY <2>5, <2>8
      <4>2. j \in 1..L-1 /\ j \in 1..L /\ j # L
        BY <2>2, <4>1
      <4>3. CASE j = i
        <5>1. n.slots[L].sock # s
          BY <2>2, <2>3, <4>2, <4>3
        <5> QED
          BY <2>2, <4>1, <4>2, <4>3, <5>1
      <4>4. CASE j # i
        <5>1. n.slots[j].sock # s
          BY <4>2, <4>4 DEF Placed
        <5> QED
          BY <4>1, <4>2, <4>4, <5>1
      <4> QED
        BY <4>3, <4>4
    <3> QED
      BY <2>7, <2>8, <3>1, <3>2, <3>3, <3>4 DEF Invalidated
  <2>10. Placed(m)
    <3>1. /\ Len(m.slots) = L - 1
          /\ \A h \in 1..L-1 : m.slots[h] = IF h = i THEN n.slots[L] ELSE n.slots[h]
      BY <2>5, <2>8
    <3>2. \A t \in Addresses : t # s => Valid(m.socket[t]) = Valid(n.socket[t])
      BY <2>9 DEF Invalidated, SameUse, Valid
    <3>3. ~Valid(m.socket[s])
      BY <2>9 DEF Invalidated, Valid
    <3>4. \A t \in Addresses \ {s, last} : m.socket[t].pollidx = n.socket[t].pollidx
      <4> HIDE DEF k, last
      <4> QED
        BY <2>1, <2>7, <2>8 DEF SamePlace
    <3>5. m.socket[last].pollidx = i
      BY <2>7, <2>8
    <3>6. \A j \in 1..L-1 : /\ Valid(m.socket[m.slots[j].sock])
                            /\ m.socket[m.slots[j].sock].pollidx = j
      <4> SUFFICES ASSUME NEW j \in 1..L-1
                   PROVE  /\ Valid(m.socket[m.slots[j].sock])
                          /\ m.socket[m.slots[j].sock].pollidx = j
        OBVIOUS
      <4>1. j \in 1..L /\ j # L /\ m.slots[j].sock # s
        BY <2>2, <2>9, <3>1 DEF Invalidated
      <4>2. CASE j = i
        <5>1. m.slots[j].sock = last
          BY <3>1, <4>2
        <5> QED
          BY <2>3, <3>2, <3>5, <4>1, <4>2, <5>1
      <4>3. CASE j # i
        <5>1. m.slots[j] = n.slots[j] /\ n.slots[j].sock \in Addresses
          BY <3>1, <4>1, <4>3, SlotParts
        <5>2. Valid(n.socket[n.slots[j].sock]) /\ n.socket[n.slots[j].sock].pollidx = j
          BY <4>1 DEF Placed
        <5>3. n.slots[j].sock # last
          BY <2>3, <4>1, <5>2
        <5> QED
          BY <3>2, <3>4, <4>1, <5>1, <5>2, <5>3
      <4> QED
        BY <4>2, <4>3
    <3>7. \A t \in Addresses : Valid(m.socket[t]) =>
             m.socket[t].pollidx \in 1..L-1 /\ m.slots[m.socket[t].pollidx].sock = t
      <4> SUFFICES ASSUME NEW t \in Addresses, Valid(m.socket[t])
                   PROVE  /\ m.socket[t].pollidx \in 1..L-1
                          /\ m.slots[m.socket[t].pollidx].sock = t
        OBVIOUS
      <4>1. t # s /\ Valid(n.socket[t])
        BY <3>2, <3>3
      <4>2. n.socket[t].pollidx \in 1..L /\ n.slots[n.socket[t].pollidx].sock = t
        BY <4>1 DEF Placed
      <4>3. CASE t = last
        <5>1. i # L
          BY <2>2, <4>1, <4>3
        <5>2. i \in 1..L-1
          BY <2>2, <5>1
        <5> QED
          BY <3>1, <3>5, <4>3, <5>2
      <4>4. CASE t # last
        <5>1. m.socket[t].pollidx = n.socket[t].pollidx
          BY <3>4, <4>1, <4>4
        <5>2. n.socket[t].pollidx # L /\ n.socket[t].pollidx # i
          BY <2>2, <4>1, <4>2, <4>4
        <5>3. n.socket[t].pollidx \in 1..L-1
          BY <2>2, <4>2, <5>2
        <5> QED
          BY <3>1, <4>2, <5>1, <5>2, <5>3
      <4> QED
        BY <4>3, <4>4
    <3>8. \A t \in Addresses : m.socket[t].pollidx <= Cardinality(Addresses)
      <4>1. L <= Cardinality(Addresses) /\ Cardinality(Addresses) \in Nat
        BY SlotsBound, FS_CardinalityType, SocketsAssumption
      <4>2. i <= Cardinality(Addresses)
        BY DEF Placed
      <4>3. s # last => m.socket[s].pollidx = 0
        BY <2>7, <2>8
      <4> HIDE DEF last, i, L
      <4> QED
        BY <3>4, <3>5, <4>1, <4>2, <4>3 DEF Placed
    <3> HIDE DEF Valid
    <3> QED
      BY <3>1, <3>6, <3>7, <3>8 DEF Placed
  <2> QED
    BY <2>8, <2>9, <2>10
<1> QED
  BY <1>1, <1>2

(* Slots and descriptors were at most taken away.                          *)
Shrunk(n, m) ==
    /\ \A i \in 1..Len(m.slots) : \E j \in 1..Len(n.slots) : m.slots[i] = n.slots[j]
    /\ \A t \in Addresses : m.socket[t].fd \in {n.socket[t].fd, INVALID_SOCKET}

(* One reference to s is given up, which frees it when it was the last.    *)
Closed(n, m, s) ==
    /\ Shrunk(n, m)
    /\ \A t \in Addresses : t # s => /\ SameUse(n.socket[t], m.socket[t])
                                     /\ m.socket[t].invalid = n.socket[t].invalid
                                     /\ m.socket[t].fd = n.socket[t].fd
    /\ \/ /\ m.socket[s].alive
          /\ m.socket[s].count = n.socket[s].count - 1 /\ n.socket[s].count > 1
          /\ m.socket[s].ofCall = n.socket[s].ofCall
          /\ m.socket[s].invalid = n.socket[s].invalid
          /\ m.socket[s].fd = n.socket[s].fd
          /\ m.line = n.line
       \/ ~m.socket[s].alive /\ n.socket[s].count = 1

(* The memory of a socket that is not allocated.                           *)
LEMMA UnallocatedObject ==
    /\ Unallocated \in Object
    /\ ~Unallocated.alive /\ Unallocated.pollidx = 0 /\ Unallocated.fd = INVALID_SOCKET
<1>1. FALSE \in BOOLEAN /\ TRUE \in BOOLEAN /\ 0 \in Nat
  OBVIOUS
<1> QED
  BY <1>1 DEF Unallocated, Object

(* sipp_close_socket().                                                    *)
LEMMA CloseEffect ==
    ASSUME NEW n \in Net, Placed(n), NEW s \in Addresses, n.socket[s].alive,
           n.socket[s].count >= 1, NEW m, m = Close(n, s)
    PROVE  m \in Net /\ Placed(m) /\ SameCalls(n, m) /\ Closed(n, m, s)
<1> DEFINE k == [n EXCEPT !.socket[s].count = @ - 1]
           o == [n.socket[s] EXCEPT !.count = @ - 1]
<1>1. o \in Object /\ SamePlace(n.socket[s], o) /\ o.count = n.socket[s].count - 1
      /\ o.ofCall = n.socket[s].ofCall /\ o.fd = n.socket[s].fd
  <2>1. n.socket[s].count - 1 \in Nat
    BY ObjectParts
  <2> QED
    BY <2>1, ObjectParts DEF Object, SamePlace
<1> HIDE DEF o
<1>2. /\ k.socket = [n.socket EXCEPT ![s] = o]
      /\ k.slots = n.slots /\ SameCalls(n, k) /\ k.line = n.line
      /\ k = [n EXCEPT !.socket = k.socket]
  BY DEF Net, SameCalls, o
<1> HIDE DEF k
<1>3. k.socket \in [Addresses -> Object] /\ k.socket[s] = o
      /\ \A t \in Addresses : t # s => k.socket[t] = n.socket[t]
  BY <1>1, <1>2, NetParts
<1>4. k \in Net
  BY <1>2, <1>3 DEF Net
<1>5. Placed(k)
  <2>1. \A t \in Addresses : SamePlace(n.socket[t], k.socket[t])
    BY <1>1, <1>3 DEF SamePlace
  <2> QED
    BY <1>2, <1>4, <2>1, PlacedKept
<1>6. n.socket[s].count \in Nat
  BY ObjectParts
<1>7. m = IF k.socket[s].count > 0 THEN k ELSE [Invalidate(k, s) EXCEPT !.socket[s] = Unallocated]
  BY DEF Close, k
<1>8. CASE k.socket[s].count > 0
  <2>1. m = k
    BY <1>7, <1>8
  <2>2. Shrunk(n, k)
    BY <1>1, <1>2, <1>3 DEF Shrunk
  <2>3. n.socket[s].count > 1
    BY <1>1, <1>3, <1>6, <1>8
  <2>4. /\ k.socket[s].alive = n.socket[s].alive
        /\ k.socket[s].count = n.socket[s].count - 1
        /\ k.socket[s].ofCall = n.socket[s].ofCall
        /\ k.socket[s].invalid = n.socket[s].invalid
        /\ k.socket[s].fd = n.socket[s].fd
    BY <1>1, <1>3 DEF SamePlace
  <2>5. \A t \in Addresses : t # s => SameUse(n.socket[t], k.socket[t])
    BY <1>3 DEF SameUse
  <2> QED
    BY <1>2, <1>3, <1>4, <1>5, <2>1, <2>2, <2>3, <2>4, <2>5 DEF Closed
<1>9. CASE ~(k.socket[s].count > 0)
  <2> DEFINE j == Invalidate(k, s)
  <2>1. j \in Net /\ Placed(j) /\ Invalidated(k, j, s)
    <3>1. k.socket[s].alive
      BY <1>1, <1>3 DEF SamePlace
    <3> QED
      BY <1>4, <1>5, <3>1, InvalidateEffect
  <2>2. m = [j EXCEPT !.socket[s] = Unallocated]
    BY <1>7, <1>9
  <2> HIDE DEF j
  <2>3. /\ m.socket = [j.socket EXCEPT ![s] = Unallocated]
        /\ m.slots = j.slots /\ SameCalls(j, m)
        /\ m = [j EXCEPT !.socket = m.socket]
    BY <2>1, <2>2 DEF Net, SameCalls
  <2>4. /\ m.socket \in [Addresses -> Object] /\ m.socket[s] = Unallocated
        /\ \A t \in Addresses : t # s => m.socket[t] = j.socket[t]
    BY <2>1, <2>3, UnallocatedObject, NetParts
  <2>5. m \in Net
    BY <2>1, <2>3, <2>4 DEF Net
  <2>6. Placed(m)
    <3>1. ~Valid(j.socket[s]) /\ ~Valid(m.socket[s])
      BY <2>1, <2>4, UnallocatedObject DEF Invalidated, Valid
    <3>2. m.socket[s].pollidx <= Cardinality(Addresses)
      BY <2>4, UnallocatedObject, FS_CardinalityType, SocketsAssumption
    <3>3. \A t \in Addresses : t # s => SamePlace(j.socket[t], m.socket[t])
      BY <2>4 DEF SamePlace
    <3> QED
      BY <2>1, <2>3, <2>5, <3>1, <3>2, <3>3, PlacedKept
  <2>7. \A t \in Addresses : t # s => /\ SameUse(n.socket[t], m.socket[t])
                                      /\ m.socket[t].invalid = n.socket[t].invalid
                                      /\ m.socket[t].fd = n.socket[t].fd
    BY <1>3, <2>1, <2>4 DEF Invalidated, SameUse
  <2>8. Shrunk(n, m)
    BY <1>2, <2>1, <2>3, <2>4, <2>7, UnallocatedObject DEF Shrunk, Invalidated
  <2>9. SameCalls(n, m)
    BY <1>2, <2>1, <2>3 DEF Invalidated, SameCalls
  <2>10. ~m.socket[s].alive /\ n.socket[s].count = 1
    BY <1>1, <1>3, <1>6, <1>9, <2>4, UnallocatedObject
  <2> QED
    BY <2>5, <2>6, <2>7, <2>8, <2>9, <2>10 DEF Closed
<1> QED
  BY <1>8, <1>9

-----------------------------------------------------------------------------
(***************************************************************************)
(* Calls come to sockets and leave them.                                   *)
(***************************************************************************)
(* A socket has finitely many users.                                       *)
LEMMA UsersFinite ==
    ASSUME NEW n, NEW s
    PROVE  IsFiniteSet(UsersOf(n, s)) /\ Cardinality(UsersOf(n, s)) \in Nat
<1>1. UsersOf(n, s) \in SUBSET Calls
  BY DEF UsersOf
<1> QED
  BY <1>1, FS_Subset, FS_CardinalityType, SocketsAssumption

(* A call counts.                                                          *)
LEMMA UserCounts ==
    ASSUME NEW n, Sound(n), NEW c \in Calls, NEW s \in Addresses, n.call_socket[c] = s
    PROVE  n.socket[s].alive /\ n.socket[s].count >= 1
<1>1. s # NoSocket
  BY SocketsAssumption
<1>2. n.socket[s].alive
  BY <1>1 DEF Sound, Held
<1>3. c \in UsersOf(n, s)
  BY DEF UsersOf
<1>4. Cardinality(UsersOf(n, s)) >= 1
  BY <1>3, UsersFinite, FS_EmptySet
<1>5. n.socket[s].count >= References(n, s) /\ n.socket[s].count \in Nat
  BY <1>2, ObjectParts DEF Sound, Counted
<1> QED
  BY <1>2, <1>4, <1>5, UsersFinite DEF References

(* Call c gives up its socket s with its reference.                        *)
Left(n, m, c, s) ==
    /\ m.call_socket = [n.call_socket EXCEPT ![c] = NoSocket]
    /\ \A t \in Addresses : n.owners[t] \ {c} \subseteq m.owners[t]
    /\ \A d \in Calls : d # c => m.call[d] = n.call[d]
    /\ \A t \in Addresses : t # s => SameUse(n.socket[t], m.socket[t])
    /\ \/ /\ m.socket[s].alive
          /\ m.socket[s].count = n.socket[s].count - 1
          /\ m.socket[s].ofCall = n.socket[s].ofCall
       \/ ~m.socket[s].alive /\ n.socket[s].count = 1

(* Then users and counts are right again.                                  *)
LEMMA Leaves ==
    ASSUME NEW n, Sound(n), NEW c \in Calls, NEW s \in Addresses, n.call_socket[c] = s,
           NEW m \in Net, Placed(m), Left(n, m, c, s)
    PROVE  /\ Sound(m)
           /\ CountedExactly(n) => CountedExactly(m)
           /\ \A t \in Addresses : UsersOf(m, t) = UsersOf(n, t) \ {c}
<1>1. n \in Net /\ n.call_socket \in [Calls -> Addresses \cup {NoSocket}]
      /\ m.call_socket \in [Calls -> Addresses \cup {NoSocket}]
  BY NetParts DEF Sound
<1>2. \A t \in Addresses : UsersOf(m, t) = UsersOf(n, t) \ {c}
  <2>1. \A d \in Calls : m.call_socket[d] = IF d = c THEN NoSocket ELSE n.call_socket[d]
    BY <1>1 DEF Left
  <2> QED
    BY <2>1, SocketsAssumption DEF UsersOf
<1>3. \A t \in Addresses : c \in UsersOf(n, t) <=> t = s
  BY DEF UsersOf
<1>4. /\ Cardinality(UsersOf(n, s)) = Cardinality(UsersOf(m, s)) + 1
      /\ \A t \in Addresses : t # s => UsersOf(m, t) = UsersOf(n, t)
  <2>1. Cardinality(UsersOf(n, s) \ {c}) = Cardinality(UsersOf(n, s)) - 1
    BY <1>3, UsersFinite, FS_RemoveElement
  <2>2. \A t \in Addresses : t # s => UsersOf(m, t) = UsersOf(n, t)
    BY <1>2, <1>3
  <2>3. Cardinality(UsersOf(n, s)) \in Nat
    BY UsersFinite
  <2>4. UsersOf(m, s) = UsersOf(n, s) \ {c}
    BY <1>2
  <2>5. Cardinality(UsersOf(m, s)) = Cardinality(UsersOf(n, s)) - 1
    BY <2>1, <2>4
  <2>6. Cardinality(UsersOf(n, s)) = Cardinality(UsersOf(m, s)) + 1
    BY <2>3, <2>5
  <2> QED
    BY <2>2, <2>6
<1>5. \A t \in Addresses : t # s => References(m, t) = References(n, t)
  BY <1>4 DEF References, Left, SameUse
<1>6. m.socket[s].alive => References(m, s) = References(n, s) - 1
  <2>1. Cardinality(UsersOf(m, s)) \in Nat
    BY UsersFinite
  <2> QED
    BY <1>4, <2>1 DEF References, Left
<1>7. n.socket[s].alive /\ n.socket[s].count \in Nat
  BY <1>1, UserCounts, ObjectParts
<1>8. References(n, s) \in Nat
  <2>1. Cardinality(UsersOf(n, s)) \in Nat
    BY UsersFinite
  <2> QED
    BY <2>1 DEF References
<1>9. Counted(m)
  <2> SUFFICES ASSUME NEW t \in Addresses, m.socket[t].alive
               PROVE  m.socket[t].count >= References(m, t)
    BY DEF Counted
  <2>1. CASE t = s
    <3>1. n.socket[s].count >= References(n, s)
      BY <1>7 DEF Sound, Counted
    <3>2. m.socket[s].count = n.socket[s].count - 1
      BY <2>1 DEF Left
    <3> QED
      BY <1>6, <1>7, <1>8, <2>1, <3>1, <3>2
  <2>2. CASE t # s
    BY <1>5, <2>2 DEF Left, SameUse, Sound, Counted
  <2> QED
    BY <2>1, <2>2
<1>10. CountedExactly(n) => CountedExactly(m)
  <2> SUFFICES ASSUME CountedExactly(n), NEW t \in Addresses, m.socket[t].alive
               PROVE  m.socket[t].count = References(m, t)
    BY DEF CountedExactly
  <2>1. CASE t = s
    <3>1. n.socket[s].count = References(n, s)
      BY <1>7 DEF CountedExactly
    <3>2. m.socket[s].count = n.socket[s].count - 1
      BY <2>1 DEF Left
    <3> QED
      BY <1>6, <1>7, <1>8, <2>1, <3>1, <3>2
  <2>2. CASE t # s
    BY <1>5, <2>2 DEF Left, SameUse, CountedExactly
  <2> QED
    BY <2>1, <2>2
<1>11. Held(m)
  <2> SUFFICES ASSUME NEW d \in Calls, m.call_socket[d] # NoSocket
               PROVE  /\ m.call[d] = "open"
                      /\ m.socket[m.call_socket[d]].alive
                      /\ d \in m.owners[m.call_socket[d]]
    BY DEF Held
  <2> DEFINE t == m.call_socket[d]
  <2>1. d # c /\ t = n.call_socket[d] /\ t \in Addresses
    BY <1>1 DEF Left
  <2>2. n.call[d] = "open" /\ n.socket[t].alive /\ d \in n.owners[t]
    BY <2>1 DEF Sound, Held
  <2>3. m.socket[t].alive
    <3>1. CASE t = s
      <4>1. d \in UsersOf(m, s)
        BY <3>1 DEF UsersOf
      <4>2. Cardinality(UsersOf(m, s)) >= 1
        BY <4>1, UsersFinite, FS_EmptySet
      <4>3. References(n, s) >= 2
        BY <1>4, <4>2, UsersFinite DEF References
      <4>4. n.socket[s].count # 1
        BY <1>7, <1>8, <4>3 DEF Sound, Counted
      <4> QED
        BY <3>1, <4>4 DEF Left
    <3>2. CASE t # s
      BY <2>1, <2>2, <3>2 DEF Left, SameUse
    <3> QED
      BY <3>1, <3>2
  <2> QED
    BY <2>1, <2>2, <2>3 DEF Left
<1> QED
  BY <1>2, <1>9, <1>10, <1>11 DEF Sound

(* ~socketowner() and the end of the call.                                 *)
Deleted(n, m, c) ==
    LET s == n.call_socket[c]
    IN  /\ m.call = [n.call EXCEPT ![c] = "over"]
        /\ m.call_socket = [n.call_socket EXCEPT ![c] = NoSocket]
        /\ s = NoSocket => /\ m.owners = n.owners /\ m.socket = n.socket
                           /\ m.slots = n.slots /\ m.line = n.line
        /\ s # NoSocket => /\ m.owners = [n.owners EXCEPT ![s] = @ \ {c}]
                           /\ Closed(n, m, s)

(* That is what ~socketowner() does.                                       *)
LEMMA DeleteCallEffect ==
    ASSUME NEW n, Sound(n), NEW c \in Calls, NEW m, m = DeleteCall(n, c)
    PROVE  m \in Net /\ Placed(m) /\ Deleted(n, m, c)
<1> DEFINE s == n.call_socket[c]
           k == [n EXCEPT !.call[c] = "over", !.call_socket[c] = NoSocket]
<1>1. n \in Net /\ Placed(n) /\ s \in Addresses \cup {NoSocket}
  BY NetParts DEF Sound
<1>2. /\ k.call = [n.call EXCEPT ![c] = "over"]
      /\ k.call_socket = [n.call_socket EXCEPT ![c] = NoSocket]
      /\ k.owners = n.owners /\ k.socket = n.socket /\ k.slots = n.slots /\ k.line = n.line
      /\ k = [n EXCEPT !.call = k.call, !.call_socket = k.call_socket]
  <2> HIDE DEF s
  <2> QED
    BY <1>1 DEF Net
<1>3. k \in Net
  <2>1. /\ [n.call EXCEPT ![c] = "over"] \in [Calls -> {"new", "open", "over"}]
        /\ [n.call_socket EXCEPT ![c] = NoSocket] \in [Calls -> Addresses \cup {NoSocket}]
    BY <1>1, NetParts
  <2> HIDE DEF k
  <2> QED
    BY <1>1, <1>2, <2>1 DEF Net
<1>4. m = IF s = NoSocket THEN k ELSE Close([k EXCEPT !.owners[s] = @ \ {c}], s)
  BY DEF DeleteCall
<1> HIDE DEF k
<1>5. CASE s = NoSocket
  <2>1. m = k
    BY <1>4, <1>5
  <2>2. Placed(m)
    BY <1>1, <1>2, <1>3, <2>1, PlacedKept DEF SamePlace
  <2> QED
    BY <1>2, <1>3, <1>5, <2>1, <2>2 DEF Deleted
<1>6. CASE s # NoSocket
  <2> DEFINE j == [k EXCEPT !.owners[s] = @ \ {c}]
  <2> HIDE DEF s
  <2>1. s \in Addresses
    BY <1>1, <1>6
  <2>2. /\ j.owners = [n.owners EXCEPT ![s] = @ \ {c}]
        /\ j.call = k.call /\ j.call_socket = k.call_socket
        /\ j.socket = n.socket /\ j.slots = n.slots /\ j.line = n.line
        /\ j = [k EXCEPT !.owners = j.owners]
    BY <1>2, <1>3 DEF Net
  <2> HIDE DEF j
  <2>3. j \in Net
    <3>1. [n.owners EXCEPT ![s] = @ \ {c}] \in [Addresses -> SUBSET Calls]
      BY <1>1, <2>1, NetParts
    <3> QED
      BY <1>3, <2>2, <3>1 DEF Net
  <2>4. Placed(j)
    BY <1>1, <2>2, <2>3, PlacedKept DEF SamePlace
  <2>5. n.socket[s].alive /\ n.socket[s].count >= 1
    BY <2>1, UserCounts DEF s
  <2>6. m = Close(j, s)
    BY <1>4, <1>6 DEF j
  <2>7. m \in Net /\ Placed(m) /\ SameCalls(j, m) /\ Closed(j, m, s)
    BY <2>1, <2>2, <2>3, <2>4, <2>5, <2>6, CloseEffect
  <2>8. Closed(n, m, s)
    BY SMTT(40), <2>2, <2>7 DEF Closed, Shrunk
  <2> QED
    BY <1>2, <1>6, <2>2, <2>7, <2>8 DEF Deleted, SameCalls, s
<1> QED
  BY <1>5, <1>6

(* Descriptors of slots stay right when some are closed.                   *)
LEMMA FdsAgreeShrunk ==
    ASSUME NEW n \in Net, NEW m \in Net, FdsAgree(n), Shrunk(n, m)
    PROVE  FdsAgree(m)
<1> SUFFICES ASSUME NEW i \in 1..Len(m.slots)
             PROVE  m.socket[m.slots[i].sock].fd \in {m.slots[i].fd, INVALID_SOCKET}
  BY DEF FdsAgree
<1>1. PICK j \in 1..Len(n.slots) : m.slots[i] = n.slots[j]
  BY DEF Shrunk
<1>2. n.slots[j].sock \in Addresses
  BY SlotParts
<1>3. n.socket[n.slots[j].sock].fd \in {n.slots[j].fd, INVALID_SOCKET}
  BY DEF FdsAgree
<1> QED
  BY <1>1, <1>2, <1>3 DEF Shrunk

(* The deletion of a call keeps the tables right.                          *)
LEMMA DeleteCallKeeps ==
    ASSUME NEW n, NEW but, TablesBut(n, but), NEW c \in Calls, NEW m, m = DeleteCall(n, c)
    PROVE  /\ TablesBut(m, but)
           /\ m.call_socket = [n.call_socket EXCEPT ![c] = NoSocket]
           /\ Shrunk(n, m)
<1> DEFINE s == n.call_socket[c]
<1>1. Sound(n) /\ n \in Net /\ Placed(n) /\ s \in Addresses \cup {NoSocket}
  BY NetParts DEF Sound, TablesBut
<1>2. m \in Net /\ Placed(m) /\ Deleted(n, m, c)
  BY <1>1, DeleteCallEffect
<1>3. \A d \in Calls : /\ m.call_socket[d] = IF d = c THEN NoSocket ELSE n.call_socket[d]
                       /\ m.call[d] = IF d = c THEN "over" ELSE n.call[d]
  BY <1>1, <1>2, NetParts DEF Deleted
<1>4. Attached(n) => Attached(m)
  BY <1>3 DEF Attached
<1>5. CASE s = NoSocket
  <2>1. m.owners = n.owners /\ m.socket = n.socket /\ m.slots = n.slots /\ m.line = n.line
    BY <1>2, <1>5 DEF Deleted
  <2>2. \A d \in Calls : m.call_socket[d] = n.call_socket[d]
    BY <1>3, <1>5
  <2>3. \A t : UsersOf(m, t) = UsersOf(n, t)
    BY <2>2 DEF UsersOf
  <2>4. \A t : References(m, t) = References(n, t)
    BY <2>1, <2>3 DEF References
  <2>5. Held(m)
    BY <1>1, <1>3, <1>5, <2>1, <2>2 DEF Sound, Held
  <2>6. Counted(m)
    BY <1>1, <2>1, <2>4 DEF Sound, Counted
  <2>7. Sound(m)
    BY <1>2, <2>5, <2>6 DEF Sound
  <2>8. Exact(n) => Exact(m)
    BY <2>1, <2>3, <2>4 DEF Exact, OwnedExactly, CountedExactly
  <2>9. ValidBut(n, but) => ValidBut(m, but)
    BY <2>1, <2>2 DEF ValidBut
  <2>10. Kept(n) => Kept(m)
    BY <2>1 DEF Kept
  <2>11. FdsAgree(n) => FdsAgree(m)
    BY <2>1 DEF FdsAgree
  <2>12. Single(n) => Single(m)
    BY <2>1, <2>2 DEF Single
  <2>13. Shrunk(n, m)
    BY <2>1 DEF Shrunk
  <2>14. TablesBut(m, but)
    BY <1>4, <2>7, <2>8, <2>9, <2>10, <2>11, <2>12 DEF TablesBut
  <2> QED
    BY <1>2, <2>13, <2>14 DEF Deleted
<1>6. CASE s # NoSocket
  <2>1. s \in Addresses
    BY <1>1, <1>6
  <2>2. m.owners = [n.owners EXCEPT ![s] = @ \ {c}] /\ Closed(n, m, s)
    BY <1>2, <1>6 DEF Deleted
  <2>3. \A t \in Addresses : m.owners[t] = IF t = s THEN n.owners[t] \ {c} ELSE n.owners[t]
    BY <1>1, <2>2, NetParts
  <2>4. Left(n, m, c, s)
    <3>1. \A t \in Addresses : n.owners[t] \ {c} \subseteq m.owners[t]
      BY <2>3
    <3>2. m.call_socket = [n.call_socket EXCEPT ![c] = NoSocket]
      BY <1>2 DEF Deleted
    <3> HIDE DEF s
    <3> QED
      BY <1>3, <2>2, <3>1, <3>2 DEF Left, Closed
  <2>5. /\ Sound(m)
        /\ CountedExactly(n) => CountedExactly(m)
        /\ \A t \in Addresses : UsersOf(m, t) = UsersOf(n, t) \ {c}
    <3>1. n.call_socket[c] = s
      OBVIOUS
    <3> HIDE DEF s
    <3> QED
      BY <1>1, <1>2, <2>1, <2>4, <3>1, Leaves
  <2>6. OwnedExactly(n) => OwnedExactly(m)
    <3> SUFFICES ASSUME OwnedExactly(n), NEW t \in Addresses PROVE m.owners[t] = UsersOf(m, t)
      BY DEF OwnedExactly
    <3>1. c \in UsersOf(n, t) <=> t = s
      BY DEF UsersOf
    <3> HIDE DEF s
    <3> QED
      BY <2>3, <2>5, <3>1 DEF OwnedExactly
  <2> HIDE DEF s
  <2>7. ValidBut(n, but) => ValidBut(m, but)
    <3> SUFFICES ASSUME ValidBut(n, but), NEW d \in Calls,
                        m.call_socket[d] \notin {NoSocket, but}
                 PROVE  ~m.socket[m.call_socket[d]].invalid
      BY DEF ValidBut
    <3> DEFINE t == m.call_socket[d]
    <3>1. d # c /\ t = n.call_socket[d] /\ t \in Addresses
      BY <1>1, <1>3, NetParts
    <3>2. ~n.socket[t].invalid
      BY <3>1 DEF ValidBut
    <3>3. m.socket[t].alive
      BY <2>5, <3>1 DEF Sound, Held
    <3>4. m.socket[t].invalid = n.socket[t].invalid
      BY <2>2, <3>1, <3>3 DEF Closed
    <3> QED
      BY <3>2, <3>4
  <2>8. Kept(n) => /\ Kept(m)
                   /\ m.socket[Multiplex].fd = n.socket[Multiplex].fd
                   /\ s = Multiplex => m.line = n.line /\ \A t \in Addresses :
                                                              m.socket[t].fd = n.socket[t].fd
    <3> SUFFICES ASSUME Kept(n)
                 PROVE  /\ Kept(m)
                        /\ m.socket[Multiplex].fd = n.socket[Multiplex].fd
                        /\ s = Multiplex => m.line = n.line /\ \A t \in Addresses :
                                                                  m.socket[t].fd = n.socket[t].fd
      OBVIOUS
    <3>1. Multiplex \in Addresses
      BY SocketsAssumption
    <3>2. CASE s # Multiplex
      BY <2>2, <3>1, <3>2 DEF Closed, SameUse, Kept
    <3>3. CASE s = Multiplex
      <4>1. n.socket[s].count # 1
        <5>1. c \in UsersOf(n, s)
          BY DEF UsersOf, s
        <5>2. Cardinality(UsersOf(n, s)) >= 1
          BY <5>1, UsersFinite, FS_EmptySet
        <5>3. References(n, s) >= 2
          BY <3>3, <5>2, UsersFinite DEF References, Kept
        <5>4. n.socket[s].count >= References(n, s) /\ n.socket[s].count \in Nat
          BY <1>1, <2>1, <3>3, ObjectParts DEF Sound, Counted, Kept
        <5>5. References(n, s) \in Nat
          BY UsersFinite DEF References
        <5> QED
          BY <5>3, <5>4, <5>5
      <4>2. /\ m.socket[s].alive /\ m.socket[s].ofCall = n.socket[s].ofCall
            /\ m.socket[s].fd = n.socket[s].fd /\ m.line = n.line
        BY <2>2, <4>1 DEF Closed
      <4>3. \A t \in Addresses : m.socket[t].fd = n.socket[t].fd
        BY <2>2, <4>2 DEF Closed
      <4> QED
        BY <3>3, <4>2, <4>3 DEF Kept
    <3> QED
      BY <3>2, <3>3
  <2>9. Shrunk(n, m)
    BY <2>2 DEF Closed
  <2>10. FdsAgree(n) => FdsAgree(m)
    BY <1>1, <1>2, <2>9, FdsAgreeShrunk
  <2>11. Kept(n) /\ Single(n) => Single(m)
    <3> SUFFICES ASSUME Kept(n), Single(n) PROVE Single(m)
      OBVIOUS
    <3>1. s = Multiplex
      BY <1>6, <2>1 DEF Single, s
    <3>2. m.line = n.line /\ \A t \in Addresses : m.socket[t].fd = n.socket[t].fd
      BY <2>8, <3>1
    <3>3. m.socket[Main].fd = n.socket[Main].fd /\ m.socket[Multiplex].fd = n.socket[Multiplex].fd
      BY <3>2, SocketsAssumption
    <3>4. \A d \in Calls : m.call_socket[d] \in {NoSocket, Multiplex}
      BY <1>3 DEF Single
    <3>5. \A i \in 1..Len(m.slots) :
             m.slots[i] \in {[sock |-> Main, fd |-> 0], [sock |-> Multiplex, fd |-> 1]}
      BY <2>9 DEF Shrunk, Single
    <3> QED
      BY <3>2, <3>3, <3>4, <3>5 DEF Single
  <2>12. TablesBut(m, but)
    <3>1. CallsStay => Exact(m)
      BY <2>5, <2>6 DEF TablesBut, Exact
    <3>2. CallsStay /\ config.multisocket => ValidBut(m, but)
      BY <2>7 DEF TablesBut
    <3>3. ~config.multisocket /\ ~config.closecon => Attached(m)
      BY <1>4 DEF TablesBut
    <3>4. Solo => Kept(m)
      BY <2>8 DEF TablesBut
    <3>5. config.resets = 0 /\ ~config.setdest => FdsAgree(m)
      BY <2>10 DEF TablesBut
    <3>6. Alone => Single(m)
      BY <2>11 DEF TablesBut, Alone
    <3> QED
      BY <2>5, <3>1, <3>2, <3>3, <3>4, <3>5, <3>6 DEF TablesBut
  <2> QED
    BY <1>2, <2>9, <2>12 DEF Deleted
<1> QED
  BY <1>5, <1>6

(* close_calls() keeps the tables right, and the calls that it closes have *)
(* no socket afterwards; other calls stay.                                 *)
LEMMA CloseCallsKeeps ==
    ASSUME NEW n, NEW but, TablesBut(n, but), NEW s \in Addresses, NEW m, m = CloseCalls(n, s)
    PROVE  /\ TablesBut(m, but)
           /\ \A t \in Addresses : m.socket[t].fd \in {n.socket[t].fd, INVALID_SOCKET}
           /\ \A c \in Calls : m.call_socket[c] \in {n.call_socket[c], NoSocket}
           /\ \A c \in n.owners[s] : m.call_socket[c] = NoSocket
           /\ \A c \in Calls \ n.owners[s] : m.call[c] = n.call[c]
<1>1. n \in Net /\ n.owners[s] \in SUBSET Calls /\ IsFiniteSet(n.owners[s])
  <2>1. n \in Net
    BY DEF TablesBut, Sound
  <2>2. n.owners[s] \in SUBSET Calls
    BY <2>1, NetParts
  <2> QED
    BY <2>1, <2>2, FS_Subset, SocketsAssumption
<1> DEFINE S == n.owners[s]
           After(T, k) ==
               /\ TablesBut(k, but)
               /\ \A t \in Addresses : k.socket[t].fd \in {n.socket[t].fd, INVALID_SOCKET}
               /\ \A c \in Calls : k.call_socket[c] \in {n.call_socket[c], NoSocket}
               /\ \A c \in T : k.call_socket[c] = NoSocket
               /\ \A c \in Calls \ S : k.call[c] = n.call[c]
           G == {p \in (SUBSET S) \X Net : After(p[1], p[2])}
<1> HIDE DEF S
<1>2. \A T \in SUBSET S : \A k \in Net : <<T, k>> \in G <=> After(T, k)
  <2> HIDE DEF After
  <2> QED
    OBVIOUS
<1>3. <<{}, n>> \in G
  BY <1>1, <1>2
<1>4. \A T \in SUBSET S : \A k : \A c \in S \ T :
         <<T, k>> \in G => <<T \cup {c}, DeleteCall(k, c)>> \in G
  <2> SUFFICES ASSUME NEW T \in SUBSET S, NEW k, NEW c \in S \ T, <<T, k>> \in G
               PROVE  <<T \cup {c}, DeleteCall(k, c)>> \in G
    OBVIOUS
  <2> DEFINE j == DeleteCall(k, c)
  <2>1. k \in Net /\ After(T, k)
    BY <1>2
  <2>2. c \in Calls /\ S \subseteq Calls
    BY <1>1 DEF S
  <2>3. /\ TablesBut(j, but)
        /\ j.call_socket = [k.call_socket EXCEPT ![c] = NoSocket]
        /\ Shrunk(k, j)
    BY <2>1, <2>2, DeleteCallKeeps
  <2>4. j \in Net
    BY <2>3 DEF TablesBut, Sound
  <2>5. Deleted(k, j, c)
    BY <2>1, <2>2, DeleteCallEffect DEF TablesBut
  <2> HIDE DEF j
  <2>6. \A d \in Calls : /\ j.call_socket[d] = IF d = c THEN NoSocket ELSE k.call_socket[d]
                         /\ d # c => j.call[d] = k.call[d]
    BY <2>1, <2>3, <2>5, NetParts DEF Deleted
  <2>7. \A t \in Addresses : j.socket[t].fd \in {n.socket[t].fd, INVALID_SOCKET}
    BY <2>1, <2>3 DEF Shrunk
  <2>8. After(T \cup {c}, j)
    BY <2>1, <2>2, <2>3, <2>6, <2>7
  <2>9. T \cup {c} \in SUBSET S
    OBVIOUS
  <2>10. <<T \cup {c}, j>> \in G
    BY <1>2, <2>4, <2>8, <2>9
  <2> QED
    BY <2>10 DEF j
<1>5. <<S, CloseCalls(n, s)>> \in G
  <2> HIDE DEF G
  <2> QED
    BY <1>1, <1>3, <1>4, CloseCallsInduction DEF S
<1>6. After(S, m)
  BY <1>5
<1> QED
  BY <1>6 DEF S

-----------------------------------------------------------------------------
(***************************************************************************)
(* Sockets get a descriptor and a slot.                                    *)
(***************************************************************************)
(* socket() returns a descriptor that is free.                             *)
LEMMA LowestIsFree ==
    ASSUME NEW n \in Net, FreeFds(n) # {}
    PROVE  /\ LowestFd(n) \in Fd /\ n.line[LowestFd(n)] = "closed"
           /\ \A f \in FreeFds(n) : LowestFd(n) <= f
<1>1. FreeFds(n) \in SUBSET Nat
  BY SocketsAssumption DEF FreeFds, Fd
<1>2. \E f \in FreeFds(n) : \A g \in FreeFds(n) : f <= g
  BY <1>1, Least
<1>3. LowestFd(n) \in FreeFds(n) /\ \A g \in FreeFds(n) : LowestFd(n) <= g
  BY <1>2 DEF LowestFd
<1> QED
  BY <1>3 DEF FreeFds

Allocated(n, m, s, fd, for, l) ==
    /\ SameCalls(n, m)
    /\ m.line = [n.line EXCEPT ![fd] = l]
    /\ m.slots = Append(n.slots, [sock |-> s, fd |-> fd])
    /\ \A t \in Addresses : t # s => m.socket[t] = n.socket[t]
    /\ m.socket[s].alive /\ ~m.socket[s].invalid /\ m.socket[s].fd = fd
    /\ m.socket[s].count = 1 /\ (m.socket[s].ofCall <=> for = "call")

(* sipp_allocate_socket().                                                 *)
LEMMA AllocateEffect ==
    ASSUME NEW n \in Net, Placed(n), NEW s \in Addresses, ~n.socket[s].alive, NEW fd \in Fd,
           NEW for, NEW l \in Line, NEW m, m = Allocate(n, s, fd, for, l)
    PROVE  m \in Net /\ Placed(m) /\ Allocated(n, m, s, fd, for, l)
<1> DEFINE o == [alive |-> TRUE, fd |-> fd, invalid |-> FALSE,
                 pollidx |-> Len(n.slots) + 1, count |-> 1,
                 ofCall |-> for = "call", changed |-> FALSE]
           slot == [sock |-> s, fd |-> fd]
           b == for = "call"
<1>1. Len(n.slots) + 1 \in Nat
  BY NetParts
<1>2. /\ o \in Object /\ o.alive /\ ~o.invalid /\ o.pollidx = Len(n.slots) + 1
      /\ o.fd = fd /\ o.count = 1 /\ (o.ofCall <=> for = "call")
  <2>1. CASE b
    <3>1. o = [alive |-> TRUE, fd |-> fd, invalid |-> FALSE, pollidx |-> Len(n.slots) + 1,
               count |-> 1, ofCall |-> TRUE, changed |-> FALSE]
      BY <2>1, Zenon
    <3> HIDE DEF o
    <3>2. /\ o \in Object /\ o.alive /\ ~o.invalid /\ o.pollidx = Len(n.slots) + 1
          /\ o.fd = fd /\ o.count = 1 /\ o.ofCall
      BY <1>1, <3>1 DEF Object
    <3> QED
      BY <2>1, <3>2
  <2>2. CASE ~b
    <3>1. o = [alive |-> TRUE, fd |-> fd, invalid |-> FALSE, pollidx |-> Len(n.slots) + 1,
               count |-> 1, ofCall |-> FALSE, changed |-> FALSE]
      BY <2>2, Zenon
    <3> HIDE DEF o
    <3>2. /\ o \in Object /\ o.alive /\ ~o.invalid /\ o.pollidx = Len(n.slots) + 1
          /\ o.fd = fd /\ o.count = 1 /\ ~o.ofCall
      BY <1>1, <3>1 DEF Object
    <3> QED
      BY <2>2, <3>2
  <2> QED
    BY <2>1, <2>2
<1> HIDE DEF o
<1>3. slot \in Slot
  BY DEF Slot
<1> HIDE DEF slot
<1>4. /\ m.socket = [n.socket EXCEPT ![s] = o]
      /\ m.slots = Append(n.slots, slot)
      /\ m.line = [n.line EXCEPT ![fd] = l]
      /\ SameCalls(n, m)
      /\ m = [n EXCEPT !.socket = m.socket, !.slots = m.slots, !.line = m.line]
  BY DEF Allocate, Net, SameCalls, o, slot
<1>5. /\ m.socket \in [Addresses -> Object] /\ m.socket[s] = o
      /\ \A t \in Addresses : t # s => m.socket[t] = n.socket[t]
  BY <1>2, <1>4, NetParts
<1>6. m.slots \in Seq(Slot) /\ m.line \in [Fd -> Line]
  BY <1>3, <1>4, NetParts, AppendProperties
<1>7. m \in Net
  BY <1>4, <1>5, <1>6 DEF Net
<1>8. Placed(m)
  <2>1. ~Valid(n.socket[s]) /\ Valid(m.socket[s])
    BY <1>2, <1>5 DEF Valid
  <2>2. \A t \in Addresses : t # s => SamePlace(n.socket[t], m.socket[t])
    BY <1>5 DEF SamePlace
  <2>3. m.socket[s].pollidx = Len(n.slots) + 1
    BY <1>2, <1>5
  <2>4. m.slots = Append(n.slots, [sock |-> s, fd |-> fd])
    BY <1>4 DEF slot
  <2> QED
    BY <1>7, <2>1, <2>2, <2>3, <2>4, PlacedAppended
<1> QED
  BY <1>2, <1>4, <1>5, <1>7, <1>8 DEF slot, Allocated

(* sipp_reconnect_socket().                                                *)
LEMMA ReconnectEffect ==
    ASSUME NEW n \in Net, Placed(n), NEW s \in Addresses, n.socket[s].alive,
           FreeFds(n) # {}, NEW l \in Line, NEW m, m = Reconnect(n, s, l)
    PROVE  /\ m \in Net /\ Placed(m) /\ SameCalls(n, m)
           /\ m.line = [n.line EXCEPT ![LowestFd(n)] = l]
           /\ \/ m.slots = n.slots
              \/ m.slots = Append(n.slots, [sock |-> s, fd |-> LowestFd(n)])
           /\ \A t \in Addresses : /\ t # s => m.socket[t] = n.socket[t]
                                   /\ SameUse(n.socket[t], m.socket[t])
           /\ ~m.socket[s].invalid /\ m.socket[s].fd = LowestFd(n)
<1> DEFINE fd == LowestFd(n)
           k == [n EXCEPT !.socket[s].fd = fd, !.line[fd] = l]
           o == [n.socket[s] EXCEPT !.fd = fd]
<1>1. fd \in Fd
  BY LowestIsFree
<1> HIDE DEF fd
<1>2. /\ o \in Object /\ SameUse(n.socket[s], o) /\ SamePlace(n.socket[s], o) /\ o.fd = fd
  BY <1>1, ObjectParts DEF Object, SameUse, SamePlace
<1> HIDE DEF o
<1>3. /\ k.socket = [n.socket EXCEPT ![s] = o]
      /\ k.line = [n.line EXCEPT ![fd] = l]
      /\ k.slots = n.slots /\ SameCalls(n, k)
      /\ k = [n EXCEPT !.socket = k.socket, !.line = k.line]
  BY DEF Net, SameCalls, o
<1>4. m = IF ~n.socket[s].invalid THEN k
          ELSE [k EXCEPT !.socket[s].pollidx = Len(n.slots) + 1,
                         !.socket[s].invalid = FALSE,
                         !.slots = Append(@, [sock |-> s, fd |-> fd])]
  BY DEF Reconnect, fd
<1> HIDE DEF k
<1>5. /\ k.socket \in [Addresses -> Object] /\ k.socket[s] = o
      /\ \A t \in Addresses : t # s => k.socket[t] = n.socket[t]
      /\ k.line \in [Fd -> Line]
  BY <1>1, <1>2, <1>3, NetParts
<1>6. k \in Net
  BY ZenonT(60), <1>3, <1>5 DEF Net
<1>7. \A t \in Addresses : /\ SameUse(n.socket[t], k.socket[t])
                           /\ SamePlace(n.socket[t], k.socket[t])
  BY <1>2, <1>5 DEF SameUse, SamePlace
<1>8. Placed(k)
  BY <1>3, <1>6, <1>7, PlacedKept
<1>9. CASE ~n.socket[s].invalid
  <2>1. m = k
    BY <1>4, <1>9
  <2>2. ~k.socket[s].invalid
    BY <1>7, <1>9 DEF SamePlace
  <2> QED
    BY <1>2, <1>3, <1>5, <1>6, <1>7, <1>8, <2>1, <2>2 DEF fd
<1>10. CASE n.socket[s].invalid
  <2> DEFINE p == [k.socket[s] EXCEPT !.pollidx = Len(n.slots) + 1]
             q == [p EXCEPT !.invalid = FALSE]
             slot == [sock |-> s, fd |-> fd]
  <2>1. Len(n.slots) \in Nat /\ Len(n.slots) + 1 \in Nat
    BY NetParts
  <2>2. k.socket[s] \in Object
    BY <1>2, <1>5
  <2>3. p \in Object /\ p.pollidx = Len(n.slots) + 1 /\ SameUse(k.socket[s], p)
        /\ p.fd = k.socket[s].fd
    BY <2>1, <2>2 DEF Object, SameUse
  <2> HIDE DEF p
  <2>4. /\ q \in Object /\ q.pollidx = p.pollidx /\ SameUse(p, q) /\ q.fd = p.fd
        /\ ~q.invalid
    BY <2>3 DEF Object, SameUse
  <2> HIDE DEF q
  <2>5. slot \in Slot
    BY <1>1 DEF Slot
  <2> HIDE DEF slot
  <2>6. m = [k EXCEPT !.socket[s].pollidx = Len(n.slots) + 1,
                      !.socket[s].invalid = FALSE,
                      !.slots = Append(@, slot)]
    BY <1>4, <1>10 DEF slot
  <2>7. /\ m.slots = Append(n.slots, slot) /\ m.line = k.line /\ SameCalls(k, m)
        /\ m = [k EXCEPT !.socket = m.socket, !.slots = m.slots]
    <3>1. m.line = k.line /\ SameCalls(k, m)
      BY <1>6, <2>6 DEF Net, SameCalls
    <3>2. m.slots = Append(k.slots, slot)
      BY <1>6, <2>6 DEF Net
    <3>3. m = [k EXCEPT !.socket = m.socket, !.slots = m.slots]
      BY <1>6, <2>6 DEF Net
    <3> QED
      BY <1>3, <3>1, <3>2, <3>3
  <2>8. m.socket = [[k.socket EXCEPT ![s] = p] EXCEPT ![s] = q]
    <3>1. m.socket = [[k.socket EXCEPT ![s].pollidx = Len(n.slots) + 1] EXCEPT ![s].invalid = FALSE]
      BY <1>6, <2>6 DEF Net
    <3>2. [k.socket EXCEPT ![s].pollidx = Len(n.slots) + 1] = [k.socket EXCEPT ![s] = p]
      BY DEF p
    <3>3. [k.socket EXCEPT ![s] = p][s] = p
      BY <1>5
    <3> QED
      BY <3>1, <3>2, <3>3 DEF q
  <2>9. /\ m.socket \in [Addresses -> Object] /\ m.socket[s] = q
        /\ \A t \in Addresses : t # s => m.socket[t] = k.socket[t]
    BY <1>5, <2>3, <2>4, <2>8
  <2>10. m.slots \in Seq(Slot)
    BY <2>5, <2>7, NetParts, AppendProperties
  <2>11. m \in Net
    BY <1>6, <2>7, <2>9, <2>10 DEF Net
  <2>12. SameUse(n.socket[s], m.socket[s]) /\ m.socket[s].fd = fd
    BY <1>2, <1>5, <2>3, <2>4, <2>9 DEF SameUse
  <2>13. Placed(m)
    <3>1. ~Valid(n.socket[s])
      BY <1>10 DEF Valid
    <3>2. Valid(m.socket[s])
      BY <2>4, <2>9, <2>12 DEF Valid, SameUse
    <3>3. \A t \in Addresses : t # s => SamePlace(n.socket[t], m.socket[t])
      BY <1>5, <2>9 DEF SamePlace
    <3>4. m.socket[s].pollidx = Len(n.slots) + 1
      BY <2>3, <2>4, <2>9
    <3> QED
      BY <1>1, <2>7, <2>11, <3>1, <3>2, <3>3, <3>4, PlacedAppended DEF slot
  <2>14. SameCalls(n, m)
    BY <1>3, <2>7 DEF SameCalls
  <2>15. \A t \in Addresses : /\ t # s => m.socket[t] = n.socket[t]
                              /\ SameUse(n.socket[t], m.socket[t])
    BY <1>5, <2>9, <2>12 DEF SameUse
  <2> QED
    BY <1>3, <2>4, <2>7, <2>9, <2>11, <2>12, <2>13, <2>14, <2>15 DEF slot, fd
<1> QED
  BY <1>9, <1>10

-----------------------------------------------------------------------------
(***************************************************************************)
(* Each change of the sockets and calls keeps the tables right.            *)
(***************************************************************************)
(* Use and owners stay right when neither changes.                         *)
LEMMA UseKept ==
    ASSUME NEW n, Sound(n), NEW m \in Net, Placed(m), SameCalls(n, m),
           \A t \in Addresses : SameUse(n.socket[t], m.socket[t])
    PROVE  /\ Sound(m)
           /\ Exact(n) => Exact(m)
           /\ Attached(n) => Attached(m)
           /\ Kept(n) => Kept(m)
           /\ \A b : /\ ValidBut(n, b)
                     /\ \A t \in Addresses \ {b} : m.socket[t].invalid => n.socket[t].invalid
                     => ValidBut(m, b)
<1>1. n.call_socket \in [Calls -> Addresses \cup {NoSocket}]
  BY NetParts DEF Sound
<1>2. \A t : UsersOf(m, t) = UsersOf(n, t)
  BY DEF UsersOf, SameCalls
<1>3. \A t \in Addresses : References(m, t) = References(n, t)
  BY <1>2 DEF References, SameUse
<1>4. Held(m)
  BY <1>1 DEF Sound, Held, SameUse, SameCalls
<1>5. Counted(m)
  BY <1>3 DEF Sound, Counted, SameUse
<1>6. Exact(n) => Exact(m)
  BY <1>2, <1>3 DEF Exact, OwnedExactly, CountedExactly, SameUse, SameCalls
<1>7. Kept(n) => Kept(m)
  BY SocketsAssumption DEF Kept, SameUse
<1>8. \A b : /\ ValidBut(n, b)
             /\ \A t \in Addresses \ {b} : m.socket[t].invalid => n.socket[t].invalid
             => ValidBut(m, b)
  BY <1>1 DEF ValidBut, SameCalls
<1>9. Attached(n) => Attached(m)
  BY DEF Attached, SameCalls
<1> QED
  BY <1>4, <1>5, <1>6, <1>7, <1>8, <1>9 DEF Sound

(* A call c comes to socket s, which may be new, with a reference.         *)
Joined(n, m, c, s) ==
    /\ m.call_socket = [n.call_socket EXCEPT ![c] = s]
    /\ m.owners = [n.owners EXCEPT ![s] = @ \cup {c}]
    /\ m.call = [n.call EXCEPT ![c] = "open"]
    /\ \A t \in Addresses : t # s => SameUse(n.socket[t], m.socket[t])
    /\ m.socket[s].alive
    /\ \/ /\ n.socket[s].alive
          /\ m.socket[s].ofCall = n.socket[s].ofCall
          /\ m.socket[s].count = n.socket[s].count + 1
       \/ ~n.socket[s].alive /\ m.socket[s].ofCall /\ m.socket[s].count = 1

(* Then users and counts are right again.                                  *)
LEMMA Joins ==
    ASSUME NEW n, Sound(n), NEW c \in Calls, NEW s \in Addresses,
           NEW m \in Net, Placed(m), Joined(n, m, c, s)
    PROVE  /\ Sound(m)
           /\ Exact(n) /\ n.call_socket[c] = NoSocket => Exact(m)
           /\ Attached(n) => Attached(m)
<1>1. n \in Net /\ s # NoSocket
  BY SocketsAssumption DEF Sound
<1>2. \A d \in Calls : /\ m.call_socket[d] = IF d = c THEN s ELSE n.call_socket[d]
                       /\ m.call[d] = IF d = c THEN "open" ELSE n.call[d]
  BY <1>1, NetParts DEF Joined
<1>3. \A t \in Addresses : m.owners[t] = IF t = s THEN n.owners[t] \cup {c} ELSE n.owners[t]
  <2>1. n.owners \in [Addresses -> SUBSET Calls]
    BY <1>1, NetParts
  <2>2. m.owners = [n.owners EXCEPT ![s] = @ \cup {c}]
    BY DEF Joined
  <2> QED
    BY <2>1, <2>2
<1>4. /\ UsersOf(m, s) = UsersOf(n, s) \cup {c}
      /\ \A t \in Addresses : t # s => UsersOf(m, t) = UsersOf(n, t) \ {c}
  BY <1>2 DEF UsersOf
<1>5. ~n.socket[s].alive => UsersOf(n, s) = {}
  BY <1>1 DEF UsersOf, Sound, Held
<1>6. Cardinality(UsersOf(m, s)) =
         IF c \in UsersOf(n, s) THEN Cardinality(UsersOf(n, s))
         ELSE Cardinality(UsersOf(n, s)) + 1
  <2>1. IsFiniteSet(UsersOf(n, s))
    BY UsersFinite
  <2> QED
    BY <1>4, <2>1, FS_AddElement
<1>7. \A t \in Addresses : t # s => Cardinality(UsersOf(m, t)) <= Cardinality(UsersOf(n, t))
  BY <1>4, UsersFinite, FS_Subset
<1>8. Held(m)
  <2> SUFFICES ASSUME NEW d \in Calls, m.call_socket[d] # NoSocket
               PROVE  /\ m.call[d] = "open"
                      /\ m.socket[m.call_socket[d]].alive
                      /\ d \in m.owners[m.call_socket[d]]
    BY DEF Held
  <2>1. CASE d = c
    BY <1>2, <1>3, <2>1 DEF Joined
  <2>2. CASE d # c
    <3> DEFINE t == n.call_socket[d]
    <3>1. t = m.call_socket[d] /\ t \in Addresses
      BY <1>1, <1>2, <2>2, NetParts
    <3>2. n.call[d] = "open" /\ n.socket[t].alive /\ d \in n.owners[t]
      BY <3>1 DEF Sound, Held
    <3>3. m.socket[t].alive
      <4> HIDE DEF t
      <4> QED
        BY <3>1, <3>2 DEF Joined, SameUse
    <3> QED
      BY <1>2, <1>3, <2>2, <3>1, <3>2, <3>3
  <2> QED
    BY <2>1, <2>2
<1>9. ASSUME NEW t \in Addresses, m.socket[t].alive
      PROVE  /\ m.socket[t].count >= References(m, t)
             /\ CountedExactly(n) /\ n.call_socket[c] = NoSocket
                   => m.socket[t].count = References(m, t)
  <2>1. /\ Cardinality(UsersOf(n, t)) \in Nat /\ Cardinality(UsersOf(m, t)) \in Nat
        /\ n.socket[t].count \in Nat
    BY <1>1, UsersFinite, ObjectParts
  <2>2. n.call_socket[c] = NoSocket => c \notin UsersOf(n, t)
    BY SocketsAssumption DEF UsersOf
  <2>3. n.socket[t].alive => /\ n.socket[t].count >= References(n, t)
                             /\ CountedExactly(n) => n.socket[t].count = References(n, t)
    BY DEF Sound, Counted, CountedExactly
  <2>4. CASE t = s /\ n.socket[s].alive
    <3>1. m.socket[s].count = n.socket[s].count + 1 /\ m.socket[s].ofCall = n.socket[s].ofCall
      BY <2>4 DEF Joined
    <3>2. /\ References(m, t) <= References(n, t) + 1
          /\ n.call_socket[c] = NoSocket => References(m, t) = References(n, t) + 1
      BY <1>6, <2>1, <2>2, <2>4, <3>1 DEF References
    <3>3. References(m, t) \in Nat /\ References(n, t) \in Nat
      BY <2>1 DEF References
    <3>4. m.socket[t].count >= References(m, t)
      BY <2>1, <2>3, <2>4, <3>1, <3>2, <3>3
    <3>5. CountedExactly(n) /\ n.call_socket[c] = NoSocket => m.socket[t].count = References(m, t)
      BY <2>1, <2>3, <2>4, <3>1, <3>2, <3>3
    <3> QED
      BY <3>4, <3>5
  <2>5. CASE t = s /\ ~n.socket[s].alive
    <3>1. m.socket[s].ofCall /\ m.socket[s].count = 1
      BY <2>5 DEF Joined
    <3>2. Cardinality(UsersOf(n, s)) = 0 /\ c \notin UsersOf(n, s)
      BY <1>5, <2>5, FS_EmptySet
    <3>3. Cardinality(UsersOf(m, s)) = 1
      BY <1>6, <3>2
    <3>4. References(m, t) = 1
      BY <2>5, <3>1, <3>3 DEF References
    <3> QED
      BY <2>5, <3>1, <3>4
  <2>6. CASE t # s
    <3>1. SameUse(n.socket[t], m.socket[t])
      BY <2>6 DEF Joined
    <3>2. References(m, t) <= References(n, t)
      BY <1>7, <2>1, <2>6, <3>1 DEF References, SameUse
    <3>3. n.call_socket[c] = NoSocket => References(m, t) = References(n, t)
      <4>1. n.call_socket[c] = NoSocket => UsersOf(m, t) = UsersOf(n, t)
        BY <1>4, <2>2, <2>6
      <4> QED
        BY <3>1, <4>1 DEF References, SameUse
    <3>4. References(m, t) \in Nat /\ References(n, t) \in Nat
      BY <2>1 DEF References
    <3>5. m.socket[t].count = n.socket[t].count /\ n.socket[t].alive
      BY <1>9, <3>1 DEF SameUse
    <3> QED
      BY <2>1, <2>3, <3>2, <3>3, <3>4, <3>5
  <2> QED
    BY <2>4, <2>5, <2>6
<1>10. Counted(m)
  BY <1>9 DEF Counted
<1>11. Exact(n) /\ n.call_socket[c] = NoSocket => Exact(m)
  <2> SUFFICES ASSUME Exact(n), n.call_socket[c] = NoSocket
               PROVE  Exact(m)
    OBVIOUS
  <2>1. CountedExactly(m)
    BY <1>9 DEF Exact, CountedExactly
  <2>2. OwnedExactly(m)
    <3>1. \A t \in Addresses : c \notin UsersOf(n, t)
      BY SocketsAssumption DEF UsersOf
    <3>2. \A t \in Addresses : n.owners[t] = UsersOf(n, t)
      BY DEF Exact, OwnedExactly
    <3> SUFFICES ASSUME NEW t \in Addresses PROVE m.owners[t] = UsersOf(m, t)
      BY DEF OwnedExactly
    <3>3. CASE t = s
      BY <1>3, <1>4, <3>2, <3>3
    <3>4. CASE t # s
      <4>1. UsersOf(m, t) = UsersOf(n, t)
        BY <1>4, <3>1, <3>4
      <4> QED
        BY <1>3, <3>2, <3>4, <4>1
    <3> QED
      BY <3>3, <3>4
  <2> QED
    BY <2>1, <2>2 DEF Exact
<1>12. Attached(n) => Attached(m)
  BY <1>1, <1>2 DEF Attached
<1> QED
  BY <1>8, <1>10, <1>11, <1>12 DEF Sound

(* close() of a descriptor.                                                *)
LEMMA CloseFdKeeps ==
    ASSUME NEW n, NEW but, TablesBut(n, but), NEW s \in Addresses, Alone => s = Multiplex,
           NEW m, m = CloseFd(n, s)
    PROVE  TablesBut(m, but) /\ m.socket[s].fd = INVALID_SOCKET
<1>1. n \in Net /\ Placed(n) /\ Sound(n)
  BY DEF TablesBut, Sound
<1>2. /\ m \in Net
      /\ SameCalls(n, m) /\ m.slots = n.slots
      /\ \A t \in Addresses : /\ SameUse(n.socket[t], m.socket[t])
                              /\ SamePlace(n.socket[t], m.socket[t])
                              /\ t # s => m.socket[t] = n.socket[t]
      /\ m.socket[s].fd = INVALID_SOCKET
      /\ FdClosed(n, m, s)
  BY <1>1, CloseFdEffect
<1>3. Placed(m)
  BY <1>1, <1>2, PlacedKept
<1>4. /\ Sound(m)
      /\ Exact(n) => Exact(m)
      /\ Attached(n) => Attached(m)
      /\ Kept(n) => Kept(m)
      /\ ValidBut(n, but) => ValidBut(m, but)
  <2>1. \A t \in Addresses : m.socket[t].invalid => n.socket[t].invalid
    BY <1>2 DEF SamePlace
  <2> QED
    BY <1>1, <1>2, <1>3, <2>1, UseKept
<1>5. FdsAgree(n) => FdsAgree(m)
  <2>1. Shrunk(n, m)
    BY <1>2 DEF Shrunk
  <2> QED
    BY <1>1, <1>2, <2>1, FdsAgreeShrunk
<1>6. Single(n) /\ s = Multiplex => Single(m)
  <2> SUFFICES ASSUME Single(n), s = Multiplex PROVE Single(m)
    OBVIOUS
  <2>1. m.socket[Main].fd = 0
    BY <1>2, SocketsAssumption DEF Single
  <2>2. 0 \in Fd /\ 1 \in Fd
    BY SocketsAssumption DEF Fd
  <2>3. m.line[0] = "down" /\ m.line[1] = "closed"
    <3>1. CASE m.socket[s].fd = n.socket[s].fd /\ m.line = n.line
      BY <1>2, <3>1 DEF Single
    <3>2. CASE n.socket[s].fd \in Fd /\ m.line = [n.line EXCEPT ![n.socket[s].fd] = "closed"]
      <4>1. n.socket[s].fd = 1
        BY <3>2, FdFacts DEF Single
      <4> QED
        BY <1>1, <2>2, <3>2, <4>1, NetParts DEF Single
    <3> QED
      BY <1>2, <3>1, <3>2 DEF FdClosed
  <2> QED
    BY <1>2, <2>1, <2>3 DEF Single, SameCalls
<1> QED
  BY <1>2, <1>4, <1>5, <1>6 DEF TablesBut

(* sipp_socket_invalidate().                                               *)
LEMMA InvalidateKeeps ==
    ASSUME NEW n, TablesBut(n, NoSocket), NEW s \in Addresses, n.socket[s].alive,
           Alone => s = Multiplex, NEW m, m = Invalidate(n, s)
    PROVE  TablesBut(m, s) /\ SameCalls(n, m) /\ Shrunk(n, m)
<1>1. n \in Net /\ Placed(n) /\ Sound(n)
  BY DEF TablesBut, Sound
<1>2. m \in Net /\ Placed(m) /\ Invalidated(n, m, s)
  BY <1>1, InvalidateEffect
<1>3. /\ SameCalls(n, m)
      /\ \A t \in Addresses : SameUse(n.socket[t], m.socket[t])
      /\ FdClosed(n, m, s)
      /\ \A t \in Addresses : t # s => m.socket[t].fd = n.socket[t].fd
  BY <1>2 DEF Invalidated
<1>4. /\ Sound(m)
      /\ Exact(n) => Exact(m)
      /\ Attached(n) => Attached(m)
      /\ Kept(n) => Kept(m)
      /\ ValidBut(n, NoSocket) => ValidBut(m, s)
  <2>1. \A t \in Addresses \ {s} : m.socket[t].invalid => n.socket[t].invalid
    BY <1>2 DEF Invalidated
  <2>2. ValidBut(n, NoSocket) => ValidBut(n, s)
    BY DEF ValidBut
  <2> QED
    BY <1>1, <1>2, <1>3, <2>1, <2>2, UseKept
<1>5. Shrunk(n, m)
  <2>1. \A t \in Addresses : m.socket[t].fd \in {n.socket[t].fd, INVALID_SOCKET}
    BY <1>3 DEF FdClosed
  <2> QED
    BY <1>2, <2>1 DEF Shrunk, Invalidated
<1>6. FdsAgree(n) => FdsAgree(m)
  BY <1>1, <1>2, <1>5, FdsAgreeShrunk
<1>7. Single(n) /\ s = Multiplex => Single(m)
  <2> SUFFICES ASSUME Single(n), s = Multiplex PROVE Single(m)
    OBVIOUS
  <2>1. m.socket[Main].fd = 0
    BY <1>3, SocketsAssumption DEF Single
  <2>2. 0 \in Fd /\ 1 \in Fd
    BY SocketsAssumption DEF Fd
  <2>3. /\ m.line[0] = "down"
        /\ m.socket[s].fd \in {1, INVALID_SOCKET}
        /\ m.socket[s].fd = INVALID_SOCKET => m.line[1] = "closed"
    <3>1. CASE m.socket[s].fd = n.socket[s].fd /\ m.line = n.line
      BY <3>1 DEF Single
    <3>2. CASE /\ m.socket[s].fd = INVALID_SOCKET
               /\ n.socket[s].fd \in Fd /\ m.line = [n.line EXCEPT ![n.socket[s].fd] = "closed"]
      <4>1. n.socket[s].fd = 1
        BY <3>2, FdFacts DEF Single
      <4> QED
        BY <1>1, <2>2, <3>2, <4>1, NetParts DEF Single
    <3> QED
      BY <1>3, <3>1, <3>2 DEF FdClosed
  <2>4. \A i \in 1..Len(m.slots) :
           m.slots[i] \in {[sock |-> Main, fd |-> 0], [sock |-> Multiplex, fd |-> 1]}
    BY <1>5 DEF Shrunk, Single
  <2> QED
    BY <1>3, <2>1, <2>3, <2>4 DEF Single, SameCalls
<1> QED
  BY <1>3, <1>4, <1>5, <1>6, <1>7 DEF TablesBut

(* When no call is left on it, the socket needs no exception.              *)
LEMMA NobodyLeft ==
    ASSUME NEW n, NEW s \in Addresses, TablesBut(n, s),
           CallsStay /\ config.multisocket => \A c \in Calls : n.call_socket[c] # s
    PROVE  TablesBut(n, NoSocket)
<1>1. CallsStay /\ config.multisocket => ValidBut(n, NoSocket)
  BY DEF TablesBut, ValidBut
<1> QED
  BY <1>1 DEF TablesBut

(* sipp_reconnect_socket().                                                *)
LEMMA ReconnectKeeps ==
    ASSUME NEW n, TablesBut(n, NoSocket), NEW s \in Addresses, n.socket[s].alive,
           FreeFds(n) # {}, NEW l \in {"up", "down"},
           config.resets # 0 \/ config.setdest,
           Alone => s = Multiplex /\ n.socket[s].fd = INVALID_SOCKET,
           NEW m, m = Reconnect(n, s, l)
    PROVE  TablesBut(m, NoSocket) /\ SameCalls(n, m)
<1>1. n \in Net /\ Placed(n) /\ Sound(n)
  BY DEF TablesBut, Sound
<1>2. l \in Line
  BY DEF Line
<1>3. /\ m \in Net /\ Placed(m) /\ SameCalls(n, m)
      /\ m.line = [n.line EXCEPT ![LowestFd(n)] = l]
      /\ \/ m.slots = n.slots
         \/ m.slots = Append(n.slots, [sock |-> s, fd |-> LowestFd(n)])
      /\ \A t \in Addresses : /\ t # s => m.socket[t] = n.socket[t]
                              /\ SameUse(n.socket[t], m.socket[t])
      /\ ~m.socket[s].invalid /\ m.socket[s].fd = LowestFd(n)
  BY <1>1, <1>2, ReconnectEffect
<1>4. /\ Sound(m)
      /\ Exact(n) => Exact(m)
      /\ Attached(n) => Attached(m)
      /\ Kept(n) => Kept(m)
      /\ ValidBut(n, NoSocket) => ValidBut(m, NoSocket)
  <2>1. \A t \in Addresses : m.socket[t].invalid => n.socket[t].invalid
    BY <1>3
  <2> QED
    BY <1>1, <1>3, <2>1, UseKept
<1>5. Single(n) /\ s = Multiplex /\ n.socket[s].fd = INVALID_SOCKET => Single(m)
  <2> SUFFICES ASSUME Single(n), s = Multiplex, n.socket[s].fd = INVALID_SOCKET PROVE Single(m)
    OBVIOUS
  <2>1. m.socket[Main].fd = 0
    BY <1>3, SocketsAssumption DEF Single
  <2>2. 0 \in Fd /\ 1 \in Fd /\ Fd \subseteq Nat
    BY SocketsAssumption DEF Fd
  <2>3. LowestFd(n) = 1
    <3>1. n.line[1] = "closed" /\ n.line[0] = "down"
      BY DEF Single
    <3>2. 1 \in FreeFds(n)
      BY <2>2, <3>1 DEF FreeFds
    <3>3. LowestFd(n) <= 1 /\ LowestFd(n) \in Nat
      BY <1>1, <2>2, <3>2, LowestIsFree
    <3>4. LowestFd(n) # 0
      BY <1>1, <3>1, LowestIsFree
    <3> QED
      BY <3>3, <3>4
  <2>4. m.line[0] = "down"
    BY <1>1, <1>3, <2>2, <2>3, NetParts DEF Single
  <2>5. \A i \in 1..Len(m.slots) :
           m.slots[i] \in {[sock |-> Main, fd |-> 0], [sock |-> Multiplex, fd |-> 1]}
    <3>1. CASE m.slots = n.slots
      BY <3>1 DEF Single
    <3>2. CASE m.slots = Append(n.slots, [sock |-> s, fd |-> 1])
      <4>1. [sock |-> s, fd |-> 1] \in Slot
        BY <2>2 DEF Slot
      <4>2. /\ Len(m.slots) = Len(n.slots) + 1 /\ Len(n.slots) \in Nat
            /\ m.slots[Len(n.slots) + 1] = [sock |-> s, fd |-> 1]
            /\ \A i \in 1..Len(n.slots) : m.slots[i] = n.slots[i]
        BY <1>1, <3>2, <4>1, NetParts, AppendProperties
      <4>3. \A i \in 1..Len(m.slots) : i = Len(n.slots) + 1 \/ i \in 1..Len(n.slots)
        BY <4>2
      <4> QED
        BY <4>2, <4>3 DEF Single
    <3> QED
      BY <1>3, <2>3, <3>1, <3>2
  <2>6. INVALID_SOCKET # 1
    BY <2>2, FdFacts
  <2> QED
    BY <1>3, <2>1, <2>3, <2>4, <2>5, <2>6 DEF Single, SameCalls
<1>6. ~(config.resets = 0 /\ ~config.setdest)
  OBVIOUS
<1> QED
  BY <1>3, <1>4, <1>5, <1>6 DEF TablesBut

(* A new slot for a new socket has its descriptor.                         *)
LEMMA FdsAgreeAppended ==
    ASSUME NEW n \in Net, Placed(n), FdsAgree(n), NEW s \in Addresses, ~n.socket[s].alive,
           NEW fd \in Fd, NEW m,
           m.slots = Append(n.slots, [sock |-> s, fd |-> fd]), m.socket[s].fd = fd,
           \A t \in Addresses : t # s => m.socket[t].fd = n.socket[t].fd
    PROVE  FdsAgree(m)
<1>1. [sock |-> s, fd |-> fd] \in Slot
  BY DEF Slot
<1>2. /\ Len(m.slots) = Len(n.slots) + 1 /\ Len(n.slots) \in Nat
      /\ m.slots[Len(n.slots) + 1] = [sock |-> s, fd |-> fd]
      /\ \A i \in 1..Len(n.slots) : m.slots[i] = n.slots[i]
  BY <1>1, NetParts, AppendProperties
<1> SUFFICES ASSUME NEW i \in 1..Len(m.slots)
             PROVE  m.socket[m.slots[i].sock].fd \in {m.slots[i].fd, INVALID_SOCKET}
  BY DEF FdsAgree
<1>3. CASE i = Len(n.slots) + 1
  BY <1>2, <1>3
<1>4. CASE i \in 1..Len(n.slots)
  <2>1. n.slots[i].sock \in Addresses /\ n.slots[i].sock # s
    BY <1>4, SlotParts DEF Placed, Valid
  <2>2. n.socket[n.slots[i].sock].fd \in {n.slots[i].fd, INVALID_SOCKET}
    BY <1>4 DEF FdsAgree
  <2> QED
    BY <1>2, <1>4, <2>1, <2>2
<1> QED
  BY SMTT(40), <1>2, <1>3, <1>4

(* A connection is accepted.                                               *)
LEMMA AcceptKeeps ==
    ASSUME NEW n, TablesBut(n, NoSocket), NEW s \in Addresses, ~n.socket[s].alive,
           FreeFds(n) # {}, config.server,
           NEW m, m = Allocate(n, s, LowestFd(n), "process", "up")
    PROVE  TablesBut(m, NoSocket)
<1>1. n \in Net /\ Placed(n) /\ Sound(n)
  BY DEF TablesBut, Sound
<1>2. LowestFd(n) \in Fd /\ "up" \in Line
  BY <1>1, LowestIsFree DEF Line
<1>3. /\ m \in Net /\ Placed(m) /\ SameCalls(n, m)
      /\ m.slots = Append(n.slots, [sock |-> s, fd |-> LowestFd(n)])
      /\ \A t \in Addresses : t # s => m.socket[t] = n.socket[t]
      /\ m.socket[s].alive /\ ~m.socket[s].invalid /\ m.socket[s].fd = LowestFd(n)
      /\ m.socket[s].count = 1 /\ ~m.socket[s].ofCall
  <2> DEFINE fd == LowestFd(n)
             for == "process"
  <2>1. fd \in Fd /\ m = Allocate(n, s, fd, for, "up")
    BY <1>2
  <2>2. ~(for = "call")
    OBVIOUS
  <2> HIDE DEF fd, for
  <2>3. m \in Net /\ Placed(m) /\ Allocated(n, m, s, fd, for, "up")
    BY <1>1, <1>2, <2>1, AllocateEffect
  <2> QED
    BY <2>2, <2>3 DEF fd, Allocated
<1>4. \A t : UsersOf(m, t) = UsersOf(n, t)
  BY <1>3 DEF UsersOf, SameCalls
<1>5. UsersOf(n, s) = {} /\ References(m, s) = 1
  <2>1. UsersOf(n, s) = {}
    BY <1>1, SocketsAssumption DEF UsersOf, Sound, Held
  <2>2. Cardinality(UsersOf(m, s)) = 0
    BY <1>4, <2>1, FS_EmptySet
  <2>3. References(m, s) = Cardinality(UsersOf(m, s)) + 1
    BY <1>3 DEF References
  <2> QED
    BY <2>1, <2>2, <2>3
<1>6. \A t \in Addresses : t # s => References(m, t) = References(n, t)
  BY <1>3, <1>4 DEF References
<1>7. Counted(m) /\ (CountedExactly(n) => CountedExactly(m))
  <2>1. m.socket[s].count >= References(m, s) /\ m.socket[s].count = References(m, s)
    BY <1>3, <1>5
  <2> QED
    BY <1>1, <1>3, <1>6, <2>1 DEF Sound, Counted, CountedExactly
<1>8. Held(m)
  <2>1. n.call_socket \in [Calls -> Addresses \cup {NoSocket}]
    BY <1>1, NetParts
  <2> QED
    BY <1>1, <1>3, <2>1 DEF Sound, Held, SameCalls
<1>9. Exact(n) => Exact(m)
  BY <1>3, <1>4, <1>7 DEF Exact, OwnedExactly, SameCalls
<1>10. ValidBut(n, NoSocket) => ValidBut(m, NoSocket)
  <2>1. n.call_socket \in [Calls -> Addresses \cup {NoSocket}]
    BY <1>1, NetParts
  <2> QED
    BY <1>3, <2>1 DEF ValidBut, SameCalls
<1>11. Attached(n) => Attached(m)
  BY <1>3 DEF Attached, SameCalls
<1>12. FdsAgree(n) => FdsAgree(m)
  BY <1>1, <1>2, <1>3, FdsAgreeAppended
<1>13. ~Solo /\ ~Alone
  BY DEF Solo, Alone
<1>14. Sound(m)
  BY <1>3, <1>7, <1>8 DEF Sound
<1> QED
  BY <1>9, <1>10, <1>11, <1>12, <1>13, <1>14 DEF TablesBut

(* A call gets a socket of its own.                                        *)
LEMMA ConnectKeeps ==
    ASSUME NEW n, TablesBut(n, NoSocket), NEW c \in Calls, n.call[c] = "open",
           NEW s \in Addresses, ~n.socket[s].alive, FreeFds(n) # {}, config.multisocket,
           n.call_socket[c] # NoSocket => n.socket[n.call_socket[c]].invalid,
           NEW l \in {"up", "down"},
           NEW m, m = Associate(Allocate(n, s, LowestFd(n), "call", l), c, s)
    PROVE  /\ TablesBut(m, NoSocket)
           /\ m.socket[s].alive /\ m.socket[s].fd \in Fd /\ m.call[c] = "open"
<1>1. n \in Net /\ Placed(n) /\ Sound(n)
  BY DEF TablesBut, Sound
<1>2. LowestFd(n) \in Fd /\ l \in Line
  BY <1>1, LowestIsFree DEF Line
<1> DEFINE k == Allocate(n, s, LowestFd(n), "call", l)
<1>3. /\ k \in Net /\ Placed(k) /\ SameCalls(n, k)
      /\ k.slots = Append(n.slots, [sock |-> s, fd |-> LowestFd(n)])
      /\ \A t \in Addresses : t # s => k.socket[t] = n.socket[t]
      /\ k.socket[s].alive /\ ~k.socket[s].invalid /\ k.socket[s].fd = LowestFd(n)
      /\ k.socket[s].count = 1 /\ k.socket[s].ofCall
  <2> DEFINE fd == LowestFd(n)
             for == "call"
  <2>1. fd \in Fd /\ k = Allocate(n, s, fd, for, l)
    BY <1>2
  <2>2. for = "call"
    OBVIOUS
  <2> HIDE DEF fd, for, k
  <2>3. k \in Net /\ Placed(k) /\ Allocated(n, k, s, fd, for, l)
    BY <1>1, <1>2, <2>1, AllocateEffect
  <2> QED
    BY <2>2, <2>3 DEF fd, Allocated
<1>4. m = [k EXCEPT !.call_socket[c] = s, !.owners[s] = @ \cup {c}]
  BY DEF Associate
<1> HIDE DEF k
<1>5. /\ m.call_socket = [n.call_socket EXCEPT ![c] = s]
      /\ m.owners = [n.owners EXCEPT ![s] = @ \cup {c}]
      /\ m.call = n.call /\ m.socket = k.socket /\ m.slots = k.slots
      /\ m = [k EXCEPT !.call_socket = m.call_socket, !.owners = m.owners]
  BY ZenonT(60), <1>3, <1>4 DEF Net, SameCalls
<1>6. m \in Net
  <2>1. [n.call_socket EXCEPT ![c] = s] \in [Calls -> Addresses \cup {NoSocket}]
    BY <1>1, NetParts
  <2>2. [n.owners EXCEPT ![s] = @ \cup {c}] \in [Addresses -> SUBSET Calls]
    BY <1>1, NetParts
  <2>3. m.call_socket \in [Calls -> Addresses \cup {NoSocket}]
    BY <1>5, <2>1
  <2>4. m.owners \in [Addresses -> SUBSET Calls]
    BY <1>5, <2>2
  <2>5. m.socket \in [Addresses -> Object]
    BY <1>3, <1>5, NetParts
  <2>6. m = [k EXCEPT !.socket = m.socket, !.owners = m.owners, !.call_socket = m.call_socket]
    BY <1>3, <1>5 DEF Net
  <2> QED
    BY <1>3, <2>3, <2>4, <2>5, <2>6, NetChanged
<1>7. Placed(m)
  <2>1. m.slots = k.slots /\ \A t \in Addresses : SamePlace(k.socket[t], m.socket[t])
    BY <1>5 DEF SamePlace
  <2> QED
    BY SMTT(40), <1>3, <1>6, <2>1, PlacedKept
<1>8. m.call = [n.call EXCEPT ![c] = "open"]
  <2>1. n.call \in [Calls -> {"new", "open", "over"}]
    BY <1>1, NetParts
  <2> QED
    BY <1>5, <2>1
<1>9. Joined(n, m, c, s)
  <2>1. \A t \in Addresses : t # s => SameUse(n.socket[t], m.socket[t])
    BY <1>3, <1>5 DEF SameUse
  <2> QED
    BY <1>3, <1>5, <1>8, <2>1 DEF Joined
<1>10. /\ Sound(m)
       /\ Exact(n) /\ n.call_socket[c] = NoSocket => Exact(m)
  BY <1>1, <1>6, <1>7, <1>9, Joins
<1>11. CallsStay => n.call_socket[c] = NoSocket
  BY DEF TablesBut, ValidBut
<1>12. ValidBut(n, NoSocket) => ValidBut(m, NoSocket)
  <2> SUFFICES ASSUME ValidBut(n, NoSocket), NEW d \in Calls, m.call_socket[d] # NoSocket
               PROVE  ~m.socket[m.call_socket[d]].invalid
    BY DEF ValidBut
  <2>1. m.call_socket[d] = IF d = c THEN s ELSE n.call_socket[d]
    BY <1>1, <1>5, NetParts
  <2>2. m.call_socket[d] \in Addresses
    BY <1>6, NetParts
  <2>3. CASE m.call_socket[d] = s
    BY <1>3, <1>5, <2>3
  <2>4. CASE m.call_socket[d] # s
    BY <1>3, <1>5, <2>1, <2>2, <2>4 DEF ValidBut
  <2> QED
    BY <2>3, <2>4
<1>13. FdsAgree(n) => FdsAgree(m)
  BY <1>1, <1>2, <1>3, <1>5, FdsAgreeAppended
<1>14. ~Solo /\ ~Alone
  BY DEF Solo, Alone
<1>15. CallsStay => Exact(m)
  BY <1>10, <1>11 DEF TablesBut
<1>16. TablesBut(m, NoSocket)
  BY <1>10, <1>12, <1>13, <1>14, <1>15 DEF TablesBut
<1> QED
  BY <1>2, <1>3, <1>5, <1>16

(* A call comes to a socket that others use or that a peer connected.      *)
LEMMA JoinKeeps ==
    ASSUME NEW n, TablesBut(n, NoSocket), NEW c \in Calls, NEW s \in Addresses,
           n.socket[s].alive,
           config.multisocket => ~n.socket[s].invalid,
           CallsStay => n.call_socket[c] = NoSocket,
           Alone => s = Multiplex,
           NEW k \in Net, k.call = [n.call EXCEPT ![c] = "open"],
           k.owners = n.owners, k.call_socket = n.call_socket,
           k.socket = n.socket, k.slots = n.slots, k.line = n.line,
           NEW m, m = AssociateCounted(k, c, s)
    PROVE  /\ TablesBut(m, NoSocket)
           /\ \A t \in Addresses : m.socket[t].fd = n.socket[t].fd
<1>1. n \in Net /\ Placed(n) /\ Sound(n)
  BY DEF TablesBut, Sound
<1> DEFINE o == [n.socket[s] EXCEPT !.count = @ + 1]
<1>2. /\ o \in Object /\ o.alive = n.socket[s].alive /\ o.ofCall = n.socket[s].ofCall
      /\ o.count = n.socket[s].count + 1 /\ SamePlace(n.socket[s], o)
      /\ o.fd = n.socket[s].fd
  <2> DEFINE k0 == n.socket[s]
             up == k0.count + 1
  <2>1. k0 \in Object /\ up \in Nat
    BY <1>1, ObjectParts
  <2>2. o = [k0 EXCEPT !.count = up]
    OBVIOUS
  <2>3. up = n.socket[s].count + 1 /\ k0 = n.socket[s]
    OBVIOUS
  <2> HIDE DEF o, k0, up
  <2>4. o \in Object /\ o.count = up /\ o.fd = k0.fd
    BY <2>1, <2>2 DEF Object
  <2>5. o.alive = k0.alive /\ o.ofCall = k0.ofCall /\ SamePlace(k0, o)
    BY <2>1, <2>2 DEF Object, SamePlace
  <2> QED
    BY <2>3, <2>4, <2>5
<1> HIDE DEF o
<1>3. m = [[k EXCEPT !.call_socket[c] = s, !.owners[s] = @ \cup {c}]
              EXCEPT !.socket[s].count = @ + 1]
  BY DEF AssociateCounted, Associate
<1>4. /\ m.call_socket = [n.call_socket EXCEPT ![c] = s]
      /\ m.owners = [n.owners EXCEPT ![s] = @ \cup {c}]
      /\ m.call = [n.call EXCEPT ![c] = "open"]
      /\ m.slots = n.slots /\ m.line = n.line
  <2>1. m.call_socket = [k.call_socket EXCEPT ![c] = s]
    BY <1>3 DEF Net
  <2>2. m.owners = [k.owners EXCEPT ![s] = @ \cup {c}]
    BY <1>3 DEF Net
  <2>3. m.call = k.call /\ m.slots = k.slots /\ m.line = k.line
    BY <1>3 DEF Net
  <2> QED
    BY <2>1, <2>2, <2>3
<1>5. m.socket = [n.socket EXCEPT ![s] = o]
  BY SMTT(40), <1>3 DEF Net, o
<1>6. m = [k EXCEPT !.socket = m.socket, !.owners = m.owners, !.call_socket = m.call_socket]
  BY <1>3 DEF Net
<1>7. /\ m.socket \in [Addresses -> Object] /\ m.socket[s] = o
      /\ \A t \in Addresses : t # s => m.socket[t] = n.socket[t]
  BY <1>1, <1>2, <1>5, NetParts
<1>8. m \in Net
  <2>1. [n.call_socket EXCEPT ![c] = s] \in [Calls -> Addresses \cup {NoSocket}]
    BY <1>1, NetParts
  <2>2. [n.owners EXCEPT ![s] = @ \cup {c}] \in [Addresses -> SUBSET Calls]
    BY <1>1, NetParts
  <2>3. m.call_socket \in [Calls -> Addresses \cup {NoSocket}]
    BY <1>4, <2>1
  <2>4. m.owners \in [Addresses -> SUBSET Calls]
    BY <1>4, <2>2
  <2> QED
    BY <1>6, <1>7, <2>3, <2>4, NetChanged
<1>9. \A t \in Addresses : /\ SamePlace(n.socket[t], m.socket[t])
                           /\ m.socket[t].fd = n.socket[t].fd
  BY <1>2, <1>7 DEF SamePlace
<1>10. Placed(m)
  BY <1>1, <1>4, <1>8, <1>9, PlacedKept
<1>11. Joined(n, m, c, s)
  <2>1. \A t \in Addresses : t # s => SameUse(n.socket[t], m.socket[t])
    BY <1>7 DEF SameUse
  <2> QED
    BY <1>2, <1>4, <1>7, <2>1 DEF Joined
<1>12. /\ Sound(m)
       /\ Exact(n) /\ n.call_socket[c] = NoSocket => Exact(m)
       /\ Attached(n) => Attached(m)
  BY <1>1, <1>8, <1>10, <1>11, Joins
<1>13. \A d \in Calls : m.call_socket[d] = IF d = c THEN s ELSE n.call_socket[d]
  BY <1>1, <1>4, NetParts
<1>14. config.multisocket /\ ValidBut(n, NoSocket) => ValidBut(m, NoSocket)
  <2> SUFFICES ASSUME config.multisocket, ValidBut(n, NoSocket),
                      NEW d \in Calls, m.call_socket[d] # NoSocket
               PROVE  ~m.socket[m.call_socket[d]].invalid
    BY DEF ValidBut
  <2>1. m.call_socket[d] \in Addresses
    BY <1>8, NetParts
  <2>2. m.socket[m.call_socket[d]].invalid = n.socket[m.call_socket[d]].invalid
    BY <1>9, <2>1 DEF SamePlace
  <2> QED
    BY <1>13, <2>1, <2>2 DEF ValidBut
<1>15. Kept(n) => Kept(m)
  <2>1. \A t \in Addresses : m.socket[t].alive = n.socket[t].alive
                             /\ m.socket[t].ofCall = n.socket[t].ofCall
    BY <1>2, <1>7
  <2> QED
    BY <2>1, SocketsAssumption DEF Kept
<1>16. Shrunk(n, m)
  BY <1>4, <1>9 DEF Shrunk
<1>17. FdsAgree(n) => FdsAgree(m)
  BY <1>1, <1>8, <1>16, FdsAgreeShrunk
<1>18. Single(n) /\ s = Multiplex => Single(m)
  <2> SUFFICES ASSUME Single(n), s = Multiplex PROVE Single(m)
    OBVIOUS
  <2>1. \A d \in Calls : m.call_socket[d] \in {NoSocket, Multiplex}
    BY <1>13 DEF Single
  <2>2. m.socket[Main].fd = n.socket[Main].fd /\ m.socket[Multiplex].fd = n.socket[Multiplex].fd
    BY <1>9, SocketsAssumption
  <2> QED
    BY <1>4, <2>1, <2>2 DEF Single
<1>19. CallsStay => Exact(m)
  BY <1>12 DEF TablesBut
<1> QED
  BY <1>9, <1>12, <1>14, <1>15, <1>17, <1>18, <1>19 DEF TablesBut

(* A call of -t tn begins without a socket.                                *)
LEMMA OpenKeeps ==
    ASSUME NEW n, TablesBut(n, NoSocket), NEW c \in Calls, n.call[c] = "new",
           config.multisocket, NEW m, m = [n EXCEPT !.call[c] = "open"]
    PROVE  TablesBut(m, NoSocket)
<1>1. n \in Net /\ Placed(n) /\ Sound(n)
  BY DEF TablesBut, Sound
<1>2. /\ m.call = [n.call EXCEPT ![c] = "open"]
      /\ m.owners = n.owners /\ m.call_socket = n.call_socket
      /\ m.socket = n.socket /\ m.slots = n.slots /\ m.line = n.line
      /\ m = [n EXCEPT !.call = m.call]
  BY <1>1 DEF Net
<1>3. m \in Net
  <2>1. [n.call EXCEPT ![c] = "open"] \in [Calls -> {"new", "open", "over"}]
    BY <1>1, NetParts
  <2> QED
    BY <1>1, <1>2, <2>1 DEF Net
<1>4. Placed(m)
  <2>1. m.slots = n.slots /\ \A t \in Addresses : SamePlace(n.socket[t], m.socket[t])
    BY <1>2 DEF SamePlace
  <2> QED
    BY <1>1, <1>3, <2>1, PlacedKept
<1>5. \A t : UsersOf(m, t) = UsersOf(n, t)
  BY <1>2 DEF UsersOf
<1>6. \A t : References(m, t) = References(n, t)
  BY <1>2, <1>5 DEF References
<1>7. Counted(m)
  BY <1>1, <1>2, <1>6 DEF Sound, Counted
<1>8. Held(m)
  <2>1. \A d \in Calls : m.call[d] = IF d = c THEN "open" ELSE n.call[d]
    BY <1>1, <1>2, NetParts
  <2> QED
    BY <1>1, <1>2, <2>1 DEF Sound, Held
<1>9. Exact(n) => Exact(m)
  BY <1>2, <1>5, <1>6 DEF Exact, OwnedExactly, CountedExactly
<1>10. ValidBut(n, NoSocket) => ValidBut(m, NoSocket)
  BY <1>2 DEF ValidBut
<1>11. FdsAgree(n) => FdsAgree(m)
  BY <1>2 DEF FdsAgree
<1>12. ~Solo /\ ~Alone
  BY DEF Solo, Alone
<1>13. Sound(m)
  BY <1>3, <1>4, <1>7, <1>8 DEF Sound
<1> QED
  BY <1>9, <1>10, <1>11, <1>12, <1>13 DEF TablesBut

(* A peer closes or breaks a connection.                                   *)
LEMMA LineKeeps ==
    ASSUME NEW n, TablesBut(n, NoSocket), NEW f \in Fd, n.line[f] = "up",
           NEW l \in {"fin", "rst"}, NEW m, m = [n EXCEPT !.line[f] = l]
    PROVE  TablesBut(m, NoSocket) /\ m.socket = n.socket
<1>1. n \in Net /\ Placed(n) /\ Sound(n)
  BY DEF TablesBut, Sound
<1>2. /\ m.line = [n.line EXCEPT ![f] = l]
      /\ SameCalls(n, m) /\ m.socket = n.socket /\ m.slots = n.slots
      /\ m = [n EXCEPT !.line = m.line]
  BY <1>1 DEF Net, SameCalls
<1>3. m \in Net
  <2>1. [n.line EXCEPT ![f] = l] \in [Fd -> Line]
    BY <1>1, NetParts DEF Line
  <2> QED
    BY <1>1, <1>2, <2>1 DEF Net
<1>4. Placed(m)
  <2>1. m.slots = n.slots /\ \A t \in Addresses : SamePlace(n.socket[t], m.socket[t])
    BY <1>2 DEF SamePlace
  <2> QED
    BY <1>1, <1>3, <2>1, PlacedKept
<1>5. /\ Sound(m)
      /\ Exact(n) => Exact(m)
      /\ Attached(n) => Attached(m)
      /\ Kept(n) => Kept(m)
      /\ ValidBut(n, NoSocket) => ValidBut(m, NoSocket)
  <2>1. \A t \in Addresses : /\ SameUse(n.socket[t], m.socket[t])
                             /\ m.socket[t].invalid => n.socket[t].invalid
    BY <1>2 DEF SameUse
  <2> QED
    BY <1>1, <1>2, <1>3, <1>4, <2>1, UseKept
<1>6. FdsAgree(n) => FdsAgree(m)
  BY <1>2 DEF FdsAgree
<1>7. Single(n) => Single(m)
  <2> SUFFICES ASSUME Single(n) PROVE Single(m)
    OBVIOUS
  <2>1. f # 0 /\ (n.line[1] = "closed" => f # 1)
    BY DEF Single
  <2>2. 0 \in Fd /\ 1 \in Fd
    BY SocketsAssumption DEF Fd
  <2>3. m.line[0] = "down" /\ (n.line[1] = "closed" => m.line[1] = "closed")
    BY <1>1, <1>2, <2>1, <2>2, NetParts DEF Single
  <2> QED
    BY <1>2, <2>3 DEF Single, SameCalls
<1> QED
  BY <1>2, <1>5, <1>6, <1>7 DEF TablesBut

(* A call forgets its socket by the action closecon.                       *)
LEMMA CloseConKeeps ==
    ASSUME NEW n, TablesBut(n, NoSocket), NEW c \in Calls, NEW s \in Addresses,
           n.call_socket[c] = s, config.closecon,
           NEW m, m = [Close(Invalidate(n, s), s) EXCEPT !.call_socket[c] = NoSocket]
    PROVE  TablesBut(m, NoSocket)
<1> DEFINE j == Invalidate(n, s)
           k == Close(j, s)
<1>1. Sound(n) /\ ~Alone /\ ~CallsStay
  BY DEF TablesBut, Alone, CallsStay
<1>2. n.socket[s].alive
  BY <1>1, UserCounts
<1>3. TablesBut(j, s) /\ SameCalls(n, j)
  <2> HIDE DEF j
  <2> QED
    BY <1>1, <1>2, InvalidateKeeps DEF j
<1>4. m = [k EXCEPT !.call_socket[c] = NoSocket]
  OBVIOUS
<1> HIDE DEF j
<1>5. j \in Net /\ Placed(j) /\ Sound(j) /\ j.call_socket[c] = s
  BY <1>3 DEF TablesBut, Sound, SameCalls
<1>6. j.socket[s].alive /\ j.socket[s].count >= 1
  BY <1>5, UserCounts
<1>7. k \in Net /\ Placed(k) /\ SameCalls(j, k) /\ Closed(j, k, s)
  <2> HIDE DEF k
  <2> QED
    BY <1>5, <1>6, CloseEffect DEF k
<1> HIDE DEF k
<1>8. /\ m.call_socket = [k.call_socket EXCEPT ![c] = NoSocket]
      /\ m.call = k.call /\ m.owners = k.owners
      /\ m.socket = k.socket /\ m.slots = k.slots /\ m.line = k.line
      /\ m = [k EXCEPT !.call_socket = m.call_socket]
  BY <1>4, <1>7 DEF Net
<1>9. m \in Net
  <2>1. m.call_socket \in [Calls -> Addresses \cup {NoSocket}]
    <3>1. [k.call_socket EXCEPT ![c] = NoSocket] \in [Calls -> Addresses \cup {NoSocket}]
      BY <1>7, NetParts
    <3> QED
      BY <1>8, <3>1
  <2> QED
    BY <1>7, <1>8, <2>1 DEF Net
<1>10. Placed(m)
  <2>1. m.slots = k.slots /\ \A t \in Addresses : SamePlace(k.socket[t], m.socket[t])
    BY <1>8 DEF SamePlace
  <2> QED
    BY <1>7, <1>9, <2>1, PlacedKept
<1>11. Left(j, m, c, s)
  <2>1. \A t \in Addresses : t # s => SameUse(j.socket[t], m.socket[t])
    BY <1>7, <1>8 DEF Closed
  <2>2. \A t \in Addresses : j.owners[t] \ {c} \subseteq m.owners[t]
    BY <1>7, <1>8 DEF SameCalls
  <2> QED
    BY <1>7, <1>8, <2>1, <2>2 DEF Left, Closed, SameCalls
<1>12. Sound(m)
  BY <1>5, <1>9, <1>10, <1>11, Leaves
<1>13. Kept(j) => Kept(m)
  <2> SUFFICES ASSUME Kept(j) PROVE Kept(m)
    OBVIOUS
  <2>1. CASE s # Multiplex
    <3>1. SameUse(j.socket[Multiplex], m.socket[Multiplex])
      BY <1>11, <2>1, SocketsAssumption DEF Left
    <3> QED
      BY <3>1 DEF Kept, SameUse
  <2>2. CASE s = Multiplex
    <3>1. c \in UsersOf(j, s)
      BY <1>5 DEF UsersOf
    <3>2. Cardinality(UsersOf(j, s)) \in Nat /\ Cardinality(UsersOf(j, s)) >= 1
      BY <3>1, UsersFinite, FS_EmptySet
    <3>3. References(j, s) = Cardinality(UsersOf(j, s)) + 1
      BY <2>2 DEF References, Kept
    <3>4. j.socket[s].count >= References(j, s) /\ j.socket[s].count \in Nat
      BY <1>5, <1>6, ObjectParts DEF Sound, Counted
    <3>5. j.socket[s].count # 1
      BY <3>2, <3>3, <3>4
    <3> QED
      BY <1>11, <2>2, <3>5 DEF Left, Kept
  <2> QED
    BY <2>1, <2>2
<1>14. FdsAgree(j) => FdsAgree(m)
  <2>1. Shrunk(j, m)
    BY SMTT(40), <1>7, <1>8 DEF Closed, Shrunk
  <2> QED
    BY <1>5, <1>9, <2>1, FdsAgreeShrunk
<1> QED
  BY <1>1, <1>3, <1>12, <1>13, <1>14 DEF TablesBut

-----------------------------------------------------------------------------
(***************************************************************************)
(* The initial state.                                                      *)
(***************************************************************************)
(* There are only sockets of the process.                                  *)
Idle(n) == /\ n \in Net /\ Placed(n) /\ FdsAgree(n)
           /\ \A c \in Calls : n.call_socket[c] = NoSocket /\ n.call[c] = "new"
           /\ \A s \in Addresses :
                 /\ n.owners[s] = {}
                 /\ n.socket[s].alive => n.socket[s].count = 1 /\ ~n.socket[s].ofCall

(* Another one is allocated.                                               *)
LEMMA IdleAllocate ==
    ASSUME NEW n, Idle(n), NEW s \in Addresses, ~n.socket[s].alive, NEW fd \in Fd,
           NEW for, for # "call", NEW l \in Line, NEW m, m = Allocate(n, s, fd, for, l)
    PROVE  Idle(m) /\ Allocated(n, m, s, fd, for, l)
<1>1. m \in Net /\ Placed(m) /\ Allocated(n, m, s, fd, for, l)
  BY AllocateEffect DEF Idle
<1>2. FdsAgree(m)
  BY <1>1, FdsAgreeAppended DEF Idle, Allocated
<1>3. \A t \in Addresses : m.socket[t].alive => m.socket[t].count = 1 /\ ~m.socket[t].ofCall
  BY <1>1 DEF Idle, Allocated
<1> QED
  BY <1>1, <1>2, <1>3 DEF Idle, Allocated, SameCalls

(* No call can be wrong about its socket then.                             *)
LEMMA IdleTables ==
    ASSUME NEW n, Idle(n), Solo => Kept(n) /\ Single(n)
    PROVE  TablesBut(n, NoSocket)
<1>1. \A t \in Addresses : UsersOf(n, t) = {}
  BY SocketsAssumption DEF Idle, UsersOf
<1>2. \A t \in Addresses : n.socket[t].alive => References(n, t) = 1
  <2>1. Cardinality({}) = 0
    BY FS_EmptySet
  <2>2. \A t \in Addresses : n.socket[t].alive => References(n, t) = Cardinality(UsersOf(n, t)) + 1
    BY DEF Idle, References
  <2> QED
    BY <1>1, <2>1, <2>2
<1>3. Counted(n) /\ CountedExactly(n)
  <2>1. \A t \in Addresses : n.socket[t].alive => n.socket[t].count = References(n, t)
    BY <1>2 DEF Idle
  <2>2. \A t \in Addresses : n.socket[t].alive => n.socket[t].count >= References(n, t)
    BY <1>2, <2>1
  <2> QED
    BY <2>1, <2>2 DEF Counted, CountedExactly
<1>4. Sound(n)
  BY <1>3 DEF Idle, Sound, Held
<1>5. Exact(n)
  BY <1>1, <1>3 DEF Idle, Exact, OwnedExactly
<1>6. ValidBut(n, NoSocket) /\ Attached(n)
  BY DEF Idle, ValidBut, Attached
<1> QED
  BY <1>4, <1>5, <1>6 DEF TablesBut, Idle, Alone

(* The process listens, and a client with one socket has connected it.     *)
LEMMA Inits ==
    ASSUME Init
    PROVE  IInv
<1> DEFINE e == [socket      |-> [s \in Addresses |-> Unallocated],
                 slots       |-> << >>,
                 line        |-> [f \in Fd |-> "closed"],
                 owners      |-> [s \in Addresses |-> {}],
                 call        |-> [c \in Calls |-> "new"],
                 call_socket |-> [c \in Calls |-> NoSocket]]
           for == "process"
           zero == 0
           one == 1
<1>1. zero \in Fd /\ one \in Fd /\ for # "call" /\ "down" \in Line /\ "up" \in Line
  BY SocketsAssumption DEF Fd, Line
<1>2. Idle(e)
  <2>1. e \in Net
    BY UnallocatedObject DEF Net, Line
  <2>2. \A s \in Addresses : e.socket[s] = Unallocated /\ e.owners[s] = {}
    OBVIOUS
  <2>3. Len(e.slots) = 0
    OBVIOUS
  <2>4. \A c \in Calls : e.call_socket[c] = NoSocket /\ e.call[c] = "new"
    OBVIOUS
  <2>5. Cardinality(Addresses) >= 0
    BY FS_CardinalityType, SocketsAssumption
  <2> HIDE DEF e
  <2>6. Placed(e)
    BY <2>2, <2>3, <2>5, UnallocatedObject DEF Placed, Valid
  <2>7. FdsAgree(e)
    BY <2>3 DEF FdsAgree
  <2> QED
    BY <2>1, <2>2, <2>4, <2>6, <2>7, UnallocatedObject DEF Idle
<1>3. /\ \A s \in Addresses : ~e.socket[s].alive /\ e.socket[s].ofCall = FALSE
      /\ e.line = [f \in Fd |-> "closed"] /\ e.slots = << >>
  BY DEF Unallocated
<1>4. Listening = Allocate(e, Main, zero, for, "down")
  BY DEF Listening
<1>5. net = IF config.multisocket \/ config.server THEN Listening
            ELSE Allocate(Listening, Multiplex, one, for, "up")
  BY DEF Init
<1> HIDE DEF e, for, zero, one
<1>6. Idle(Listening) /\ Allocated(e, Listening, Main, zero, for, "down")
  BY <1>1, <1>2, <1>3, <1>4, IdleAllocate, SocketsAssumption
<1>7. TablesBut(net, NoSocket)
  <2>1. CASE ~Solo
    <3>1. net = Listening
      BY <1>5, <2>1 DEF Solo
    <3> QED
      BY <1>6, <2>1, <3>1, IdleTables
  <2>2. CASE Solo
    <3>1. net = Allocate(Listening, Multiplex, one, for, "up")
      BY <1>5, <2>2 DEF Solo
    <3>2. ~Listening.socket[Multiplex].alive
      BY <1>3, <1>6, SocketsAssumption DEF Allocated
    <3>3. Idle(net) /\ Allocated(Listening, net, Multiplex, one, for, "up")
      BY <1>1, <1>6, <3>1, <3>2, IdleAllocate, SocketsAssumption
    <3>4. Kept(net)
      BY <1>1, <3>3 DEF Kept, Allocated
    <3>5. Single(net)
      <4>1. net.line = [Listening.line EXCEPT ![one] = "up"]
            /\ Listening.line = [e.line EXCEPT ![zero] = "down"]
        BY <1>6, <3>3 DEF Allocated
      <4>2. net.line[0] = "down"
        BY <1>1, <1>3, <4>1 DEF zero, one
      <4>3. net.socket[Main].fd = 0
        BY <1>6, <3>3, SocketsAssumption DEF Allocated, zero
      <4>4. net.socket[Multiplex].fd = 1 /\ 1 # INVALID_SOCKET
        BY <1>1, <3>3, FdFacts DEF Allocated, one
      <4>5. net.slots = Append(Append(<< >>, [sock |-> Main, fd |-> 0]),
                               [sock |-> Multiplex, fd |-> 1])
        BY <1>3, <1>6, <3>3 DEF Allocated, zero, one
      <4>6. \A i \in 1..Len(net.slots) :
               net.slots[i] \in {[sock |-> Main, fd |-> 0], [sock |-> Multiplex, fd |-> 1]}
        <5> DEFINE a == [sock |-> Main, fd |-> 0]
                   b == [sock |-> Multiplex, fd |-> 1]
        <5> HIDE DEF a, b
        <5>1. net.slots = Append(Append(<< >>, a), b)
          BY <4>5 DEF a, b
        <5> DEFINE none == << >>
        <5>2. none \in Seq({a, b}) /\ Len(none) = 0
          OBVIOUS
        <5> HIDE DEF none
        <5>3. /\ Append(none, a) \in Seq({a, b})
              /\ Len(Append(none, a)) = 1 /\ Append(none, a)[1] = a
          BY <5>2, AppendProperties
        <5> DEFINE first == Append(none, a)
        <5> HIDE DEF first
        <5>4. Len(Append(first, b)) = 2 /\ Append(first, b)[1] = a /\ Append(first, b)[2] = b
          BY <5>3, AppendProperties DEF first
        <5>5. Len(net.slots) = 2 /\ net.slots[1] = a /\ net.slots[2] = b
          BY <5>1, <5>4 DEF first, none
        <5>6. \A i \in 1..2 : i = 1 \/ i = 2
          OBVIOUS
        <5> QED
          BY <5>5, <5>6 DEF a, b
      <4> QED
        BY <3>3, <4>2, <4>3, <4>4, <4>6 DEF Single, Idle
    <3> QED
      BY <3>3, <3>4, <3>5, IdleTables
  <2> QED
    BY <2>1, <2>2
<1>8. Rest
  <2>1. config.resets \in Int
    BY SocketsAssumption DEF Init, Configuration
  <2>2. Cardinality(Addresses) \in Nat
    BY FS_CardinalityType, SocketsAssumption
  <2>3. reset_number \in IF config.resets <= 0 THEN {config.resets} ELSE 0..config.resets
    BY <2>1 DEF Init
  <2> QED
    BY <2>2, <2>3 DEF Init, Rest
<1> QED
  BY <1>7, <1>8 DEF Init, IInv, NoMisuse

-----------------------------------------------------------------------------
(***************************************************************************)
(* Each action keeps the invariant.                                        *)
(***************************************************************************)
(* It suffices that it keeps the tables right, whatever else it does.      *)
LEMMA Step ==
    ASSUME IInv, config' = config, TablesBut(net', NoSocket), Rest',
           Alone => /\ pending' \subseteq {Multiplex}
                    /\ pending' # {} => net'.socket[Multiplex].fd = INVALID_SOCKET,
           CallsStay /\ StableFds => status' \in {"running", "exited", "deleted call"}
    PROVE  IInv'
<1>1. (CallsStay' <=> CallsStay) /\ (Solo' <=> Solo) /\ (Alone' <=> Alone)
      /\ (StableFds' <=> StableFds)
  BY DEF CallsStay, Solo, Alone, StableFds
<1>2. TablesBut(net, NoSocket)'
  BY <1>1 DEF TablesBut
<1>3. NoMisuse'
  BY <1>1 DEF NoMisuse
<1> QED
  BY <1>1, <1>2, <1>3 DEF IInv

(* Most actions only change the tables.                                    *)
LEMMA TablesStep ==
    ASSUME IInv, NEW n, Tables(n), TablesBut(n, NoSocket),
           Alone => n.socket[Multiplex].fd \in {net.socket[Multiplex].fd, INVALID_SOCKET}
    PROVE  IInv'
<1>1. TablesBut(net', NoSocket) /\ config' = config /\ net' = n
  BY DEF Tables
<1>2. Rest'
  BY DEF Tables, IInv, Rest
<1>3. Alone => /\ pending' \subseteq {Multiplex}
               /\ pending' # {} => net'.socket[Multiplex].fd = INVALID_SOCKET
  BY <1>1 DEF Tables, IInv
<1>4. CallsStay /\ StableFds => status' \in {"running", "exited", "deleted call"}
  BY DEF Tables, IInv, NoMisuse
<1> QED
  BY <1>1, <1>2, <1>3, <1>4, Step

(* The process ends, or its memory is misused, or only the phase changes.  *)
LEMMA StatusStep ==
    ASSUME IInv, UNCHANGED <<config, net, pending, reset_number, next_socket>>,
           phase' \in {"run", "read", "process"},
           status' \in {"running", "exited", "blocked", "deleted call", "deleted owner",
                        "freed socket", "assertion", "no socket"},
           CallsStay /\ StableFds => status' \in {"running", "exited", "deleted call"}
    PROVE  IInv'
<1>1. TablesBut(net', NoSocket) /\ config' = config /\ net' = net
  BY DEF IInv
<1>2. Rest'
  BY DEF IInv, Rest
<1>3. Alone => /\ pending' \subseteq {Multiplex}
               /\ pending' # {} => net'.socket[Multiplex].fd = INVALID_SOCKET
  BY <1>1 DEF IInv
<1> QED
  BY <1>1, <1>2, <1>3, Step

(* REPORT_ERROR.                                                           *)
LEMMA ExitStep ==
    ASSUME IInv, Exit
    PROVE  IInv'
<1>1. phase' \in {"run", "read", "process"} /\ status' = "exited"
  BY DEF Exit, IInv, Rest
<1> QED
  BY <1>1, StatusStep DEF Exit

(* Memory is only misused where NoMisuse says nothing.                     *)
LEMMA MisuseStep ==
    ASSUME IInv, NEW what \in {"blocked", "deleted owner", "freed socket", "assertion",
                               "no socket"},
           Misuse(what), ~(CallsStay /\ StableFds)
    PROVE  IInv'
<1>1. phase' \in {"run", "read", "process"} /\ status' = what
  BY DEF Misuse, IInv, Rest
<1> QED
  BY <1>1, StatusStep DEF Misuse

(* A message is taken, and nothing changes.                                *)
LEMMA StutterStep ==
    ASSUME IInv, UNCHANGED vars
    PROVE  IInv'
<1>1. /\ phase' \in {"run", "read", "process"}
      /\ status' \in {"running", "exited", "blocked", "deleted call", "deleted owner",
                      "freed socket", "assertion", "no socket"}
      /\ CallsStay /\ StableFds => status' \in {"running", "exited", "deleted call"}
  BY DEF vars, IInv, Rest, NoMisuse
<1> QED
  BY <1>1, StatusStep DEF vars

(* A reconnection uses up one that is left.                                *)
LEMMA Reconnections ==
    ASSUME Rest, reconnect_allowed
    PROVE  /\ config.resets # 0
           /\ Decremented(reset_number)
                 \in IF config.resets <= 0 THEN {config.resets} ELSE 0..config.resets
<1>1. config.resets \in Int
  BY SocketsAssumption DEF Rest, Configuration
<1>2. CASE config.resets <= 0
  <2>1. reset_number = config.resets
    BY <1>2 DEF Rest
  <2>2. reset_number = -1
    BY <1>1, <1>2, <2>1 DEF reconnect_allowed
  <2>3. Decremented(reset_number) = reset_number
    BY <2>2 DEF Decremented
  <2> QED
    BY <1>2, <2>1, <2>2, <2>3
<1>3. CASE ~(config.resets <= 0)
  <2>1. reset_number \in 0..config.resets
    BY <1>3 DEF Rest
  <2>2. Decremented(reset_number) = reset_number - 1 /\ reset_number > 0
    BY <1>1, <2>1 DEF reconnect_allowed, Decremented
  <2> QED
    BY <1>1, <1>3, <2>1, <2>2
<1> QED
  BY <1>2, <1>3

(* A socket that has a slot is valid.                                      *)
LEMMA SlotValid ==
    ASSUME NEW n \in Net, Placed(n), NEW i \in DOMAIN n.slots
    PROVE  /\ i \in 1..Len(n.slots) /\ n.slots[i].sock \in Addresses
           /\ n.socket[n.slots[i].sock].alive /\ ~n.socket[n.slots[i].sock].invalid
<1>1. i \in 1..Len(n.slots)
  BY NetParts
<1> QED
  BY <1>1, SlotParts DEF Placed, Valid

(* As long as calls stay, close_calls() meets no deleted one.              *)
LEMMA NoDeadOwner ==
    ASSUME NEW n, NEW but, TablesBut(n, but), CallsStay, NEW s \in Addresses
    PROVE  ~HasDeadOwner(n, s)
<1>1. Held(n) /\ OwnedExactly(n) /\ s # NoSocket
  BY SocketsAssumption DEF TablesBut, Sound, Exact
<1>2. \A c \in n.owners[s] : c \in Calls /\ n.call_socket[c] = s
  BY <1>1 DEF OwnedExactly, UsersOf
<1> QED
  BY <1>1, <1>2 DEF Held, HasDeadOwner

(* opentask::run() creates a call, with the connection of all calls.       *)
LEMMA OpenCallStep ==
    ASSUME IInv, NEW c \in Calls, OpenCall(c)
    PROVE  IInv'
<1> DEFINE k == [net EXCEPT !.call[c] = "open"]
<1>1. TablesBut(net, NoSocket) /\ Sound(net) /\ net \in Net /\ net.call[c] = "new"
  BY DEF IInv, TablesBut, Sound, OpenCall
<1>2. Tables(IF config.multisocket THEN k ELSE AssociateCounted(k, c, Multiplex))
  BY DEF OpenCall
<1>3. ~config.server
  BY DEF OpenCall
<1>4. CASE config.multisocket
  <2>1. Tables(k)
    BY <1>2, <1>4
  <2>2. TablesBut(k, NoSocket)
    <3> HIDE DEF k
    <3> QED
      BY <1>1, <1>4, OpenKeeps DEF k
  <2>3. ~Alone
    BY <1>4 DEF Alone, Solo
  <2> HIDE DEF k
  <2> QED
    BY <2>1, <2>2, <2>3, TablesStep
<1>5. CASE ~config.multisocket
  <2> DEFINE m == AssociateCounted(k, c, Multiplex)
  <2>1. Tables(m)
    BY <1>2, <1>5
  <2>2. Multiplex \in Addresses /\ net.socket[Multiplex].alive
    BY <1>1, <1>3, <1>5, SocketsAssumption DEF TablesBut, Solo, Kept
  <2>3. net.call_socket[c] = NoSocket
    BY <1>1 DEF Sound, Held
  <2>4. /\ k.call = [net.call EXCEPT ![c] = "open"]
        /\ k.owners = net.owners /\ k.call_socket = net.call_socket
        /\ k.socket = net.socket /\ k.slots = net.slots /\ k.line = net.line
        /\ k = [net EXCEPT !.call = k.call]
    BY <1>1 DEF Net
  <2> HIDE DEF k
  <2>5. k \in Net
    <3>1. [net.call EXCEPT ![c] = "open"] \in [Calls -> {"new", "open", "over"}]
      BY <1>1, NetParts
    <3> QED
      BY <1>1, <2>4, <3>1 DEF Net
  <2> HIDE DEF m
  <2>6. TablesBut(m, NoSocket) /\ m.socket[Multiplex].fd = net.socket[Multiplex].fd
    BY <1>1, <1>5, <2>2, <2>3, <2>4, <2>5, JoinKeeps DEF m
  <2> QED
    BY <2>1, <2>6, TablesStep
<1> QED
  BY <1>4, <1>5

(* process_message() creates a call for a message that came on s.          *)
LEMMA IncomingCallStep ==
    ASSUME IInv, NEW c \in Calls, NEW s \in Addresses, IncomingCall(c, s)
    PROVE  IInv'
<1> DEFINE k == [net EXCEPT !.call[c] = "open"]
           m == AssociateCounted(k, c, s)
<1>1. /\ TablesBut(net, NoSocket) /\ Sound(net) /\ net \in Net /\ Placed(net)
      /\ net.call[c] = "new"
  BY DEF IInv, TablesBut, Sound, IncomingCall
<1>2. Tables(m) /\ ~Alone
  BY DEF IncomingCall, Alone, Solo
<1>3. net.socket[s].alive /\ ~net.socket[s].invalid
  <2>1. PICK i \in DOMAIN net.slots : s = net.slots[i].sock
    BY DEF IncomingCall, InSlots
  <2> QED
    BY <1>1, <2>1, SlotValid
<1>4. net.call_socket[c] = NoSocket
  BY <1>1 DEF Sound, Held
<1>5. /\ k.call = [net.call EXCEPT ![c] = "open"]
      /\ k.owners = net.owners /\ k.call_socket = net.call_socket
      /\ k.socket = net.socket /\ k.slots = net.slots /\ k.line = net.line
      /\ k = [net EXCEPT !.call = k.call]
  BY <1>1 DEF Net
<1> HIDE DEF k
<1>6. k \in Net
  <2>1. [net.call EXCEPT ![c] = "open"] \in [Calls -> {"new", "open", "over"}]
    BY <1>1, NetParts
  <2> QED
    BY <1>1, <1>5, <2>1 DEF Net
<1> HIDE DEF m
<1>7. TablesBut(m, NoSocket)
  BY <1>1, <1>2, <1>3, <1>4, <1>5, <1>6, JoinKeeps DEF m
<1> QED
  BY <1>2, <1>7, TablesStep

(* new_sipp_call_socket() gets a socket.                                   *)
LEMMA ConnectStep ==
    ASSUME IInv, NEW c \in Calls, NEW s \in Addresses, Connect(c, s)
    PROVE  IInv'
<1>1. TablesBut(net, NoSocket) /\ net \in Net /\ Rest
  BY DEF IInv, TablesBut, Sound
<1>2. /\ net.call[c] = "open" /\ ~net.socket[s].alive /\ FreeFds(net) # {}
      /\ config.multisocket
      /\ net.call_socket[c] # NoSocket => net.socket[net.call_socket[c]].invalid
  BY DEF Connect, CallRuns, NeedsSocket
<1> PICK l \in {"up", "down"} :
       LET n == Associate(Allocate(net, s, LowestFd(net), "call", l), c, s)
       IN  \/ l = "up" /\ Tables(n)
           \/ l = "down" /\ ~reconnect_allowed /\ Exit
           \/ /\ l = "down" /\ reconnect_allowed
              /\ net' = DeleteCall(n, c)
              /\ reset_number' = Decremented(reset_number)
              /\ UNCHANGED <<config, pending, next_socket, phase, status>>
  BY DEF Connect
<1> DEFINE n == Associate(Allocate(net, s, LowestFd(net), "call", l), c, s)
<1>3. TablesBut(n, NoSocket)
  <2> HIDE DEF n
  <2> QED
    BY <1>1, <1>2, ConnectKeeps DEF n
<1>4. ~Alone
  BY <1>2 DEF Alone, Solo
<1>5. CASE Tables(n)
  <2> HIDE DEF n
  <2> QED
    BY <1>3, <1>4, <1>5, TablesStep
<1>6. CASE Exit
  BY <1>6, ExitStep
<1>7. CASE /\ reconnect_allowed
           /\ net' = DeleteCall(n, c)
           /\ reset_number' = Decremented(reset_number)
           /\ UNCHANGED <<config, pending, next_socket, phase, status>>
  <2> HIDE DEF n
  <2>1. TablesBut(net', NoSocket)
    BY <1>3, <1>7, DeleteCallKeeps
  <2>2. Rest'
    BY <1>1, <1>7, Reconnections DEF Rest
  <2>3. CallsStay /\ StableFds => status' \in {"running", "exited", "deleted call"}
    BY <1>7 DEF IInv, NoMisuse
  <2> QED
    BY <1>4, <1>7, <2>1, <2>2, <2>3, Step
<1> QED
  BY <1>5, <1>6, <1>7

(* new_sipp_call_socket() shares one.                                      *)
LEMMA ShareStep ==
    ASSUME IInv, NEW c \in Calls, Share(c)
    PROVE  IInv'
<1>1. /\ TablesBut(net, NoSocket) /\ Sound(net) /\ net \in Net /\ Placed(net) /\ Rest
  BY DEF IInv, TablesBut, Sound
<1> DEFINE found == {k \in 0..Len(net.slots)-1 :
                        Shareable(net.slots[SlotAfter(k) + 1].sock)}
           s == net.slots[SlotAfter(Min(found)) + 1].sock
           m == AssociateCounted(net, c, s)
<1>2. \/ Exit
      \/ /\ found # {}
         /\ net' = m
         /\ next_socket' = SlotAfter(Min(found) + 1)
         /\ UNCHANGED <<config, pending, reset_number, phase, status>>
  BY DEF Share
<1>3. CASE Exit
  BY <1>3, ExitStep
<1>4. CASE /\ found # {}
           /\ net' = m
           /\ next_socket' = SlotAfter(Min(found) + 1)
           /\ UNCHANGED <<config, pending, reset_number, phase, status>>
  <2>1. Len(net.slots) \in Nat /\ Len(net.slots) <= Cardinality(Addresses)
        /\ Cardinality(Addresses) \in Nat
    BY <1>1, SlotsBound, FS_CardinalityType, SocketsAssumption
  <2>2. found \subseteq Nat /\ found \subseteq 0..Len(net.slots)-1
    BY <2>1
  <2>3. Min(found) \in 0..Len(net.slots)-1
    <3> HIDE DEF found
    <3> QED
      BY <1>4, <2>2, MinIsLeast
  <2>4. next_socket \in Nat
    <3>1. next_socket \in 0..Cardinality(Addresses)
      BY <1>1 DEF Rest
    <3> QED
      BY <2>1, <3>1
  <2> DEFINE p == Min(found)
             L == Len(net.slots)
  <2>5. p \in Nat /\ L \in Nat /\ L > 0
    <3> HIDE DEF found
    <3> QED
      BY <2>1, <2>3
  <2> HIDE DEF p, L
  <2>6. (next_socket + p) % L \in 0..L-1 /\ (next_socket + (p + 1)) % L \in 0..L-1
    <3>1. next_socket + p \in Nat /\ next_socket + (p + 1) \in Nat
      BY <2>4, <2>5
    <3> QED
      BY <2>5, <3>1
  <2>7. SlotAfter(p) + 1 \in DOMAIN net.slots /\ SlotAfter(p + 1) \in 0..Cardinality(Addresses)
    <3>1. SlotAfter(p) \in 0..L-1 /\ SlotAfter(p + 1) \in 0..L-1
      BY <2>6 DEF SlotAfter, L
    <3>2. DOMAIN net.slots = 1..L
      BY <1>1, NetParts DEF L
    <3> QED
      BY <2>1, <2>5, <3>1, <3>2 DEF L
  <2>8. s \in Addresses /\ net.socket[s].alive /\ ~net.socket[s].invalid
    <3>1. s = net.slots[SlotAfter(p) + 1].sock
      BY DEF p
    <3> HIDE DEF s
    <3> QED
      BY <1>1, <2>7, <3>1, SlotValid
  <2>9. ~Alone /\ net.call[c] = "open"
    BY DEF Share, NeedsSocket, Alone, Solo, CallRuns
  <2>10. CallsStay => net.call_socket[c] = NoSocket
    BY <1>1 DEF TablesBut, ValidBut, Share, NeedsSocket
  <2>11. net.call = [net.call EXCEPT ![c] = "open"]
    <3>1. net.call \in [Calls -> {"new", "open", "over"}]
      BY <1>1, NetParts
    <3> QED
      BY <2>9, <3>1
  <2> HIDE DEF s
  <2>12. m = AssociateCounted(net, c, s)
    OBVIOUS
  <2> HIDE DEF m
  <2>13. TablesBut(m, NoSocket)
    BY <1>1, <2>8, <2>9, <2>10, <2>11, <2>12, JoinKeeps
  <2>14. next_socket' = SlotAfter(p + 1)
    BY <1>4 DEF p
  <2>15. Rest'
    <3> HIDE DEF found
    <3> QED
      BY <1>1, <1>4, <2>7, <2>14 DEF Rest
  <2>16. CallsStay /\ StableFds => status' \in {"running", "exited", "deleted call"}
    BY <1>4 DEF IInv, NoMisuse
  <2> HIDE DEF found
  <2> QED
    BY <1>4, <2>9, <2>13, <2>15, <2>16, Step
<1> QED
  BY <1>2, <1>3, <1>4

(* The socket a call writes to: when calls stay there is one, and that of  *)
(* a lonely client is the connection of all calls.                         *)
LEMMA Targets ==
    ASSUME IInv, NEW c \in Calls, net.call[c] = "open"
    PROVE  /\ ~NoTarget(c) => Target(c) \in Addresses
           /\ Alone => Target(c) = Multiplex /\ net.call_socket[c] = Multiplex
<1>1. TablesBut(net, NoSocket) /\ net \in Net
  BY DEF IInv, TablesBut, Sound
<1>2. net.call_socket[c] \in Addresses \cup {NoSocket}
  BY <1>1, NetParts
<1>3. ASSUME ~NoTarget(c) PROVE Target(c) \in Addresses
  <2>1. CASE net.call_socket[c] # NoSocket
    BY <1>2, <2>1 DEF Target
  <2>2. CASE net.call_socket[c] = NoSocket
    <3>1. net.slots # << >> /\ net.slots \in Seq(Slot)
      BY <1>1, <1>3, <2>2, NetParts DEF NoTarget
    <3>2. Len(net.slots) \in 1..Len(net.slots)
      BY <3>1, EmptySeq, LenProperties
    <3>3. LastSlot(net).sock \in Addresses
      BY <1>1, <3>2, SlotParts DEF LastSlot
    <3> QED
      BY <2>2, <3>3 DEF Target
  <2> QED
    BY <2>1, <2>2
<1>4. ASSUME Alone PROVE Target(c) = Multiplex /\ net.call_socket[c] = Multiplex
  <2>1. Attached(net) /\ Single(net)
    BY <1>1, <1>4 DEF TablesBut, Alone, Solo
  <2>2. net.call_socket[c] = Multiplex
    BY <2>1 DEF Attached, Single
  <2> QED
    BY <2>2, SocketsAssumption DEF Target
<1> QED
  BY <1>3, <1>4

(* send_raw() fails.                                                       *)
LEMMA SendFailsStep ==
    ASSUME IInv, NEW c \in Calls, NEW s \in Addresses, Alone => s = Multiplex,
           NEW outcome, NEW afterwards \in {"running", "deleted call"},
           SendFails(c, s, outcome, afterwards)
    PROVE  IInv'
<1>1. TablesBut(net, NoSocket) /\ Rest
  BY DEF IInv
<1>2. CASE outcome = "EPIPE" /\ ~reconnect_allowed
  BY <1>2, ExitStep DEF SendFails
<1>3. CASE outcome = "EPIPE" /\ reconnect_allowed
  <2> DEFINE n == CloseFd(net, s)
  <2>1. /\ net' = DeleteCall(n, c) /\ pending' = pending \cup {s} /\ status' = afterwards
        /\ UNCHANGED <<config, reset_number, next_socket, phase>>
    BY <1>3 DEF SendFails
  <2>2. TablesBut(n, NoSocket) /\ n.socket[s].fd = INVALID_SOCKET
    <3> HIDE DEF n
    <3> QED
      BY <1>1, CloseFdKeeps DEF n
  <2> HIDE DEF n
  <2>3. TablesBut(net', NoSocket) /\ Shrunk(n, net')
    BY <2>1, <2>2, DeleteCallKeeps
  <2>4. Rest'
    BY <1>1, <2>1 DEF Rest
  <2>5. Alone => /\ pending' \subseteq {Multiplex}
                 /\ pending' # {} => net'.socket[Multiplex].fd = INVALID_SOCKET
    BY <2>1, <2>2, <2>3 DEF IInv, Shrunk
  <2> QED
    BY <2>1, <2>3, <2>4, <2>5, Step
<1>4. CASE outcome # "EPIPE"
  <2>1. /\ net' = DeleteCall(net, c) /\ pending' = pending /\ status' = afterwards
        /\ UNCHANGED <<config, reset_number, next_socket, phase>>
    BY <1>4 DEF SendFails
  <2>2. TablesBut(net', NoSocket) /\ Shrunk(net, net')
    BY <1>1, <2>1, DeleteCallKeeps
  <2>3. Rest'
    BY <1>1, <2>1 DEF Rest
  <2>4. Alone => /\ pending' \subseteq {Multiplex}
                 /\ pending' # {} => net'.socket[Multiplex].fd = INVALID_SOCKET
    BY <2>1, <2>2, SocketsAssumption DEF IInv, Shrunk
  <2> QED
    BY <2>1, <2>2, <2>3, <2>4, Step
<1> QED
  BY <1>2, <1>3, <1>4

(* A call sends a message.                                                 *)
LEMMA SendStep ==
    ASSUME IInv, NEW c \in Calls, Send(c)
    PROVE  IInv'
<1>1. net.call[c] = "open" /\ ~NeedsSocket(c)
  BY DEF Send, CallRuns
<1>2. CASE NoTarget(c)
  <2>1. CallsStay => FALSE
    BY <1>1, <1>2 DEF NoTarget, NeedsSocket, CallsStay, IInv, TablesBut, Attached
  <2>2. Misuse("no socket")
    BY <1>2 DEF Send
  <2> QED
    BY <2>1, <2>2, MisuseStep
<1>3. CASE ~NoTarget(c)
  <2>1. \/ UNCHANGED vars
        \/ \E outcome : SendFails(c, Target(c), outcome, "running")
    BY <1>3 DEF Send
  <2>2. Target(c) \in Addresses /\ (Alone => Target(c) = Multiplex)
    BY <1>1, <1>3, Targets
  <2> QED
    BY <2>1, <2>2, StutterStep, SendFailsStep
<1> QED
  BY <1>2, <1>3

(* A call is deleted.                                                      *)
LEMMA DeleteStep ==
    ASSUME IInv, NEW c \in Calls, Tables(DeleteCall(net, c))
    PROVE  IInv'
<1> DEFINE m == DeleteCall(net, c)
<1>1. Tables(m)
  OBVIOUS
<1> HIDE DEF m
<1>2. TablesBut(m, NoSocket) /\ Shrunk(net, m)
  BY DeleteCallKeeps DEF IInv, m
<1>3. m.socket[Multiplex].fd \in {net.socket[Multiplex].fd, INVALID_SOCKET}
  BY <1>2, SocketsAssumption DEF Shrunk
<1> QED
  BY <1>1, <1>2, <1>3, TablesStep

(* abortCall().                                                            *)
LEMMA AbortCallStep ==
    ASSUME IInv, NEW c \in Calls, AbortCall(c)
    PROVE  IInv'
<1>1. net.call[c] = "open"
  BY DEF AbortCall, CallRuns
<1>2. CASE NoTarget(c)
  <2>1. CallsStay => FALSE
    <3> SUFFICES ASSUME CallsStay PROVE FALSE
      OBVIOUS
    <3>1. PICK s \in Addresses : c \in net.owners[s]
      BY DEF AbortCall
    <3>2. net.owners[s] = UsersOf(net, s)
      BY DEF IInv, TablesBut, Exact, OwnedExactly
    <3> QED
      BY <1>2, <3>1, <3>2, SocketsAssumption DEF UsersOf, NoTarget
  <2>2. Misuse("no socket")
    BY <1>2 DEF AbortCall
  <2> QED
    BY <2>1, <2>2, MisuseStep
<1>3. CASE ~NoTarget(c)
  <2>1. \/ Tables(DeleteCall(net, c))
        \/ \E outcome : SendFails(c, Target(c), outcome, "deleted call")
    BY <1>3 DEF AbortCall
  <2>2. Target(c) \in Addresses /\ (Alone => Target(c) = Multiplex)
    BY <1>1, <1>3, Targets
  <2> QED
    BY <2>1, <2>2, DeleteStep, SendFailsStep
<1> QED
  BY <1>2, <1>3

(* The action closecon.                                                    *)
LEMMA CloseConStep ==
    ASSUME IInv, NEW c \in Calls, CloseCon(c)
    PROVE  IInv'
<1> DEFINE s == net.call_socket[c]
           m == [Close(Invalidate(net, s), s) EXCEPT !.call_socket[c] = NoSocket]
<1>1. s \in Addresses
  BY NetParts DEF IInv, TablesBut, Sound, CloseCon
<1>2. Tables(m) /\ config.closecon /\ ~Alone
  BY DEF CloseCon, Alone
<1>3. TablesBut(m, NoSocket)
  <2> HIDE DEF m
  <2> QED
    BY <1>1, <1>2, CloseConKeeps DEF IInv, m
<1> HIDE DEF m
<1> QED
  BY <1>2, <1>3, TablesStep

(* The destination of a socket is no longer that of the command line.      *)
LEMMA ChangedKeeps ==
    ASSUME NEW n, TablesBut(n, NoSocket), NEW s \in Addresses, ~Alone,
           NEW m, m = [n EXCEPT !.socket[s].changed = TRUE]
    PROVE  /\ TablesBut(m, NoSocket) /\ m.line = n.line
           /\ \A t \in Addresses : m.socket[t].alive = n.socket[t].alive
                                   /\ m.socket[t].fd = n.socket[t].fd
<1>1. n \in Net /\ Placed(n) /\ Sound(n)
  BY DEF TablesBut, Sound
<1> DEFINE o == [n.socket[s] EXCEPT !.changed = TRUE]
<1>2. o \in Object /\ SameUse(n.socket[s], o) /\ SamePlace(n.socket[s], o)
      /\ o.fd = n.socket[s].fd
  BY <1>1, ObjectParts DEF Object, SameUse, SamePlace
<1>3. /\ m.socket = [n.socket EXCEPT ![s] = o]
      /\ SameCalls(n, m) /\ m.slots = n.slots /\ m.line = n.line
      /\ m = [n EXCEPT !.socket = m.socket]
  BY <1>1 DEF Net, SameCalls
<1> HIDE DEF o
<1>4. /\ m.socket \in [Addresses -> Object] /\ m.socket[s] = o
      /\ \A t \in Addresses : t # s => m.socket[t] = n.socket[t]
  <2>1. n.socket \in [Addresses -> Object] /\ o \in Object
    BY <1>1, <1>2, NetParts
  <2>2. m.socket = [n.socket EXCEPT ![s] = o]
    BY <1>3
  <2> QED
    BY ZenonT(60), <2>1, <2>2
<1>5. m \in Net
  BY <1>1, <1>3, <1>4 DEF Net
<1>6. \A t \in Addresses : /\ SameUse(n.socket[t], m.socket[t])
                           /\ SamePlace(n.socket[t], m.socket[t])
                           /\ m.socket[t].fd = n.socket[t].fd
  BY <1>2, <1>4 DEF SameUse, SamePlace
<1>7. Placed(m)
  BY ZenonT(60), <1>1, <1>3, <1>5, <1>6, PlacedKept
<1>8. /\ Sound(m)
      /\ Exact(n) => Exact(m)
      /\ Attached(n) => Attached(m)
      /\ Kept(n) => Kept(m)
      /\ ValidBut(n, NoSocket) => ValidBut(m, NoSocket)
  <2>1. \A t \in Addresses : m.socket[t].invalid => n.socket[t].invalid
    BY <1>6 DEF SamePlace
  <2> QED
    BY ZenonT(60), <1>1, <1>3, <1>5, <1>6, <1>7, <2>1, UseKept
<1>9. FdsAgree(n) => FdsAgree(m)
  <2>1. Shrunk(n, m)
    BY <1>3, <1>6 DEF Shrunk
  <2> QED
    BY <1>1, <1>5, <2>1, FdsAgreeShrunk
<1> QED
  BY <1>3, <1>6, <1>8, <1>9 DEF TablesBut, SameUse

(* The action setdest, once the call has a socket.                         *)
LEMMA RedirectedStep ==
    ASSUME IInv, NEW c \in Calls, NEW n, TablesBut(n, NoSocket), NEW s \in Addresses,
           n.socket[s].alive, n.socket[s].fd \in Fd \/ FreeFds(n) # {},
           config.multisocket, config.setdest, Redirected(c, n, s)
    PROVE  IInv'
<1> DEFINE a == [n EXCEPT !.socket[s].changed = TRUE]
           m == CloseFd(a, s)
<1>1. \/ Tables(Reconnect(m, s, "up"))
      \/ Exit
      \/ /\ reconnect_allowed
         /\ net' = DeleteCall(Reconnect(m, s, "down"), c)
         /\ reset_number' = Decremented(reset_number)
         /\ UNCHANGED <<config, pending, next_socket, phase, status>>
  BY DEF Redirected
<1>2. ~Alone
  BY DEF Alone, Solo
<1>3. /\ TablesBut(a, NoSocket) /\ a.line = n.line
      /\ a.socket[s].alive /\ a.socket[s].fd = n.socket[s].fd
  <2> HIDE DEF a
  <2> QED
    BY <1>2, ChangedKeeps DEF a
<1> HIDE DEF a
<1>4. a \in Net
  BY <1>3 DEF TablesBut, Sound
<1>5. TablesBut(m, NoSocket) /\ m.socket[s].alive /\ m.socket[s].fd = INVALID_SOCKET
      /\ FdClosed(a, m, s) /\ m \in Net
  <2> HIDE DEF m
  <2>1. TablesBut(m, NoSocket)
    BY <1>2, <1>3, CloseFdKeeps DEF m
  <2>2. /\ SameUse(a.socket[s], m.socket[s])
        /\ m.socket[s].fd = INVALID_SOCKET
        /\ FdClosed(a, m, s)
    BY <1>4, CloseFdEffect DEF m
  <2> QED
    BY <1>3, <2>1, <2>2 DEF SameUse, TablesBut, Sound
<1> HIDE DEF m
<1>6. FreeFds(m) # {}
  <2>1. CASE n.socket[s].fd \in Fd
    <3>1. m.line = [a.line EXCEPT ![n.socket[s].fd] = "closed"]
      BY <1>3, <1>5, <2>1, FdFacts DEF FdClosed
    <3>2. a.line \in [Fd -> Line]
      BY <1>4, NetParts
    <3>3. m.line[n.socket[s].fd] = "closed"
      BY <2>1, <3>1, <3>2
    <3> QED
      BY <2>1, <3>3 DEF FreeFds
  <2>2. CASE FreeFds(n) # {}
    <3>1. PICK f \in Fd : a.line[f] = "closed"
      BY <1>3, <2>2 DEF FreeFds
    <3>2. a.line \in [Fd -> Line]
      BY <1>4, NetParts
    <3>3. m.line[f] = "closed"
      BY <1>5, <3>1, <3>2 DEF FdClosed
    <3> QED
      BY <3>3 DEF FreeFds
  <2> QED
    BY <2>1, <2>2
<1>7. \A l \in {"up", "down"} : TablesBut(Reconnect(m, s, l), NoSocket)
  BY <1>2, <1>5, <1>6, ReconnectKeeps
<1>8. CASE Tables(Reconnect(m, s, "up"))
  BY <1>2, <1>7, <1>8, TablesStep
<1>9. CASE Exit
  BY <1>9, ExitStep
<1>10. CASE /\ reconnect_allowed
            /\ net' = DeleteCall(Reconnect(m, s, "down"), c)
            /\ reset_number' = Decremented(reset_number)
            /\ UNCHANGED <<config, pending, next_socket, phase, status>>
  <2>1. TablesBut(net', NoSocket)
    BY <1>7, <1>10, DeleteCallKeeps
  <2>2. Rest'
    BY <1>10, Reconnections DEF IInv, Rest
  <2>3. CallsStay /\ StableFds => status' \in {"running", "exited", "deleted call"}
    BY <1>10 DEF IInv, NoMisuse
  <2> QED
    BY <1>2, <1>10, <2>1, <2>2, <2>3, Step
<1> QED
  BY <1>1, <1>8, <1>9, <1>10

(* The action setdest.                                                     *)
LEMMA SetDestStep ==
    ASSUME IInv, NEW c \in Calls, SetDest(c)
    PROVE  IInv'
<1>1. TablesBut(net, NoSocket) /\ Sound(net) /\ net \in Net /\ net.call[c] = "open"
      /\ config.setdest
  BY DEF IInv, TablesBut, Sound, SetDest, CallRuns
<1> DEFINE s == net.call_socket[c]
<1>2. \/ Exit
      \/ /\ config.multisocket /\ s = NoSocket /\ FreeFds(net) # {}
         /\ \E new \in {a \in Addresses : ~net.socket[a].alive} :
               Redirected(c, Associate(Allocate(net, new, LowestFd(net), "call", "down"),
                                       c, new), new)
      \/ /\ config.multisocket /\ s # NoSocket
         /\ net.socket[s].fd # INVALID_SOCKET \/ FreeFds(net) # {}
         /\ Redirected(c, net, s)
  BY DEF SetDest
<1>3. CASE Exit
  BY <1>3, ExitStep
<1>4. CASE /\ config.multisocket /\ s = NoSocket /\ FreeFds(net) # {}
           /\ \E new \in {a \in Addresses : ~net.socket[a].alive} :
                 Redirected(c, Associate(Allocate(net, new, LowestFd(net), "call", "down"),
                                         c, new), new)
  <2>1. PICK new \in Addresses :
           /\ ~net.socket[new].alive
           /\ Redirected(c, Associate(Allocate(net, new, LowestFd(net), "call", "down"),
                                      c, new), new)
    BY <1>4
  <2> DEFINE n == Associate(Allocate(net, new, LowestFd(net), "call", "down"), c, new)
  <2>2. Redirected(c, n, new)
    BY <2>1
  <2> HIDE DEF n
  <2>3. TablesBut(n, NoSocket) /\ n.socket[new].alive /\ n.socket[new].fd \in Fd
    BY <1>1, <1>4, <2>1, ConnectKeeps DEF n
  <2> QED
    BY <1>1, <1>4, <2>2, <2>3, RedirectedStep
<1>5. CASE /\ config.multisocket /\ s # NoSocket
           /\ net.socket[s].fd # INVALID_SOCKET \/ FreeFds(net) # {}
           /\ Redirected(c, net, s)
  <2>1. s \in Addresses
    BY <1>1, <1>5, NetParts
  <2>2. net.socket[s].alive
    BY <1>1, <1>5 DEF Sound, Held
  <2>3. net.socket[s].fd \in Fd \/ FreeFds(net) # {}
    BY <1>1, <1>5, <2>1, ObjectParts
  <2> QED
    BY <1>1, <1>5, <2>1, <2>2, <2>3, RedirectedStep
<1> QED
  BY <1>2, <1>3, <1>4, <1>5

(* The peers, and the main loop.                                           *)
LEMMA PeerStep ==
    ASSUME IInv, NEW f \in Fd, PeerCloses(f) \/ PeerResets(f)
    PROVE  IInv'
<1>1. PICK l \in {"fin", "rst"} : net.line[f] = "up" /\ Tables([net EXCEPT !.line[f] = l])
  BY DEF PeerCloses, PeerResets
<1> DEFINE m == [net EXCEPT !.line[f] = l]
<1>2. Tables(m)
  BY <1>1
<1> HIDE DEF m
<1>3. TablesBut(m, NoSocket) /\ m.socket = net.socket
  BY <1>1, LineKeeps DEF IInv, m
<1> QED
  BY <1>2, <1>3, TablesStep

(* A connection is accepted.                                               *)
LEMMA AcceptStep ==
    ASSUME IInv, NEW s \in Addresses, Accept(s)
    PROVE  IInv'
<1> DEFINE m == Allocate(net, s, LowestFd(net), "process", "up")
<1>1. Tables(m) /\ ~Alone
  BY DEF Accept, Alone, Solo
<1> HIDE DEF m
<1>2. TablesBut(m, NoSocket)
  BY AcceptKeeps DEF IInv, Accept, m
<1> QED
  BY <1>1, <1>2, TablesStep

(* What is read is a valid socket, and that of a lonely client is the      *)
(* connection of all calls.                                                *)
LEMMA ReadSocket ==
    ASSUME IInv, NEW i \in DOMAIN net.slots, Polled(i)
    PROVE  /\ i \in 1..Len(net.slots) /\ net.slots[i].sock \in Addresses
           /\ net.socket[net.slots[i].sock].alive
           /\ Alone => net.slots[i] = [sock |-> Multiplex, fd |-> 1]
                       /\ net.slots[i].sock = Multiplex
<1>1. TablesBut(net, NoSocket) /\ net \in Net /\ Placed(net)
  BY DEF IInv, TablesBut, Sound
<1>2. i \in 1..Len(net.slots) /\ net.slots[i].sock \in Addresses
      /\ net.socket[net.slots[i].sock].alive
  BY <1>1, SlotValid
<1>3. Alone => net.slots[i] = [sock |-> Multiplex, fd |-> 1]
  <2> SUFFICES ASSUME Alone PROVE net.slots[i] = [sock |-> Multiplex, fd |-> 1]
    OBVIOUS
  <2>1. Single(net)
    BY <1>1 DEF TablesBut
  <2>2. net.slots[i] \in {[sock |-> Main, fd |-> 0], [sock |-> Multiplex, fd |-> 1]}
        /\ net.line[0] = "down"
    BY <1>2, <2>1 DEF Single
  <2>3. net.line[net.slots[i].fd] \in {"fin", "rst"}
    BY DEF Polled, Readable
  <2> QED
    BY <2>2, <2>3
<1> QED
  BY <1>2, <1>3

(* The end of a connection is read.                                        *)
LEMMA ReadEndStep ==
    ASSUME IInv, NEW i \in DOMAIN net.slots, ReadEnd(i)
    PROVE  IInv'
<1> DEFINE s == net.slots[i].sock
           n == Invalidate(net, s)
           m == IF config.resetClose THEN CloseCalls(n, s) ELSE n
<1>1. /\ TablesBut(net, NoSocket) /\ s \in Addresses /\ net.socket[s].alive
      /\ Alone => s = Multiplex
  BY ReadSocket DEF IInv, ReadEnd
<1>2. IF config.resetClose /\ HasDeadOwner(n, s) THEN Misuse("deleted owner") ELSE Tables(m)
  BY DEF ReadEnd
<1>3. TablesBut(n, s) /\ SameCalls(net, n) /\ Shrunk(net, n)
  <2> HIDE DEF n, s
  <2> QED
    BY <1>1, InvalidateKeeps DEF n
<1> HIDE DEF n
<1>4. CASE config.resetClose /\ HasDeadOwner(n, s)
  <2>1. ~CallsStay
    BY <1>1, <1>3, <1>4, NoDeadOwner
  <2>2. Misuse("deleted owner")
    BY <1>2, <1>4
  <2> QED
    BY <2>1, <2>2, MisuseStep
<1>5. CASE ~config.resetClose
  <2>1. Tables(n)
    BY <1>2, <1>5
  <2>2. TablesBut(n, NoSocket)
    BY <1>1, <1>3, <1>5, NobodyLeft DEF CallsStay
  <2>3. n.socket[Multiplex].fd \in {net.socket[Multiplex].fd, INVALID_SOCKET}
    BY <1>3, SocketsAssumption DEF Shrunk
  <2> QED
    BY <2>1, <2>2, <2>3, TablesStep
<1>6. CASE config.resetClose /\ ~HasDeadOwner(n, s)
  <2> DEFINE k == CloseCalls(n, s)
  <2>1. Tables(k)
    BY <1>2, <1>6
  <2> HIDE DEF k, s
  <2>2. /\ TablesBut(k, s)
        /\ \A t \in Addresses : k.socket[t].fd \in {n.socket[t].fd, INVALID_SOCKET}
        /\ \A c \in Calls : k.call_socket[c] \in {n.call_socket[c], NoSocket}
        /\ \A c \in n.owners[s] : k.call_socket[c] = NoSocket
    BY <1>1, <1>3, CloseCallsKeeps DEF k
  <2>3. \A c \in Calls : k.call_socket[c] # s
    <3>1. Held(n) /\ s # NoSocket
      BY <1>1, <1>3, SocketsAssumption DEF TablesBut, Sound
    <3> QED
      BY <2>2, <3>1 DEF Held
  <2>4. TablesBut(k, NoSocket)
    BY <1>1, <2>2, <2>3, NobodyLeft
  <2>5. k.socket[Multiplex].fd \in {net.socket[Multiplex].fd, INVALID_SOCKET}
    BY <1>3, <2>2, SocketsAssumption DEF Shrunk
  <2> QED
    BY <2>1, <2>4, <2>5, TablesStep
<1> QED
  BY <1>4, <1>5, <1>6

(* An error is read: the descriptor is closed and the reset is pending.    *)
LEMMA ReadErrorStep ==
    ASSUME IInv, NEW i \in DOMAIN net.slots, ReadError(i)
    PROVE  IInv'
<1> DEFINE s == net.slots[i].sock
<1>1. /\ TablesBut(net, NoSocket) /\ Rest /\ s \in Addresses
      /\ Alone => s = Multiplex
  BY ReadSocket DEF IInv, ReadError
<1>2. \/ Exit
      \/ /\ net' = CloseFd(net, s)
         /\ pending' = pending \cup {s}
         /\ UNCHANGED <<config, reset_number, next_socket, phase, status>>
  BY DEF ReadError
<1>3. CASE Exit
  BY <1>3, ExitStep
<1>4. CASE /\ net' = CloseFd(net, s)
           /\ pending' = pending \cup {s}
           /\ UNCHANGED <<config, reset_number, next_socket, phase, status>>
  <2> HIDE DEF s
  <2>1. TablesBut(net', NoSocket) /\ net'.socket[s].fd = INVALID_SOCKET
    BY <1>1, <1>4, CloseFdKeeps
  <2>2. Rest'
    BY <1>1, <1>4 DEF Rest
  <2>3. Alone => /\ pending' \subseteq {Multiplex}
                 /\ pending' # {} => net'.socket[Multiplex].fd = INVALID_SOCKET
    BY <1>1, <1>4, <2>1 DEF IInv
  <2>4. CallsStay /\ StableFds => status' \in {"running", "exited", "deleted call"}
    BY <1>4 DEF IInv, NoMisuse
  <2> QED
    BY <1>4, <2>1, <2>2, <2>3, <2>4, Step
<1> QED
  BY <1>2, <1>3, <1>4

(* The process waits for data only where descriptors are not stable.       *)
LEMMA ReadBlocksStep ==
    ASSUME IInv, NEW i \in DOMAIN net.slots, ReadBlocks(i)
    PROVE  IInv'
<1> DEFINE s == net.slots[i].sock
           fd == net.socket[s].fd
<1>1. /\ TablesBut(net, NoSocket) /\ i \in 1..Len(net.slots) /\ s \in Addresses
      /\ Alone => net.slots[i] = [sock |-> Multiplex, fd |-> 1] /\ s = Multiplex
  BY ReadSocket DEF IInv, ReadBlocks
<1>2. fd # INVALID_SOCKET /\ net.line[fd] = "up"
  BY DEF ReadBlocks, ReadOf
<1>3. fd # net.slots[i].fd
  BY <1>2 DEF ReadBlocks, Polled, Readable
<1>4. ~(CallsStay /\ StableFds)
  <2> SUFFICES ASSUME CallsStay, StableFds PROVE FALSE
    OBVIOUS
  <2>1. CASE config.resets = 0
    <3>1. FdsAgree(net)
      BY <1>1, <2>1 DEF TablesBut, StableFds
    <3> QED
      BY <1>1, <1>2, <1>3, <3>1 DEF FdsAgree
  <2>2. CASE config.resets # 0
    <3>1. Alone
      BY <2>2 DEF StableFds, Alone, Solo
    <3>2. Single(net)
      BY <1>1, <3>1 DEF TablesBut
    <3>3. net.slots[i].fd = 1
      BY <1>1, <3>1
    <3>4. fd \in {1, INVALID_SOCKET}
      BY <1>1, <3>1, <3>2 DEF Single
    <3> QED
      BY <1>2, <1>3, <3>3, <3>4
  <2> QED
    BY <2>1, <2>2
<1>5. Misuse("blocked")
  BY DEF ReadBlocks
<1> QED
  BY <1>4, <1>5, MisuseStep

(* reset_connection().                                                     *)
LEMMA ResetStep ==
    ASSUME IInv, NEW s \in Addresses, Reset(s)
    PROVE  IInv'
<1> DEFINE closed == IF config.resetClose /\ net.socket[s].alive /\ ~HasDeadOwner(net, s)
                     THEN CloseCalls(net, s) ELSE net
<1>1. TablesBut(net, NoSocket) /\ Rest /\ s \in pending
  BY DEF IInv, Reset
<1>2. \/ Exit
      \/ reconnect_allowed /\ ~net.socket[s].alive /\ Misuse("freed socket")
      \/ HasDeadOwner(net, s) /\ Misuse("deleted owner")
      \/ reconnect_allowed /\ ~closed.socket[s].alive /\ Misuse("freed socket")
      \/ reconnect_allowed /\ closed.socket[s].fd # INVALID_SOCKET /\ Misuse("assertion")
      \/ /\ reconnect_allowed
         /\ closed.socket[s].alive /\ closed.socket[s].fd = INVALID_SOCKET
         /\ FreeFds(closed) # {}
         /\ \E l \in {"up", "down"} :
              /\ net' = ResetResult(s, closed, l)
              /\ status' = IF l = "down" /\ HasDeadOwner(closed, s)
                           THEN "deleted owner" ELSE status
         /\ pending' = pending \ {s}
         /\ reset_number' = Decremented(reset_number)
         /\ UNCHANGED <<config, next_socket, phase>>
  BY DEF Reset
<1>3. /\ TablesBut(closed, NoSocket)
      /\ \A t \in Addresses : closed.socket[t].fd \in {net.socket[t].fd, INVALID_SOCKET}
  <2>1. CASE closed = CloseCalls(net, s)
    <3> HIDE DEF closed
    <3> QED
      BY <1>1, <2>1, CloseCallsKeeps
  <2>2. CASE closed = net
    <3> HIDE DEF closed
    <3> QED
      BY <1>1, <2>2
  <2> QED
    BY <2>1, <2>2
<1> HIDE DEF closed
<1>4. Alone => /\ s = Multiplex
               /\ net.socket[s].alive /\ closed.socket[s].alive
               /\ closed.socket[s].fd = INVALID_SOCKET
  <2> SUFFICES ASSUME Alone
               PROVE  /\ s = Multiplex
                      /\ net.socket[s].alive /\ closed.socket[s].alive
                      /\ closed.socket[s].fd = INVALID_SOCKET
    OBVIOUS
  <2>1. s = Multiplex /\ net.socket[Multiplex].fd = INVALID_SOCKET
    BY <1>1 DEF IInv
  <2>2. Kept(net) /\ Kept(closed)
    BY <1>1, <1>3 DEF TablesBut, Alone
  <2> QED
    BY <1>3, <2>1, <2>2 DEF Kept
<1>5. reconnect_allowed /\ CallsStay /\ StableFds => Alone
  <2>1. reconnect_allowed => config.resets # 0
    BY <1>1, Reconnections
  <2> QED
    BY <2>1 DEF StableFds, Alone, Solo
<1>6. CASE Exit
  BY <1>6, ExitStep
<1>7. CASE reconnect_allowed /\ ~net.socket[s].alive /\ Misuse("freed socket")
  BY <1>4, <1>5, <1>7, MisuseStep
<1>8. CASE HasDeadOwner(net, s) /\ Misuse("deleted owner")
  <2>1. ~CallsStay
    BY <1>1, <1>8, NoDeadOwner
  <2> QED
    BY <1>8, <2>1, MisuseStep
<1>9. CASE reconnect_allowed /\ ~closed.socket[s].alive /\ Misuse("freed socket")
  BY <1>4, <1>5, <1>9, MisuseStep
<1>10. CASE reconnect_allowed /\ closed.socket[s].fd # INVALID_SOCKET /\ Misuse("assertion")
  BY <1>4, <1>5, <1>10, MisuseStep
<1>11. CASE /\ reconnect_allowed
            /\ closed.socket[s].alive /\ closed.socket[s].fd = INVALID_SOCKET
            /\ FreeFds(closed) # {}
            /\ \E l \in {"up", "down"} :
                 /\ net' = ResetResult(s, closed, l)
                 /\ status' = IF l = "down" /\ HasDeadOwner(closed, s)
                              THEN "deleted owner" ELSE status
            /\ pending' = pending \ {s}
            /\ reset_number' = Decremented(reset_number)
            /\ UNCHANGED <<config, next_socket, phase>>
  <2>1. PICK l \in {"up", "down"} :
           /\ net' = ResetResult(s, closed, l)
           /\ status' = IF l = "down" /\ HasDeadOwner(closed, s)
                        THEN "deleted owner" ELSE status
    BY <1>11
  <2> DEFINE m == Reconnect(closed, s, l)
  <2>2. net' = m \/ net' = CloseCalls(m, s)
    BY <2>1 DEF ResetResult
  <2>3. TablesBut(m, NoSocket)
    <3>1. config.resets # 0
      BY <1>1, <1>11, Reconnections
    <3> HIDE DEF m
    <3> QED
      BY <1>3, <1>4, <1>11, <3>1, ReconnectKeeps DEF m
  <2> HIDE DEF m
  <2>4. TablesBut(net', NoSocket)
    BY <2>2, <2>3, CloseCallsKeeps
  <2>5. Alone => pending' = {}
    BY <1>4, <1>11 DEF IInv
  <2>6. status' \in {status, "deleted owner"} /\ (CallsStay => status' = status)
    <3>1. CallsStay => ~HasDeadOwner(closed, s)
      BY <1>3, NoDeadOwner
    <3> QED
      BY <2>1, <3>1
  <2>7. Rest'
    BY <1>1, <1>11, <2>6, Reconnections DEF Rest
  <2>8. CallsStay /\ StableFds => status' \in {"running", "exited", "deleted call"}
    BY <2>6 DEF IInv, NoMisuse
  <2> QED
    BY <1>11, <2>4, <2>5, <2>7, <2>8, Step
<1> QED
  BY <1>2, <1>6, <1>7, <1>8, <1>9, <1>10, <1>11

(* The main loop goes on to its next part.                                 *)
LEMMA PhaseStep ==
    ASSUME IInv, EndRun \/ EndRead \/ EndProcess
    PROVE  IInv'
<1>1. /\ UNCHANGED <<config, net, pending, reset_number, next_socket, status>>
      /\ phase' \in {"run", "read", "process"}
  BY DEF EndRun, EndRead, EndProcess
<1>2. /\ status' \in {"running", "exited", "blocked", "deleted call", "deleted owner",
                      "freed socket", "assertion", "no socket"}
      /\ CallsStay /\ StableFds => status' \in {"running", "exited", "deleted call"}
  BY <1>1 DEF IInv, Rest, NoMisuse
<1> QED
  BY <1>1, <1>2, StatusStep

(* Every step is one of these.                                             *)
LEMMA Steps ==
    ASSUME IInv, [Next]_vars
    PROVE  IInv'
<1>1. CASE UNCHANGED vars
  BY <1>1, StutterStep
<1>2. ASSUME NEW c \in Calls, CallStep(c) PROVE IInv'
  BY <1>2, OpenCallStep, ShareStep, SendStep, DeleteStep, AbortCallStep, CloseConStep,
     SetDestStep, IncomingCallStep, ConnectStep DEF CallStep, EndCall
<1>3. ASSUME NEW f \in Fd, PeerCloses(f) \/ PeerResets(f) PROVE IInv'
  BY <1>3, PeerStep
<1>4. ASSUME NEW s \in Addresses, Accept(s) \/ Reset(s) PROVE IInv'
  BY <1>4, AcceptStep, ResetStep
<1>5. ASSUME NEW i \in Slots, Read(i) PROVE IInv'
  BY <1>5, ReadEndStep, ReadErrorStep, ReadBlocksStep DEF Read
<1>6. CASE EndRun \/ EndRead \/ EndProcess
  BY <1>6, PhaseStep
<1> QED
  BY <1>1, <1>2, <1>3, <1>4, <1>5, <1>6 DEF Next

(* The invariant holds throughout.                                         *)
LEMMA Inductive == Spec => []IInv
BY Inits, Steps, PTL DEF Spec

-----------------------------------------------------------------------------
(***************************************************************************)
(* The properties of the module follow from the invariant.                 *)
(***************************************************************************)
(* All values are in their ranges.                                         *)
LEMMA ImpliesTypeOK == IInv => TypeOK
<1> SUFFICES ASSUME IInv PROVE TypeOK
  OBVIOUS
<1>1. net \in Net /\ Placed(net) /\ Rest
  BY DEF IInv, TablesBut, Sound
<1> DEFINE T == [alive: BOOLEAN, fd: Fd \cup {INVALID_SOCKET},
                 invalid: BOOLEAN, pollidx: 0..Cardinality(Addresses),
                 count: Nat, ofCall: BOOLEAN, changed: BOOLEAN]
<1>2. \A s \in Addresses : net.socket[s] \in T
  <2> SUFFICES ASSUME NEW s \in Addresses PROVE net.socket[s] \in T
    OBVIOUS
  <2> DEFINE k == net.socket[s]
  <2>1. k \in Object
    BY <1>1, ObjectParts
  <2>2. k.pollidx \in 0..Cardinality(Addresses)
    <3>1. Cardinality(Addresses) \in Nat
      BY FS_CardinalityType, SocketsAssumption
    <3>2. k.pollidx \in Nat /\ k.pollidx <= Cardinality(Addresses)
      BY <1>1, ObjectParts DEF Placed
    <3> QED
      BY <3>1, <3>2
  <2> HIDE DEF k
  <2>3. k \in T
    BY <2>1, <2>2 DEF Object
  <2> QED
    BY <2>3 DEF k
<1>3. net.socket \in [Addresses -> T]
  <2> HIDE DEF T
  <2> QED
    BY <1>1, <1>2, NetParts
<1>4. net.slots \in Seq([sock: Addresses, fd: Fd]) /\ Len(net.slots) <= Cardinality(Addresses)
  BY <1>1, SlotsBound, NetParts DEF Slot
<1>5. /\ net.line \in [Fd -> Line]
      /\ net.owners \in [Addresses -> SUBSET Calls]
      /\ net.call \in [Calls -> {"new", "open", "over"}]
      /\ net.call_socket \in [Calls -> Addresses \cup {NoSocket}]
  BY <1>1, NetParts
<1> QED
  BY <1>1, <1>3, <1>4, <1>5 DEF Rest, TypeOK

(* Slots and sockets know each other, by Placed, FdsAgree and Single.      *)
LEMMA ImpliesSlotsSound == IInv => SlotsSound
<1> SUFFICES ASSUME IInv PROVE SlotsSound
  OBVIOUS
<1>1. net \in Net /\ Placed(net) /\ TablesBut(net, NoSocket)
  BY DEF IInv, TablesBut, Sound
<1>2. DOMAIN net.slots = 1..Len(net.slots)
  BY <1>1, NetParts
<1>3. ASSUME StableFds, NEW i \in 1..Len(net.slots)
      PROVE  net.socket[net.slots[i].sock].fd \in {net.slots[i].fd, INVALID_SOCKET}
  <2>1. CASE config.resets = 0
    BY <1>1, <1>3, <2>1 DEF TablesBut, StableFds, FdsAgree
  <2>2. CASE config.resets # 0
    <3>1. Alone
      BY <1>3, <2>2 DEF StableFds, Alone, Solo
    <3>2. Single(net)
      BY <1>1, <3>1 DEF TablesBut
    <3>3. net.slots[i] \in {[sock |-> Main, fd |-> 0], [sock |-> Multiplex, fd |-> 1]}
      BY <1>3, <3>2 DEF Single
    <3> QED
      BY <3>2, <3>3 DEF Single
  <2> QED
    BY <2>1, <2>2
<1>4. ASSUME NEW s \in Addresses, net.socket[s].alive, ~net.socket[s].invalid
      PROVE  s \in InSlots(net)
  BY <1>1, <1>2, <1>4 DEF Placed, Valid, InSlots
<1> QED
  BY <1>1, <1>2, <1>3, <1>4 DEF Placed, Valid, SlotsSound

(* Owners are right, by Held and OwnedExactly.                             *)
LEMMA ImpliesOwnersExact == IInv => OwnersExact
<1> SUFFICES ASSUME IInv, NEW s \in Addresses
             PROVE  /\ Users(s) \subseteq net.owners[s]
                    /\ CallsStay => net.owners[s] = Users(s)
  BY DEF OwnersExact
<1>1. Held(net) /\ (CallsStay => OwnedExactly(net)) /\ s # NoSocket
  BY SocketsAssumption DEF IInv, TablesBut, Sound, Exact
<1>2. Users(s) = UsersOf(net, s)
  BY DEF Users, UsersOf
<1> QED
  BY <1>1, <1>2 DEF Held, OwnedExactly, UsersOf

(* Counts are right, by Counted and CountedExactly.                        *)
LEMMA ImpliesCountsUsers == IInv => CountsUsers
<1> SUFFICES ASSUME IInv, NEW s \in Addresses
             PROVE  LET k == net.socket[s]
                    IN  /\ Users(s) # {} => k.alive
                        /\ k.alive => k.count >= Cardinality(Users(s)) + OwnReference(s)
                        /\ k.alive /\ CallsStay
                              => k.count = Cardinality(Users(s)) + OwnReference(s)
  BY DEF CountsUsers
<1>1. /\ Held(net) /\ Counted(net) /\ s # NoSocket
      /\ CallsStay => CountedExactly(net)
  BY SocketsAssumption DEF IInv, TablesBut, Sound, Exact
<1>2. Users(s) = UsersOf(net, s)
  BY DEF Users, UsersOf
<1>3. References(net, s) = Cardinality(Users(s)) + OwnReference(s)
  BY <1>2 DEF References, OwnReference
<1>4. Users(s) # {} => net.socket[s].alive
  BY <1>1, <1>2 DEF Held, UsersOf
<1> QED
  BY <1>1, <1>3, <1>4 DEF Counted, CountedExactly

(* The sockets, slots, descriptors and calls have their types, and the     *)
(* number of reconnections that are left stays in its range.               *)
THEOREM Types == Spec => []TypeOK
BY Inductive, ImpliesTypeOK, PTL

(* pollfiles[] and sockets[] agree with the sockets, for any number of     *)
(* connections that are opened, closed, broken and reset in any order:     *)
(* sipp_socket_invalidate() and sipp_reconnect_socket() leave no socket    *)
(* without a slot, or with that of another.                                *)
THEOREM SlotsRight == Spec => []SlotsSound
BY Inductive, ImpliesSlotsSound, PTL

(* The map of socketowner.cpp knows every call of a socket; without        *)
(* closecon and invalid sockets that calls leave, exactly these.           *)
THEOREM OwnersRight == Spec => []OwnersExact
BY Inductive, ImpliesOwnersExact, PTL

(* sipp_close_socket() frees no socket that a call uses.                   *)
THEOREM CountsRight == Spec => []CountsUsers
BY Inductive, ImpliesCountsUsers, PTL

(* Where calls stay with their sockets and descriptors are stable, neither *)
(* a reset nor close_calls() meets what was freed or deleted, and no read  *)
(* waits.                                                                  *)
THEOREM NeverMisused == Spec => []NoMisuse
<1>1. IInv => NoMisuse
  BY DEF IInv
<1> QED
  BY Inductive, <1>1, PTL
=============================================================================
