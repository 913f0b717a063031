------------------------------- MODULE TdmMap -------------------------------
(***************************************************************************)
(* The table of TDM circuits of call.cpp (-tdmmap): the search for a free  *)
(* circuit when a call is created, and the release in its destructor.      *)
(***************************************************************************)
EXTENDS Integers, FiniteSetsExt

CONSTANTS Call,       \* the call objects, reused for later calls
          Circuits,   \* interval: the number of circuits of the map
          TableSize,  \* 1024: the entries of the table, however many circuits
          UintModulus,\* 2^32: what unsigned arithmetic wraps at
          Automatic   \* automatic calls exist, which get no circuit

ASSUME MapAssumption == /\ Circuits \in Nat \ {0}
                        /\ TableSize \in Nat \ {0}
                        /\ UintModulus \in Nat
                        /\ Circuits < UintModulus
                        /\ Automatic \in BOOLEAN

VARIABLES tdm_map,        \* index -> the circuit is in use
          tdm_map_number, \* call -> its circuit, from 1; 0 for a zombie
          live,           \* the calls that exist
          overrun         \* an entry outside of the table was used

tdm_vars == <<tdm_map, tdm_map_number, live, overrun>>

Index == 0..Circuits - 1
Entry == 0..TableSize - 1

TdmInit == /\ tdm_map = [i \in Entry |-> FALSE]
           /\ tdm_map_number = [c \in Call |-> 0]
           /\ live = {}
           /\ overrun = FALSE

(* Nothing is known of the process once it used an entry that is not there.*)
Overruns == overrun' = TRUE /\ UNCHANGED <<tdm_map, tdm_map_number, live>>

(* The i-th index that the search looks at: (random + i - 1) % interval in *)
(* unsigned arithmetic, so that the first one for random = 0 wraps.        *)
Probe(random, i) == ((random + i - 1) % UintModulus) % Circuits

(* A slip: the search stops at the first index that is busy.               *)
FreeProbes_Busy(random) ==
    {i \in Index : Probe(random, i) \in Entry => tdm_map[Probe(random, i)]}

(* The turns of the search that would stop it: at a free circuit, or as it *)
(* reads outside of the table.                                             *)
FreeProbes(random) ==
    {i \in Index : Probe(random, i) \in Entry => ~tdm_map[Probe(random, i)]}

(* get_tdm_map_number(): 0 when the search finds nothing.                  *)
get_tdm_map_number(random) ==
    IF FreeProbes(random) = {} THEN 0
    ELSE Probe(random, Min(FreeProbes(random))) + 1

(* init(): the call gets a circuit, which is marked busy, or is a zombie.  *)
CreateCall(c, random) ==
    LET n == get_tdm_map_number(random)
    IN  /\ c \notin live
        /\ IF n = 0 \/ n - 1 \in Entry
             THEN /\ live' = live \cup {c}
                  /\ tdm_map_number' = [tdm_map_number EXCEPT ![c] = n]
                  /\ tdm_map' = IF n = 0 THEN tdm_map ELSE [tdm_map EXCEPT ![n - 1] = TRUE]
                  /\ UNCHANGED overrun
             ELSE Overruns

(* ~call(): tdm_map[tdm_map_number] = false.                               *)
Released(n) == [tdm_map EXCEPT ![n] = FALSE]

DeleteCall(c) == /\ c \in live
                 /\ IF tdm_map_number[c] \in Entry
                      THEN /\ live' = live \ {c}
                           /\ tdm_map' = Released(tdm_map_number[c])
                           /\ tdm_map_number' = [tdm_map_number EXCEPT ![c] = 0]
                           /\ UNCHANGED overrun
                      ELSE Overruns

(* The destructor of an automatic call, whose tdm_map_number was never     *)
(* assigned: any entry may be cleared, or memory outside of the table.     *)
DeleteAutomaticCall == /\ Automatic
                       /\ \/ \E n \in Entry : /\ tdm_map[n]
                                              /\ tdm_map' = Released(n)
                                              /\ UNCHANGED <<tdm_map_number, live, overrun>>
                          \/ Overruns

TdmNext == /\ ~overrun
           /\ \/ \E c \in Call, random \in Index : CreateCall(c, random)
              \/ \E c \in Call : DeleteCall(c)
              \/ DeleteAutomaticCall

TdmSpec == TdmInit /\ [][TdmNext]_tdm_vars

-----------------------------------------------------------------------------
(* "Find a number in the tdm_map which is not in use" (call.cpp:116): no   *)
(* two live calls have the same circuit.                                   *)
NoSharedCircuit == \A c, d \in live :
    c # d /\ tdm_map_number[c] # 0 => tdm_map_number[c] # tdm_map_number[d]

(* No entry is used that the table (sipp_globals.cpp:169) does not have.   *)
StaysInTable == ~overrun

(* A new call never gets a circuit that the table shows in use, and only   *)
(* becomes a zombie when the table shows every circuit in use.             *)
TableDecides ==
    [][\A c \in Call : c \in live' \ live =>
         IF tdm_map_number'[c] = 0
           THEN \A i \in Index : tdm_map[i]
           ELSE ~tdm_map[tdm_map_number'[c] - 1]]_tdm_vars
=============================================================================
