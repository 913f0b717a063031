---------------------------- MODULE DialogOrders ----------------------------
(***************************************************************************)
(* What a scenario with several dialogs promises under -mc: each dialog    *)
(* goes through its own messages in their order, whatever the others do;   *)
(* what the scenario does itself (it sends, pauses, acts) waits for every  *)
(* mandatory element before it; a mandatory element counts once; and a     *)
(* call is successful only when nothing mandatory is left.                 *)
(***************************************************************************)
EXTENDS Integers, Sequences, FiniteSets

VARIABLES scenario, \* the elements: [type, dialog, optional, class]
          count,    \* element -> how often it was received or done in this call
          outcome   \* "none", "open", "success", "failed"

vars == <<scenario, count, outcome>>

Elements == DOMAIN scenario
Own(i) == scenario[i].type # "recv"
IsMessage(i) == scenario[i].type \in {"send", "recv"}

(* A <nop> may name a dialog, but is no message of it.                     *)
Needs(i) == {j \in 1..(i - 1) :
               /\ ~scenario[j].optional
               /\ Own(i) \/ (IsMessage(j) /\ scenario[j].dialog = scenario[i].dialog)}

Ordered(c) == \A i \in Elements : /\ c[i] > 0 => \A j \in Needs(i) : c[j] > 0
                                  /\ c[i] > 1 => scenario[i].optional

Complete(c) == \A i \in Elements : c[i] > 0 \/ scenario[i].optional

NoneYet == [i \in Elements |-> 0]

(* At most one message is received in a step.                              *)
Raises(from, to) ==
    /\ \A i \in Elements : to[i] \in from[i]..(from[i] + 1)
    /\ Cardinality({i \in Elements : ~Own(i) /\ to[i] > from[i]}) <= 1

Progress(before) ==
    /\ outcome' \in {"open", "success"}
    /\ \E from \in {before}, to \in {count'} :
          /\ Raises(from, to)
          /\ Ordered(to)
          /\ outcome' = "success" => Complete(to)

Init == outcome = "none" /\ count = NoneYet

Create == outcome # "open" /\ Progress(NoneYet)
Advance == outcome = "open" /\ Progress(count)
Refuse == outcome = "open" /\ outcome' = "failed" /\ UNCHANGED count

Next == UNCHANGED scenario /\ (Create \/ Advance \/ Refuse)

Spec == Init /\ [][Next]_vars
=============================================================================
