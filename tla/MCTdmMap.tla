------------------------------ MODULE MCTdmMap ------------------------------
(* Small instances of TdmMap: four circuits, calls enough to hold them all,  *)
(* a table that is larger, or in MCTdmMapTable.cfg just as large, and an     *)
(* unsigned int of four bits.                                                *)
EXTENDS TdmMap, TLC

CONSTANTS c1, c2, c3, c4, c5
Symmetry == Permutations(Call)
=============================================================================
