--------------------------- MODULE MCOpenTaskRate ---------------------------
(* Small instances of OpenTaskRate: rates of 0 to 3 calls in 2 ticks.        *)
EXTENDS OpenTaskRate
=============================================================================
