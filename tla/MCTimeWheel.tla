---------------------------- MODULE MCTimeWheel ----------------------------
(* A small instance of TimeWheel: one task whose wake() changes and one      *)
(* whose does not, on wheels of two slots, so that a task migrates from      *)
(* wheel_three to wheel_two to wheel_one within a few ticks of the clock.    *)
EXTENDS TimeWheel

CONSTANTS t1, t2
=============================================================================
