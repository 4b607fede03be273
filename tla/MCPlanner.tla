------------------------------ MODULE MCPlanner -----------------------------
(* Planner for TLC: sizes on both sides of every step of planParts, and past *)
(* every cap, three targets at most, each with any of its parts there.       *)
EXTENDS Planner

MCSizes == {0, 1, 3, 4, 6, 8, 9, 11, 12, 15, 16, 18}
=============================================================================
