------------------------------ MODULE MCFloor -------------------------------
(* The knobs as users set them by mistake or on purpose: a typo, a number   *)
(* below zero, and off.                                                    *)
EXTENDS Floor

MCRateKnobs   == {Garbage, -1}
MCWindowKnobs == {-1, 0}
=============================================================================
