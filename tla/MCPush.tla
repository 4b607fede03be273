------------------------------- MODULE MCPush -------------------------------
(* Push for TLC.  Nothing tells one file from another but its state. *)
EXTENDS Push

MCSymmetry == Permutations(Files)
=============================================================================
