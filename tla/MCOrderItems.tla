---------------------------- MODULE MCOrderItems ----------------------------
(* Instances of OrderItems for TLC.                                         *)
EXTENDS OrderItems, TLC

Symmetric == Permutations(Submits) \cup Permutations(Jobs)
=============================================================================
