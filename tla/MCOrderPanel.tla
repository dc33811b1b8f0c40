---------------------------- MODULE MCOrderPanel ----------------------------
(* Instances of OrderPanel for TLC.                                         *)
EXTENDS OrderPanel, TLC

Symmetric == Permutations(Calls)
=============================================================================
