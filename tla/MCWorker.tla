------------------------------ MODULE MCWorker ------------------------------
(* Instances of Worker for TLC: every job belongs to the user named by the *)
(* configuration's Owner table.                                            *)
EXTENDS Worker, TLC

CONSTANTS j1, j2, j3, u1, u2

\* j1 and j2 compete for the active slot of one user, j3 is another user's.
TwoUsers == [j \in Jobs |-> IF j = j3 THEN u2 ELSE u1]
ThreeUsers == [j \in Jobs |-> j]

Symmetric == Permutations(Servers) \cup Permutations(Instances)
=============================================================================
