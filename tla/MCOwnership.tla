---------------------------- MODULE MCOwnership ----------------------------
(* Instances of Ownership for TLC.                                         *)
EXTENDS Ownership, TLC

CONSTANTS a1, a2, b1, mailA, mailB

\* The owner's address may get a second account after the first was removed.
Addresses == [u \in Users |-> IF u \in {a1, a2} THEN mailA ELSE mailB]
OneOwner == [p \in Purchases |-> mailA]

Symmetric == Permutations(Requests) \cup Permutations(Events)
=============================================================================
