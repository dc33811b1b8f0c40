----------------------------- MODULE MCPayment -----------------------------
(* Instances of Payment for TLC.                                           *)
EXTENDS Payment, TLC

CONSTANTS p1, p2, p3, c1

\* p1 and p2 are bought with the same code, which is good for one order; p3
\* upgrades an event.
OneCode == [p \in Purchases |-> IF p \in Upgrades THEN NoCode ELSE c1]
Carts == [p \in Purchases |-> IF p = p1 THEN Parts ELSE {"digital"}]
OneUse == [c \in Codes |-> 1]

\* LiqPay refuses p1; the refusal may arrive at the callback URL of any order.
OneRefusal == [p \in Purchases |-> IF p = p1 THEN {"failure"} ELSE {}]
Symmetric == Permutations(Requests)
=============================================================================
