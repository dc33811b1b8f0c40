-------------------------------- MODULE Order --------------------------------
(***************************************************************************)
(* What the payment flow promises for an order: it is decided once, paid   *)
(* or failed; everything that a payment sets off happens after it and at   *)
(* most once; and only what the order contains is delivered.  Payment is   *)
(* shown to implement this.                                                *)
(***************************************************************************)
EXTENDS Naturals

CONSTANTS
    Purchases,
    Parts,      \* kinds of cart items that are treated alike
    Contents,   \* Contents[p]: the parts of p's cart
    Upgrades,   \* orders that upgrade an existing event
    Discounted  \* orders with a promo code

VARIABLES
    decided,    \* "none" (no order), "open", "paid" or "failed"
    counted,    \* how often the order was counted on its promo code
    delivered,  \* the parts handed over for fulfilment
    applied     \* upgrades that have taken effect

vars == <<decided, counted, delivered, applied>>

Init ==
    /\ decided = [p \in Purchases |-> "none"]
    /\ counted = [p \in Purchases |-> 0]
    /\ delivered = [p \in Purchases |-> {}]
    /\ applied = {}

Open(p) ==
    /\ decided[p] = "none"
    /\ decided' = [decided EXCEPT ![p] = "open"]
    /\ UNCHANGED <<counted, delivered, applied>>

Decide(p) ==
    /\ decided[p] = "open"
    /\ \E outcome \in {"paid", "failed"} : decided' = [decided EXCEPT ![p] = outcome]
    /\ UNCHANGED <<counted, delivered, applied>>

Count(p) ==
    /\ decided[p] = "paid" /\ p \in Discounted /\ counted[p] = 0
    /\ counted' = [counted EXCEPT ![p] = 1]
    /\ UNCHANGED <<decided, delivered, applied>>

Deliver(p, part) ==
    /\ decided[p] = "paid" /\ p \notin Upgrades
    /\ part \in Contents[p] \ delivered[p]
    /\ delivered' = [delivered EXCEPT ![p] = @ \cup {part}]
    /\ UNCHANGED <<decided, counted, applied>>

Apply(p) ==
    /\ decided[p] = "paid" /\ p \in Upgrades \ applied
    /\ applied' = applied \cup {p}
    /\ delivered' = [delivered EXCEPT ![p] = Contents[p]]
    /\ UNCHANGED <<decided, counted>>

Next ==
    \E p \in Purchases :
        \/ Open(p) \/ Decide(p) \/ Count(p) \/ Apply(p)
        \/ \E part \in Parts : Deliver(p, part)

Spec == Init /\ [][Next]_vars
=============================================================================
