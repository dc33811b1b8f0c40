------------------------------- MODULE MCShop -------------------------------
(* Instances of Shop for TLC: a core package, a special one whose storage   *)
(* is longer than its upload period, and cards sold by four.                *)
EXTENDS Shop, TLC

CONSTANTS package, hero, cards

Row(price, storage) ==
    [price |-> price, enabled |-> TRUE, upload |-> 1, storage |-> storage, ad |-> FALSE]
Offer == [p \in Products |->
            CASE p = package -> Row(5, 1) [] p = hero -> Row(3, 2) [] OTHER -> Row(1, 1)]

Field(f, v) == [x \in {f} |-> v]
OneField == {Field("price", 7), Field("enabled", FALSE), Field("upload", 2),
             Field("storage", 1), Field("ad", TRUE)}

Carts == {[p \in {package, cards} |-> IF p = cards THEN n ELSE 1] : n \in {4, 6}}
             \cup {[p \in {hero, package} |-> 1]}

Symmetric == Permutations(Editors) \cup Permutations(Partners)
=============================================================================
