------------------------------ MODULE MCGuests ------------------------------
(* Instances of Guests for TLC: an event with the General album and one the *)
(* host edits and deletes, one signed-in visitor.                           *)
EXTENDS Guests, TLC

CONSTANTS visitor, u1

NoLimit == -1
\* An album for all, and one behind a passcode that takes no uploads.
AlbumSettings ==
    {[privacy |-> "public", upload |-> TRUE, view |-> FALSE],
     [privacy |-> "protected", upload |-> FALSE, view |-> TRUE]}

DerivedUid == [b \in Accounts |-> u1]

Symmetric == Permutations(Uploads) \cup Permutations(Requests)
=============================================================================
