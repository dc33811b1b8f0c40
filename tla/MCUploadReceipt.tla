--------------------------- MODULE MCUploadReceipt ---------------------------
(* Instances of UploadReceipt for TLC: photos of one album, and three files *)
(* of which any two uploads may have the same one.                          *)
EXTENDS UploadReceipt, TLC

CONSTANTS album1

Photos == [u \in Uploads |-> "photo"]
OneAlbum == [u \in Uploads |-> album1]

Symmetric == Permutations(Uploads) \cup Permutations(Confirmers)
                 \cup Permutations(Files \ {EmptyFile})
=============================================================================
