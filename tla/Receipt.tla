------------------------------- MODULE Receipt -------------------------------
(***************************************************************************)
(* What the receipt of uploads promises a guest: an upload waits until its *)
(* file has arrived or will not arrive any more, is then decided once, and *)
(* is turned away only for a reason that does not lose the guest's file.   *)
(* Whoever is told that the file is there has a copy of it in the storage  *)
(* until the host deletes it - unless two received copies of the file are  *)
(* both taken away, each as a duplicate.  UploadReceipt is shown to        *)
(* implement this.                                                         *)
(***************************************************************************)

CONSTANTS
    Uploads,
    Files,      \* what the guests may upload
    EmptyFile   \* a file without content, when in Files

VARIABLES
    file,       \* the file of an upload
    row,        \* "none", "pending", then "received" or "dropped"; a received
                \* upload may become "deleted"
    arrived,    \* uploads whose file has reached the storage
    givenUp,    \* uploads whose file will never reach it
    stored,     \* uploads whose file is in the storage
    told,       \* uploads whose guest was told that the file is there
    taken       \* received uploads whose file was taken away as a duplicate

vars == <<file, row, arrived, givenUp, stored, told, taken>>

SameFile(u, v) == file[u] = file[v]

\* A copy of u's file is in the event, or was until the host deleted it, or two
\* copies were taken away for each other's sake.
Kept(u) ==
    \/ \E v \in Uploads : /\ SameFile(u, v)
                          /\ row[v] = "deleted" \/ (row[v] = "received" /\ v \in stored)
    \/ \E v, w \in taken : v # w /\ SameFile(u, v) /\ SameFile(u, w)

Init ==
    /\ file \in [Uploads -> Files]
    /\ row = [u \in Uploads |-> "none"]
    /\ arrived = {}
    /\ givenUp = {}
    /\ stored = {}
    /\ told = {}
    /\ taken = {}

Ask(u) ==
    /\ row[u] = "none"
    /\ row' = [row EXCEPT ![u] = "pending"]
    /\ UNCHANGED <<file, arrived, givenUp, stored, told, taken>>

Arrive(u) ==
    /\ row[u] # "none" /\ u \notin arrived \cup givenUp
    /\ arrived' = arrived \cup {u}
    /\ stored' = stored \cup {u}
    /\ UNCHANGED <<file, row, givenUp, told, taken>>

GiveUp(u) ==
    /\ row[u] # "none" /\ u \notin arrived
    /\ givenUp' = givenUp \cup {u}
    /\ UNCHANGED <<file, row, arrived, stored, told, taken>>

\* The guest may learn of the receipt at once or later.
Receive(u) ==
    /\ row[u] = "pending" /\ u \in stored /\ file[u] # EmptyFile
    /\ row' = [row EXCEPT ![u] = "received"]
    /\ told' \in {told, told \cup {u}}
    /\ UNCHANGED <<file, arrived, givenUp, stored, taken>>

Reject(u) ==
    /\ row[u] = "pending"
    /\ \/ u \in givenUp
       \/ u \in arrived /\ (file[u] = EmptyFile \/ Kept(u))
    /\ row' = [row EXCEPT ![u] = "dropped"]
    /\ UNCHANGED <<file, arrived, givenUp, stored, told, taken>>

Tell(u) ==
    /\ Kept(u)
    /\ told' = told \cup {u}
    /\ UNCHANGED <<file, row, arrived, givenUp, stored, taken>>

Delete(u) ==
    /\ row[u] = "received"
    /\ row' = [row EXCEPT ![u] = "deleted"]
    /\ UNCHANGED <<file, arrived, givenUp, stored, told, taken>>

\* The file of an upload that was turned away or deleted.
Discard(u) ==
    /\ row[u] \in {"dropped", "deleted"}
    /\ stored' = stored \ {u}
    /\ told' \in {told, told \cup {u}} /\ (told' # told => Kept(u))
    /\ UNCHANGED <<file, row, arrived, givenUp, taken>>

\* The file of a received upload is taken away because another one has it too.
Take(u) ==
    /\ row[u] = "received"
    /\ \E v \in Uploads \ {u} : SameFile(u, v) /\ row[v] \in {"received", "deleted"}
    /\ stored' = stored \ {u}
    /\ taken' = taken \cup {u}
    /\ told' \in {told, told \cup {u}}
    /\ UNCHANGED <<file, row, arrived, givenUp>>

Next ==
    \E u \in Uploads :
        \/ Ask(u) \/ Arrive(u) \/ GiveUp(u) \/ Receive(u) \/ Reject(u)
        \/ Tell(u) \/ Delete(u) \/ Discard(u) \/ Take(u)

Spec == Init /\ [][Next]_vars
=============================================================================
