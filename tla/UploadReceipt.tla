---------------------------- MODULE UploadReceipt ----------------------------
(***************************************************************************)
(* The life of a guest upload: the row that GuestUpload inserts with       *)
(* received_at NULL, the file the browser PUTs straight to S3, and the two *)
(* paths that settle the row - the browser's /confirm and the minutely     *)
(* sweep - both through uploadreceipt.Resolve.                             *)
(*                                                                         *)
(* Nothing is locked.  A resolver works on what it read: the row, the HEAD *)
(* answer, the duplicate candidates.  Each database statement and each S3  *)
(* call is a step of its own, so that resolvers, the browser and the host  *)
(* interleave between them.                                                *)
(***************************************************************************)
EXTENDS Naturals, FiniteSets

CONSTANTS
    Uploads,    \* uploads guests of one event may make
    Confirmers, \* /confirm requests that may run at the same time
    Sweep,      \* the ticker goroutine of uploadreceipt.Init
    Files,      \* what the guests may upload, by ETag
    EmptyFile,  \* the ETag of a 0 byte object, when in Files
    Kind,       \* uploads.upload_type
    Album,      \* uploads.album_uid
    HostActs,   \* what the host does, a subset of {"trash", "delete"}
    Faults,     \* a subset of FaultKinds
    Batch,      \* sweepBatch: the rows one sweep reads
    NoUpload

FaultKinds ==
    {"error",   \* an S3 or database call of a resolver fails
     "restart", \* the server restarts
     "late"}    \* a PUT the browser gave up on still completes

Resolvers == Confirmers \cup {Sweep}

ASSUME SweepAssumption == Sweep \notin Confirmers
ASSUME KindAssumption == Kind \in [Uploads -> {"photo", "video", "voice"}]
ASSUME FaultsAssumption == Faults \subseteq FaultKinds
ASSUME BatchAssumption == Batch \in Nat \ {0}
ASSUME NoUploadAssumption == NoUpload \notin Uploads

VARIABLES
    file,     \* what the guest picked for an upload; never changes
    row,      \* the uploads row; "pending" is received_at NULL
    trashed,  \* rows with trashed_at set
    age,      \* of a row: below sweepMinAge, in the sweep's window, past it
    older,    \* the rows that were waiting when a row was inserted: created_at
    object,   \* keys that exist in S3
    put,      \* the browser's PUT
    seen,     \* what the browser thinks of its PUT
    pc, at,   \* a resolver's next call and the upload it works on
    done,     \* Resolve's clientDone
    cand,     \* Duplicate_candidates' answer
    reason,   \* why the resolver drops the row
    list,     \* rows the sweep read and has not come to yet
    removing, \* deleted by the host, object still to be removed
    assured,  \* history: uploads whose guest was told the file is there
    leaked,   \* history: keys whose removal failed
    crossed   \* history: received uploads whose object a resolver removed

guest == <<file, age, older, put, seen>>
work == <<pc, at, done, cand, reason>>
history == <<assured, leaked, crossed>>
vars == <<file, row, trashed, age, older, object, put, seen, pc, at, done, cand,
          reason, list, removing, assured, leaked, crossed>>

Visible(u) == row[u] = "received" /\ u \notin trashed
Exists(u) == row[u] \in {"pending", "received"}

TypeOK ==
    /\ file \in [Uploads -> Files]
    /\ row \in [Uploads -> {"none", "pending", "received", "dropped", "deleted"}]
    /\ trashed \in SUBSET Uploads
    /\ age \in [Uploads -> {"fresh", "due", "expired"}]
    /\ older \in [Uploads -> SUBSET Uploads]
    /\ object \in SUBSET Uploads
    /\ put \in [Uploads -> {"none", "sent", "landed"}]
    /\ seen \in [Uploads -> {"waiting", "ok", "failed"}]
    /\ pc \in [Resolvers -> {"idle", "head", "query", "compare", "mark", "drop", "rm"}]
    /\ at \in [Resolvers -> Uploads \cup {NoUpload}]
    /\ \A r \in Resolvers : pc[r] # "idle" => at[r] \in Uploads
    /\ done \in [Resolvers -> BOOLEAN]
    /\ cand \in [Resolvers -> SUBSET Uploads]
    /\ reason \in [Resolvers -> {"none", "duplicate", "empty", "missing"}]
    /\ list \in SUBSET Uploads
    /\ removing \in SUBSET Uploads
    /\ assured \in SUBSET Uploads
    /\ leaked \in SUBSET Uploads
    /\ crossed \in SUBSET Uploads

Init ==
    /\ file \in [Uploads -> Files]
    /\ row = [u \in Uploads |-> "none"]
    /\ trashed = {}
    /\ age = [u \in Uploads |-> "fresh"]
    /\ older = [u \in Uploads |-> {}]
    /\ object = {}
    /\ put = [u \in Uploads |-> "none"]
    /\ seen = [u \in Uploads |-> "waiting"]
    /\ pc = [r \in Resolvers |-> "idle"]
    /\ at = [r \in Resolvers |-> NoUpload]
    /\ done = [r \in Resolvers |-> FALSE]
    /\ cand = [r \in Resolvers |-> {}]
    /\ reason = [r \in Resolvers |-> "none"]
    /\ list = {}
    /\ removing = {}
    /\ assured = {}
    /\ leaked = {}
    /\ crossed = {}

-----------------------------------------------------------------------------
(* The guest's browser.                                                    *)

\* GuestUpload: the row is there before the browser knows the key.
Presign(u) ==
    /\ row[u] = "none"
    /\ row' = [row EXCEPT ![u] = "pending"]
    /\ older' = [older EXCEPT ![u] = {v \in Uploads : row[v] = "pending"}]
    /\ UNCHANGED <<file, trashed, age, object, put, seen, work, list, removing,
                   history>>

SendPut(u) ==
    /\ row[u] # "none" /\ put[u] = "none"
    /\ put' = [put EXCEPT ![u] = "sent"]
    /\ UNCHANGED <<file, row, trashed, age, older, object, seen, work, list, removing,
                   history>>

\* S3 stores the object once the whole body has arrived.
PutLands(u) ==
    /\ put[u] = "sent"
    /\ seen[u] = "waiting" \/ "late" \in Faults
    /\ put' = [put EXCEPT ![u] = "landed"]
    /\ object' = object \cup {u}
    /\ UNCHANGED <<file, row, trashed, age, older, seen, work, list, removing, history>>

\* The browser learns the outcome, or loses the connection and takes the PUT
\* for failed although it may have landed.
PutEnds(u) ==
    /\ seen[u] = "waiting"
    /\ \/ put[u] = "landed" /\ seen' = [seen EXCEPT ![u] = "ok"]
       \/ put[u] # "none" /\ seen' = [seen EXCEPT ![u] = "failed"]
    /\ UNCHANGED <<file, row, trashed, age, older, object, put, work, list, removing,
                   history>>

\* Time: a row enters the sweep's window after 30 seconds and leaves it after
\* a day, when no PUT is under way any more; the older rows do so before it.
Ages(u) ==
    LET waiting == {v \in older[u] : row[v] = "pending"} IN
    /\ row[u] = "pending"
    /\ \/ /\ age[u] = "fresh" /\ \A v \in waiting : age[v] # "fresh"
          /\ age' = [age EXCEPT ![u] = "due"]
       \/ /\ age[u] = "due" /\ \A v \in waiting : age[v] = "expired"
          /\ ~(put[u] = "sent" /\ seen[u] = "waiting")
          /\ age' = [age EXCEPT ![u] = "expired"]
    /\ UNCHANGED <<file, row, trashed, older, object, put, seen, work, list, removing,
                   history>>

-----------------------------------------------------------------------------
(* Entering Resolve.                                                       *)

Enter(r, u, clientDone) ==
    /\ pc' = [pc EXCEPT ![r] = "head"]
    /\ at' = [at EXCEPT ![r] = u]
    /\ done' = [done EXCEPT ![r] = clientDone]
    /\ UNCHANGED <<cand, reason>>

Leave(r) ==
    /\ pc' = [pc EXCEPT ![r] = "idle"]
    /\ at' = [at EXCEPT ![r] = NoUpload]
    /\ done' = [done EXCEPT ![r] = FALSE]
    /\ cand' = [cand EXCEPT ![r] = {}]
    /\ reason' = [reason EXCEPT ![r] = "none"]

Goto(r, label) == pc' = [pc EXCEPT ![r] = label]

\* GuestUploadConfirm, for a path whose row exists: a received row is answered
\* at once, a pending one is resolved.  (No row: the answer is "missing".)
Confirm(r, u) ==
    /\ pc[r] = "idle"
    /\ seen[u] # "waiting"
    /\ \/ /\ row[u] = "received"
          /\ assured' = assured \cup {u}
          /\ UNCHANGED work
       \/ /\ row[u] = "pending"
          /\ Enter(r, u, seen[u] = "failed")
          /\ UNCHANGED assured
    /\ UNCHANGED <<row, trashed, object, guest, list, removing, leaked, crossed>>

\* The rows in the sweep's window.
Due == {u \in Uploads : row[u] = "pending" /\ age[u] = "due"}

\* Mutants of SweepReads: a window that starts where it should end; the newest
\* rows instead of the oldest.
SweepReadsOldRows ==
    /\ pc[Sweep] = "idle" /\ list = {}
    /\ list' = {u \in Uploads : row[u] = "pending" /\ age[u] = "expired"}
    /\ list' # {}
    /\ UNCHANGED <<row, trashed, object, guest, work, removing, history>>

SweepReadsNewest ==
    /\ pc[Sweep] = "idle" /\ list = {}
    /\ list' = {u \in Due : Cardinality({v \in Due : u \in older[v]}) < Batch}
    /\ list' # {}
    /\ UNCHANGED <<row, trashed, object, guest, work, removing, history>>

\* RunOnce reads the rows in its window, the oldest first and Batch at most, and
\* then takes them one by one; what it read may be out of date when a row's turn
\* comes.
SweepReads ==
    /\ pc[Sweep] = "idle" /\ list = {}
    /\ list' = {u \in Due : Cardinality(older[u] \cap Due) < Batch}
    /\ list' # {}
    /\ UNCHANGED <<row, trashed, object, guest, work, removing, history>>

\* Mutant of SweepNext: the sweep takes every PUT for finished.
SweepNextDone(u) ==
    /\ pc[Sweep] = "idle" /\ u \in list /\ older[u] \cap list = {}
    /\ list' = list \ {u}
    /\ Enter(Sweep, u, TRUE)
    /\ UNCHANGED <<row, trashed, object, guest, removing, history>>

SweepNext(u) ==
    /\ pc[Sweep] = "idle" /\ u \in list /\ older[u] \cap list = {}
    /\ list' = list \ {u}
    /\ Enter(Sweep, u, FALSE)
    /\ UNCHANGED <<row, trashed, object, guest, removing, history>>

-----------------------------------------------------------------------------
(* Resolve, call by call.                                                  *)

Head(r) ==
    LET u == at[r] IN
    /\ pc[r] = "head"
    /\ \/ /\ u \in object /\ file[u] # EmptyFile
          /\ Goto(r, "query")
          /\ UNCHANGED <<at, done, cand, reason>>
       \/ /\ u \in object /\ file[u] = EmptyFile
          /\ Goto(r, "drop")
          /\ reason' = [reason EXCEPT ![r] = "empty"]
          /\ UNCHANGED <<at, done, cand>>
       \/ /\ u \notin object /\ done[r]
          /\ Goto(r, "drop")
          /\ reason' = [reason EXCEPT ![r] = "missing"]
          /\ UNCHANGED <<at, done, cand>>
       \/ /\ u \notin object /\ ~done[r]
          /\ Leave(r)
    /\ UNCHANGED <<row, trashed, object, guest, list, removing, history>>

\* Mutant of DuplicateCandidates: pending rows count as copies too.
PendingCandidates(u) ==
    {c \in Uploads \ {u} : Exists(c) /\ Kind[c] = Kind[u] /\ Album[c] = Album[u]}

DuplicateCandidates(u) ==
    {c \in Uploads \ {u} : /\ Visible(c)
                           /\ Kind[c] = Kind[u] /\ Kind[u] \in {"photo", "video"}
                           /\ Album[c] = Album[u]}

Query(r) ==
    /\ pc[r] = "query"
    /\ cand' = [cand EXCEPT ![r] = DuplicateCandidates(at[r])]
    /\ Goto(r, "compare")
    /\ UNCHANGED <<row, trashed, object, guest, at, done, reason, list,
                   removing, history>>

\* Mutant of Compare: any candidate is taken for the same file.
CompareByKind(r) ==
    /\ pc[r] = "compare"
    /\ IF cand[r] \cap object # {}
       THEN Goto(r, "drop") /\ reason' = [reason EXCEPT ![r] = "duplicate"]
       ELSE Goto(r, "mark") /\ UNCHANGED reason
    /\ cand' = [cand EXCEPT ![r] = {}]
    /\ UNCHANGED <<row, trashed, object, guest, at, done, list, removing, history>>

\* The candidates' ETags are asked one after the other; a candidate that is
\* gone from S3 by then does not count.  When the check fails the upload is
\* not taken for a duplicate; a copy that is not among the five oldest candidates
\* of its size is missed in the same way.
Compare(r) ==
    LET same == {c \in cand[r] \cap object : file[c] = file[at[r]]} IN
    /\ pc[r] = "compare"
    /\ \/ /\ same # {}
          /\ Goto(r, "drop")
          /\ reason' = [reason EXCEPT ![r] = "duplicate"]
       \/ /\ same = {} \/ "error" \in Faults
          /\ Goto(r, "mark")
          /\ UNCHANGED reason
    /\ cand' = [cand EXCEPT ![r] = {}]
    /\ UNCHANGED <<row, trashed, object, guest, at, done, list, removing, history>>

\* What /confirm answers; nobody reads the sweep's result.
Assure(r) == assured' = IF r = Sweep THEN assured ELSE assured \cup {at[r]}

\* Mark_upload_received: a row that is no longer pending is left alone and
\* the answer is still "received".
Mark(r) ==
    LET u == at[r] IN
    /\ pc[r] = "mark"
    /\ row' = IF row[u] = "pending" THEN [row EXCEPT ![u] = "received"] ELSE row
    /\ Assure(r)
    /\ Leave(r)
    /\ UNCHANGED <<trashed, object, guest, list, removing, leaked, crossed>>

\* Mutant of Drop: the object is kept when the row is deleted.
DropRowOnly(r) ==
    LET u == at[r] IN
    /\ pc[r] = "drop"
    /\ row' = IF row[u] = "pending" THEN [row EXCEPT ![u] = "dropped"] ELSE row
    /\ Leave(r)
    /\ UNCHANGED <<trashed, object, guest, list, removing, history>>

\* Drop_pending_upload: a received row is left alone.
Drop(r) ==
    LET u == at[r] IN
    /\ pc[r] = "drop"
    /\ row' = IF row[u] = "pending" THEN [row EXCEPT ![u] = "dropped"] ELSE row
    /\ IF reason[r] = "missing" THEN Leave(r)
       ELSE Goto(r, "rm") /\ UNCHANGED <<at, done, cand, reason>>
    /\ UNCHANGED <<trashed, object, guest, list, removing, history>>

\* The object is removed whether or not the row was - also that of a row which
\* another resolver has marked received since; a failure is logged.
Remove(r) ==
    LET u == at[r] IN
    /\ pc[r] = "rm"
    /\ \/ /\ object' = object \ {u}
          /\ crossed' = IF row[u] = "received" THEN crossed \cup {u} ELSE crossed
          /\ UNCHANGED leaked
       \/ "error" \in Faults /\ leaked' = leaked \cup {u} /\ UNCHANGED <<object, crossed>>
    /\ IF reason[r] = "duplicate" THEN Assure(r) ELSE UNCHANGED assured
    /\ Leave(r)
    /\ UNCHANGED <<row, trashed, guest, list, removing>>

\* A failed HEAD, UPDATE or DELETE ends Resolve with "pending".
ResolveFails(r) ==
    /\ "error" \in Faults
    /\ pc[r] \in {"head", "mark", "drop"}
    /\ Leave(r)
    /\ UNCHANGED <<row, trashed, object, guest, list, removing, history>>

\* A restart forgets every request and the sweep's list.
Restart ==
    /\ "restart" \in Faults
    /\ pc' = [r \in Resolvers |-> "idle"]
    /\ at' = [r \in Resolvers |-> NoUpload]
    /\ done' = [r \in Resolvers |-> FALSE]
    /\ cand' = [r \in Resolvers |-> {}]
    /\ reason' = [r \in Resolvers |-> "none"]
    /\ list' = {}
    /\ removing' = {}
    /\ leaked' = leaked \cup removing \cup {at[r] : r \in {q \in Resolvers : pc[q] = "rm"}}
    /\ UNCHANGED <<row, trashed, object, guest, assured, crossed>>

-----------------------------------------------------------------------------
(* The host, who sees received rows only.                                  *)

\* One upload, or the whole album with the rows that still wait for their file.
Trash(u) ==
    /\ "trash" \in HostActs /\ Exists(u) /\ u \notin trashed
    /\ trashed' = trashed \cup {u}
    /\ UNCHANGED <<row, object, guest, work, list, removing, history>>

Restore(u) ==
    /\ row[u] = "received" /\ u \in trashed
    /\ trashed' = trashed \ {u}
    /\ UNCHANGED <<row, object, guest, work, list, removing, history>>

\* Delete: the row first, then the object, best effort.
HostDelete(u) ==
    /\ "delete" \in HostActs /\ row[u] = "received"
    /\ row' = [row EXCEPT ![u] = "deleted"]
    /\ trashed' = trashed \ {u}
    /\ removing' = removing \cup {u}
    /\ UNCHANGED <<object, guest, work, list, history>>

HostRemoves(u) ==
    /\ u \in removing
    /\ removing' = removing \ {u}
    /\ \/ object' = object \ {u} /\ UNCHANGED leaked
       \/ "error" \in Faults /\ leaked' = leaked \cup {u} /\ UNCHANGED object
    /\ UNCHANGED <<row, trashed, guest, work, list, assured, crossed>>

-----------------------------------------------------------------------------

Resolving(r) ==
    \/ Head(r) \/ Query(r) \/ Compare(r) \/ Mark(r) \/ Drop(r) \/ Remove(r)

Next ==
    \/ \E u \in Uploads : \/ Presign(u) \/ SendPut(u) \/ PutLands(u) \/ PutEnds(u)
                          \/ Ages(u) \/ SweepNext(u)
                          \/ Trash(u) \/ Restore(u) \/ HostDelete(u) \/ HostRemoves(u)
    \/ \E r \in Confirmers, u \in Uploads : Confirm(r, u)
    \/ SweepReads
    \/ \E r \in Resolvers : Resolving(r) \/ ResolveFails(r)
    \/ Restart

Spec == Init /\ [][Next]_vars

\* The ticker fires and the calls of a request return.  Guests and the host
\* need not do anything, and no row has to age.
Fairness ==
    /\ WF_vars(SweepReads)
    /\ \A u \in Uploads : WF_vars(SweepNext(u))
    /\ \A r \in Resolvers : WF_vars(Resolving(r))

FairSpec == Spec /\ Fairness

-----------------------------------------------------------------------------
(* Properties.                                                             *)

SameFile(u, v) == file[u] = file[v]

\* A copy of u's file can be opened in the event, or could until the host deleted
\* one - or two received copies were each removed as a duplicate of another.
Kept(u) ==
    \/ \E v \in Uploads : /\ SameFile(u, v)
                          /\ row[v] = "deleted" \/ (row[v] = "received" /\ v \in object)
    \/ \E v, w \in crossed : v # w /\ SameFile(u, v) /\ SameFile(u, w)

\* A guest who was told that the file is there - received, or a duplicate of
\* what the album already has - never loses it to the resolvers: its object, or
\* that of another received copy, is there until the host deletes it.  The one
\* way to lose it that the code leaves open is that two received copies are each
\* taken for the duplicate of the other by resolvers that read them as pending.
AssuredIsKept == \A u \in assured : Kept(u)

\* "A received row is not touched": whatever a resolver read before the other
\* one marked the row, only the host takes it away.
ReceivedRowStays ==
    [][\A u \in Uploads : row[u] = "received" /\ row'[u] # "received" =>
          row'[u] = "deleted" /\ u \in removing']_vars

\* A row enters the gallery only if its file reached S3 and is not empty.
ReceivedLanded ==
    \A u \in Uploads : row[u] = "received" => put[u] = "landed" /\ file[u] # EmptyFile

\* Every object belongs to a row, or somebody is about to remove it, or the
\* removal failed: no step forgets an object.
NoOrphanObject ==
    \A u \in object \ leaked :
        \/ Exists(u)
        \/ u \in removing
        \/ \E r \in Resolvers : at[r] = u /\ pc[r] = "rm"

\* A photo in the gallery can be opened, when nobody uploaded the same file
\* again: no interleaving of resolvers, host and restarts removes its object.
OnlyCopyHasObject ==
    \A u \in Uploads :
        Visible(u) /\ (\A v \in Uploads : SameFile(u, v) => v = u) => u \in object

Abstract == INSTANCE Receipt WITH
    arrived <- {u \in Uploads : put[u] = "landed"},
    givenUp <- {u \in Uploads : put[u] # "landed" /\ seen[u] = "failed"},
    stored <- object,
    told <- assured,
    taken <- crossed

\* Resolve, from whichever caller and however often it is cut short, settles an
\* upload as Receipt says: once, a row is dropped only if its file is empty, is
\* never coming, or another row has it, and whoever was told of a file has a copy
\* in the storage until the host deletes it or two copies cross.  (Not with late
\* PUTs.)
ImplementsReceipt == Abstract!Spec

\* As many older rows as the sweep reads wait for files that are not there.
Crowded(u) ==
    Cardinality({v \in older[u] \cap Due : v \notin object}) >= Batch

\* A file that reached S3 is settled by the sweep even if /confirm never
\* comes, unless the row's day ends first or the sweep is full of older rows
\* whose files do not come.
LandedIsSettled ==
    \A u \in Uploads :
        (row[u] = "pending" /\ u \in object /\ age[u] = "due")
            ~> (row[u] # "pending" \/ age[u] = "expired" \/ Crowded(u))
=============================================================================
