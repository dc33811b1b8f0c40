---------------------------- MODULE EventCleanup ----------------------------
(***************************************************************************)
(* How an event ends.  The storage cron warns hosts and closes events      *)
(* whose gallery is over; hosts and the panel close events on demand.      *)
(* Closing purges: a snapshot of the file list, the deletion mark, the     *)
(* rows, the files one by one.  The panel may remove a closed event for    *)
(* good.  Meanwhile guests upload and the dates of EventDates move.        *)
(*                                                                         *)
(* Nothing here runs in a transaction except the last step of a removal:   *)
(* every action is one statement or one call of S3.                        *)
(***************************************************************************)
EXTENDS EventDates

CONSTANTS
    Lead,       \* days between the warning and the end
    Media,      \* photos, videos and voice notes that may be uploaded
    Home,       \* Home[m]: the event of m
    Callers,    \* requests of hosts and of the panel at the same time
    Cron,       \* the run of the storage cron; runMutex admits one
    Faults,     \* a subset of FaultKinds
    NoEvent

Purgers == Callers \cup {Cron}
FaultKinds == {"error", "restart"}

ASSUME HomeAssumption == Home \in [Media -> Events]
ASSUME CronAssumption == Cron \notin Callers /\ NoEvent \notin Events
ASSUME FaultsAssumption == Faults \subseteq FaultKinds /\ Lead \in Nat

VARIABLES
    row,        \* an upload: "none", "checked" (limits), "row" or "deleted"
    object,     \* its file in S3: "none", "stored" or "removed"
    progress,   \* event_upload_snapshots: "none", "captured" or "finished"
    captured,   \* its media_paths
    gone,       \* events whose row was deleted
    pc, at,     \* a purger's next statement and its event
    paths,      \* the files it has listed
    cron,       \* the cron's part: "idle", "warn", "mark" or "purge"
    list,       \* what it has read for that part and not dealt with
    told,       \* the day the last warning named; 0: none
    moved,      \* history: events whose dates moved while the cron had them listed
    early,      \* history: events the cron closed before their gallery was over
    missed,     \* history: uploads that came after the purge had looked
    late        \* history: files that arrived at a closed event

files == <<row, object>>
record == <<progress, captured, gone>>
purger == <<pc, at, paths>>
run == <<cron, list>>
past == <<told, moved, early, missed, late>>
vars == <<dateVars, row, object, progress, captured, gone, pc, at, paths, cron, list,
          told, moved, early, missed, late>>

Rows(e) == {m \in Media : Home[m] = e /\ row[m] = "row"}
Stored(e) == {m \in Media : Home[m] = e /\ object[m] = "stored"}
Expired(e) == e \in dated /\ storage[e] <= now

TypeOK ==
    /\ DatesTypeOK
    /\ row \in [Media -> {"none", "checked", "row", "deleted"}]
    /\ object \in [Media -> {"none", "stored", "removed"}]
    /\ progress \in [Events -> {"none", "captured", "finished"}]
    /\ captured \in [Events -> SUBSET Media]
    /\ gone \in SUBSET closed
    /\ pc \in [Purgers -> {"idle", "look", "insert", "close", "rows", "files",
                           "wipe"}]
    /\ at \in [Purgers -> Events \cup {NoEvent}]
    /\ paths \in [Purgers -> SUBSET Media]
    /\ cron \in {"idle", "warn", "mark", "purge"}
    /\ list \in SUBSET (Events \X Nat)
    /\ told \in [Events -> Nat]
    /\ moved \in SUBSET Events /\ early \in SUBSET Events
    /\ missed \in SUBSET Media /\ late \in SUBSET Media

Init ==
    /\ DatesInit
    /\ row = [m \in Media |-> "none"] /\ object = row
    /\ progress = [e \in Events |-> "none"]
    /\ captured = [e \in Events |-> {}] /\ gone = {}
    /\ pc = [p \in Purgers |-> "idle"]
    /\ at = [p \in Purgers |-> NoEvent]
    /\ paths = [p \in Purgers |-> {}]
    /\ cron = "idle" /\ list = {}
    /\ told = [e \in Events |-> 0]
    /\ moved = {} /\ early = {} /\ missed = {} /\ late = {}

-----------------------------------------------------------------------------
(* Guests.                                                                 *)

\* GuestUpload up to Check_upload_limits, which finds no package once the event
\* is closed.
Checks(m) ==
    /\ row[m] = "none" /\ Home[m] \notin closed
    /\ row' = [row EXCEPT ![m] = "checked"]
    /\ UNCHANGED <<dateVars, object, record, purger, run, past>>

\* The row is inserted later, whatever has become of the event meanwhile.
Inserts(m) ==
    LET e == Home[m] IN
    /\ row[m] = "checked" /\ e \notin gone
    /\ row' = [row EXCEPT ![m] = "row"]
    /\ missed' = IF \/ progress[e] # "none"
                    \/ \E p \in Purgers : at[p] = e /\ pc[p] \notin {"idle", "look"}
                 THEN missed \cup {m} ELSE missed
    /\ UNCHANGED <<dateVars, object, record, purger, run, told, moved, early, late>>

\* The PUT to the presigned URL.
Lands(m) ==
    /\ row[m] \in {"row", "deleted"} /\ object[m] = "none"
    /\ object' = [object EXCEPT ![m] = "stored"]
    /\ late' = IF Home[m] \in closed THEN late \cup {m} ELSE late
    /\ UNCHANGED <<dateVars, row, record, purger, run, told, moved, early, missed>>

-----------------------------------------------------------------------------
(* The purge of an event (PurgeUploadsAndSoftDeleteEvent).                 *)

Goto(p, label) == pc' = [pc EXCEPT ![p] = label] /\ UNCHANGED at

Ends(p) ==
    /\ pc' = [pc EXCEPT ![p] = "idle"]
    /\ at' = [at EXCEPT ![p] = NoEvent]
    /\ paths' = [paths EXCEPT ![p] = {}]

\* Goes on with the list of a snapshot that is there, unless its purge is over.
Resumes(p) ==
    LET e == at[p] IN
    IF progress[e] = "finished" THEN Ends(p)
    ELSE Goto(p, "close") /\ paths' = [paths EXCEPT ![p] = captured[e]]

\* A host's Delete, or the panel's.
Deletes(p, e) ==
    /\ pc[p] = "idle" /\ p \in Callers /\ e \notin closed
    /\ pc' = [pc EXCEPT ![p] = "look"]
    /\ at' = [at EXCEPT ![p] = e]
    /\ UNCHANGED <<dateVars, files, record, paths, run, past>>

\* Mutant of Look: only files that have arrived are listed.
LookStored(p) ==
    LET e == at[p] IN
    /\ pc[p] = "look"
    /\ IF progress[e] # "none" THEN Resumes(p)
       ELSE Goto(p, "insert") /\ paths' = [paths EXCEPT ![p] = Rows(e) \cap Stored(e)]
    /\ UNCHANGED <<dateVars, files, record, run, past>>

\* The snapshot's row or, without one, the list of the event's rows.
Look(p) ==
    LET e == at[p] IN
    /\ pc[p] = "look"
    /\ IF progress[e] # "none" THEN Resumes(p)
       ELSE Goto(p, "insert") /\ paths' = [paths EXCEPT ![p] = Rows(e)]
    /\ UNCHANGED <<dateVars, files, record, run, past>>

\* Mutant of Capture: the rows go before the event is closed.
CaptureRowsFirst(p) ==
    LET e == at[p] IN
    /\ pc[p] = "insert" /\ e \notin gone
    /\ IF progress[e] # "none" THEN Resumes(p) /\ UNCHANGED <<progress, captured>>
       ELSE /\ progress' = [progress EXCEPT ![e] = "captured"]
            /\ captured' = [captured EXCEPT ![e] = paths[p]]
            /\ Goto(p, "rows") /\ UNCHANGED paths
    /\ UNCHANGED <<dateVars, files, gone, run, past>>

\* ON CONFLICT DO NOTHING: the snapshot somebody else has inserted counts.
Capture(p) ==
    LET e == at[p] IN
    /\ pc[p] = "insert" /\ e \notin gone
    /\ IF progress[e] # "none" THEN Resumes(p) /\ UNCHANGED <<progress, captured>>
       ELSE /\ progress' = [progress EXCEPT ![e] = "captured"]
            /\ captured' = [captured EXCEPT ![e] = paths[p]]
            /\ Goto(p, "close") /\ UNCHANGED paths
    /\ UNCHANGED <<dateVars, files, gone, run, past>>

SoftDelete(p) ==
    LET e == at[p] IN
    /\ pc[p] = "close"
    /\ Closes(e)
    /\ Goto(p, "rows")
    /\ early' = IF p = Cron /\ e \notin closed /\ ~Expired(e) THEN early \cup {e}
                ELSE early
    /\ UNCHANGED <<files, record, paths, run, told, moved, missed, late>>

DeleteRows(p) ==
    /\ pc[p] = "rows"
    /\ row' = [m \in Media |-> IF m \in Rows(at[p]) THEN "deleted" ELSE row[m]]
    /\ Goto(p, "files")
    /\ UNCHANGED <<dateVars, object, record, paths, run, past>>

\* S3 takes the removal of a file that is not there for done.
RemoveFile(p, m) ==
    /\ pc[p] \in {"files", "wipe"} /\ m \in paths[p]
    /\ object' = [object EXCEPT ![m] = IF @ = "stored" THEN "removed" ELSE @]
    /\ paths' = [paths EXCEPT ![p] = @ \ {m}]
    /\ UNCHANGED <<dateVars, row, record, pc, at, run, past>>

\* Mutant of Finish: failing removals do not count.
FinishAnyway(p) ==
    /\ pc[p] = "files"
    /\ progress' = IF at[p] \in gone THEN progress
                   ELSE [progress EXCEPT ![at[p]] = "finished"]
    /\ Ends(p)
    /\ UNCHANGED <<dateVars, files, captured, gone, run, past>>

\* An event that is gone has lost its snapshot.
Finish(p) ==
    /\ pc[p] = "files" /\ paths[p] = {}
    /\ progress' = IF at[p] \in gone THEN progress
                   ELSE [progress EXCEPT ![at[p]] = "finished"]
    /\ Ends(p)
    /\ UNCHANGED <<dateVars, files, captured, gone, run, past>>

-----------------------------------------------------------------------------
(* DeletePermanently.                                                      *)

\* Mutant of ListFiles: the snapshot's list, not S3's.
ListSnapshot(p, e) ==
    /\ pc[p] = "idle" /\ p \in Callers /\ e \in closed \ gone
    /\ pc' = [pc EXCEPT ![p] = "wipe"]
    /\ at' = [at EXCEPT ![p] = e]
    /\ paths' = [paths EXCEPT ![p] = captured[e]]
    /\ UNCHANGED <<dateVars, files, record, run, past>>

\* Everything in the event's folder.
ListFiles(p, e) ==
    /\ pc[p] = "idle" /\ p \in Callers /\ e \in closed \ gone
    /\ pc' = [pc EXCEPT ![p] = "wipe"]
    /\ at' = [at EXCEPT ![p] = e]
    /\ paths' = [paths EXCEPT ![p] = Stored(e)]
    /\ UNCHANGED <<dateVars, files, record, run, past>>

\* The rows go in one transaction, which fails if an upgrade was ever ordered:
\* purchases.event_uid still refers to the event.  The dates of an event that is
\* gone mean nothing any more.
Erase(p) ==
    LET e == at[p] IN
    /\ pc[p] = "wipe" /\ paths[p] = {}
    /\ IF e \in gone \/ \E o \in Upgrades : EventOf[o] = e /\ bill[o] # "none"
       THEN UNCHANGED <<row, record>>
       ELSE /\ gone' = gone \cup {e}
            /\ row' = [m \in Media |-> IF m \in Rows(e) THEN "deleted" ELSE row[m]]
            /\ progress' = [progress EXCEPT ![e] = "none"]
            /\ captured' = [captured EXCEPT ![e] = {}]
    /\ Ends(p)
    /\ UNCHANGED <<dateVars, object, run, past>>

-----------------------------------------------------------------------------
(* A run of the storage cron (RunOnce).  What it has read of an event is a *)
(* pair, the event and its storage_until.                                  *)

WarnStarts ==
    /\ cron = "idle"
    /\ cron' = "warn"
    /\ list' = {<<e, storage[e]>> : e \in {f \in dated \ (closed \cup warned) :
                                        storage[f] > now /\ storage[f] - Lead <= now}}
    /\ UNCHANGED <<dateVars, files, record, purger, past>>

\* The mail names the day that was read.
Mail(x) ==
    /\ cron = "warn" /\ x \in list
    /\ cron' = "mark" /\ list' = list \ {x}
    /\ at' = [at EXCEPT ![Cron] = x[1]]
    /\ told' = [told EXCEPT ![x[1]] = x[2]]
    /\ UNCHANGED <<dateVars, files, record, pc, paths, moved, early, missed, late>>

\* A mail that fails is left to the next run.
MailFails(x) ==
    /\ "error" \in Faults
    /\ cron = "warn" /\ x \in list
    /\ list' = list \ {x}
    /\ UNCHANGED <<dateVars, files, record, purger, cron, past>>

\* The mail has gone out even if the mark is not written.
Mark ==
    /\ cron = "mark"
    /\ \/ MarksWarned(at[Cron])
       \/ "error" \in Faults /\ UNCHANGED dateVars
    /\ cron' = "warn"
    /\ at' = [at EXCEPT ![Cron] = NoEvent]
    /\ UNCHANGED <<files, record, pc, paths, list, past>>

\* Mutant of PurgeStarts: the warned ones too.
PurgeStartsEarly ==
    /\ cron = "warn" /\ list = {}
    /\ cron' = "purge"
    /\ list' = {<<e, storage[e]>> : e \in {f \in dated \ closed : storage[f] - Lead <= now}}
    /\ UNCHANGED <<dateVars, files, record, purger, past>>

\* queryExpiredEvents
PurgeStarts ==
    /\ cron = "warn" /\ list = {}
    /\ cron' = "purge"
    /\ list' = {<<e, storage[e]>> : e \in {f \in dated \ closed : Expired(f)}}
    /\ UNCHANGED <<dateVars, files, record, purger, past>>

\* The oldest first.
PurgeNext(x) ==
    /\ cron = "purge" /\ pc[Cron] = "idle"
    /\ x \in list /\ \A y \in list : x[2] <= y[2]
    /\ list' = list \ {x}
    /\ pc' = [pc EXCEPT ![Cron] = "look"]
    /\ at' = [at EXCEPT ![Cron] = x[1]]
    /\ UNCHANGED <<dateVars, files, record, paths, cron, past>>

PurgeEnds ==
    /\ cron = "purge" /\ pc[Cron] = "idle" /\ list = {}
    /\ cron' = "idle"
    /\ UNCHANGED <<dateVars, files, record, purger, list, past>>

-----------------------------------------------------------------------------

\* An error ends the request, or the whole run of the cron.
PurgeFails(p) ==
    /\ "error" \in Faults
    /\ pc[p] # "idle"
    /\ Ends(p)
    /\ IF p = Cron THEN cron' = "idle" /\ list' = {} ELSE UNCHANGED run
    /\ UNCHANGED <<dateVars, files, record, past>>

\* Nothing is taken up again: RetryFailedEventUploadPurges has no caller.
Restart ==
    /\ "restart" \in Faults
    /\ cron # "idle" \/ \E p \in Purgers : pc[p] # "idle"
    /\ pc' = [p \in Purgers |-> "idle"]
    /\ at' = [p \in Purgers |-> NoEvent]
    /\ paths' = [p \in Purgers |-> {}]
    /\ cron' = "idle" /\ list' = {}
    /\ UNCHANGED <<dateVars, files, record, past>>

Listed(e) == at[Cron] = e \/ \E x \in list : x[1] = e

\* The dates move, whatever the cron has read of them.
DatesMove(e) ==
    /\ e \notin gone
    /\ DateStep(e)
    /\ moved' = IF storage'[e] = storage[e] THEN moved
                ELSE IF Listed(e) THEN moved \cup {e}
                ELSE IF e \in closed \/ extended' # extended THEN moved
                ELSE moved \ {e}
    /\ UNCHANGED <<files, record, purger, run, told, early, missed, late>>

Day == Tick /\ UNCHANGED <<files, record, purger, run, past>>

PurgeStep(p) ==
    \/ Look(p) \/ Capture(p) \/ SoftDelete(p) \/ DeleteRows(p) \/ Finish(p)
    \/ \E m \in Media : RemoveFile(p, m)

CronStep ==
    \/ WarnStarts \/ Mark \/ PurgeStarts \/ PurgeEnds \/ PurgeStep(Cron)
    \/ \E x \in list : Mail(x) \/ PurgeNext(x)

Next ==
    \/ Day
    \/ \E e \in Events : DatesMove(e)
    \/ \E m \in Media : Checks(m) \/ Inserts(m) \/ Lands(m)
    \/ \E p \in Callers : \/ PurgeStep(p) \/ Erase(p)
                          \/ \E e \in Events : Deletes(p, e) \/ ListFiles(p, e)
    \/ CronStep
    \/ \E x \in list : MailFails(x)
    \/ \E p \in Purgers : PurgeFails(p)
    \/ Restart

Spec == Init /\ [][Next]_vars

-----------------------------------------------------------------------------
(* Properties.                                                             *)

\* Until an event is closed, no purge, however many of them are under way or have
\* been broken off, takes a row or a file of it.
OpenKeepsMedia ==
    \A m \in Media : Home[m] \notin closed =>
        row[m] # "deleted" /\ object[m] # "removed"

\* A finished purge leaves no file of its list, except one that arrives after the
\* event was closed.
FinishedIsGone ==
    \A e \in Events : progress[e] = "finished" =>
        captured[e] \cap Stored(e) \subseteq late

\* A file whose row is deleted is gone or still on the list of its event's
\* snapshot, unless the upload came after the purge had looked or the file after
\* the event was closed.
NoFileForgotten ==
    \A m \in Media \ (missed \cup late) :
        row[m] = "deleted" /\ object[m] = "stored" =>
            m \in captured[Home[m]] /\ progress[Home[m]] = "captured"

\* A permanent removal leaves no file but one that arrives after the closing, even
\* where earlier purges were broken off or had missed it.
RemovalIsWhole ==
    \A e \in gone : Stored(e) \subseteq late

\* An event that is marked as warned was told the day its gallery ends, or the day
\* before its extension, unless its dates moved while the cron was mailing.
WarnedOfTheDate ==
    \A e \in warned \ moved :
        \/ storage[e] = told[e]
        \/ e \in extended /\ storage[e] = told[e] + Extension

\* The cron closes an event whose gallery is not over only if its dates moved after
\* it had been listed.
ClosedEarlyOnlyIfMoved == early \subseteq moved
=============================================================================
