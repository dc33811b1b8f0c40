-------------------------------- MODULE Guests --------------------------------
(***************************************************************************)
(* The guests of one event: the browser's token (AuthMiddleware,           *)
(* GuestOpen), the albums it may see or upload to, and the package's       *)
(* limits, which GuestUpload checks before it inserts the rows.            *)
(*                                                                         *)
(* The limits are counted in one query and the rows inserted by another,   *)
(* without a lock, and the album is read before both.  A row is inserted   *)
(* with the size the browser declares, if any, and gets the measured size  *)
(* when its file is found.  The host works on the same rows at the same    *)
(* time: edits an album, deletes it (two UPDATEs of one transaction),      *)
(* trashes, moves and restores media; the restore's trigger, too, counts   *)
(* without a lock.  Storage is counted in units of size, up to MaxSize a   *)
(* file.                                                                   *)
(***************************************************************************)
EXTENDS Integers, FiniteSets

CONSTANTS
    Browsers,   \* guests' and visitors' browsers
    Uids,       \* participants.uid values
    NoUid,
    Accounts,   \* the browsers whose visitor is signed in
    Derived,    \* DerivedParticipantUID of a browser's account for this event
    Requests,   \* GuestUpload calls that may run at the same time
    Uploads,    \* uploads.uid values
    Albums, General, NoAlbum,
    Settings,   \* privacy, guest_upload and guest_view of albums, as they occur
    Edited,     \* albums whose settings the host changes
    Kinds,      \* the kinds of upload guests make
    MaxSize,    \* the largest size of a file
    MediaLimit, StorageLimit, GuestMediaLimit, GuestStorageLimit,
    GuestCount, \* the contributor limit; -1 is no limit, as for the others
    MaxDeeds    \* bound: what the host and the clock do, altogether

ASSUME AlbumsAssumption == General \in Albums /\ NoAlbum \notin Albums
ASSUME SettingsAssumption ==
    Settings \subseteq [privacy: {"public", "private", "protected"},
                       upload: BOOLEAN, view: BOOLEAN]
ASSUME DerivedAssumption == Derived \in [Accounts -> Uids]
ASSUME LimitsAssumption ==
    {MediaLimit, StorageLimit, GuestMediaLimit, GuestStorageLimit, GuestCount} \subseteq Int
ASSUME SizeAssumption == MaxSize \in Nat
ASSUME UploadsAssumption == IsFiniteSet(Uploads)
ASSUME DeedsAssumption == MaxDeeds \in Nat

VARIABLES
    closed,       \* events.deleted_at is set
    album,        \* the albums rows
    deleting,     \* albums whose deletion has trashed the media, not committed
    doomed,       \* the rows those transactions have trashed, and hold
    token,        \* what a browser sends: role, participant, "ev" and "al"
    participants, \* participants rows of this event
    req,          \* GuestUpload calls
    row,          \* the uploads rows
    back,         \* restores that have passed the trigger, not committed
    waived,       \* history: guests with whom the contributor limit was not asked
    deeds

vars == <<closed, album, deleting, doomed, token, participants, req, row, back,
          waived, deeds>>
host == <<closed, album, deleting, doomed>>

NoToken == [role |-> "none", uid |-> NoUid, ev |-> "none", al |-> {}]
Idle == [pc |-> "idle", uid |-> NoUid, al |-> {}, album |-> NoAlbum, kind |-> "photo",
         files |-> {}, sizes |-> [f \in Uploads |-> 0], overtaken |-> FALSE]
\* size is size_bytes.  The rest is history: the size the limits were asked
\* for, whom the row may bring over a limit, and that it came alive while its
\* album was being deleted.
NoRow == [st |-> "none", trashed |-> FALSE, kind |-> "photo", uid |-> NoUid,
          album |-> NoAlbum, size |-> 0, asked |-> 0, excuse |-> "no", late |-> FALSE]
NotBack == [on |-> FALSE, album |-> NoAlbum, excuse |-> "all"]

Size == 0..MaxSize
Sizes == [Uploads -> Size]
AlbumRow == [set: Settings, deleted: BOOLEAN]
Row == [st: {"none", "pending", "stale", "received"}, trashed: BOOLEAN,
        kind: {"photo", "voice", "text"}, uid: Uids \cup {NoUid},
        album: Albums \cup {NoAlbum}, size: Size, asked: Size,
        excuse: {"no", "guest", "all"}, late: BOOLEAN]
Request == [pc: {"idle", "entered", "allowed", "checked"}, uid: Uids \cup {NoUid},
            al: SUBSET Albums, album: Albums \cup {NoAlbum}, kind: {"photo", "voice"},
            files: SUBSET Uploads, sizes: Sizes, overtaken: BOOLEAN]
Restore == [on: BOOLEAN, album: Albums \cup {NoAlbum}, excuse: {"guest", "all"}]

-----------------------------------------------------------------------------
(* What the limits count: UploadCountsSQL.                                 *)

Counts(f) == row[f].st \in {"pending", "received"} /\ ~row[f].trashed

\* Event_media_count, Event_storage_bytes, Guest_upload_usage
MediaFiles == {f \in Uploads : Counts(f) /\ row[f].kind = "photo"}
StoredFiles == {f \in Uploads : Counts(f) /\ row[f].kind # "text"}
FilesOf(u) == {f \in StoredFiles : row[f].uid = u}
Contributors == {row[f].uid : f \in {g \in Uploads : Counts(g)}}

\* SUM(size_bytes) of some files, unit by unit, and what a request adds to it
Units(files) == {p \in files \X (1..MaxSize) : p[2] <= row[p[1]].size}
Bytes(files) == Cardinality(Units(files))
DeclaredUnits(r) == {p \in req[r].files \X (1..MaxSize) : p[2] <= req[r].sizes[p[1]]}

Unlimited(limit) == limit < 0

\* Mutant of WithinLimits: looks whether there is room, not whether the files fit
WithinLimitsBefore(u, n, bytes) ==
    /\ MediaLimit = -1 \/ Cardinality(MediaFiles) < MediaLimit + n
    /\ Unlimited(StorageLimit) \/ Bytes(StoredFiles) <= StorageLimit
    /\ Unlimited(GuestMediaLimit) \/ Cardinality(FilesOf(u)) < GuestMediaLimit
    /\ Unlimited(GuestStorageLimit) \/ Bytes(FilesOf(u)) <= GuestStorageLimit

\* Check_upload_limits.  A voice message, too, needs room in media_count.
WithinLimits(u, n, bytes) ==
    /\ MediaLimit = -1 \/ Cardinality(MediaFiles) + n <= MediaLimit
    /\ Unlimited(StorageLimit) \/ Bytes(StoredFiles) + bytes <= StorageLimit
    /\ Unlimited(GuestMediaLimit) \/ Cardinality(FilesOf(u)) + n <= GuestMediaLimit
    /\ Unlimited(GuestStorageLimit) \/ Bytes(FilesOf(u)) + bytes <= GuestStorageLimit

\* Check_contributor_limit_for_new_guest and ..._for_upload
RoomForContributor == GuestCount = -1 \/ Cardinality(Contributors) < GuestCount

\* Mutant of MayContribute: one contributor too many
MayContributeOneMore(u) ==
    u \in Contributors \/ GuestCount = -1 \/ Cardinality(Contributors) <= GuestCount

MayContribute(u) == u \in Contributors \/ RoomForContributor

\* Guest_album_access and Guest_album_upload_access
Access(a, al) ==
    LET set == album[a].set IN
    IF album[a].deleted \/ ~(set.upload \/ set.view) THEN "closed"
    ELSE IF set.privacy = "public" \/ a \in al THEN "ok"
    ELSE IF set.privacy = "protected" THEN "passcode"
    ELSE "not_opened"

UploadAccess(a, al) == Access(a, al) = "ok" /\ album[a].set.upload

-----------------------------------------------------------------------------
Init ==
    /\ closed = FALSE
    /\ album \in [Albums -> [set: Settings, deleted: {FALSE}]]
    /\ \A a \in Albums \ Edited :
          album[a].set = [privacy |-> "public", upload |-> TRUE, view |-> FALSE]
    /\ deleting = {}
    /\ doomed = {}
    \* A guest comes without a token, with one from another event, or with one
    \* of this event from before there were albums; a visitor who is signed in
    \* brings that token.
    /\ participants \in SUBSET (Uids \ {Derived[c] : c \in Accounts})
    /\ token \in [Browsers -> [role: {"none", "webanon", "auth"}, uid: Uids \cup {NoUid},
                               ev: {"none", "other"}, al: {{}}]]
    /\ \A b \in Browsers :
          /\ token[b].role = "auth" <=> b \in Accounts
          /\ token[b].ev = "other" => token[b].role = "webanon" /\ token[b].uid = NoUid
          /\ token[b].role = "webanon" /\ token[b].ev = "none" <=> token[b].uid # NoUid
          /\ token[b].uid # NoUid => token[b].uid \in participants
    /\ \A b, c \in Browsers : token[b].uid = token[c].uid => b = c \/ token[b].uid = NoUid
    /\ req = [r \in Requests |-> Idle]
    /\ row = [f \in Uploads |-> NoRow]
    /\ back = [f \in Uploads |-> NotBack]
    /\ waived = {}
    /\ deeds = 0

\* Requests and restores that have their answer from the limits when more is
\* counted.
Overtake(mine) ==
    [q \in Requests |->
        IF q \notin mine /\ req[q].pc = "checked" THEN [req[q] EXCEPT !.overtaken = TRUE]
        ELSE req[q]]

OvertakeRestores == [f \in Uploads |-> [back[f] EXCEPT !.excuse = "all"]]

Deed ==
    /\ deeds < MaxDeeds
    /\ deeds' = deeds + 1

-----------------------------------------------------------------------------
(* AuthMiddleware for a guest page.                                        *)

\* No token: Authorize makes one before it looks at the limit and inserts the
\* participant, so a browser may keep a token that has no participant.
NewGuest(b) ==
    /\ token[b].role = "none"
    /\ ~closed
    /\ \E u \in (Uids \ participants) \ {Derived[c] : c \in Accounts} :
          /\ \A c \in Browsers : token[c].uid # u
          /\ token' = [token EXCEPT ![b] = [role |-> "webanon", uid |-> u,
                                            ev |-> "here", al |-> {}]]
          /\ \/ RoomForContributor /\ participants' = participants \cup {u}
             \/ UNCHANGED participants
    /\ UNCHANGED <<host, req, row, back, waived, deeds>>

\* A guest token whose participant is not of this event gets a 401; the
\* browser drops it and comes back without one.
ForeignToken(b) ==
    /\ token[b].role = "webanon" /\ token[b].uid \notin participants
    /\ token' = [token EXCEPT ![b] = NoToken]
    /\ UNCHANGED <<host, participants, req, row, back, waived, deeds>>

\* ReissueGuestToken: a token names its event and only ever gains albums.
Reissue(t, opened) == [t EXCEPT !.ev = "here", !.al = @ \cup opened]

\* A token from before there were albums is renewed on its first request.
RenewToken(b) ==
    /\ token[b].role = "webanon" /\ token[b].uid \in participants
    /\ token[b].ev = "none"
    /\ token' = [token EXCEPT ![b] = Reissue(@, {})]
    /\ UNCHANGED <<host, participants, req, row, back, waived, deeds>>

\* The participant AuthMiddleware lets a guest act as ...
GuestEnters(b, u) ==
    /\ token[b].role = "webanon" /\ token[b].uid \in participants
    /\ token[b].ev # "none"
    /\ u = token[b].uid
    /\ UNCHANGED participants

\* ... and a signed-in visitor: resolveAuthParticipantUID inserts a missing one.
AccountEnters(b, u) ==
    /\ token[b].role = "auth" /\ ~closed
    /\ u = Derived[b]
    /\ participants' = participants \cup {u}

\* GuestOpen: the link opens a private album, the passcode a protected one.
\* The token of a signed-in visitor gains no albums.
GuestOpen(b, a) ==
    /\ token[b].role = "webanon" /\ token[b].uid \in participants
    /\ Access(a, token[b].al) \in {"not_opened", "passcode"}
    /\ token' = [token EXCEPT ![b] = Reissue(@, {a})]
    /\ UNCHANGED <<host, participants, req, row, back, waived, deeds>>

-----------------------------------------------------------------------------
(* GuestUpload.                                                            *)

\* The upload uids a request has chosen.
Taken == UNION {req[r].files : r \in Requests}

EnterUpload(r, b) ==
    /\ req[r].pc = "idle"
    /\ \E u \in Uids :
          /\ GuestEnters(b, u) \/ AccountEnters(b, u)
          /\ \E kind \in Kinds \cap {"photo", "voice"},
                files \in SUBSET {f \in Uploads \ Taken : row[f].st = "none"} \ {{}} :
             \E a \in IF kind = "voice" THEN {NoAlbum} ELSE Albums,
                declared \in [files -> Size] :
                req' = [req EXCEPT ![r] =
                          [pc |-> "entered", uid |-> u, al |-> token[b].al,
                           album |-> a, kind |-> kind, files |-> files,
                           sizes |-> [f \in Uploads |->
                                        IF f \in files THEN declared[f] ELSE 0],
                           overtaken |-> FALSE]]
    /\ UNCHANGED <<host, token, row, back, waived, deeds>>

\* Get_album and Guest_album_upload_access; a voice message has no album.
ReadAlbum(r) ==
    /\ req[r].pc = "entered"
    /\ IF req[r].kind = "voice" \/ UploadAccess(req[r].album, req[r].al)
       THEN req' = [req EXCEPT ![r].pc = "allowed"]
       ELSE req' = [req EXCEPT ![r] = Idle]
    /\ UNCHANGED <<host, token, participants, row, back, waived, deeds>>

\* Check_upload_limits and Check_contributor_limit_for_upload; a closed event
\* has no package to read them from, and the request fails.
CheckLimits(r) ==
    /\ req[r].pc = "allowed"
    /\ IF /\ ~closed
          /\ WithinLimits(req[r].uid, Cardinality(req[r].files), Cardinality(DeclaredUnits(r)))
          /\ MayContribute(req[r].uid)
       THEN req' = [req EXCEPT ![r].pc = "checked"]
       ELSE req' = [req EXCEPT ![r] = Idle]
    /\ UNCHANGED <<host, token, participants, row, back, waived, deeds>>

\* check_upload_participant_event and check_upload_album_event
InsertAllowed(r) ==
    /\ req[r].uid \in participants
    /\ req[r].album # NoAlbum => ~album[req[r].album].deleted

Insert(r) ==
    /\ req[r].pc = "checked"
    /\ InsertAllowed(r)
    /\ row' = [f \in Uploads |->
                 IF f \in req[r].files
                 THEN [st |-> "pending", trashed |-> FALSE, kind |-> req[r].kind,
                       uid |-> req[r].uid, album |-> req[r].album,
                       size |-> req[r].sizes[f], asked |-> req[r].sizes[f],
                       excuse |-> IF req[r].overtaken THEN "all" ELSE "no",
                       late |-> req[r].album \in deleting]
                 ELSE row[f]]
    /\ req' = [Overtake({r}) EXCEPT ![r] = Idle]
    /\ back' = OvertakeRestores
    /\ waived' = IF req[r].overtaken THEN waived \cup {req[r].uid} ELSE waived
    /\ UNCHANGED <<host, token, participants, deeds>>

\* A query or the signing of a URL fails, a trigger refuses the rows, or the
\* server stops.
FailUpload(r) ==
    /\ req[r].pc # "idle"
    /\ req' = [req EXCEPT ![r] = Idle]
    /\ UNCHANGED <<host, token, participants, row, back, waived, deeds>>

-----------------------------------------------------------------------------
(* The rows afterwards.                                                    *)

\* The receipt of the file: /confirm or the sweep finds it, measures it, or
\* gives it up.  A row that was pending for over an hour counts again when its
\* file is found.
Receive(f) ==
    /\ row[f].st \in {"pending", "stale"} /\ f \notin doomed
    /\ \E size \in 1..MaxSize :
       LET again == row[f].st = "stale" /\ ~row[f].trashed
       IN  /\ row' = [row EXCEPT ![f].st = "received", ![f].size = size,
                                ![f].excuse = IF again THEN "all" ELSE row[f].excuse]
           /\ waived' = IF again THEN waived \cup {row[f].uid} ELSE waived
           /\ IF again \/ (Counts(f) /\ size > row[f].size)
              THEN req' = Overtake({}) /\ back' = OvertakeRestores
              ELSE UNCHANGED <<req, back>>
    /\ UNCHANGED <<host, token, participants, deeds>>

GiveUp(f) ==
    /\ row[f].st \in {"pending", "stale"} /\ f \notin doomed
    /\ row' = [row EXCEPT ![f] = NoRow]
    /\ UNCHANGED <<host, token, participants, req, back, waived, deeds>>

\* An hour passes.
Age(f) ==
    /\ Deed
    /\ row[f].st = "pending"
    /\ row' = [row EXCEPT ![f].st = "stale"]
    /\ UNCHANGED <<host, token, participants, req, back, waived>>

\* A guest writes in the guestbook, through PostgREST: no limit is checked.
SignBook(f, b) ==
    /\ "text" \in Kinds
    /\ Deed
    /\ token[b].role = "webanon" /\ token[b].uid \in participants
    /\ row[f].st = "none" /\ f \notin Taken
    /\ row' = [row EXCEPT ![f] = [NoRow EXCEPT !.st = "received", !.kind = "text",
                                             !.uid = token[b].uid, !.excuse = "all"]]
    /\ waived' = waived \cup {token[b].uid}
    /\ req' = Overtake({})
    /\ UNCHANGED <<host, token, participants, back>>

-----------------------------------------------------------------------------
(* The host.  PostgREST shows the host only received rows, and an UPDATE   *)
(* waits for one that holds the row.                                       *)

Held(f) == row[f].st = "received" /\ f \notin doomed /\ ~back[f].on

EditAlbum(a) ==
    /\ Deed
    /\ a \in Edited
    /\ \E new \in Settings : album' = [album EXCEPT ![a].set = new]
    /\ UNCHANGED <<closed, deleting, doomed, token, participants, req, row, back, waived>>

\* hostAlbum; General cannot be deleted.
HostManages(a) == ~closed /\ a # General

\* Mutant of BeginDelete: trashes what guests see and forgets pending rows
BeginDeleteReceived(a) ==
    /\ Deed
    /\ HostManages(a)
    /\ ~album[a].deleted /\ a \notin deleting
    /\ deleting' = deleting \cup {a}
    /\ doomed' = doomed \cup {f \in Uploads : /\ row[f].st = "received"
                                            /\ row[f].album = a
                                            /\ ~row[f].trashed}
    /\ UNCHANGED <<closed, album, token, participants, req, row, back, waived>>

\* The first UPDATE of album Delete: it sees the rows committed so far.
BeginDelete(a) ==
    /\ Deed
    /\ HostManages(a)
    /\ ~album[a].deleted /\ a \notin deleting
    /\ deleting' = deleting \cup {a}
    /\ doomed' = doomed \cup {f \in Uploads : /\ row[f].st # "none"
                                            /\ row[f].album = a
                                            /\ ~row[f].trashed}
    /\ UNCHANGED <<closed, album, token, participants, req, row, back, waived>>

\* The second UPDATE and the commit.
CommitDelete(a) ==
    /\ a \in deleting
    /\ album' = [album EXCEPT ![a].deleted = TRUE]
    /\ row' = [f \in Uploads |-> IF f \in doomed /\ row[f].album = a
                                THEN [row[f] EXCEPT !.trashed = TRUE] ELSE row[f]]
    /\ deleting' = deleting \ {a}
    /\ doomed' = {f \in doomed : row[f].album # a}
    /\ UNCHANGED <<closed, token, participants, req, back, waived, deeds>>

RollBackDelete(a) ==
    /\ a \in deleting
    /\ deleting' = deleting \ {a}
    /\ doomed' = {f \in doomed : row[f].album # a}
    /\ UNCHANGED <<closed, album, token, participants, req, row, back, waived, deeds>>

TrashUpload(f) ==
    /\ Deed
    /\ Held(f) /\ ~row[f].trashed
    /\ row' = [row EXCEPT ![f].trashed = TRUE]
    /\ UNCHANGED <<host, token, participants, req, back, waived>>

\* Mutant of Fits: the file's own size is not added
FitsBefore(f) ==
    /\ \/ Unlimited(MediaLimit) \/ row[f].kind = "voice"
       \/ Cardinality(MediaFiles) + 1 <= MediaLimit
    /\ Unlimited(StorageLimit) \/ Bytes(StoredFiles) <= StorageLimit

\* check_upload_restore_quota: the event's limits, and none if it is closed.
Fits(f) ==
    /\ \/ Unlimited(MediaLimit) \/ row[f].kind = "voice"
       \/ Cardinality(MediaFiles) + 1 <= MediaLimit
    /\ Unlimited(StorageLimit) \/ Bytes(StoredFiles) + Bytes({f}) <= StorageLimit

MayRestore(f) == closed \/ row[f].kind = "text" \/ Fits(f)

\* The UPDATE holds the row and its triggers count: check_upload_restore_quota,
\* and reassign_album_on_restore, which brings media of a deleted album back to
\* General.  Two restores count at the same time.
RestoreUpload(f) ==
    /\ Deed
    /\ Held(f) /\ row[f].trashed
    /\ MayRestore(f)
    /\ back' = [back EXCEPT ![f] =
                  [on |-> TRUE,
                   album |-> IF row[f].album # NoAlbum /\ album[row[f].album].deleted
                             THEN General ELSE row[f].album,
                   excuse |-> IF closed \/ row[f].kind = "text" THEN "all" ELSE "guest"]]
    /\ UNCHANGED <<host, token, participants, req, row, waived>>

CommitRestore(f) ==
    /\ back[f].on
    /\ LET a == back[f].album
       IN  row' = [row EXCEPT ![f].trashed = FALSE, ![f].album = a,
                              ![f].asked = row[f].size, ![f].excuse = back[f].excuse,
                              ![f].late = a # NoAlbum /\ (a \in deleting \/ album[a].deleted)]
    /\ back' = [OvertakeRestores EXCEPT ![f] = NotBack]
    /\ waived' = waived \cup {row[f].uid}
    /\ req' = Overtake({})
    /\ UNCHANGED <<host, token, participants, deeds>>

FailRestore(f) ==
    /\ back[f].on
    /\ back' = [back EXCEPT ![f] = NotBack]
    /\ UNCHANGED <<host, token, participants, req, row, waived, deeds>>

\* check_upload_album_event: not into a deleted album.
MoveUpload(f, a) ==
    /\ Deed
    /\ Held(f) /\ row[f].album \notin {a, NoAlbum}
    /\ ~album[a].deleted
    /\ row' = [row EXCEPT ![f].album = a, ![f].late = a \in deleting]
    /\ UNCHANGED <<host, token, participants, req, back, waived>>

\* upload Delete by the host, or by the guest when remove_uploads is on
DeleteUpload(f) ==
    /\ Deed
    /\ Held(f)
    /\ row' = [row EXCEPT ![f] = NoRow]
    /\ UNCHANGED <<host, token, participants, req, back, waived>>

CloseEvent ==
    /\ Deed
    /\ ~closed
    /\ closed' = TRUE
    /\ UNCHANGED <<album, deleting, doomed, token, participants, req, row, back, waived>>

-----------------------------------------------------------------------------
Next ==
    \/ \E b \in Browsers : NewGuest(b) \/ ForeignToken(b) \/ RenewToken(b)
    \/ \E b \in Browsers, a \in Albums : GuestOpen(b, a)
    \/ \E r \in Requests, b \in Browsers : EnterUpload(r, b)
    \/ \E r \in Requests : ReadAlbum(r) \/ CheckLimits(r) \/ Insert(r) \/ FailUpload(r)
    \/ \E f \in Uploads : Receive(f) \/ GiveUp(f) \/ Age(f)
    \/ \E f \in Uploads, b \in Browsers : SignBook(f, b)
    \/ \E a \in Albums : EditAlbum(a) \/ BeginDelete(a) \/ CommitDelete(a)
                           \/ RollBackDelete(a)
    \/ \E f \in Uploads : TrashUpload(f) \/ DeleteUpload(f)
    \/ \E f \in Uploads : RestoreUpload(f) \/ CommitRestore(f) \/ FailRestore(f)
    \/ \E f \in Uploads, a \in Albums : MoveUpload(f, a)
    \/ CloseEvent

Spec == Init /\ [][Next]_vars

-----------------------------------------------------------------------------
(* Properties.                                                             *)

TypeOK ==
    /\ closed \in BOOLEAN
    /\ album \in [Albums -> AlbumRow]
    /\ deleting \in SUBSET Albums
    /\ doomed \in SUBSET Uploads
    /\ token \in [Browsers -> [role: {"none", "webanon", "auth"}, uid: Uids \cup {NoUid},
                               ev: {"none", "here", "other"}, al: SUBSET Albums]]
    /\ participants \in SUBSET Uids
    /\ req \in [Requests -> Request]
    /\ row \in [Uploads -> Row]
    /\ back \in [Uploads -> Restore]
    /\ waived \in SUBSET (Uids \cup {NoUid})
    /\ deeds \in 0..MaxDeeds

\* Of some files, the part that the limits were asked for: what a file turns out
\* to weigh beyond its declared size, nobody asked.
GrantedUnits(files) == {p \in Units(files) : p[2] <= row[p[1]].asked}
Granted(files) == Cardinality(GrantedUnits(files))

\* The event's media and storage limits are exceeded only by uploads and restores
\* whose check another one overtook, by files found after their hour had passed,
\* by what is restored in a closed event, and by what files weigh more than was
\* declared: Check_upload_limits and check_upload_restore_quota count alike.
EventWithinLimit ==
    /\ MediaLimit >= 0 =>
          Cardinality({f \in MediaFiles : row[f].excuse # "all"}) <= MediaLimit
    /\ StorageLimit >= 0 =>
          Granted({f \in StoredFiles : row[f].excuse # "all"}) <= StorageLimit

\* Likewise a guest's own limits, which a restored upload is not held to.  The
\* contributors exceed theirs only by guests who once had an upload that nobody
\* checked: after a guestbook entry Has_contributed lets a guest upload, too.
GuestWithinLimit ==
    /\ \A u \in Uids :
          LET mine == {f \in FilesOf(u) : row[f].excuse = "no"}
          IN  /\ GuestMediaLimit >= 0 => Cardinality(mine) <= GuestMediaLimit
              /\ GuestStorageLimit >= 0 => Granted(mine) <= GuestStorageLimit
    /\ GuestCount >= 0 =>
          Cardinality(Contributors \ waived) <= GuestCount

\* album Delete leaves no media in the open (one transaction, "album silinmis
\* ama medya acikta kalmasin"), but for a row that came alive in the album
\* between the transaction's first UPDATE and its commit.
DeletedAlbumIsEmpty ==
    \A f \in Uploads :
        (row[f].st # "none" /\ row[f].album # NoAlbum /\ album[row[f].album].deleted)
            => row[f].trashed \/ row[f].late
=============================================================================
