---------------------------- MODULE Guests_proofs ----------------------------
(***************************************************************************)
(* Proofs about the guests, for any browsers, requests, uploads and albums *)
(* and any limits.                                                         *)
(***************************************************************************)
EXTENDS Guests, FiniteSetTheorems, TLAPS

-----------------------------------------------------------------------------
(* The inductive invariant.                                                *)

\* Why guest u, whose check nobody overtook, may still become a contributor.
RoomFor(u) ==
    GuestCount >= 0 =>
        \/ u \in waived \cup Contributors
        \/ Cardinality(Contributors \ waived) < GuestCount

\* What the answer of the limits is worth until the rows are inserted.
PromiseOK(r) ==
    (req[r].pc = "checked" /\ ~req[r].overtaken) =>
        /\ WithinLimits(req[r].uid, Cardinality(req[r].files),
                        Cardinality(DeclaredUnits(r)))
        /\ RoomFor(req[r].uid)

\* What the restore trigger's answer is worth until the commit.
RestoreOK(f) ==
    (back[f].on /\ back[f].excuse = "guest") => row[f].st = "received" /\ Fits(f)

\* Until its file is found, a row has the size it was declared with.
PendingOK(f) == row[f].st = "pending" => row[f].size = row[f].asked

LimitInv ==
    /\ EventWithinLimit
    /\ GuestWithinLimit
    /\ \A r \in Requests : PromiseOK(r)
    /\ \A f \in Uploads : RestoreOK(f) /\ PendingOK(f)

\* A row in an album whose deletion has begun is held by the deletion, trashed,
\* or late.
AlbumInv ==
    /\ DeletedAlbumIsEmpty
    /\ General \notin deleting /\ ~album[General].deleted
    /\ \A f \in Uploads :
          (row[f].st # "none" /\ row[f].album \in deleting)
              => f \in doomed \/ row[f].trashed \/ row[f].late

IInv == TypeOK /\ LimitInv /\ AlbumInv

-----------------------------------------------------------------------------
(* Types.                                                                  *)

Token == [role: {"none", "webanon", "auth"}, uid: Uids \cup {NoUid},
          ev: {"none", "here", "other"}, al: SUBSET Albums]

\* Nothing to send, no request and no row are among the values of their types.
LEMMA EmptyValues ==
  NoToken \in Token /\ Idle \in Request /\ NoRow \in Row /\ NotBack \in Restore
BY AlbumsAssumption, SizeAssumption
DEF NoToken, Token, Idle, Request, NoRow, Row, NotBack, Restore, Size, Sizes

LEMMA InitTypeOK == Init => TypeOK
<1> SUFFICES ASSUME Init PROVE TypeOK
  OBVIOUS
<1>1. album \in [Albums -> AlbumRow]
  BY DEF Init, AlbumRow
<1>2. token \in [Browsers -> Token]
  BY DEF Init, Token
<1>3. deeds \in 0..MaxDeeds
  BY DeedsAssumption DEF Init
<1> QED
  BY <1>1, <1>2, <1>3, EmptyValues DEF Init, TypeOK, Token

\* What Overtake leaves of a request.
LEMMA OvertakeEffect ==
  ASSUME TypeOK, NEW mine
  PROVE  /\ Overtake(mine) \in [Requests -> Request]
         /\ \A q \in Requests \ mine :
               Overtake(mine)[q].pc = "checked" => Overtake(mine)[q].overtaken
<1>1. \A q \in Requests : [req[q] EXCEPT !.overtaken = TRUE] \in Request
  BY DEF TypeOK, Request
<1>2. \A q \in Requests : req[q] \in Request
  BY DEF TypeOK
<1>3. \A q \in Requests : [req[q] EXCEPT !.overtaken = TRUE].overtaken
  BY DEF TypeOK, Request
<1> QED
  BY <1>1, <1>2, <1>3 DEF Overtake

\* And of a restore.
LEMMA OvertakeRestoresEffect ==
  ASSUME TypeOK
  PROVE  /\ OvertakeRestores \in [Uploads -> Restore]
         /\ \A f \in Uploads : OvertakeRestores[f].excuse = "all"
<1>1. \A f \in Uploads : /\ [back[f] EXCEPT !.excuse = "all"] \in Restore
                         /\ [back[f] EXCEPT !.excuse = "all"].excuse = "all"
  BY DEF TypeOK, Restore
<1> QED
  BY <1>1 DEF OvertakeRestores

\* What a token, a request or the rows may become, each a value of its type.
LEMMA TokenTyped ==
  ASSUME TypeOK, NEW b \in Browsers, NEW t \in Token, token' = [token EXCEPT ![b] = t]
  PROVE  token' \in [Browsers -> Token]
BY DEF TypeOK, Token

LEMMA ReissueTyped ==
  ASSUME NEW t \in Token, NEW opened \in SUBSET Albums
  PROVE  Reissue(t, opened) \in Token
BY DEF Reissue, Token

LEMMA GuestTypeOK ==
  ASSUME TypeOK, NEW b \in Browsers,
         \/ NewGuest(b) \/ ForeignToken(b) \/ RenewToken(b)
         \/ \E a \in Albums : GuestOpen(b, a)
  PROVE  TypeOK'
<1>1. token[b] \in Token
  BY DEF TypeOK, Token
<1>2. CASE NewGuest(b)
  <2>1. PICK u \in Uids :
           /\ token' = [token EXCEPT ![b] = [role |-> "webanon", uid |-> u,
                                             ev |-> "here", al |-> {}]]
           /\ participants' = participants \cup {u} \/ UNCHANGED participants
    BY <1>2 DEF NewGuest
  <2>2. [role |-> "webanon", uid |-> u, ev |-> "here", al |-> {}] \in Token
    BY DEF Token
  <2>3. token' \in [Browsers -> Token]
    BY <2>1, <2>2, TokenTyped
  <2>4. participants' \in SUBSET Uids
    BY <2>1 DEF TypeOK
  <2> QED
    BY <1>2, <2>3, <2>4 DEF NewGuest, TypeOK, Token, host
<1>3. CASE ForeignToken(b)
  <2>1. token' \in [Browsers -> Token]
    BY <1>3, EmptyValues, TokenTyped DEF ForeignToken
  <2> QED
    BY <1>3, <2>1 DEF ForeignToken, TypeOK, Token, host
<1>4. CASE RenewToken(b)
  <2>1. token' = [token EXCEPT ![b] = Reissue(token[b], {})]
    BY <1>4 DEF RenewToken, TypeOK
  <2>2. token' \in [Browsers -> Token]
    BY <1>1, <2>1, ReissueTyped, TokenTyped
  <2> QED
    BY <1>4, <2>2 DEF RenewToken, TypeOK, Token, host
<1>5. CASE \E a \in Albums : GuestOpen(b, a)
  <2>1. PICK a \in Albums : GuestOpen(b, a)
    BY <1>5
  <2>2. token' = [token EXCEPT ![b] = Reissue(token[b], {a})]
    BY <2>1 DEF GuestOpen, TypeOK
  <2>3. token' \in [Browsers -> Token]
    BY <1>1, <2>2, ReissueTyped, TokenTyped
  <2> QED
    BY <2>1, <2>3 DEF GuestOpen, TypeOK, Token, host
<1> QED
  BY <1>2, <1>3, <1>4, <1>5

\* What a guest asks for.
LEMMA EntersWith ==
  ASSUME NEW r \in Requests, NEW b \in Browsers, EnterUpload(r, b)
  PROVE  \E u \in Uids, kind \in Kinds \cap {"photo", "voice"}, files \in SUBSET Uploads,
            a \in Albums \cup {NoAlbum}, sizes \in Sizes :
            /\ GuestEnters(b, u) \/ AccountEnters(b, u)
            /\ req' = [req EXCEPT ![r] =
                         [pc |-> "entered", uid |-> u, al |-> token[b].al, album |-> a,
                          kind |-> kind, files |-> files, sizes |-> sizes,
                          overtaken |-> FALSE]]
<1> DEFINE Asked(u, kind, files, a, sizes) ==
             [pc |-> "entered", uid |-> u, al |-> token[b].al, album |-> a,
              kind |-> kind, files |-> files, sizes |-> sizes, overtaken |-> FALSE]
           Filled(files, declared) ==
             [f \in Uploads |-> IF f \in files THEN declared[f] ELSE 0]
<1>1. PICK u \in Uids :
        /\ GuestEnters(b, u) \/ AccountEnters(b, u)
        /\ \E kind \in Kinds \cap {"photo", "voice"},
              files \in SUBSET {f \in Uploads \ Taken : row[f].st = "none"} \ {{}} :
           \E a \in IF kind = "voice" THEN {NoAlbum} ELSE Albums,
              declared \in [files -> Size] :
              req' = [req EXCEPT ![r] = Asked(u, kind, files, a, Filled(files, declared))]
  BY DEF EnterUpload
<1>2. \A files : \A declared \in [files -> Size] : Filled(files, declared) \in Sizes
  BY SizeAssumption DEF Size, Sizes
<1> HIDE DEF Asked, Filled
<1>3. PICK kind \in Kinds \cap {"photo", "voice"},
           files \in SUBSET {f \in Uploads \ Taken : row[f].st = "none"} \ {{}} :
        \E a \in IF kind = "voice" THEN {NoAlbum} ELSE Albums,
           declared \in [files -> Size] :
           req' = [req EXCEPT ![r] = Asked(u, kind, files, a, Filled(files, declared))]
  BY <1>1
<1>4. PICK a \in IF kind = "voice" THEN {NoAlbum} ELSE Albums,
           declared \in [files -> Size] :
        req' = [req EXCEPT ![r] = Asked(u, kind, files, a, Filled(files, declared))]
  BY <1>3
<1>5. files \in SUBSET Uploads /\ a \in Albums \cup {NoAlbum}
  BY <1>3, <1>4
<1>6. PICK sizes \in Sizes : req' = [req EXCEPT ![r] = Asked(u, kind, files, a, sizes)]
  BY <1>2, <1>4
<1> QED
  BY <1>1, <1>5, <1>6 DEF Asked

LEMMA RequestTyped ==
  ASSUME TypeOK, NEW r \in Requests,
         \/ \E v \in {"allowed", "checked"} : req' = [req EXCEPT ![r].pc = v]
         \/ req' = [req EXCEPT ![r] = Idle]
  PROVE  req' \in [Requests -> Request]
<1>1. \A v \in {"allowed", "checked"} : [req[r] EXCEPT !.pc = v] \in Request
  BY DEF TypeOK, Request
<1> QED
  BY <1>1, EmptyValues DEF TypeOK

LEMMA RequestTypeOK ==
  ASSUME TypeOK, NEW r \in Requests,
         \/ \E b \in Browsers : EnterUpload(r, b)
         \/ ReadAlbum(r) \/ CheckLimits(r) \/ FailUpload(r)
  PROVE  TypeOK'
<1>1. CASE \E b \in Browsers : EnterUpload(r, b)
  <2>1. PICK b \in Browsers : EnterUpload(r, b)
    BY <1>1
  <2>2. PICK u \in Uids, kind \in Kinds \cap {"photo", "voice"}, files \in SUBSET Uploads,
             a \in Albums \cup {NoAlbum}, sizes \in Sizes :
          /\ GuestEnters(b, u) \/ AccountEnters(b, u)
          /\ req' = [req EXCEPT ![r] =
                       [pc |-> "entered", uid |-> u, al |-> token[b].al, album |-> a,
                        kind |-> kind, files |-> files, sizes |-> sizes,
                        overtaken |-> FALSE]]
    BY <2>1, EntersWith
  <2>3. token[b].al \in SUBSET Albums
    BY DEF TypeOK
  <2>4. req' \in [Requests -> Request]
    BY <2>2, <2>3 DEF TypeOK, Request
  <2>5. participants' \in SUBSET Uids
    BY <2>2 DEF GuestEnters, AccountEnters, TypeOK
  <2> QED
    BY <2>1, <2>4, <2>5 DEF EnterUpload, TypeOK, host
<1>2. CASE ReadAlbum(r)
  <2>1. req' \in [Requests -> Request]
    BY <1>2, RequestTyped DEF ReadAlbum
  <2> QED
    BY <1>2, <2>1 DEF ReadAlbum, TypeOK, host
<1>3. CASE CheckLimits(r)
  <2>1. req' \in [Requests -> Request]
    BY <1>3, RequestTyped DEF CheckLimits
  <2> QED
    BY <1>3, <2>1 DEF CheckLimits, TypeOK, host
<1>4. CASE FailUpload(r)
  <2>1. req' \in [Requests -> Request]
    BY <1>4, RequestTyped DEF FailUpload
  <2> QED
    BY <1>4, <2>1 DEF FailUpload, TypeOK, host
<1> QED
  BY <1>1, <1>2, <1>3, <1>4

\* The rows after a step that changes row f alone, field by field.
RowBecomes(f, r) ==
    /\ row' \in [Uploads -> Row]
    /\ row'[f] = r
    /\ \A g \in Uploads \ {f} : row'[g] = row[g]

LEMMA RowTyped ==
  ASSUME TypeOK, NEW f \in Uploads, NEW r \in Row, row' = [row EXCEPT ![f] = r]
  PROVE  RowBecomes(f, r)
BY DEF TypeOK, RowBecomes

LEMMA ReceiveEffect ==
  ASSUME TypeOK, NEW f \in Uploads, Receive(f)
  PROVE  \E r \in Row :
            /\ RowBecomes(f, r)
            /\ r.st = "received" /\ row[f].st \in {"pending", "stale"} /\ f \notin doomed
            /\ r.trashed = row[f].trashed /\ r.kind = row[f].kind /\ r.uid = row[f].uid
            /\ r.album = row[f].album /\ r.asked = row[f].asked /\ r.late = row[f].late
            /\ \/ /\ r.excuse = "all" /\ waived' = waived \cup {row[f].uid}
                  /\ req' = Overtake({}) /\ back' = OvertakeRestores
               \/ /\ row[f].st = "stale" => row[f].trashed
                  /\ r.excuse = row[f].excuse
                  /\ UNCHANGED waived
                  /\ \/ req' = Overtake({}) /\ back' = OvertakeRestores
                     \/ (Counts(f) => r.size <= row[f].size) /\ UNCHANGED <<req, back>>
<1> DEFINE again == row[f].st = "stale" /\ ~row[f].trashed
           e == IF again THEN "all" ELSE row[f].excuse
<1>1. PICK size \in 1..MaxSize :
        /\ row' = [row EXCEPT ![f].st = "received", ![f].size = size, ![f].excuse = e]
        /\ waived' = IF again THEN waived \cup {row[f].uid} ELSE waived
        /\ IF again \/ (Counts(f) /\ size > row[f].size)
           THEN req' = Overtake({}) /\ back' = OvertakeRestores
           ELSE UNCHANGED <<req, back>>
  BY DEF Receive, TypeOK
<1> DEFINE r == [row[f] EXCEPT !.st = "received", !.size = size, !.excuse = e]
<1>2. row[f] \in Row /\ e \in {"no", "guest", "all"} /\ size \in Size
  BY SizeAssumption DEF TypeOK, Row, Size
<1>3. row[f].st \in {"pending", "stale"} /\ f \notin doomed
  BY DEF Receive
<1> HIDE DEF e
<1>4. r \in Row
  BY <1>2 DEF Row
<1>5. row' = [row EXCEPT ![f] = r]
  BY <1>1 DEF TypeOK
<1>6. /\ r.st = "received" /\ r.excuse = e /\ r.trashed = row[f].trashed
      /\ r.kind = row[f].kind /\ r.uid = row[f].uid /\ r.size = size
      /\ r.album = row[f].album /\ r.asked = row[f].asked /\ r.late = row[f].late
  BY <1>2 DEF Row
<1> HIDE DEF r
<1>7. \/ /\ r.excuse = "all" /\ waived' = waived \cup {row[f].uid}
         /\ req' = Overtake({}) /\ back' = OvertakeRestores
      \/ /\ row[f].st = "stale" => row[f].trashed
         /\ r.excuse = row[f].excuse
         /\ UNCHANGED waived
         /\ \/ req' = Overtake({}) /\ back' = OvertakeRestores
            \/ (Counts(f) => r.size <= row[f].size) /\ UNCHANGED <<req, back>>
  <2>1. row[f].size \in Size
    BY <1>2 DEF Row
  <2>2. CASE again
    BY <1>1, <1>6, <2>2 DEF e
  <2>3. CASE ~again
    BY <1>1, <1>2, <1>6, <2>1, <2>3, SizeAssumption DEF e, Size
  <2> QED
    BY <2>2, <2>3
<1> QED
  BY <1>3, <1>4, <1>5, <1>6, <1>7, RowTyped

LEMMA GiveUpEffect ==
  ASSUME TypeOK, NEW f \in Uploads, GiveUp(f) \/ DeleteUpload(f)
  PROVE  /\ RowBecomes(f, NoRow) /\ f \notin doomed
         /\ row[f].st = "received" => ~back[f].on
BY EmptyValues, RowTyped DEF GiveUp, DeleteUpload, Held

LEMMA AgeEffect ==
  ASSUME TypeOK, NEW f \in Uploads, Age(f) \/ TrashUpload(f)
  PROVE  \E r \in Row :
            /\ RowBecomes(f, r)
            /\ r.st = "stale" \/ r.trashed
            /\ r.kind = row[f].kind /\ r.album = row[f].album /\ r.late = row[f].late
            /\ row[f].trashed => r.trashed
            /\ row[f].st # "none" /\ r.st # "pending"
            /\ row[f].st = "received" => ~back[f].on
<1>1. row[f] \in Row
  BY DEF TypeOK
<1>2. CASE Age(f)
  <2> DEFINE r == [row[f] EXCEPT !.st = "stale"]
  <2>1. r \in Row
    BY <1>1 DEF Row
  <2>2. row' = [row EXCEPT ![f] = r]
    BY <1>2 DEF Age, TypeOK
  <2>3. /\ r.st = "stale" /\ r.trashed = row[f].trashed /\ r.kind = row[f].kind
        /\ r.album = row[f].album /\ r.late = row[f].late /\ row[f].st = "pending"
    BY <1>1, <1>2 DEF Row, Age
  <2> HIDE DEF r
  <2> QED
    BY <2>1, <2>2, <2>3, RowTyped
<1>3. CASE TrashUpload(f)
  <2> DEFINE r == [row[f] EXCEPT !.trashed = TRUE]
  <2>1. r \in Row
    BY <1>1 DEF Row
  <2>2. row' = [row EXCEPT ![f] = r]
    BY <1>3 DEF TrashUpload, TypeOK
  <2>3. /\ r.trashed /\ r.kind = row[f].kind /\ row[f].st = "received" /\ ~back[f].on
        /\ r.album = row[f].album /\ r.late = row[f].late /\ r.st = row[f].st
    BY <1>1, <1>3 DEF Row, TrashUpload, Held
  <2> HIDE DEF r
  <2> QED
    BY <2>1, <2>2, <2>3, RowTyped
<1> QED
  BY <1>2, <1>3

LEMMA SignBookEffect ==
  ASSUME TypeOK, NEW f \in Uploads, NEW b \in Browsers, SignBook(f, b)
  PROVE  \E r \in Row :
            /\ RowBecomes(f, r)
            /\ r.kind = "text" /\ r.excuse = "all" /\ r.uid = token[b].uid
            /\ r.album = NoAlbum /\ r.uid \in Uids
            /\ r.st = "received" /\ row[f].st = "none"
            /\ waived' = waived \cup {r.uid}
            /\ req' = Overtake({})
<1> DEFINE r == [NoRow EXCEPT !.st = "received", !.kind = "text",
                              !.uid = token[b].uid, !.excuse = "all"]
<1>1. token[b].uid \in Uids
  BY DEF SignBook, TypeOK
<1>2. r \in Row
  BY <1>1, EmptyValues DEF Row
<1>3. /\ r.kind = "text" /\ r.excuse = "all" /\ r.uid = token[b].uid /\ r.album = NoAlbum
      /\ r.st = "received"
  BY DEF NoRow
<1>4. /\ row' = [row EXCEPT ![f] = r] /\ row[f].st = "none"
      /\ waived' = waived \cup {token[b].uid}
      /\ req' = Overtake({})
  BY DEF SignBook
<1> HIDE DEF r
<1> QED
  BY <1>1, <1>2, <1>3, <1>4, RowTyped

LEMMA RestoreUploadEffect ==
  ASSUME TypeOK, NEW f \in Uploads, RestoreUpload(f)
  PROVE  /\ back' \in [Uploads -> Restore]
         /\ \A g \in Uploads \ {f} : back'[g] = back[g]
         /\ back'[f].excuse = IF closed \/ row[f].kind = "text" THEN "all" ELSE "guest"
         /\ row[f].st = "received" /\ MayRestore(f)
         /\ UNCHANGED <<row, req, waived>>
<1> DEFINE a == IF row[f].album # NoAlbum /\ album[row[f].album].deleted
                THEN General ELSE row[f].album
           e == IF closed \/ row[f].kind = "text" THEN "all" ELSE "guest"
           v == [on |-> TRUE, album |-> a, excuse |-> e]
<1>1. row[f] \in Row
  BY DEF TypeOK
<1>2. a \in Albums \cup {NoAlbum} /\ e \in {"guest", "all"}
  BY <1>1, AlbumsAssumption DEF Row
<1>3. back' = [back EXCEPT ![f] = v]
  BY DEF RestoreUpload
<1>4. /\ row[f].st = "received" /\ MayRestore(f)
      /\ UNCHANGED <<row, req, waived>>
  BY DEF RestoreUpload, Held
<1> HIDE DEF a, e
<1>5. v \in Restore /\ v.excuse = e
  BY <1>2 DEF Restore
<1> HIDE DEF v
<1> QED
  BY <1>3, <1>4, <1>5 DEF e, TypeOK

LEMMA CommitRestoreEffect ==
  ASSUME TypeOK, NEW f \in Uploads, CommitRestore(f)
  PROVE  /\ \E r \in Row :
              /\ RowBecomes(f, r)
              /\ r.st = row[f].st /\ r.kind = row[f].kind /\ r.uid = row[f].uid
              /\ r.size = row[f].size /\ r.asked = row[f].size
              /\ r.excuse = back[f].excuse
              /\ r.album = back[f].album
              /\ r.late = (r.album # NoAlbum /\ (r.album \in deleting \/ album[r.album].deleted))
         /\ waived' = waived \cup {row[f].uid}
         /\ req' = Overtake({})
         /\ back' \in [Uploads -> Restore]
         /\ \A g \in Uploads : back'[g].excuse = "all"
         /\ back[f].on
<1> DEFINE a == back[f].album
           e == back[f].excuse
           l == a # NoAlbum /\ (a \in deleting \/ album[a].deleted)
           r == [row[f] EXCEPT !.trashed = FALSE, !.album = a, !.asked = row[f].size,
                               !.excuse = e, !.late = l]
<1>1. row[f] \in Row /\ back[f] \in Restore
  BY DEF TypeOK
<1>2. /\ a \in Albums \cup {NoAlbum} /\ e \in {"guest", "all"} /\ l \in BOOLEAN
      /\ row[f].size \in Size
  BY <1>1 DEF Row, Restore, TypeOK, AlbumRow
<1>3. row' = [row EXCEPT ![f].trashed = FALSE, ![f].album = a, ![f].asked = row[f].size,
                         ![f].excuse = e, ![f].late = l]
  BY DEF CommitRestore
<1>4. /\ waived' = waived \cup {row[f].uid}
      /\ req' = Overtake({})
      /\ back' = [OvertakeRestores EXCEPT ![f] = NotBack]
      /\ back[f].on
  BY DEF CommitRestore
<1> HIDE DEF a, e, l
<1>5. r \in Row
  BY <1>1, <1>2 DEF Row
<1>6. row' = [row EXCEPT ![f] = r]
  BY <1>3 DEF TypeOK
<1>7. /\ r.st = row[f].st /\ r.kind = row[f].kind /\ r.uid = row[f].uid /\ r.album = a
      /\ r.size = row[f].size /\ r.asked = row[f].size /\ r.excuse = e /\ r.late = l
  BY <1>1 DEF Row
<1>8. NotBack.excuse = "all"
  BY DEF NotBack
<1>9. /\ back' \in [Uploads -> Restore]
      /\ \A g \in Uploads : back'[g].excuse = "all"
  BY <1>4, <1>8, EmptyValues, OvertakeRestoresEffect
<1> HIDE DEF r
<1> QED
  BY <1>4, <1>5, <1>6, <1>7, <1>9, RowTyped DEF a, e, l

LEMMA MoveUploadEffect ==
  ASSUME TypeOK, NEW f \in Uploads, NEW a \in Albums, MoveUpload(f, a)
  PROVE  \E r \in Row :
            /\ RowBecomes(f, r)
            /\ r.st = row[f].st /\ r.trashed = row[f].trashed /\ r.kind = row[f].kind
            /\ r.uid = row[f].uid /\ r.excuse = row[f].excuse
            /\ r.size = row[f].size /\ r.asked = row[f].asked
            /\ r.album = a /\ r.late = (a \in deleting)
            /\ ~album[a].deleted /\ row[f].st # "pending"
            /\ ~back[f].on
<1> DEFINE l == a \in deleting
           r == [row[f] EXCEPT !.album = a, !.late = l]
<1>1. row[f] \in Row /\ l \in BOOLEAN
  BY DEF TypeOK
<1> HIDE DEF l
<1>2. r \in Row
  BY <1>1 DEF Row
<1>3. row' = [row EXCEPT ![f] = r]
  BY DEF MoveUpload, TypeOK, l
<1>4. /\ r.st = row[f].st /\ r.trashed = row[f].trashed /\ r.kind = row[f].kind
      /\ r.uid = row[f].uid /\ r.excuse = row[f].excuse
      /\ r.size = row[f].size /\ r.asked = row[f].asked
      /\ r.album = a /\ r.late = l
  BY <1>1 DEF Row
<1>5. ~album[a].deleted /\ row[f].st # "pending" /\ ~back[f].on
  BY DEF MoveUpload, Held
<1> HIDE DEF r
<1> QED
  BY <1>2, <1>3, <1>4, <1>5, RowTyped DEF l

LEMMA CommitDeleteEffect ==
  ASSUME TypeOK, NEW a \in Albums, CommitDelete(a)
  PROVE  /\ row' \in [Uploads -> Row]
         /\ \A f \in Uploads :
               /\ row'[f].st = row[f].st /\ row'[f].kind = row[f].kind
               /\ row'[f].uid = row[f].uid /\ row'[f].excuse = row[f].excuse
               /\ row'[f].album = row[f].album /\ row'[f].late = row[f].late
               /\ row'[f].size = row[f].size /\ row'[f].asked = row[f].asked
               /\ row'[f].trashed = (row[f].trashed \/ (f \in doomed /\ row[f].album = a))
         /\ album' \in [Albums -> AlbumRow]
         /\ album'[a].deleted
         /\ \A c \in Albums \ {a} : album'[c] = album[c]
<1>1. \A f \in Uploads : row[f] \in Row
  BY DEF TypeOK
<1>2. \A f \in Uploads :
         row'[f] = IF f \in doomed /\ row[f].album = a
                   THEN [row[f] EXCEPT !.trashed = TRUE] ELSE row[f]
  BY DEF CommitDelete
<1>3. \A f \in Uploads : [row[f] EXCEPT !.trashed = TRUE] \in Row
  BY <1>1 DEF Row
<1>4. row' \in [Uploads -> Row]
  BY <1>1, <1>3 DEF CommitDelete
<1>5. album[a] \in AlbumRow /\ [album[a] EXCEPT !.deleted = TRUE] \in AlbumRow
  BY DEF TypeOK, AlbumRow
<1>6. album' = [album EXCEPT ![a] = [album[a] EXCEPT !.deleted = TRUE]]
  BY DEF CommitDelete
<1>7. [album[a] EXCEPT !.deleted = TRUE].deleted
  BY <1>5 DEF AlbumRow
<1>8. \A f \in Uploads :
         /\ row'[f].st = row[f].st /\ row'[f].kind = row[f].kind
         /\ row'[f].uid = row[f].uid /\ row'[f].excuse = row[f].excuse
         /\ row'[f].album = row[f].album /\ row'[f].late = row[f].late
         /\ row'[f].size = row[f].size /\ row'[f].asked = row[f].asked
         /\ row'[f].trashed = (row[f].trashed \/ (f \in doomed /\ row[f].album = a))
  BY <1>1, <1>2 DEF Row
<1> QED
  BY <1>4, <1>5, <1>6, <1>7, <1>8 DEF TypeOK

LEMMA InsertEffect ==
  ASSUME TypeOK, NEW r \in Requests, Insert(r)
  PROVE  /\ row' \in [Uploads -> Row]
         /\ \A f \in Uploads \ req[r].files : row'[f] = row[f]
         /\ \A f \in req[r].files :
               /\ row'[f].st = "pending" /\ ~row'[f].trashed
               /\ row'[f].kind = req[r].kind /\ row'[f].uid = req[r].uid
               /\ row'[f].album = req[r].album
               /\ row'[f].size = req[r].sizes[f] /\ row'[f].asked = req[r].sizes[f]
               /\ row'[f].excuse = IF req[r].overtaken THEN "all" ELSE "no"
               /\ row'[f].late = (req[r].album \in deleting)
         /\ req' \in [Requests -> Request]
         /\ req'[r] = Idle
         /\ \A q \in Requests \ {r} : req'[q].pc = "checked" => req'[q].overtaken
         /\ back' \in [Uploads -> Restore]
         /\ \A f \in Uploads : back'[f].excuse = "all"
         /\ waived' = IF req[r].overtaken THEN waived \cup {req[r].uid} ELSE waived
         /\ req[r].uid \in Uids \cup {NoUid}
<1>1. req[r] \in Request
  BY DEF TypeOK
<1> DEFINE n(f) == [st |-> "pending", trashed |-> FALSE, kind |-> req[r].kind,
                    uid |-> req[r].uid, album |-> req[r].album,
                    size |-> req[r].sizes[f], asked |-> req[r].sizes[f],
                    excuse |-> IF req[r].overtaken THEN "all" ELSE "no",
                    late |-> req[r].album \in deleting]
<1>2. \A f \in Uploads : n(f) \in Row
  <2>1. \A f \in Uploads : req[r].sizes[f] \in Size
    BY <1>1 DEF Request, Sizes
  <2> QED
    BY <1>1, <2>1 DEF Request, Row
<1>3. row' = [f \in Uploads |-> IF f \in req[r].files THEN n(f) ELSE row[f]]
  BY DEF Insert
<1>4. req[r].files \in SUBSET Uploads /\ req[r].uid \in Uids \cup {NoUid}
  BY <1>1 DEF Request
<1>5. \A f \in Uploads :
        /\ n(f).st = "pending" /\ ~n(f).trashed /\ n(f).kind = req[r].kind
        /\ n(f).uid = req[r].uid
        /\ n(f).album = req[r].album /\ n(f).late = (req[r].album \in deleting)
        /\ n(f).size = req[r].sizes[f] /\ n(f).asked = req[r].sizes[f]
        /\ n(f).excuse = IF req[r].overtaken THEN "all" ELSE "no"
  OBVIOUS
<1> HIDE DEF n
<1>6. row' \in [Uploads -> Row]
  BY <1>2, <1>3 DEF TypeOK
<1>7. /\ req' = [Overtake({r}) EXCEPT ![r] = Idle]
      /\ back' = OvertakeRestores
      /\ waived' = IF req[r].overtaken THEN waived \cup {req[r].uid} ELSE waived
  BY DEF Insert
<1>8. /\ req' \in [Requests -> Request]
      /\ req'[r] = Idle
      /\ \A q \in Requests \ {r} : req'[q].pc = "checked" => req'[q].overtaken
  BY <1>7, EmptyValues, OvertakeEffect
<1> QED
  BY <1>3, <1>4, <1>5, <1>6, <1>7, <1>8, OvertakeRestoresEffect

LEMMA DeedTyped == TypeOK /\ Deed => deeds' \in 0..MaxDeeds
BY DeedsAssumption DEF TypeOK, Deed

LEMMA RowsTypeOK ==
  ASSUME TypeOK, NEW f \in Uploads,
         \/ Receive(f) \/ GiveUp(f) \/ Age(f)
         \/ \E b \in Browsers : SignBook(f, b)
         \/ TrashUpload(f) \/ RestoreUpload(f) \/ CommitRestore(f) \/ FailRestore(f)
         \/ DeleteUpload(f)
         \/ \E a \in Albums : MoveUpload(f, a)
  PROVE  TypeOK'
<1>1. CASE Receive(f)
  <2>1. PICK r \in Row :
          /\ RowBecomes(f, r)
          /\ waived' = waived \cup {row[f].uid} \/ UNCHANGED waived
          /\ \/ req' = Overtake({}) /\ back' = OvertakeRestores
             \/ UNCHANGED <<req, back>>
    BY <1>1, ReceiveEffect
  <2>2. /\ req' \in [Requests -> Request]
        /\ back' \in [Uploads -> Restore]
        /\ waived' \in SUBSET (Uids \cup {NoUid})
    BY <2>1, OvertakeEffect, OvertakeRestoresEffect DEF TypeOK, Row
  <2>3. UNCHANGED <<host, token, participants, deeds>>
    BY <1>1 DEF Receive
  <2> QED
    BY <2>1, <2>2, <2>3 DEF RowBecomes, TypeOK, host
<1>2. CASE GiveUp(f) \/ DeleteUpload(f)
  BY <1>2, GiveUpEffect, DeedTyped DEF RowBecomes, GiveUp, DeleteUpload, TypeOK, host
<1>3. CASE Age(f) \/ TrashUpload(f)
  <2>1. PICK r \in Row : RowBecomes(f, r)
    BY <1>3, AgeEffect
  <2> QED
    BY <1>3, <2>1, DeedTyped DEF RowBecomes, Age, TrashUpload, TypeOK, host
<1>4. CASE \E b \in Browsers : SignBook(f, b)
  <2>1. PICK b \in Browsers : SignBook(f, b)
    BY <1>4
  <2>2. PICK r \in Row : /\ RowBecomes(f, r)
                         /\ waived' = waived \cup {r.uid} /\ r.uid \in Uids
                         /\ req' = Overtake({})
    BY <2>1, SignBookEffect
  <2>3. req' \in [Requests -> Request]
    BY <2>2, OvertakeEffect
  <2> QED
    BY <2>1, <2>2, <2>3, DeedTyped DEF RowBecomes, SignBook, TypeOK, host
<1>5. CASE RestoreUpload(f)
  BY <1>5, RestoreUploadEffect, DeedTyped DEF RestoreUpload, TypeOK, host
<1>7. CASE CommitRestore(f)
  <2>1. PICK r \in Row : RowBecomes(f, r)
    BY <1>7, CommitRestoreEffect
  <2>2. /\ req' \in [Requests -> Request]
        /\ back' \in [Uploads -> Restore]
        /\ waived' \in SUBSET (Uids \cup {NoUid})
    BY <1>7, CommitRestoreEffect, OvertakeEffect DEF TypeOK, Row
  <2> QED
    BY <1>7, <2>1, <2>2 DEF RowBecomes, CommitRestore, TypeOK, host
<1>8. CASE FailRestore(f)
  BY <1>8, EmptyValues DEF FailRestore, TypeOK, host
<1>6. CASE \E a \in Albums : MoveUpload(f, a)
  <2>1. PICK a \in Albums : MoveUpload(f, a)
    BY <1>6
  <2>2. PICK r \in Row : RowBecomes(f, r)
    BY <2>1, MoveUploadEffect
  <2> QED
    BY <2>1, <2>2, DeedTyped DEF RowBecomes, MoveUpload, TypeOK, host
<1> QED
  BY <1>1, <1>2, <1>3, <1>4, <1>5, <1>6, <1>7, <1>8

LEMMA AlbumTypeOK ==
  ASSUME TypeOK, NEW a \in Albums,
         EditAlbum(a) \/ BeginDelete(a) \/ CommitDelete(a) \/ RollBackDelete(a)
  PROVE  TypeOK'
<1>1. CASE EditAlbum(a)
  <2>1. PICK new \in Settings : album' = [album EXCEPT ![a].set = new]
    BY <1>1 DEF EditAlbum
  <2>2. album' \in [Albums -> AlbumRow]
    BY <2>1 DEF TypeOK, AlbumRow
  <2> QED
    BY <1>1, <2>2, DeedTyped DEF EditAlbum, TypeOK
<1>2. CASE BeginDelete(a)
  BY <1>2, DeedTyped DEF BeginDelete, TypeOK
<1>3. CASE CommitDelete(a)
  BY <1>3, CommitDeleteEffect DEF CommitDelete, TypeOK
<1>4. CASE RollBackDelete(a)
  BY <1>4 DEF RollBackDelete, TypeOK
<1> QED
  BY <1>1, <1>2, <1>3, <1>4

LEMMA NextTypeOK == TypeOK /\ [Next]_vars => TypeOK'
<1> SUFFICES ASSUME TypeOK, [Next]_vars PROVE TypeOK'
  OBVIOUS
<1>1. CASE \E r \in Requests : Insert(r)
  <2>1. PICK r \in Requests : Insert(r)
    BY <1>1
  <2>2. waived' \in SUBSET (Uids \cup {NoUid})
    BY <2>1, InsertEffect DEF TypeOK
  <2> QED
    BY <2>1, <2>2, InsertEffect DEF Insert, TypeOK, host
<1>2. CASE CloseEvent
  BY <1>2, DeedTyped DEF CloseEvent, TypeOK
<1>3. CASE UNCHANGED vars
  BY <1>3 DEF vars, TypeOK
<1> QED
  BY <1>1, <1>2, <1>3, GuestTypeOK, RequestTypeOK, RowsTypeOK, AlbumTypeOK DEF Next

-----------------------------------------------------------------------------
(* Counting.                                                               *)

\* A part of a finite set is finite and no larger.
LEMMA PartIsNoLarger ==
  ASSUME NEW S, IsFiniteSet(S), NEW T \in SUBSET S
  PROVE  /\ IsFiniteSet(T)
         /\ Cardinality(T) \in Nat /\ Cardinality(S) \in Nat
         /\ Cardinality(T) <= Cardinality(S)
<1>1. IsFiniteSet(T) /\ Cardinality(T) <= Cardinality(S)
  BY FS_Subset
<1> QED
  BY <1>1, FS_CardinalityType

\* A set grows at most by what is added to it.
LEMMA GrowsByAdded ==
  ASSUME NEW S, IsFiniteSet(S), NEW F, IsFiniteSet(F), NEW T \in SUBSET (S \cup F)
  PROVE  Cardinality(T) <= Cardinality(S) + Cardinality(F)
<1>1. /\ IsFiniteSet(S \cup F)
      /\ Cardinality(S \cup F) = Cardinality(S) + Cardinality(F) - Cardinality(S \cap F)
  BY FS_Union
<1>2. Cardinality(S \cap F) \in Nat /\ Cardinality(S) \in Nat
  BY PartIsNoLarger
<1>3. Cardinality(F) \in Nat
  BY FS_CardinalityType
<1>4. Cardinality(T) \in Nat /\ Cardinality(T) <= Cardinality(S \cup F)
  BY <1>1, PartIsNoLarger
<1> QED
  BY <1>1, <1>2, <1>3, <1>4

\* Finitely many uploads have finitely many units of size.
LEMMA AllFinite ==
  /\ \A T \in SUBSET Uploads : IsFiniteSet(T) /\ Cardinality(T) \in Nat
  /\ \A T \in SUBSET (Uploads \X (1..MaxSize)) : IsFiniteSet(T) /\ Cardinality(T) \in Nat
<1>1. IsFiniteSet(1..MaxSize)
  BY SizeAssumption, FS_Interval
<1>2. IsFiniteSet(Uploads \X (1..MaxSize))
  BY <1>1, UploadsAssumption, FS_Product
<1> QED
  BY <1>2, UploadsAssumption, PartIsNoLarger

\* Finitely many uploads have finitely many contributors.
LEMMA ContributorsFinite == IsFiniteSet(Contributors)
<1> DEFINE S == {f \in Uploads : Counts(f)}
           who == [f \in S |-> row[f].uid]
<1>1. IsFiniteSet(S)
  BY UploadsAssumption, PartIsNoLarger
<1>2. who \in Surjection(S, Contributors)
  BY DEF Surjection, Contributors
<1> HIDE DEF S, who
<1> QED
  BY <1>1, <1>2, FS_Surjection

-----------------------------------------------------------------------------
(* The limits of the event and of a guest.                                 *)

\* What a row may become without a look at the limits: one that is not counted,
\* the same with no more granted, or one that is excused with its guest.
Excused(f) ==
    Counts(f)' =>
        \/ /\ Counts(f)
           /\ row'[f].kind = row[f].kind /\ row'[f].uid = row[f].uid
           /\ row'[f].excuse = row[f].excuse
           /\ \A k \in 1..MaxSize : k <= row'[f].size /\ k <= row'[f].asked
                                    => k <= row[f].size /\ k <= row[f].asked
        \/ row'[f].excuse = "all" /\ row'[f].uid \in waived'

LEMMA ContributorsKept ==
  ASSUME waived \subseteq waived', \A f \in Uploads : Excused(f)
  PROVE  (Contributors \ waived)' \subseteq Contributors \ waived
<1> SUFFICES ASSUME NEW u \in (Contributors \ waived)' PROVE u \in Contributors \ waived
  OBVIOUS
<1>1. PICK f \in Uploads : Counts(f)' /\ u = row'[f].uid
  BY DEF Contributors
<1>2. u \notin waived' /\ u \notin waived
  OBVIOUS
<1>3. Counts(f) /\ u = row[f].uid
  BY <1>1, <1>2 DEF Excused
<1> QED
  BY <1>2, <1>3 DEF Contributors

\* The uploads that the limits were asked for.
AskedMedia == {f \in MediaFiles : row[f].excuse # "all"}
AskedFiles == {f \in StoredFiles : row[f].excuse # "all"}
AskedOf(u) == {f \in FilesOf(u) : row[f].excuse = "no"}

LEMMA AskedParts ==
  /\ MediaFiles \in SUBSET Uploads /\ StoredFiles \in SUBSET Uploads
  /\ AskedMedia \subseteq MediaFiles /\ AskedFiles \subseteq StoredFiles
  /\ \A u : FilesOf(u) \in SUBSET StoredFiles /\ AskedOf(u) \subseteq FilesOf(u)
  /\ \A T \in SUBSET Uploads :
        /\ Units(T) \in SUBSET (Uploads \X (1..MaxSize))
        /\ GrantedUnits(T) \in SUBSET Units(T)
BY DEF MediaFiles, StoredFiles, AskedMedia, AskedFiles, FilesOf, AskedOf, Units, GrantedUnits

LEMMA WithinLimitDef ==
  /\ EventWithinLimit <=>
        /\ MediaLimit >= 0 => Cardinality(AskedMedia) <= MediaLimit
        /\ StorageLimit >= 0 => Granted(AskedFiles) <= StorageLimit
  /\ GuestWithinLimit <=>
        /\ \A u \in Uids :
              /\ GuestMediaLimit >= 0 => Cardinality(AskedOf(u)) <= GuestMediaLimit
              /\ GuestStorageLimit >= 0 => Granted(AskedOf(u)) <= GuestStorageLimit
        /\ GuestCount >= 0 => Cardinality(Contributors \ waived) <= GuestCount
BY DEF EventWithinLimit, GuestWithinLimit, AskedMedia, AskedFiles, AskedOf

\* A limit that holds of a finite set holds of its part.
LEMMA PartWithin ==
  ASSUME NEW S, NEW T \in SUBSET S, IsFiniteSet(S), NEW limit \in Int,
         limit >= 0 => Cardinality(S) <= limit
  PROVE  limit >= 0 => Cardinality(T) <= limit
<1>1. /\ Cardinality(T) \in Nat /\ Cardinality(S) \in Nat
      /\ Cardinality(T) <= Cardinality(S)
  BY PartIsNoLarger
<1> QED
  BY <1>1

LEMMA LimitsKept ==
  ASSUME EventWithinLimit, GuestWithinLimit,
         waived \subseteq waived', \A f \in Uploads : Excused(f)
  PROVE  EventWithinLimit' /\ GuestWithinLimit'
<1>1. AskedMedia' \subseteq AskedMedia
  BY DEF Excused, AskedMedia, MediaFiles
<1>2. AskedFiles' \subseteq AskedFiles
  BY DEF Excused, AskedFiles, StoredFiles
<1>3. ASSUME NEW u \in Uids PROVE AskedOf(u)' \subseteq AskedOf(u)
  BY DEF Excused, AskedOf, FilesOf, StoredFiles
<1>4. ASSUME NEW f \in AskedFiles', NEW k \in 1..MaxSize,
             k <= row'[f].size, k <= row'[f].asked
      PROVE  k <= row[f].size /\ k <= row[f].asked
  BY <1>4 DEF Excused, AskedFiles, StoredFiles
<1>5. GrantedUnits(AskedFiles)' \subseteq GrantedUnits(AskedFiles)
  BY <1>2, <1>4 DEF GrantedUnits, Units
<1>6. ASSUME NEW u \in Uids PROVE GrantedUnits(AskedOf(u))' \subseteq GrantedUnits(AskedOf(u))
  <2>1. AskedOf(u)' \subseteq AskedFiles'
    BY DEF AskedOf, AskedFiles, FilesOf
  <2> QED
    BY <1>3, <1>4, <2>1 DEF GrantedUnits, Units
<1>7. /\ (Contributors \ waived)' \subseteq Contributors \ waived
      /\ IsFiniteSet(Contributors \ waived)
  BY ContributorsKept, ContributorsFinite, PartIsNoLarger
<1>8. /\ IsFiniteSet(AskedMedia) /\ IsFiniteSet(GrantedUnits(AskedFiles))
      /\ \A u : IsFiniteSet(AskedOf(u)) /\ IsFiniteSet(GrantedUnits(AskedOf(u)))
  BY AskedParts, AllFinite
<1>9. EventWithinLimit'
  <2>1. MediaLimit >= 0 => Cardinality(AskedMedia') <= MediaLimit
    BY <1>1, <1>8, PartWithin, WithinLimitDef, LimitsAssumption
  <2>2. StorageLimit >= 0 => Cardinality(GrantedUnits(AskedFiles)') <= StorageLimit
    BY <1>5, <1>8, PartWithin, WithinLimitDef, LimitsAssumption DEF Granted
  <2> QED
    BY <2>1, <2>2 DEF EventWithinLimit, AskedMedia, AskedFiles, Granted
<1>10. ASSUME NEW u \in Uids
       PROVE  /\ GuestMediaLimit >= 0 => Cardinality(AskedOf(u)') <= GuestMediaLimit
              /\ GuestStorageLimit >= 0 =>
                    Cardinality(GrantedUnits(AskedOf(u))') <= GuestStorageLimit
  <2>1. GuestMediaLimit >= 0 => Cardinality(AskedOf(u)') <= GuestMediaLimit
    BY <1>3, <1>8, PartWithin, WithinLimitDef, LimitsAssumption
  <2>2. GuestStorageLimit >= 0 =>
           Cardinality(GrantedUnits(AskedOf(u))') <= GuestStorageLimit
    BY <1>6, <1>8, PartWithin, WithinLimitDef, LimitsAssumption DEF Granted
  <2> QED
    BY <2>1, <2>2
<1>11. GuestCount >= 0 => Cardinality((Contributors \ waived)') <= GuestCount
  BY <1>7, PartWithin, WithinLimitDef, LimitsAssumption
<1>12. GuestWithinLimit'
  BY <1>10, <1>11 DEF GuestWithinLimit, AskedOf, Granted
<1> QED
  BY <1>9, <1>12

\* A file that is counted was counted before, for the same guest and no smaller ...
FewerFiles(f) ==
    (Counts(f)' /\ row'[f].kind # "text") =>
        /\ Counts(f)
        /\ row'[f].kind = row[f].kind /\ row'[f].uid = row[f].uid
        /\ \A k \in 1..MaxSize : k <= row'[f].size => k <= row[f].size

\* ... and so was a contributor.
Fewer(f) ==
    /\ FewerFiles(f)
    /\ Counts(f)' => Counts(f) /\ row'[f].uid = row[f].uid

LEMMA FewerCounted ==
  ASSUME \A f \in Uploads : FewerFiles(f)
  PROVE  /\ MediaFiles' \subseteq MediaFiles /\ StoredFiles' \subseteq StoredFiles
         /\ Units(StoredFiles)' \subseteq Units(StoredFiles)
         /\ \A u : /\ FilesOf(u)' \subseteq FilesOf(u)
                   /\ Units(FilesOf(u))' \subseteq Units(FilesOf(u))
         /\ Cardinality(MediaFiles') <= Cardinality(MediaFiles)
         /\ Bytes(StoredFiles)' <= Bytes(StoredFiles)
<1>1. MediaFiles' \subseteq MediaFiles /\ StoredFiles' \subseteq StoredFiles
  BY DEF FewerFiles, MediaFiles, StoredFiles
<1>2. ASSUME NEW f \in StoredFiles', NEW k \in 1..MaxSize, k <= row'[f].size
      PROVE  k <= row[f].size
  BY <1>2 DEF FewerFiles, StoredFiles
<1>3. Units(StoredFiles)' \subseteq Units(StoredFiles)
  BY <1>1, <1>2 DEF Units
<1>4. ASSUME NEW u
      PROVE  /\ FilesOf(u)' \subseteq FilesOf(u)
             /\ Units(FilesOf(u))' \subseteq Units(FilesOf(u))
  <2>1. FilesOf(u)' \subseteq FilesOf(u) /\ FilesOf(u)' \subseteq StoredFiles'
    BY DEF FewerFiles, FilesOf, StoredFiles
  <2> QED
    BY <1>2, <2>1 DEF Units
<1>5. IsFiniteSet(MediaFiles) /\ IsFiniteSet(Units(StoredFiles))
  BY AskedParts, AllFinite
<1>6. /\ Cardinality(MediaFiles') <= Cardinality(MediaFiles)
      /\ Cardinality(Units(StoredFiles)') <= Cardinality(Units(StoredFiles))
  BY <1>1, <1>3, <1>5, PartIsNoLarger
<1> QED
  BY <1>1, <1>3, <1>4, <1>6 DEF Bytes

\* Of a promise nothing is lost while nothing more is counted.
LEMMA PromiseKept ==
  ASSUME TypeOK, GuestWithinLimit, NEW r \in Requests, PromiseOK(r),
         req'[r] = req[r], UNCHANGED waived, \A f \in Uploads : Fewer(f)
  PROVE  PromiseOK(r)'
<1> SUFFICES ASSUME req[r].pc = "checked", ~req[r].overtaken
             PROVE  /\ WithinLimits(req[r].uid, Cardinality(req[r].files),
                                    Cardinality(DeclaredUnits(r)))'
                    /\ RoomFor(req[r].uid)'
  BY DEF PromiseOK
<1> DEFINE u == req[r].uid
           n == Cardinality(req[r].files)
           bytes == Cardinality(DeclaredUnits(r))
<1>1. req[r].files \in SUBSET Uploads
  BY DEF TypeOK, Request
<1>2. DeclaredUnits(r) \in SUBSET (Uploads \X (1..MaxSize))
  BY <1>1 DEF DeclaredUnits
<1>3. n \in Nat /\ bytes \in Nat
  BY <1>1, <1>2, AllFinite
<1>4. WithinLimits(u, n, bytes) /\ RoomFor(u)
  BY DEF PromiseOK
<1>5. u' = u /\ n' = n /\ bytes' = bytes
  BY DEF DeclaredUnits
<1> HIDE DEF u, n, bytes
<1>6. \A T : T \in SUBSET MediaFiles => Cardinality(T) \in Nat /\ Cardinality(T) <= Cardinality(MediaFiles)
  BY AskedParts, AllFinite, PartIsNoLarger
<1>7. \A T : T \in SUBSET Units(StoredFiles) =>
               Cardinality(T) \in Nat /\ Cardinality(T) <= Cardinality(Units(StoredFiles))
  BY AskedParts, AllFinite, PartIsNoLarger
<1>8. \A T : T \in SUBSET FilesOf(u) =>
               Cardinality(T) \in Nat /\ Cardinality(T) <= Cardinality(FilesOf(u))
  BY AskedParts, AllFinite, PartIsNoLarger
<1>9. \A T : T \in SUBSET Units(FilesOf(u)) =>
               Cardinality(T) \in Nat /\ Cardinality(T) <= Cardinality(Units(FilesOf(u)))
  <2>1. FilesOf(u) \in SUBSET Uploads
    BY AskedParts
  <2>2. IsFiniteSet(Units(FilesOf(u)))
    BY <2>1, AskedParts, AllFinite
  <2> QED
    BY <2>2, PartIsNoLarger
<1>10. /\ MediaFiles' \subseteq MediaFiles /\ Units(StoredFiles)' \subseteq Units(StoredFiles)
       /\ FilesOf(u)' \subseteq FilesOf(u) /\ Units(FilesOf(u))' \subseteq Units(FilesOf(u))
       /\ Contributors' \subseteq Contributors
  BY <1>5, FewerCounted DEF Fewer, Contributors
<1>11. WithinLimits(u, n, bytes)'
  <2>1. /\ Cardinality(MediaFiles') \in Nat /\ Cardinality(MediaFiles) \in Nat
        /\ Cardinality(MediaFiles') <= Cardinality(MediaFiles)
    BY <1>6, <1>10
  <2>2. /\ Bytes(StoredFiles)' \in Nat /\ Bytes(StoredFiles) \in Nat
        /\ Bytes(StoredFiles)' <= Bytes(StoredFiles)
    BY <1>7, <1>10 DEF Bytes
  <2>3. /\ Cardinality(FilesOf(u)') \in Nat /\ Cardinality(FilesOf(u)) \in Nat
        /\ Cardinality(FilesOf(u)') <= Cardinality(FilesOf(u))
    BY <1>8, <1>10
  <2>4. /\ Bytes(FilesOf(u))' \in Nat /\ Bytes(FilesOf(u)) \in Nat
        /\ Bytes(FilesOf(u))' <= Bytes(FilesOf(u))
    BY <1>9, <1>10 DEF Bytes
  <2> QED
    BY <1>3, <1>4, <1>5, <2>1, <2>2, <2>3, <2>4, LimitsAssumption DEF WithinLimits, Unlimited
<1>12. RoomFor(u)'
  <2> SUFFICES ASSUME GuestCount >= 0, u \notin waived, u \notin Contributors'
               PROVE  Cardinality((Contributors \ waived)') < GuestCount
    BY <1>5 DEF RoomFor
  <2> DEFINE C == Contributors \ waived
  <2>2. IsFiniteSet(C) /\ IsFiniteSet(C \ {u}) /\ Cardinality(C \ {u}) \in Nat
        /\ Cardinality(C) \in Nat
    BY ContributorsFinite, PartIsNoLarger, FS_RemoveElement
  <2>3. C' \subseteq C /\ C' \subseteq C \ {u}
    BY <1>10
  <2>4. /\ Cardinality(C') \in Nat /\ Cardinality(C') <= Cardinality(C)
        /\ Cardinality(C') <= Cardinality(C \ {u})
    BY <2>2, <2>3, PartIsNoLarger
  <2>5. CASE u \in C
    <3>1. Cardinality(C) <= GuestCount
      BY DEF GuestWithinLimit
    <3>2. Cardinality(C \ {u}) = Cardinality(C) - 1
      BY <2>2, <2>5, FS_RemoveElement
    <3> QED
      BY <2>2, <2>4, <3>1, <3>2, LimitsAssumption
  <2>6. CASE u \notin C
    <3>1. Cardinality(C) < GuestCount
      BY <1>4, <2>6 DEF RoomFor
    <3> QED
      BY <2>2, <2>4, <3>1, LimitsAssumption
  <2> QED
    BY <2>5, <2>6
<1> QED
  BY <1>11, <1>12 DEF u, n, bytes

\* A restore that the trigger has let through waits for its commit, if it was
\* waiting before, and its row is left alone.
Waits(f) ==
    (back'[f].on /\ back'[f].excuse = "guest") =>
        /\ back[f].on /\ back[f].excuse = "guest"
        /\ row[f].st = "received" =>
              row'[f].st = row[f].st /\ row'[f].kind = row[f].kind /\ row'[f].size = row[f].size

\* Likewise of a restore's answer.
LEMMA RestoreKept ==
  ASSUME NEW f \in Uploads, RestoreOK(f), Waits(f), \A g \in Uploads : FewerFiles(g)
  PROVE  RestoreOK(f)'
<1> SUFFICES ASSUME back'[f].on, back'[f].excuse = "guest"
             PROVE  row'[f].st = "received" /\ Fits(f)'
  BY DEF RestoreOK
<1>1. /\ row[f].st = "received" /\ Fits(f)
      /\ row'[f].st = row[f].st /\ row'[f].kind = row[f].kind /\ row'[f].size = row[f].size
  BY DEF RestoreOK, Waits
<1>2. Units({f})' = Units({f})
  BY <1>1 DEF Units
<1>3. /\ Cardinality(MediaFiles') <= Cardinality(MediaFiles)
      /\ Bytes(StoredFiles)' <= Bytes(StoredFiles)
      /\ MediaFiles' \subseteq MediaFiles /\ Units(StoredFiles)' \subseteq Units(StoredFiles)
  BY FewerCounted
<1>4. /\ Cardinality(MediaFiles) \in Nat /\ Cardinality(MediaFiles') \in Nat
      /\ Bytes(StoredFiles) \in Nat /\ Bytes(StoredFiles)' \in Nat /\ Bytes({f}) \in Nat
  <2>1. /\ MediaFiles \in SUBSET Uploads /\ MediaFiles' \in SUBSET Uploads
        /\ Units(StoredFiles) \in SUBSET (Uploads \X (1..MaxSize))
        /\ Units(StoredFiles)' \in SUBSET (Uploads \X (1..MaxSize))
        /\ Units({f}) \in SUBSET (Uploads \X (1..MaxSize))
    BY <1>3, AskedParts
  <2> QED
    BY <2>1, AllFinite DEF Bytes
<1>5. Bytes({f})' = Bytes({f})
  BY <1>2 DEF Bytes
<1>6. Fits(f)'
  BY <1>1, <1>3, <1>4, <1>5, LimitsAssumption DEF Fits, Unlimited
<1> QED
  BY <1>1, <1>6

\* What is checked and fits is promised.
LEMMA CheckPromises ==
  ASSUME TypeOK, NEW u, MayContribute(u)
  PROVE  RoomFor(u)
<1> SUFFICES ASSUME GuestCount >= 0, u \notin Contributors
             PROVE  Cardinality(Contributors \ waived) < GuestCount
  BY DEF RoomFor
<1>1. Cardinality(Contributors) < GuestCount
  BY LimitsAssumption DEF MayContribute, RoomForContributor
<1>2. /\ Cardinality(Contributors \ waived) <= Cardinality(Contributors)
      /\ Cardinality(Contributors \ waived) \in Nat /\ Cardinality(Contributors) \in Nat
  BY ContributorsFinite, PartIsNoLarger
<1> QED
  BY <1>1, <1>2, LimitsAssumption

\* A step that leaves every count as it is or lowers it.
LEMMA FewerLimitInv ==
  ASSUME TypeOK, LimitInv, UNCHANGED waived, \A f \in Uploads : Fewer(f) /\ Excused(f),
         \A f \in Uploads : Waits(f) /\ PendingOK(f)',
         \A r \in Requests : req'[r] = req[r] \/ req'[r].pc # "checked"
  PROVE  LimitInv'
<1>1. EventWithinLimit' /\ GuestWithinLimit'
  BY LimitsKept DEF LimitInv
<1>2. \A r \in Requests : PromiseOK(r)'
  <2> SUFFICES ASSUME NEW r \in Requests PROVE PromiseOK(r)'
    OBVIOUS
  <2>1. CASE req'[r] = req[r]
    BY <2>1, PromiseKept DEF LimitInv
  <2>2. CASE req'[r].pc # "checked"
    BY <2>2 DEF PromiseOK
  <2> QED
    BY <2>1, <2>2
<1>3. \A f \in Uploads : RestoreOK(f)'
  BY RestoreKept DEF LimitInv, Fewer
<1> QED
  BY <1>1, <1>2, <1>3 DEF LimitInv

\* A step that excuses what it brings, and overtakes the promises there are.
LEMMA ExcusedLimitInv ==
  ASSUME TypeOK, LimitInv, waived \subseteq waived', \A f \in Uploads : Excused(f),
         \A f \in Uploads : back'[f].excuse = "all" /\ PendingOK(f)',
         \A r \in Requests : req'[r].pc = "checked" => req'[r].overtaken
  PROVE  LimitInv'
BY LimitsKept DEF LimitInv, PromiseOK, RestoreOK

\* A step that leaves the rows alone, and takes no promise from the limits.
LEMMA RowsStay ==
  ASSUME TypeOK, LimitInv, UNCHANGED <<row, waived>>,
         \A f \in Uploads : back'[f] = back[f] \/ ~back'[f].on,
         \A r \in Requests : req'[r] = req[r] \/ req'[r].pc # "checked"
  PROVE  LimitInv'
<1>1. \A f \in Uploads : Fewer(f) /\ Excused(f) /\ Waits(f)
  BY DEF Fewer, FewerFiles, Excused, Counts, Waits
<1>2. \A f \in Uploads : PendingOK(f)'
  BY DEF LimitInv, PendingOK
<1> QED
  BY <1>1, <1>2, FewerLimitInv

LEMMA CheckLimitsLimitInv ==
  ASSUME TypeOK, LimitInv, NEW r \in Requests, CheckLimits(r)
  PROVE  LimitInv'
<1>1. UNCHANGED <<row, back, waived>>
  BY DEF CheckLimits
<1>3. \A q \in Requests \ {r} : req'[q] = req[q]
  BY DEF CheckLimits, TypeOK
<1>4. CASE req' = [req EXCEPT ![r] = Idle]
  <2>1. req'[r].pc # "checked"
    BY <1>4 DEF Idle, TypeOK
  <2> QED
    BY <1>1, <1>3, <2>1, RowsStay
<1>5. CASE ~(req' = [req EXCEPT ![r] = Idle])
  <2>1. /\ WithinLimits(req[r].uid, Cardinality(req[r].files), Cardinality(DeclaredUnits(r)))
        /\ MayContribute(req[r].uid)
        /\ req' = [req EXCEPT ![r].pc = "checked"]
    BY <1>5 DEF CheckLimits
  <2>2. req'[r].uid = req[r].uid /\ req'[r].files = req[r].files /\ req'[r].sizes = req[r].sizes
    BY <2>1 DEF TypeOK, Request
  <2>3. RoomFor(req[r].uid)
    BY <2>1, CheckPromises
  <2>4. PromiseOK(r)'
    <3>1. /\ MediaFiles' = MediaFiles /\ StoredFiles' = StoredFiles
          /\ Contributors' = Contributors
      BY <1>1 DEF MediaFiles, StoredFiles, Contributors, Counts
    <3>2. FilesOf(req[r].uid)' = FilesOf(req[r].uid) /\ DeclaredUnits(r)' = DeclaredUnits(r)
      BY <1>1, <2>2, <3>1 DEF FilesOf, DeclaredUnits
    <3>3. /\ Bytes(StoredFiles)' = Bytes(StoredFiles)
          /\ Bytes(FilesOf(req[r].uid))' = Bytes(FilesOf(req[r].uid))
      BY <1>1, <3>1, <3>2 DEF Bytes, Units
    <3>4. WithinLimits(req[r].uid, Cardinality(req[r].files), Cardinality(DeclaredUnits(r)))'
      BY <2>1, <2>2, <3>1, <3>2, <3>3 DEF WithinLimits
    <3>5. RoomFor(req[r].uid)'
      BY <1>1, <2>2, <2>3, <3>1 DEF RoomFor
    <3> QED
      BY <3>4, <3>5 DEF PromiseOK
  <2>5. \A f \in Uploads : Fewer(f) /\ Excused(f) /\ Waits(f)
    BY <1>1 DEF Fewer, FewerFiles, Excused, Counts, Waits
  <2>6. \A q \in Requests \ {r} : PromiseOK(q)'
    BY <1>1, <1>3, <2>5, PromiseKept DEF LimitInv
  <2>7. EventWithinLimit' /\ GuestWithinLimit'
    BY <1>1, <2>5, LimitsKept DEF LimitInv
  <2>8. \A f \in Uploads : RestoreOK(f)' /\ PendingOK(f)'
    BY <1>1, <2>5, RestoreKept DEF LimitInv, PendingOK, Fewer
  <2> QED
    BY <2>4, <2>6, <2>7, <2>8 DEF LimitInv
<1> QED
  BY <1>4, <1>5

\* The rows that a promise pays for.
LEMMA PromisedInsert ==
  ASSUME TypeOK, LimitInv, NEW r \in Requests, Insert(r), ~req[r].overtaken
  PROVE  EventWithinLimit' /\ GuestWithinLimit'
<1> DEFINE u == req[r].uid
           files == req[r].files
           units == DeclaredUnits(r)
           C == Contributors \ waived
<1>1. files \in SUBSET Uploads /\ units \in SUBSET (Uploads \X (1..MaxSize))
  BY DEF TypeOK, Request, DeclaredUnits
<1>2. /\ IsFiniteSet(files) /\ Cardinality(files) \in Nat
      /\ IsFiniteSet(units) /\ Cardinality(units) \in Nat
  BY <1>1, AllFinite
<1>3. WithinLimits(u, Cardinality(files), Cardinality(units)) /\ RoomFor(u)
  BY DEF LimitInv, PromiseOK, Insert
<1>4. UNCHANGED waived
  BY InsertEffect
<1>5. \A f \in files : row'[f].uid = u /\ row'[f].size = req[r].sizes[f]
  BY InsertEffect
<1>6. \A f \in Uploads \ files : row'[f] = row[f]
  BY InsertEffect
<1>7. \A f \in files, k \in 1..MaxSize : k <= row'[f].size => <<f, k>> \in units
  BY <1>5 DEF DeclaredUnits
<1> HIDE DEF u, files, units
<1>8. ASSUME NEW S, IsFiniteSet(S), NEW F, IsFiniteSet(F), NEW T \in SUBSET (S \cup F),
             NEW limit \in Int, Cardinality(S) + Cardinality(F) <= limit
      PROVE  Cardinality(T) <= limit
  <2>1. Cardinality(S) \in Nat /\ Cardinality(F) \in Nat
    BY <1>8, FS_CardinalityType
  <2>2. IsFiniteSet(S \cup F)
    BY <1>8, FS_Union
  <2>3. Cardinality(T) \in Nat
    BY <2>2, PartIsNoLarger
  <2>4. Cardinality(T) <= Cardinality(S) + Cardinality(F)
    BY <1>8, GrowsByAdded
  <2> QED
    BY <1>8, <2>1, <2>3, <2>4
<1>9. /\ IsFiniteSet(MediaFiles) /\ IsFiniteSet(Units(StoredFiles))
      /\ \A v : IsFiniteSet(FilesOf(v)) /\ IsFiniteSet(Units(FilesOf(v)))
      /\ \A v : IsFiniteSet(AskedOf(v)) /\ IsFiniteSet(GrantedUnits(AskedOf(v)))
  BY AskedParts, AllFinite
<1>10. MediaLimit >= 0 => Cardinality(AskedMedia') <= MediaLimit
  <2> SUFFICES ASSUME MediaLimit >= 0 PROVE Cardinality(AskedMedia') <= MediaLimit
    OBVIOUS
  <2>1. AskedMedia' \in SUBSET (MediaFiles \cup files)
    BY <1>6 DEF AskedMedia, MediaFiles, Counts
  <2>2. Cardinality(MediaFiles) + Cardinality(files) <= MediaLimit
    BY <1>3, LimitsAssumption DEF WithinLimits
  <2> QED
    BY <1>2, <1>8, <1>9, <2>1, <2>2, LimitsAssumption
<1>11. StorageLimit >= 0 => Cardinality(GrantedUnits(AskedFiles)') <= StorageLimit
  <2> SUFFICES ASSUME StorageLimit >= 0
               PROVE  Cardinality(GrantedUnits(AskedFiles)') <= StorageLimit
    OBVIOUS
  <2>1. \A f \in AskedFiles' : f \in Uploads /\ (f \notin files => f \in StoredFiles)
    BY <1>6 DEF AskedFiles, StoredFiles, Counts
  <2>2. GrantedUnits(AskedFiles)' \in SUBSET (Units(StoredFiles) \cup units)
    BY <1>6, <1>7, <2>1 DEF GrantedUnits, Units
  <2>3. Cardinality(Units(StoredFiles)) + Cardinality(units) <= StorageLimit
    BY <1>3, LimitsAssumption DEF WithinLimits, Unlimited, Bytes
  <2> QED
    BY <1>2, <1>8, <1>9, <2>2, <2>3, LimitsAssumption
<1>12. ASSUME NEW v \in Uids
       PROVE  /\ GuestMediaLimit >= 0 => Cardinality(AskedOf(v)') <= GuestMediaLimit
              /\ GuestStorageLimit >= 0 =>
                    Cardinality(GrantedUnits(AskedOf(v))') <= GuestStorageLimit
  <2>1. \A f \in AskedOf(v)' :
           /\ f \in Uploads /\ (f \notin files => f \in AskedOf(v))
           /\ f \in files => v = u
    BY <1>5, <1>6 DEF AskedOf, FilesOf, StoredFiles, Counts
  <2>2. AskedOf(v) \subseteq FilesOf(v)
    BY AskedParts
  <2>3. CASE v = u
    <3>1. AskedOf(v)' \in SUBSET (FilesOf(u) \cup files)
      BY <2>1, <2>2, <2>3
    <3>2. GrantedUnits(AskedOf(v))' \in SUBSET (Units(FilesOf(u)) \cup units)
      BY <1>6, <1>7, <2>1, <2>2, <2>3 DEF GrantedUnits, Units
    <3>3. GuestMediaLimit >= 0 =>
             Cardinality(FilesOf(u)) + Cardinality(files) <= GuestMediaLimit
      BY <1>3, LimitsAssumption DEF WithinLimits, Unlimited
    <3>4. GuestStorageLimit >= 0 =>
             Cardinality(Units(FilesOf(u))) + Cardinality(units) <= GuestStorageLimit
      BY <1>3, LimitsAssumption DEF WithinLimits, Unlimited, Bytes
    <3>5. GuestMediaLimit >= 0 => Cardinality(AskedOf(v)') <= GuestMediaLimit
      BY <1>2, <1>8, <1>9, <3>1, <3>3, LimitsAssumption
    <3>6. GuestStorageLimit >= 0 =>
             Cardinality(GrantedUnits(AskedOf(v))') <= GuestStorageLimit
      BY <1>2, <1>8, <1>9, <3>2, <3>4, LimitsAssumption
    <3> QED
      BY <3>5, <3>6
  <2>4. CASE v # u
    <3>1. AskedOf(v)' \in SUBSET AskedOf(v)
      BY <2>1, <2>4
    <3>2. GrantedUnits(AskedOf(v))' \in SUBSET GrantedUnits(AskedOf(v))
      BY <1>6, <2>1, <2>4, <3>1 DEF GrantedUnits, Units
    <3>3. /\ GuestMediaLimit >= 0 => Cardinality(AskedOf(v)) <= GuestMediaLimit
          /\ GuestStorageLimit >= 0 =>
                Cardinality(GrantedUnits(AskedOf(v))) <= GuestStorageLimit
      BY WithinLimitDef DEF LimitInv, Granted
    <3>4. GuestMediaLimit >= 0 => Cardinality(AskedOf(v)') <= GuestMediaLimit
      BY <1>9, <3>1, <3>3, PartWithin, LimitsAssumption
    <3>5. GuestStorageLimit >= 0 =>
             Cardinality(GrantedUnits(AskedOf(v))') <= GuestStorageLimit
      BY <1>9, <3>2, <3>3, PartWithin, LimitsAssumption
    <3> QED
      BY <3>4, <3>5
  <2> QED
    BY <2>3, <2>4
<1>13. ASSUME GuestCount >= 0
       PROVE  Cardinality(C') <= GuestCount
  <2>1. C' \subseteq C \cup {u} /\ (u \in waived \cup Contributors => C' \subseteq C)
    BY <1>4, <1>5, <1>6 DEF Contributors, Counts
  <2>2. Cardinality(C) <= GuestCount
    BY <1>13 DEF LimitInv, GuestWithinLimit
  <2>3. IsFiniteSet(C) /\ Cardinality(C) \in Nat
    BY ContributorsFinite, PartIsNoLarger
  <2>4. CASE u \in waived \cup Contributors
    BY <2>1, <2>2, <2>3, <2>4, PartIsNoLarger, LimitsAssumption
  <2>5. CASE u \notin waived \cup Contributors
    <3>1. Cardinality(C) < GuestCount
      BY <1>3, <1>13, <2>5 DEF RoomFor
    <3>2. /\ IsFiniteSet(C \cup {u}) /\ Cardinality(C \cup {u}) = Cardinality(C) + 1
      BY <2>3, <2>5, FS_AddElement DEF C
    <3>3. Cardinality(C') <= Cardinality(C \cup {u}) /\ Cardinality(C') \in Nat
      BY <2>1, <3>2, PartIsNoLarger
    <3> QED
      BY <2>3, <3>1, <3>2, <3>3, LimitsAssumption
  <2> QED
    BY <2>4, <2>5
<1>14. EventWithinLimit'
  BY <1>10, <1>11 DEF EventWithinLimit, AskedMedia, AskedFiles, Granted
<1>15. GuestWithinLimit'
  BY <1>12, <1>13 DEF GuestWithinLimit, AskedOf, Granted
<1> QED
  BY <1>14, <1>15

LEMMA InsertLimitInv ==
  ASSUME TypeOK, LimitInv, NEW r \in Requests, Insert(r)
  PROVE  LimitInv'
<1>1. \A q \in Requests : req'[q].pc = "checked" => req'[q].overtaken
  BY InsertEffect DEF Idle
<1>2. \A f \in Uploads : back'[f].excuse = "all" /\ PendingOK(f)'
  BY InsertEffect DEF PendingOK, LimitInv
<1>3. CASE req[r].overtaken
  <2>1. \A f \in Uploads : Excused(f)
    <3> SUFFICES ASSUME NEW f \in Uploads PROVE Excused(f)
      OBVIOUS
    <3>1. CASE f \in req[r].files
      BY <1>3, <3>1, InsertEffect DEF Excused
    <3>2. CASE f \notin req[r].files
      BY <3>2, InsertEffect DEF Excused, Counts
    <3> QED
      BY <3>1, <3>2
  <2>2. waived \subseteq waived'
    BY <1>3, InsertEffect
  <2> QED
    BY <1>1, <1>2, <2>1, <2>2, ExcusedLimitInv
<1>4. CASE ~req[r].overtaken
  <2>1. EventWithinLimit' /\ GuestWithinLimit'
    BY <1>4, PromisedInsert
  <2> QED
    BY <1>1, <1>2, <2>1 DEF LimitInv, PromiseOK, RestoreOK
<1> QED
  BY <1>3, <1>4

\* The trigger lets a restore through if the file fits, or the event is closed.
LEMMA RestoreUploadLimitInv ==
  ASSUME TypeOK, LimitInv, NEW f \in Uploads, RestoreUpload(f)
  PROVE  LimitInv'
<1>1. /\ \A g \in Uploads \ {f} : back'[g] = back[g]
      /\ back'[f].excuse = IF closed \/ row[f].kind = "text" THEN "all" ELSE "guest"
      /\ row[f].st = "received" /\ MayRestore(f)
      /\ UNCHANGED <<row, req, waived>>
  BY RestoreUploadEffect
<1>2. \A g \in Uploads : Fewer(g) /\ Excused(g)
  BY <1>1 DEF Fewer, FewerFiles, Excused, Counts
<1>3. EventWithinLimit' /\ GuestWithinLimit'
  BY <1>1, <1>2, LimitsKept DEF LimitInv
<1>4. \A r \in Requests : PromiseOK(r)'
  BY <1>1, <1>2, PromiseKept DEF LimitInv
<1>5. \A g \in Uploads : PendingOK(g)'
  BY <1>1 DEF LimitInv, PendingOK
<1>6. \A g \in Uploads \ {f} : RestoreOK(g)'
  <2>1. \A g \in Uploads \ {f} : Waits(g)
    BY <1>1 DEF Waits
  <2> QED
    BY <1>2, <2>1, RestoreKept DEF LimitInv, Fewer
<1>7. RestoreOK(f)'
  <2> SUFFICES ASSUME back'[f].excuse = "guest" PROVE row'[f].st = "received" /\ Fits(f)'
    BY DEF RestoreOK
  <2>1. Fits(f)
    BY <1>1 DEF MayRestore
  <2>2. Fits(f)'
    BY <1>1, <2>1 DEF Fits, MediaFiles, StoredFiles, Counts, Bytes, Units
  <2> QED
    BY <1>1, <2>2
<1> QED
  BY <1>3, <1>4, <1>5, <1>6, <1>7 DEF LimitInv

\* The upload that a restore brings back fits still, if nothing overtook it.
LEMMA CommitRestoreLimitInv ==
  ASSUME TypeOK, LimitInv, NEW f \in Uploads, CommitRestore(f)
  PROVE  LimitInv'
<1>1. PICK r \in Row :
         /\ RowBecomes(f, r)
         /\ r.st = row[f].st /\ r.kind = row[f].kind /\ r.uid = row[f].uid
         /\ r.size = row[f].size /\ r.asked = row[f].size
         /\ r.excuse = back[f].excuse
  BY CommitRestoreEffect
<1>2. /\ waived' = waived \cup {row[f].uid}
      /\ \A g \in Uploads : back'[g].excuse = "all"
      /\ back[f].on
      /\ \A q \in Requests : req'[q].pc = "checked" => req'[q].overtaken
  BY CommitRestoreEffect, OvertakeEffect
<1>3. row'[f] = r /\ \A g \in Uploads \ {f} : row'[g] = row[g]
  BY <1>1 DEF RowBecomes
<1>4. \A g \in Uploads \ {f} : Excused(g)
  BY <1>3 DEF Excused, Counts
<1>5. \A g \in Uploads : PendingOK(g)'
  BY <1>1, <1>3 DEF LimitInv, PendingOK
<1>6. CASE back[f].excuse = "all"
  <2>1. Excused(f)
    BY <1>1, <1>2, <1>3, <1>6 DEF Excused
  <2> QED
    BY <1>2, <1>4, <1>5, <2>1, ExcusedLimitInv
<1>7. CASE back[f].excuse = "guest"
  <2>1. Fits(f)
    BY <1>2, <1>7 DEF LimitInv, RestoreOK
  <2>2. IsFiniteSet({f}) /\ Cardinality({f}) = 1
    BY FS_Singleton
  <2>3. /\ IsFiniteSet(MediaFiles) /\ IsFiniteSet(Units(StoredFiles))
        /\ IsFiniteSet(Units({f})) /\ IsFiniteSet(AskedMedia)
        /\ Cardinality(MediaFiles) \in Nat /\ Cardinality(Units(StoredFiles)) \in Nat
        /\ Cardinality(Units({f})) \in Nat
        /\ \A v : IsFiniteSet(AskedOf(v)) /\ IsFiniteSet(GrantedUnits(AskedOf(v)))
    BY AskedParts, AllFinite
  <2>4. MediaLimit >= 0 => Cardinality(AskedMedia') <= MediaLimit
    <3>1. CASE row[f].kind = "voice"
      <4>1. AskedMedia' \in SUBSET AskedMedia
        BY <1>1, <1>3, <3>1 DEF AskedMedia, MediaFiles, Counts
      <4> QED
        BY <2>3, <4>1, PartWithin, WithinLimitDef, LimitsAssumption DEF LimitInv
    <3>2. CASE row[f].kind # "voice"
      <4>1. AskedMedia' \in SUBSET (MediaFiles \cup {f})
        BY <1>3 DEF AskedMedia, MediaFiles, Counts
      <4>2. Cardinality(AskedMedia') <= Cardinality(MediaFiles) + 1
        BY <2>2, <2>3, <4>1, GrowsByAdded
      <4>3. Cardinality(AskedMedia') \in Nat
        <5>1. AskedMedia' \in SUBSET Uploads
          BY <4>1, AskedParts
        <5> QED
          BY <5>1, AllFinite
      <4> QED
        BY <2>1, <2>3, <3>2, <4>2, <4>3, LimitsAssumption DEF Fits, Unlimited
    <3> QED
      BY <3>1, <3>2
  <2>5. StorageLimit >= 0 => Cardinality(GrantedUnits(AskedFiles)') <= StorageLimit
    <3>1. \A g \in AskedFiles' : g = f \/ g \in StoredFiles
      BY <1>3 DEF AskedFiles, StoredFiles, Counts
    <3>2. \A g \in Uploads : row'[g].size = row[g].size
      BY <1>1, <1>3
    <3>3. AskedFiles' \subseteq Uploads
      BY DEF AskedFiles, StoredFiles
    <3>4. GrantedUnits(AskedFiles)' \in SUBSET (Units(StoredFiles) \cup Units({f}))
      BY <3>1, <3>2, <3>3 DEF GrantedUnits, Units
    <3>5. Cardinality(GrantedUnits(AskedFiles)') <=
             Cardinality(Units(StoredFiles)) + Cardinality(Units({f}))
      BY <2>3, <3>4, GrowsByAdded
    <3>6. Cardinality(GrantedUnits(AskedFiles)') \in Nat
      <4>1. GrantedUnits(AskedFiles)' \in SUBSET (Uploads \X (1..MaxSize))
        BY <3>4, AskedParts
      <4> QED
        BY <4>1, AllFinite
    <3> QED
      BY <2>1, <2>3, <3>5, <3>6, LimitsAssumption DEF Fits, Unlimited, Bytes
  <2>6. ASSUME NEW v \in Uids
        PROVE  /\ GuestMediaLimit >= 0 => Cardinality(AskedOf(v)') <= GuestMediaLimit
               /\ GuestStorageLimit >= 0 =>
                     Cardinality(GrantedUnits(AskedOf(v))') <= GuestStorageLimit
    <3>1. f \notin AskedOf(v)'
      BY <1>1, <1>3, <1>7 DEF AskedOf
    <3>2. AskedOf(v)' \in SUBSET AskedOf(v) /\ AskedOf(v)' \subseteq Uploads
      BY <1>3, <3>1 DEF AskedOf, FilesOf, StoredFiles, Counts
    <3>3. GrantedUnits(AskedOf(v))' \in SUBSET GrantedUnits(AskedOf(v))
      BY <1>3, <3>1, <3>2 DEF GrantedUnits, Units
    <3>4. /\ GuestMediaLimit >= 0 => Cardinality(AskedOf(v)) <= GuestMediaLimit
          /\ GuestStorageLimit >= 0 =>
                Cardinality(GrantedUnits(AskedOf(v))) <= GuestStorageLimit
      BY WithinLimitDef DEF LimitInv, Granted
    <3>5. GuestMediaLimit >= 0 => Cardinality(AskedOf(v)') <= GuestMediaLimit
      BY <2>3, <3>2, <3>4, PartWithin, LimitsAssumption
    <3>6. GuestStorageLimit >= 0 =>
             Cardinality(GrantedUnits(AskedOf(v))') <= GuestStorageLimit
      BY <2>3, <3>3, <3>4, PartWithin, LimitsAssumption
    <3> QED
      BY <3>5, <3>6
  <2>7. GuestCount >= 0 => Cardinality((Contributors \ waived)') <= GuestCount
    <3>1. (Contributors \ waived)' \in SUBSET (Contributors \ waived)
      BY <1>1, <1>2, <1>3 DEF Contributors, Counts
    <3>2. IsFiniteSet(Contributors \ waived)
      BY ContributorsFinite, PartIsNoLarger
    <3> QED
      BY <3>1, <3>2, PartWithin, WithinLimitDef, LimitsAssumption DEF LimitInv
  <2>8. EventWithinLimit'
    BY <2>4, <2>5 DEF EventWithinLimit, AskedMedia, AskedFiles, Granted
  <2>9. GuestWithinLimit'
    BY <2>6, <2>7 DEF GuestWithinLimit, AskedOf, Granted
  <2> QED
    BY <1>2, <1>5, <2>8, <2>9 DEF LimitInv, PromiseOK, RestoreOK
<1>8. back[f].excuse \in {"guest", "all"}
  BY DEF TypeOK, Restore
<1> QED
  BY <1>6, <1>7, <1>8

LEMMA ReceiveLimitInv ==
  ASSUME TypeOK, LimitInv, NEW f \in Uploads, Receive(f)
  PROVE  LimitInv'
<1>1. PICK r \in Row :
         /\ RowBecomes(f, r)
         /\ r.st = "received" /\ row[f].st \in {"pending", "stale"}
         /\ r.trashed = row[f].trashed /\ r.kind = row[f].kind /\ r.uid = row[f].uid
         /\ r.asked = row[f].asked
         /\ \/ /\ r.excuse = "all" /\ waived' = waived \cup {row[f].uid}
               /\ req' = Overtake({}) /\ back' = OvertakeRestores
            \/ /\ row[f].st = "stale" => row[f].trashed
               /\ r.excuse = row[f].excuse
               /\ UNCHANGED waived
               /\ \/ req' = Overtake({}) /\ back' = OvertakeRestores
                  \/ (Counts(f) => r.size <= row[f].size) /\ UNCHANGED <<req, back>>
  BY ReceiveEffect
<1>2. row'[f] = r /\ \A g \in Uploads \ {f} : row'[g] = row[g]
  BY <1>1 DEF RowBecomes
<1>3. \A g \in Uploads \ {f} : Excused(g) /\ Fewer(g)
  BY <1>2 DEF Excused, Fewer, FewerFiles, Counts
<1>4. Excused(f)
  <2>1. CASE r.excuse = "all" /\ waived' = waived \cup {row[f].uid}
    BY <1>1, <1>2, <2>1 DEF Excused
  <2>2. CASE (row[f].st = "stale" => row[f].trashed) /\ r.excuse = row[f].excuse
    <3>1. Counts(f)' => Counts(f) /\ row[f].st = "pending"
      BY <1>1, <1>2, <2>2 DEF Counts
    <3>2. row[f].st = "pending" => row[f].size = row[f].asked
      BY DEF LimitInv, PendingOK
    <3> QED
      BY <1>1, <1>2, <2>2, <3>1, <3>2 DEF Excused
  <2> QED
    BY <1>1, <2>1, <2>2
<1>5. \A g \in Uploads : Excused(g)
  BY <1>3, <1>4
<1>6. \A g \in Uploads : PendingOK(g)'
  BY <1>1, <1>2 DEF LimitInv, PendingOK
<1>7. waived \subseteq waived'
  BY <1>1
<1>8. CASE req' = Overtake({}) /\ back' = OvertakeRestores
  BY <1>5, <1>6, <1>7, <1>8, OvertakeEffect, OvertakeRestoresEffect, ExcusedLimitInv
<1>9. CASE /\ row[f].st = "stale" => row[f].trashed
           /\ Counts(f) => r.size <= row[f].size
           /\ UNCHANGED <<req, back, waived>>
  <2>1. Fewer(f)
    <3>1. Counts(f)' => Counts(f)
      BY <1>1, <1>2, <1>9 DEF Counts
    <3>2. r.size \in Int /\ row[f].size \in Int
      BY DEF TypeOK, Row, Size
    <3>3. Counts(f) => \A k \in 1..MaxSize : k <= r.size => k <= row[f].size
      BY <1>9, <3>2
    <3> QED
      BY <1>1, <1>2, <3>1, <3>3 DEF Fewer, FewerFiles
  <2>2. \A g \in Uploads : Waits(g)
    BY <1>1, <1>2, <1>9 DEF Waits
  <2> QED
    BY <1>3, <1>5, <1>6, <1>9, <2>1, <2>2, FewerLimitInv
<1> QED
  BY <1>1, <1>8, <1>9

LEMMA RowsLimitInv ==
  ASSUME TypeOK, LimitInv, NEW f \in Uploads,
         \/ GiveUp(f) \/ Age(f)
         \/ \E b \in Browsers : SignBook(f, b)
         \/ TrashUpload(f) \/ DeleteUpload(f)
         \/ \E a \in Albums : MoveUpload(f, a)
  PROVE  LimitInv'
<1>1. ASSUME NEW r \in Row, RowBecomes(f, r),
             Counts(f)' => /\ Counts(f) /\ r.kind = row[f].kind /\ r.uid = row[f].uid
                           /\ r.size = row[f].size /\ r.asked = row[f].asked
                           /\ r.excuse = row[f].excuse,
             r.st # "pending", row[f].st = "received" => ~back[f].on,
             UNCHANGED <<req, back, waived>>
      PROVE  LimitInv'
  <2>1. row'[f] = r /\ \A g \in Uploads \ {f} : row'[g] = row[g]
    BY <1>1 DEF RowBecomes
  <2>2. \A g \in Uploads \ {f} : Fewer(g) /\ Excused(g)
    BY <2>1 DEF Fewer, FewerFiles, Excused, Counts
  <2>3. Fewer(f) /\ Excused(f)
    BY <1>1, <2>1 DEF Fewer, FewerFiles, Excused
  <2>4. \A g \in Uploads : Waits(g)
    BY <1>1, <2>1 DEF Waits, LimitInv, RestoreOK
  <2>5. \A g \in Uploads : PendingOK(g)'
    BY <1>1, <2>1 DEF LimitInv, PendingOK
  <2> QED
    BY <1>1, <2>2, <2>3, <2>4, <2>5, FewerLimitInv
<1>2. CASE GiveUp(f) \/ DeleteUpload(f)
  <2>1. RowBecomes(f, NoRow) /\ (row[f].st = "received" => ~back[f].on)
    BY <1>2, GiveUpEffect
  <2>2. ~Counts(f)' /\ NoRow.st # "pending"
    BY <2>1 DEF RowBecomes, NoRow, Counts
  <2>3. UNCHANGED <<req, back, waived>>
    BY <1>2 DEF GiveUp, DeleteUpload
  <2> QED
    BY <1>1, <2>1, <2>2, <2>3, EmptyValues
<1>3. CASE Age(f) \/ TrashUpload(f)
  <2>1. PICK r \in Row : /\ RowBecomes(f, r)
                         /\ r.st = "stale" \/ r.trashed
                         /\ r.st # "pending"
                         /\ row[f].st = "received" => ~back[f].on
    BY <1>3, AgeEffect
  <2>2. ~Counts(f)'
    BY <2>1 DEF RowBecomes, Counts
  <2>3. UNCHANGED <<req, back, waived>>
    BY <1>3 DEF Age, TrashUpload
  <2> QED
    BY <1>1, <2>1, <2>2, <2>3
<1>4. CASE \E b \in Browsers : SignBook(f, b)
  <2>1. PICK b \in Browsers : SignBook(f, b)
    BY <1>4
  <2>2. PICK r \in Row :
           /\ RowBecomes(f, r) /\ r.excuse = "all" /\ r.st = "received"
           /\ r.kind = "text"
           /\ row[f].st = "none"
           /\ waived' = waived \cup {r.uid}
           /\ req' = Overtake({})
    BY <2>1, SignBookEffect
  <2>3. UNCHANGED back
    BY <2>1 DEF SignBook
  <2>4. row'[f] = r /\ \A g \in Uploads \ {f} : row'[g] = row[g]
    BY <2>2 DEF RowBecomes
  <2>5. \A g \in Uploads : FewerFiles(g) /\ Excused(g)
    BY <2>2, <2>4 DEF FewerFiles, Excused, Counts
  <2>6. \A g \in Uploads : Waits(g)
    BY <2>2, <2>3, <2>4 DEF Waits
  <2>7. \A g \in Uploads : RestoreOK(g)' /\ PendingOK(g)'
    BY <2>2, <2>4, <2>5, <2>6, RestoreKept DEF LimitInv, PendingOK
  <2>8. \A q \in Requests : PromiseOK(q)'
    BY <2>2, OvertakeEffect DEF PromiseOK
  <2>9. EventWithinLimit' /\ GuestWithinLimit'
    BY <2>2, <2>5, LimitsKept DEF LimitInv
  <2> QED
    BY <2>7, <2>8, <2>9 DEF LimitInv
<1>5. CASE \E a \in Albums : MoveUpload(f, a)
  <2>1. PICK a \in Albums : MoveUpload(f, a)
    BY <1>5
  <2>2. PICK r \in Row :
           /\ RowBecomes(f, r)
           /\ r.st = row[f].st /\ r.trashed = row[f].trashed /\ r.kind = row[f].kind
           /\ r.uid = row[f].uid /\ r.excuse = row[f].excuse
           /\ r.size = row[f].size /\ r.asked = row[f].asked
           /\ row[f].st # "pending" /\ ~back[f].on
    BY <2>1, MoveUploadEffect
  <2>3. Counts(f)' => Counts(f)
    BY <2>2 DEF RowBecomes, Counts
  <2>4. UNCHANGED <<req, back, waived>>
    BY <2>1 DEF MoveUpload
  <2> QED
    BY <1>1, <2>2, <2>3, <2>4
<1> QED
  BY <1>2, <1>3, <1>4, <1>5

LEMMA NextLimitInv == TypeOK /\ LimitInv /\ [Next]_vars => LimitInv'
<1> SUFFICES ASSUME TypeOK, LimitInv, [Next]_vars PROVE LimitInv'
  OBVIOUS
<1>1. CASE \E b \in Browsers : NewGuest(b) \/ ForeignToken(b) \/ RenewToken(b)
  BY <1>1, RowsStay DEF NewGuest, ForeignToken, RenewToken
<1>2. CASE \E b \in Browsers, a \in Albums : GuestOpen(b, a)
  BY <1>2, RowsStay DEF GuestOpen
<1>3. CASE \E r \in Requests, b \in Browsers : EnterUpload(r, b)
  <2>1. PICK r \in Requests, b \in Browsers : EnterUpload(r, b)
    BY <1>3
  <2>2. PICK u \in Uids, kind \in Kinds \cap {"photo", "voice"}, files \in SUBSET Uploads,
             a \in Albums \cup {NoAlbum}, sizes \in Sizes :
           /\ GuestEnters(b, u) \/ AccountEnters(b, u)
           /\ req' = [req EXCEPT ![r] =
                        [pc |-> "entered", uid |-> u, al |-> token[b].al, album |-> a,
                         kind |-> kind, files |-> files, sizes |-> sizes,
                         overtaken |-> FALSE]]
    BY <2>1, EntersWith
  <2>3. req'[r].pc = "entered" /\ \A q \in Requests \ {r} : req'[q] = req[q]
    BY <2>2 DEF TypeOK
  <2>4. \A q \in Requests : req'[q] = req[q] \/ req'[q].pc # "checked"
    BY <2>3
  <2> QED
    BY <2>1, <2>4, RowsStay DEF EnterUpload
<1>4. ASSUME NEW r \in Requests, ReadAlbum(r) \/ FailUpload(r)
      PROVE  LimitInv'
  <2>1. \A q \in Requests : req'[q] = req[q] \/ req'[q].pc # "checked"
    BY <1>4 DEF ReadAlbum, FailUpload, Idle, TypeOK, Request
  <2> QED
    BY <1>4, <2>1, RowsStay DEF ReadAlbum, FailUpload
<1>5. CASE \E a \in Albums : \/ EditAlbum(a) \/ BeginDelete(a) \/ RollBackDelete(a)
  BY <1>5, RowsStay DEF EditAlbum, BeginDelete, RollBackDelete
<1>6. CASE \E a \in Albums : CommitDelete(a)
  <2>1. PICK a \in Albums : CommitDelete(a)
    BY <1>6
  <2>2. UNCHANGED <<req, back, waived>>
    BY <2>1 DEF CommitDelete
  <2>3. \A f \in Uploads : Fewer(f) /\ Excused(f) /\ Waits(f)
    BY <2>1, <2>2, CommitDeleteEffect DEF Fewer, FewerFiles, Excused, Counts, Waits
  <2>4. \A f \in Uploads : PendingOK(f)'
    BY <2>1, CommitDeleteEffect DEF LimitInv, PendingOK
  <2> QED
    BY <2>2, <2>3, <2>4, FewerLimitInv
<1>7. ASSUME NEW f \in Uploads, FailRestore(f)
      PROVE  LimitInv'
  <2>1. \A g \in Uploads : back'[g] = back[g] \/ ~back'[g].on
    BY <1>7 DEF FailRestore, NotBack, TypeOK
  <2> QED
    BY <1>7, <2>1, RowsStay DEF FailRestore
<1>8. CASE CloseEvent \/ UNCHANGED vars
  BY <1>8, RowsStay DEF CloseEvent, vars
<1> QED
  BY <1>1, <1>2, <1>3, <1>4, <1>5, <1>6, <1>7, <1>8, CheckLimitsLimitInv, InsertLimitInv,
     ReceiveLimitInv, RowsLimitInv, RestoreUploadLimitInv, CommitRestoreLimitInv DEF Next

LEMMA InitLimitInv == Init => LimitInv
<1> SUFFICES ASSUME Init PROVE LimitInv
  OBVIOUS
<1>1. \A f \in Uploads : ~Counts(f)
  BY DEF Init, Counts, NoRow
<1>2. /\ AskedMedia = {} /\ AskedFiles = {} /\ Contributors \ waived = {}
      /\ \A u : AskedOf(u) = {}
  BY <1>1 DEF AskedMedia, AskedFiles, AskedOf, MediaFiles, StoredFiles, FilesOf, Contributors
<1>3. GrantedUnits({}) = {}
  BY DEF GrantedUnits, Units
<1>4. EventWithinLimit /\ GuestWithinLimit
  BY <1>2, <1>3, WithinLimitDef, FS_EmptySet, LimitsAssumption DEF Granted
<1>5. \A r \in Requests : PromiseOK(r)
  BY DEF Init, PromiseOK, Idle
<1>6. \A f \in Uploads : RestoreOK(f) /\ PendingOK(f)
  BY DEF Init, RestoreOK, PendingOK, NotBack, NoRow
<1> QED
  BY <1>4, <1>5, <1>6 DEF LimitInv

-----------------------------------------------------------------------------
(* Albums and the rows in them.                                            *)

\* A row that is new in an album is late if its deletion has begun; any other
\* row is in its album as before.
LEMMA RowInAlbum ==
  ASSUME TypeOK, AlbumInv, UNCHANGED <<deleting, doomed, album>>,
         \A f \in Uploads :
            \/ row'[f].st = "none" \/ row'[f].album = NoAlbum
            \/ /\ row[f].st # "none" /\ row'[f].album = row[f].album
               /\ row'[f].late = row[f].late /\ (row[f].trashed => row'[f].trashed)
            \/ row'[f].late
            \/ ~album[row'[f].album].deleted /\ row'[f].album \notin deleting
  PROVE  AlbumInv'
<1>1. DeletedAlbumIsEmpty'
  BY DEF AlbumInv, DeletedAlbumIsEmpty
<1>2. \A f \in Uploads :
         (row'[f].st # "none" /\ row'[f].album \in deleting)
            => f \in doomed \/ row'[f].trashed \/ row'[f].late
  BY AlbumsAssumption DEF AlbumInv, TypeOK
<1> QED
  BY <1>1, <1>2 DEF AlbumInv

LEMMA RowsAlbumInv ==
  ASSUME TypeOK, AlbumInv, NEW f \in Uploads,
         \/ Receive(f) \/ GiveUp(f) \/ Age(f)
         \/ \E b \in Browsers : SignBook(f, b)
         \/ TrashUpload(f) \/ CommitRestore(f) \/ DeleteUpload(f)
         \/ \E a \in Albums : MoveUpload(f, a)
  PROVE  AlbumInv'
<1> DEFINE Stays(g) == \/ row'[g].st = "none" \/ row'[g].album = NoAlbum
                       \/ /\ row[g].st # "none" /\ row'[g].album = row[g].album
                          /\ row'[g].late = row[g].late /\ (row[g].trashed => row'[g].trashed)
                       \/ row'[g].late
                       \/ ~album[row'[g].album].deleted /\ row'[g].album \notin deleting
<1>1. UNCHANGED <<deleting, doomed, album>>
  BY DEF Receive, GiveUp, Age, SignBook, TrashUpload, CommitRestore, DeleteUpload,
         MoveUpload, host
<1>2. ASSUME NEW r \in Row, RowBecomes(f, r), Stays(f)
      PROVE  AlbumInv'
  <2>1. \A g \in Uploads : Stays(g)
    BY <1>2 DEF RowBecomes
  <2> QED
    BY <1>1, <2>1, RowInAlbum
<1>3. CASE Receive(f)
  <2>1. PICK r \in Row :
           /\ RowBecomes(f, r)
           /\ row[f].st \in {"pending", "stale"} /\ r.trashed = row[f].trashed
           /\ r.album = row[f].album /\ r.late = row[f].late
    BY <1>3, ReceiveEffect
  <2>2. Stays(f)
    BY <2>1 DEF RowBecomes
  <2> QED
    BY <1>2, <2>1, <2>2
<1>4. CASE GiveUp(f) \/ DeleteUpload(f)
  <2>1. RowBecomes(f, NoRow)
    BY <1>4, GiveUpEffect
  <2>2. Stays(f)
    BY <2>1 DEF RowBecomes, NoRow
  <2> QED
    BY <1>2, <2>1, <2>2, EmptyValues
<1>5. CASE Age(f) \/ TrashUpload(f)
  <2>1. PICK r \in Row :
           /\ RowBecomes(f, r)
           /\ r.album = row[f].album /\ r.late = row[f].late
           /\ row[f].trashed => r.trashed
           /\ row[f].st # "none"
    BY <1>5, AgeEffect
  <2>2. Stays(f)
    BY <2>1 DEF RowBecomes
  <2> QED
    BY <1>2, <2>1, <2>2
<1>6. CASE \E b \in Browsers : SignBook(f, b)
  <2>1. PICK r \in Row : RowBecomes(f, r) /\ r.album = NoAlbum
    BY <1>6, SignBookEffect
  <2>2. Stays(f)
    BY <2>1 DEF RowBecomes
  <2> QED
    BY <1>2, <2>1, <2>2
<1>7. CASE CommitRestore(f)
  <2>1. PICK r \in Row :
           /\ RowBecomes(f, r)
           /\ r.late = (r.album # NoAlbum /\ (r.album \in deleting \/ album[r.album].deleted))
    BY <1>7, CommitRestoreEffect
  <2>2. Stays(f)
    BY <2>1 DEF RowBecomes
  <2> QED
    BY <1>2, <2>1, <2>2
<1>8. CASE \E a \in Albums : MoveUpload(f, a)
  <2>1. PICK a \in Albums : MoveUpload(f, a)
    BY <1>8
  <2>2. PICK r \in Row :
           /\ RowBecomes(f, r)
           /\ r.album = a /\ r.late = (a \in deleting)
           /\ ~album[a].deleted
    BY <2>1, MoveUploadEffect
  <2>3. Stays(f)
    BY <2>2 DEF RowBecomes
  <2> QED
    BY <1>2, <2>2, <2>3
<1> QED
  BY <1>3, <1>4, <1>5, <1>6, <1>7, <1>8

LEMMA InsertAlbumInv ==
  ASSUME TypeOK, AlbumInv, NEW r \in Requests, Insert(r)
  PROVE  AlbumInv'
<1>1. UNCHANGED <<deleting, doomed, album>>
  BY DEF Insert, host
<1>2. req[r].album \in Albums \cup {NoAlbum}
  BY DEF TypeOK, Request
<1>3. req[r].album # NoAlbum => ~album[req[r].album].deleted
  BY DEF Insert, InsertAllowed
<1>4. \A f \in Uploads :
         \/ row'[f].st = "none" \/ row'[f].album = NoAlbum
         \/ /\ row[f].st # "none" /\ row'[f].album = row[f].album
            /\ row'[f].late = row[f].late /\ (row[f].trashed => row'[f].trashed)
         \/ row'[f].late
         \/ ~album[row'[f].album].deleted /\ row'[f].album \notin deleting
  <2> SUFFICES ASSUME NEW f \in Uploads, row'[f].album # NoAlbum, ~row'[f].late
               PROVE  \/ /\ row[f].st # "none" /\ row'[f].album = row[f].album
                         /\ row'[f].late = row[f].late
                         /\ (row[f].trashed => row'[f].trashed)
                      \/ ~album[row'[f].album].deleted /\ row'[f].album \notin deleting
                      \/ row'[f].st = "none"
    OBVIOUS
  <2>1. CASE f \in req[r].files
    <3>1. row'[f].album = req[r].album /\ row'[f].late = (req[r].album \in deleting)
      BY <2>1, InsertEffect
    <3>2. req[r].album \notin deleting
      BY <3>1
    <3> QED
      BY <1>3, <3>1, <3>2
  <2>2. CASE f \notin req[r].files
    BY <2>2, InsertEffect
  <2> QED
    BY <2>1, <2>2
<1> QED
  BY <1>1, <1>4, RowInAlbum

LEMMA DeletionAlbumInv ==
  ASSUME TypeOK, AlbumInv, NEW a \in Albums,
         EditAlbum(a) \/ BeginDelete(a) \/ CommitDelete(a) \/ RollBackDelete(a)
  PROVE  AlbumInv'
<1>1. CASE EditAlbum(a)
  <2>1. \A c \in Albums : album'[c].deleted = album[c].deleted
    BY <1>1 DEF EditAlbum, TypeOK, AlbumRow
  <2>2. UNCHANGED <<deleting, doomed, row>>
    BY <1>1 DEF EditAlbum
  <2>3. \A f \in Uploads : row[f].album \in Albums \cup {NoAlbum}
    BY DEF TypeOK, Row
  <2> QED
    BY <2>1, <2>2, <2>3, AlbumsAssumption DEF AlbumInv, DeletedAlbumIsEmpty
<1>2. CASE BeginDelete(a)
  <2>1. UNCHANGED <<album, row>>
    BY <1>2 DEF BeginDelete
  <2>2. DeletedAlbumIsEmpty'
    BY <2>1 DEF AlbumInv, DeletedAlbumIsEmpty
  <2>3. General \notin deleting'
    BY <1>2 DEF BeginDelete, HostManages, AlbumInv
  <2>4. \A f \in Uploads :
           (row'[f].st # "none" /\ row'[f].album \in deleting')
              => f \in doomed' \/ row'[f].trashed \/ row'[f].late
    BY <1>2, <2>1 DEF BeginDelete, AlbumInv
  <2> QED
    BY <2>1, <2>2, <2>3, <2>4 DEF AlbumInv
<1>3. CASE CommitDelete(a)
  <2>1. /\ a \in deleting /\ deleting' = deleting \ {a}
        /\ doomed' = {f \in doomed : row[f].album # a}
    BY <1>3 DEF CommitDelete
  <2>2. a # General
    BY <2>1 DEF AlbumInv
  <2>3. /\ album'[a].deleted
        /\ \A c \in Albums \ {a} : album'[c] = album[c]
        /\ \A f \in Uploads :
              /\ row'[f].st = row[f].st
              /\ row'[f].album = row[f].album /\ row'[f].late = row[f].late
              /\ row'[f].trashed = (row[f].trashed \/ (f \in doomed /\ row[f].album = a))
    BY <1>3, CommitDeleteEffect
  <2>4. \A f \in Uploads : row[f].album \in Albums \cup {NoAlbum}
    BY DEF TypeOK, Row
  <2>5. DeletedAlbumIsEmpty'
    BY <2>1, <2>3, <2>4 DEF AlbumInv, DeletedAlbumIsEmpty
  <2>6. General \notin deleting' /\ ~album'[General].deleted
    BY <2>1, <2>2, <2>3, AlbumsAssumption DEF AlbumInv
  <2>7. \A f \in Uploads :
           (row'[f].st # "none" /\ row'[f].album \in deleting')
              => f \in doomed' \/ row'[f].trashed \/ row'[f].late
    BY <2>1, <2>3 DEF AlbumInv
  <2> QED
    BY <2>5, <2>6, <2>7 DEF AlbumInv
<1>4. CASE RollBackDelete(a)
  BY <1>4 DEF RollBackDelete, AlbumInv, DeletedAlbumIsEmpty
<1> QED
  BY <1>1, <1>2, <1>3, <1>4

LEMMA NextAlbumInv == TypeOK /\ AlbumInv /\ [Next]_vars => AlbumInv'
<1> SUFFICES ASSUME TypeOK, AlbumInv, [Next]_vars PROVE AlbumInv'
  OBVIOUS
<1>1. ASSUME UNCHANGED <<deleting, doomed, album, row>>
      PROVE  AlbumInv'
  BY <1>1 DEF AlbumInv, DeletedAlbumIsEmpty
<1>2. CASE \E b \in Browsers : NewGuest(b) \/ ForeignToken(b) \/ RenewToken(b)
  BY <1>1, <1>2 DEF NewGuest, ForeignToken, RenewToken, host
<1>3. CASE \E b \in Browsers, a \in Albums : GuestOpen(b, a)
  BY <1>1, <1>3 DEF GuestOpen, host
<1>4. CASE \E r \in Requests : \/ \E b \in Browsers : EnterUpload(r, b)
                               \/ ReadAlbum(r) \/ CheckLimits(r) \/ FailUpload(r)
  BY <1>1, <1>4 DEF EnterUpload, ReadAlbum, CheckLimits, FailUpload, host
<1>5. CASE \/ \E f \in Uploads : RestoreUpload(f) \/ FailRestore(f)
           \/ CloseEvent \/ UNCHANGED vars
  BY <1>1, <1>5 DEF RestoreUpload, FailRestore, CloseEvent, host, vars
<1> QED
  BY <1>2, <1>3, <1>4, <1>5, InsertAlbumInv, RowsAlbumInv, DeletionAlbumInv DEF Next

LEMMA InitAlbumInv == Init => AlbumInv
<1> SUFFICES ASSUME Init PROVE AlbumInv
  OBVIOUS
<1>1. ~album[General].deleted
  BY AlbumsAssumption DEF Init
<1>2. \A f \in Uploads : row[f].st = "none"
  BY DEF Init, NoRow
<1> QED
  BY <1>1, <1>2 DEF Init, AlbumInv, DeletedAlbumIsEmpty

-----------------------------------------------------------------------------
(* Theorems.                                                               *)

LEMMA Invariant == Spec => []IInv
<1>1. Init => IInv
  BY InitTypeOK, InitLimitInv, InitAlbumInv DEF IInv
<1>2. IInv /\ [Next]_vars => IInv'
  BY NextTypeOK, NextLimitInv, NextAlbumInv DEF IInv
<1> QED
  BY <1>1, <1>2, PTL DEF Spec

\* Every variable keeps its type.
THEOREM TypeCorrect == Spec => []TypeOK
<1>1. IInv => TypeOK
  BY DEF IInv
<1> QED
  BY <1>1, Invariant, PTL

\* However requests overtake each other and whatever the host restores, what
\* was checked stays within the event's limits.
THEOREM EventsStayWithinLimit == Spec => []EventWithinLimit
<1>1. IInv => EventWithinLimit
  BY DEF IInv, LimitInv
<1> QED
  BY <1>1, Invariant, PTL

\* Likewise a guest's own limits, and the contributors that were asked.
THEOREM GuestsStayWithinLimit == Spec => []GuestWithinLimit
<1>1. IInv => GuestWithinLimit
  BY DEF IInv, LimitInv
<1> QED
  BY <1>1, Invariant, PTL

\* A deleted album leaves nothing in the open but rows that came in meanwhile.
THEOREM DeletedAlbumsAreEmpty == Spec => []DeletedAlbumIsEmpty
<1>1. IInv => DeletedAlbumIsEmpty
  BY DEF IInv, AlbumInv
<1> QED
  BY <1>1, Invariant, PTL
=============================================================================
