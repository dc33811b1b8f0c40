------------------------------ MODULE OrderPanel ------------------------------
(***************************************************************************)
(* The site's order panel and the accounts behind it: who may open it      *)
(* (panel_admins, OrderPanelMiddleware), what it shows of a paid order to  *)
(* whom (ListOrders, GetOrder), and the two ways other than signing up in  *)
(* which an account's password is set: a grant of the panel role           *)
(* (PanelAdmin Create) and a password reset.                               *)
(*                                                                         *)
(* None of it is transactional: a grant is up to five statements, a reset  *)
(* three, and a page of the panel reads the role twice and the event's     *)
(* metrics from two tables, while the event is being closed.               *)
(***************************************************************************)
EXTENDS Naturals, FiniteSets

CONSTANTS
    People,    \* users.mail values
    Supers,    \* those in env.admin_emails
    Staff,     \* those the super admins grant the panel role to
    Calls,     \* handlers that may run at the same time
    Resets,    \* password_reset_tokens.token values
    Nobody, NoReset,
    MaxChanges \* bound: grants and revocations, altogether

ASSUME PeopleAssumption ==
    Supers \subseteq People /\ Staff \subseteq People /\ Nobody \notin People
ASSUME ResetsAssumption == NoReset \notin Resets
ASSUME MaxChangesAssumption == MaxChanges \in Nat

VARIABLES
    panel,    \* the panel_admins rows: "none", "active" or "revoked"
    pass,     \* who has set a person's password; "none" is no account
    reset,    \* the password_reset_tokens rows
    event,    \* the order's event; a captured one has its snapshot, not its mark
    admins,   \* events.admins
    call,     \* a handler: its next statement and what it has found out
    changes

vars == <<panel, pass, reset, event, admins, call, changes>>

Idle == [pc |-> "idle", who |-> Nobody, reset |-> NoReset, detail |-> FALSE,
         prices |-> FALSE, account |-> "none", there |-> FALSE, revoked |-> FALSE,
         old |-> FALSE, joined |-> FALSE]
NewReset == [st |-> "none", who |-> Nobody, uses |-> 0, broken |-> FALSE]

Init ==
    /\ panel = [p \in People |-> "none"]
    /\ pass \in [People -> {"none", "own"}]
    /\ \A p \in Supers : pass[p] = "own"
    /\ reset = [x \in Resets |-> NewReset]
    /\ event = "none"
    /\ admins = {}
    /\ call = [c \in Calls |-> Idle]
    /\ changes = 0

Exists(e) == e \in {"open", "captured"}
HasOpenEvent(p) == p \in admins /\ Exists(event)

Goto(c, pc) == call' = [call EXCEPT ![c].pc = pc]
Ends(c) == call' = [call EXCEPT ![c] = Idle]

-----------------------------------------------------------------------------
(* The panel role.                                                         *)

IsOrderAdmin(p) == panel[p] = "active"

\* OrderPanelMiddleware lets both in.
MayOpenPanel(p) == p \in Supers \/ IsOrderAdmin(p)

\* isRestrictedOrderPanelUser
Restricted(p) == p \notin Supers /\ IsOrderAdmin(p)

\* PanelAdmin Create looks for the account, and makes one if there is none.
GrantLooks(c, p) ==
    /\ call[c].pc = "idle"
    /\ changes < MaxChanges
    /\ changes' = changes + 1
    /\ call' = [call EXCEPT ![c] =
                  [Idle EXCEPT !.pc = IF pass[p] = "none" THEN "create" ELSE "role",
                               !.who = p, !.old = pass[p] # "none"]]
    /\ UNCHANGED <<panel, pass, reset, event, admins>>

\* CreateUser; users.mail is unique.
GrantCreates(c) ==
    /\ call[c].pc = "create"
    /\ IF pass[call[c].who] = "none"
       THEN pass' = [pass EXCEPT ![call[c].who] = "panel"] /\ Goto(c, "role")
       ELSE UNCHANGED pass /\ Ends(c)
    /\ UNCHANGED <<panel, reset, event, admins, changes>>

\* Whoever has the role is answered with 409.
GrantLooksActive(c) ==
    /\ call[c].pc = "role"
    /\ IF IsOrderAdmin(call[c].who) THEN Ends(c)
       ELSE Goto(c, IF call[c].old THEN "hosting" ELSE "insert")
    /\ UNCHANGED <<panel, pass, reset, event, admins, changes>>

\* Mutant of GrantLooksEvent: every account gets the password that was entered
GrantLooksEventNot(c) ==
    /\ call[c].pc = "hosting"
    /\ Goto(c, "password")
    /\ UNCHANGED <<panel, pass, reset, event, admins, changes>>

\* An account without an open event gets the password that was entered.
GrantLooksEvent(c) ==
    /\ call[c].pc = "hosting"
    /\ Goto(c, IF HasOpenEvent(call[c].who) THEN "insert" ELSE "password")
    /\ UNCHANGED <<panel, pass, reset, event, admins, changes>>

GrantSetsPassword(c) ==
    /\ call[c].pc = "password"
    /\ pass' = [pass EXCEPT ![call[c].who] = "panel"]
    /\ Goto(c, "insert")
    /\ UNCHANGED <<panel, reset, event, admins, changes>>

\* ON CONFLICT (user_uid): a revoked row becomes active again.
GrantInserts(c) ==
    /\ call[c].pc = "insert"
    /\ panel' = [panel EXCEPT ![call[c].who] = "active"]
    /\ Ends(c)
    /\ UNCHANGED <<pass, reset, event, admins, changes>>

\* PanelAdmin Delete, while pages of that person may be under way.
Revoke(p) ==
    /\ changes < MaxChanges
    /\ changes' = changes + 1
    /\ IsOrderAdmin(p)
    /\ panel' = [panel EXCEPT ![p] = "revoked"]
    /\ call' = [c \in Calls |->
                  IF call[c].pc = "order" /\ call[c].who = p
                  THEN [call[c] EXCEPT !.revoked = TRUE] ELSE call[c]]
    /\ UNCHANGED <<pass, reset, event, admins>>

-----------------------------------------------------------------------------
(* The password reset.                                                     *)

\* Request: an account gets a link by mail, however many it has already.
RequestReset(x, p) ==
    /\ reset[x].st = "none"
    /\ pass[p] # "none"
    /\ reset' = [reset EXCEPT ![x].st = "sent", ![x].who = p]
    /\ UNCHANGED <<panel, pass, event, admins, call, changes>>

ResetExpires(x) ==
    /\ reset[x].st = "sent"
    /\ reset' = [reset EXCEPT ![x].st = "expired"]
    /\ UNCHANGED <<panel, pass, event, admins, call, changes>>

\* Reads(c, x): the confirmation c has found the token x good.  History: if
\* another one has, too, and not marked it yet, the two overlap.
Reads(c, x) ==
    /\ call' = [call EXCEPT ![c] = [Idle EXCEPT !.pc = "reset", !.reset = x]]
    /\ reset' = [reset EXCEPT ![x].broken = @ \/ \E d \in Calls : call[d].reset = x]
    /\ UNCHANGED <<panel, pass, event, admins, changes>>

\* The token is there, unused and not expired.
ConfirmReads(c, x) ==
    call[c].pc = "idle" /\ reset[x].st = "sent" /\ Reads(c, x)

\* History: the uses of a link are counted as none, one or more.
ConfirmSetsPassword(c) ==
    /\ call[c].pc = "reset"
    /\ pass' = [pass EXCEPT ![reset[call[c].reset].who] = "own"]
    /\ reset' = [reset EXCEPT ![call[c].reset].uses = IF @ = 0 THEN 1 ELSE 2]
    /\ Goto(c, "mark")
    /\ UNCHANGED <<panel, event, admins, changes>>

ConfirmMarks(c) ==
    /\ call[c].pc = "mark"
    /\ reset' = [reset EXCEPT ![call[c].reset].st = "used"]
    /\ Ends(c)
    /\ UNCHANGED <<panel, pass, event, admins, changes>>

-----------------------------------------------------------------------------
(* The order's event, as other handlers change it.                         *)

\* Somebody who becomes a host while a grant for him is being made.
BecomesHost(p) ==
    /\ admins' = admins \cup {p}
    /\ pass' = [pass EXCEPT ![p] = IF @ = "none" THEN "own" ELSE @]
    /\ call' = [c \in Calls |->
                  IF call[c].pc = "password" /\ call[c].who = p
                  THEN [call[c] EXCEPT !.joined = TRUE] ELSE call[c]]

\* Post and Attach: the order's link opens its event for an account.
EventOpens(p) ==
    /\ event = "none"
    /\ event' = "open"
    /\ BecomesHost(p)
    /\ UNCHANGED <<panel, reset, changes>>

\* An invitation lets another account in.
Joins(p) ==
    /\ Exists(event) /\ p \notin admins
    /\ BecomesHost(p)
    /\ UNCHANGED <<panel, reset, event, changes>>

EventSteps(from, to) ==
    /\ event = from /\ event' = to
    /\ UNCHANGED <<panel, pass, reset, admins, call, changes>>

\* PurgeUploadsAndSoftDeleteEvent: the snapshot, then the mark.
EventCaptured == EventSteps("open", "captured")

\* Mutant of EventCloses: the event is closed before its numbers are saved
EventClosesAtOnce == EventSteps("open", "marked") \/ EventSteps("marked", "closed")

EventCloses == EventSteps("captured", "closed")

\* DeletePermanently
EventErased == EventSteps("closed", "erased")

-----------------------------------------------------------------------------
(* ListOrders and GetOrder.                                                *)

OpensPage(c, p, detail) ==
    /\ call[c].pc = "idle"
    /\ MayOpenPanel(p)
    /\ call' = [call EXCEPT ![c] =
                  [Idle EXCEPT !.pc = "order", !.who = p, !.detail = detail,
                               !.there = event \notin {"none", "erased"}]]
    /\ UNCHANGED <<panel, pass, reset, event, admins, changes>>

\* The order is read, and the page stripped of prices or not.
Shows(c, prices) ==
    /\ call[c].pc = "order"
    /\ call' = [call EXCEPT ![c].prices = prices,
                            ![c].pc = IF call[c].detail THEN "active" ELSE "shown"]
    /\ UNCHANGED <<panel, pass, reset, event, admins, changes>>

\* Mutant of ReadsOrder: only the list is stripped
ReadsOrderWhole(c) == Shows(c, call[c].detail \/ ~Restricted(call[c].who))

\* Whether it is stripped is decided by a second look at the role.
ReadsOrder(c) == Shows(c, ~Restricted(call[c].who))

\* buildActiveOrderAccountPayload finds an open event, or none.
ReadsActive(c) ==
    /\ call[c].pc = "active"
    /\ Goto(c, IF Exists(event) THEN "metrics" ELSE "snapshot")
    /\ UNCHANGED <<panel, pass, reset, event, admins, changes>>

\* The package's limit is read of an open event only: the page fails if it has
\* been closed meanwhile.
ReadsMetrics(c) ==
    /\ call[c].pc = "metrics"
    /\ IF Exists(event)
       THEN call' = [call EXCEPT ![c].pc = "shown", ![c].account = "live"]
       ELSE Ends(c)
    /\ UNCHANGED <<panel, pass, reset, event, admins, changes>>

\* buildSnapshotOrderAccountPayload
ReadsSnapshot(c) ==
    /\ call[c].pc = "snapshot"
    /\ call' = [call EXCEPT ![c].pc = "shown",
                            ![c].account = IF event = "closed" THEN "snapshot" ELSE "none"]
    /\ UNCHANGED <<panel, pass, reset, event, admins, changes>>

-----------------------------------------------------------------------------
(* The end of a call.                                                      *)

PageSent(c) ==
    /\ call[c].pc = "shown"
    /\ Ends(c)
    /\ UNCHANGED <<panel, pass, reset, event, admins, changes>>

\* No password was entered for an account that needs one, a statement fails, or
\* the server stops.  A reset link whose password is set and that cannot be
\* marked stays good.
Fails(c) ==
    /\ call[c].pc \notin {"idle", "shown"}
    /\ reset' = IF call[c].pc = "mark"
                THEN [reset EXCEPT ![call[c].reset].broken = TRUE] ELSE reset
    /\ Ends(c)
    /\ UNCHANGED <<panel, pass, event, admins, changes>>

-----------------------------------------------------------------------------
Granting(c) ==
    \/ GrantCreates(c) \/ GrantLooksActive(c) \/ GrantLooksEvent(c)
    \/ GrantSetsPassword(c) \/ GrantInserts(c)
Paging(c) == ReadsOrder(c) \/ ReadsActive(c) \/ ReadsMetrics(c) \/ ReadsSnapshot(c) \/ PageSent(c)
Confirming(c) == ConfirmSetsPassword(c) \/ ConfirmMarks(c)

Next ==
    \/ \E c \in Calls :
        \/ Granting(c) \/ Paging(c) \/ Confirming(c) \/ Fails(c)
        \/ \E p \in Staff : GrantLooks(c, p)
        \/ \E p \in People, detail \in BOOLEAN : OpensPage(c, p, detail)
        \/ \E x \in Resets : ConfirmReads(c, x)
    \/ \E p \in People : \/ Revoke(p) \/ EventOpens(p) \/ Joins(p)
                         \/ \E x \in Resets : RequestReset(x, p)
    \/ \E x \in Resets : ResetExpires(x)
    \/ EventCaptured \/ EventCloses \/ EventErased

Spec == Init /\ [][Next]_vars

-----------------------------------------------------------------------------
(* Properties.                                                             *)

CallPcs ==
    {"idle", "create", "role", "hosting", "password", "insert", "reset", "mark",
     "order", "active", "metrics", "snapshot", "shown"}

TypeOK ==
    /\ panel \in [People -> {"none", "active", "revoked"}]
    /\ pass \in [People -> {"none", "own", "panel"}]
    /\ reset \in [Resets -> [st: {"none", "sent", "expired", "used"},
                             who: People \cup {Nobody}, uses: 0..2, broken: BOOLEAN]]
    /\ event \in {"none", "open", "captured", "closed", "erased"}
    /\ admins \in SUBSET People
    /\ call \in [Calls -> [pc: CallPcs, who: People \cup {Nobody},
                           reset: Resets \cup {NoReset}, detail: BOOLEAN,
                           prices: BOOLEAN, account: {"none", "live", "snapshot"},
                           there: BOOLEAN, revoked: BOOLEAN, old: BOOLEAN,
                           joined: BOOLEAN]]
    /\ changes \in 0..MaxChanges

\* "Financial fields must not be shown to order_admin": a page with prices goes
\* to super admins, and to somebody else only if the role was taken away from
\* him while his request was being served (the second look then finds no
\* order_admin to restrict).
PricesForSuperAdmins ==
    \A c \in Calls :
        call[c].prices => call[c].who \in Supers \/ call[c].revoked

\* GetOrder falls back to the snapshot: the account of an order whose event was
\* there when the request began is never missing from the page, whenever the
\* event is closed, unless it has been removed for good.
AccountNeverBlank ==
    \A c \in Calls :
        call[c].pc = "shown" /\ call[c].detail /\ call[c].account = "none"
            => ~call[c].there \/ event = "erased"

\* "The credential is kept if the user has an active event": a grant changes no
\* host's password, unless its account became a host after the grant had looked.
HostKeepsPassword ==
    [][\A p \in People :
         pass[p] = "own" /\ pass'[p] = "panel"
            => ~HasOpenEvent(p) \/ \E c \in Calls : call[c].who = p /\ call[c].joined
      ]_vars

\* A reset link sets one password, unless two confirmations overlap or marking
\* it has failed.
LinkWorksOnce == \A x \in Resets : ~reset[x].broken => reset[x].uses <= 1
=============================================================================
