----------------------------- MODULE Ownership -----------------------------
(***************************************************************************)
(* Who looks after an event.  The link of a paid order opens an event for  *)
(* a new account (Post) or for an existing one (Attach); hosts invite      *)
(* further admins, dismiss each other and remove their accounts.           *)
(*                                                                         *)
(* Handlers check first and write later, one statement at a time, so their *)
(* requests interleave between the statements.  Orders are opened and      *)
(* decided as Order promises.                                              *)
(***************************************************************************)
EXTENDS Naturals, FiniteSets

CONSTANTS
    Purchases,
    Upgrades,   \* purchases with event_uid: they upgrade an event
    OwnerMail,  \* OwnerMail[p]: the address the link of p is made out to
    Users,      \* user rows that may ever be inserted
    Mail,       \* Mail[u]: the address u signs up with
    Invitees,   \* addresses that hosts invite
    Events,     \* event rows that may ever be inserted
    Requests,   \* requests that may run at the same time
    Faults,     \* a subset of FaultKinds
    NoUser, NoTarget

FaultKinds == {"db", "restart"}
Mails == {Mail[u] : u \in Users}

ASSUME UpgradesAssumption == Upgrades \subseteq Purchases
ASSUME MailsAssumption ==
    OwnerMail \in [Purchases -> Mails] /\ Invitees \subseteq Mails
ASSUME TargetsAssumption ==
    /\ Purchases \cap Events = {}
    /\ NoTarget \notin Purchases \cup Events /\ NoUser \notin Users
ASSUME FaultsAssumption == Faults \subseteq FaultKinds

VARIABLES
    decided,    \* the decision of an order, as in Order
    buyer,      \* purchases.buyer_uid
    account,    \* "none" (no row), "active" or "removed"
    order,      \* events.purchase_uid; NoTarget: no such row
    admins,     \* events.admins
    suspended,  \* events with status suspended; the others are paid
    closed,     \* events with deleted_at set
    invited,    \* invitation links, <<event, address>>
    pc, by, at, \* a request's next statement, its user, its order or event
    snap,       \* admins as they were when an account removal's statement began
    strained,   \* history: orders whose sign-up had no quiet run
    raced       \* history: events whose admins changed while one of them left

request == <<pc, by, at, snap>>
owners == <<buyer, account, order, admins, suspended>>
history == <<strained, raced>>
vars == <<decided, buyer, account, order, admins, suspended, closed, invited,
          pc, by, at, snap, strained, raced>>

Ordering == INSTANCE Order WITH
    Parts <- {}, Contents <- [p \in Purchases |-> {}], Discounted <- {},
    counted <- {}, delivered <- {}, applied <- {}

Opened == {e \in Events : order[e] # NoTarget}
Of(p) == {e \in Opened : order[e] = p}
Live(p) == Of(p) \ closed
Nobody == [e \in Events |-> {}]
SigningUp == {"create", "check", "buyer", "open"}

TypeOK ==
    /\ decided \in [Purchases -> {"none", "open", "paid", "failed"}]
    /\ buyer \in [Purchases -> Users \cup {NoUser}]
    /\ account \in [Users -> {"none", "active", "removed"}]
    /\ order \in [Events -> Purchases \cup {NoTarget}]
    /\ admins \in [Events -> SUBSET Users]
    /\ suspended \in SUBSET Events
    /\ closed \in SUBSET Events
    /\ invited \in SUBSET (Events \X Mails)
    /\ pc \in [Requests -> {"idle", "join", "dismiss", "leave"} \cup SigningUp]
    /\ by \in [Requests -> Users \cup {NoUser}]
    /\ at \in [Requests -> Purchases \cup Events \cup {NoTarget}]
    /\ snap \in [Requests -> [Events -> SUBSET Users]]
    /\ strained \in SUBSET Purchases
    /\ raced \in SUBSET Events

Init ==
    /\ decided = [p \in Purchases |-> "none"]
    /\ buyer = [p \in Purchases |-> NoUser]
    /\ account = [u \in Users |-> "none"]
    /\ order = [e \in Events |-> NoTarget]
    /\ admins = [e \in Events |-> {}]
    /\ suspended = {} /\ closed = {} /\ invited = {}
    /\ pc = [r \in Requests |-> "idle"]
    /\ by = [r \in Requests |-> NoUser]
    /\ at = [r \in Requests |-> NoTarget]
    /\ snap = [r \in Requests |-> Nobody]
    /\ strained = {} /\ raced = {}

-----------------------------------------------------------------------------

Ends(r) ==
    /\ pc' = [pc EXCEPT ![r] = "idle"]
    /\ by' = [by EXCEPT ![r] = NoUser]
    /\ at' = [at EXCEPT ![r] = NoTarget]
    /\ snap' = [snap EXCEPT ![r] = Nobody]

Starts(r, label, u, t) ==
    /\ pc[r] = "idle"
    /\ pc' = [pc EXCEPT ![r] = label]
    /\ by' = [by EXCEPT ![r] = u]
    /\ at' = [at EXCEPT ![r] = t]
    /\ UNCHANGED snap
    /\ strained' = strained \cup {p \in Purchases : /\ p = t
                                                    /\ \E q \in Requests : at[q] = t}

Goto(r, label) == pc' = [pc EXCEPT ![r] = label] /\ UNCHANGED <<by, at, snap>>

Taken(m) == \E v \in Users : account[v] = "active" /\ Mail[v] = m

-----------------------------------------------------------------------------
(* Links.  A link may turn up at any time: what it is worth is decided     *)
(* when it is used.                                                        *)

\* Mutants of Valid: the payment is not asked for; the address is not compared.
ValidUnpaid(t, m) ==
    \/ t \in Purchases /\ decided[t] # "none" /\ m = OwnerMail[t] /\ t \notin Upgrades
    \/ <<t, m>> \in invited

ValidAnyMail(t, m) ==
    \/ t \in Purchases /\ decided[t] = "paid" /\ t \notin Upgrades
    \/ \E n \in Mails : <<t, n>> \in invited

\* validateSignupToken and the comparison of the address, for the link of an
\* order ("m:") or an invitation ("c:").
Valid(t, m) ==
    \/ /\ t \in Purchases /\ decided[t] = "paid" /\ t \notin Upgrades
       /\ m = OwnerMail[t]
    \/ <<t, m>> \in invited

\* CollaboratorRoutes.New
Invite(v, e, m) ==
    /\ e \notin closed /\ v \in admins[e] /\ m \in Invitees
    /\ invited' = invited \cup {<<e, m>>}
    /\ UNCHANGED <<decided, owners, closed, request, history>>

\* Post up to EmailExists.  The row's uid is one nobody else will get.
Post(r, u, t) ==
    /\ Valid(t, Mail[u]) /\ ~Taken(Mail[u])
    /\ account[u] = "none" /\ \A q \in Requests : by[q] # u
    /\ Starts(r, "create", u, t)
    /\ UNCHANGED <<decided, owners, closed, invited, raced>>

\* Mutants of Attach: the order's event is not looked for; a link that a buyer
\* has begun to use is theirs.
AttachBlindly(r, u, t) ==
    /\ Valid(t, Mail[u]) /\ account[u] = "active"
    /\ Starts(r, IF t \in Purchases THEN "buyer" ELSE "join", u, t)
    /\ UNCHANGED <<decided, owners, closed, invited, raced>>

AttachBuyer(r, u, t) ==
    /\ Valid(t, Mail[u]) /\ account[u] = "active"
    /\ t \in Purchases /\ buyer[t] = u
    /\ Starts(r, "check", u, t)
    /\ UNCHANGED <<decided, owners, closed, invited, raced>>

\* Attach up to CheckPassword, which only the account's owner passes.
Attach(r, u, t) ==
    /\ Valid(t, Mail[u]) /\ account[u] = "active"
    /\ Starts(r, IF t \in Purchases THEN "check" ELSE "join", u, t)
    /\ UNCHANGED <<decided, owners, closed, invited, raced>>

-----------------------------------------------------------------------------
(* The statements of Post and Attach.                                      *)

\* CreateUser: users.mail is UNIQUE.
Create(r) ==
    LET u == by[r] IN
    /\ pc[r] = "create"
    /\ IF Taken(Mail[u]) THEN Ends(r) /\ UNCHANGED account
       ELSE /\ account' = [account EXCEPT ![u] = "active"]
            /\ Goto(r, IF at[r] \in Purchases THEN "buyer" ELSE "join")
    /\ UNCHANGED <<decided, buyer, order, admins, suspended, closed, invited,
                   history>>

\* An order with an event that is not closed is not opened again.
Check(r) ==
    /\ pc[r] = "check"
    /\ IF Live(at[r]) # {} THEN Ends(r) ELSE Goto(r, "buyer")
    /\ UNCHANGED <<decided, owners, closed, invited, history>>

\* A query that fails counts as no event.
CheckFails(r) ==
    /\ "db" \in Faults
    /\ pc[r] = "check"
    /\ Goto(r, "buyer")
    /\ strained' = strained \cup {at[r]}
    /\ UNCHANGED <<decided, owners, closed, invited, raced>>

SetBuyer(r) ==
    /\ pc[r] = "buyer"
    /\ buyer' = [buyer EXCEPT ![at[r]] = by[r]]
    /\ Goto(r, "open")
    /\ UNCHANGED <<decided, account, order, admins, suspended, closed, invited,
                   history>>

\* An account that is gone by now still gets its event.
OpenEvent(r) ==
    /\ pc[r] = "open"
    /\ \E e \in Events \ Opened :
        /\ order' = [order EXCEPT ![e] = at[r]]
        /\ admins' = [admins EXCEPT ![e] = {by[r]}]
        /\ raced' = IF account[by[r]] = "removed" THEN raced \cup {e} ELSE raced
    /\ Ends(r)
    /\ UNCHANGED <<decided, buyer, account, suspended, closed, invited, strained>>

\* array_append, for Attach unless the account is among the admins.
Join(r) ==
    /\ pc[r] = "join"
    /\ admins' = [admins EXCEPT ![at[r]] = @ \cup {by[r]}]
    /\ raced' = IF account[by[r]] = "removed" THEN raced \cup {at[r]} ELSE raced
    /\ Ends(r)
    /\ UNCHANGED <<decided, buyer, account, order, suspended, closed, invited,
                   strained>>

-----------------------------------------------------------------------------
(* Hosts who go.                                                           *)

\* DeleteByEvent: any admin may dismiss any admin, themselves included.
Dismiss(r, v, u, e) ==
    /\ e \in Opened \ closed /\ {u, v} \subseteq admins[e]
    /\ Starts(r, "dismiss", u, e)
    /\ UNCHANGED <<decided, owners, closed, invited, raced>>

\* Delete finds an event the two share, for its buyer only.
DismissShared(r, v, u, e) == e \in Opened /\ buyer[order[e]] = v /\ Dismiss(r, v, u, e)

Dismissed(r) ==
    /\ pc[r] = "dismiss"
    /\ admins' = IF at[r] \in closed THEN admins
                 ELSE [admins EXCEPT ![at[r]] = @ \ {by[r]}]
    /\ Ends(r)
    /\ UNCHANGED <<decided, buyer, account, order, suspended, closed, invited,
                   history>>

\* RemoveUser is one statement whose parts see the rows as it began ...
Leave(r, u) ==
    /\ account[u] = "active"
    /\ pc[r] = "idle"
    /\ pc' = [pc EXCEPT ![r] = "leave"]
    /\ by' = [by EXCEPT ![r] = u]
    /\ snap' = [snap EXCEPT ![r] = admins]
    /\ UNCHANGED <<at, decided, owners, closed, invited, history>>

\* Mutant of Left: the sole admin's event is left as it is.
LeftActive(r) ==
    /\ pc[r] = "leave"
    /\ account' = [account EXCEPT ![by[r]] = "removed"]
    /\ admins' = [e \in Events |->
                    IF Cardinality(admins[e]) > 1 THEN admins[e] \ {by[r]} ELSE admins[e]]
    /\ Ends(r)
    /\ UNCHANGED <<decided, buyer, order, suspended, closed, invited, history>>

\* ... and which take a row that has changed meanwhile only if their condition
\* still holds.  The account's address becomes free.
Left(r) ==
    LET u == by[r]
        Sole(who) == who = {u}
        Shared(who) == u \in who /\ who # {u} IN
    /\ pc[r] = "leave"
    /\ account' = [account EXCEPT ![u] = "removed"]
    /\ suspended' = suspended \cup {e \in Events : Sole(snap[r][e]) /\ Sole(admins[e])}
    /\ admins' = [e \in Events |-> IF Shared(snap[r][e]) /\ Shared(admins[e])
                                   THEN admins[e] \ {u} ELSE admins[e]]
    /\ strained' = strained \cup {p \in Purchases : OwnerMail[p] = Mail[u]}
    /\ raced' = raced \cup {e \in Events : admins[e] # snap[r][e]}
    /\ Ends(r)
    /\ UNCHANGED <<decided, buyer, order, closed, invited>>

\* An event is deleted by a host or the panel, or its storage has ended.
Closes(e) ==
    /\ e \in Opened \ closed
    /\ closed' = closed \cup {e}
    /\ UNCHANGED <<decided, owners, invited, request, history>>

-----------------------------------------------------------------------------

Fails(r) ==
    /\ "db" \in Faults
    /\ pc[r] \notin {"idle", "check"}
    /\ Ends(r)
    /\ UNCHANGED <<decided, owners, closed, invited, history>>

Restart ==
    /\ "restart" \in Faults
    /\ \E r \in Requests : pc[r] # "idle"
    /\ pc' = [r \in Requests |-> "idle"]
    /\ by' = [r \in Requests |-> NoUser]
    /\ at' = [r \in Requests |-> NoTarget]
    /\ snap' = [r \in Requests |-> Nobody]
    /\ UNCHANGED <<decided, owners, closed, invited, history>>

\* Orders go their way.
Decides(p) ==
    /\ Ordering!Open(p) \/ Ordering!Decide(p)
    /\ UNCHANGED <<owners, closed, invited, request, history>>

Proceeds(r) ==
    \/ Create(r) \/ Check(r) \/ SetBuyer(r) \/ OpenEvent(r) \/ Join(r)
    \/ Dismissed(r) \/ Left(r)

Next ==
    \/ \E p \in Purchases : Decides(p)
    \/ \E r \in Requests, u \in Users :
        \/ Leave(r, u)
        \/ \E t \in Purchases \cup Events : Post(r, u, t) \/ Attach(r, u, t)
        \/ \E v \in Users, e \in Events :
            Dismiss(r, v, u, e) \/ DismissShared(r, v, u, e)
    \/ \E v \in Users, e \in Events, m \in Mails : Invite(v, e, m)
    \/ \E e \in Events : Closes(e)
    \/ \E r \in Requests : Proceeds(r) \/ CheckFails(r) \/ Fails(r)
    \/ Restart

Spec == Init /\ [][Next]_vars

\* Requests end, the owner of a paid order tries again until it has an event,
\* and no fault hits the same statement of the sign-up every time.
SignUp(p) ==
    \E r \in Requests, u \in Users :
        Live(p) = {} /\ Mail[u] = OwnerMail[p] /\ (Post(r, u, p) \/ Attach(r, u, p))

Fairness ==
    /\ \A r \in Requests : WF_vars(Proceeds(r))
    /\ \A p \in Purchases \ Upgrades :
        /\ SF_vars(SignUp(p))
        /\ SF_vars(\E r \in Requests : at[r] = p /\ (Create(r) \/ Check(r)))
        /\ SF_vars(\E r \in Requests : at[r] = p /\ SetBuyer(r))
        /\ SF_vars(\E r \in Requests : at[r] = p /\ OpenEvent(r))

FairSpec == Spec /\ Fairness

-----------------------------------------------------------------------------
(* Properties.                                                             *)

\* "An m: link opens a paid event": whatever links are kept or made out, events
\* are opened only for orders that LiqPay confirmed and that upgrade nothing.
EventIsPaid ==
    \A e \in Opened : decided[order[e]] = "paid" /\ order[e] \notin Upgrades

\* An order has one event at a time, however often its link is used and whatever
\* fails, as long as its sign-up requests do not overlap, the look-up of its
\* event works and its owner keeps the account.
OneEvent ==
    \A p \in Purchases \ strained : Cardinality(Live(p)) <= 1

\* Nobody looks after an event who was not let in, by the order's link or by an
\* invitation to that event.
AdminsWereLetIn ==
    \A e \in Opened : \A u \in admins[e] :
        Mail[u] = OwnerMail[order[e]] \/ <<e, Mail[u]>> \in invited

\* A removed account leaves its events to the other admins or suspends them,
\* unless the admins change while it is being removed.
RemovedIsSuspended ==
    \A e \in Opened \ raced : \A u \in admins[e] :
        account[u] = "removed" => e \in suspended

\* A paid order gets its event in the end, wherever earlier attempts broke off,
\* unless every account that its address may have has been removed.
BuyerGetsEvent ==
    \A p \in Purchases \ Upgrades :
        decided[p] = "paid" ~>
            \/ Of(p) # {}
            \/ \A u \in Users : Mail[u] = OwnerMail[p] => account[u] = "removed"
=============================================================================
