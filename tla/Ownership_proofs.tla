-------------------------- MODULE Ownership_proofs --------------------------
(***************************************************************************)
(* Proofs about the ownership of events, for any number of orders,         *)
(* accounts, events and requests and every set of faults.                  *)
(***************************************************************************)
EXTENDS Ownership, FiniteSetTheorems, TLAPS

\* A request that signs somebody up holds a link that was and stays good, for an
\* order as long as it works on its event, for an event when it joins it.
RequestOK(r) ==
    /\ pc[r] # "idle" => by[r] \in Users
    /\ pc[r] \in SigningUp \cup {"join"} => Valid(at[r], Mail[by[r]])
    /\ pc[r] \in {"check", "buyer", "open"} => at[r] \in Purchases
    /\ pc[r] \in {"join", "dismiss"} => at[r] \in Events

RequestInv == \A r \in Requests : RequestOK(r)

IInv ==
    /\ TypeOK
    /\ RequestInv
    /\ EventIsPaid
    /\ AdminsWereLetIn
    /\ RemovedIsSuspended

-----------------------------------------------------------------------------
(* Links.                                                                  *)

LEMMA DecisionsStay ==
  ASSUME TypeOK, NEW p \in Purchases, Decides(p)
  PROVE  /\ decided' \in [Purchases -> {"none", "open", "paid", "failed"}]
         /\ \A q \in Purchases : decided[q] = "paid" => decided'[q] = "paid"
<1>1. CASE Ordering!Open(p)
  BY <1>1 DEF Ordering!Open, TypeOK
<1>2. CASE Ordering!Decide(p)
  <2>1. PICK outcome \in {"paid", "failed"} : decided' = [decided EXCEPT ![p] = outcome]
    BY <1>2 DEF Ordering!Decide
  <2>2. decided[p] = "open"
    BY <1>2 DEF Ordering!Decide
  <2> QED
    BY <2>1, <2>2 DEF TypeOK
<1> QED
  BY <1>1, <1>2 DEF Decides

\* What a link is worth for an order, and for an event.
LEMMA LinkOfOrder ==
  ASSUME TypeOK, NEW p \in Purchases, NEW m, Valid(p, m)
  PROVE  decided[p] = "paid" /\ p \notin Upgrades /\ m = OwnerMail[p]
BY TargetsAssumption DEF Valid, TypeOK

LEMMA LinkOfEvent ==
  ASSUME TypeOK, NEW t, NEW m, Valid(t, m), t \notin Purchases
  PROVE  t \in Events /\ <<t, m>> \in invited
BY DEF Valid, TypeOK

\* A link does not get worse.
LEMMA LinksStay ==
  ASSUME NEW t, NEW m, Valid(t, m),
         \A q \in Purchases : decided[q] = "paid" => decided'[q] = "paid",
         invited \subseteq invited'
  PROVE  \/ /\ t \in Purchases /\ decided'[t] = "paid" /\ t \notin Upgrades
            /\ m = OwnerMail[t]
         \/ <<t, m>> \in invited'
BY DEF Valid

\* A request that a step leaves alone, or that the step ends, is all right.
LEMMA RequestStays ==
  ASSUME TypeOK, NEW q \in Requests, RequestOK(q),
         \A p \in Purchases : decided[p] = "paid" => decided'[p] = "paid",
         invited \subseteq invited',
         pc'[q] = "idle" \/ (pc'[q] = pc[q] /\ by'[q] = by[q] /\ at'[q] = at[q])
  PROVE  RequestOK(q)'
<1>1. CASE pc'[q] = "idle"
  BY <1>1 DEF RequestOK, SigningUp
<1>2. CASE pc'[q] = pc[q] /\ by'[q] = by[q] /\ at'[q] = at[q]
  <2>1. ASSUME pc[q] \in SigningUp \cup {"join"} PROVE Valid(at[q], Mail[by[q]])'
    <3>1. Valid(at[q], Mail[by[q]])
      BY <2>1 DEF RequestOK
    <3> QED
      BY <1>2, <3>1, LinksStay DEF Valid
  <2> QED
    BY <1>2, <2>1 DEF RequestOK
<1> QED
  BY <1>1, <1>2

LEMMA EndsEffect ==
  ASSUME TypeOK, NEW r \in Requests, Ends(r)
  PROVE  /\ pc' \in [Requests -> {"idle", "join", "dismiss", "leave"} \cup SigningUp]
         /\ by' \in [Requests -> Users \cup {NoUser}]
         /\ at' \in [Requests -> Purchases \cup Events \cup {NoTarget}]
         /\ snap' \in [Requests -> [Events -> SUBSET Users]]
         /\ pc'[r] = "idle"
         /\ \A q \in Requests : q # r => /\ pc'[q] = pc[q] /\ by'[q] = by[q]
                                         /\ at'[q] = at[q]
<1>1. Nobody \in [Events -> SUBSET Users]
  BY DEF Nobody
<1> QED
  BY <1>1 DEF Ends, TypeOK

LEMMA StartsEffect ==
  ASSUME TypeOK, NEW r \in Requests, NEW u \in Users,
         NEW t \in Purchases \cup Events,
         NEW l \in {"join", "dismiss"} \cup SigningUp, Starts(r, l, u, t)
  PROVE  /\ pc' \in [Requests -> {"idle", "join", "dismiss", "leave"} \cup SigningUp]
         /\ by' \in [Requests -> Users \cup {NoUser}]
         /\ at' \in [Requests -> Purchases \cup Events \cup {NoTarget}]
         /\ snap' \in [Requests -> [Events -> SUBSET Users]]
         /\ strained' \in SUBSET Purchases
         /\ pc'[r] = l /\ by'[r] = u /\ at'[r] = t
         /\ \A q \in Requests : q # r => /\ pc'[q] = pc[q] /\ by'[q] = by[q]
                                         /\ at'[q] = at[q]
BY DEF Starts, TypeOK

LEMMA GotoEffect ==
  ASSUME TypeOK, NEW r \in Requests,
         NEW l \in {"join", "dismiss"} \cup SigningUp, Goto(r, l)
  PROVE  /\ pc' \in [Requests -> {"idle", "join", "dismiss", "leave"} \cup SigningUp]
         /\ UNCHANGED <<by, at, snap>>
         /\ pc'[r] = l
         /\ \A q \in Requests : q # r => /\ pc'[q] = pc[q] /\ by'[q] = by[q]
                                         /\ at'[q] = at[q]
BY DEF Goto, TypeOK

-----------------------------------------------------------------------------
(* Events, when a step does not touch their rows.                          *)

LEMMA EventsStay ==
  ASSUME TypeOK, EventIsPaid, AdminsWereLetIn, RemovedIsSuspended,
         \A p \in Purchases : decided[p] = "paid" => decided'[p] = "paid",
         invited \subseteq invited', UNCHANGED order,
         \A e \in Events : admins'[e] \subseteq admins[e],
         \A e \in Events \ raced' : \A u \in admins'[e] :
            account'[u] = "removed" => account[u] = "removed" \/ e \in suspended',
         suspended \subseteq suspended', raced \subseteq raced'
  PROVE  EventIsPaid' /\ AdminsWereLetIn' /\ RemovedIsSuspended'
<1>1. Opened' = Opened
  BY DEF Opened
<1>2. EventIsPaid'
  <2> SUFFICES ASSUME NEW e \in Opened
               PROVE  decided'[order[e]] = "paid" /\ order[e] \notin Upgrades
    BY <1>1 DEF EventIsPaid
  <2>1. order[e] \in Purchases
    BY DEF Opened, TypeOK
  <2> QED
    BY <2>1 DEF EventIsPaid
<1>3. AdminsWereLetIn'
  BY <1>1 DEF AdminsWereLetIn, Opened
<1>4. RemovedIsSuspended'
  <2> SUFFICES ASSUME NEW e \in Opened \ raced', NEW u \in admins'[e],
                      account'[u] = "removed"
               PROVE  e \in suspended'
    BY <1>1 DEF RemovedIsSuspended
  <2>1. e \in Events /\ e \in Opened \ raced /\ u \in admins[e]
    BY DEF Opened
  <2>2. account[u] = "removed" \/ e \in suspended'
    BY <2>1
  <2> QED
    BY <2>1, <2>2 DEF RemovedIsSuspended
<1> QED
  BY <1>2, <1>3, <1>4

-----------------------------------------------------------------------------
(* The steps.                                                              *)

LEMMA InitIInv == Init => IInv
<1> SUFFICES ASSUME Init PROVE IInv
  OBVIOUS
<1>1. TypeOK
  BY DEF Init, TypeOK, Nobody
<1>2. RequestInv
  BY DEF Init, RequestInv, RequestOK, SigningUp
<1>3. Opened = {}
  BY DEF Init, Opened
<1> QED
  BY <1>1, <1>2, <1>3 DEF IInv, EventIsPaid, AdminsWereLetIn, RemovedIsSuspended

LEMMA DecidesIInv == ASSUME IInv, NEW p \in Purchases, Decides(p) PROVE IInv'
<1>1. /\ decided' \in [Purchases -> {"none", "open", "paid", "failed"}]
      /\ \A q \in Purchases : decided[q] = "paid" => decided'[q] = "paid"
  BY DecisionsStay DEF IInv
<1>2. UNCHANGED <<owners, closed, invited, request, history>>
  BY DEF Decides
<1>3. TypeOK'
  BY <1>1, <1>2 DEF IInv, TypeOK, owners, request, history
<1>4. RequestInv'
  BY <1>1, <1>2, RequestStays DEF IInv, RequestInv, request
<1>5. EventIsPaid' /\ AdminsWereLetIn' /\ RemovedIsSuspended'
  BY <1>1, <1>2, EventsStay DEF IInv, owners, history
<1> QED
  BY <1>3, <1>4, <1>5 DEF IInv

LEMMA InviteIInv ==
  ASSUME IInv, NEW v \in Users, NEW e \in Events, NEW m \in Mails, Invite(v, e, m)
  PROVE  IInv'
<1>1. /\ UNCHANGED <<decided, owners, closed, request, history>>
      /\ invited' = invited \cup {<<e, m>>}
  BY DEF Invite
<1>2. TypeOK'
  BY <1>1 DEF IInv, TypeOK, owners, request, history
<1>3. RequestInv'
  BY <1>1, RequestStays DEF IInv, RequestInv, request
<1>4. EventIsPaid' /\ AdminsWereLetIn' /\ RemovedIsSuspended'
  BY <1>1, EventsStay DEF IInv, owners, history
<1> QED
  BY <1>2, <1>3, <1>4 DEF IInv

LEMMA ClosesIInv == ASSUME IInv, NEW e \in Events, Closes(e) PROVE IInv'
<1>1. /\ UNCHANGED <<decided, owners, invited, request, history>>
      /\ closed' = closed \cup {e}
  BY DEF Closes
<1>2. TypeOK'
  BY <1>1 DEF IInv, TypeOK, owners, request, history
<1>3. RequestInv'
  BY <1>1, RequestStays DEF IInv, RequestInv, request
<1>4. EventIsPaid' /\ AdminsWereLetIn' /\ RemovedIsSuspended'
  BY <1>1, EventsStay DEF IInv, owners, history
<1> QED
  BY <1>2, <1>3, <1>4 DEF IInv

LEMMA LeaveIInv ==
  ASSUME IInv, NEW r \in Requests, NEW u \in Users, Leave(r, u)
  PROVE  IInv'
<1>1. /\ UNCHANGED <<at, decided, owners, closed, invited, history>>
      /\ pc' = [pc EXCEPT ![r] = "leave"] /\ by' = [by EXCEPT ![r] = u]
      /\ snap' = [snap EXCEPT ![r] = admins]
  BY DEF Leave
<1>2. TypeOK'
  BY <1>1 DEF IInv, TypeOK, owners, history
<1>3. RequestInv'
  <2> SUFFICES ASSUME NEW q \in Requests PROVE RequestOK(q)'
    BY DEF RequestInv
  <2>1. CASE q = r
    BY <1>1, <2>1 DEF IInv, TypeOK, RequestOK, SigningUp
  <2>2. CASE q # r
    BY <1>1, <2>2, RequestStays DEF IInv, TypeOK, RequestInv
  <2> QED
    BY <2>1, <2>2
<1>4. EventIsPaid' /\ AdminsWereLetIn' /\ RemovedIsSuspended'
  BY <1>1, EventsStay DEF IInv, owners, history
<1> QED
  BY <1>2, <1>3, <1>4 DEF IInv

\* A request that starts with a good link, or to dismiss an admin.
LEMMA StartIInv ==
  ASSUME IInv, NEW r \in Requests, NEW u \in Users, NEW t \in Purchases \cup Events,
         NEW l \in {"join", "dismiss"} \cup SigningUp, Starts(r, l, u, t),
         UNCHANGED <<decided, owners, closed, invited, raced>>,
         l # "dismiss" => Valid(t, Mail[u]),
         l \in {"check", "buyer", "open"} => t \in Purchases,
         l \in {"join", "dismiss"} => t \in Events
  PROVE  IInv'
<1> USE StartsEffect
<1>1. TypeOK'
  BY DEF IInv, TypeOK, owners
<1>2. RequestInv'
  <2> SUFFICES ASSUME NEW q \in Requests PROVE RequestOK(q)'
    BY DEF RequestInv
  <2>1. CASE q = r
    <3>1. pc'[r] = l /\ by'[r] = u /\ at'[r] = t
      BY DEF IInv
    <3>2. l # "dismiss" => Valid(t, Mail[u])'
      BY DEF Valid
    <3>3. Mail[by'[r]] = Mail[u]
      BY <3>1
    <3>4. l # "dismiss" => Valid(at[r], Mail[by[r]])'
      BY <3>1, <3>2, <3>3 DEF Valid
    <3> QED
      BY <2>1, <3>1, <3>4 DEF RequestOK, SigningUp
  <2>2. CASE q # r
    BY <2>2, RequestStays DEF IInv, RequestInv
  <2> QED
    BY <2>1, <2>2
<1>3. EventIsPaid' /\ AdminsWereLetIn' /\ RemovedIsSuspended'
  BY EventsStay DEF IInv, owners
<1> QED
  BY <1>1, <1>2, <1>3 DEF IInv

LEMMA PostIInv ==
  ASSUME IInv, NEW r \in Requests, NEW u \in Users, NEW t \in Purchases \cup Events,
         Post(r, u, t)
  PROVE  IInv'
<1>1. /\ Starts(r, "create", u, t) /\ Valid(t, Mail[u])
      /\ UNCHANGED <<decided, owners, closed, invited, raced>>
  BY DEF Post
<1> QED
  BY <1>1, StartIInv DEF SigningUp

LEMMA AttachIInv ==
  ASSUME IInv, NEW r \in Requests, NEW u \in Users, NEW t \in Purchases \cup Events,
         Attach(r, u, t)
  PROVE  IInv'
<1>1. /\ Starts(r, IF t \in Purchases THEN "check" ELSE "join", u, t)
      /\ Valid(t, Mail[u])
      /\ UNCHANGED <<decided, owners, closed, invited, raced>>
  BY DEF Attach
<1>2. CASE t \in Purchases
  <2>1. Starts(r, "check", u, t)
    BY <1>1, <1>2
  <2> QED
    BY <1>1, <1>2, <2>1, StartIInv DEF SigningUp
<1>3. CASE t \notin Purchases
  <2>1. Starts(r, "join", u, t)
    BY <1>1, <1>3
  <2> QED
    BY <1>1, <1>3, <2>1, StartIInv DEF SigningUp
<1> QED
  BY <1>2, <1>3

LEMMA DismissIInv ==
  ASSUME IInv, NEW r \in Requests, NEW v \in Users, NEW u \in Users, NEW e \in Events,
         Dismiss(r, v, u, e)
  PROVE  IInv'
<1>1. /\ Starts(r, "dismiss", u, e)
      /\ UNCHANGED <<decided, owners, closed, invited, raced>>
  BY DEF Dismiss
<1> QED
  BY <1>1, StartIInv DEF SigningUp

-----------------------------------------------------------------------------
(* The statements of a request.                                            *)

\* A step that ends a request, or takes it to its next statement, keeps the
\* requests in order.
LEMMA RequestsEnd ==
  ASSUME IInv, NEW r \in Requests, Ends(r), UNCHANGED <<decided, invited>>
  PROVE  RequestInv'
<1> SUFFICES ASSUME NEW q \in Requests PROVE RequestOK(q)'
  BY DEF RequestInv
<1> QED
  BY EndsEffect, RequestStays DEF IInv, RequestInv

LEMMA RequestsGoOn ==
  ASSUME IInv, NEW r \in Requests, NEW l \in SigningUp \cup {"join"}, Goto(r, l),
         pc[r] \in SigningUp, UNCHANGED <<decided, invited>>,
         IF l = "join" THEN at[r] \in Events ELSE at[r] \in Purchases
  PROVE  RequestInv'
<1> SUFFICES ASSUME NEW q \in Requests PROVE RequestOK(q)'
  BY DEF RequestInv
<1>1. /\ UNCHANGED <<by, at, snap>> /\ pc'[r] = l
      /\ \A x \in Requests : x # r => pc'[x] = pc[x]
  BY GotoEffect DEF IInv
<1>2. CASE q = r
  <2>1. by[r] \in Users /\ Valid(at[r], Mail[by[r]])
    BY DEF IInv, RequestInv, RequestOK, SigningUp
  <2>2. Valid(at[r], Mail[by[r]])'
    BY <1>1, <2>1 DEF Valid
  <2> QED
    BY <1>1, <1>2, <2>1, <2>2 DEF RequestOK, SigningUp
<1>3. CASE q # r
  BY <1>1, <1>3, RequestStays DEF IInv, RequestInv
<1> QED
  BY <1>2, <1>3

LEMMA CreateIInv == ASSUME IInv, NEW r \in Requests, Create(r) PROVE IInv'
<1>1. /\ pc[r] = "create"
      /\ UNCHANGED <<decided, buyer, order, admins, suspended, closed, invited, history>>
  BY DEF Create
<1>2. by[r] \in Users /\ Valid(at[r], Mail[by[r]])
  BY <1>1 DEF IInv, RequestInv, RequestOK, SigningUp
<1>3. CASE Ends(r) /\ UNCHANGED account
  <2>1. TypeOK'
    BY <1>1, <1>3, EndsEffect DEF IInv, TypeOK, history
  <2>2. RequestInv'
    BY <1>1, <1>3, RequestsEnd
  <2>3. EventIsPaid' /\ AdminsWereLetIn' /\ RemovedIsSuspended'
    BY <1>1, <1>3, EventsStay DEF IInv, history
  <2> QED
    BY <2>1, <2>2, <2>3 DEF IInv
<1>4. CASE /\ account' = [account EXCEPT ![by[r]] = "active"]
           /\ Goto(r, IF at[r] \in Purchases THEN "buyer" ELSE "join")
  <2>1. PICK l \in {"buyer", "join"} : l = (IF at[r] \in Purchases THEN "buyer" ELSE "join")
    OBVIOUS
  <2>2. Goto(r, l)
    BY <1>4, <2>1
  <2>3. l \in SigningUp \cup {"join"}
    BY <2>1 DEF SigningUp
  <2>4. IF l = "join" THEN at[r] \in Events ELSE at[r] \in Purchases
    BY <1>2, <2>1, LinkOfEvent DEF IInv
  <2>5. TypeOK'
    BY <1>1, <1>2, <1>4, <2>2, <2>3, GotoEffect DEF IInv, TypeOK, history
  <2>6. RequestInv'
    BY <1>1, <2>2, <2>3, <2>4, RequestsGoOn DEF SigningUp
  <2>7. EventIsPaid' /\ AdminsWereLetIn' /\ RemovedIsSuspended'
    <3>1. \A u \in Users : account'[u] = "removed" => account[u] = "removed"
      BY <1>2, <1>4 DEF IInv, TypeOK
    <3> QED
      BY <1>1, <3>1, EventsStay DEF IInv, TypeOK, history
  <2> QED
    BY <2>5, <2>6, <2>7 DEF IInv
<1> QED
  BY <1>3, <1>4 DEF Create

LEMMA CheckIInv ==
  ASSUME IInv, NEW r \in Requests, Check(r) \/ CheckFails(r)
  PROVE  IInv'
<1>1. /\ pc[r] = "check" /\ at[r] \in Purchases
      /\ UNCHANGED <<decided, owners, closed, invited, raced>>
      /\ strained' \in SUBSET Purchases
  BY DEF Check, CheckFails, history, IInv, RequestInv, RequestOK, TypeOK
<1>2. Ends(r) \/ Goto(r, "buyer")
  BY DEF Check, CheckFails
<1>3. TypeOK'
  <2>1. CASE Ends(r)
    BY <1>1, <2>1, EndsEffect DEF IInv, TypeOK, owners
  <2>2. CASE Goto(r, "buyer")
    BY <1>1, <2>2, GotoEffect DEF IInv, TypeOK, owners, SigningUp
  <2> QED
    BY <1>2, <2>1, <2>2
<1>4. RequestInv'
  BY <1>1, <1>2, RequestsEnd, RequestsGoOn DEF SigningUp
<1>5. EventIsPaid' /\ AdminsWereLetIn' /\ RemovedIsSuspended'
  BY <1>1, EventsStay DEF IInv, owners
<1> QED
  BY <1>3, <1>4, <1>5 DEF IInv

LEMMA SetBuyerIInv == ASSUME IInv, NEW r \in Requests, SetBuyer(r) PROVE IInv'
<1>1. /\ pc[r] = "buyer" /\ at[r] \in Purchases /\ by[r] \in Users
      /\ buyer' = [buyer EXCEPT ![at[r]] = by[r]]
      /\ Goto(r, "open")
      /\ UNCHANGED <<decided, account, order, admins, suspended, closed, invited, history>>
  BY DEF SetBuyer, IInv, RequestInv, RequestOK
<1>2. TypeOK'
  BY <1>1, GotoEffect DEF IInv, TypeOK, history, SigningUp
<1>3. RequestInv'
  BY <1>1, RequestsGoOn DEF SigningUp
<1>4. EventIsPaid' /\ AdminsWereLetIn' /\ RemovedIsSuspended'
  BY <1>1, EventsStay DEF IInv, history
<1> QED
  BY <1>2, <1>3, <1>4 DEF IInv

LEMMA OpenEventIInv == ASSUME IInv, NEW r \in Requests, OpenEvent(r) PROVE IInv'
<1>1. PICK e \in Events \ Opened :
        /\ order' = [order EXCEPT ![e] = at[r]]
        /\ admins' = [admins EXCEPT ![e] = {by[r]}]
        /\ raced' = IF account[by[r]] = "removed" THEN raced \cup {e} ELSE raced
  BY DEF OpenEvent
<1>2. /\ pc[r] = "open" /\ Ends(r)
      /\ UNCHANGED <<decided, buyer, account, suspended, closed, invited, strained>>
  BY DEF OpenEvent
<1>3. /\ at[r] \in Purchases /\ by[r] \in Users /\ Valid(at[r], Mail[by[r]])
  BY <1>2 DEF IInv, RequestInv, RequestOK, SigningUp
<1>4. PICK p \in Purchases, u \in Users : p = at[r] /\ u = by[r]
  BY <1>3
<1>5. decided[p] = "paid" /\ p \notin Upgrades /\ Mail[u] = OwnerMail[p]
  BY <1>3, <1>4, LinkOfOrder DEF IInv
<1>6. /\ order'[e] = p /\ admins'[e] = {u}
      /\ \A f \in Events : f # e => order'[f] = order[f] /\ admins'[f] = admins[f]
      /\ Opened' = Opened \cup {e}
      /\ raced \subseteq raced'
  BY <1>1, <1>4, TargetsAssumption DEF IInv, TypeOK, Opened
<1>7. TypeOK'
  BY <1>1, <1>2, <1>4, EndsEffect DEF IInv, TypeOK
<1>8. RequestInv'
  BY <1>2, RequestsEnd
<1>9. EventIsPaid'
  BY <1>2, <1>5, <1>6 DEF IInv, EventIsPaid, Opened
<1>10. AdminsWereLetIn'
  BY <1>2, <1>5, <1>6 DEF IInv, AdminsWereLetIn, Opened
<1>11. RemovedIsSuspended'
  <2> SUFFICES ASSUME NEW f \in Opened' \ raced', NEW w \in admins'[f],
                      account[w] = "removed"
               PROVE  f \in suspended
    BY <1>2 DEF RemovedIsSuspended
  <2>1. CASE f = e
    BY <1>1, <1>4, <1>6, <2>1
  <2>2. CASE f # e
    BY <1>6, <2>2 DEF IInv, RemovedIsSuspended, Opened
  <2> QED
    BY <2>1, <2>2
<1> QED
  BY <1>7, <1>8, <1>9, <1>10, <1>11 DEF IInv

LEMMA JoinIInv == ASSUME IInv, NEW r \in Requests, Join(r) PROVE IInv'
<1>1. /\ pc[r] = "join" /\ Ends(r)
      /\ admins' = [admins EXCEPT ![at[r]] = @ \cup {by[r]}]
      /\ raced' = IF account[by[r]] = "removed" THEN raced \cup {at[r]} ELSE raced
      /\ UNCHANGED <<decided, buyer, account, order, suspended, closed, invited, strained>>
  BY DEF Join
<1>2. at[r] \in Events /\ by[r] \in Users /\ Valid(at[r], Mail[by[r]])
  BY <1>1 DEF IInv, RequestInv, RequestOK, SigningUp
<1>3. PICK e \in Events, u \in Users : e = at[r] /\ u = by[r]
  BY <1>2
<1>4. <<e, Mail[u]>> \in invited
  BY <1>2, <1>3, LinkOfEvent, TargetsAssumption DEF IInv
<1>5. /\ admins'[e] = admins[e] \cup {u}
      /\ \A f \in Events : f # e => admins'[f] = admins[f]
      /\ Opened' = Opened
      /\ raced \subseteq raced'
  BY <1>1, <1>3 DEF IInv, TypeOK, Opened
<1>6. TypeOK'
  BY <1>1, <1>3, EndsEffect DEF IInv, TypeOK
<1>7. RequestInv'
  BY <1>1, RequestsEnd
<1>8. EventIsPaid'
  BY <1>1, <1>5 DEF IInv, EventIsPaid
<1>9. AdminsWereLetIn'
  BY <1>1, <1>4, <1>5 DEF IInv, AdminsWereLetIn, Opened
<1>10. RemovedIsSuspended'
  <2> SUFFICES ASSUME NEW f \in Opened \ raced', NEW w \in admins'[f],
                      account[w] = "removed"
               PROVE  f \in suspended
    BY <1>1, <1>5 DEF RemovedIsSuspended
  <2>1. CASE f = e /\ w = u
    BY <1>1, <1>3, <2>1
  <2>2. CASE ~(f = e /\ w = u)
    <3>1. w \in admins[f] /\ f \in Opened \ raced
      BY <1>5, <2>2 DEF Opened
    <3> QED
      BY <3>1 DEF IInv, RemovedIsSuspended
  <2> QED
    BY <2>1, <2>2
<1> QED
  BY <1>6, <1>7, <1>8, <1>9, <1>10 DEF IInv

LEMMA DismissedIInv == ASSUME IInv, NEW r \in Requests, Dismissed(r) PROVE IInv'
<1>1. /\ Ends(r)
      /\ UNCHANGED <<decided, buyer, account, order, suspended, closed, invited, history>>
  BY DEF Dismissed
<1>2. /\ admins' \in [Events -> SUBSET Users]
      /\ \A e \in Events : admins'[e] \subseteq admins[e]
  BY DEF Dismissed, IInv, TypeOK
<1>3. TypeOK'
  BY <1>1, <1>2, EndsEffect DEF IInv, TypeOK, history
<1>4. RequestInv'
  BY <1>1, RequestsEnd
<1>5. EventIsPaid' /\ AdminsWereLetIn' /\ RemovedIsSuspended'
  BY <1>1, <1>2, EventsStay DEF IInv, history
<1> QED
  BY <1>3, <1>4, <1>5 DEF IInv

LEMMA LeftIInv == ASSUME IInv, NEW r \in Requests, Left(r) PROVE IInv'
<1>1. PICK u \in Users : u = by[r] /\ pc[r] = "leave"
  BY DEF Left, IInv, RequestInv, RequestOK
<1>2. /\ account' = [account EXCEPT ![u] = "removed"]
      /\ suspended' = suspended \cup {e \in Events : snap[r][e] = {u} /\ admins[e] = {u}}
      /\ admins' = [e \in Events |->
                      IF (u \in snap[r][e] /\ snap[r][e] # {u})
                            /\ (u \in admins[e] /\ admins[e] # {u})
                      THEN admins[e] \ {u} ELSE admins[e]]
      /\ strained' = strained \cup {p \in Purchases : OwnerMail[p] = Mail[u]}
      /\ raced' = raced \cup {e \in Events : admins[e] # snap[r][e]}
      /\ Ends(r)
      /\ UNCHANGED <<decided, buyer, order, closed, invited>>
  BY <1>1 DEF Left
<1>3. TypeOK'
  BY <1>2, EndsEffect DEF IInv, TypeOK
<1>4. RequestInv'
  BY <1>2, RequestsEnd
<1>5. \A e \in Events : admins'[e] \subseteq admins[e]
  BY <1>2
<1>6. ASSUME NEW e \in Events \ raced', NEW w \in admins'[e], account'[w] = "removed"
      PROVE  account[w] = "removed" \/ e \in suspended'
  <2>1. admins[e] = snap[r][e]
    BY <1>2, <1>6
  <2>2. CASE w = u
    BY <1>2, <1>6, <2>1, <2>2
  <2>3. CASE w # u
    BY <1>2, <1>3, <1>6, <2>3 DEF IInv, TypeOK
  <2> QED
    BY <2>2, <2>3
<1>7. suspended \subseteq suspended' /\ raced \subseteq raced'
  BY <1>2
<1>8. EventIsPaid' /\ AdminsWereLetIn' /\ RemovedIsSuspended'
  BY <1>2, <1>5, <1>6, <1>7, EventsStay DEF IInv
<1> QED
  BY <1>3, <1>4, <1>8 DEF IInv

LEMMA FaultsIInv ==
  ASSUME IInv, (\E r \in Requests : Fails(r)) \/ Restart
  PROVE  IInv'
<1>1. UNCHANGED <<decided, owners, closed, invited, history>>
  BY DEF Fails, Restart
<1>2. EventIsPaid' /\ AdminsWereLetIn' /\ RemovedIsSuspended'
  BY <1>1, EventsStay DEF IInv, owners, history
<1>3. ASSUME NEW r \in Requests, Fails(r) PROVE TypeOK' /\ RequestInv'
  <2>1. Ends(r)
    BY <1>3 DEF Fails
  <2>2. TypeOK'
    BY <1>1, <2>1, EndsEffect DEF IInv, TypeOK, owners, history
  <2> QED
    BY <1>1, <2>1, <2>2, RequestsEnd
<1>4. CASE Restart
  <2>1. TypeOK'
    BY <1>1, <1>4 DEF Restart, IInv, TypeOK, owners, history, Nobody
  <2>2. RequestInv'
    BY <1>4 DEF Restart, RequestInv, RequestOK, SigningUp
  <2> QED
    BY <1>2, <2>1, <2>2 DEF IInv
<1> QED
  BY <1>2, <1>3, <1>4 DEF IInv

-----------------------------------------------------------------------------

LEMMA NextIInv == IInv /\ [Next]_vars => IInv'
<1> SUFFICES ASSUME IInv, [Next]_vars PROVE IInv'
  OBVIOUS
<1>1. ASSUME NEW p \in Purchases, Decides(p) PROVE IInv'
  BY <1>1, DecidesIInv
<1>2. ASSUME NEW r \in Requests, NEW u \in Users, Leave(r, u) PROVE IInv'
  BY <1>2, LeaveIInv
<1>3. ASSUME NEW r \in Requests, NEW u \in Users, NEW t \in Purchases \cup Events,
             Post(r, u, t) \/ Attach(r, u, t)
      PROVE  IInv'
  BY <1>3, PostIInv, AttachIInv
<1>4. ASSUME NEW r \in Requests, NEW v \in Users, NEW u \in Users, NEW e \in Events,
             Dismiss(r, v, u, e) \/ DismissShared(r, v, u, e)
      PROVE  IInv'
  BY <1>4, DismissIInv DEF DismissShared
<1>5. ASSUME NEW v \in Users, NEW e \in Events, NEW m \in Mails, Invite(v, e, m)
      PROVE  IInv'
  BY <1>5, InviteIInv
<1>6. ASSUME NEW e \in Events, Closes(e) PROVE IInv'
  BY <1>6, ClosesIInv
<1>7. ASSUME NEW r \in Requests, Proceeds(r) \/ CheckFails(r) PROVE IInv'
  BY <1>7, CreateIInv, CheckIInv, SetBuyerIInv, OpenEventIInv, JoinIInv,
     DismissedIInv, LeftIInv DEF Proceeds
<1>8. CASE (\E r \in Requests : Fails(r)) \/ Restart
  BY <1>8, FaultsIInv
<1>9. CASE UNCHANGED vars
  BY <1>9 DEF vars, IInv, TypeOK, RequestInv, RequestOK, Valid, Opened, EventIsPaid,
              AdminsWereLetIn, RemovedIsSuspended
<1> QED
  BY <1>1, <1>2, <1>3, <1>4, <1>5, <1>6, <1>7, <1>8, <1>9 DEF Next

LEMMA Invariant == Spec => []IInv
BY InitIInv, NextIInv, PTL DEF Spec

\* TypeOK holds in every reachable state.
THEOREM TypeCorrect == Spec => []TypeOK
<1>1. IInv => TypeOK
  BY DEF IInv
<1> QED
  BY <1>1, Invariant, PTL

\* EventIsPaid: no interleaving of sign-ups opens an event for an order that is
\* not paid or that upgrades another event.
THEOREM EventsArePaid == Spec => []EventIsPaid
<1>1. IInv => EventIsPaid
  BY DEF IInv
<1> QED
  BY <1>1, Invariant, PTL

\* AdminsWereLetIn: every admin of an event holds the order's link or an
\* invitation to that event.
THEOREM AdminsAreLetIn == Spec => []AdminsWereLetIn
<1>1. IInv => AdminsWereLetIn
  BY DEF IInv
<1> QED
  BY <1>1, Invariant, PTL

\* RemovedIsSuspended: a removed account is admin of suspended events only, or of
\* events whose admins changed while it was removed.
THEOREM RemovedAccountsSuspend == Spec => []RemovedIsSuspended
<1>1. IInv => RemovedIsSuspended
  BY DEF IInv
<1> QED
  BY <1>1, Invariant, PTL
-----------------------------------------------------------------------------
(* One event per order.                                                    *)

\* An order whose sign-up was never disturbed: one request at most works on it, which
\* goes on only when there is no event; its owner has an account when it has one.
QuietOrder(p) ==
    /\ \A q, r \in Requests : at[q] = p /\ at[r] = p => q = r
    /\ \A r \in Requests : at[r] = p =>
          /\ pc[r] \in {"create", "buyer", "open"} => Live(p) = {}
          /\ pc[r] \in {"check", "buyer", "open"} => account[by[r]] = "active"
    /\ Of(p) # {} => Taken(OwnerMail[p])
    /\ \A e, f \in Live(p) : e = f

QuietInv == \A p \in Purchases \ strained : QuietOrder(p)

LEMMA InitQuietInv == Init => QuietInv
BY TargetsAssumption DEF Init, QuietInv, QuietOrder, Live, Of, Opened

\* Who signs up for an order has its owner's address.
LEMMA SignsUpOwner ==
  ASSUME IInv, NEW r \in Requests, pc[r] \in SigningUp, at[r] \in Purchases
  PROVE  by[r] \in Users /\ Mail[by[r]] = OwnerMail[at[r]]
<1>1. by[r] \in Users /\ Valid(at[r], Mail[by[r]])
  BY DEF IInv, RequestInv, RequestOK, SigningUp
<1> QED
  BY <1>1, LinkOfOrder DEF IInv

\* A step that opens no event, takes no account of the owner away and leaves the
\* requests for the order alone, or ends them.
LEMMA QuietStays ==
  ASSUME IInv, NEW p \in Purchases, QuietOrder(p),
         UNCHANGED order, closed \subseteq closed',
         \A u \in Users : account[u] = "active" /\ Mail[u] = OwnerMail[p] =>
                             account'[u] = "active",
         \A r \in Requests : at'[r] = p =>
            /\ at[r] = p
            /\ \/ pc'[r] = pc[r] /\ by'[r] = by[r]
               \/ pc'[r] \notin SigningUp
  PROVE  QuietOrder(p)'
<1>1. Of(p)' = Of(p) /\ Live(p)' \subseteq Live(p)
  BY DEF Live, Of, Opened
<1>2. Taken(OwnerMail[p]) => Taken(OwnerMail[p])'
  BY DEF Taken
<1>3. ASSUME NEW r \in Requests, at'[r] = p
      PROVE  /\ pc'[r] \in {"create", "buyer", "open"} => Live(p)' = {}
             /\ pc'[r] \in {"check", "buyer", "open"} => account'[by'[r]] = "active"
  <2>1. at[r] = p
    BY <1>3
  <2>2. CASE pc'[r] = pc[r] /\ by'[r] = by[r] /\ pc[r] \in SigningUp
    <3>1. by[r] \in Users /\ Mail[by[r]] = OwnerMail[p]
      BY <2>1, <2>2, SignsUpOwner
    <3> QED
      BY <1>1, <2>1, <2>2, <3>1 DEF QuietOrder
  <2>3. CASE pc'[r] \notin SigningUp
    BY <2>3 DEF SigningUp
  <2> QED
    BY <1>3, <2>2, <2>3
<1>4. \A q, r \in Requests : at'[q] = p /\ at'[r] = p => q = r
  BY DEF QuietOrder
<1>5. \A e, f \in Live(p)' : e = f
  BY <1>1 DEF QuietOrder
<1>6. Of(p)' # {} => Taken(OwnerMail[p])'
  BY <1>1, <1>2 DEF QuietOrder
<1> QED
  BY <1>3, <1>4, <1>5, <1>6 DEF QuietOrder

LEMMA EndsQuiet ==
  ASSUME IInv, NEW p \in Purchases, QuietOrder(p), NEW r \in Requests, Ends(r),
         UNCHANGED order, closed \subseteq closed',
         \A u \in Users : account[u] = "active" /\ Mail[u] = OwnerMail[p] =>
                             account'[u] = "active"
  PROVE  QuietOrder(p)'
<1>1. /\ pc'[r] = "idle"
      /\ at'[r] = NoTarget
      /\ \A q \in Requests : q # r => pc'[q] = pc[q] /\ by'[q] = by[q] /\ at'[q] = at[q]
  BY DEF Ends, IInv, TypeOK
<1> QED
  BY <1>1, QuietStays, TargetsAssumption

\* A request that starts to work on something: no other may be at the same order.
LEMMA StartsQuiet ==
  ASSUME IInv, NEW p \in Purchases, p \notin strained', QuietOrder(p),
         NEW r \in Requests, NEW u \in Users, NEW t \in Purchases \cup Events,
         NEW l \in {"join", "dismiss", "create", "check"}, Starts(r, l, u, t),
         UNCHANGED <<decided, owners, closed, invited, raced>>,
         l = "create" => Valid(t, Mail[u]) /\ ~Taken(Mail[u]),
         l = "check" => account[u] = "active"
  PROVE  QuietOrder(p)'
<1>1. /\ pc'[r] = l /\ by'[r] = u /\ at'[r] = t
      /\ \A q \in Requests : q # r => pc'[q] = pc[q] /\ by'[q] = by[q] /\ at'[q] = at[q]
  BY StartsEffect DEF IInv, SigningUp
<1>2. CASE t # p
  BY <1>1, <1>2, QuietStays DEF owners
<1>3. CASE t = p
  <2>1. \A q \in Requests : at[q] # p
    BY <1>3 DEF Starts
  <2>2. Live(p)' = Live(p) /\ Of(p)' = Of(p) /\ (Taken(OwnerMail[p]) => Taken(OwnerMail[p])')
    BY DEF owners, Live, Of, Opened, Taken
  <2>3. \A q \in Requests : at'[q] = p => q = r
    BY <1>1, <2>1
  <2>4. l = "create" => Live(p) = {}
    <3>1. l = "create" => Mail[u] = OwnerMail[p]
      BY <1>3, LinkOfOrder DEF IInv
    <3> QED
      BY <3>1 DEF QuietOrder, Live
  <2>5. account'[u] = account[u]
    BY DEF owners
  <2> QED
    BY <1>1, <2>2, <2>3, <2>4, <2>5 DEF QuietOrder
<1> QED
  BY <1>2, <1>3

\* A request that goes on to the next statement of the sign-up.
LEMMA GoesOnQuiet ==
  ASSUME IInv, NEW p \in Purchases, QuietOrder(p), NEW r \in Requests,
         NEW l \in {"join", "buyer", "open"}, Goto(r, l),
         UNCHANGED <<order, closed>>,
         \A u \in Users : account[u] = "active" => account'[u] = "active",
         at[r] = p /\ l # "join" => Live(p) = {} /\ account'[by[r]] = "active"
  PROVE  QuietOrder(p)'
<1>1. /\ UNCHANGED <<by, at>> /\ pc'[r] = l
      /\ \A q \in Requests : q # r => pc'[q] = pc[q]
  BY GotoEffect DEF IInv, SigningUp
<1>2. CASE at[r] # p \/ l = "join"
  BY <1>1, <1>2, QuietStays DEF SigningUp
<1>3. CASE at[r] = p /\ l # "join"
  <2>1. Live(p)' = Live(p) /\ Of(p)' = Of(p) /\ (Taken(OwnerMail[p]) => Taken(OwnerMail[p])')
    BY DEF Live, Of, Opened, Taken
  <2>2. \A q \in Requests : at'[q] = p => q = r
    BY <1>1, <1>3 DEF QuietOrder
  <2> QED
    BY <1>1, <1>3, <2>1, <2>2 DEF QuietOrder
<1> QED
  BY <1>2, <1>3

LEMMA OpenEventQuiet ==
  ASSUME IInv, NEW p \in Purchases, QuietOrder(p), NEW r \in Requests, OpenEvent(r)
  PROVE  QuietOrder(p)'
<1>1. PICK e \in Events \ Opened : order' = [order EXCEPT ![e] = at[r]]
  BY DEF OpenEvent
<1>2. pc[r] = "open" /\ Ends(r) /\ UNCHANGED <<account, closed>>
  BY DEF OpenEvent
<1>3. /\ at'[r] = NoTarget
      /\ \A q \in Requests : q # r => pc'[q] = pc[q] /\ by'[q] = by[q] /\ at'[q] = at[q]
  BY <1>2 DEF Ends, IInv, TypeOK
<1>4. Taken(OwnerMail[p])' = Taken(OwnerMail[p])
  BY <1>2 DEF Taken
<1>5. CASE at[r] # p
  <2>1. \A f \in Events : f # e => order'[f] = order[f]
    BY <1>1 DEF IInv, TypeOK
  <2>2. order'[e] = at[r] /\ order[e] = NoTarget
    BY <1>1 DEF IInv, TypeOK, Opened
  <2>3. Of(p)' = Of(p) /\ Live(p)' = Live(p)
    BY <1>2, <1>5, <2>1, <2>2, TargetsAssumption DEF Of, Live, Opened
  <2>4. \A q \in Requests : at'[q] = p => at[q] = p /\ pc'[q] = pc[q] /\ by'[q] = by[q]
    BY <1>3, TargetsAssumption
  <2> QED
    BY <1>2, <1>4, <2>3, <2>4 DEF QuietOrder
<1>6. CASE at[r] = p
  <2>1. Live(p) = {} /\ account[by[r]] = "active"
    BY <1>2, <1>6 DEF QuietOrder
  <2>2. by[r] \in Users /\ Mail[by[r]] = OwnerMail[p]
    BY <1>2, <1>6, SignsUpOwner DEF SigningUp
  <2>3. Taken(OwnerMail[p])
    BY <2>1, <2>2 DEF Taken
  <2>4. Live(p)' \subseteq {e}
    BY <1>1, <1>2, <2>1 DEF Live, Of, Opened, IInv, TypeOK
  <2>5. \A q \in Requests : at'[q] # p
    BY <1>3, <1>6, TargetsAssumption DEF QuietOrder
  <2> QED
    BY <1>4, <2>3, <2>4, <2>5 DEF QuietOrder
<1> QED
  BY <1>5, <1>6

LEMMA NextQuiet ==
  ASSUME IInv, [Next]_vars, NEW p \in Purchases, p \notin strained', QuietOrder(p)
  PROVE  QuietOrder(p)'
<1>1. ASSUME UNCHANGED <<order, account, request>>, closed \subseteq closed'
      PROVE  QuietOrder(p)'
  BY <1>1, QuietStays DEF request
<1>2. ASSUME NEW q \in Purchases, Decides(q) PROVE QuietOrder(p)'
  BY <1>1, <1>2 DEF Decides, owners
<1>3. ASSUME NEW v \in Users, NEW e \in Events, NEW m \in Mails, Invite(v, e, m)
      PROVE  QuietOrder(p)'
  BY <1>1, <1>3 DEF Invite, owners
<1>4. ASSUME NEW e \in Events, Closes(e) PROVE QuietOrder(p)'
  BY <1>1, <1>4 DEF Closes, owners
<1>5. ASSUME NEW r \in Requests, NEW u \in Users, Leave(r, u) PROVE QuietOrder(p)'
  <2>1. \A q \in Requests : \/ pc'[q] = pc[q] /\ by'[q] = by[q]
                            \/ pc'[q] = "leave"
    BY <1>5 DEF Leave, IInv, TypeOK
  <2>2. UNCHANGED <<at, order, account, closed>>
    BY <1>5 DEF Leave, owners
  <2> QED
    BY <2>1, <2>2, QuietStays DEF SigningUp
<1>6. ASSUME NEW r \in Requests, NEW u \in Users, NEW t \in Purchases \cup Events,
             Post(r, u, t)
      PROVE  QuietOrder(p)'
  BY <1>6, StartsQuiet DEF Post
<1>7. ASSUME NEW r \in Requests, NEW u \in Users, NEW t \in Purchases \cup Events,
             Attach(r, u, t)
      PROVE  QuietOrder(p)'
  <2>1. /\ Starts(r, IF t \in Purchases THEN "check" ELSE "join", u, t)
        /\ account[u] = "active"
        /\ UNCHANGED <<decided, owners, closed, invited, raced>>
    BY <1>7 DEF Attach
  <2>2. CASE t \in Purchases
    <3>1. Starts(r, "check", u, t)
      BY <2>1, <2>2
    <3> QED
      BY <2>1, <3>1, StartsQuiet
  <2>3. CASE t \notin Purchases
    <3>1. Starts(r, "join", u, t)
      BY <2>1, <2>3
    <3> QED
      BY <2>1, <3>1, StartsQuiet
  <2> QED
    BY <2>2, <2>3
<1>8. ASSUME NEW r \in Requests, NEW v \in Users, NEW u \in Users, NEW e \in Events,
             Dismiss(r, v, u, e) \/ DismissShared(r, v, u, e)
      PROVE  QuietOrder(p)'
  BY <1>8, StartsQuiet DEF Dismiss, DismissShared
<1>9. ASSUME NEW r \in Requests, Create(r) PROVE QuietOrder(p)'
  <2>1. UNCHANGED <<order, closed>> /\ pc[r] = "create"
    BY <1>9 DEF Create
  <2>2. CASE Ends(r) /\ UNCHANGED account
    BY <2>1, <2>2, EndsQuiet
  <2>3. CASE /\ account' = [account EXCEPT ![by[r]] = "active"]
             /\ Goto(r, IF at[r] \in Purchases THEN "buyer" ELSE "join")
    <3>1. by[r] \in Users
      BY <2>1 DEF IInv, RequestInv, RequestOK
    <3>2. \A u \in Users : account[u] = "active" => account'[u] = "active"
      BY <2>3 DEF IInv, TypeOK
    <3>3. account'[by[r]] = "active"
      BY <2>3, <3>1 DEF IInv, TypeOK
    <3>4. at[r] = p => Live(p) = {}
      BY <2>1 DEF QuietOrder
    <3>5. CASE at[r] \in Purchases
      BY <2>1, <2>3, <3>2, <3>3, <3>4, <3>5, GoesOnQuiet
    <3>6. CASE at[r] \notin Purchases
      BY <2>1, <2>3, <3>2, <3>6, GoesOnQuiet
    <3> QED
      BY <3>5, <3>6
  <2> QED
    BY <1>9, <2>2, <2>3 DEF Create
<1>10. ASSUME NEW r \in Requests, Check(r) PROVE QuietOrder(p)'
  <2>1. UNCHANGED <<order, account, closed>> /\ pc[r] = "check"
    BY <1>10 DEF Check, owners
  <2>2. CASE Ends(r)
    BY <2>1, <2>2, EndsQuiet
  <2>3. CASE Live(at[r]) = {} /\ Goto(r, "buyer")
    <3>1. at[r] = p => account[by[r]] = "active"
      BY <2>1 DEF QuietOrder
    <3> QED
      BY <2>1, <2>3, <3>1, GoesOnQuiet
  <2> QED
    BY <1>10, <2>2, <2>3 DEF Check
<1>11. ASSUME NEW r \in Requests, CheckFails(r) PROVE QuietOrder(p)'
  <2>1. UNCHANGED <<order, account, closed>> /\ at[r] # p /\ Goto(r, "buyer")
    BY <1>11 DEF CheckFails, owners
  <2> QED
    BY <2>1, GoesOnQuiet
<1>12. ASSUME NEW r \in Requests, SetBuyer(r) PROVE QuietOrder(p)'
  <2>1. UNCHANGED <<order, account, closed>> /\ pc[r] = "buyer" /\ Goto(r, "open")
    BY <1>12 DEF SetBuyer
  <2>2. at[r] = p => Live(p) = {} /\ account[by[r]] = "active"
    BY <2>1 DEF QuietOrder
  <2> QED
    BY <2>1, <2>2, GoesOnQuiet
<1>13. ASSUME NEW r \in Requests, OpenEvent(r) PROVE QuietOrder(p)'
  BY <1>13, OpenEventQuiet
<1>14. ASSUME NEW r \in Requests, Join(r) \/ Dismissed(r) \/ Fails(r)
       PROVE  QuietOrder(p)'
  <2>1. Ends(r) /\ UNCHANGED <<order, account, closed>>
    BY <1>14 DEF Join, Dismissed, Fails, owners
  <2> QED
    BY <2>1, EndsQuiet
<1>15. ASSUME NEW r \in Requests, Left(r) PROVE QuietOrder(p)'
  <2>1. /\ Ends(r) /\ UNCHANGED <<order, closed>>
        /\ account' = [account EXCEPT ![by[r]] = "removed"]
        /\ strained' = strained \cup {q \in Purchases : OwnerMail[q] = Mail[by[r]]}
    BY <1>15 DEF Left
  <2>2. \A u \in Users : account[u] = "active" /\ Mail[u] = OwnerMail[p] =>
                            account'[u] = "active"
    BY <2>1 DEF IInv, TypeOK
  <2> QED
    BY <2>1, <2>2, EndsQuiet
<1>16. CASE Restart
  <2>1. \A r \in Requests : at'[r] # p
    BY <1>16, TargetsAssumption DEF Restart
  <2>2. UNCHANGED <<order, account, closed>>
    BY <1>16 DEF Restart, owners
  <2> QED
    BY <2>1, <2>2, QuietStays
<1>17. CASE UNCHANGED vars
  BY <1>1, <1>17 DEF vars, request
<1> QED
  BY <1>2, <1>3, <1>4, <1>5, <1>6, <1>7, <1>8, <1>9, <1>10, <1>11, <1>12, <1>13, <1>14,
     <1>15, <1>16, <1>17 DEF Next, Proceeds

\* What was disturbed stays so.
LEMMA StrainedGrows == ASSUME [Next]_vars PROVE strained \subseteq strained'
<1>1. UNCHANGED history \/ UNCHANGED vars => strained' = strained
  BY DEF history, vars
<1> QED
  BY <1>1 DEF Next, Proceeds, Decides, Leave, Post, Attach, Starts, Dismiss,
        DismissShared, Invite, Closes, Create, Check, CheckFails, SetBuyer, OpenEvent,
        Join, Dismissed, Left, Fails, Restart

\* OneEvent: a link used twice, by a new or by an existing account, does not give an order
\* a second event unless its sign-ups overlapped, the look-up failed or its owner left
\* (Post, Attach, RemoveUser).
THEOREM OrdersHaveOneEvent == Spec => []OneEvent
<1>1. Init => IInv /\ QuietInv
  BY InitIInv, InitQuietInv
<1>2. IInv /\ QuietInv /\ [Next]_vars => IInv' /\ QuietInv'
  BY NextIInv, NextQuiet, StrainedGrows DEF QuietInv
<1>3. QuietInv => OneEvent
  <2> SUFFICES ASSUME QuietInv, NEW p \in Purchases \ strained
               PROVE  Cardinality(Live(p)) <= 1
    BY DEF OneEvent
  <2>1. \A e, f \in Live(p) : e = f
    BY DEF QuietInv, QuietOrder
  <2>2. CASE Live(p) = {}
    BY <2>2, FS_EmptySet
  <2>3. CASE Live(p) # {}
    <3>1. PICK e \in Live(p) : TRUE
      BY <2>3
    <3>2. Live(p) = {e}
      BY <2>1, <3>1
    <3>3. Cardinality({e}) = 1
      BY FS_Singleton
    <3> QED
      BY <3>2, <3>3
  <2> QED
    BY <2>2, <2>3
<1> QED
  BY <1>1, <1>2, <1>3, PTL DEF Spec
=============================================================================
