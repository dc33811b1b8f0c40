------------------------------- MODULE Payment -------------------------------
(***************************************************************************)
(* Orders and the payment callback: routes/product.go opens a purchase     *)
(* with a price fixed by a promo code, LiqPay notifies the server, and     *)
(* routes/payment-cb.go records the outcome in provider_id - the column    *)
(* that makes the callback idempotent - counts the promo code and moves    *)
(* the cart items on, one statement at a time and without a transaction.   *)
(*                                                                         *)
(* LiqPay is external: its signed notifications may be delayed, repeated   *)
(* and reordered, and browsers open the callback URL whenever they like.   *)
(***************************************************************************)
EXTENDS Naturals, FiniteSets

CONSTANTS
    Purchases,
    Requests,    \* callback requests that may run at the same time
    Contents,    \* Contents[p]: the kinds of items in p's cart
    Upgrades,    \* purchases with event_uid: they upgrade an event
    Codes,       \* promo codes
    Code,        \* Code[p]: the code the buyer enters, or NoCode
    NoCode,
    Limit,       \* promo_codes.usage_limit_total
    Refusals,    \* LiqPay statuses other than success and sandbox
    RefusalsOf,  \* RefusalsOf[p]: those that LiqPay may send for p
    Faults,      \* a subset of FaultKinds
    NoId,        \* provider_id IS NULL
    NoPurchase

FaultKinds == {"db", "restart"}

\* cart_items by fulfilment: digital, physical with a buyer_config, physical
\* without one, in the order in which Payment_cb updates them.
Parts == {"digital", "configured", "unconfigured"}
Before == {<<"digital", "configured">>, <<"digital", "unconfigured">>,
           <<"configured", "unconfigured">>}

ASSUME PurchasesAssumption == IsFiniteSet(Purchases)
ASSUME ContentsAssumption == Contents \in [Purchases -> SUBSET Parts]
ASSUME UpgradesAssumption == Upgrades \subseteq Purchases
ASSUME CodeAssumption ==
    /\ NoCode \notin Codes
    /\ Code \in [Purchases -> Codes \cup {NoCode}]
    /\ \A p \in Upgrades : Code[p] = NoCode
ASSUME LimitAssumption == Limit \in [Codes -> Nat \ {0}]
ASSUME RefusalsAssumption ==
    "success" \notin Refusals /\ RefusalsOf \in [Purchases -> SUBSET Refusals]
ASSUME FaultsAssumption == Faults \subseteq FaultKinds
ASSUME NoPurchaseAssumption == NoPurchase \notin Purchases

PaidId(p) == <<"payment", p>>
FailedId(s) == <<"failed", s>>
Ids == {PaidId(p) : p \in Purchases} \cup {FailedId(s) : s \in Refusals}

ASSUME NoIdAssumption == NoId \notin Ids

VARIABLES
    opened,     \* rows of purchases
    provider,   \* purchases.provider_id
    item,       \* cart_items.status of a purchase's parts
    usage,      \* promo_codes.usage_count
    active,     \* promo_codes.is_active
    expired,    \* codes whose valid_until has passed
    applied,    \* purchases with upgrade_applied_at set
    notices,    \* signed notifications LiqPay has sent, <<purchase, status>>
    pc, at,     \* a request's next statement and its purchase
    result,     \* the provider_id it was notified of
    todo,       \* the parts it has not updated yet
    counted,    \* history: promo counts made for a purchase
    cut,        \* history: paid purchases whose callback a fault cut short
    handled     \* history: <<purchase, outcome>>, notices handled without a fault

row == <<opened, provider, item, applied>>
promo == <<usage, active, expired>>
request == <<pc, at, result, todo>>
history == <<counted, cut, handled>>
vars == <<opened, provider, item, usage, active, expired, applied, notices,
          pc, at, result, todo, counted, cut, handled>>

Paid(p) == provider[p] = PaidId(p)
Failed(p) == \E s \in Refusals : provider[p] = FailedId(s)
Target(part) ==
    CASE part = "digital" -> "purchased"
      [] part = "configured" -> "admin-action"
      [] part = "unconfigured" -> "client-action"

TypeOK ==
    /\ opened \in SUBSET Purchases
    /\ provider \in [Purchases -> Ids \cup {NoId}]
    /\ item \in [Purchases -> [Parts -> {"cart", "purchased", "admin-action",
                                         "client-action"}]]
    /\ usage \in [Codes -> Nat]
    /\ active \in [Codes -> BOOLEAN]
    /\ expired \in SUBSET Codes
    /\ applied \in SUBSET Upgrades
    /\ notices \in SUBSET (Purchases \X (Refusals \cup {"success"}))
    /\ pc \in [Requests -> {"idle", "record", "promo", "apply", "items"}]
    /\ at \in [Requests -> Purchases \cup {NoPurchase}]
    /\ result \in [Requests -> Ids \cup {NoId}]
    /\ todo \in [Requests -> SUBSET Parts]
    /\ counted \in [Purchases -> Nat]
    /\ cut \in SUBSET Purchases
    /\ handled \in SUBSET (Purchases \X (Ids \cup {NoId}))

Init ==
    /\ opened = {}
    /\ provider = [p \in Purchases |-> NoId]
    /\ item = [p \in Purchases |-> [part \in Parts |-> "cart"]]
    /\ usage = [c \in Codes |-> 0]
    /\ active = [c \in Codes |-> TRUE]
    /\ expired = {}
    /\ applied = {}
    /\ notices = {}
    /\ pc = [r \in Requests |-> "idle"]
    /\ at = [r \in Requests |-> NoPurchase]
    /\ result = [r \in Requests |-> NoId]
    /\ todo = [r \in Requests |-> {}]
    /\ counted = [p \in Purchases |-> 0]
    /\ cut = {}
    /\ handled = {}

-----------------------------------------------------------------------------
(* Opening a purchase, and the promo codes.                                *)

\* promo.Validate: date, limit and is_active are read from the row; nothing is
\* reserved, so codes are counted against the limit only when they are paid.
Valid(c) == active[c] /\ c \notin expired /\ usage[c] < Limit[c]

Purchase(p) ==
    /\ p \notin opened
    /\ Code[p] # NoCode => Valid(Code[p])
    /\ opened' = opened \cup {p}
    /\ UNCHANGED <<provider, item, applied, promo, notices, request, history>>

Expires(c) ==
    /\ expired' = expired \cup {c} /\ c \notin expired
    /\ UNCHANGED <<row, usage, active, notices, request, history>>

\* promocron.RunOnce
PromoCron ==
    /\ active' = [c \in Codes |-> active[c] /\ Valid(c)]
    /\ active' # active
    /\ UNCHANGED <<row, usage, expired, notices, request, history>>

-----------------------------------------------------------------------------
(* LiqPay and the start of a callback.                                     *)

Notify(p, s) ==
    /\ p \in opened
    /\ s = "success" \/ s \in RefusalsOf[p]
    /\ notices' = notices \cup {<<p, s>>}
    /\ UNCHANGED <<row, promo, request, history>>

NoticeId(p, s) == IF s = "success" THEN PaidId(p) ELSE FailedId(s)

\* Mutants of Accepts: the browser's GET is taken for a notification; the order
\* of a success is not compared either.
AcceptsUnsigned(p, s) == s = "success" \/ \E q \in Purchases : <<q, s>> \in notices
AcceptsAnyOrder(p, s) == \E q \in Purchases : <<q, s>> \in notices

\* HandleCallback on a signed POST to p's callback URL.  order_id is compared
\* with the order of the URL only when the status is a success: a refusal is
\* returned before the comparison, and may be about any order.
Accepts(p, s) ==
    IF s = "success" THEN <<p, s>> \in notices
    ELSE \E q \in Purchases : <<q, s>> \in notices

\* The first half of Payment_cb for a signed POST.  A purchase that has an
\* outcome is answered from its row.
Callback(r, p, s) ==
    /\ pc[r] = "idle"
    /\ p \in opened /\ Accepts(p, s)
    /\ \/ /\ provider[p] = NoId
          /\ pc' = [pc EXCEPT ![r] = "record"]
          /\ at' = [at EXCEPT ![r] = p]
          /\ result' = [result EXCEPT ![r] = NoticeId(p, s)]
          /\ UNCHANGED <<todo, handled>>
       \/ /\ provider[p] # NoId
          /\ handled' = handled \cup {<<p, NoticeId(p, s)>>}
          /\ UNCHANGED request
    /\ UNCHANGED <<row, promo, notices, counted, cut>>

-----------------------------------------------------------------------------
(* The rest of Payment_cb, statement by statement.                         *)

Ends(r) ==
    /\ pc' = [pc EXCEPT ![r] = "idle"]
    /\ at' = [at EXCEPT ![r] = NoPurchase]
    /\ result' = [result EXCEPT ![r] = NoId]
    /\ todo' = [todo EXCEPT ![r] = {}]

Done(r) == Ends(r) /\ handled' = handled \cup {<<at[r], result[r]>>}

Goto(r, label) ==
    pc' = [pc EXCEPT ![r] = label] /\ UNCHANGED <<at, result, handled>>

\* Mutant of ToFulfilment: an upgrade order is fulfilled like any cart.
ToItems(r) ==
    Goto(r, "items") /\ todo' = [todo EXCEPT ![r] = Contents[at[r]]]

\* After the promo code: an upgrade is applied, a cart is read.
ToFulfilment(r) ==
    LET p == at[r] IN
    IF p \in Upgrades THEN Goto(r, "apply") /\ UNCHANGED todo
    ELSE IF Contents[p] = {} THEN Done(r)
    ELSE Goto(r, "items") /\ todo' = [todo EXCEPT ![r] = Contents[p]]

\* Mutants of Record: no check that provider_id is NULL; a refusal is not
\* written.
RecordAgain(r) ==
    LET p == at[r] IN
    /\ pc[r] = "record"
    /\ provider' = [provider EXCEPT ![p] = result[r]]
    /\ IF result[r] # PaidId(p) THEN Done(r)
       ELSE IF Code[p] # NoCode THEN Goto(r, "promo") /\ UNCHANGED todo
       ELSE ToFulfilment(r)
    /\ UNCHANGED <<opened, item, applied, promo, notices, counted, cut>>

RecordPaid(r) ==
    LET p == at[r] IN
    /\ pc[r] = "record"
    /\ IF provider[p] # NoId \/ result[r] # PaidId(p)
       THEN Done(r) /\ UNCHANGED provider
       ELSE provider' = [provider EXCEPT ![p] = result[r]] /\ ToFulfilment(r)
    /\ UNCHANGED <<opened, item, applied, promo, notices, counted, cut>>

\* UPDATE purchases SET provider_id ... WHERE provider_id IS NULL RETURNING uid.
\* The row may have got its outcome meanwhile, and the column is UNIQUE.
Record(r) ==
    LET p == at[r] IN
    /\ pc[r] = "record"
    /\ IF provider[p] # NoId \/ \E q \in Purchases : provider[q] = result[r]
       THEN Done(r) /\ UNCHANGED provider
       ELSE /\ provider' = [provider EXCEPT ![p] = result[r]]
            /\ IF result[r] # PaidId(p) THEN Done(r)
               ELSE IF Code[p] # NoCode THEN Goto(r, "promo") /\ UNCHANGED todo
               ELSE ToFulfilment(r)
    /\ UNCHANGED <<opened, item, applied, promo, notices, counted, cut>>

\* Mutant of CountPromo: a code that has reached its limit is not counted.
CountWithinLimit(r) ==
    LET p == at[r] IN
    /\ pc[r] = "promo"
    /\ IF usage[Code[p]] < Limit[Code[p]]
       THEN usage' = [usage EXCEPT ![Code[p]] = @ + 1] ELSE UNCHANGED usage
    /\ counted' = [counted EXCEPT ![p] = @ + 1]
    /\ ToFulfilment(r)
    /\ UNCHANGED <<row, active, expired, notices, cut>>

CountPromo(r) ==
    LET p == at[r] IN
    /\ pc[r] = "promo"
    /\ usage' = [usage EXCEPT ![Code[p]] = @ + 1]
    /\ counted' = [counted EXCEPT ![p] = @ + 1]
    /\ ToFulfilment(r)
    /\ UNCHANGED <<row, active, expired, notices, cut>>

\* apply_event_upgrade, one transaction: a second call changes nothing.  What it
\* does to the event is left out here.
ApplyEventUpgrade(p) ==
    IF p \in applied THEN UNCHANGED <<item, applied>>
    ELSE /\ applied' = applied \cup {p}
         /\ item' = [item EXCEPT ![p] = [part \in Parts |->
                        IF part \in Contents[p] THEN "purchased" ELSE item[p][part]]]

ApplyUpgrade(r) ==
    /\ pc[r] = "apply"
    /\ ApplyEventUpgrade(at[r])
    /\ Done(r)
    /\ UNCHANGED <<opened, provider, promo, notices, counted, cut>>

\* One UPDATE of cart_items for each part the cart has, in their order.
UpdateItems(r) ==
    LET p == at[r] IN
    /\ pc[r] = "items"
    /\ \E part \in todo[r] :
        /\ \A other \in todo[r] : <<other, part>> \notin Before
        /\ item' = [item EXCEPT ![p][part] = Target(part)]
        /\ IF todo[r] = {part} THEN Done(r)
           ELSE /\ todo' = [todo EXCEPT ![r] = @ \ {part}]
                /\ UNCHANGED <<pc, at, result, handled>>
    /\ UNCHANGED <<opened, provider, applied, promo, notices, counted, cut>>

\* Any of the statements fails: the request is answered with 500.
CallbackFails(r) ==
    /\ "db" \in Faults
    /\ pc[r] # "idle"
    /\ cut' = IF pc[r] = "record" THEN cut ELSE cut \cup {at[r]}
    /\ Ends(r)
    /\ UNCHANGED <<row, promo, notices, counted, handled>>

Restart ==
    /\ "restart" \in Faults
    /\ \E r \in Requests : pc[r] # "idle"
    /\ cut' = cut \cup {at[r] : r \in {q \in Requests : pc[q] \notin {"idle", "record"}}}
    /\ pc' = [r \in Requests |-> "idle"]
    /\ at' = [r \in Requests |-> NoPurchase]
    /\ result' = [r \in Requests |-> NoId]
    /\ todo' = [r \in Requests |-> {}]
    /\ UNCHANGED <<row, promo, notices, counted, handled>>

\* POST /api/admin/orders/{uid}/apply-upgrade
AdminApply(p) ==
    /\ p \in Upgrades /\ Paid(p)
    /\ ApplyEventUpgrade(p)
    /\ UNCHANGED <<opened, provider, promo, notices, request, history>>

-----------------------------------------------------------------------------

Processing(r) ==
    Record(r) \/ CountPromo(r) \/ ApplyUpgrade(r) \/ UpdateItems(r)

Next ==
    \/ \E p \in Purchases :
        \/ Purchase(p) \/ AdminApply(p)
        \/ \E s \in Refusals \cup {"success"} :
            \/ Notify(p, s)
            \/ \E r \in Requests : Callback(r, p, s)
    \/ \E c \in Codes : Expires(c)
    \/ PromoCron
    \/ \E r \in Requests : Processing(r) \/ CallbackFails(r)
    \/ Restart

Spec == Init /\ [][Next]_vars

-----------------------------------------------------------------------------
(* Properties.                                                             *)

\* An order is paid only if LiqPay signed a success for this very order, and
\* failed only with a status that LiqPay signed as a refusal - of this order or,
\* since the order of a refusal is not compared, of another one - whatever other
\* callbacks were under way.
OutcomeWasNotified ==
    \A p \in Purchases :
        /\ Paid(p) => <<p, "success">> \in notices
        /\ \A s \in Refusals : provider[p] = FailedId(s) =>
              \E q \in Purchases : <<q, s>> \in notices

\* A promo code is counted once for each order paid with it: repeated and
\* concurrent notifications do not count twice, and only an order that is being
\* processed, or that a fault cut short, is not counted yet.
UsageIsPaidOrders ==
    LET With(c) == {p \in Purchases : Code[p] = c} IN
    \A c \in Codes :
        /\ usage[c] <= Cardinality({p \in With(c) : Paid(p)})
        /\ (\A p \in With(c) : p \notin cut /\ \A r \in Requests : at[r] # p) =>
              usage[c] = Cardinality({p \in With(c) : Paid(p)})

\* Every item of a paid cart has been moved on and every paid upgrade applied,
\* unless its callback is still running or was cut short.
PaidIsFulfilled ==
    \A p \in Purchases :
        Paid(p) /\ p \notin cut /\ (\A r \in Requests : at[r] # p) =>
            IF p \in Upgrades THEN p \in applied
            ELSE \A part \in Contents[p] : item[p][part] = Target(part)

\* An order whose payment failed or is open keeps its items in the cart.
NothingBeforePayment ==
    \A p \in Purchases : ~Paid(p) =>
        /\ \A part \in Parts : item[p][part] = "cart"
        /\ p \notin applied /\ counted[p] = 0

\* "Return a failed result so Payment_cb can record it and the pending page can
\* show failure": once a notification has been handled the order has an outcome -
\* or the column, which is UNIQUE, holds the very refusal handled for another
\* order: failed:<status> does not name the order.
Shadowed(p, id) == \E q \in Purchases \ {p} : provider[q] = id
HandledIsRecorded ==
    \A h \in handled : provider[h[1]] # NoId \/ Shadowed(h[1], h[2])

\* The order as Order sees it.
Decision(p) ==
    IF p \notin opened THEN "none"
    ELSE IF Paid(p) THEN "paid"
    ELSE IF Failed(p) THEN "failed"
    ELSE "open"

Abstract == INSTANCE Order WITH
    Discounted <- {p \in Purchases : Code[p] # NoCode},
    decided <- [p \in Purchases |-> Decision(p)],
    delivered <- [p \in Purchases |->
                    {part \in Parts : item[p][part] # "cart"}]

\* The outcome, the count and the fulfilment of an order follow Order: decided
\* once, nothing before the payment, nothing twice.
ImplementsOrder == Abstract!Spec
=============================================================================
