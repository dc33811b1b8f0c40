---------------------------- MODULE Payment_proofs ----------------------------
(***************************************************************************)
(* Proofs about orders and the payment callback, for any number of orders, *)
(* requests and promo codes and every combination of faults.               *)
(***************************************************************************)
EXTENDS Payment, FiniteSetTheorems, TLAPS

Working == {"promo", "apply", "items"}

\* What HandleCallback may have made of the notices for an order.
Outcome(p, id) ==
    \/ id = PaidId(p) /\ <<p, "success">> \in notices
    \/ \E s \in Refusals, q \in Purchases : id = FailedId(s) /\ <<q, s>> \in notices

\* A request knows what it was notified of, and past Record it works on a paid
\* order, whose parts it has moved on except those still to do.
RequestOK(r) ==
    /\ pc[r] = "idle" => at[r] = NoPurchase
    /\ pc[r] # "idle" => at[r] \in opened
    /\ pc[r] = "record" => Outcome(at[r], result[r])
    /\ pc[r] \in Working => Paid(at[r])
    /\ pc[r] = "promo" => /\ Code[at[r]] # NoCode /\ counted[at[r]] = 0
                          /\ \A part \in Parts : item[at[r]][part] = "cart"
    /\ pc[r] \in {"apply", "items"} /\ Code[at[r]] # NoCode => counted[at[r]] = 1
    /\ pc[r] = "apply" => at[r] \in Upgrades
    /\ pc[r] = "items" =>
          /\ at[r] \notin Upgrades /\ todo[r] \subseteq Contents[at[r]]
          /\ \A part \in todo[r] : item[at[r]][part] = "cart"
          /\ \A part \in Contents[at[r]] \ todo[r] : item[at[r]][part] = Target(part)

RequestInv == \A r \in Requests : RequestOK(r)

\* Only the request that recorded the payment works on the order.
Exclusive ==
    \A r, q \in Requests :
        pc[r] \in Working /\ pc[q] \in Working /\ at[r] = at[q] => r = q

Fulfilled(p) ==
    /\ Code[p] # NoCode => counted[p] = 1
    /\ IF p \in Upgrades THEN p \in applied
       ELSE \A part \in Contents[p] : item[p][part] = Target(part)

PurchaseOK(p) ==
    /\ provider[p] = NoId \/ Outcome(p, provider[p])
    /\ ~Paid(p) => /\ \A part \in Parts : item[p][part] = "cart"
                   /\ p \notin applied /\ counted[p] = 0
    /\ counted[p] \in {0, 1}
    /\ counted[p] = 1 => Code[p] # NoCode
    /\ \A part \in Parts : item[p][part] # "cart" => part \in Contents[p]
    /\ Paid(p) => \/ p \in cut
                  \/ \E r \in Requests : pc[r] \in Working /\ at[r] = p
                  \/ Fulfilled(p)

PurchaseInv == \A p \in Purchases : PurchaseOK(p)

\* Only rows have an outcome.
ProviderInv == \A p \in Purchases \ opened : provider[p] = NoId

CountedWith(c) == {p \in Purchases : Code[p] = c /\ counted[p] = 1}

UsageInv == \A c \in Codes : usage[c] = Cardinality(CountedWith(c))

IInv ==
    /\ TypeOK
    /\ RequestInv
    /\ Exclusive
    /\ PurchaseInv
    /\ ProviderInv

-----------------------------------------------------------------------------
(* The identifiers.                                                        *)

LEMMA IdsDiffer ==
  /\ \A p \in Purchases : PaidId(p) \in Ids /\ PaidId(p) # NoId
  /\ \A s \in Refusals : FailedId(s) \in Ids /\ FailedId(s) # NoId
  /\ \A p, q \in Purchases : PaidId(p) = PaidId(q) => p = q
  /\ \A p \in Purchases, s \in Refusals : PaidId(p) # FailedId(s)
<1>1. /\ \A p \in Purchases : PaidId(p) \in Ids
      /\ \A s \in Refusals : FailedId(s) \in Ids
  BY DEF Ids
<1>2. \A p, q \in Purchases : PaidId(p) = PaidId(q) => p = q
  BY DEF PaidId
<1>3. \A p \in Purchases, s \in Refusals : PaidId(p) # FailedId(s)
  BY DEF PaidId, FailedId
<1> QED
  BY <1>1, <1>2, <1>3, NoIdAssumption

-----------------------------------------------------------------------------
(* Types.                                                                  *)

LEMMA TargetType == \A part \in Parts : Target(part) \in
                        {"purchased", "admin-action", "client-action"}
BY DEF Target, Parts

LEMMA InitTypeOK == Init => TypeOK
BY DEF Init, TypeOK

RequestTypes ==
    /\ pc \in [Requests -> {"idle", "record", "promo", "apply", "items"}]
    /\ at \in [Requests -> Purchases \cup {NoPurchase}]
    /\ result \in [Requests -> Ids \cup {NoId}]
    /\ todo \in [Requests -> SUBSET Parts]
    /\ handled \in SUBSET (Purchases \X (Ids \cup {NoId}))

\* What the ways out of a callback statement do to the request.
LEMMA DoneEffect ==
  ASSUME TypeOK, NEW r \in Requests, at[r] \in Purchases, Done(r)
  PROVE  RequestTypes'
BY DEF Done, Ends, TypeOK, RequestTypes

LEMMA GotoEffect ==
  ASSUME TypeOK, NEW r \in Requests, NEW label \in {"promo", "apply", "items"},
         Goto(r, label), todo' \in [Requests -> SUBSET Parts]
  PROVE  RequestTypes'
BY DEF Goto, TypeOK, RequestTypes

LEMMA ToFulfilmentEffect ==
  ASSUME TypeOK, NEW r \in Requests, at[r] \in Purchases, ToFulfilment(r)
  PROVE  RequestTypes'
<1>1. CASE at[r] \in Upgrades
  BY <1>1, GotoEffect DEF ToFulfilment, TypeOK
<1>2. CASE at[r] \notin Upgrades /\ Contents[at[r]] = {}
  BY <1>2, DoneEffect DEF ToFulfilment
<1>3. CASE at[r] \notin Upgrades /\ Contents[at[r]] # {}
  <2>1. /\ Goto(r, "items")
        /\ todo' = [todo EXCEPT ![r] = Contents[at[r]]]
    BY <1>3 DEF ToFulfilment
  <2>2. todo' \in [Requests -> SUBSET Parts]
    BY <2>1, ContentsAssumption DEF TypeOK
  <2> QED
    BY <2>1, <2>2, GotoEffect
<1> QED
  BY <1>1, <1>2, <1>3

\* A request that is not idle has a purchase, and the right one.
LEMMA AtPurchase ==
  ASSUME TypeOK, RequestInv, NEW r \in Requests, pc[r] # "idle"
  PROVE  /\ at[r] \in Purchases /\ at[r] \in opened
         /\ pc[r] = "promo" => Code[at[r]] \in Codes
         /\ pc[r] = "apply" => at[r] \in Upgrades
BY CodeAssumption DEF TypeOK, RequestInv, RequestOK

LEMMA ApplyTypes ==
  ASSUME TypeOK, NEW p \in Purchases, p \in Upgrades, ApplyEventUpgrade(p)
  PROVE  /\ item' \in [Purchases -> [Parts -> {"cart", "purchased", "admin-action",
                                               "client-action"}]]
         /\ applied' \in SUBSET Upgrades
<1>1. CASE p \in applied
  BY <1>1 DEF ApplyEventUpgrade, TypeOK
<1>2. CASE p \notin applied
  <2>1. [part \in Parts |-> IF part \in Contents[p] THEN "purchased" ELSE item[p][part]]
          \in [Parts -> {"cart", "purchased", "admin-action", "client-action"}]
    BY DEF TypeOK
  <2> QED
    BY <1>2, <2>1 DEF ApplyEventUpgrade, TypeOK
<1> QED
  BY <1>1, <1>2

LEMMA NextTypeOK == TypeOK /\ RequestInv /\ [Next]_vars => TypeOK'
<1> SUFFICES ASSUME TypeOK, RequestInv, [Next]_vars PROVE TypeOK'
  OBVIOUS
<1>1. ASSUME NEW p \in Purchases, Purchase(p) PROVE TypeOK'
  BY <1>1 DEF Purchase, TypeOK, promo, request, history
<1>2. ASSUME NEW p \in Purchases, AdminApply(p) PROVE TypeOK'
  BY <1>2, ApplyTypes DEF AdminApply, TypeOK, promo, request, history
<1>3. ASSUME NEW p \in Purchases, NEW s \in Refusals \cup {"success"}, Notify(p, s)
      PROVE  TypeOK'
  BY <1>3 DEF Notify, TypeOK, row, promo, request, history
<1>4. ASSUME NEW p \in Purchases, NEW s \in Refusals \cup {"success"},
             NEW r \in Requests, Callback(r, p, s)
      PROVE  TypeOK'
  <2>1. /\ UNCHANGED <<opened, provider, item, applied, usage, active, expired,
                       notices, counted, cut>>
        /\ s # "success" => s \in Refusals
    BY <1>4 DEF Callback, row, promo
  <2>2. NoticeId(p, s) \in Ids
    BY <2>1, IdsDiffer DEF NoticeId
  <2>3. CASE UNCHANGED request /\ handled' = handled \cup {<<p, NoticeId(p, s)>>}
    BY <2>1, <2>2, <2>3 DEF TypeOK, request
  <2>4. CASE /\ pc' = [pc EXCEPT ![r] = "record"]
             /\ at' = [at EXCEPT ![r] = p]
             /\ result' = [result EXCEPT ![r] = NoticeId(p, s)]
             /\ UNCHANGED <<todo, handled>>
    BY <2>1, <2>2, <2>4 DEF TypeOK
  <2> QED
    BY <1>4, <2>3, <2>4 DEF Callback
<1>5. ASSUME NEW c \in Codes, Expires(c) PROVE TypeOK'
  BY <1>5 DEF Expires, TypeOK, row, request, history
<1>6. CASE PromoCron
  <2>1. active' \in [Codes -> BOOLEAN]
    BY <1>6 DEF PromoCron, Valid, TypeOK
  <2> QED
    BY <1>6, <2>1 DEF PromoCron, TypeOK, row, request, history
<1>7. ASSUME NEW r \in Requests, Record(r) PROVE TypeOK'
  <2>1. /\ UNCHANGED <<opened, item, applied, usage, active, expired, notices,
                       counted, cut>>
        /\ at[r] \in Purchases
    BY <1>7, AtPurchase DEF Record, promo
  <2>2. CASE Done(r) /\ UNCHANGED provider
    BY <2>1, <2>2, DoneEffect DEF TypeOK, RequestTypes
  <2>3. CASE /\ provider[at[r]] = NoId
             /\ \A q \in Purchases : provider[q] # result[r]
    <3>1. provider' = [provider EXCEPT ![at[r]] = result[r]]
      BY <1>7, <2>3 DEF Record
    <3>2. provider' \in [Purchases -> Ids \cup {NoId}]
      BY <3>1 DEF TypeOK
    <3>3. \/ Done(r)
          \/ Goto(r, "promo") /\ UNCHANGED todo
          \/ ToFulfilment(r)
      BY <1>7, <2>3 DEF Record
    <3>4. RequestTypes'
      BY <2>1, <3>3, DoneEffect, GotoEffect, ToFulfilmentEffect DEF TypeOK
    <3> QED
      BY <2>1, <3>2, <3>4 DEF TypeOK, RequestTypes
  <2> QED
    BY <1>7, <2>2, <2>3 DEF Record
<1>8. ASSUME NEW r \in Requests, CountPromo(r) PROVE TypeOK'
  <2>1. /\ UNCHANGED <<opened, provider, item, applied, active, expired, notices, cut>>
        /\ usage' = [usage EXCEPT ![Code[at[r]]] = @ + 1]
        /\ counted' = [counted EXCEPT ![at[r]] = @ + 1]
        /\ ToFulfilment(r) /\ at[r] \in Purchases /\ Code[at[r]] \in Codes
    BY <1>8, AtPurchase DEF CountPromo, row
  <2>2. usage' \in [Codes -> Nat] /\ counted' \in [Purchases -> Nat]
    BY <2>1 DEF TypeOK
  <2>3. RequestTypes'
    BY <2>1, ToFulfilmentEffect
  <2> QED
    BY <2>1, <2>2, <2>3 DEF TypeOK, RequestTypes
<1>9. ASSUME NEW r \in Requests, ApplyUpgrade(r) PROVE TypeOK'
  <2>1. /\ UNCHANGED <<opened, provider, usage, active, expired, notices, counted, cut>>
        /\ ApplyEventUpgrade(at[r]) /\ Done(r) /\ at[r] \in Purchases
        /\ at[r] \in Upgrades
    BY <1>9, AtPurchase DEF ApplyUpgrade, promo
  <2>2. RequestTypes'
    BY <2>1, DoneEffect
  <2> QED
    BY <2>1, <2>2, ApplyTypes DEF TypeOK, RequestTypes
<1>10. ASSUME NEW r \in Requests, UpdateItems(r) PROVE TypeOK'
  <2>1. PICK part \in todo[r] :
            /\ item' = [item EXCEPT ![at[r]][part] = Target(part)]
            /\ IF todo[r] = {part} THEN Done(r)
               ELSE /\ todo' = [todo EXCEPT ![r] = @ \ {part}]
                    /\ UNCHANGED <<pc, at, result, handled>>
    BY <1>10 DEF UpdateItems
  <2>2. /\ UNCHANGED <<opened, provider, applied, usage, active, expired, notices,
                       counted, cut>>
        /\ at[r] \in Purchases /\ part \in Parts
    BY <1>10, AtPurchase DEF UpdateItems, promo, TypeOK
  <2>3. item' \in [Purchases -> [Parts -> {"cart", "purchased", "admin-action",
                                           "client-action"}]]
    BY <2>1, <2>2, TargetType DEF TypeOK
  <2>4. RequestTypes'
    <3>1. CASE todo[r] = {part}
      BY <2>1, <2>2, <3>1, DoneEffect
    <3>2. CASE todo[r] # {part}
      BY <2>1, <3>2 DEF TypeOK, RequestTypes
    <3> QED
      BY <3>1, <3>2
  <2> QED
    BY <2>2, <2>3, <2>4 DEF TypeOK, RequestTypes
<1>11. ASSUME NEW r \in Requests, CallbackFails(r) PROVE TypeOK'
  <2>1. /\ UNCHANGED <<opened, provider, item, applied, usage, active, expired,
                       notices, counted, handled>>
        /\ cut' \in SUBSET Purchases
    BY <1>11, AtPurchase DEF CallbackFails, row, promo, TypeOK
  <2>2. RequestTypes'
    BY <1>11, <2>1 DEF CallbackFails, Ends, TypeOK, RequestTypes
  <2> QED
    BY <2>1, <2>2 DEF TypeOK, RequestTypes
<1>12. CASE Restart
  <2>1. cut' \in SUBSET Purchases
    <3>1. \A r \in Requests : pc[r] # "idle" => at[r] \in Purchases
      BY AtPurchase
    <3> QED
      BY <1>12, <3>1 DEF Restart, TypeOK
  <2> QED
    BY <1>12, <2>1 DEF Restart, TypeOK, row, promo
<1>13. CASE UNCHANGED vars
  BY <1>13 DEF vars, TypeOK
<1> QED
  BY <1>1, <1>2, <1>3, <1>4, <1>5, <1>6, <1>7, <1>8, <1>9, <1>10, <1>11, <1>12, <1>13
     DEF Next, Processing

-----------------------------------------------------------------------------
(* Frames: what a step leaves alone.                                       *)

SameRequest(q) ==
    /\ pc'[q] = pc[q] /\ at'[q] = at[q]
    /\ result'[q] = result[q] /\ todo'[q] = todo[q]

SamePurchase(p) ==
    /\ provider'[p] = provider[p] /\ item'[p] = item[p] /\ counted'[p] = counted[p]
    /\ p \in applied' <=> p \in applied

\* What never shrinks.
Grows == opened \subseteq opened' /\ notices \subseteq notices' /\ cut \subseteq cut'

OthersSame(r) == \A q \in Requests : q # r => SameRequest(q)

LEMMA RequestFrame ==
  ASSUME Grows, NEW q \in Requests, RequestOK(q), SameRequest(q),
         pc[q] \in Working => SamePurchase(at[q])
  PROVE  RequestOK(q)'
<1>1. CASE pc[q] = "idle"
  BY <1>1 DEF RequestOK, SameRequest, Working
<1>2. CASE pc[q] = "record"
  BY <1>2 DEF RequestOK, SameRequest, Working, Grows, Outcome
<1>3. CASE pc[q] \in Working
  BY <1>3 DEF RequestOK, SameRequest, SamePurchase, Working, Grows, Paid
<1>4. CASE pc[q] \notin {"idle", "record"} \cup Working
  BY <1>4 DEF RequestOK, SameRequest, Working, Grows
<1> QED
  BY <1>1, <1>2, <1>3, <1>4

\* An order that a step leaves alone and that nobody stops working on.
LEMMA PurchaseFrame ==
  ASSUME Grows, NEW p \in Purchases, PurchaseOK(p), SamePurchase(p),
         \A r \in Requests : pc[r] \in Working /\ at[r] = p =>
            \/ pc'[r] \in Working /\ at'[r] = p
            \/ p \in cut'
  PROVE  PurchaseOK(p)'
<1>1. (provider[p] = NoId \/ Outcome(p, provider[p]))'
  <2>1. provider[p] = NoId \/ Outcome(p, provider[p])
    BY DEF PurchaseOK
  <2> QED
    BY <2>1 DEF SamePurchase, Outcome, Grows
<1>2. Paid(p)' <=> Paid(p)
  BY DEF Paid, SamePurchase
<1>3. Fulfilled(p)' <=> Fulfilled(p)
  BY DEF Fulfilled, SamePurchase
<1>4. Paid(p)' => \/ p \in cut'
                  \/ \E r \in Requests : pc'[r] \in Working /\ at'[r] = p
                  \/ Fulfilled(p)'
  BY <1>2, <1>3 DEF PurchaseOK, Grows
<1> QED
  BY <1>1, <1>2, <1>4 DEF PurchaseOK, SamePurchase

\* Exclusive says that at most one request works on an order; a step that
\* starts no work on another order keeps it.
LEMMA ExclusiveFrame ==
  ASSUME Exclusive,
         \A q \in Requests : pc'[q] \in Working => pc[q] \in Working /\ at'[q] = at[q]
  PROVE  Exclusive'
BY DEF Exclusive

\* The steps that do not touch orders or requests.
LEMMA QuietStep ==
  ASSUME RequestInv, Exclusive, PurchaseInv,
         Grows, UNCHANGED <<provider, item, applied, counted, cut, pc, at, result, todo>>
  PROVE  RequestInv' /\ Exclusive' /\ PurchaseInv'
<1>1. \A q \in Requests : SameRequest(q)
  BY DEF SameRequest
<1>2. \A p : SamePurchase(p)
  BY DEF SamePurchase
<1>3. RequestInv'
  BY <1>1, <1>2, RequestFrame DEF RequestInv
<1>4. PurchaseInv'
  BY <1>2, PurchaseFrame DEF PurchaseInv
<1>5. Exclusive'
  BY ExclusiveFrame
<1> QED
  BY <1>3, <1>4, <1>5

LEMMA DoneFrame ==
  ASSUME TypeOK, NEW r \in Requests, Done(r) \/ Ends(r)
  PROVE  pc'[r] = "idle" /\ at'[r] = NoPurchase /\ OthersSame(r)
BY DEF Done, Ends, TypeOK, OthersSame, SameRequest

LEMMA ToFulfilmentFrame ==
  ASSUME TypeOK, NEW r \in Requests, ToFulfilment(r)
  PROVE  /\ OthersSame(r)
         /\ \/ at[r] \in Upgrades /\ pc'[r] = "apply" /\ at'[r] = at[r]
            \/ /\ at[r] \notin Upgrades /\ Contents[at[r]] = {}
               /\ pc'[r] = "idle" /\ at'[r] = NoPurchase
            \/ /\ at[r] \notin Upgrades /\ todo'[r] = Contents[at[r]]
               /\ pc'[r] = "items" /\ at'[r] = at[r]
<1>1. CASE at[r] \in Upgrades
  BY <1>1 DEF ToFulfilment, Goto, TypeOK, OthersSame, SameRequest
<1>2. CASE at[r] \notin Upgrades /\ Contents[at[r]] = {}
  BY <1>2, DoneFrame DEF ToFulfilment
<1>3. CASE at[r] \notin Upgrades /\ Contents[at[r]] # {}
  BY <1>3 DEF ToFulfilment, Goto, TypeOK, OthersSame, SameRequest
<1> QED
  BY <1>1, <1>2, <1>3

\* A step of request r with its own order p: the other requests and orders are
\* as before, because nobody else works on p.
LEMMA OwnStep ==
  ASSUME RequestInv, Exclusive, PurchaseInv, Grows,
         NEW r \in Requests, OthersSame(r), NEW p \in Purchases, p = at[r],
         \A q \in Requests : pc[q] \in Working => at[q] \in Purchases,
         \A q \in Requests : q # r /\ pc[q] \in Working => at[q] # p,
         \A o \in Purchases : o # p => SamePurchase(o),
         pc'[r] \in Working => at'[r] = p,
         RequestOK(r)', PurchaseOK(p)'
  PROVE  RequestInv' /\ Exclusive' /\ PurchaseInv'
<1>1. ASSUME NEW q \in Requests, q # r PROVE RequestOK(q)'
  <2>1. SameRequest(q) /\ RequestOK(q)
    BY <1>1 DEF OthersSame, RequestInv
  <2>2. pc[q] \in Working => SamePurchase(at[q])
    BY <1>1
  <2> QED
    BY <2>1, <2>2, RequestFrame
<1>2. ASSUME NEW o \in Purchases, o # p PROVE PurchaseOK(o)'
  <2>1. \A q \in Requests : pc[q] \in Working /\ at[q] = o =>
                               pc'[q] \in Working /\ at'[q] = o
    BY <1>2 DEF OthersSame, SameRequest
  <2> QED
    BY <1>2, <2>1, PurchaseFrame DEF PurchaseInv
<1>3. Exclusive'
  <2>1. ASSUME NEW q \in Requests, q # r, pc'[q] \in Working
        PROVE  pc[q] \in Working /\ at'[q] = at[q] /\ at[q] # p
    BY <2>1 DEF OthersSame, SameRequest
  <2> QED
    BY <2>1 DEF Exclusive
<1>4. RequestInv'
  BY <1>1 DEF RequestInv
<1>5. PurchaseInv'
  BY <1>2 DEF PurchaseInv
<1> QED
  BY <1>3, <1>4, <1>5

-----------------------------------------------------------------------------
(* One lemma for each step that touches orders or requests.                *)

LEMMA CallbackStep ==
  ASSUME IInv, NEW r \in Requests, NEW p \in Purchases,
         NEW s \in Refusals \cup {"success"}, Callback(r, p, s)
  PROVE  RequestInv' /\ Exclusive' /\ PurchaseInv'
<1>1. /\ UNCHANGED <<opened, provider, item, applied, counted, cut, notices>>
      /\ pc[r] = "idle" /\ p \in opened /\ Accepts(p, s) /\ Grows
  BY DEF Callback, row, promo, Grows
<1>2. CASE UNCHANGED request
  BY <1>1, <1>2, QuietStep DEF IInv, request
<1>3. CASE /\ pc' = [pc EXCEPT ![r] = "record"]
           /\ at' = [at EXCEPT ![r] = p]
           /\ result' = [result EXCEPT ![r] = NoticeId(p, s)]
           /\ UNCHANGED todo
  <2>1. /\ OthersSame(r) /\ pc'[r] = "record" /\ at'[r] = p
        /\ result'[r] = NoticeId(p, s)
    BY <1>3 DEF IInv, TypeOK, OthersSame, SameRequest
  <2>2. Outcome(p, result'[r])
    BY <1>1, <2>1 DEF Outcome, Accepts, NoticeId
  <2>3. RequestOK(r)'
    BY <1>1, <2>1, <2>2 DEF RequestOK, Working, Outcome
  <2>4. \A q \in Purchases \cup {NoPurchase} : SamePurchase(q)
    BY <1>1 DEF SamePurchase
  <2>5. ASSUME NEW q \in Requests, q # r PROVE RequestOK(q)'
    <3>1. SameRequest(q) /\ RequestOK(q)
      BY <2>1, <2>5 DEF OthersSame, IInv, RequestInv
    <3>2. SamePurchase(at[q])
      BY <2>4 DEF IInv, TypeOK
    <3> QED
      BY <1>1, <3>1, <3>2, RequestFrame
  <2>6. RequestInv'
    BY <2>3, <2>5 DEF RequestInv
  <2>7. Exclusive'
    BY <1>1, <2>1, ExclusiveFrame DEF OthersSame, SameRequest, Working, IInv
  <2>8. ASSUME NEW o \in Purchases PROVE PurchaseOK(o)'
    <3>1. \A q \in Requests : pc[q] \in Working /\ at[q] = o =>
                                 pc'[q] \in Working /\ at'[q] = o
      BY <1>1, <2>1 DEF OthersSame, SameRequest, Working
    <3> QED
      BY <1>1, <2>4, <3>1, PurchaseFrame DEF IInv, PurchaseInv
  <2> QED
    BY <2>6, <2>7, <2>8 DEF PurchaseInv
<1> QED
  BY <1>2, <1>3 DEF Callback

LEMMA AdminApplyStep ==
  ASSUME IInv, NEW p \in Purchases, AdminApply(p)
  PROVE  RequestInv' /\ Exclusive' /\ PurchaseInv'
<1>1. /\ UNCHANGED <<opened, provider, notices, counted, cut, pc, at, result, todo>>
      /\ p \in Upgrades /\ Paid(p) /\ Grows /\ ApplyEventUpgrade(p)
  BY DEF AdminApply, promo, request, history, Grows
<1>2. /\ \A o \in Purchases : o # p => SamePurchase(o)
      /\ p \in applied'
      /\ \A part \in Parts : item'[p][part] # "cart" => part \in Contents[p]
  <2>1. CASE p \in applied
    BY <1>1, <2>1 DEF ApplyEventUpgrade, SamePurchase, IInv, PurchaseInv, PurchaseOK
  <2>2. CASE p \notin applied
    BY <1>1, <2>2 DEF ApplyEventUpgrade, SamePurchase, IInv, PurchaseInv, PurchaseOK,
                      TypeOK
  <2> QED
    BY <2>1, <2>2
<1>3. ASSUME NEW q \in Requests PROVE RequestOK(q)'
  <2>1. SameRequest(q) /\ RequestOK(q)
    BY <1>1 DEF SameRequest, IInv, RequestInv
  <2>2. CASE pc[q] \in Working /\ at[q] = p
    <3>1. pc[q] = "apply"
      BY <1>1, <2>1, <2>2, CodeAssumption DEF RequestOK, Working
    <3> QED
      BY <1>1, <2>1, <3>1 DEF RequestOK, SameRequest, Working, Paid
  <2>3. CASE ~(pc[q] \in Working /\ at[q] = p)
    <3>1. pc[q] \in Working => SamePurchase(at[q])
      BY <1>2, <2>3, AtPurchase DEF IInv, Working
    <3> QED
      BY <1>1, <2>1, <3>1, RequestFrame
  <2> QED
    BY <2>2, <2>3
<1>4. PurchaseOK(p)'
  <2>1. PurchaseOK(p)
    BY DEF IInv, PurchaseInv
  <2>2. \/ Fulfilled(p)'
        \/ \E q \in Requests : pc'[q] \in Working /\ at'[q] = p
        \/ p \in cut'
    BY <1>1, <1>2, <2>1, CodeAssumption DEF PurchaseOK, Fulfilled
  <2>3. Paid(p)'
    BY <1>1 DEF Paid
  <2>4. (provider[p] = NoId \/ Outcome(p, provider[p]))'
    BY <1>1, <2>1 DEF PurchaseOK, Outcome
  <2> QED
    BY <1>1, <1>2, <2>1, <2>2, <2>3, <2>4 DEF PurchaseOK
<1>5. ASSUME NEW o \in Purchases, o # p PROVE PurchaseOK(o)'
  BY <1>1, <1>2, <1>5, PurchaseFrame DEF IInv, PurchaseInv
<1>6. Exclusive'
  BY <1>1, ExclusiveFrame DEF IInv
<1> QED
  BY <1>3, <1>4, <1>5, <1>6 DEF RequestInv, PurchaseInv

\* A paid order that is on its way to its items: what ToFulfilment leaves.
LEMMA ToFulfilmentOK ==
  ASSUME TypeOK, Grows, NEW r \in Requests, NEW p \in Purchases, p = at[r],
         ToFulfilment(r), p \in opened', Paid(p)',
         \A part \in Parts : item'[p][part] = "cart",
         Code[p] # NoCode => counted'[p] = 1
  PROVE  /\ RequestOK(r)' /\ (pc'[r] \in Working => at'[r] = p)
         /\ \/ pc'[r] \in Working /\ at'[r] = p
            \/ Fulfilled(p)'
<1>1. CASE at[r] \in Upgrades /\ pc'[r] = "apply" /\ at'[r] = at[r]
  BY <1>1 DEF RequestOK, Working, Paid
<1>2. CASE /\ at[r] \notin Upgrades /\ Contents[at[r]] = {}
           /\ pc'[r] = "idle" /\ at'[r] = NoPurchase
  BY <1>2 DEF RequestOK, Working, Fulfilled
<1>3. CASE /\ at[r] \notin Upgrades /\ todo'[r] = Contents[at[r]]
           /\ pc'[r] = "items" /\ at'[r] = at[r]
  <2>1. Contents[p] \subseteq Parts
    BY ContentsAssumption
  <2> QED
    BY <1>3, <2>1 DEF RequestOK, Working, Paid
<1> QED
  BY <1>1, <1>2, <1>3, ToFulfilmentFrame

LEMMA RecordStep ==
  ASSUME IInv, NEW r \in Requests, Record(r)
  PROVE  RequestInv' /\ Exclusive' /\ PurchaseInv'
<1> DEFINE p == at[r]
<1>1. /\ UNCHANGED <<opened, item, applied, notices, counted, cut>>
      /\ pc[r] = "record" /\ p \in Purchases /\ p \in opened /\ Grows
  BY AtPurchase DEF Record, promo, Grows, IInv
<1>2. Outcome(p, result[r]) /\ PurchaseOK(p)
  BY <1>1 DEF IInv, RequestInv, RequestOK, PurchaseInv
<1>3. \A q \in Requests : pc[q] \in Working => at[q] \in Purchases /\ Paid(at[q])
  BY AtPurchase DEF IInv, RequestInv, RequestOK, Working
<1>4. CASE Done(r) /\ UNCHANGED provider
  <2>1. pc'[r] = "idle" /\ at'[r] = NoPurchase /\ OthersSame(r)
    BY <1>4, DoneFrame DEF IInv
  <2>2. \A o \in Purchases \cup {NoPurchase} : SamePurchase(o)
    BY <1>1, <1>4 DEF SamePurchase
  <2>3. RequestOK(r)'
    BY <2>1 DEF RequestOK, Working
  <2>4. ASSUME NEW q \in Requests, q # r PROVE RequestOK(q)'
    <3>1. SameRequest(q) /\ RequestOK(q)
      BY <2>1, <2>4 DEF OthersSame, IInv, RequestInv
    <3> QED
      BY <1>1, <1>3, <2>2, <3>1, RequestFrame
  <2>5. ASSUME NEW o \in Purchases PROVE PurchaseOK(o)'
    <3>1. \A q \in Requests : pc[q] \in Working /\ at[q] = o =>
                                 pc'[q] \in Working /\ at'[q] = o
      BY <1>1, <2>1 DEF OthersSame, SameRequest, Working
    <3> QED
      BY <1>1, <2>2, <3>1, PurchaseFrame DEF IInv, PurchaseInv
  <2>6. Exclusive'
    BY <2>1, ExclusiveFrame DEF OthersSame, SameRequest, Working, IInv
  <2> QED
    BY <2>3, <2>4, <2>5, <2>6 DEF RequestInv, PurchaseInv
<1>5. CASE provider[p] = NoId /\ \A q \in Purchases : provider[q] # result[r]
  <2>1. /\ provider' = [provider EXCEPT ![p] = result[r]]
        /\ IF result[r] # PaidId(p) THEN Done(r)
           ELSE IF Code[p] # NoCode THEN Goto(r, "promo") /\ UNCHANGED todo
           ELSE ToFulfilment(r)
    BY <1>5 DEF Record
  <2>2. provider'[p] = result[r] /\ \A o \in Purchases : o # p => SamePurchase(o)
    BY <1>1, <2>1 DEF SamePurchase, IInv, TypeOK
  <2>3. ~Paid(p)
    BY <1>1, <1>5, IdsDiffer DEF Paid
  <2>4. \A q \in Requests : q # r /\ pc[q] \in Working => at[q] # p
    BY <1>3, <2>3
  <2>5. /\ \A part \in Parts : item'[p][part] = "cart"
        /\ p \notin applied' /\ counted'[p] = 0
    BY <1>1, <1>2, <2>3 DEF PurchaseOK
  <2>7. ASSUME NEW o \in Purchases, o = p PROVE (provider[o] = NoId \/ Outcome(o, provider[o]))'
    BY <1>1, <1>2, <2>2, <2>7 DEF Outcome
  <2>8. CASE result[r] # PaidId(p)
    <3>1. pc'[r] = "idle" /\ at'[r] = NoPurchase /\ OthersSame(r)
      BY <2>1, <2>8, DoneFrame DEF IInv
    <3>2. RequestOK(r)'
      BY <3>1 DEF RequestOK, Working
    <3>3. ASSUME NEW o \in Purchases, o = p PROVE PurchaseOK(o)'
      BY <1>1, <2>2, <2>5, <2>7, <2>8, <3>3 DEF PurchaseOK, Paid
    <3> QED
      BY <1>1, <1>3, <2>2, <2>4, <3>1, <3>2, <3>3, OwnStep DEF IInv, Working
  <2>9. CASE result[r] = PaidId(p) /\ Code[p] # NoCode
    <3>1. Goto(r, "promo") /\ UNCHANGED todo
      BY <2>1, <2>9
    <3>2. pc'[r] = "promo" /\ at'[r] = p /\ OthersSame(r)
      BY <3>1 DEF Goto, OthersSame, SameRequest, IInv, TypeOK
    <3>3. RequestOK(r)'
      BY <1>1, <2>2, <2>5, <2>9, <3>2 DEF RequestOK, Working, Paid
    <3>4. ASSUME NEW o \in Purchases, o = p PROVE PurchaseOK(o)'
      BY <1>1, <2>2, <2>5, <2>7, <2>9, <3>2, <3>4 DEF PurchaseOK, Paid, Working
    <3> QED
      BY <1>1, <1>3, <2>2, <2>4, <3>2, <3>3, <3>4, OwnStep DEF IInv
  <2>10. CASE result[r] = PaidId(p) /\ Code[p] = NoCode
    <3>1. ToFulfilment(r)
      BY <2>1, <2>10
    <3>2. OthersSame(r)
      BY <3>1, ToFulfilmentFrame DEF IInv
    <3>3. ASSUME NEW o \in Purchases, o = p
          PROVE  /\ RequestOK(r)' /\ (pc'[r] \in Working => at'[r] = o)
                 /\ \/ pc'[r] \in Working /\ at'[r] = o
                    \/ Fulfilled(o)'
      <4>1. Paid(o)'
        BY <2>2, <2>10, <3>3 DEF Paid
      <4> QED
        BY <1>1, <2>5, <2>10, <3>1, <3>3, <4>1, ToFulfilmentOK DEF IInv
    <3>4. ASSUME NEW o \in Purchases, o = p PROVE PurchaseOK(o)'
      <4>1. Paid(o)'
        BY <2>2, <2>10, <3>4 DEF Paid
      <4> QED
        BY <1>1, <2>2, <2>5, <2>7, <2>10, <3>3, <3>4, <4>1 DEF PurchaseOK
    <3> QED
      BY <1>1, <1>3, <2>2, <2>4, <3>2, <3>3, <3>4, OwnStep DEF IInv
  <2> QED
    BY <2>8, <2>9, <2>10
<1> QED
  BY <1>1, <1>4, <1>5 DEF Record

LEMMA CountPromoStep ==
  ASSUME IInv, NEW r \in Requests, CountPromo(r)
  PROVE  RequestInv' /\ Exclusive' /\ PurchaseInv'
<1> DEFINE p == at[r]
<1>1. /\ UNCHANGED <<opened, provider, item, applied, notices, cut>>
      /\ counted' = [counted EXCEPT ![p] = @ + 1] /\ ToFulfilment(r)
      /\ pc[r] = "promo" /\ p \in Purchases /\ p \in opened /\ Grows
  BY AtPurchase DEF CountPromo, row, Grows, IInv
<1>2. /\ Paid(p) /\ Code[p] # NoCode /\ counted[p] = 0
      /\ \A part \in Parts : item[p][part] = "cart"
  BY <1>1 DEF IInv, RequestInv, RequestOK, Working
<1>3. counted'[p] = 1 /\ \A o \in Purchases : o # p => SamePurchase(o)
  BY <1>1, <1>2 DEF SamePurchase, IInv, TypeOK
<1>4. \A q \in Requests : q # r /\ pc[q] \in Working => at[q] # p
  BY <1>1 DEF IInv, Exclusive, Working
<1>5. \A q \in Requests : pc[q] \in Working => at[q] \in Purchases
  BY AtPurchase DEF IInv, Working
<1>6. OthersSame(r)
  BY <1>1, ToFulfilmentFrame DEF IInv
<1>7. ASSUME NEW o \in Purchases, o = p
      PROVE  /\ RequestOK(r)' /\ (pc'[r] \in Working => at'[r] = o)
             /\ \/ pc'[r] \in Working /\ at'[r] = o
                \/ Fulfilled(o)'
  <2>1. Paid(o)'
    BY <1>1, <1>2, <1>7 DEF Paid
  <2> QED
    BY <1>1, <1>2, <1>3, <1>7, <2>1, ToFulfilmentOK DEF IInv
<1>8. ASSUME NEW o \in Purchases, o = p PROVE PurchaseOK(o)'
  <2>1. Paid(o)' /\ (provider[o] = NoId \/ Outcome(o, provider[o]))'
    BY <1>1, <1>2, <1>8 DEF Paid, Outcome, IInv, PurchaseInv, PurchaseOK
  <2> QED
    BY <1>1, <1>2, <1>3, <1>7, <1>8, <2>1 DEF PurchaseOK
<1> QED
  BY <1>1, <1>3, <1>4, <1>5, <1>6, <1>7, <1>8, OwnStep DEF IInv

LEMMA ApplyUpgradeStep ==
  ASSUME IInv, NEW r \in Requests, ApplyUpgrade(r)
  PROVE  RequestInv' /\ Exclusive' /\ PurchaseInv'
<1> DEFINE p == at[r]
<1>1. /\ UNCHANGED <<opened, provider, notices, counted, cut>>
      /\ ApplyEventUpgrade(p) /\ Done(r)
      /\ pc[r] = "apply" /\ p \in Purchases /\ p \in Upgrades /\ Grows
  BY AtPurchase DEF ApplyUpgrade, promo, Grows, IInv
<1>2. Paid(p)
  BY <1>1 DEF IInv, RequestInv, RequestOK, Working
<1>3. /\ \A o \in Purchases : o # p => SamePurchase(o)
      /\ p \in applied'
      /\ \A part \in Parts : item'[p][part] # "cart" => part \in Contents[p]
  <2>1. CASE p \in applied
    BY <1>1, <2>1 DEF ApplyEventUpgrade, SamePurchase, IInv, PurchaseInv, PurchaseOK
  <2>2. CASE p \notin applied
    BY <1>1, <2>2 DEF ApplyEventUpgrade, SamePurchase, IInv, PurchaseInv, PurchaseOK,
                      TypeOK
  <2> QED
    BY <2>1, <2>2
<1>4. \A q \in Requests : q # r /\ pc[q] \in Working => at[q] # p
  BY <1>1 DEF IInv, Exclusive, Working
<1>5. \A q \in Requests : pc[q] \in Working => at[q] \in Purchases
  BY AtPurchase DEF IInv, Working
<1>6. pc'[r] = "idle" /\ at'[r] = NoPurchase /\ OthersSame(r)
  BY <1>1, DoneFrame DEF IInv
<1>7. RequestOK(r)'
  BY <1>6 DEF RequestOK, Working
<1>8. ASSUME NEW o \in Purchases, o = p PROVE PurchaseOK(o)'
  <2>1. PurchaseOK(o)
    BY DEF IInv, PurchaseInv
  <2>2. Paid(o)' /\ (provider[o] = NoId \/ Outcome(o, provider[o]))'
    BY <1>1, <1>2, <1>8, <2>1 DEF Paid, Outcome, PurchaseOK
  <2>3. Fulfilled(o)'
    BY <1>1, <1>3, <1>8, CodeAssumption DEF Fulfilled
  <2> QED
    BY <1>1, <1>3, <1>8, <2>1, <2>2, <2>3 DEF PurchaseOK
<1> QED
  BY <1>1, <1>3, <1>4, <1>5, <1>6, <1>7, <1>8, OwnStep DEF IInv, Working

LEMMA UpdateItemsStep ==
  ASSUME IInv, NEW r \in Requests, UpdateItems(r)
  PROVE  RequestInv' /\ Exclusive' /\ PurchaseInv'
<1> DEFINE p == at[r]
<1>1. /\ UNCHANGED <<opened, provider, applied, notices, counted, cut>>
      /\ pc[r] = "items" /\ p \in Purchases /\ p \in opened /\ Grows
  BY AtPurchase DEF UpdateItems, promo, Grows, IInv
<1>2. PICK part \in todo[r] :
          /\ item' = [item EXCEPT ![p][part] = Target(part)]
          /\ IF todo[r] = {part} THEN Done(r)
             ELSE /\ todo' = [todo EXCEPT ![r] = @ \ {part}]
                  /\ UNCHANGED <<pc, at, result, handled>>
  BY DEF UpdateItems
<1>3. /\ Paid(p) /\ p \notin Upgrades /\ todo[r] \subseteq Contents[p]
      /\ Code[p] # NoCode => counted[p] = 1
      /\ \A x \in todo[r] : item[p][x] = "cart"
      /\ \A x \in Contents[p] \ todo[r] : item[p][x] = Target(x)
  BY <1>1 DEF IInv, RequestInv, RequestOK, Working
<1>4. part \in Parts /\ part \in Contents[p] /\ Contents[p] \subseteq Parts
  BY <1>1, <1>2, <1>3, ContentsAssumption
<1>5. /\ \A o \in Purchases : o # p => SamePurchase(o)
      /\ item'[p][part] = Target(part)
      /\ \A x \in Parts : x # part => item'[p][x] = item[p][x]
  BY <1>1, <1>2, <1>4 DEF SamePurchase, IInv, TypeOK
<1>6. \A q \in Requests : q # r /\ pc[q] \in Working => at[q] # p
  BY <1>1 DEF IInv, Exclusive, Working
<1>7. \A q \in Requests : pc[q] \in Working => at[q] \in Purchases
  BY AtPurchase DEF IInv, Working
<1>8. ASSUME NEW o \in Purchases, o = p,
             \/ pc'[r] \in Working /\ at'[r] = o
             \/ Fulfilled(o)'
      PROVE  PurchaseOK(o)'
  <2>1. PurchaseOK(o)
    BY DEF IInv, PurchaseInv
  <2>2. Paid(o)' /\ (provider[o] = NoId \/ Outcome(o, provider[o]))'
    BY <1>1, <1>3, <1>8, <2>1 DEF Paid, Outcome, PurchaseOK
  <2>3. \A x \in Parts : item'[o][x] # "cart" => x \in Contents[o]
    BY <1>4, <1>5, <1>8, <2>1 DEF PurchaseOK
  <2> QED
    BY <1>1, <1>8, <2>1, <2>2, <2>3 DEF PurchaseOK
<1>9. CASE todo[r] = {part}
  <2>1. pc'[r] = "idle" /\ at'[r] = NoPurchase /\ OthersSame(r)
    BY <1>2, <1>9, DoneFrame DEF IInv
  <2>2. RequestOK(r)'
    BY <2>1 DEF RequestOK, Working
  <2>3. ASSUME NEW o \in Purchases, o = p PROVE Fulfilled(o)'
    BY <1>1, <1>3, <1>4, <1>5, <1>9, <2>3 DEF Fulfilled
  <2> QED
    BY <1>1, <1>5, <1>6, <1>7, <1>8, <2>1, <2>2, <2>3, OwnStep DEF IInv, Working
<1>10. CASE todo[r] # {part}
  <2>1. /\ pc' = pc /\ at' = at /\ result' = result
        /\ todo'[r] = todo[r] \ {part} /\ OthersSame(r)
    BY <1>2, <1>10 DEF IInv, TypeOK, OthersSame, SameRequest
  <2>2. /\ \A x \in todo'[r] : item'[p][x] = "cart"
        /\ \A x \in Contents[p] \ todo'[r] : item'[p][x] = Target(x)
    BY <1>3, <1>4, <1>5, <2>1
  <2>3. RequestOK(r)'
    BY <1>1, <1>3, <2>1, <2>2 DEF RequestOK, Working, Paid
  <2> QED
    BY <1>1, <1>5, <1>6, <1>7, <1>8, <2>1, <2>3, OwnStep DEF IInv, Working
<1> QED
  BY <1>9, <1>10

LEMMA CallbackFailsStep ==
  ASSUME IInv, NEW r \in Requests, CallbackFails(r)
  PROVE  RequestInv' /\ Exclusive' /\ PurchaseInv'
<1>1. /\ UNCHANGED <<opened, provider, item, applied, notices, counted>>
      /\ pc[r] # "idle" /\ Ends(r) /\ Grows
      /\ cut' = IF pc[r] = "record" THEN cut ELSE cut \cup {at[r]}
  BY DEF CallbackFails, row, promo, Grows
<1>2. pc'[r] = "idle" /\ at'[r] = NoPurchase /\ OthersSame(r)
  BY <1>1, DoneFrame DEF IInv
<1>3. \A o \in Purchases : SamePurchase(o)
  BY <1>1 DEF SamePurchase
<1>4. ASSUME NEW q \in Requests PROVE RequestOK(q)'
  <2>1. CASE q = r
    BY <1>2, <2>1 DEF RequestOK, Working
  <2>2. CASE q # r
    <3>1. SameRequest(q) /\ RequestOK(q)
      BY <1>2, <2>2 DEF OthersSame, IInv, RequestInv
    <3>2. pc[q] \in Working => at[q] \in Purchases
      BY AtPurchase DEF IInv, Working
    <3> QED
      BY <1>1, <1>3, <3>1, <3>2, RequestFrame
  <2> QED
    BY <2>1, <2>2
<1>5. ASSUME NEW o \in Purchases PROVE PurchaseOK(o)'
  <2>1. \A q \in Requests : pc[q] \in Working /\ at[q] = o =>
           \/ pc'[q] \in Working /\ at'[q] = o
           \/ o \in cut'
    BY <1>1, <1>2 DEF OthersSame, SameRequest, Working
  <2> QED
    BY <1>1, <1>3, <2>1, PurchaseFrame DEF IInv, PurchaseInv
<1>6. Exclusive'
  BY <1>2, ExclusiveFrame DEF OthersSame, SameRequest, Working, IInv
<1> QED
  BY <1>4, <1>5, <1>6 DEF RequestInv, PurchaseInv

LEMMA RestartStep ==
  ASSUME IInv, Restart
  PROVE  RequestInv' /\ Exclusive' /\ PurchaseInv'
<1>1. /\ UNCHANGED <<opened, provider, item, applied, notices, counted>>
      /\ \A q \in Requests : pc'[q] = "idle" /\ at'[q] = NoPurchase
      /\ cut' = cut \cup {at[q] : q \in {x \in Requests : pc[x] \notin {"idle", "record"}}}
      /\ Grows
  BY DEF Restart, row, promo, Grows
<1>2. RequestInv'
  BY <1>1 DEF RequestInv, RequestOK, Working
<1>3. Exclusive'
  BY <1>1 DEF Exclusive, Working
<1>4. ASSUME NEW o \in Purchases PROVE PurchaseOK(o)'
  <2>1. \A q \in Requests : pc[q] \in Working /\ at[q] = o => o \in cut'
    BY <1>1 DEF Working
  <2>2. SamePurchase(o)
    BY <1>1 DEF SamePurchase
  <2> QED
    BY <1>1, <2>1, <2>2, PurchaseFrame DEF IInv, PurchaseInv
<1> QED
  BY <1>2, <1>3, <1>4 DEF PurchaseInv

-----------------------------------------------------------------------------
(* The inductive invariant.                                                *)

LEMMA InitIInv == Init => IInv
<1> SUFFICES ASSUME Init PROVE IInv
  OBVIOUS
<1>1. TypeOK
  BY InitTypeOK
<1>2. RequestInv /\ Exclusive /\ ProviderInv
  BY DEF Init, RequestInv, RequestOK, Exclusive, ProviderInv, Working
<1>3. \A p \in Purchases : provider[p] = NoId /\ ~Paid(p)
  BY IdsDiffer DEF Init, Paid
<1>4. PurchaseInv
  BY <1>3 DEF Init, PurchaseInv, PurchaseOK
<1> QED
  BY <1>1, <1>2, <1>4 DEF IInv

\* The next-state relation as a list, for case distinctions.
LEMMA NextCases ==
  ASSUME [Next]_vars
  PROVE  \/ \E p \in Purchases : Purchase(p)
         \/ \E p \in Purchases : AdminApply(p)
         \/ \E p \in Purchases, s \in Refusals \cup {"success"} : Notify(p, s)
         \/ \E p \in Purchases, s \in Refusals \cup {"success"}, r \in Requests :
               Callback(r, p, s)
         \/ \E c \in Codes : Expires(c)
         \/ PromoCron
         \/ \E r \in Requests : \/ Record(r) \/ CountPromo(r) \/ ApplyUpgrade(r)
                                \/ UpdateItems(r) \/ CallbackFails(r)
         \/ Restart
         \/ UNCHANGED vars
BY DEF Next, Processing

\* Steps of the buyer, of LiqPay, of the clock and of the cron.
LEMMA OutsideStep ==
  ASSUME IInv,
         \/ \E p \in Purchases : Purchase(p)
         \/ \E p \in Purchases, s \in Refusals \cup {"success"} : Notify(p, s)
         \/ \E c \in Codes : Expires(c)
         \/ PromoCron
         \/ UNCHANGED vars
  PROVE  /\ Grows
         /\ UNCHANGED <<provider, item, applied, counted, cut, pc, at, result, todo>>
BY DEF Purchase, Notify, Expires, PromoCron, vars, Grows, row, request, history

LEMMA NextProviderInv ==
  ASSUME IInv, [Next]_vars
  PROVE  ProviderInv'
<1>1. ASSUME NEW r \in Requests, Record(r) PROVE ProviderInv'
  <2>1. at[r] \in opened /\ opened' = opened
    BY <1>1, AtPurchase DEF Record, IInv
  <2>2. \A p \in Purchases : p # at[r] => provider'[p] = provider[p]
    BY <1>1 DEF Record, IInv, TypeOK
  <2> QED
    BY <2>1, <2>2 DEF IInv, ProviderInv
<1>2. ASSUME NEW p \in Purchases,
             \/ Purchase(p) \/ AdminApply(p)
             \/ \E s \in Refusals \cup {"success"} :
                    Notify(p, s) \/ \E r \in Requests : Callback(r, p, s)
      PROVE  provider' = provider /\ opened \subseteq opened'
  BY <1>2 DEF Purchase, AdminApply, Notify, Callback, row
<1>3. ASSUME NEW r \in Requests, \/ CountPromo(r) \/ ApplyUpgrade(r)
                                 \/ UpdateItems(r) \/ CallbackFails(r)
      PROVE  provider' = provider /\ opened \subseteq opened'
  BY <1>3 DEF CountPromo, ApplyUpgrade, UpdateItems, CallbackFails, row
<1>4. (\E c \in Codes : Expires(c)) \/ PromoCron \/ Restart \/ UNCHANGED vars =>
         provider' = provider /\ opened \subseteq opened'
  BY DEF Expires, PromoCron, Restart, vars, row
<1>5. CASE provider' = provider /\ opened \subseteq opened'
  BY <1>5 DEF IInv, ProviderInv
<1> QED
  BY NextCases, <1>1, <1>2, <1>3, <1>4, <1>5

LEMMA NextIInv == IInv /\ [Next]_vars => IInv'
<1> SUFFICES ASSUME IInv, [Next]_vars PROVE IInv'
  OBVIOUS
<1>1. TypeOK'
  BY NextTypeOK DEF IInv
<1>2. ProviderInv'
  BY NextProviderInv
<1>3. RequestInv' /\ Exclusive' /\ PurchaseInv'
  <2>1. CASE \/ \E p \in Purchases : Purchase(p)
             \/ \E p \in Purchases, s \in Refusals \cup {"success"} : Notify(p, s)
             \/ \E c \in Codes : Expires(c)
             \/ PromoCron
             \/ UNCHANGED vars
    BY <2>1, OutsideStep, QuietStep DEF IInv
  <2>2. CASE \E p \in Purchases : AdminApply(p)
    BY <2>2, AdminApplyStep
  <2>3. CASE \E p \in Purchases, s \in Refusals \cup {"success"}, r \in Requests :
                Callback(r, p, s)
    BY <2>3, CallbackStep
  <2>4. CASE \E r \in Requests : \/ Record(r) \/ CountPromo(r) \/ ApplyUpgrade(r)
                                 \/ UpdateItems(r) \/ CallbackFails(r)
    BY <2>4, RecordStep, CountPromoStep, ApplyUpgradeStep, UpdateItemsStep,
       CallbackFailsStep
  <2>5. CASE Restart
    BY <2>5, RestartStep
  <2> QED
    BY NextCases, <2>1, <2>2, <2>3, <2>4, <2>5
<1> QED
  BY <1>1, <1>2, <1>3 DEF IInv

LEMMA Invariant == Spec => []IInv
BY InitIInv, NextIInv, PTL DEF Spec

\* The types of the order state, whatever LiqPay, the buyers and the cron do.
THEOREM TypeCorrect == Spec => []TypeOK
<1>1. IInv => TypeOK
  BY DEF IInv
<1> QED
  BY <1>1, Invariant, PTL

\* OutcomeWasNotified: Payment_cb records an order paid only on a success signed
\* for it, and failed only with a status that was signed as a refusal.
THEOREM OutcomesWereNotified == Spec => []OutcomeWasNotified
<1>1. IInv => OutcomeWasNotified
  <2> SUFFICES ASSUME IInv, NEW p \in Purchases
               PROVE  /\ Paid(p) => <<p, "success">> \in notices
                      /\ \A s \in Refusals : provider[p] = FailedId(s) =>
                            \E q \in Purchases : <<q, s>> \in notices
    BY DEF OutcomeWasNotified
  <2>1. provider[p] = NoId \/ Outcome(p, provider[p])
    BY DEF IInv, PurchaseInv, PurchaseOK
  <2>2. Paid(p) => <<p, "success">> \in notices
    BY <2>1, IdsDiffer DEF Paid, Outcome
  <2>3. ASSUME NEW s \in Refusals, provider[p] = FailedId(s)
        PROVE  \E q \in Purchases : <<q, s>> \in notices
    <3>1. PICK t \in Refusals, q \in Purchases :
              provider[p] = FailedId(t) /\ <<q, t>> \in notices
      BY <2>1, <2>3, IdsDiffer DEF Outcome
    <3>2. s = t
      BY <2>3, <3>1 DEF FailedId
    <3> QED
      BY <3>1, <3>2
  <2> QED
    BY <2>2, <2>3
<1> QED
  BY <1>1, Invariant, PTL

\* PaidIsFulfilled: Payment_cb leaves a paid order unfulfilled only when one of
\* its statements failed or the server restarted.
THEOREM PaidOrdersAreFulfilled == Spec => []PaidIsFulfilled
<1>1. IInv => PaidIsFulfilled
  BY DEF IInv, PurchaseInv, PurchaseOK, Fulfilled, PaidIsFulfilled
<1> QED
  BY <1>1, Invariant, PTL

\* NothingBeforePayment: items, upgrades and promo codes wait for the payment.
THEOREM NothingHappensBeforePayment == Spec => []NothingBeforePayment
<1>1. IInv => NothingBeforePayment
  BY DEF IInv, PurchaseInv, PurchaseOK, NothingBeforePayment
<1> QED
  BY <1>1, Invariant, PTL

-----------------------------------------------------------------------------
(* Orders whose notification has been handled.                             *)

Recorded(p, id) == provider[p] # NoId \/ (id # NoId /\ Shadowed(p, id))
HandledInv == \A h \in handled : Recorded(h[1], h[2])

\* An outcome that is recorded stays.
LEMMA OutcomesStay ==
  ASSUME IInv, [Next]_vars
  PROVE  \A p \in Purchases : provider[p] # NoId => provider'[p] = provider[p]
<1>1. ASSUME NEW r \in Requests, Record(r)
      PROVE  \A p \in Purchases : provider[p] # NoId => provider'[p] = provider[p]
  BY <1>1 DEF Record, IInv, TypeOK
<1>2. CASE \E p \in Purchases : AdminApply(p)
  BY <1>2 DEF AdminApply
<1>3. CASE \E p \in Purchases, s \in Refusals \cup {"success"}, r \in Requests :
              Callback(r, p, s)
  BY <1>3 DEF Callback, row
<1>4. CASE \E r \in Requests : CountPromo(r) \/ ApplyUpgrade(r) \/ UpdateItems(r)
                                \/ CallbackFails(r)
  BY <1>4 DEF CountPromo, ApplyUpgrade, UpdateItems, CallbackFails, row
<1>5. CASE Restart
  BY <1>5 DEF Restart, row
<1>6. CASE \E p \in Purchases, s \in Refusals \cup {"success"} : Notify(p, s)
  BY <1>6 DEF Notify, row
<1>7. CASE \/ \E p \in Purchases : Purchase(p)
           \/ \E c \in Codes : Expires(c)
           \/ PromoCron
           \/ UNCHANGED vars
  BY <1>7 DEF Purchase, Expires, PromoCron, vars, row
<1> QED
  BY NextCases, <1>1, <1>2, <1>3, <1>4, <1>5, <1>6, <1>7

LEMMA RecordedStays ==
  ASSUME IInv, [Next]_vars, NEW p \in Purchases, NEW id, Recorded(p, id)
  PROVE  Recorded(p, id)'
<1>1. CASE provider[p] # NoId
  BY <1>1, OutcomesStay DEF Recorded
<1>2. CASE id # NoId /\ Shadowed(p, id)
  <2>1. PICK q \in Purchases \ {p} : provider[q] = id
    BY <1>2 DEF Shadowed
  <2>2. provider'[q] = id
    BY <1>2, <2>1, OutcomesStay
  <2> QED
    BY <1>2, <2>1, <2>2 DEF Recorded, Shadowed
<1> QED
  BY <1>1, <1>2 DEF Recorded

\* Whichever way Record ends, the order is recorded before or by it.
LEMMA RecordLeaves ==
  ASSUME IInv, NEW r \in Requests, NEW p \in Purchases, p = at[r], Record(r),
         NEW id, id = result[r]
  PROVE  handled' \subseteq handled \cup {<<p, id>>} /\ Recorded(p, id)'
<1>1. Outcome(p, id)
  BY AtPurchase DEF Record, IInv, RequestInv, RequestOK
<1>2. handled' \subseteq handled \cup {<<p, id>>}
  BY DEF Record, Done, ToFulfilment, Goto
<1>3. id # NoId
  BY <1>1, IdsDiffer DEF Outcome
<1>4. CASE provider[p] # NoId
  <2>1. provider' = provider
    BY <1>4 DEF Record
  <2> QED
    BY <1>2, <1>4, <2>1 DEF Recorded
<1>5. CASE provider[p] = NoId /\ \E q \in Purchases : provider[q] = id
  <2>1. PICK q \in Purchases : provider[q] = id
    BY <1>5
  <2>2. provider' = provider /\ q # p
    BY <1>3, <1>5, <2>1 DEF Record
  <2> QED
    BY <1>2, <1>3, <2>1, <2>2 DEF Recorded, Shadowed
<1>6. CASE provider[p] = NoId /\ ~\E q \in Purchases : provider[q] = id
  <2>1. provider' = [provider EXCEPT ![p] = id]
    BY <1>6 DEF Record
  <2>2. provider'[p] # NoId
    BY <1>3, <2>1 DEF IInv, TypeOK
  <2> QED
    BY <1>2, <2>2 DEF Recorded
<1> QED
  BY <1>4, <1>5, <1>6

LEMMA NextHandled ==
  ASSUME IInv, HandledInv, [Next]_vars
  PROVE  HandledInv'
<1> SUFFICES ASSUME NEW h \in handled' PROVE Recorded(h[1], h[2])'
  BY DEF HandledInv
<1>1. CASE h \in handled
  <2>1. h[1] \in Purchases /\ Recorded(h[1], h[2])
    BY <1>1 DEF HandledInv, IInv, TypeOK
  <2> QED
    BY <2>1, RecordedStays
<1>2. CASE h \notin handled
  <2>1. ASSUME NEW r \in Requests, Record(r) PROVE Recorded(h[1], h[2])'
    <3>1. at[r] \in Purchases
      BY <2>1, AtPurchase DEF Record, IInv
    <3>2. PICK p \in Purchases, id \in {result[r]} : p = at[r] /\ id = result[r]
      BY <3>1
    <3>3. handled' \subseteq handled \cup {<<p, id>>} /\ Recorded(p, id)'
      BY <2>1, <3>2, RecordLeaves
    <3>4. h = <<p, id>>
      BY <1>2, <3>3
    <3>5. h[1] = p /\ h[2] = id
      BY <3>4
    <3> QED
      BY <3>3, <3>5
  <2>2. ASSUME NEW r \in Requests, CountPromo(r) \/ ApplyUpgrade(r) \/ UpdateItems(r)
        PROVE  Recorded(h[1], h[2])'
    <3>1. h = <<at[r], result[r]>>
      BY <1>2, <2>2 DEF CountPromo, ApplyUpgrade, UpdateItems, ToFulfilment, Goto, Done
    <3>2. h[1] \in Purchases /\ Paid(h[1])
      BY <2>2, <3>1, AtPurchase
         DEF CountPromo, ApplyUpgrade, UpdateItems, IInv, RequestInv, RequestOK, Working
    <3>3. provider[h[1]] # NoId
      BY <3>2, IdsDiffer DEF Paid
    <3> QED
      BY <3>2, <3>3, OutcomesStay DEF Recorded
  <2>3. ASSUME NEW o \in Purchases, NEW s \in Refusals \cup {"success"},
               NEW r \in Requests, Callback(r, o, s)
        PROVE  Recorded(h[1], h[2])'
    <3>1. h[1] = o /\ provider[o] # NoId
      BY <1>2, <2>3 DEF Callback
    <3> QED
      BY <3>1, OutcomesStay DEF Recorded
  <2>4. \/ \E o \in Purchases : Purchase(o) \/ AdminApply(o)
        \/ \E o \in Purchases, s \in Refusals \cup {"success"} : Notify(o, s)
        \/ \E c \in Codes : Expires(c)
        \/ PromoCron \/ Restart
        \/ \E r \in Requests : CallbackFails(r)
        \/ UNCHANGED vars
        => handled' = handled
    BY DEF Purchase, AdminApply, Notify, Expires, PromoCron, Restart, CallbackFails,
           vars, history
  <2> QED
    BY <1>2, <2>1, <2>2, <2>3, <2>4, NextCases
<1> QED
  BY <1>1, <1>2

\* HandledIsRecorded: an order that LiqPay's notifications have been answered for
\* has its outcome, or another order was first with the very refusal it was given.
THEOREM HandledOrdersAreRecorded == Spec => []HandledIsRecorded
<1>1. Init => HandledInv
  BY DEF Init, HandledInv
<1>2. IInv /\ HandledInv /\ [Next]_vars => HandledInv'
  BY NextHandled
<1>3. HandledInv => HandledIsRecorded
  BY DEF HandledInv, Recorded, HandledIsRecorded
<1> QED
  BY <1>1, <1>2, <1>3, Invariant, PTL DEF Spec

-----------------------------------------------------------------------------
(* Promo codes.                                                            *)

LEMMA CountedWithFinite ==
  \A c \in Codes : /\ IsFiniteSet(CountedWith(c))
                   /\ Cardinality(CountedWith(c)) \in Nat
<1> TAKE c \in Codes
<1>1. CountedWith(c) \subseteq Purchases
  BY DEF CountedWith
<1>2. IsFiniteSet(CountedWith(c))
  BY <1>1, PurchasesAssumption, FS_Subset
<1> QED
  BY <1>2, FS_CardinalityType

LEMMA InitUsageInv == Init => UsageInv
<1> SUFFICES ASSUME Init, NEW c \in Codes PROVE usage[c] = Cardinality(CountedWith(c))
  BY DEF UsageInv
<1>1. CountedWith(c) = {}
  BY DEF Init, CountedWith
<1> QED
  BY <1>1, FS_EmptySet DEF Init

LEMMA NextUsageInv ==
  ASSUME IInv, UsageInv, [Next]_vars
  PROVE  UsageInv'
<1>1. CASE UNCHANGED <<usage, counted>>
  BY <1>1 DEF UsageInv, CountedWith
<1>2. ASSUME NEW r \in Requests, CountPromo(r), NEW c \in Codes
      PROVE  usage'[c] = Cardinality(CountedWith(c)')
  <2> DEFINE p == at[r]
  <2>1. /\ usage' = [usage EXCEPT ![Code[p]] = @ + 1]
        /\ counted' = [counted EXCEPT ![p] = @ + 1]
        /\ p \in Purchases /\ Code[p] \in Codes /\ counted[p] = 0
    BY <1>2, AtPurchase DEF CountPromo, IInv, RequestInv, RequestOK
  <2>2. CASE c = Code[p]
    <3>1. CountedWith(c)' = CountedWith(c) \cup {p} /\ p \notin CountedWith(c)
      BY <2>1, <2>2 DEF CountedWith, IInv, TypeOK
    <3>2. Cardinality(CountedWith(c) \cup {p}) = Cardinality(CountedWith(c)) + 1
      BY <3>1, CountedWithFinite, FS_AddElement
    <3>3. usage'[c] = usage[c] + 1
      BY <2>1, <2>2 DEF IInv, TypeOK
    <3> QED
      BY <3>1, <3>2, <3>3 DEF UsageInv
  <2>3. CASE c # Code[p]
    <3>1. CountedWith(c)' = CountedWith(c)
      BY <2>1, <2>3 DEF CountedWith, IInv, TypeOK
    <3>2. usage'[c] = usage[c]
      BY <2>1, <2>3 DEF IInv, TypeOK
    <3> QED
      BY <3>1, <3>2 DEF UsageInv
  <2> QED
    BY <2>2, <2>3
<1>3. CASE \E r \in Requests : CountPromo(r)
  BY <1>2, <1>3 DEF UsageInv
<1>4. ASSUME NEW r \in Requests, \/ Record(r) \/ ApplyUpgrade(r) \/ UpdateItems(r)
                                 \/ CallbackFails(r)
      PROVE  UNCHANGED <<usage, counted>>
  BY <1>4 DEF Record, ApplyUpgrade, UpdateItems, CallbackFails, promo
<1>5. ASSUME NEW p \in Purchases, NEW s \in Refusals \cup {"success"},
             \/ Notify(p, s)
             \/ \E r \in Requests : Callback(r, p, s)
      PROVE  UNCHANGED <<usage, counted>>
  BY <1>5 DEF Notify, Callback, promo, history
<1>6. ASSUME NEW p \in Purchases, Purchase(p) \/ AdminApply(p)
      PROVE  UNCHANGED <<usage, counted>>
  BY <1>6 DEF Purchase, AdminApply, promo, history
<1>7. (\E c \in Codes : Expires(c)) \/ PromoCron \/ Restart \/ UNCHANGED vars =>
         UNCHANGED <<usage, counted>>
  BY DEF Expires, PromoCron, Restart, vars, promo, history
<1> QED
  BY NextCases, <1>1, <1>3, <1>4, <1>5, <1>6, <1>7

LEMMA UsageMeaning == IInv /\ UsageInv => UsageIsPaidOrders
<1> DEFINE With(c) == {p \in Purchases : Code[p] = c}
           PaidWith(c) == {p \in With(c) : Paid(p)}
<1> SUFFICES ASSUME IInv, UsageInv, NEW c \in Codes
             PROVE  /\ usage[c] <= Cardinality(PaidWith(c))
                    /\ (\A p \in With(c) : p \notin cut /\ \A r \in Requests : at[r] # p)
                          => usage[c] = Cardinality(PaidWith(c))
  BY DEF UsageIsPaidOrders
<1>1. usage[c] = Cardinality(CountedWith(c))
  BY DEF UsageInv
<1>2. CountedWith(c) \subseteq PaidWith(c)
  BY DEF CountedWith, IInv, PurchaseInv, PurchaseOK
<1>3. IsFiniteSet(PaidWith(c))
  <2>1. PaidWith(c) \subseteq Purchases
    OBVIOUS
  <2> QED
    BY <2>1, PurchasesAssumption, FS_Subset
<1>4. Cardinality(CountedWith(c)) <= Cardinality(PaidWith(c))
  BY <1>2, <1>3, FS_Subset
<1>5. ASSUME \A p \in With(c) : p \notin cut /\ \A r \in Requests : at[r] # p
      PROVE  CountedWith(c) = PaidWith(c)
  <2>1. ASSUME NEW p \in PaidWith(c) PROVE p \in CountedWith(c)
    <3>1. Paid(p) /\ Code[p] = c /\ p \in Purchases /\ Code[p] # NoCode
      BY CodeAssumption
    <3>2. Fulfilled(p)
      BY <1>5, <3>1 DEF IInv, PurchaseInv, PurchaseOK
    <3> QED
      BY <3>1, <3>2 DEF Fulfilled, CountedWith
  <2> QED
    BY <1>2, <2>1
<1> QED
  BY <1>1, <1>4, <1>5

\* UsageIsPaidOrders: promo_codes.usage_count never exceeds the paid orders with
\* the code, and falls behind only for orders whose callback runs or was cut short.
THEOREM PromoUsageIsPaidOrders == Spec => []UsageIsPaidOrders
<1>1. Init => IInv /\ UsageInv
  BY InitIInv, InitUsageInv
<1>2. (IInv /\ UsageInv) /\ [Next]_vars => (IInv /\ UsageInv)'
  BY NextIInv, NextUsageInv
<1>3. IInv /\ UsageInv => UsageIsPaidOrders
  BY UsageMeaning
<1> QED
  BY <1>1, <1>2, <1>3, PTL DEF Spec

-----------------------------------------------------------------------------
(* Payment implements Order.                                               *)

Decided == [p \in Purchases |-> Decision(p)]
DeliveredParts(p) == {part \in Parts : item[p][part] # "cart"}
Delivered == [p \in Purchases |-> DeliveredParts(p)]

LEMMA SameDecisions ==
  ASSUME UNCHANGED <<opened, provider>>
  PROVE  Decided' = Decided
BY DEF Decided, Decision, Paid, Failed

LEMMA SameDeliveries ==
  ASSUME UNCHANGED item
  PROVE  Delivered' = Delivered
BY DEF Delivered, DeliveredParts

LEMMA InitRefines == Init => Abstract!Init
<1> SUFFICES ASSUME Init PROVE Abstract!Init
  OBVIOUS
<1>1. [p \in Purchases |-> Decision(p)] = [p \in Purchases |-> "none"]
  BY DEF Init, Decision
<1>2. [p \in Purchases |-> {part \in Parts : item[p][part] # "cart"}]
        = [p \in Purchases |-> {}]
  BY DEF Init
<1> QED
  BY <1>1, <1>2 DEF Init, Abstract!Init

LEMMA PurchaseRefines ==
  ASSUME IInv, NEW p \in Purchases, Purchase(p)
  PROVE  Abstract!Open(p)
<1>1. /\ p \notin opened /\ opened' = opened \cup {p}
      /\ UNCHANGED <<provider, item, applied, counted>>
  BY DEF Purchase, history
<1>2. provider[p] = NoId
  BY <1>1 DEF IInv, ProviderInv
<1>3. ~Paid(p) /\ ~Failed(p)
  BY <1>2, IdsDiffer DEF Paid, Failed
<1>4. Decided[p] = "none" /\ Decided' = [Decided EXCEPT ![p] = "open"]
  <2>1. Decided[p] = "none" /\ Decision(p)' = "open"
    BY <1>1, <1>3 DEF Decided, Decision, Paid, Failed
  <2>2. \A q \in Purchases : q # p => Decision(q)' = Decision(q)
    BY <1>1 DEF Decision, Paid, Failed
  <2> QED
    BY <2>1, <2>2 DEF Decided
<1>5. Delivered' = Delivered
  BY <1>1, SameDeliveries
<1> QED
  BY <1>1, <1>4, <1>5 DEF Abstract!Open, Decided, Delivered, DeliveredParts

LEMMA RecordRefines ==
  ASSUME IInv, NEW r \in Requests, Record(r)
  PROVE  Abstract!Decide(at[r]) \/ UNCHANGED Abstract!vars
<1>1. /\ UNCHANGED <<opened, item, applied, counted>>
      /\ pc[r] = "record" /\ at[r] \in Purchases /\ at[r] \in opened
  BY AtPurchase DEF Record, IInv
<1>2. Delivered' = Delivered
  BY <1>1, SameDeliveries
<1>3. CASE UNCHANGED provider
  <2>1. Decided' = Decided
    BY <1>1, <1>3, SameDecisions
  <2> QED
    BY <1>1, <1>2, <2>1 DEF Abstract!vars, Decided, Delivered, DeliveredParts
<1>4. CASE provider[at[r]] = NoId /\ provider' = [provider EXCEPT ![at[r]] = result[r]]
  <2>1. PICK p \in Purchases : p = at[r]
    BY <1>1
  <2>2. Outcome(p, result[r])
    BY <1>1, <2>1 DEF IInv, RequestInv, RequestOK
  <2>3. provider'[p] = result[r]
    BY <1>4, <2>1 DEF IInv, TypeOK
  <2>4. \/ provider'[p] = PaidId(p)
        \/ \E s \in Refusals : provider'[p] = FailedId(s)
    BY <2>2, <2>3 DEF Outcome
  <2>5. Decision(p)' \in {"paid", "failed"}
    BY <1>1, <2>1, <2>4 DEF Decision, Paid, Failed
  <2>6. Decided[p] = "open"
    BY <1>1, <1>4, <2>1, IdsDiffer DEF Decided, Decision, Paid, Failed
  <2>7. \A q \in Purchases : q # p => Decision(q)' = Decision(q)
    BY <1>1, <1>4, <2>1 DEF Decision, Paid, Failed, IInv, TypeOK
  <2>8. \E outcome \in {"paid", "failed"} : Decided' = [Decided EXCEPT ![p] = outcome]
    BY <2>5, <2>7 DEF Decided
  <2> QED
    BY <1>1, <1>2, <2>1, <2>6, <2>8 DEF Abstract!Decide, Decided, Delivered, DeliveredParts
<1> QED
  BY <1>3, <1>4 DEF Record

LEMMA CountPromoRefines ==
  ASSUME IInv, NEW r \in Requests, CountPromo(r)
  PROVE  Abstract!Count(at[r])
<1>1. /\ UNCHANGED <<opened, provider, item, applied>>
      /\ counted' = [counted EXCEPT ![at[r]] = @ + 1]
      /\ pc[r] = "promo" /\ at[r] \in Purchases /\ at[r] \in opened
  BY AtPurchase DEF CountPromo, row, IInv
<1>2. Paid(at[r]) /\ Code[at[r]] # NoCode /\ counted[at[r]] = 0
  BY <1>1 DEF IInv, RequestInv, RequestOK, Working
<1>3. Decided[at[r]] = "paid"
  BY <1>1, <1>2 DEF Decided, Decision
<1>4. Decided' = Decided /\ Delivered' = Delivered
  BY <1>1, SameDecisions, SameDeliveries
<1>5. counted' = [counted EXCEPT ![at[r]] = 1]
  BY <1>1, <1>2 DEF IInv, TypeOK
<1> QED
  BY <1>1, <1>2, <1>3, <1>4, <1>5 DEF Abstract!Count, Decided, Delivered, DeliveredParts

LEMMA ApplyRefines ==
  ASSUME IInv, NEW p \in Purchases, p \in Upgrades, p \in opened, Paid(p),
         ApplyEventUpgrade(p), UNCHANGED <<opened, provider, counted>>
  PROVE  Abstract!Apply(p) \/ UNCHANGED Abstract!vars
<1>1. Decided' = Decided
  BY SameDecisions
<1>2. CASE p \in applied
  <2>1. UNCHANGED <<item, applied>>
    BY <1>2 DEF ApplyEventUpgrade
  <2>2. Delivered' = Delivered
    BY <2>1, SameDeliveries
  <2> QED
    BY <1>1, <2>1, <2>2 DEF Abstract!vars, Decided, Delivered, DeliveredParts
<1>3. CASE p \notin applied
  <2>1. /\ applied' = applied \cup {p}
        /\ item' = [item EXCEPT ![p] = [part \in Parts |->
                      IF part \in Contents[p] THEN "purchased" ELSE item[p][part]]]
    BY <1>3 DEF ApplyEventUpgrade
  <2>2. \A part \in Parts : item[p][part] # "cart" => part \in Contents[p]
    BY DEF IInv, PurchaseInv, PurchaseOK
  <2>3. \A part \in Parts : item'[p][part] =
                              IF part \in Contents[p] THEN "purchased" ELSE item[p][part]
    BY <2>1 DEF IInv, TypeOK
  <2>4. DeliveredParts(p)' = Contents[p]
    BY <2>2, <2>3, ContentsAssumption DEF DeliveredParts
  <2>5. \A q \in Purchases : q # p => DeliveredParts(q)' = DeliveredParts(q)
    BY <2>1 DEF DeliveredParts, IInv, TypeOK
  <2>6. Delivered' = [Delivered EXCEPT ![p] = Contents[p]]
    BY <2>4, <2>5 DEF Delivered
  <2>7. Decided[p] = "paid"
    BY DEF Decided, Decision
  <2> QED
    BY <1>1, <1>3, <2>1, <2>6, <2>7
       DEF Abstract!Apply, Decided, Delivered, DeliveredParts
<1> QED
  BY <1>2, <1>3

LEMMA UpdateItemsRefines ==
  ASSUME IInv, NEW r \in Requests, UpdateItems(r)
  PROVE  \E p \in Purchases : \E part \in Parts : Abstract!Deliver(p, part)
<1>1. /\ UNCHANGED <<opened, provider, applied, counted>>
      /\ pc[r] = "items" /\ at[r] \in Purchases /\ at[r] \in opened
  BY AtPurchase DEF UpdateItems, IInv
<1>2. PICK p \in Purchases : p = at[r]
  BY <1>1
<1>3. PICK part \in todo[r] : item' = [item EXCEPT ![p][part] = Target(part)]
  BY <1>2 DEF UpdateItems
<1>4. /\ Paid(p) /\ p \notin Upgrades /\ part \in Contents[p] /\ part \in Parts
      /\ item[p][part] = "cart"
  BY <1>1, <1>2, <1>3, ContentsAssumption DEF IInv, RequestInv, RequestOK, Working
<1>5. Target(part) # "cart"
  BY <1>4, TargetType
<1>6. DeliveredParts(p)' = DeliveredParts(p) \cup {part} /\ part \notin DeliveredParts(p)
  <2>1. /\ item'[p][part] = Target(part)
        /\ \A x \in Parts : x # part => item'[p][x] = item[p][x]
    BY <1>3, <1>4 DEF IInv, TypeOK
  <2> QED
    BY <1>4, <1>5, <2>1 DEF DeliveredParts
<1>7. \A q \in Purchases : q # p => DeliveredParts(q)' = DeliveredParts(q)
  BY <1>3 DEF DeliveredParts, IInv, TypeOK
<1>8. Delivered' = [Delivered EXCEPT ![p] = @ \cup {part}]
  BY <1>6, <1>7 DEF Delivered
<1>9. part \notin Delivered[p]
  BY <1>6 DEF Delivered
<1>10. Decided[p] = "paid" /\ Decided' = Decided
  BY <1>1, <1>2, <1>4, SameDecisions DEF Decided, Decision
<1> QED
  BY <1>1, <1>2, <1>4, <1>8, <1>9, <1>10
     DEF Abstract!Deliver, Decided, Delivered, DeliveredParts

LEMMA StutterRefines ==
  ASSUME UNCHANGED <<opened, provider, item, applied, counted>>
  PROVE  UNCHANGED Abstract!vars
BY SameDecisions, SameDeliveries DEF Abstract!vars, Decided, Delivered, DeliveredParts

LEMMA NextRefines == IInv /\ [Next]_vars => [Abstract!Next]_(Abstract!vars)
<1> SUFFICES ASSUME IInv, [Next]_vars PROVE Abstract!Next \/ UNCHANGED Abstract!vars
  OBVIOUS
<1>1. CASE \E p \in Purchases : Purchase(p)
  BY <1>1, PurchaseRefines DEF Abstract!Next
<1>2. CASE \E p \in Purchases : AdminApply(p)
  <2>1. PICK p \in Purchases : AdminApply(p)
    BY <1>2
  <2>2. /\ p \in Upgrades /\ Paid(p) /\ ApplyEventUpgrade(p)
        /\ UNCHANGED <<opened, provider, counted>>
    BY <2>1 DEF AdminApply, history
  <2>3. p \in opened
    BY <2>2, IdsDiffer DEF IInv, ProviderInv, Paid
  <2> QED
    BY <2>2, <2>3, ApplyRefines DEF Abstract!Next
<1>3. ASSUME NEW r \in Requests, Record(r)
      PROVE  Abstract!Next \/ UNCHANGED Abstract!vars
  <2>1. at[r] \in Purchases
    BY <1>3, AtPurchase DEF Record, IInv
  <2> QED
    BY <1>3, <2>1, RecordRefines DEF Abstract!Next
<1>4. ASSUME NEW r \in Requests, CountPromo(r) PROVE Abstract!Next
  <2>1. at[r] \in Purchases
    BY <1>4, AtPurchase DEF CountPromo, IInv
  <2> QED
    BY <1>4, <2>1, CountPromoRefines DEF Abstract!Next
<1>5. ASSUME NEW r \in Requests, ApplyUpgrade(r)
      PROVE  Abstract!Next \/ UNCHANGED Abstract!vars
  <2>1. /\ pc[r] = "apply" /\ ApplyEventUpgrade(at[r])
        /\ UNCHANGED <<opened, provider, counted>>
    BY <1>5 DEF ApplyUpgrade
  <2>2. at[r] \in Purchases /\ at[r] \in opened /\ at[r] \in Upgrades /\ Paid(at[r])
    BY <2>1, AtPurchase DEF IInv, RequestInv, RequestOK, Working
  <2> QED
    BY <2>1, <2>2, ApplyRefines DEF Abstract!Next
<1>6. ASSUME NEW r \in Requests, UpdateItems(r) PROVE Abstract!Next
  BY <1>6, UpdateItemsRefines DEF Abstract!Next
<1>7. ASSUME NEW r \in Requests, CallbackFails(r)
      PROVE  UNCHANGED <<opened, provider, item, applied, counted>>
  BY <1>7 DEF CallbackFails, row
<1>8. ASSUME NEW p \in Purchases, NEW s \in Refusals \cup {"success"},
             Notify(p, s) \/ \E r \in Requests : Callback(r, p, s)
      PROVE  UNCHANGED <<opened, provider, item, applied, counted>>
  BY <1>8 DEF Notify, Callback, row, history
<1>9. (\E c \in Codes : Expires(c)) \/ PromoCron \/ Restart \/ UNCHANGED vars =>
         UNCHANGED <<opened, provider, item, applied, counted>>
  BY DEF Expires, PromoCron, Restart, vars, row, history
<1> QED
  BY NextCases, StutterRefines, <1>1, <1>2, <1>3, <1>4, <1>5, <1>6, <1>7, <1>8, <1>9

\* ImplementsOrder: every behaviour of the payment flow is one of Order - an order
\* is decided once, and counted, delivered and applied at most once and after that.
THEOREM PaymentImplementsOrder == Spec => ImplementsOrder
<1>1. Init => Abstract!Init
  BY InitRefines
<1>2. IInv /\ [Next]_vars => [Abstract!Next]_(Abstract!vars)
  BY NextRefines
<1> QED
  BY <1>1, <1>2, Invariant, PTL DEF Spec, ImplementsOrder, Abstract!Spec
=============================================================================
