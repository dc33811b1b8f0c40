--------------------------------- MODULE Shop ---------------------------------
(***************************************************************************)
(* The shop and the part of the site panel that runs it: products that     *)
(* AdminUpdateProduct edits, promo codes and their partnerships, the cron  *)
(* that switches codes off, the checkout's preview of a discount           *)
(* (PromoRoutes.Validate) and the request that opens a purchase            *)
(* (product_routes_typ.Purchase).                                          *)
(*                                                                         *)
(* A purchase is placed in several statements, each of which sees what     *)
(* the panel has written by then: prices are read twice, once for the cart *)
(* and once for the discount.  An edit of a product reads the row, works   *)
(* on the copy, and writes the JSON column "options" as a whole.  Money is *)
(* in kopecks, percentages are whole.  The payment is Payment's.           *)
(***************************************************************************)
EXTENDS Integers, FiniteSets, FiniteSetsExt

CONSTANTS
    Products,    \* products.id values, upgrade products left out
    Premium,     \* the only product a promo code takes something off
    AddOns,      \* products.is_add_on
    Special,     \* options.special_package: storage counts from activation,
                 \* and the advertising area is AddMoments' own
    InPacks,     \* packQtyAddonIDs
    Single,      \* singleQuantityAddonIDs
    Listed,      \* Listed[p]: the row of p to begin with
    Changes,     \* what one edit may set: functions from some of the fields
    Baskets,     \* purchase_info: functions from some products to quantities
    Buyers, Editors, Codes, Percents, Partners,
    NoCode, NoPartner, NoProduct,
    MaxActs      \* bound: edits, and acts of panel and clock on codes

Options == {"upload", "storage"}   \* activation_days, storage_days
Features == {"ad"}                 \* the host's advertising area is granted
Fields == {"price", "enabled"} \cup Options \cup Features

ASSUME ProductsAssumption ==
    /\ IsFiniteSet(Products) /\ NoProduct \notin Products
    /\ Premium \in Products \ AddOns
    /\ AddOns \cup Special \cup InPacks \cup Single \subseteq Products
ASSUME ListedAssumption ==
    /\ Listed = [p \in Products |-> Listed[p]]
    /\ \A p \in Products :
          /\ DOMAIN Listed[p] = Fields
          /\ Listed[p].price \in Int /\ Listed[p].upload \in Int /\ Listed[p].storage \in Int
          /\ p \in Special => Listed[p].storage >= Listed[p].upload
ASSUME ChangesAssumption ==
    \A sets \in Changes : \A f \in {"price"} \cup Options :
        f \in DOMAIN sets => sets[f] \in Int
ASSUME BasketsAssumption ==
    \A basket \in Baskets :
        /\ DOMAIN basket # {} /\ DOMAIN basket \subseteq Products
        /\ \A p \in DOMAIN basket : basket[p] \in Int
ASSUME CodesAssumption ==
    NoCode \notin Codes /\ NoPartner \notin Partners /\ Percents \subseteq 1..100
ASSUME MaxActsAssumption == MaxActs \in Nat

VARIABLES
    product,  \* the rows of products
    code,     \* the rows of promo_codes
    partner,  \* partnerships.is_active
    cron,     \* promo_cron: its next statement
    edit,     \* calls of AdminUpdateProduct
    buy,      \* what a buyer has put together, and his call of Purchase
    acts

vars == <<product, code, partner, cron, edit, buy, acts>>

NoEdit == [on |-> NoProduct, copy |-> << >>, sets |-> << >>]
NewBuyer == [pc |-> "new", basket |-> << >>, code |-> NoCode, shown |-> 0,
             cart |-> << >>, gross |-> 0, premium |-> 0, discount |-> 0,
             owner |-> NoPartner, owned |-> FALSE, good |-> FALSE, moved |-> FALSE]

\* A code may date from before codes had partnerships.
Init ==
    /\ product = Listed
    /\ code \in [Codes -> [st: {"none", "on"}, when: {"now"}, full: {FALSE},
                           percent: Percents, owner: {NoPartner}]]
    /\ partner = [q \in Partners |-> TRUE]
    /\ cron = "expired"
    /\ edit = [e \in Editors |-> NoEdit]
    /\ buy = [b \in Buyers |-> NewBuyer]
    /\ acts = 0

Acts == acts < MaxActs /\ acts' = acts + 1

-----------------------------------------------------------------------------
(* Sums of money.                                                          *)

Times(basket, price) == [p \in DOMAIN basket |-> basket[p] * price[p]]
Total(lines) == MapThenSumSet(LAMBDA p : lines[p], DOMAIN lines)

\* Mutant of Discount: taken off everything in the cart
DiscountOfAll(gross, premium, percent) == (gross * percent + 50) \div 100

\* calculateSubtotals leaves the add-ons out of the base; roundMoney
Discount(gross, premium, percent) == (premium * percent + 50) \div 100

\* QtyRule and ValidateQuantity
MaxLineQuantity == 1000
ValidQuantity(p, n) ==
    /\ n <= MaxLineQuantity
    /\ IF p \in AddOns \cap Single THEN n = 1
       ELSE LET step == IF p \in AddOns \cap InPacks THEN 4 ELSE 1
            IN n >= step /\ n % step = 0

-----------------------------------------------------------------------------
(* Editing products.                                                       *)

\* AdminUpdateProduct reads the row.  Core packages cannot be hidden.
EditReads(e, p, sets) ==
    /\ edit[e] = NoEdit
    /\ "enabled" \in DOMAIN sets => p \in AddOns \cup Special
    /\ Acts
    /\ edit' = [edit EXCEPT ![e] = [on |-> p, copy |-> product[p], sets |-> sets]]
    /\ UNCHANGED <<product, code, partner, cron, buy>>

Edited(e) == [f \in Fields |-> IF f \in DOMAIN edit[e].sets THEN edit[e].sets[f]
                               ELSE edit[e].copy[f]]

\* Mutant of Assigned: "options" is merged in the database
AssignedOnly(e) == DOMAIN edit[e].sets

\* What the UPDATE assigns: a column of its own for price and is_enabled, options
\* and granted_features as a whole if any part of them is set.
Assigned(e) ==
    UNION {part \in {{"price"}, {"enabled"}, Options, Features} :
             part \cap DOMAIN edit[e].sets # {}}

\* The check of the days, on the copy, and the UPDATE.
\* History: a buyer who has read the prices once reads others the second time.
EditWrites(e) ==
    LET p == edit[e].on IN
    /\ edit[e] # NoEdit
    /\ edit' = [edit EXCEPT ![e] = NoEdit]
    /\ IF p \in Special /\ DOMAIN edit[e].sets \cap Options # {}
             /\ Edited(e).storage < Edited(e).upload
       THEN UNCHANGED <<product, buy>>
       ELSE /\ product' = [product EXCEPT ![p] =
                             [f \in Fields |-> IF f \in Assigned(e) THEN Edited(e)[f]
                                               ELSE @[f]]]
            /\ buy' = [b \in Buyers |->
                         IF /\ buy[b].pc = "quote" /\ p \in DOMAIN buy[b].basket
                            /\ "price" \in DOMAIN edit[e].sets
                         THEN [buy[b] EXCEPT !.moved = TRUE] ELSE buy[b]]
    /\ UNCHANGED <<code, partner, cron, acts>>

\* The call fails: the image is not in the bucket, or a statement fails.
EditFails(e) ==
    /\ edit[e] # NoEdit
    /\ edit' = [edit EXCEPT ![e] = NoEdit]
    /\ UNCHANGED <<product, code, partner, cron, buy, acts>>

-----------------------------------------------------------------------------
(* Promo codes and partnerships.                                           *)

\* validatePromoState
Valid(row) == row.st = "on" /\ row.when = "now" /\ ~row.full

Placing(b) == buy[b].pc \in {"cart", "prices", "quote", "code", "partner"}

\* The row of a code becomes new.  History: it has been good at some time while
\* a purchase was being placed with it.
Becomes(k, new) ==
    /\ code' = [code EXCEPT ![k] = new]
    /\ buy' = [b \in Buyers |->
                 IF Placing(b) /\ buy[b].code = k /\ Valid(new)
                 THEN [buy[b] EXCEPT !.good = TRUE] ELSE buy[b]]
    /\ UNCHANGED <<product, partner, edit>>

\* admin_promo Create.  The partnership is looked up one statement earlier; it may
\* be deactivated right after just as well.
PromoCreate(k, percent, owner, st) ==
    /\ Acts
    /\ code[k].st = "none" /\ partner[owner]
    /\ Becomes(k, [st |-> st, when |-> "now", full |-> FALSE, percent |-> percent,
                   owner |-> owner])
    /\ UNCHANGED cron

\* Update: any of the fields, but neither is_active nor its reason.
PromoUpdate(k, percent, when, full, owner) ==
    /\ Acts
    /\ code[k].st \notin {"none", "deleted"}
    /\ owner = code[k].owner \/ (owner \in Partners /\ partner[owner])
    /\ Becomes(k, [st |-> code[k].st, when |-> when, full |-> full, percent |-> percent,
                   owner |-> owner])
    /\ UNCHANGED cron

PromoEnable(k) ==
    /\ Acts
    /\ code[k].st \notin {"none", "deleted"} /\ code[k].when # "past" /\ ~code[k].full
    /\ Becomes(k, [code[k] EXCEPT !.st = "on"])
    /\ UNCHANGED cron

\* Disable and Delete
PromoStops(k, st) ==
    /\ Acts
    /\ code[k].st \notin {"none", "deleted"}
    /\ Becomes(k, [code[k] EXCEPT !.st = st])
    /\ UNCHANGED cron

\* valid_from or valid_until passes; orders with the code are paid.
CodeAges(k, when, full) ==
    /\ Acts
    /\ code[k].st # "none"
    /\ \/ full = code[k].full /\ <<code[k].when, when>> \in {<<"early", "now">>, <<"now", "past">>}
       \/ when = code[k].when /\ full /\ ~code[k].full
    /\ Becomes(k, [code[k] EXCEPT !.when = when, !.full = full])
    /\ UNCHANGED cron

\* promo_cron RunOnce: two UPDATEs, under a mutex.
CronStops(which, reason, hit) ==
    /\ code' = [k \in Codes |->
                  IF code[k].st = "on" /\ k \in hit THEN [code[k] EXCEPT !.st = reason]
                  ELSE code[k]]
    /\ cron = which
    /\ cron' = IF which = "expired" THEN "limit" ELSE "expired"
    /\ UNCHANGED <<product, partner, edit, buy, acts>>

CronExpired == CronStops("expired", "expired", {k \in Codes : code[k].when = "past"})
CronLimits == CronStops("limit", "usage_limit_reached", {k \in Codes : code[k].full})

\* admin_partnership Update and Delete: both leave the row.
PartnerSet(q, active) ==
    /\ Acts
    /\ partner[q] # active
    /\ partner' = [partner EXCEPT ![q] = active]
    /\ UNCHANGED <<product, code, cron, edit, buy>>

-----------------------------------------------------------------------------
(* Buying.                                                                 *)

Buys(b, new) ==
    /\ buy' = [buy EXCEPT ![b] = new]
    /\ UNCHANGED <<product, code, partner, cron, edit, acts>>

At(b, pc) == buy[b].pc = pc
Refused(b) == Buys(b, NewBuyer)

\* In the browser.
Fills(b, basket, k) ==
    At(b, "new") /\ Buys(b, [NewBuyer EXCEPT !.pc = "basket", !.basket = basket, !.code = k])

\* "Apply" in the checkout: a preview, for which nothing is written.
Preview(b) ==
    LET k == buy[b].code IN
    /\ At(b, "basket")
    /\ k \in Codes /\ Valid(code[k]) /\ Premium \in DOMAIN buy[b].basket
    /\ Buys(b, [buy[b] EXCEPT !.shown = code[k].percent])

\* Disabled_product_ids
Begins(b) ==
    /\ At(b, "basket")
    /\ IF \E p \in DOMAIN buy[b].basket : ~product[p].enabled THEN Refused(b)
       ELSE Buys(b, [buy[b] EXCEPT !.pc = "cart",
                       !.good = buy[b].code \in Codes /\ Valid(code[buy[b].code])])

\* Special_package_with_ad_zone, and InsertQuantityMapWithConfigs, which looks at
\* all lines before it makes the cart.  The cart's rows are nobody else's until
\* there is a purchase.
ChecksBasket(b) ==
    LET basket == DOMAIN buy[b].basket IN
    /\ At(b, "cart")
    /\ IF \/ basket \cap Special # {} /\ \E p \in basket : product[p].ad
          \/ \E p \in basket : ~ValidQuantity(p, buy[b].basket[p])
       THEN Refused(b)
       ELSE Buys(b, [buy[b] EXCEPT !.pc = "prices"])

Prices == [p \in Products |-> product[p].price]

\* The purchases row, the last statement; the payment is Payment's.
Places(b, new) == Buys(b, [new EXCEPT !.pc = "placed"])

\* One SELECT for the cart's snapshot and for the total without a code.
ReadsPrices(b) ==
    LET lines == Times(buy[b].basket, Prices)
        priced == [buy[b] EXCEPT !.cart = lines, !.gross = Total(lines)] IN
    /\ At(b, "prices")
    /\ IF buy[b].code = NoCode THEN Places(b, priced)
       ELSE Buys(b, [priced EXCEPT !.pc = "quote"])

\* promo.Validate: loadProductLines and calculateSubtotals
QuoteReadsPrices(b) ==
    LET lines == Times(buy[b].basket, Prices)
        premium == IF Premium \in DOMAIN lines THEN lines[Premium] ELSE 0 IN
    /\ At(b, "quote")
    /\ IF premium <= 0 THEN Refused(b)
       ELSE Buys(b, [buy[b] EXCEPT !.pc = "code", !.gross = Total(lines), !.premium = premium])

\* Mutant of QuoteReadsCode: the discount shown before is given
QuoteReadsCodeShown(b) ==
    LET percent == IF buy[b].shown > 0 THEN buy[b].shown ELSE code[buy[b].code].percent IN
    /\ At(b, "code")
    /\ IF buy[b].shown = 0 /\ ~Valid(code[buy[b].code]) THEN Refused(b)
       ELSE Buys(b, [buy[b] EXCEPT !.pc = "partner",
                       !.discount = Discount(buy[b].gross, buy[b].premium, percent)])

\* loadPromo and validatePromoState
QuoteReadsCode(b) ==
    LET row == code[buy[b].code] IN
    /\ At(b, "code")
    /\ IF ~Valid(row) THEN Refused(b)
       ELSE Buys(b, [buy[b] EXCEPT !.pc = "partner",
                       !.discount = Discount(buy[b].gross, buy[b].premium, row.percent)])

\* Mutant of ReadsPartner: it is left to the reports to look the code up
ReadsPartnerLater(b) ==
    /\ At(b, "partner")
    /\ Places(b, [buy[b] EXCEPT !.owned = code[buy[b].code].owner # NoPartner])

\* loadPromoPartnershipSnapshot.  History: the code had a partnership then.
ReadsPartner(b) ==
    LET owner == code[buy[b].code].owner IN
    /\ At(b, "partner")
    /\ Places(b, [buy[b] EXCEPT !.owner = owner, !.owned = owner # NoPartner])

\* A statement fails or the server stops: carts without a purchase stay behind.
PurchaseFails(b) == Placing(b) /\ Refused(b)

-----------------------------------------------------------------------------
Buying(b) ==
    \/ Preview(b) \/ Begins(b) \/ ChecksBasket(b) \/ ReadsPrices(b)
    \/ QuoteReadsPrices(b) \/ QuoteReadsCode(b) \/ ReadsPartner(b) \/ PurchaseFails(b)

Next ==
    \/ \E b \in Buyers : \/ Buying(b)
                         \/ \E basket \in Baskets, k \in Codes \cup {NoCode} : Fills(b, basket, k)
    \/ \E e \in Editors : \/ EditWrites(e) \/ EditFails(e)
                          \/ \E p \in Products, sets \in Changes : EditReads(e, p, sets)
    \/ \E k \in Codes :
        \/ PromoEnable(k)
        \/ \E st \in {"manual", "deleted"} : PromoStops(k, st)
        \/ \E percent \in Percents, owner \in Partners, st \in {"on", "manual"} :
              PromoCreate(k, percent, owner, st)
        \/ \E when \in {"early", "now", "past"}, full \in BOOLEAN :
              \/ CodeAges(k, when, full)
              \/ \E percent \in Percents, owner \in Partners \cup {NoPartner} :
                    PromoUpdate(k, percent, when, full, owner)
    \/ CronExpired \/ CronLimits
    \/ \E q \in Partners, active \in BOOLEAN : PartnerSet(q, active)

Spec == Init /\ [][Next]_vars

-----------------------------------------------------------------------------
(* Properties.                                                             *)

Placed(b) == At(b, "placed")

TypeOK ==
    /\ \A p \in Products : DOMAIN product[p] = Fields
    /\ code \in [Codes -> [st: {"none", "on", "expired", "usage_limit_reached", "manual",
                                "deleted"},
                           when: {"early", "now", "past"}, full: BOOLEAN,
                           percent: Percents, owner: Partners \cup {NoPartner}]]
    /\ partner \in [Partners -> BOOLEAN]
    /\ cron \in {"expired", "limit"}
    /\ acts \in 0..MaxActs

\* "Storage shorter than the upload period would close the gallery while guests
\* still upload": of a special package the one never gets shorter than the
\* other, also when two edits of the two fields overlap - each was checked
\* against a copy the other one has made stale.
GalleryOutlivesUpload ==
    \A p \in Special : product[p].storage >= product[p].upload

\* What is charged is what the cart says: the total is that of the prices kept
\* with its items, and add-ons are paid in full, unless a price was changed
\* between the two times it is read.
ChargeMatchesCart ==
    \A b \in Buyers : Placed(b) /\ ~buy[b].moved =>
        /\ buy[b].gross = Total(buy[b].cart)
        /\ buy[b].discount > 0 => buy[b].discount <= buy[b].cart[Premium]

\* "Validate again before the payment, the preview is not relied upon": nobody
\* gets a discount with a code that was no good at any time while his purchase
\* was being placed, whatever the checkout has shown him.
PreviewIsNotTrusted ==
    \A b \in Buyers : Placed(b) /\ buy[b].discount > 0 => buy[b].good

\* To whom the reports ascribe a sale: COALESCE(promo_partnership_uid, ...)
SoldBy(b) == IF buy[b].owner # NoPartner THEN buy[b].owner ELSE code[buy[b].code].owner

\* "The reports keep what held at the time of the payment": a sale stays with its
\* partnership whatever becomes of the code and the partnership, unless the code
\* had none when the purchase was placed.
SaleKeepsPartner ==
    [][\A b \in Buyers :
         Placed(b) /\ buy[b].owned => SoldBy(b)' = SoldBy(b)]_vars
=============================================================================
