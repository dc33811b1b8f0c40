----------------------------- MODULE Shop_proofs -----------------------------
(***************************************************************************)
(* Proofs about the shop, for any products, edits, baskets, promo codes    *)
(* and partnerships, and any number of buyers and editors.                 *)
(***************************************************************************)
EXTENDS Shop, TLAPS

CodeRecord == [st: {"none", "on", "expired", "usage_limit_reached", "manual", "deleted"},
               when: {"early", "now", "past"}, full: BOOLEAN,
               percent: Percents, owner: Partners \cup {NoPartner}]

Kept == {<< >>} \cup {Times(basket, price) : basket \in Baskets, price \in [Products -> Int]}

BuyRecord ==
    [pc: {"new", "basket", "cart", "prices", "quote", "code", "partner", "placed"},
     basket: Baskets \cup {<< >>}, code: Codes \cup {NoCode}, shown: Percents \cup {0},
     cart: Kept, gross: {0} \cup {Total(lines) : lines \in Kept}, premium: Int,
     discount: Int, owner: Partners \cup {NoPartner}, owned: BOOLEAN, good: BOOLEAN,
     moved: BOOLEAN]

\* A row of products, or a copy of one.
RowOK(row) ==
    /\ DOMAIN row = Fields
    /\ row.price \in Int /\ row.upload \in Int /\ row.storage \in Int

EditOK(e) ==
    edit[e] # NoEdit =>
        /\ edit[e].on \in Products
        /\ RowOK(edit[e].copy)
        /\ edit[e].sets \in Changes

\* How far a purchase has come, and what its code and prices are worth by then.
BuyOK(w) ==
    /\ w.pc # "new" => w.basket \in Baskets
    /\ w.pc \in {"quote", "code", "partner"} => w.code \in Codes
    /\ w.pc \in {"cart", "prices", "quote", "code", "partner"} =>
          (w.code \in Codes /\ Valid(code[w.code]) => w.good)
    /\ w.pc = "quote" /\ ~w.moved => w.cart = Times(w.basket, Prices)
    /\ w.pc \in {"quote", "code", "partner", "placed"} /\ ~w.moved => w.gross = Total(w.cart)
    /\ w.pc \in {"code", "partner"} =>
          w.premium > 0 /\ (~w.moved => w.premium = w.cart[Premium])
    /\ w.discount > 0 =>
          /\ w.pc \in {"new", "partner", "placed"}
          /\ w.good
          /\ w.discount <= w.premium
          /\ ~w.moved => w.premium = w.cart[Premium]
    /\ w.owned => w.pc = "placed" /\ w.owner # NoPartner

IInv ==
    /\ TypeOK
    /\ product = [p \in Products |-> product[p]]
    /\ \A p \in Products : RowOK(product[p])
    /\ \A e \in Editors : EditOK(e)
    /\ edit = [e \in Editors |-> edit[e]]
    /\ buy \in [Buyers -> BuyRecord]
    /\ \A b \in Buyers : BuyOK(buy[b])
    /\ GalleryOutlivesUpload

-----------------------------------------------------------------------------

\* A percentage of an amount, rounded, is no more than the amount.
LEMMA DiscountIsPart ==
  ASSUME NEW gross, NEW premium \in Int, premium > 0, NEW percent \in 1..100
  PROVE  Discount(gross, premium, percent) \in Int /\ Discount(gross, premium, percent) <= premium
<1> DEFINE x == premium * percent
<1>1. x \in Int
  OBVIOUS
<1>2. premium * (100 - percent) >= 0
  OBVIOUS
<1>3. premium * (100 - percent) = 100 * premium - x
  OBVIOUS
<1>4. x <= 100 * premium
  BY <1>1, <1>2, <1>3
<1> HIDE DEF x
<1>5. (x + 50) \div 100 \in Int /\ (x + 50) \div 100 <= premium
  BY <1>1, <1>4
<1> QED
  BY <1>5 DEF Discount, x

LEMMA NewBuyerOK == NewBuyer \in BuyRecord /\ BuyOK(NewBuyer) /\ NewBuyer.discount = 0
                     /\ ~NewBuyer.owned
<1>1. NewBuyer \in BuyRecord
  BY DEF NewBuyer, BuyRecord, Kept
<1>2. /\ NewBuyer.pc = "new" /\ NewBuyer.discount = 0 /\ ~NewBuyer.owned
  BY DEF NewBuyer
<1> QED
  BY <1>1, <1>2 DEF BuyOK

LEMMA InitIInv == Init => IInv
<1> SUFFICES ASSUME Init PROVE IInv
  OBVIOUS
<1>1. \A p \in Products : RowOK(product[p])
  BY ListedAssumption DEF Init, RowOK
<1>2. product = [p \in Products |-> product[p]]
  BY ListedAssumption DEF Init
<1>3. code \in [Codes -> CodeRecord]
  <2>1. [st: {"none", "on"}, when: {"now"}, full: {FALSE}, percent: Percents,
         owner: {NoPartner}] \subseteq CodeRecord
    BY DEF CodeRecord
  <2> QED
    BY <2>1 DEF Init
<1>4. TypeOK
  BY <1>1, <1>3, MaxActsAssumption DEF Init, TypeOK, CodeRecord, RowOK
<1>5. /\ edit = [e \in Editors |-> edit[e]]
      /\ \A e \in Editors : EditOK(e)
  BY DEF Init, EditOK
<1>6. /\ buy \in [Buyers -> BuyRecord]
      /\ \A b \in Buyers : BuyOK(buy[b])
  BY NewBuyerOK DEF Init
<1>7. GalleryOutlivesUpload
  BY ListedAssumption, ProductsAssumption DEF Init, GalleryOutlivesUpload
<1> QED
  BY <1>1, <1>2, <1>4, <1>5, <1>6, <1>7 DEF IInv

-----------------------------------------------------------------------------
(* Buying.                                                                 *)

LEMMA BuysIInv ==
  ASSUME IInv, NEW b \in Buyers, NEW w \in BuyRecord, BuyOK(w), Buys(b, w)
  PROVE  IInv'
<1>1. /\ UNCHANGED <<product, code, partner, cron, edit, acts>>
      /\ buy' = [buy EXCEPT ![b] = w]
  BY DEF Buys
<1>2. /\ buy' \in [Buyers -> BuyRecord]
      /\ \A a \in Buyers : buy'[a] = w \/ buy'[a] = buy[a]
  BY <1>1 DEF IInv
<1>3. \A v \in BuyRecord : BuyOK(v) => BuyOK(v)'
  BY <1>1 DEF BuyOK, Prices
<1>4. \A a \in Buyers : BuyOK(buy[a])'
  <2>1. \A a \in Buyers : \E v \in BuyRecord : buy'[a] = v /\ BuyOK(v)'
    BY <1>2, <1>3 DEF IInv
  <2> QED
    BY <2>1
<1> QED
  BY <1>1, <1>2, <1>4 DEF IInv, TypeOK, EditOK, GalleryOutlivesUpload

\* What a field of a buyer's record may become without more ado.
LEMMA RefusedIInv == ASSUME IInv, NEW b \in Buyers, Refused(b) PROVE IInv'
BY NewBuyerOK, BuysIInv DEF Refused

LEMMA BrowserIInv ==
  ASSUME IInv, NEW b \in Buyers,
         Preview(b) \/ \E basket \in Baskets, k \in Codes \cup {NoCode} : Fills(b, basket, k)
  PROVE  IInv'
<1>1. buy[b] \in BuyRecord /\ BuyOK(buy[b])
  BY DEF IInv
<1>2. ASSUME NEW basket \in Baskets, NEW k \in Codes \cup {NoCode}, Fills(b, basket, k)
      PROVE  IInv'
  <2> DEFINE w == [NewBuyer EXCEPT !.pc = "basket", !.basket = basket, !.code = k]
  <2>1. /\ w \in BuyRecord /\ w.pc = "basket" /\ w.basket \in Baskets
        /\ w.discount = 0 /\ ~w.owned
    BY NewBuyerOK DEF BuyRecord
  <2>2. Buys(b, w)
    BY <1>2 DEF Fills
  <2> HIDE DEF w
  <2>3. BuyOK(w)
    BY <2>1 DEF BuyOK
  <2> QED
    BY <2>1, <2>2, <2>3, BuysIInv
<1>3. ASSUME Preview(b) PROVE IInv'
  <2> DEFINE k == buy[b].code
             w == [buy[b] EXCEPT !.shown = code[k].percent]
  <2>1. k \in Codes /\ buy[b].pc = "basket" /\ Buys(b, w)
    BY <1>3 DEF Preview, At
  <2>2. code[k].percent \in Percents
    BY <2>1 DEF IInv, TypeOK
  <2>3. /\ w \in BuyRecord /\ w.pc = "basket" /\ w.basket = buy[b].basket
        /\ w.discount = buy[b].discount /\ w.owned = buy[b].owned
    BY <1>1, <2>1, <2>2 DEF BuyRecord
  <2> HIDE DEF w, k
  <2>4. BuyOK(w)
    BY <1>1, <2>1, <2>3 DEF BuyOK
  <2> QED
    BY <2>1, <2>3, <2>4, BuysIInv
<1> QED
  BY <1>2, <1>3

LEMMA ChecksIInv ==
  ASSUME IInv, NEW b \in Buyers, Begins(b) \/ ChecksBasket(b) PROVE IInv'
<1>1. buy[b] \in BuyRecord /\ BuyOK(buy[b])
  BY DEF IInv
<1>2. CASE Refused(b)
  BY <1>2, RefusedIInv
<1>3. ASSUME At(b, "basket"),
             Buys(b, [buy[b] EXCEPT !.pc = "cart",
                        !.good = buy[b].code \in Codes /\ Valid(code[buy[b].code])])
      PROVE  IInv'
  <2> DEFINE good == buy[b].code \in Codes /\ Valid(code[buy[b].code])
             w == [buy[b] EXCEPT !.pc = "cart", !.good = good]
  <2>1. good \in BOOLEAN
    OBVIOUS
  <2>2. Buys(b, w)
    BY <1>3
  <2> HIDE DEF good
  <2>3. /\ w \in BuyRecord /\ w.pc = "cart" /\ w.basket = buy[b].basket
        /\ w.discount = buy[b].discount /\ w.code = buy[b].code /\ w.good = good
        /\ w.owned = buy[b].owned
    BY <1>1, <2>1 DEF BuyRecord
  <2> HIDE DEF w
  <2>4. w.code \in Codes /\ Valid(code[w.code]) => w.good
    BY <2>3 DEF good
  <2>5. BuyOK(w)
    BY <1>1, <1>3, <2>3, <2>4 DEF BuyOK, At
  <2> QED
    BY <2>2, <2>3, <2>5, BuysIInv
<1>4. ASSUME At(b, "cart"), Buys(b, [buy[b] EXCEPT !.pc = "prices"]) PROVE IInv'
  <2> DEFINE w == [buy[b] EXCEPT !.pc = "prices"]
  <2>1. /\ w \in BuyRecord /\ w.pc = "prices" /\ w.basket = buy[b].basket
        /\ w.discount = buy[b].discount /\ w.code = buy[b].code /\ w.good = buy[b].good
        /\ w.owned = buy[b].owned
    BY <1>1 DEF BuyRecord
  <2>2. Buys(b, w)
    BY <1>4
  <2> HIDE DEF w
  <2>3. BuyOK(w)
    BY <1>1, <1>4, <2>1 DEF BuyOK, At
  <2> QED
    BY <2>1, <2>2, <2>3, BuysIInv
<1>5. CASE Begins(b)
  BY <1>2, <1>3, <1>5 DEF Begins
<1>6. CASE ChecksBasket(b)
  BY <1>2, <1>4, <1>6 DEF ChecksBasket
<1> QED
  BY <1>5, <1>6

\* The lines of a cart at today's prices.
LEMMA LinesKept ==
  ASSUME IInv, NEW basket \in Baskets
  PROVE  /\ Times(basket, Prices) \in Kept
         /\ Total(Times(basket, Prices)) \in {0} \cup {Total(lines) : lines \in Kept}
         /\ DOMAIN Times(basket, Prices) = DOMAIN basket
         /\ \A p \in DOMAIN basket : Times(basket, Prices)[p] \in Int
<1>1. Prices \in [Products -> Int]
  BY DEF IInv, RowOK, Prices
<1>2. Times(basket, Prices) \in Kept
  BY <1>1 DEF Kept
<1>3. \A p \in DOMAIN basket : basket[p] \in Int /\ Prices[p] \in Int
  BY <1>1, BasketsAssumption
<1> QED
  BY <1>2, <1>3 DEF Times

LEMMA ReadsPricesIInv == ASSUME IInv, NEW b \in Buyers, ReadsPrices(b) PROVE IInv'
<1> DEFINE lines == Times(buy[b].basket, Prices)
           total == Total(lines)
           priced == [buy[b] EXCEPT !.cart = lines, !.gross = total]
           placed == [priced EXCEPT !.pc = "placed"]
           quoted == [priced EXCEPT !.pc = "quote"]
<1>1. /\ buy[b] \in BuyRecord /\ BuyOK(buy[b]) /\ buy[b].pc = "prices"
      /\ \/ buy[b].code = NoCode /\ Buys(b, placed)
         \/ buy[b].code # NoCode /\ Buys(b, quoted)
  BY DEF IInv, ReadsPrices, At, Places
<1>2. lines \in Kept /\ total \in {0} \cup {Total(l) : l \in Kept}
  BY <1>1, LinesKept DEF BuyOK
<1>3. ASSUME NEW pc \in {"placed", "quote"}, NEW w, w = [priced EXCEPT !.pc = pc]
      PROVE  /\ w \in BuyRecord /\ w.pc = pc /\ w.basket = buy[b].basket
             /\ w.cart = lines /\ w.gross = total /\ w.discount = buy[b].discount
             /\ w.code = buy[b].code /\ w.good = buy[b].good /\ w.owned = buy[b].owned
             /\ w.owner = buy[b].owner
  <2> HIDE DEF total, lines
  <2> QED
    BY <1>1, <1>2, <1>3 DEF BuyRecord
<1>4. ASSUME NEW pc \in {"placed", "quote"}, Buys(b, [priced EXCEPT !.pc = pc]),
             pc = "quote" => buy[b].code # NoCode
      PROVE  IInv'
  <2> DEFINE w == [priced EXCEPT !.pc = pc]
  <2>1. /\ w \in BuyRecord /\ w.pc = pc /\ w.basket = buy[b].basket
        /\ w.cart = lines /\ w.gross = total /\ w.discount = buy[b].discount
        /\ w.code = buy[b].code /\ w.good = buy[b].good /\ w.owned = buy[b].owned
        /\ w.owner = buy[b].owner
    BY <1>3
  <2>2. Buys(b, w)
    BY <1>4
  <2> HIDE DEF w
  <2>3. buy[b].discount <= 0 /\ ~(buy[b].discount > 0)
    BY <1>1 DEF BuyOK, BuyRecord
  <2>4. pc = "quote" => w.code \in Codes
    BY <1>1, <1>4, <2>1 DEF BuyRecord
  <2>5. ~w.owned
    BY <1>1, <2>1 DEF BuyOK
  <2>6. BuyOK(w)
    BY <1>1, <2>1, <2>3, <2>4, <2>5 DEF BuyOK
  <2> QED
    BY <2>1, <2>2, <2>6, BuysIInv
<1> QED
  BY <1>1, <1>4

LEMMA QuoteIInv ==
  ASSUME IInv, NEW b \in Buyers, QuoteReadsPrices(b) \/ QuoteReadsCode(b) PROVE IInv'
<1>1. /\ buy[b] \in BuyRecord /\ BuyOK(buy[b])
      /\ \A p \in Percents : p \in 1..100
  BY CodesAssumption DEF IInv
<1>2. CASE Refused(b)
  BY <1>2, RefusedIInv
<1>3. ASSUME QuoteReadsPrices(b), ~Refused(b) PROVE IInv'
  <2> DEFINE lines == Times(buy[b].basket, Prices)
             total == Total(lines)
             premium == IF Premium \in DOMAIN lines THEN lines[Premium] ELSE 0
             w == [buy[b] EXCEPT !.pc = "code", !.gross = total, !.premium = premium]
  <2>1. buy[b].pc = "quote" /\ premium > 0 /\ Buys(b, w)
    <3>1. premium <= 0 => Refused(b)
      BY <1>3 DEF QuoteReadsPrices
    <3>2. premium \in Int
      BY <1>1, <1>3, LinesKept DEF BuyOK, QuoteReadsPrices, At
    <3>3. ~(premium <= 0) => Buys(b, w)
      BY <1>3 DEF QuoteReadsPrices
    <3> HIDE DEF premium, w
    <3> QED
      BY <1>3, <3>1, <3>2, <3>3 DEF QuoteReadsPrices, At
  <2>2. /\ total \in {0} \cup {Total(l) : l \in Kept}
        /\ premium \in Int /\ premium = lines[Premium]
    BY <1>1, <2>1, LinesKept DEF BuyOK
  <2>3. ~buy[b].moved => buy[b].cart = lines /\ buy[b].gross = Total(buy[b].cart)
    BY <1>1, <2>1 DEF BuyOK
  <2>4. buy[b].discount <= 0 /\ ~(buy[b].discount > 0) /\ ~buy[b].owned /\ buy[b].code \in Codes
    BY <1>1, <2>1 DEF BuyOK, BuyRecord
  <2> HIDE DEF premium, total, lines
  <2>5. /\ w \in BuyRecord /\ w.pc = "code" /\ w.basket = buy[b].basket
        /\ w.cart = buy[b].cart /\ w.gross = total /\ w.discount = buy[b].discount
        /\ w.code = buy[b].code /\ w.good = buy[b].good /\ w.owned = buy[b].owned
        /\ w.moved = buy[b].moved /\ w.premium = premium
    BY <1>1, <2>2 DEF BuyRecord
  <2> HIDE DEF w
  <2>6. ~w.moved => w.gross = Total(w.cart) /\ w.premium = w.cart[Premium]
    BY <2>2, <2>3, <2>5 DEF total
  <2>7. BuyOK(w)
    BY <1>1, <2>1, <2>4, <2>5, <2>6 DEF BuyOK
  <2> QED
    BY <2>1, <2>5, <2>7, BuysIInv
<1>4. ASSUME QuoteReadsCode(b), ~Refused(b) PROVE IInv'
  <2> DEFINE row == code[buy[b].code]
             discount == Discount(buy[b].gross, buy[b].premium, row.percent)
             w == [buy[b] EXCEPT !.pc = "partner", !.discount = discount]
  <2>1. buy[b].pc = "code" /\ Valid(row) /\ Buys(b, w)
    BY <1>4 DEF QuoteReadsCode, At
  <2>2. /\ buy[b].code \in Codes /\ buy[b].good /\ ~buy[b].owned
        /\ buy[b].premium \in Int /\ buy[b].premium > 0
        /\ ~buy[b].moved => buy[b].premium = buy[b].cart[Premium]
    BY <1>1, <2>1 DEF BuyOK, BuyRecord
  <2>3. row.percent \in 1..100
    BY <1>1, <2>2 DEF IInv, TypeOK
  <2>4. discount \in Int /\ discount <= buy[b].premium
    BY <2>2, <2>3, DiscountIsPart
  <2> HIDE DEF discount
  <2>5. /\ w \in BuyRecord /\ w.pc = "partner" /\ w.basket = buy[b].basket
        /\ w.cart = buy[b].cart /\ w.gross = buy[b].gross /\ w.discount = discount
        /\ w.code = buy[b].code /\ w.good = buy[b].good /\ w.owned = buy[b].owned
        /\ w.moved = buy[b].moved /\ w.premium = buy[b].premium
    BY <1>1, <2>4 DEF BuyRecord
  <2> HIDE DEF w
  <2>6. BuyOK(w)
    BY <1>1, <2>1, <2>2, <2>4, <2>5 DEF BuyOK
  <2> QED
    BY <2>1, <2>5, <2>6, BuysIInv
<1> QED
  BY <1>2, <1>3, <1>4

LEMMA ReadsPartnerIInv == ASSUME IInv, NEW b \in Buyers, ReadsPartner(b) PROVE IInv'
<1> DEFINE owner == code[buy[b].code].owner
           owned == owner # NoPartner
           placed == [buy[b] EXCEPT !.owner = owner, !.owned = owned]
           w == [placed EXCEPT !.pc = "placed"]
<1>1. buy[b] \in BuyRecord /\ BuyOK(buy[b]) /\ buy[b].pc = "partner" /\ Buys(b, w)
  BY DEF IInv, ReadsPartner, At, Places
<1>2. owner \in Partners \cup {NoPartner} /\ owned \in BOOLEAN /\ (owned => owner # NoPartner)
  BY <1>1 DEF BuyOK, IInv, TypeOK
<1> HIDE DEF owner, owned
<1>3. /\ w \in BuyRecord /\ w.pc = "placed" /\ w.basket = buy[b].basket
      /\ w.cart = buy[b].cart /\ w.gross = buy[b].gross /\ w.discount = buy[b].discount
      /\ w.code = buy[b].code /\ w.good = buy[b].good
      /\ w.owned = owned /\ w.owner = owner
      /\ w.moved = buy[b].moved /\ w.premium = buy[b].premium
  BY <1>1, <1>2 DEF BuyRecord
<1> HIDE DEF w
<1>4. BuyOK(w)
  BY <1>1, <1>2, <1>3 DEF BuyOK
<1> QED
  BY <1>1, <1>3, <1>4, BuysIInv

LEMMA BuyingIInv ==
  ASSUME IInv, NEW b \in Buyers,
         Buying(b) \/ \E basket \in Baskets, k \in Codes \cup {NoCode} : Fills(b, basket, k)
  PROVE  IInv'
BY BrowserIInv, ChecksIInv, ReadsPricesIInv, QuoteIInv, ReadsPartnerIInv, RefusedIInv
   DEF Buying, PurchaseFails

-----------------------------------------------------------------------------
(* Editing products.                                                       *)

LEMMA EditEndsIInv ==
  ASSUME IInv, NEW e \in Editors, edit' = [edit EXCEPT ![e] = NoEdit],
         UNCHANGED <<product, code, partner, cron, buy, acts>>
  PROVE  IInv'
<1>1. /\ edit' = [a \in Editors |-> edit'[a]]
      /\ \A a \in Editors : edit'[a] = NoEdit \/ edit'[a] = edit[a]
  BY DEF IInv
<1>2. \A a \in Editors : EditOK(a)'
  BY <1>1 DEF IInv, EditOK, RowOK
<1>3. \A b \in Buyers : BuyOK(buy[b])'
  BY DEF IInv, BuyOK, Prices
<1> QED
  BY <1>1, <1>2, <1>3 DEF IInv, TypeOK, GalleryOutlivesUpload

LEMMA EditReadsIInv ==
  ASSUME IInv, NEW e \in Editors, NEW p \in Products, NEW sets \in Changes,
         EditReads(e, p, sets)
  PROVE  IInv'
<1> DEFINE v == [on |-> p, copy |-> product[p], sets |-> sets]
<1>1. /\ edit' = [edit EXCEPT ![e] = v] /\ acts' \in 0..MaxActs
      /\ UNCHANGED <<product, code, partner, cron, buy>>
  BY MaxActsAssumption DEF EditReads, Acts, IInv, TypeOK
<1>2. v.on = p /\ v.copy = product[p] /\ v.sets = sets /\ RowOK(product[p])
  BY DEF IInv
<1> HIDE DEF v
<1>3. /\ edit' = [a \in Editors |-> edit'[a]]
      /\ \A a \in Editors : edit'[a] = v \/ edit'[a] = edit[a]
  BY <1>1 DEF IInv
<1>4. \A a \in Editors : EditOK(a)'
  BY <1>1, <1>2, <1>3 DEF IInv, EditOK, RowOK
<1>5. \A b \in Buyers : BuyOK(buy[b])'
  BY <1>1 DEF IInv, BuyOK, Prices
<1> QED
  BY <1>1, <1>3, <1>4, <1>5 DEF IInv, TypeOK, GalleryOutlivesUpload

\* What an UPDATE leaves of a product: the days both old or both new.
LEMMA WrittenRow ==
  ASSUME NEW e \in Editors, RowOK(edit[e].copy), edit[e].sets \in Changes,
         NEW row, RowOK(row),
         NEW new, new = [f \in Fields |-> IF f \in Assigned(e) THEN Edited(e)[f] ELSE row[f]]
  PROVE  /\ RowOK(new)
         /\ Edited(e).upload \in Int /\ Edited(e).storage \in Int
         /\ "price" \notin DOMAIN edit[e].sets => new.price = row.price
         /\ \/ new.upload = row.upload /\ new.storage = row.storage
            \/ /\ new.upload = Edited(e).upload /\ new.storage = Edited(e).storage
               /\ DOMAIN edit[e].sets \cap Options # {}
<1>1. {"price", "upload", "storage"} \subseteq Fields
  BY DEF Fields, Options
<1>2. Edited(e).price \in Int /\ Edited(e).upload \in Int /\ Edited(e).storage \in Int
  BY <1>1, ChangesAssumption DEF RowOK, Options, Edited
<1>3. "price" \in Assigned(e) <=> "price" \in DOMAIN edit[e].sets
  BY DEF Options, Features, Assigned
<1>4. /\ "upload" \in Assigned(e) <=> DOMAIN edit[e].sets \cap Options # {}
      /\ "storage" \in Assigned(e) <=> DOMAIN edit[e].sets \cap Options # {}
  BY DEF Options, Features, Assigned
<1>5. DOMAIN new = Fields
  OBVIOUS
<1>6. /\ new.price = IF "price" \in Assigned(e) THEN Edited(e).price ELSE row.price
      /\ new.upload = IF "upload" \in Assigned(e) THEN Edited(e).upload ELSE row.upload
      /\ new.storage = IF "storage" \in Assigned(e) THEN Edited(e).storage ELSE row.storage
  BY <1>1
<1> QED
  BY <1>2, <1>3, <1>4, <1>5, <1>6 DEF RowOK

LEMMA EditWritesIInv == ASSUME IInv, NEW e \in Editors, EditWrites(e) PROVE IInv'
<1> DEFINE p == edit[e].on
           sets == edit[e].sets
           new == [f \in Fields |-> IF f \in Assigned(e) THEN Edited(e)[f] ELSE product[p][f]]
<1>1. /\ edit[e] # NoEdit /\ p \in Products /\ RowOK(edit[e].copy) /\ sets \in Changes
      /\ RowOK(product[p])
  BY DEF IInv, EditWrites, EditOK
<1>2. /\ RowOK(new)
      /\ Edited(e).upload \in Int /\ Edited(e).storage \in Int
      /\ "price" \notin DOMAIN sets => new.price = product[p].price
      /\ \/ new.upload = product[p].upload /\ new.storage = product[p].storage
         \/ /\ new.upload = Edited(e).upload /\ new.storage = Edited(e).storage
            /\ DOMAIN sets \cap Options # {}
  BY <1>1, WrittenRow
<1>3. CASE UNCHANGED <<product, buy>>
  BY <1>3, EditEndsIInv DEF EditWrites
<1>4. ASSUME ~UNCHANGED <<product, buy>> PROVE IInv'
  <2>1. /\ ~(p \in Special /\ DOMAIN sets \cap Options # {}
               /\ Edited(e).storage < Edited(e).upload)
        /\ product' = [product EXCEPT ![p] = new]
        /\ buy' = [b \in Buyers |->
                     IF /\ buy[b].pc = "quote" /\ p \in DOMAIN buy[b].basket
                        /\ "price" \in DOMAIN sets
                     THEN [buy[b] EXCEPT !.moved = TRUE] ELSE buy[b]]
        /\ edit' = [edit EXCEPT ![e] = NoEdit]
        /\ UNCHANGED <<code, partner, cron, acts>>
    BY <1>4 DEF EditWrites
  <2> HIDE DEF new
  <2>2. /\ product' = [q \in Products |-> product'[q]]
        /\ product'[p] = new
        /\ \A q \in Products \ {p} : product'[q] = product[q]
    BY <1>1, <2>1 DEF IInv
  <2>3. \A q \in Products : RowOK(product[q])'
    BY <1>2, <2>2 DEF IInv, RowOK
  <2>4. /\ edit' = [a \in Editors |-> edit'[a]]
        /\ \A a \in Editors : EditOK(a)'
    <3>1. /\ edit' = [a \in Editors |-> edit'[a]]
          /\ \A a \in Editors : edit'[a] = NoEdit \/ edit'[a] = edit[a]
      BY <2>1 DEF IInv
    <3> QED
      BY <3>1 DEF IInv, EditOK, RowOK
  <2>5. TypeOK'
    BY <2>1, <2>3 DEF IInv, TypeOK, RowOK
  <2>6. GalleryOutlivesUpload'
    <3> SUFFICES ASSUME NEW q \in Special PROVE product'[q].storage >= product'[q].upload
      BY DEF GalleryOutlivesUpload
    <3>1. q \in Products /\ product[q].storage >= product[q].upload
      BY ProductsAssumption DEF IInv, GalleryOutlivesUpload
    <3>2. CASE q = p
      BY <1>2, <2>1, <2>2, <3>1, <3>2
    <3>3. CASE q # p
      BY <2>2, <3>1, <3>3
    <3> QED
      BY <3>2, <3>3
  <2>7. ASSUME NEW b \in Buyers PROVE buy'[b] \in BuyRecord /\ BuyOK(buy[b])'
    <3> DEFINE w == [buy[b] EXCEPT !.moved = TRUE]
    <3>1. buy[b] \in BuyRecord /\ BuyOK(buy[b])
      BY DEF IInv
    <3>2. /\ w \in BuyRecord /\ w.pc = buy[b].pc /\ w.basket = buy[b].basket
          /\ w.code = buy[b].code /\ w.cart = buy[b].cart /\ w.gross = buy[b].gross
          /\ w.premium = buy[b].premium /\ w.discount = buy[b].discount
          /\ w.owner = buy[b].owner /\ w.owned = buy[b].owned /\ w.good = buy[b].good
          /\ w.moved
      BY <3>1 DEF BuyRecord
    <3> HIDE DEF w
    <3>3. CASE buy'[b] = w
      BY <2>1, <3>1, <3>2, <3>3 DEF BuyOK
    <3>4. ASSUME buy'[b] = buy[b],
                 ~(buy[b].pc = "quote" /\ p \in DOMAIN buy[b].basket /\ "price" \in DOMAIN sets)
          PROVE  buy'[b] \in BuyRecord /\ BuyOK(buy[b])'
      <4>1. ASSUME buy[b].pc = "quote"
            PROVE  Times(buy[b].basket, Prices)' = Times(buy[b].basket, Prices)
        <5>1. buy[b].basket \in Baskets /\ DOMAIN buy[b].basket \subseteq Products
          BY <3>1, <4>1, BasketsAssumption DEF BuyOK
        <5>2. \A q \in DOMAIN buy[b].basket : product'[q].price = product[q].price
          BY <1>2, <2>2, <3>4, <4>1, <5>1
        <5>3. \A q \in DOMAIN buy[b].basket : Prices'[q] = Prices[q]
          BY <5>1, <5>2 DEF Prices
        <5> QED
          BY <3>4, <5>3 DEF Times
      <4> QED
        BY <2>1, <3>1, <3>4, <4>1 DEF BuyOK
    <3> QED
      BY <2>1, <3>3, <3>4 DEF w
  <2>8. buy' \in [Buyers -> BuyRecord]
    <3>1. buy' = [b \in Buyers |-> buy'[b]]
      BY <2>1
    <3> QED
      BY <2>7, <3>1
  <2> QED
    BY <2>2, <2>3, <2>4, <2>5, <2>6, <2>7, <2>8 DEF IInv
<1> QED
  BY <1>3, <1>4

-----------------------------------------------------------------------------
(* Promo codes and partnerships.                                           *)

\* The codes change, and buyers whose code is good by then know it.
LEMMA CodesIInv ==
  ASSUME IInv, code' \in [Codes -> CodeRecord], acts' \in 0..MaxActs,
         cron' \in {"expired", "limit"}, UNCHANGED <<product, partner, edit>>,
         buy' = [b \in Buyers |-> buy'[b]],
         \A b \in Buyers :
            \/ /\ buy'[b] = buy[b]
               /\ Placing(b) /\ buy[b].code \in Codes /\ Valid(code'[buy[b].code]) =>
                     buy[b].good \/ Valid(code[buy[b].code])
            \/ buy'[b] = [buy[b] EXCEPT !.good = TRUE]
  PROVE  IInv'
<1>1. TypeOK'
  BY DEF IInv, TypeOK, CodeRecord
<1>2. ASSUME NEW b \in Buyers PROVE buy'[b] \in BuyRecord /\ BuyOK(buy[b])'
  <2> DEFINE w == [buy[b] EXCEPT !.good = TRUE]
  <2>1. buy[b] \in BuyRecord /\ BuyOK(buy[b])
    BY DEF IInv
  <2>2. /\ w \in BuyRecord /\ w.pc = buy[b].pc /\ w.basket = buy[b].basket
        /\ w.code = buy[b].code /\ w.cart = buy[b].cart /\ w.gross = buy[b].gross
        /\ w.premium = buy[b].premium /\ w.discount = buy[b].discount
        /\ w.owner = buy[b].owner /\ w.owned = buy[b].owned /\ w.moved = buy[b].moved
        /\ w.good
    BY <2>1 DEF BuyRecord
  <2>3. CASE buy'[b] = w
    <3> HIDE DEF w
    <3> QED
      BY <2>1, <2>2, <2>3 DEF BuyOK, Prices
  <2>4. CASE /\ buy'[b] = buy[b]
             /\ Placing(b) /\ buy[b].code \in Codes /\ Valid(code'[buy[b].code]) =>
                   buy[b].good \/ Valid(code[buy[b].code])
    BY <2>1, <2>4 DEF BuyOK, Prices, Placing, Valid
  <2> QED
    BY <2>3, <2>4
<1>3. buy' \in [Buyers -> BuyRecord]
  BY <1>2
<1> QED
  BY <1>1, <1>2, <1>3 DEF IInv, EditOK, RowOK, GalleryOutlivesUpload

LEMMA BecomesIInv ==
  ASSUME IInv, NEW k \in Codes, NEW new \in CodeRecord, Becomes(k, new), Acts, UNCHANGED cron
  PROVE  IInv'
<1>1. /\ code' = [code EXCEPT ![k] = new]
      /\ buy' = [b \in Buyers |->
                   IF Placing(b) /\ buy[b].code = k /\ Valid(new)
                   THEN [buy[b] EXCEPT !.good = TRUE] ELSE buy[b]]
      /\ UNCHANGED <<product, partner, edit>>
  BY DEF Becomes
<1>2. /\ code' \in [Codes -> CodeRecord] /\ code'[k] = new
      /\ \A h \in Codes \ {k} : code'[h] = code[h]
  BY <1>1 DEF IInv, TypeOK, CodeRecord
<1>3. acts' \in 0..MaxActs /\ cron' \in {"expired", "limit"}
  BY MaxActsAssumption DEF Acts, IInv, TypeOK
<1>4. \A b \in Buyers :
         \/ /\ buy'[b] = buy[b]
            /\ Placing(b) /\ buy[b].code \in Codes /\ Valid(code'[buy[b].code]) =>
                  buy[b].good \/ Valid(code[buy[b].code])
         \/ buy'[b] = [buy[b] EXCEPT !.good = TRUE]
  BY <1>1, <1>2
<1>5. buy' = [b \in Buyers |-> buy'[b]]
  BY <1>1
<1> QED
  BY <1>1, <1>2, <1>3, <1>4, <1>5, CodesIInv

LEMMA PromoIInv ==
  ASSUME IInv, NEW k \in Codes,
         \/ PromoEnable(k)
         \/ \E st \in {"manual", "deleted"} : PromoStops(k, st)
         \/ \E percent \in Percents, owner \in Partners, st \in {"on", "manual"} :
               PromoCreate(k, percent, owner, st)
         \/ \E when \in {"early", "now", "past"}, full \in BOOLEAN :
               \/ CodeAges(k, when, full)
               \/ \E percent \in Percents, owner \in Partners \cup {NoPartner} :
                     PromoUpdate(k, percent, when, full, owner)
  PROVE  IInv'
<1>1. code[k] \in CodeRecord
  BY DEF IInv, TypeOK, CodeRecord
<1>2. ASSUME NEW st \in {"on", "manual", "deleted"}
      PROVE  [code[k] EXCEPT !.st = st] \in CodeRecord
  BY <1>1 DEF CodeRecord
<1>3. ASSUME NEW st \in {"manual", "deleted"}, PromoStops(k, st) PROVE IInv'
  BY <1>2, <1>3, BecomesIInv DEF PromoStops
<1>4. ASSUME PromoEnable(k) PROVE IInv'
  BY <1>2, <1>4, BecomesIInv DEF PromoEnable
<1>5. ASSUME NEW percent \in Percents, NEW owner \in Partners \cup {NoPartner},
             NEW st \in {"none", "on", "expired", "usage_limit_reached", "manual", "deleted"},
             NEW when \in {"early", "now", "past"}, NEW full \in BOOLEAN
      PROVE  [st |-> st, when |-> when, full |-> full, percent |-> percent, owner |-> owner]
                \in CodeRecord
  BY DEF CodeRecord
<1>6. ASSUME NEW percent \in Percents, NEW owner \in Partners, NEW st \in {"on", "manual"},
             PromoCreate(k, percent, owner, st)
      PROVE  IInv'
  BY <1>5, <1>6, BecomesIInv DEF PromoCreate
<1>7. ASSUME NEW when \in {"early", "now", "past"}, NEW full \in BOOLEAN, CodeAges(k, when, full)
      PROVE  IInv'
  <2>1. [code[k] EXCEPT !.when = when, !.full = full] \in CodeRecord
    BY <1>1 DEF CodeRecord
  <2> QED
    BY <1>7, <2>1, BecomesIInv DEF CodeAges
<1>8. ASSUME NEW when \in {"early", "now", "past"}, NEW full \in BOOLEAN,
             NEW percent \in Percents, NEW owner \in Partners \cup {NoPartner},
             PromoUpdate(k, percent, when, full, owner)
      PROVE  IInv'
  <2>1. code[k].st \in {"none", "on", "expired", "usage_limit_reached", "manual", "deleted"}
    BY <1>1 DEF CodeRecord
  <2> DEFINE new == [st |-> code[k].st, when |-> when, full |-> full, percent |-> percent,
                     owner |-> owner]
  <2>2. new \in CodeRecord
    BY <1>5, <2>1
  <2>3. Becomes(k, new) /\ Acts /\ UNCHANGED cron
    BY <1>8 DEF PromoUpdate
  <2> HIDE DEF new
  <2> QED
    BY <2>2, <2>3, BecomesIInv
<1> QED
  BY <1>3, <1>4, <1>6, <1>7, <1>8

LEMMA CronIInv == ASSUME IInv, CronExpired \/ CronLimits PROVE IInv'
<1>1. PICK reason \in {"expired", "usage_limit_reached"} :
         \A k \in Codes : code'[k] = code[k] \/ code'[k] = [code[k] EXCEPT !.st = reason]
  BY DEF CronExpired, CronLimits, CronStops
<1>2. /\ code' = [k \in Codes |-> code'[k]]
      /\ cron' \in {"expired", "limit"}
      /\ UNCHANGED <<product, partner, edit, buy, acts>>
  BY DEF CronExpired, CronLimits, CronStops
<1>3. ASSUME NEW k \in Codes
      PROVE  code'[k] \in CodeRecord /\ (Valid(code'[k]) => Valid(code[k]))
  <2>1. code[k] \in CodeRecord
    BY DEF IInv, TypeOK, CodeRecord
  <2> DEFINE new == [code[k] EXCEPT !.st = reason]
  <2>2. new \in CodeRecord /\ new.st # "on"
    BY <2>1 DEF CodeRecord
  <2> HIDE DEF new
  <2>3. ~Valid(new)
    BY <2>2 DEF Valid
  <2> QED
    BY <1>1, <2>1, <2>2, <2>3 DEF new
<1>4. code' \in [Codes -> CodeRecord]
  BY <1>2, <1>3
<1>5. \A b \in Buyers : buy[b].code \in Codes /\ Valid(code'[buy[b].code]) => Valid(code[buy[b].code])
  BY <1>3
<1>6. acts' \in 0..MaxActs /\ buy' = [b \in Buyers |-> buy'[b]]
  BY <1>2 DEF IInv, TypeOK
<1> QED
  BY <1>2, <1>4, <1>5, <1>6, CodesIInv

LEMMA PartnerIInv ==
  ASSUME IInv, NEW q \in Partners, NEW active \in BOOLEAN, PartnerSet(q, active)
  PROVE  IInv'
<1>1. partner' \in [Partners -> BOOLEAN] /\ acts' \in 0..MaxActs
  BY MaxActsAssumption DEF PartnerSet, Acts, IInv, TypeOK
<1>2. UNCHANGED <<product, code, cron, edit, buy>>
  BY DEF PartnerSet
<1>3. \A b \in Buyers : BuyOK(buy[b])'
  BY <1>2 DEF IInv, BuyOK, Prices
<1> QED
  BY <1>1, <1>2, <1>3 DEF IInv, TypeOK, EditOK, RowOK, GalleryOutlivesUpload

-----------------------------------------------------------------------------

LEMMA NextIInv == ASSUME IInv, [Next]_vars PROVE IInv'
<1>1. CASE UNCHANGED vars
  <2>1. \A b \in Buyers : BuyOK(buy[b])'
    BY <1>1 DEF vars, IInv, BuyOK, Prices
  <2> QED
    BY <1>1, <2>1 DEF vars, IInv, TypeOK, EditOK, RowOK, GalleryOutlivesUpload
<1>2. CASE \E b \in Buyers :
              \/ Buying(b)
              \/ \E basket \in Baskets, k \in Codes \cup {NoCode} : Fills(b, basket, k)
  BY <1>2, BuyingIInv
<1>3. CASE \E e \in Editors :
              \/ EditWrites(e) \/ EditFails(e)
              \/ \E p \in Products, sets \in Changes : EditReads(e, p, sets)
  BY <1>3, EditWritesIInv, EditEndsIInv, EditReadsIInv DEF EditFails
<1>4. CASE \E k \in Codes :
              \/ PromoEnable(k)
              \/ \E st \in {"manual", "deleted"} : PromoStops(k, st)
              \/ \E percent \in Percents, owner \in Partners, st \in {"on", "manual"} :
                    PromoCreate(k, percent, owner, st)
              \/ \E when \in {"early", "now", "past"}, full \in BOOLEAN :
                    \/ CodeAges(k, when, full)
                    \/ \E percent \in Percents, owner \in Partners \cup {NoPartner} :
                          PromoUpdate(k, percent, when, full, owner)
  BY <1>4, PromoIInv
<1>5. CASE CronExpired \/ CronLimits
  BY <1>5, CronIInv
<1>6. CASE \E q \in Partners, active \in BOOLEAN : PartnerSet(q, active)
  BY <1>6, PartnerIInv
<1> QED
  BY <1>1, <1>2, <1>3, <1>4, <1>5, <1>6 DEF Next

LEMMA Invariant == Spec => []IInv
<1>1. Init => IInv
  BY InitIInv
<1>2. IInv /\ [Next]_vars => IInv'
  BY NextIInv
<1> QED
  BY <1>1, <1>2, PTL DEF Spec

\* The variables have their types, whatever the instance.
THEOREM TypeCorrect == Spec => []TypeOK
<1>1. IInv => TypeOK
  BY DEF IInv
<1> QED
  BY <1>1, Invariant, PTL

\* Overlapping edits never leave a special package whose gallery ends before
\* its guests stop uploading.
THEOREM GalleriesOutliveUploads == Spec => []GalleryOutlivesUpload
<1>1. IInv => GalleryOutlivesUpload
  BY DEF IInv
<1> QED
  BY <1>1, Invariant, PTL

\* The charge is the cart's, whatever the prices, quantities and percentages.
THEOREM ChargesMatchCarts == Spec => []ChargeMatchesCart
<1>1. ASSUME IInv, NEW b \in Buyers, Placed(b), ~buy[b].moved
      PROVE  /\ buy[b].gross = Total(buy[b].cart)
             /\ buy[b].discount > 0 => buy[b].discount <= buy[b].cart[Premium]
  BY <1>1 DEF IInv, BuyOK, Placed, At
<1>2. IInv => ChargeMatchesCart
  BY <1>1 DEF ChargeMatchesCart
<1> QED
  BY <1>2, Invariant, PTL

\* A discount is given only for a code that was good while the purchase was made.
THEOREM PreviewsAreNotTrusted == Spec => []PreviewIsNotTrusted
<1>1. IInv => PreviewIsNotTrusted
  BY DEF IInv, BuyOK, PreviewIsNotTrusted
<1> QED
  BY <1>1, Invariant, PTL

\* A purchase that is placed is not touched again here.
LEMMA PlacedStays ==
  ASSUME IInv, [Next]_vars, NEW b \in Buyers, Placed(b)
  PROVE  buy'[b] = buy[b]
<1>1. buy[b].pc = "placed" /\ buy \in [Buyers -> BuyRecord]
  BY DEF Placed, At, IInv
<1>2. ASSUME NEW a \in Buyers, NEW w, Buys(a, w), a # b PROVE buy'[b] = buy[b]
  BY <1>1, <1>2 DEF Buys
<1>3. CASE \E a \in Buyers :
              \/ Buying(a)
              \/ \E basket \in Baskets, k \in Codes \cup {NoCode} : Fills(a, basket, k)
  <2>1. PICK a \in Buyers :
              \/ Buying(a)
              \/ \E basket \in Baskets, k \in Codes \cup {NoCode} : Fills(a, basket, k)
    BY <1>3
  <2>2. a # b
    BY <1>1, <2>1 DEF Buying, Fills, Preview, Begins, ChecksBasket, ReadsPrices,
       QuoteReadsPrices, QuoteReadsCode, ReadsPartner, PurchaseFails, At, Placing
  <2>3. \E w : Buys(a, w)
    BY <2>1 DEF Buying, Fills, Preview, Begins, ChecksBasket, ReadsPrices,
       QuoteReadsPrices, QuoteReadsCode, ReadsPartner, PurchaseFails, Refused, Places
  <2> QED
    BY <1>2, <2>2, <2>3
<1>4. ASSUME NEW k, NEW new, Becomes(k, new) PROVE buy'[b] = buy[b]
  BY <1>1, <1>4 DEF Becomes, Placing
<1>5. ASSUME NEW k \in Codes,
             \/ PromoEnable(k)
             \/ \E st \in {"manual", "deleted"} : PromoStops(k, st)
             \/ \E percent \in Percents, owner \in Partners, st \in {"on", "manual"} :
                   PromoCreate(k, percent, owner, st)
             \/ \E when \in {"early", "now", "past"}, full \in BOOLEAN :
                   \/ CodeAges(k, when, full)
                   \/ \E percent \in Percents, owner \in Partners \cup {NoPartner} :
                         PromoUpdate(k, percent, when, full, owner)
      PROVE  buy'[b] = buy[b]
  BY <1>4, <1>5 DEF PromoEnable, PromoStops, PromoCreate, CodeAges, PromoUpdate
<1>6. CASE \E e \in Editors : EditWrites(e)
  BY <1>1, <1>6 DEF EditWrites
<1>7. CASE UNCHANGED buy
  BY <1>7
<1> QED
  BY <1>3, <1>5, <1>6, <1>7
     DEF Next, vars, EditFails, EditReads, CronExpired, CronLimits, CronStops, PartnerSet

\* A sale stays with the partnership it was made under.
THEOREM SalesKeepPartners == Spec => SaleKeepsPartner
<1>1. ASSUME IInv, [Next]_vars, NEW b \in Buyers, Placed(b), buy[b].owned
      PROVE  SoldBy(b)' = SoldBy(b)
  <2>1. buy'[b] = buy[b] /\ buy[b].owner # NoPartner
    BY <1>1, PlacedStays DEF IInv, BuyOK
  <2> QED
    BY <2>1 DEF SoldBy
<1>2. IInv /\ [Next]_vars =>
        [\A b \in Buyers : Placed(b) /\ buy[b].owned => SoldBy(b)' = SoldBy(b)]_vars
  BY <1>1
<1> QED
  BY <1>2, Invariant, PTL DEF Spec, SaleKeepsPartner
=============================================================================
