\* One buyer with one promo code of two partnerships, two edits of products at
\* once, the cron, and three acts of the panel and the clock.
SPECIFICATION Spec
CONSTANTS
    package = package  hero = hero  cards = cards
    Products = {package, hero, cards}
    Premium = package
    AddOns = {cards}
    Special = {hero}
    InPacks = {cards}
    Single = {}
    Listed <- Offer
    Changes <- OneField
    Baskets <- Carts
    Buyers = {b1}
    Editors = {e1, e2}
    Codes = {k1}
    Percents = {50}
    Partners = {q1, q2}
    NoCode = NoCode
    NoPartner = NoPartner
    NoProduct = NoProduct
    MaxActs = 3
SYMMETRY Symmetric
INVARIANTS GalleryOutlivesUpload ChargeMatchesCart PreviewIsNotTrusted
PROPERTIES SaleKeepsPartner
CHECK_DEADLOCK FALSE
