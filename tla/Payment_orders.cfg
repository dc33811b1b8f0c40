\* Two orders with one promo code and an upgrade order, two callback requests,
\* repeated notifications, a refusal of one order that may reach
\* another, failing statements and restarts.
SPECIFICATION Spec
CONSTANTS
    p1 = p1  p2 = p2  p3 = p3  c1 = c1
    Purchases = {p1, p2, p3}
    Requests = {r1, r2}
    Contents <- Carts
    Upgrades = {p3}
    Codes = {c1}
    Code <- OneCode
    NoCode = NoCode
    Limit <- OneUse
    Refusals = {"failure"}
    RefusalsOf <- OneRefusal
    Faults = {"db", "restart"}
    NoId = NoId
    NoPurchase = NoPurchase
SYMMETRY Symmetric
INVARIANTS OutcomeWasNotified UsageIsPaidOrders PaidIsFulfilled HandledIsRecorded
PROPERTIES ImplementsOrder
CHECK_DEADLOCK FALSE
