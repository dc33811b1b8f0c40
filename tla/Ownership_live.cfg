\* An order whose owner tries until it has an event, through failing statements,
\* restarts and, once, the removal of the account.
SPECIFICATION FairSpec
CONSTANTS
    a1 = a1  a2 = a2  b1 = b1  mailA = mailA  mailB = mailB
    Purchases = {p1}
    Upgrades = {}
    OwnerMail <- OneOwner
    Users = {a1, a2}
    Mail <- Addresses
    Invitees = {}
    Events = {e1, e2}
    Requests = {r1, r2}
    Faults = {"db", "restart"}
    NoUser = NoUser
    NoTarget = NoTarget
INVARIANTS OneEvent
PROPERTIES BuyerGetsEvent
CHECK_DEADLOCK FALSE
