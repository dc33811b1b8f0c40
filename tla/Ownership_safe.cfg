\* An order and an upgrade order of one owner, who may remove the account while
\* others act, an invited collaborator, and two requests at once.
SPECIFICATION Spec
CONSTANTS
    a1 = a1  a2 = a2  b1 = b1  mailA = mailA  mailB = mailB
    Purchases = {p1, p2}
    Upgrades = {p2}
    OwnerMail <- OneOwner
    Users = {a1, b1}
    Mail <- Addresses
    Invitees = {mailB}
    Events = {e1, e2}
    Requests = {r1, r2}
    Faults = {}
    NoUser = NoUser
    NoTarget = NoTarget
SYMMETRY Symmetric
INVARIANTS EventIsPaid AdminsWereLetIn RemovedIsSuspended
CHECK_DEADLOCK FALSE
