\* One event with two upgrade orders and one upload, the cron and one request that
\* deletes or removes it, with errors and restarts.
SPECIFICATION Spec
CONSTANTS
    e1 = e1  o1 = o1  o2 = o2
    Events = {e1}
    Upgrades = {o1, o2}
    EventOf <- Here
    Tiers = {1, 2}
    Bought <- Small
    ActivationDays <- UploadDays
    StorageDays <- OneDay
    From <- FromSmall
    To <- ToLarge
    MoreUpload <- Month
    MoreStorage <- Nothing
    Extension = 1
    Dates = {1, 2}
    Horizon = 4
    NoTier = 0
    Lead = 1
    Media = {m1}
    Home <- There
    Callers = {c1}
    Cron = cron
    Faults = {"error", "restart"}
    NoEvent = NoEvent
INVARIANTS PaidTimeIsKept OpenKeepsMedia FinishedIsGone NoFileForgotten RemovalIsWhole ClosedEarlyOnlyIfMoved
CHECK_DEADLOCK FALSE
