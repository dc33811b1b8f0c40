----------------------------- MODULE EventDates -----------------------------
(***************************************************************************)
(* How long an event lives.  Hosts choose the day it starts, triggers      *)
(* compute from the package when uploading ends and when the gallery is    *)
(* deleted, paid upgrades and a one-time extension move those dates.       *)
(*                                                                         *)
(* Each action is one statement or transaction that holds the event's row. *)
(* Dates are day numbers, and months are the days they come to.            *)
(***************************************************************************)
EXTENDS Integers

CONSTANTS
    Events,
    Upgrades,      \* upgrade orders that may be opened
    EventOf,       \* EventOf[o]: purchases.event_uid
    Tiers,         \* core packages, numbered in the order of their prices
    Bought,        \* Bought[e]: the package of the event's first order
    ActivationDays, StorageDays,  \* of a package; storage after upload
    From, To,      \* the package an upgrade is for, the one it leads to
    MoreUpload, MoreStorage,      \* days an upgrade adds
    Extension,     \* the one-time extension
    Dates,         \* days that hosts and the panel choose from
    Horizon,       \* bound: time stops here
    NoTier

ASSUME ShapeAssumption ==
    /\ EventOf \in [Upgrades -> Events] /\ Bought \in [Events -> Tiers]
    /\ Tiers \subseteq Nat /\ NoTier \notin Tiers
    /\ ActivationDays \in [Tiers -> Nat] /\ StorageDays \in [Tiers -> Nat]
    /\ MoreUpload \in [Upgrades -> Nat] /\ MoreStorage \in [Upgrades -> Nat]
    /\ Extension \in Nat /\ Horizon \in Nat /\ Dates \subseteq Nat

\* A package upgrade leads upwards and is bought on its own.
ASSUME UpgradesAssumption ==
    /\ From \in [Upgrades -> Tiers] /\ To \in [Upgrades -> Tiers \cup {NoTier}]
    /\ \A o \in Upgrades : To[o] # NoTier =>
        To[o] > From[o] /\ MoreUpload[o] = 0 /\ MoreStorage[o] = 0

VARIABLES
    now,
    dated,         \* events whose host has chosen a date; the others have none
    act, active, storage,         \* activation_date, active_until, storage_until
    extended,      \* events with storage_extended_at
    warned,        \* events with storage_warning_mail_sent_at
    tier,          \* event_core_product_uid
    moreUpload, moreStorage,      \* event_extra_upload_months, _storage_months
    bill,          \* an upgrade order: "none", "open" or "applied"
    closed         \* events with deleted_at

dates == <<dated, act, active, storage, warned>>
terms == <<extended, tier, moreUpload, moreStorage>>
dateVars == <<now, dated, act, active, storage, warned, extended, tier, moreUpload,
              moreStorage, bill, closed>>

DatesTypeOK ==
    /\ now \in 0..Horizon
    /\ dated \in SUBSET Events
    /\ act \in [Events -> Nat] /\ active \in [Events -> Nat]
    /\ storage \in [Events -> Nat]
    /\ extended \in SUBSET Events /\ warned \in SUBSET Events
    /\ tier \in [Events -> Tiers]
    /\ moreUpload \in [Events -> Nat] /\ moreStorage \in [Events -> Nat]
    /\ bill \in [Upgrades -> {"none", "open", "applied"}]
    /\ closed \in SUBSET Events

DatesInit ==
    /\ now = 0
    /\ dated = {} /\ extended = {} /\ warned = {} /\ closed = {}
    /\ act = [e \in Events |-> 0] /\ active = act /\ storage = act
    /\ tier = Bought
    /\ moreUpload = act /\ moreStorage = act
    /\ bill = [o \in Upgrades |-> "none"]

Later(a, b) == IF a >= b THEN a ELSE b
Kept(e) == e \notin dated \/ storage[e] > now

-----------------------------------------------------------------------------
(* The dates that follow from the package (enforce_event_dates).           *)

ActiveFrom(e, d) == d + ActivationDays[tier[e]] + moreUpload[e]

\* Mutant of StorageFrom: the extension is not kept.
StorageFromUnextended(e, a) == a + StorageDays[tier[e]] + moreStorage[e]

StorageFrom(e, a) ==
    a + StorageDays[tier[e]] + moreStorage[e] + IF e \in extended THEN Extension ELSE 0

\* The warning counts for the date it was given for.
Moves(e, a, s) ==
    /\ active' = [active EXCEPT ![e] = a]
    /\ storage' = [storage EXCEPT ![e] = s]
    /\ warned' = IF s = storage[e] THEN warned ELSE warned \ {e}

SetsDate(e, d) ==
    /\ e \notin dated \/ act[e] # d
    /\ dated' = dated \cup {e}
    /\ act' = [act EXCEPT ![e] = d]
    /\ Moves(e, ActiveFrom(e, d), StorageFrom(e, ActiveFrom(e, d)))
    /\ UNCHANGED <<now, terms, bill, closed>>

\* A host may choose the date until the event has started.
HostSetsDate(e, d) == (e \in dated => act[e] > now) /\ SetsDate(e, d)

\* UpdateActivationDate is rolled back when the gallery would be over.
AdminSetsDate(e, d) ==
    e \notin closed /\ StorageFrom(e, ActiveFrom(e, d)) > now /\ SetsDate(e, d)

-----------------------------------------------------------------------------
(* Upgrades and the extension.                                             *)

\* Purchase: offered for the package of today, while the gallery is kept.
OpensUpgrade(o) ==
    LET e == EventOf[o] IN
    /\ bill[o] = "none"
    /\ e \notin closed /\ Kept(e) /\ tier[e] = From[o]
    /\ bill' = [bill EXCEPT ![o] = "open"]
    /\ UNCHANGED <<now, dates, terms, closed>>

\* The package branch of apply_event_upgrade.
PackageDates(e, t) ==
    LET a == Later(active[e], act[e] + ActivationDays[t] + moreUpload[e])
        s == a + StorageDays[t] + moreStorage[e]
               + IF e \in extended THEN Extension ELSE 0 IN
    Moves(e, a, Later(storage[e], s))

\* upgrade_extra_dates: months of uploading begin today if uploading has ended.
ExtraDates(o, e) ==
    LET gap == IF MoreUpload[o] > 0 /\ active[e] < now THEN now - active[e] ELSE 0 IN
    Moves(e, active[e] + gap + MoreUpload[o],
             storage[e] + gap + MoreUpload[o] + MoreStorage[o])

\* apply_event_upgrade, once the order is paid, however late that is.
Applies(o) ==
    LET e == EventOf[o]
        t == IF To[o] = NoTier THEN tier[e] ELSE Later(tier[e], To[o]) IN
    /\ bill[o] = "open"
    /\ bill' = [bill EXCEPT ![o] = "applied"]
    /\ tier' = [tier EXCEPT ![e] = t]
    /\ moreUpload' = [moreUpload EXCEPT ![e] = @ + MoreUpload[o]]
    /\ moreStorage' = [moreStorage EXCEPT ![e] = @ + MoreStorage[o]]
    /\ IF e \notin dated THEN UNCHANGED <<active, storage, warned>>
       ELSE IF To[o] = NoTier THEN ExtraDates(o, e) ELSE PackageDates(e, t)
    /\ UNCHANGED <<now, dated, act, extended, closed>>

\* ExtendStorage, one UPDATE.
Extends(e) ==
    /\ e \in dated \ (closed \cup extended) /\ storage[e] > now
    /\ extended' = extended \cup {e}
    /\ storage' = [storage EXCEPT ![e] = @ + Extension]
    /\ UNCHANGED <<now, dated, act, active, warned, tier, moreUpload, moreStorage,
                   bill, closed>>

-----------------------------------------------------------------------------

\* markWarnSent
MarksWarned(e) ==
    /\ warned' = warned \cup {e}
    /\ UNCHANGED <<now, dated, act, active, storage, terms, bill, closed>>

\* softDeleteEvent
Closes(e) ==
    /\ closed' = closed \cup {e}
    /\ UNCHANGED <<now, dates, terms, bill>>

Tick ==
    /\ now < Horizon
    /\ now' = now + 1
    /\ UNCHANGED <<dates, terms, bill, closed>>

DateStep(e) ==
    \/ \E d \in Dates : HostSetsDate(e, d) \/ AdminSetsDate(e, d)
    \/ \E o \in Upgrades : EventOf[o] = e /\ (OpensUpgrade(o) \/ Applies(o))
    \/ Extends(e)

DatesNext ==
    \/ Tick
    \/ \E e \in Events : DateStep(e) \/ MarksWarned(e) \/ Closes(e)

DatesSpec == DatesInit /\ [][DatesNext]_dateVars

-----------------------------------------------------------------------------
(* Properties.                                                             *)

\* Whatever was paid for is in the dates: however upgrades, the extension and
\* changes of the activation date are mixed, uploading lasts as long as the package
\* and the added months say, and the gallery is kept that long after it.
PaidTimeIsKept ==
    \A e \in dated :
        /\ active[e] >= act[e] + ActivationDays[tier[e]] + moreUpload[e]
        /\ storage[e] >= active[e] + StorageDays[tier[e]] + moreStorage[e]
                            + IF e \in extended THEN Extension ELSE 0

\* No upgrade and no extension shortens anything; only a new activation date does.
DatesOnlyGrow ==
    [][\A e \in dated : act'[e] = act[e] =>
            active'[e] >= active[e] /\ storage'[e] >= storage[e]]_dateVars
=============================================================================
