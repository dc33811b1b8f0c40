------------------------ MODULE EventCleanup_proofs ------------------------
(***************************************************************************)
(* Proofs about the end of events, for any number of events, uploads,      *)
(* orders and requests, any packages and days, and every set of faults.    *)
(***************************************************************************)
EXTENDS EventCleanup, TLAPS

-----------------------------------------------------------------------------
(* The dates of one event after another, whoever moves them.               *)


DatesInv == DatesTypeOK /\ PaidTimeIsKept

\* What the dates of one event are when they moved to a and s.
LEMMA MovesEffect ==
  ASSUME DatesTypeOK, NEW e \in Events, NEW a \in Nat, NEW s \in Nat, Moves(e, a, s)
  PROVE  /\ active' \in [Events -> Nat] /\ storage' \in [Events -> Nat]
         /\ warned' \in SUBSET Events
         /\ active'[e] = a /\ storage'[e] = s
         /\ \A f \in Events \ {e} : active'[f] = active[f] /\ storage'[f] = storage[f]
<1>1. /\ active' \in [Events -> Nat] /\ active'[e] = a
      /\ \A f \in Events \ {e} : active'[f] = active[f]
  BY DEF Moves, DatesTypeOK
<1>2. /\ storage' \in [Events -> Nat] /\ storage'[e] = s
      /\ \A f \in Events \ {e} : storage'[f] = storage[f]
  BY DEF Moves, DatesTypeOK
<1>3. warned' \in SUBSET Events
  BY DEF Moves, DatesTypeOK
<1> QED
  BY <1>1, <1>2, <1>3

\* The dates that follow from a package are days.
LEMMA PackageDays ==
  ASSUME DatesTypeOK, NEW e \in Events
  PROVE  /\ \A d \in Nat : ActiveFrom(e, d) \in Nat /\ StorageFrom(e, d) \in Nat
         /\ tier[e] \in Tiers /\ tier[e] \in Nat /\ Extension \in Nat
         /\ act[e] \in Nat /\ active[e] \in Nat /\ storage[e] \in Nat /\ now \in Nat
         /\ moreUpload[e] \in Nat /\ moreStorage[e] \in Nat
         /\ \A t \in Tiers : ActivationDays[t] \in Nat /\ StorageDays[t] \in Nat
<1>1. /\ tier[e] \in Tiers /\ Extension \in Nat
      /\ moreUpload[e] \in Nat /\ moreStorage[e] \in Nat
      /\ \A t \in Tiers : ActivationDays[t] \in Nat /\ StorageDays[t] \in Nat
  BY ShapeAssumption DEF DatesTypeOK
<1>2. act[e] \in Nat /\ active[e] \in Nat /\ storage[e] \in Nat /\ now \in Nat
  BY ShapeAssumption DEF DatesTypeOK
<1>3. tier[e] \in Nat
  BY <1>1, ShapeAssumption
<1>4. ActivationDays[tier[e]] \in Nat /\ StorageDays[tier[e]] \in Nat
  BY <1>1
<1>5. ASSUME NEW d \in Nat PROVE ActiveFrom(e, d) \in Nat /\ StorageFrom(e, d) \in Nat
  BY <1>1, <1>4 DEF ActiveFrom, StorageFrom
<1> QED
  BY <1>1, <1>2, <1>3, <1>5

-----------------------------------------------------------------------------
(* One lemma for each step: the invariant is kept, nothing dated shrinks.  *)

Grows == \A e \in dated : act'[e] = act[e] =>
             active'[e] >= active[e] /\ storage'[e] >= storage[e]

LEMMA SetsDateStep ==
  ASSUME DatesInv, NEW e \in Events, NEW d \in Dates, SetsDate(e, d)
  PROVE  DatesInv' /\ Grows
<1>1. DatesTypeOK /\ PaidTimeIsKept /\ d \in Nat
  BY ShapeAssumption DEF DatesInv
<1> DEFINE a == ActiveFrom(e, d)  s == StorageFrom(e, ActiveFrom(e, d))
<1>2. a \in Nat /\ s \in Nat
  BY <1>1, PackageDays
<1>3. /\ Moves(e, a, s) /\ (e \notin dated \/ act[e] # d)
      /\ dated' = dated \cup {e} /\ act' = [act EXCEPT ![e] = d]
      /\ UNCHANGED <<now, extended, tier, moreUpload, moreStorage, bill, closed>>
  BY DEF SetsDate, terms
<1> HIDE DEF a, s
<1>4. /\ active' \in [Events -> Nat] /\ storage' \in [Events -> Nat]
      /\ warned' \in SUBSET Events
      /\ active'[e] = a /\ storage'[e] = s
      /\ \A f \in Events \ {e} : active'[f] = active[f] /\ storage'[f] = storage[f]
  BY <1>1, <1>2, <1>3, MovesEffect
<1>5. /\ act' \in [Events -> Nat] /\ act'[e] = d
      /\ \A f \in Events \ {e} : act'[f] = act[f]
  BY <1>1, <1>3 DEF DatesTypeOK
<1>6. DatesTypeOK'
  BY <1>1, <1>3, <1>4, <1>5 DEF DatesTypeOK
<1>7. PaidTimeIsKept'
  <2>1. SUFFICES ASSUME NEW f \in dated'
                 PROVE  /\ active'[f] >= act'[f] + ActivationDays[tier[f]] + moreUpload[f]
                        /\ storage'[f] >= active'[f] + StorageDays[tier[f]] + moreStorage[f]
                                            + IF f \in extended THEN Extension ELSE 0
    BY <1>3 DEF PaidTimeIsKept
  <2>2. CASE f = e
    <3>1. /\ a = d + ActivationDays[tier[e]] + moreUpload[e]
          /\ s = a + StorageDays[tier[e]] + moreStorage[e]
                   + IF e \in extended THEN Extension ELSE 0
      BY DEF a, s, ActiveFrom, StorageFrom
    <3> QED
      BY <2>2, <3>1, <1>1, <1>2, <1>4, <1>5
  <2>3. CASE f # e
    <3>1. f \in dated /\ f \in Events
      BY <2>3, <1>1, <1>3 DEF DatesTypeOK
    <3> QED
      BY <3>1, <2>3, <1>1, <1>4, <1>5 DEF PaidTimeIsKept
  <2> QED
    BY <2>2, <2>3
<1>8. Grows
  <2>1. SUFFICES ASSUME NEW f \in dated, act'[f] = act[f]
                 PROVE  active'[f] >= active[f] /\ storage'[f] >= storage[f]
    BY DEF Grows
  <2>2. f \in Events /\ f # e
    BY <1>1, <1>3, <1>5, <2>1 DEF DatesTypeOK
  <2> QED
    BY <2>2, <1>1, <1>4, PackageDays
<1> QED
  BY <1>6, <1>7, <1>8 DEF DatesInv

\* Where an event's dates are not touched, nothing is lost either.
LEMMA OthersKept ==
  ASSUME DatesInv, NEW e \in Events, dated' = dated, act' = act,
         NEW f \in dated, f # e,
         active'[f] = active[f], storage'[f] = storage[f],
         tier'[f] = tier[f], moreUpload'[f] = moreUpload[f],
         moreStorage'[f] = moreStorage[f], f \in extended' <=> f \in extended
  PROVE  /\ active'[f] >= act'[f] + ActivationDays[tier'[f]] + moreUpload'[f]
         /\ storage'[f] >= active'[f] + StorageDays[tier'[f]] + moreStorage'[f]
                             + IF f \in extended' THEN Extension ELSE 0
         /\ active'[f] >= active[f] /\ storage'[f] >= storage[f]
<1>1. DatesTypeOK /\ f \in Events
  BY DEF DatesInv, DatesTypeOK
<1>2. /\ active[f] >= act[f] + ActivationDays[tier[f]] + moreUpload[f]
      /\ storage[f] >= active[f] + StorageDays[tier[f]] + moreStorage[f]
                         + IF f \in extended THEN Extension ELSE 0
  BY DEF DatesInv, PaidTimeIsKept
<1>3. active[f] \in Nat /\ storage[f] \in Nat
  BY <1>1, PackageDays
<1> QED
  BY <1>2, <1>3

\* What a paid upgrade makes of the dates of its event.
LEMMA ExtraDatesEffect ==
  ASSUME DatesInv, NEW o \in Upgrades, NEW e \in dated, ExtraDates(o, e)
  PROVE  /\ active' \in [Events -> Nat] /\ storage' \in [Events -> Nat]
         /\ warned' \in SUBSET Events
         /\ \A f \in Events \ {e} : active'[f] = active[f] /\ storage'[f] = storage[f]
         /\ active'[e] >= active[e] /\ storage'[e] >= storage[e]
         /\ active'[e] >= act[e] + ActivationDays[tier[e]] + moreUpload[e] + MoreUpload[o]
         /\ storage'[e] >= active'[e] + StorageDays[tier[e]] + moreStorage[e]
                + MoreStorage[o] + IF e \in extended THEN Extension ELSE 0
<1>1. DatesTypeOK /\ e \in Events
  BY DEF DatesInv, DatesTypeOK
<1>2. MoreUpload[o] \in Nat /\ MoreStorage[o] \in Nat
  BY ShapeAssumption
<1> DEFINE gap == IF MoreUpload[o] > 0 /\ active[e] < now THEN now - active[e] ELSE 0
           a == active[e] + gap + MoreUpload[o]
           s == storage[e] + gap + MoreUpload[o] + MoreStorage[o]
<1>3. active[e] \in Nat /\ storage[e] \in Nat /\ now \in Nat
  BY <1>1, PackageDays
<1>4. gap \in Nat
  BY <1>3
<1>5. Moves(e, a, s)
  BY DEF ExtraDates
<1> HIDE DEF gap
<1>6. a \in Nat /\ s \in Nat
  BY <1>2, <1>3, <1>4
<1>7. /\ active' \in [Events -> Nat] /\ storage' \in [Events -> Nat]
      /\ warned' \in SUBSET Events
      /\ active'[e] = a /\ storage'[e] = s
      /\ \A f \in Events \ {e} : active'[f] = active[f] /\ storage'[f] = storage[f]
  BY <1>1, <1>5, <1>6, MovesEffect
<1>8. /\ active[e] >= act[e] + ActivationDays[tier[e]] + moreUpload[e]
      /\ storage[e] >= active[e] + StorageDays[tier[e]] + moreStorage[e]
                         + IF e \in extended THEN Extension ELSE 0
  BY DEF DatesInv, PaidTimeIsKept
<1>9. /\ tier[e] \in Tiers /\ Extension \in Nat /\ act[e] \in Nat
      /\ moreUpload[e] \in Nat /\ moreStorage[e] \in Nat
      /\ ActivationDays[tier[e]] \in Nat /\ StorageDays[tier[e]] \in Nat
  BY <1>1, PackageDays
<1> QED
  BY <1>2, <1>3, <1>4, <1>7, <1>8, <1>9

LEMMA PackageDatesEffect ==
  ASSUME DatesInv, NEW e \in dated, NEW t \in Tiers, PackageDates(e, t)
  PROVE  /\ active' \in [Events -> Nat] /\ storage' \in [Events -> Nat]
         /\ warned' \in SUBSET Events
         /\ \A f \in Events \ {e} : active'[f] = active[f] /\ storage'[f] = storage[f]
         /\ active'[e] >= active[e] /\ storage'[e] >= storage[e]
         /\ active'[e] >= act[e] + ActivationDays[t] + moreUpload[e]
         /\ storage'[e] >= active'[e] + StorageDays[t] + moreStorage[e]
                + IF e \in extended THEN Extension ELSE 0
<1>1. DatesTypeOK /\ e \in Events
  BY DEF DatesInv, DatesTypeOK
<1> DEFINE own == act[e] + ActivationDays[t] + moreUpload[e]
           a == Later(active[e], own)
           s == a + StorageDays[t] + moreStorage[e]
                  + IF e \in extended THEN Extension ELSE 0
<1>2. /\ active[e] \in Nat /\ storage[e] \in Nat /\ own \in Nat
      /\ StorageDays[t] \in Nat /\ moreStorage[e] \in Nat /\ Extension \in Nat
  BY <1>1, PackageDays
<1>3. Moves(e, a, Later(storage[e], s))
  BY DEF PackageDates
<1>4. a \in Nat /\ a >= own /\ a >= active[e]
  BY <1>2 DEF Later
<1> HIDE DEF a
<1>5. s \in Nat
  BY <1>2, <1>4
<1>6. /\ Later(storage[e], s) \in Nat
      /\ Later(storage[e], s) >= s /\ Later(storage[e], s) >= storage[e]
  BY <1>2, <1>5 DEF Later
<1>7. /\ active' \in [Events -> Nat] /\ storage' \in [Events -> Nat]
      /\ warned' \in SUBSET Events
      /\ active'[e] = a /\ storage'[e] = Later(storage[e], s)
      /\ \A f \in Events \ {e} : active'[f] = active[f] /\ storage'[f] = storage[f]
  BY <1>1, <1>3, <1>4, <1>6, MovesEffect
<1> QED
  BY <1>4, <1>6, <1>7

LEMMA AppliesStep ==
  ASSUME DatesInv, NEW o \in Upgrades, Applies(o)
  PROVE  DatesInv' /\ Grows
<1> DEFINE e == EventOf[o]
           t == IF To[o] = NoTier THEN tier[e] ELSE Later(tier[e], To[o])
<1>1. /\ DatesTypeOK /\ PaidTimeIsKept /\ e \in Events
      /\ MoreUpload[o] \in Nat /\ MoreStorage[o] \in Nat
  BY ShapeAssumption DEF DatesInv
<1>2. tier[e] \in Tiers /\ moreUpload[e] \in Nat /\ moreStorage[e] \in Nat
  BY <1>1, PackageDays
<1>3. t \in Tiers
  BY <1>2, UpgradesAssumption DEF Later
<1>4. /\ bill' = [bill EXCEPT ![o] = "applied"]
      /\ tier' = [tier EXCEPT ![e] = t]
      /\ moreUpload' = [moreUpload EXCEPT ![e] = @ + MoreUpload[o]]
      /\ moreStorage' = [moreStorage EXCEPT ![e] = @ + MoreStorage[o]]
      /\ IF e \notin dated THEN UNCHANGED <<active, storage, warned>>
         ELSE IF To[o] = NoTier THEN ExtraDates(o, e) ELSE PackageDates(e, t)
      /\ UNCHANGED <<now, dated, act, extended, closed>>
  BY DEF Applies
<1> HIDE DEF t
<1>5. /\ tier' \in [Events -> Tiers] /\ tier'[e] = t
      /\ \A f \in Events \ {e} : tier'[f] = tier[f]
  BY <1>1, <1>3, <1>4 DEF DatesTypeOK
<1>6. /\ moreUpload' \in [Events -> Nat] /\ moreUpload'[e] = moreUpload[e] + MoreUpload[o]
      /\ \A f \in Events \ {e} : moreUpload'[f] = moreUpload[f]
  BY <1>1, <1>4 DEF DatesTypeOK
<1>7. /\ moreStorage' \in [Events -> Nat]
      /\ moreStorage'[e] = moreStorage[e] + MoreStorage[o]
      /\ \A f \in Events \ {e} : moreStorage'[f] = moreStorage[f]
  BY <1>1, <1>4 DEF DatesTypeOK
<1>8. bill' \in [Upgrades -> {"none", "open", "applied"}]
  BY <1>1, <1>4 DEF DatesTypeOK
<1>9. /\ active' \in [Events -> Nat] /\ storage' \in [Events -> Nat]
      /\ warned' \in SUBSET Events
      /\ \A f \in Events \ {e} : active'[f] = active[f] /\ storage'[f] = storage[f]
      /\ e \in dated =>
           /\ active'[e] >= active[e] /\ storage'[e] >= storage[e]
           /\ active'[e] >= act[e] + ActivationDays[t] + moreUpload[e] + MoreUpload[o]
           /\ storage'[e] >= active'[e] + StorageDays[t] + moreStorage[e]
                  + MoreStorage[o] + IF e \in extended THEN Extension ELSE 0
  <2>1. CASE e \notin dated
    BY <1>1, <1>4, <2>1 DEF DatesTypeOK
  <2>2. CASE e \in dated /\ To[o] = NoTier
    <3>1. ExtraDates(o, e) /\ t = tier[e]
      BY <1>4, <2>2 DEF t
    <3> QED
      BY <2>2, <3>1, ExtraDatesEffect
  <2>3. CASE e \in dated /\ To[o] # NoTier
    <3>1. PackageDates(e, t) /\ MoreUpload[o] = 0 /\ MoreStorage[o] = 0
      BY <1>4, <2>3, UpgradesAssumption
    <3>2. /\ active' \in [Events -> Nat] /\ storage' \in [Events -> Nat]
          /\ warned' \in SUBSET Events
          /\ \A f \in Events \ {e} : active'[f] = active[f] /\ storage'[f] = storage[f]
          /\ active'[e] >= active[e] /\ storage'[e] >= storage[e]
          /\ active'[e] >= act[e] + ActivationDays[t] + moreUpload[e]
          /\ storage'[e] >= active'[e] + StorageDays[t] + moreStorage[e]
                 + IF e \in extended THEN Extension ELSE 0
      BY <1>3, <2>3, <3>1, PackageDatesEffect
    <3>3. /\ act[e] \in Nat /\ ActivationDays[t] \in Nat /\ StorageDays[t] \in Nat
          /\ Extension \in Nat
      BY <1>1, <1>3, PackageDays
    <3>4. active'[e] \in Nat /\ storage'[e] \in Nat
      BY <3>2, <1>1
    <3> QED
      BY <1>2, <3>1, <3>2, <3>3, <3>4
  <2> QED
    BY <2>1, <2>2, <2>3
<1>10. DatesTypeOK'
  BY <1>1, <1>4, <1>5, <1>6, <1>7, <1>8, <1>9 DEF DatesTypeOK
<1>11. ASSUME NEW f \in dated
       PROVE  /\ active'[f] >= act'[f] + ActivationDays[tier'[f]] + moreUpload'[f]
              /\ storage'[f] >= active'[f] + StorageDays[tier'[f]] + moreStorage'[f]
                                  + IF f \in extended' THEN Extension ELSE 0
              /\ active'[f] >= active[f] /\ storage'[f] >= storage[f]
  <2>1. f \in Events
    BY <1>1, <1>11 DEF DatesTypeOK
  <2>2. CASE f = e
    <3>1. /\ act[e] \in Nat /\ ActivationDays[t] \in Nat /\ StorageDays[t] \in Nat
          /\ Extension \in Nat /\ active'[e] \in Nat /\ storage'[e] \in Nat
      BY <1>1, <1>3, <1>9, PackageDays
    <3>2. /\ act'[f] = act[e] /\ (f \in extended' <=> e \in extended) /\ e \in dated
          /\ tier'[f] = t /\ moreUpload'[f] = moreUpload[e] + MoreUpload[o]
          /\ moreStorage'[f] = moreStorage[e] + MoreStorage[o]
      BY <1>4, <1>5, <1>6, <1>7, <1>11, <2>2
    <3> QED
      BY <1>1, <1>2, <1>9, <2>2, <3>1, <3>2
  <2>3. CASE f # e
    BY <1>1, <1>4, <1>5, <1>6, <1>7, <1>9, <1>11, <2>1, <2>3, OthersKept
  <2> QED
    BY <2>2, <2>3
<1>12. PaidTimeIsKept'
  BY <1>4, <1>11 DEF PaidTimeIsKept
<1>13. Grows
  BY <1>11 DEF Grows
<1> QED
  BY <1>10, <1>12, <1>13 DEF DatesInv

LEMMA ExtendsStep ==
  ASSUME DatesInv, NEW e \in Events, Extends(e)
  PROVE  DatesInv' /\ Grows
<1>1. DatesTypeOK /\ PaidTimeIsKept
  BY DEF DatesInv
<1>2. /\ e \in dated /\ e \notin extended
      /\ extended' = extended \cup {e}
      /\ storage' = [storage EXCEPT ![e] = @ + Extension]
      /\ UNCHANGED <<now, dated, act, active, warned, tier, moreUpload, moreStorage,
                     bill, closed>>
  BY DEF Extends
<1>3. /\ storage[e] \in Nat /\ Extension \in Nat
      /\ active[e] \in Nat /\ moreStorage[e] \in Nat /\ StorageDays[tier[e]] \in Nat
  BY <1>1, PackageDays
<1>4. /\ storage' \in [Events -> Nat] /\ storage'[e] = storage[e] + Extension
      /\ \A f \in Events \ {e} : storage'[f] = storage[f]
  BY <1>1, <1>2, <1>3 DEF DatesTypeOK
<1>5. DatesTypeOK'
  BY <1>1, <1>2, <1>4 DEF DatesTypeOK
<1>6. ASSUME NEW f \in dated
      PROVE  /\ active'[f] >= act'[f] + ActivationDays[tier'[f]] + moreUpload'[f]
             /\ storage'[f] >= active'[f] + StorageDays[tier'[f]] + moreStorage'[f]
                                 + IF f \in extended' THEN Extension ELSE 0
             /\ active'[f] >= active[f] /\ storage'[f] >= storage[f]
  <2>1. f \in Events
    BY <1>1, <1>6 DEF DatesTypeOK
  <2>2. CASE f = e
    BY <1>1, <1>2, <1>3, <1>4, <1>6, <2>2 DEF PaidTimeIsKept
  <2>3. CASE f # e
    BY <1>2, <1>4, <1>6, <2>1, <2>3, OthersKept
  <2> QED
    BY <2>2, <2>3
<1>7. PaidTimeIsKept' /\ Grows
  BY <1>2, <1>6 DEF PaidTimeIsKept, Grows
<1> QED
  BY <1>5, <1>7 DEF DatesInv

\* A step that leaves the dates and the terms alone.
LEMMA DatesStay ==
  ASSUME DatesInv, UNCHANGED <<dated, act, active, storage, extended, tier,
                               moreUpload, moreStorage>>,
         now' \in 0..Horizon, warned' \in SUBSET Events, closed' \in SUBSET Events,
         bill' \in [Upgrades -> {"none", "open", "applied"}]
  PROVE  DatesInv' /\ Grows
<1>1. DatesTypeOK /\ PaidTimeIsKept
  BY DEF DatesInv
<1>2. DatesTypeOK'
  BY <1>1 DEF DatesTypeOK
<1>3. PaidTimeIsKept'
  BY <1>1 DEF PaidTimeIsKept
<1>4. Grows
  <2>1. SUFFICES ASSUME NEW f \in dated
                 PROVE  active[f] >= active[f] /\ storage[f] >= storage[f]
    BY DEF Grows
  <2>2. f \in Events
    BY <1>1 DEF DatesTypeOK
  <2> QED
    BY <1>1, <2>2, PackageDays
<1> QED
  BY <1>2, <1>3, <1>4 DEF DatesInv

-----------------------------------------------------------------------------
(* The theorems.                                                           *)

LEMMA DatesInitially == DatesInit => DatesInv
<1> SUFFICES ASSUME DatesInit PROVE DatesInv
  OBVIOUS
<1>2. DatesTypeOK
  <2>1. now \in 0..Horizon /\ Bought \in [Events -> Tiers]
    BY ShapeAssumption DEF DatesInit
  <2>2. act \in [Events -> Nat] /\ bill \in [Upgrades -> {"none", "open", "applied"}]
    BY DEF DatesInit
  <2> QED
    BY <2>1, <2>2 DEF DatesInit, DatesTypeOK
<1>3. PaidTimeIsKept
  <2>1. dated = {}
    BY DEF DatesInit
  <2> QED
    BY <2>1 DEF PaidTimeIsKept
<1> QED
  BY <1>2, <1>3 DEF DatesInv

LEMMA DatesStep ==
  ASSUME DatesInv, [DatesNext]_dateVars
  PROVE  DatesInv' /\ Grows
<1>1. DatesTypeOK
  BY DEF DatesInv
<1>2. CASE Tick
  <2>1. now' \in 0..Horizon
    BY <1>1, <1>2, ShapeAssumption DEF Tick, DatesTypeOK
  <2> QED
    BY <1>1, <1>2, <2>1, DatesStay DEF Tick, dates, terms, DatesTypeOK
<1>3. ASSUME NEW e \in Events, NEW d \in Dates, HostSetsDate(e, d) \/ AdminSetsDate(e, d)
      PROVE  DatesInv' /\ Grows
  BY <1>3, SetsDateStep DEF HostSetsDate, AdminSetsDate
<1>4. ASSUME NEW o \in Upgrades, OpensUpgrade(o)
      PROVE  DatesInv' /\ Grows
  <2>1. /\ bill' \in [Upgrades -> {"none", "open", "applied"}]
        /\ UNCHANGED <<now, dates, terms, closed>>
    BY <1>1, <1>4 DEF OpensUpgrade, DatesTypeOK
  <2> QED
    BY <1>1, <2>1, DatesStay DEF dates, terms, DatesTypeOK
<1>5. ASSUME NEW o \in Upgrades, Applies(o)
      PROVE  DatesInv' /\ Grows
  BY <1>5, AppliesStep
<1>6. ASSUME NEW e \in Events, Extends(e)
      PROVE  DatesInv' /\ Grows
  BY <1>6, ExtendsStep
<1>7. ASSUME NEW e \in Events, MarksWarned(e)
      PROVE  DatesInv' /\ Grows
  BY <1>1, <1>7, DatesStay DEF MarksWarned, terms, DatesTypeOK
<1>8. ASSUME NEW e \in Events, Closes(e)
      PROVE  DatesInv' /\ Grows
  BY <1>1, <1>8, DatesStay DEF Closes, dates, terms, DatesTypeOK
<1>9. CASE UNCHANGED dateVars
  BY <1>1, <1>9, DatesStay DEF dateVars, DatesTypeOK
<1> QED
  BY <1>2, <1>3, <1>4, <1>5, <1>6, <1>7, <1>8, <1>9 DEF DatesNext, DateStep

LEMMA DatesInvariance == DatesSpec => []DatesInv
<1>1. DatesInv /\ [DatesNext]_dateVars => DatesInv'
  BY DatesStep
<1> QED
  BY DatesInitially, <1>1, PTL DEF DatesSpec

\* The dates, packages, months and orders of events have their types.
THEOREM DatesTypeCorrect == DatesSpec => []DatesTypeOK
<1>1. DatesInv => DatesTypeOK
  BY DEF DatesInv
<1> QED
  BY <1>1, DatesInvariance, PTL

\* Whatever was paid for is in the dates, however upgrades that are paid early or
\* late, the extension and new activation dates are mixed.
THEOREM PaidTimeIsKeptAlways == DatesSpec => []PaidTimeIsKept
<1>1. DatesInv => PaidTimeIsKept
  BY DEF DatesInv
<1> QED
  BY <1>1, DatesInvariance, PTL

\* Only a new activation date shortens anything.
THEOREM DatesOnlyGrowAlways == DatesSpec => DatesOnlyGrow
<1>1. DatesInv /\ [DatesNext]_dateVars =>
        [\A e \in dated : act'[e] = act[e] =>
             active'[e] >= active[e] /\ storage'[e] >= storage[e]]_dateVars
  BY DatesStep DEF Grows
<1> QED
  BY <1>1, DatesInvariance, PTL DEF DatesSpec, DatesOnlyGrow

-----------------------------------------------------------------------------
(* The end of events.                                                      *)

\* What a purger's list is worth at each of its statements.
PurgerOK(p) ==
    pc[p] # "idle" =>
        /\ at[p] \in Events
        /\ pc[p] # "look" => \A m \in paths[p] : Home[m] = at[p]
        /\ pc[p] = "insert" =>
            \A m \in Media : Home[m] = at[p] /\ row[m] = "row" => m \in paths[p] \cup missed
        /\ pc[p] \in {"close", "rows"} =>
            at[p] \in gone \/ (progress[at[p]] # "none" /\ paths[p] = captured[at[p]])
        /\ pc[p] \in {"rows", "files", "wipe"} => at[p] \in closed
        /\ pc[p] = "files" =>
            \/ at[p] \in gone
            \/ /\ progress[at[p]] # "none"
               /\ \A m \in captured[at[p]] :
                    object[m] = "stored" => m \in paths[p] \cup late
        /\ pc[p] = "wipe" =>
            \A m \in Media : Home[m] = at[p] /\ object[m] = "stored" => m \in paths[p] \cup late

\* What a snapshot is worth, and a removal.
EventOK(e) ==
    /\ progress[e] # "none" =>
        \A m \in Media : Home[m] = e /\ row[m] = "row" => m \in captured[e] \cup missed
    /\ \A m \in captured[e] : Home[m] = e
    /\ progress[e] = "finished" =>
        e \in closed /\ \A m \in captured[e] : object[m] = "stored" => m \in late
    /\ e \in gone => \A m \in Media : Home[m] = e /\ object[m] = "stored" => m \in late

MediumOK(m) ==
    /\ Home[m] \notin closed => row[m] # "deleted" /\ object[m] # "removed"
    /\ row[m] = "deleted" /\ object[m] = "stored" =>
        \/ m \in missed \cup late
        \/ m \in captured[Home[m]] /\ progress[Home[m]] = "captured"

PurgeInv ==
    /\ \A p \in Purgers : PurgerOK(p)
    /\ \A e \in Events : EventOK(e)
    /\ \A m \in Media : MediumOK(m)

\* Events that the cron closes are over, or their dates moved on the way.
OverOrMoved(e) == Expired(e) \/ e \in moved \/ e \in closed

CronInv ==
    /\ cron # "purge" => pc[Cron] = "idle"
    /\ cron \in {"warn", "mark"} =>
        \A x \in list : /\ x[1] \notin warned
                        /\ storage[x[1]] = x[2] \/ x[1] \in moved
                        /\ \A y \in list : y[1] = x[1] => y = x
    /\ cron = "mark" => /\ at[Cron] \in Events /\ at[Cron] \notin warned
                        /\ \A x \in list : x[1] # at[Cron]
                        /\ storage[at[Cron]] = told[at[Cron]] \/ at[Cron] \in moved
    /\ cron = "purge" => \A x \in list : OverOrMoved(x[1])
    /\ pc[Cron] \in {"look", "insert", "close"} => OverOrMoved(at[Cron])
    /\ early \subseteq moved /\ early \subseteq closed
    /\ WarnedOfTheDate

IInv == DatesInv /\ TypeOK /\ PurgeInv /\ CronInv

-----------------------------------------------------------------------------
(* The dates under the cleanup.                                            *)

\* What a host, the panel or an order may do to the dates.
LEMMA DateStepEffect ==
  ASSUME DatesTypeOK, NEW e \in Events, DateStep(e)
  PROVE  /\ UNCHANGED <<now, closed>>
         /\ dated \subseteq dated' /\ warned' \subseteq warned
         /\ \A f \in Events \ {e} : /\ storage'[f] = storage[f]
                                    /\ f \in extended' <=> f \in extended
         /\ \/ extended' = extended /\ (storage'[e] = storage[e] \/ e \notin warned')
            \/ /\ e \notin extended /\ e \in extended' /\ e \notin closed
               /\ storage'[e] = storage[e] + Extension
<1>1. ASSUME NEW a, NEW s, Moves(e, a, s)
      PROVE  /\ warned' \subseteq warned
             /\ storage'[e] = storage[e] \/ e \notin warned'
             /\ \A f \in Events \ {e} : storage'[f] = storage[f]
  BY <1>1 DEF Moves, DatesTypeOK
<1>2. ASSUME NEW d \in Dates, HostSetsDate(e, d) \/ AdminSetsDate(e, d)
      PROVE  /\ UNCHANGED <<now, closed, extended>> /\ dated \subseteq dated'
             /\ warned' \subseteq warned
             /\ storage'[e] = storage[e] \/ e \notin warned'
             /\ \A f \in Events \ {e} : storage'[f] = storage[f]
  <2>1. SetsDate(e, d)
    BY <1>2 DEF HostSetsDate, AdminSetsDate
  <2>2. Moves(e, ActiveFrom(e, d), StorageFrom(e, ActiveFrom(e, d)))
    BY <2>1 DEF SetsDate
  <2> QED
    BY <2>1, <2>2, <1>1 DEF SetsDate, terms
<1>3. ASSUME NEW o \in Upgrades, EventOf[o] = e, OpensUpgrade(o)
      PROVE  UNCHANGED <<now, dated, storage, warned, closed, extended>>
  BY <1>3 DEF OpensUpgrade, dates, terms
<1>4. ASSUME NEW o \in Upgrades, EventOf[o] = e, Applies(o)
      PROVE  /\ UNCHANGED <<now, dated, closed, extended>>
             /\ warned' \subseteq warned
             /\ storage'[e] = storage[e] \/ e \notin warned'
             /\ \A f \in Events \ {e} : storage'[f] = storage[f]
  <2>1. UNCHANGED <<now, dated, closed, extended>>
    BY <1>4 DEF Applies
  <2>2. \/ UNCHANGED <<active, storage, warned>>
        \/ ExtraDates(o, e)
        \/ \E t : PackageDates(e, t)
    BY <1>4 DEF Applies
  <2>3. CASE UNCHANGED <<active, storage, warned>>
    BY <2>1, <2>3
  <2>4. CASE ExtraDates(o, e)
    <3>1. \E a, s : Moves(e, a, s)
      BY <2>4 DEF ExtraDates
    <3> QED
      BY <2>1, <3>1, <1>1
  <2>5. CASE \E t : PackageDates(e, t)
    <3>1. \E a, s : Moves(e, a, s)
      BY <2>5 DEF PackageDates
    <3> QED
      BY <2>1, <3>1, <1>1
  <2> QED
    BY <2>2, <2>3, <2>4, <2>5
<1>5. ASSUME Extends(e)
      PROVE  /\ UNCHANGED <<now, dated, closed, warned>>
             /\ e \notin extended /\ e \notin closed /\ extended' = extended \cup {e}
             /\ storage'[e] = storage[e] + Extension
             /\ \A f \in Events \ {e} : storage'[f] = storage[f]
  BY <1>5 DEF Extends, DatesTypeOK
<1> QED
  BY <1>2, <1>3, <1>4, <1>5 DEF DateStep

\* Every step of the cleanup moves the dates as EventDates does, or not at all.
LEMMA CleanupStep ==
  ASSUME IInv, [Next]_vars
  PROVE  [DatesNext]_dateVars
<1>1. ASSUME NEW p \in Purgers, PurgeStep(p) PROVE [DatesNext]_dateVars
  <2>1. CASE SoftDelete(p)
    <3>1. at[p] \in Events /\ Closes(at[p])
      BY <2>1 DEF SoftDelete, IInv, PurgeInv, PurgerOK
    <3> QED
      BY <3>1 DEF DatesNext
  <2> QED
    BY <1>1, <2>1 DEF PurgeStep, Look, Capture, DeleteRows, RemoveFile, Finish
<1>2. ASSUME NEW p \in Purgers,
             Erase(p) \/ PurgeFails(p) \/ \E e \in Events : Deletes(p, e) \/ ListFiles(p, e)
      PROVE  [DatesNext]_dateVars
  BY <1>2 DEF Erase, PurgeFails, Deletes, ListFiles
<1>3. CASE Mark
  <2>1. at[Cron] \in Events
    BY <1>3 DEF Mark, IInv, CronInv
  <2>2. MarksWarned(at[Cron]) \/ UNCHANGED dateVars
    BY <1>3 DEF Mark
  <2> QED
    BY <2>1, <2>2 DEF DatesNext
<1>4. CASE CronStep
  BY <1>1, <1>3, <1>4 DEF CronStep, Purgers, WarnStarts, PurgeStarts, PurgeEnds, Mail,
     PurgeNext
<1>5. CASE Day
  BY <1>5 DEF Day, DatesNext
<1>6. ASSUME NEW e \in Events, DatesMove(e) PROVE [DatesNext]_dateVars
  BY <1>6 DEF DatesMove, DatesNext
<1>7. ASSUME NEW m \in Media, Checks(m) \/ Inserts(m) \/ Lands(m)
      PROVE  [DatesNext]_dateVars
  BY <1>7 DEF Checks, Inserts, Lands
<1>8. CASE Restart \/ (\E x \in list : MailFails(x)) \/ UNCHANGED vars
  BY <1>8 DEF Restart, MailFails, vars, dateVars
<1> QED
  BY <1>1, <1>2, <1>4, <1>5, <1>6, <1>7, <1>8 DEF Next, Purgers

-----------------------------------------------------------------------------
(* Snapshots, rows and files.                                              *)

\* Nothing is taken back: what a step may do to what others rely on.
Frame ==
    /\ closed \subseteq closed' /\ gone \subseteq gone'
    /\ missed \subseteq missed' /\ late \subseteq late'
    /\ \A e \in Events : progress[e] # "none" =>
          e \in gone' \/ (progress'[e] # "none" /\ captured'[e] = captured[e])
    /\ \A m \in Media : Home[m] \in closed /\ object'[m] = "stored" =>
          object[m] = "stored" \/ m \in late'
    /\ \A m \in Media :
          /\ row'[m] = "row"
          /\ \/ progress[Home[m]] # "none"
             \/ \E p \in Purgers : at[p] = Home[m] /\ pc[p] \notin {"idle", "look"}
          => row[m] = "row" \/ m \in missed'

LEMMA PurgerStays ==
  ASSUME TypeOK, PurgeInv, Frame, NEW q \in Purgers,
         \/ pc'[q] = "idle"
         \/ pc'[q] = pc[q] /\ at'[q] = at[q] /\ paths'[q] = paths[q]
  PROVE  PurgerOK(q)'
<1>1. CASE pc'[q] = "idle"
  BY <1>1 DEF PurgerOK
<1>2. CASE pc[q] # "idle" /\ pc'[q] = pc[q] /\ at'[q] = at[q] /\ paths'[q] = paths[q]
  <2> DEFINE e == at[q]
  <2>1. PurgerOK(q) /\ EventOK(e) /\ e \in Events
    BY <1>2 DEF PurgeInv, PurgerOK
  <2>2. pc[q] # "look" => \A m \in paths[q] : Home[m] = e
    BY <1>2, <2>1 DEF PurgerOK
  <2>3. ASSUME pc[q] = "insert", NEW m \in Media, Home[m] = e, row'[m] = "row"
        PROVE  m \in paths[q] \cup missed'
    BY <2>1, <2>3 DEF PurgerOK, Frame
  <2>4. ASSUME pc[q] \in {"close", "rows"}
        PROVE  e \in gone' \/ (progress'[e] # "none" /\ paths[q] = captured'[e])
    BY <2>1, <2>4 DEF PurgerOK, Frame
  <2>5. ASSUME pc[q] \in {"rows", "files", "wipe"} PROVE e \in closed'
    BY <2>1, <2>5 DEF PurgerOK, Frame
  <2>6. ASSUME pc[q] = "files"
        PROVE  \/ e \in gone'
               \/ /\ progress'[e] # "none"
                  /\ \A m \in captured'[e] : object'[m] = "stored" => m \in paths[q] \cup late'
    <3>1. e \in closed
      BY <2>1, <2>6 DEF PurgerOK
    <3>2. CASE e \in gone
      BY <3>2 DEF Frame
    <3>3. CASE e \notin gone
      <4>1. /\ progress[e] # "none"
            /\ \A m \in captured[e] : object[m] = "stored" => m \in paths[q] \cup late
        BY <2>1, <2>6, <3>3 DEF PurgerOK
      <4>2. \A m \in captured[e] : m \in Media /\ Home[m] = e
        BY <2>1 DEF TypeOK, EventOK
      <4>3. \A m \in captured[e] : object'[m] = "stored" => object[m] = "stored" \/ m \in late'
        BY <3>1, <4>2 DEF Frame
      <4>4. e \in gone' \/ (progress'[e] # "none" /\ captured'[e] = captured[e])
        BY <2>1, <4>1 DEF Frame
      <4>5. late \subseteq late'
        BY DEF Frame
      <4> QED
        BY <4>1, <4>3, <4>4, <4>5
    <3> QED
      BY <3>2, <3>3
  <2>7. ASSUME pc[q] = "wipe", NEW m \in Media, Home[m] = e, object'[m] = "stored"
        PROVE  m \in paths[q] \cup late'
    BY <2>1, <2>7 DEF PurgerOK, Frame
  <2> QED
    BY <1>2, <2>1, <2>2, <2>3, <2>4, <2>5, <2>6, <2>7 DEF PurgerOK
<1> QED
  BY <1>1, <1>2

LEMMA EventStays ==
  ASSUME TypeOK, PurgeInv, Frame, NEW e \in Events,
         progress'[e] = progress[e], captured'[e] = captured[e], e \in gone' => e \in gone
  PROVE  EventOK(e)'
<1>1. EventOK(e)
  BY DEF PurgeInv
<1>2. \A m \in captured[e] : m \in Media /\ Home[m] = e
  BY <1>1 DEF TypeOK, EventOK
<1>3. ASSUME progress[e] # "none", NEW m \in Media, Home[m] = e, row'[m] = "row"
      PROVE  m \in captured[e] \cup missed'
  BY <1>1, <1>3 DEF EventOK, Frame
<1>4. ASSUME progress[e] = "finished"
      PROVE  e \in closed' /\ \A m \in captured[e] : object'[m] = "stored" => m \in late'
  BY <1>1, <1>2, <1>4 DEF EventOK, Frame
<1>5. ASSUME e \in gone, NEW m \in Media, Home[m] = e, object'[m] = "stored"
      PROVE  m \in late'
  BY <1>1, <1>5 DEF EventOK, Frame, TypeOK
<1> QED
  BY <1>2, <1>3, <1>4, <1>5 DEF EventOK

LEMMA MediumStays ==
  ASSUME TypeOK, PurgeInv, Frame, NEW m \in Media,
         row'[m] = "deleted" => row[m] = "deleted",
         object'[m] = object[m] \/ Home[m] \in closed,
         progress'[Home[m]] = progress[Home[m]], captured'[Home[m]] = captured[Home[m]]
  PROVE  MediumOK(m)'
<1>1. MediumOK(m)
  BY DEF PurgeInv
<1>2. object'[m] = "stored" => object[m] = "stored" \/ m \in late'
  BY DEF Frame
<1>3. Home[m] \notin closed' => row'[m] # "deleted" /\ object'[m] # "removed"
  BY <1>1 DEF MediumOK, Frame
<1>4. ASSUME row'[m] = "deleted", object'[m] = "stored"
      PROVE  \/ m \in missed' \cup late'
             \/ m \in captured[Home[m]] /\ progress[Home[m]] = "captured"
  BY <1>1, <1>2, <1>4 DEF MediumOK, Frame
<1> QED
  BY <1>3, <1>4 DEF MediumOK

\* Steps that leave the snapshots, rows and files alone.
LEMMA QuietStep ==
  ASSUME TypeOK, PurgeInv, UNCHANGED <<files, record, missed, late>>, closed \subseteq closed',
         \A q \in Purgers : \/ pc'[q] = "idle"
                            \/ pc'[q] = pc[q] /\ at'[q] = at[q] /\ paths'[q] = paths[q]
  PROVE  PurgeInv'
<1>1. UNCHANGED <<row, object, progress, captured, gone, missed, late>>
  BY DEF files, record
<1>2. Frame
  BY <1>1 DEF Frame
<1>3. \A q \in Purgers : PurgerOK(q)'
  BY <1>2, PurgerStays
<1>4. \A e \in Events : EventOK(e)'
  BY <1>1, <1>2, EventStays
<1>5. \A m \in Media : MediumOK(m)'
  BY <1>1, <1>2, MediumStays
<1> QED
  BY <1>3, <1>4, <1>5 DEF PurgeInv

-----------------------------------------------------------------------------
(* Types.                                                                  *)

Labels == {"idle", "look", "insert", "close", "rows", "files", "wipe"}

PurgerTypes ==
    /\ pc \in [Purgers -> Labels]
    /\ at \in [Purgers -> Events \cup {NoEvent}]
    /\ paths \in [Purgers -> SUBSET Media]

FileTypes ==
    /\ row \in [Media -> {"none", "checked", "row", "deleted"}]
    /\ object \in [Media -> {"none", "stored", "removed"}]
    /\ missed \in SUBSET Media /\ late \in SUBSET Media

RecordTypes ==
    /\ progress \in [Events -> {"none", "captured", "finished"}]
    /\ captured \in [Events -> SUBSET Media]
    /\ gone \in SUBSET closed

CronTypes ==
    /\ cron \in {"idle", "warn", "mark", "purge"}
    /\ list \in SUBSET (Events \X Nat)
    /\ told \in [Events -> Nat]
    /\ moved \in SUBSET Events /\ early \in SUBSET Events

LEMMA TypeParts ==
  TypeOK <=> DatesTypeOK /\ PurgerTypes /\ FileTypes /\ RecordTypes /\ CronTypes
BY DEF TypeOK, PurgerTypes, FileTypes, RecordTypes, CronTypes, Labels

LEMMA EndsEffect ==
  ASSUME PurgerTypes, NEW p \in Purgers, Ends(p)
  PROVE  /\ PurgerTypes'
         /\ pc'[p] = "idle"
         /\ \A q \in Purgers \ {p} : pc'[q] = pc[q] /\ at'[q] = at[q] /\ paths'[q] = paths[q]
BY DEF Ends, PurgerTypes, Labels

LEMMA GotoEffect ==
  ASSUME PurgerTypes, NEW p \in Purgers, NEW l \in Labels, Goto(p, l)
  PROVE  /\ pc' \in [Purgers -> Labels] /\ at' = at
         /\ pc'[p] = l
         /\ \A q \in Purgers \ {p} : pc'[q] = pc[q]
BY DEF Goto, PurgerTypes

LEMMA ResumesEffect ==
  ASSUME PurgerTypes, RecordTypes, NEW p \in Purgers, at[p] \in Events, Resumes(p)
  PROVE  /\ PurgerTypes'
         /\ \/ pc'[p] = "idle"
            \/ pc'[p] = "close" /\ at'[p] = at[p] /\ paths'[p] = captured[at[p]]
         /\ \A q \in Purgers \ {p} : pc'[q] = pc[q] /\ at'[q] = at[q] /\ paths'[q] = paths[q]
<1>1. CASE Ends(p)
  BY <1>1, EndsEffect
<1>2. CASE Goto(p, "close") /\ paths' = [paths EXCEPT ![p] = captured[at[p]]]
  <2>1. /\ pc' \in [Purgers -> Labels] /\ at' = at /\ pc'[p] = "close"
        /\ \A q \in Purgers \ {p} : pc'[q] = pc[q]
    BY <1>2, GotoEffect DEF Labels
  <2>2. captured[at[p]] \in SUBSET Media
    BY DEF RecordTypes
  <2>3. /\ paths' \in [Purgers -> SUBSET Media] /\ paths'[p] = captured[at[p]]
        /\ \A q \in Purgers \ {p} : paths'[q] = paths[q]
    BY <1>2, <2>2 DEF PurgerTypes
  <2> QED
    BY <2>1, <2>3 DEF PurgerTypes
<1> QED
  BY <1>1, <1>2 DEF Resumes

-----------------------------------------------------------------------------
(* One lemma for each statement of a purge or a removal.                   *)

FilesOK == PurgerTypes /\ FileTypes /\ RecordTypes /\ PurgeInv

\* A step of one purger that leaves the snapshots, rows and files alone.
LEMMA OnePurger ==
  ASSUME TypeOK, PurgeInv, NEW p \in Purgers,
         UNCHANGED <<files, record, missed, late>>, closed \subseteq closed',
         PurgerTypes', PurgerOK(p)',
         \A q \in Purgers \ {p} : pc'[q] = pc[q] /\ at'[q] = at[q] /\ paths'[q] = paths[q]
  PROVE  FilesOK'
<1>1. UNCHANGED <<row, object, progress, captured, gone, missed, late>>
  BY DEF files, record
<1>2. FileTypes' /\ RecordTypes'
  BY <1>1, TypeParts DEF FileTypes, RecordTypes
<1>3. Frame
  BY <1>1 DEF Frame
<1>4. ASSUME NEW q \in Purgers PROVE PurgerOK(q)'
  BY <1>3, PurgerStays
<1>5. \A e \in Events : EventOK(e)'
  BY <1>1, <1>3, EventStays
<1>6. \A m \in Media : MediumOK(m)'
  BY <1>1, <1>3, MediumStays
<1> QED
  BY <1>2, <1>4, <1>5, <1>6 DEF FilesOK, PurgeInv

LEMMA ResumedOK ==
  ASSUME TypeOK, PurgeInv, NEW p \in Purgers, pc[p] # "idle", progress[at[p]] # "none",
         Resumes(p), UNCHANGED <<files, record, missed, late, closed>>
  PROVE  FilesOK'
<1>1. PurgerTypes /\ RecordTypes
  BY TypeParts
<1>2. at[p] \in Events
  BY DEF PurgeInv, PurgerOK
<1>3. /\ PurgerTypes'
      /\ \/ pc'[p] = "idle"
         \/ pc'[p] = "close" /\ at'[p] = at[p] /\ paths'[p] = captured[at[p]]
      /\ \A q \in Purgers \ {p} : pc'[q] = pc[q] /\ at'[q] = at[q] /\ paths'[q] = paths[q]
  BY <1>1, <1>2, ResumesEffect
<1>4. PurgerOK(p)'
  <2>1. EventOK(at[p])
    BY <1>2 DEF PurgeInv
  <2>2. UNCHANGED <<progress, captured>>
    BY DEF record
  <2> QED
    BY <1>2, <1>3, <2>1, <2>2 DEF PurgerOK, EventOK
<1> QED
  BY <1>3, <1>4, OnePurger

LEMMA DeletesStep ==
  ASSUME IInv, NEW p \in Purgers, NEW e \in Events, Deletes(p, e)
  PROVE  FilesOK'
<1>1. TypeOK /\ PurgeInv /\ PurgerTypes
  BY TypeParts DEF IInv
<1>2. /\ PurgerTypes'
      /\ pc'[p] = "look" /\ at'[p] = e
      /\ \A q \in Purgers \ {p} : pc'[q] = pc[q] /\ at'[q] = at[q] /\ paths'[q] = paths[q]
  BY <1>1 DEF Deletes, PurgerTypes, Labels
<1>3. PurgerOK(p)'
  BY <1>2 DEF PurgerOK
<1> QED
  BY <1>1, <1>2, <1>3, OnePurger DEF Deletes, dateVars, past

LEMMA LookStep ==
  ASSUME IInv, NEW p \in Purgers, Look(p)
  PROVE  FilesOK'
<1>1. TypeOK /\ PurgeInv /\ PurgerTypes
  BY TypeParts DEF IInv
<1>2. /\ pc[p] = "look" /\ UNCHANGED <<closed, files, record, missed, late>>
      /\ \/ progress[at[p]] # "none" /\ Resumes(p)
         \/ Goto(p, "insert") /\ paths' = [paths EXCEPT ![p] = Rows(at[p])]
  BY DEF Look, dateVars, past
<1>3. CASE progress[at[p]] # "none" /\ Resumes(p)
  BY <1>1, <1>2, <1>3, ResumedOK
<1>4. CASE Goto(p, "insert") /\ paths' = [paths EXCEPT ![p] = Rows(at[p])]
  <2>1. /\ pc' \in [Purgers -> Labels] /\ at' = at /\ pc'[p] = "insert"
        /\ \A q \in Purgers \ {p} : pc'[q] = pc[q]
    BY <1>1, <1>4, GotoEffect DEF Labels
  <2>2. Rows(at[p]) \in SUBSET Media
    BY DEF Rows
  <2>3. /\ paths' \in [Purgers -> SUBSET Media] /\ paths'[p] = Rows(at[p])
        /\ \A q \in Purgers \ {p} : paths'[q] = paths[q]
    BY <1>1, <1>4, <2>2 DEF PurgerTypes
  <2>4. at[p] \in Events /\ UNCHANGED row
    BY <1>1, <1>2 DEF PurgeInv, PurgerOK, files
  <2>5. PurgerOK(p)'
    BY <2>1, <2>3, <2>4 DEF PurgerOK, Rows
  <2> QED
    BY <1>1, <1>2, <2>1, <2>3, <2>5, OnePurger DEF PurgerTypes
<1> QED
  BY <1>2, <1>3, <1>4

LEMMA CaptureStep ==
  ASSUME IInv, NEW p \in Purgers, Capture(p)
  PROVE  FilesOK'
<1>1. /\ TypeOK /\ PurgeInv /\ PurgerTypes /\ FileTypes /\ RecordTypes
  BY TypeParts DEF IInv
<1>2. /\ pc[p] = "insert" /\ at[p] \notin gone
      /\ UNCHANGED <<closed, gone, row, object, missed, late>>
      /\ \/ progress[at[p]] # "none" /\ Resumes(p) /\ UNCHANGED <<progress, captured>>
         \/ /\ progress[at[p]] = "none"
            /\ progress' = [progress EXCEPT ![at[p]] = "captured"]
            /\ captured' = [captured EXCEPT ![at[p]] = paths[p]]
            /\ Goto(p, "close") /\ UNCHANGED paths
  BY DEF Capture, dateVars, past, files
<1>3. at[p] \in Events /\ PurgerOK(p)
  BY <1>1, <1>2 DEF PurgeInv, PurgerOK
<1>4. CASE progress[at[p]] # "none" /\ Resumes(p) /\ UNCHANGED <<progress, captured>>
  BY <1>1, <1>2, <1>4, ResumedOK DEF files, record
<1>5. CASE /\ progress[at[p]] = "none"
           /\ progress' = [progress EXCEPT ![at[p]] = "captured"]
           /\ captured' = [captured EXCEPT ![at[p]] = paths[p]]
           /\ Goto(p, "close") /\ UNCHANGED paths
  <2> DEFINE e == at[p]
  <2>1. /\ pc' \in [Purgers -> Labels] /\ at' = at /\ pc'[p] = "close"
        /\ \A q \in Purgers \ {p} : pc'[q] = pc[q]
    BY <1>1, <1>5, GotoEffect DEF Labels
  <2>2. /\ progress' \in [Events -> {"none", "captured", "finished"}]
        /\ progress'[e] = "captured"
        /\ \A f \in Events \ {e} : progress'[f] = progress[f]
    BY <1>1, <1>3, <1>5 DEF RecordTypes
  <2>3. paths[p] \in SUBSET Media
    BY <1>1 DEF PurgerTypes
  <2>4. /\ captured' \in [Events -> SUBSET Media] /\ captured'[e] = paths[p]
        /\ \A f \in Events \ {e} : captured'[f] = captured[f]
    BY <1>1, <1>3, <1>5, <2>3 DEF RecordTypes
  <2>5. PurgerTypes' /\ FileTypes' /\ RecordTypes'
    BY <1>1, <1>2, <1>5, <2>1, <2>2, <2>4 DEF PurgerTypes, FileTypes, RecordTypes
  <2>6. Frame
    BY <1>1, <1>2, <1>5, <2>2, <2>4 DEF Frame
  <2>7. PurgerOK(p)'
    BY <1>2, <1>3, <1>5, <2>1, <2>2, <2>4 DEF PurgerOK
  <2>8. ASSUME NEW q \in Purgers PROVE PurgerOK(q)'
    BY <1>1, <1>5, <2>1, <2>6, <2>7, PurgerStays
  <2>9. EventOK(e)'
    <3>1. \A m \in Media : Home[m] = e /\ row'[m] = "row" => m \in captured'[e] \cup missed'
      BY <1>2, <1>3, <2>4 DEF PurgerOK
    <3>2. \A m \in captured'[e] : Home[m] = e
      BY <1>2, <1>3, <2>4 DEF PurgerOK
    <3> QED
      BY <1>2, <2>1, <2>2, <3>1, <3>2 DEF EventOK
  <2>10. ASSUME NEW f \in Events PROVE EventOK(f)'
    <3>1. CASE f = e
      BY <2>1, <2>9, <3>1
    <3>2. CASE f # e
      BY <1>1, <1>2, <2>2, <2>4, <2>6, <3>2, EventStays
    <3> QED
      BY <3>1, <3>2
  <2>11. ASSUME NEW m \in Media PROVE MediumOK(m)'
    <3>1. Home[m] \in Events
      BY HomeAssumption
    <3>2. CASE Home[m] # e
      BY <1>1, <1>2, <2>2, <2>4, <2>6, <3>1, <3>2, MediumStays
    <3>3. CASE Home[m] = e
      BY <1>1, <1>2, <1>5, <3>3 DEF PurgeInv, MediumOK
    <3> QED
      BY <3>2, <3>3
  <2> QED
    BY <2>5, <2>8, <2>10, <2>11 DEF FilesOK, PurgeInv
<1> QED
  BY <1>2, <1>4, <1>5

LEMMA SoftDeleteStep ==
  ASSUME IInv, NEW p \in Purgers, SoftDelete(p)
  PROVE  FilesOK'
<1>1. TypeOK /\ PurgeInv /\ PurgerTypes
  BY TypeParts DEF IInv
<1>2. /\ pc[p] = "close" /\ closed' = closed \cup {at[p]} /\ Goto(p, "rows")
      /\ UNCHANGED <<files, record, paths, missed, late>>
  BY DEF SoftDelete, Closes
<1>3. /\ pc' \in [Purgers -> Labels] /\ at' = at /\ pc'[p] = "rows"
      /\ \A q \in Purgers \ {p} : pc'[q] = pc[q]
  BY <1>1, <1>2, GotoEffect DEF Labels
<1>4. PurgerOK(p)'
  BY <1>1, <1>2, <1>3 DEF PurgeInv, PurgerOK, record
<1> QED
  BY <1>1, <1>2, <1>3, <1>4, OnePurger DEF PurgerTypes

LEMMA DeleteRowsStep ==
  ASSUME IInv, NEW p \in Purgers, DeleteRows(p)
  PROVE  FilesOK'
<1> DEFINE e == at[p]
<1>1. TypeOK /\ PurgeInv /\ PurgerTypes /\ FileTypes /\ RecordTypes
  BY TypeParts DEF IInv
<1>2. /\ pc[p] = "rows" /\ Goto(p, "files")
      /\ row' = [m \in Media |-> IF m \in Rows(e) THEN "deleted" ELSE row[m]]
      /\ UNCHANGED <<closed, object, progress, captured, gone, paths, missed, late>>
  BY DEF DeleteRows, dateVars, record, past
<1>3. /\ pc' \in [Purgers -> Labels] /\ at' = at /\ pc'[p] = "files"
      /\ \A q \in Purgers \ {p} : pc'[q] = pc[q]
  BY <1>1, <1>2, GotoEffect DEF Labels
<1>4. e \in Events /\ e \in closed /\ PurgerOK(p)
  BY <1>1, <1>2 DEF PurgeInv, PurgerOK
<1>5. PurgerTypes' /\ FileTypes' /\ RecordTypes'
  BY <1>1, <1>2, <1>3 DEF PurgerTypes, FileTypes, RecordTypes
<1>6. Frame
  BY <1>2 DEF Frame
<1>7. ASSUME NEW q \in Purgers PROVE PurgerOK(q)'
  <2>1. CASE q = p
    BY <1>2, <1>3, <1>4, <2>1 DEF PurgerOK
  <2>2. CASE q # p
    BY <1>1, <1>2, <1>3, <1>6, <2>2, PurgerStays
  <2> QED
    BY <2>1, <2>2
<1>8. \A f \in Events : EventOK(f)'
  BY <1>1, <1>2, <1>6, EventStays
<1>9. ASSUME NEW m \in Media PROVE MediumOK(m)'
  <2>1. CASE m \in Rows(e)
    <3>1. Home[m] = e /\ row[m] = "row"
      BY <2>1 DEF Rows
    <3>2. EventOK(e)
      BY <1>1, <1>4 DEF PurgeInv
    <3>3. e \in gone \/ progress[e] # "none"
      BY <1>2, <1>4 DEF PurgerOK
    <3>4. ASSUME object[m] = "stored"
          PROVE  m \in missed \cup late \/ (m \in captured[e] /\ progress[e] = "captured")
      <4>1. progress[e] \in {"none", "captured", "finished"}
        BY <1>1, <1>4 DEF RecordTypes
      <4> QED
        BY <3>1, <3>2, <3>3, <3>4, <4>1 DEF EventOK
    <3> QED
      BY <1>2, <1>4, <3>1, <3>4 DEF MediumOK
  <2>2. CASE m \notin Rows(e)
    BY <1>1, <1>2, <1>6, <2>2, MediumStays
  <2> QED
    BY <2>1, <2>2
<1> QED
  BY <1>5, <1>7, <1>8, <1>9 DEF FilesOK, PurgeInv

LEMMA RemoveFileStep ==
  ASSUME IInv, NEW p \in Purgers, NEW m \in Media, RemoveFile(p, m)
  PROVE  FilesOK'
<1>1. TypeOK /\ PurgeInv /\ PurgerTypes /\ FileTypes /\ RecordTypes
  BY TypeParts DEF IInv
<1>2. /\ pc[p] \in {"files", "wipe"} /\ m \in paths[p]
      /\ object' = [object EXCEPT ![m] = IF @ = "stored" THEN "removed" ELSE @]
      /\ paths' = [paths EXCEPT ![p] = @ \ {m}]
      /\ UNCHANGED <<closed, row, progress, captured, gone, missed, late, pc, at>>
  BY DEF RemoveFile, dateVars, record, past
<1>3. /\ PurgerOK(p) /\ Home[m] = at[p] /\ at[p] \in closed
  BY <1>1, <1>2 DEF PurgeInv, PurgerOK
<1>4. /\ object' \in [Media -> {"none", "stored", "removed"}] /\ object'[m] # "stored"
      /\ \A n \in Media \ {m} : object'[n] = object[n]
  BY <1>1, <1>2 DEF FileTypes
<1>5. /\ paths' \in [Purgers -> SUBSET Media] /\ paths'[p] = paths[p] \ {m}
      /\ \A q \in Purgers \ {p} : paths'[q] = paths[q]
  BY <1>1, <1>2 DEF PurgerTypes
<1>6. PurgerTypes' /\ FileTypes' /\ RecordTypes'
  BY <1>1, <1>2, <1>4, <1>5 DEF PurgerTypes, FileTypes, RecordTypes
<1>7. Frame
  BY <1>2, <1>4 DEF Frame
<1>8. ASSUME NEW q \in Purgers PROVE PurgerOK(q)'
  <2>1. CASE q = p
    <3>1. pc[p] = "files" =>
            \/ at[p] \in gone
            \/ /\ progress[at[p]] # "none"
               /\ \A n \in captured[at[p]] : object'[n] = "stored" => n \in paths'[p] \cup late
      <4>1. at[p] \in Events
        BY <1>2, <1>3 DEF PurgerOK
      <4>2. captured[at[p]] \in SUBSET Media
        BY <1>1, <4>1 DEF RecordTypes
      <4> QED
        BY <1>3, <1>4, <1>5, <4>2 DEF PurgerOK
    <3>2. pc[p] = "wipe" =>
            \A n \in Media : Home[n] = at[p] /\ object'[n] = "stored" => n \in paths'[p] \cup late
      BY <1>3, <1>4, <1>5 DEF PurgerOK
    <3> QED
      BY <1>2, <1>3, <1>5, <2>1, <3>1, <3>2 DEF PurgerOK
  <2>2. CASE q # p
    BY <1>1, <1>2, <1>5, <1>7, <2>2, PurgerStays
  <2> QED
    BY <2>1, <2>2
<1>9. \A f \in Events : EventOK(f)'
  BY <1>1, <1>2, <1>7, EventStays
<1>10. \A n \in Media : MediumOK(n)'
  BY <1>1, <1>2, <1>3, <1>4, <1>7, MediumStays
<1> QED
  BY <1>6, <1>8, <1>9, <1>10 DEF FilesOK, PurgeInv

LEMMA FinishStep ==
  ASSUME IInv, NEW p \in Purgers, Finish(p)
  PROVE  FilesOK'
<1> DEFINE e == at[p]
<1>1. TypeOK /\ PurgeInv /\ PurgerTypes /\ FileTypes /\ RecordTypes
  BY TypeParts DEF IInv
<1>2. /\ pc[p] = "files" /\ paths[p] = {} /\ Ends(p)
      /\ progress' = IF e \in gone THEN progress ELSE [progress EXCEPT ![e] = "finished"]
      /\ UNCHANGED <<closed, row, object, captured, gone, missed, late>>
  BY DEF Finish, dateVars, files, past
<1>3. /\ PurgerTypes' /\ pc'[p] = "idle"
      /\ \A q \in Purgers \ {p} : pc'[q] = pc[q] /\ at'[q] = at[q] /\ paths'[q] = paths[q]
  BY <1>1, <1>2, EndsEffect
<1>4. e \in Events /\ e \in closed /\ PurgerOK(p) /\ EventOK(e)
  BY <1>1, <1>2 DEF PurgeInv, PurgerOK
<1>5. CASE e \in gone
  BY <1>1, <1>2, <1>3, <1>5, OnePurger DEF files, record, PurgerOK
<1>6. CASE e \notin gone
  <2>1. /\ progress' \in [Events -> {"none", "captured", "finished"}]
        /\ progress'[e] = "finished"
        /\ \A f \in Events \ {e} : progress'[f] = progress[f]
    BY <1>1, <1>2, <1>4, <1>6 DEF RecordTypes
  <2>2. PurgerTypes' /\ FileTypes' /\ RecordTypes'
    BY <1>1, <1>2, <1>3, <2>1 DEF FileTypes, RecordTypes
  <2>3. Frame
    BY <1>2, <2>1 DEF Frame
  <2>4. \A q \in Purgers : PurgerOK(q)'
    BY <1>1, <1>3, <2>3, PurgerStays
  <2>5. progress[e] # "none" /\ \A m \in captured[e] : object[m] = "stored" => m \in late
    BY <1>2, <1>4, <1>6 DEF PurgerOK
  <2>6. ASSUME NEW f \in Events PROVE EventOK(f)'
    <3>1. CASE f = e
      BY <1>2, <1>4, <1>6, <2>1, <2>5, <3>1 DEF EventOK
    <3>2. CASE f # e
      BY <1>1, <1>2, <2>1, <2>3, <3>2, EventStays
    <3> QED
      BY <3>1, <3>2
  <2>7. ASSUME NEW m \in Media PROVE MediumOK(m)'
    <3>1. Home[m] \in Events
      BY HomeAssumption
    <3>2. CASE Home[m] # e
      BY <1>1, <1>2, <2>1, <2>3, <3>1, <3>2, MediumStays
    <3>3. CASE Home[m] = e
      BY <1>1, <1>2, <1>4, <2>5, <3>3 DEF PurgeInv, MediumOK
    <3> QED
      BY <3>2, <3>3
  <2> QED
    BY <2>2, <2>4, <2>6, <2>7 DEF FilesOK, PurgeInv
<1> QED
  BY <1>5, <1>6

LEMMA ListFilesStep ==
  ASSUME IInv, NEW p \in Purgers, NEW e \in Events, ListFiles(p, e)
  PROVE  FilesOK'
<1>1. TypeOK /\ PurgeInv /\ PurgerTypes
  BY TypeParts DEF IInv
<1>2. Stored(e) \in SUBSET Media
  BY DEF Stored
<1>3. /\ PurgerTypes' /\ pc'[p] = "wipe" /\ at'[p] = e /\ paths'[p] = Stored(e)
      /\ \A q \in Purgers \ {p} : pc'[q] = pc[q] /\ at'[q] = at[q] /\ paths'[q] = paths[q]
  BY <1>1, <1>2 DEF ListFiles, PurgerTypes, Labels
<1>4. /\ e \in closed
      /\ UNCHANGED <<closed, row, object, progress, captured, gone, missed, late>>
  BY DEF ListFiles, dateVars, files, record, past
<1>5. PurgerOK(p)'
  BY <1>3, <1>4 DEF PurgerOK, Stored
<1> QED
  BY <1>1, <1>3, <1>4, <1>5, OnePurger DEF files, record

LEMMA EraseStep ==
  ASSUME IInv, NEW p \in Purgers, Erase(p)
  PROVE  FilesOK'
<1> DEFINE e == at[p]
<1>1. TypeOK /\ PurgeInv /\ PurgerTypes /\ FileTypes /\ RecordTypes
  BY TypeParts DEF IInv
<1>2. /\ pc[p] = "wipe" /\ paths[p] = {} /\ Ends(p)
      /\ UNCHANGED <<closed, object, missed, late>>
      /\ \/ UNCHANGED <<row, record>>
         \/ /\ gone' = gone \cup {e}
            /\ row' = [m \in Media |-> IF m \in Rows(e) THEN "deleted" ELSE row[m]]
            /\ progress' = [progress EXCEPT ![e] = "none"]
            /\ captured' = [captured EXCEPT ![e] = {}]
  BY DEF Erase, dateVars, past
<1>3. /\ PurgerTypes' /\ pc'[p] = "idle"
      /\ \A q \in Purgers \ {p} : pc'[q] = pc[q] /\ at'[q] = at[q] /\ paths'[q] = paths[q]
  BY <1>1, <1>2, EndsEffect
<1>4. e \in Events /\ e \in closed /\ PurgerOK(p)
  BY <1>1, <1>2 DEF PurgeInv, PurgerOK
<1>5. CASE UNCHANGED <<row, record>>
  BY <1>1, <1>2, <1>3, <1>5, OnePurger DEF files, record, PurgerOK
<1>6. CASE /\ gone' = gone \cup {e}
           /\ row' = [m \in Media |-> IF m \in Rows(e) THEN "deleted" ELSE row[m]]
           /\ progress' = [progress EXCEPT ![e] = "none"]
           /\ captured' = [captured EXCEPT ![e] = {}]
  <2>1. /\ progress' \in [Events -> {"none", "captured", "finished"}]
        /\ progress'[e] = "none"
        /\ \A f \in Events \ {e} : progress'[f] = progress[f]
    BY <1>1, <1>4, <1>6 DEF RecordTypes
  <2>2. /\ captured' \in [Events -> SUBSET Media] /\ captured'[e] = {}
        /\ \A f \in Events \ {e} : captured'[f] = captured[f]
    BY <1>1, <1>4, <1>6 DEF RecordTypes
  <2>3. PurgerTypes' /\ FileTypes' /\ RecordTypes'
    BY <1>1, <1>2, <1>3, <1>4, <1>6, <2>1, <2>2 DEF FileTypes, RecordTypes
  <2>4. Frame
    BY <1>2, <1>6, <2>1, <2>2 DEF Frame
  <2>5. \A q \in Purgers : PurgerOK(q)'
    BY <1>1, <1>3, <2>4, PurgerStays
  <2>6. \A m \in Media : Home[m] = e /\ object[m] = "stored" => m \in late
    BY <1>2, <1>4 DEF PurgerOK
  <2>7. ASSUME NEW f \in Events PROVE EventOK(f)'
    <3>1. CASE f = e
      BY <1>2, <2>1, <2>2, <2>6, <3>1 DEF EventOK
    <3>2. CASE f # e
      BY <1>1, <1>6, <2>1, <2>2, <2>4, <3>2, EventStays
    <3> QED
      BY <3>1, <3>2
  <2>8. ASSUME NEW m \in Media PROVE MediumOK(m)'
    <3>1. Home[m] \in Events
      BY HomeAssumption
    <3>2. CASE Home[m] # e
      <4>1. row'[m] = row[m]
        BY <1>6, <3>2 DEF Rows
      <4> QED
        BY <1>1, <1>2, <2>1, <2>2, <2>4, <3>1, <3>2, <4>1, MediumStays
    <3>3. CASE Home[m] = e
      BY <1>2, <1>4, <2>6, <3>3 DEF MediumOK
    <3> QED
      BY <3>2, <3>3
  <2> QED
    BY <2>3, <2>5, <2>7, <2>8 DEF FilesOK, PurgeInv
<1> QED
  BY <1>2, <1>5, <1>6

-----------------------------------------------------------------------------
(* Guests.                                                                 *)

LEMMA ChecksStep ==
  ASSUME IInv, NEW n \in Media, Checks(n)
  PROVE  FilesOK'
<1>1. TypeOK /\ PurgeInv /\ PurgerTypes /\ FileTypes /\ RecordTypes
  BY TypeParts DEF IInv
<1>2. /\ row' = [row EXCEPT ![n] = "checked"]
      /\ UNCHANGED <<closed, object, progress, captured, gone, missed, late, pc, at, paths>>
  BY DEF Checks, dateVars, record, purger, past
<1>3. /\ row' \in [Media -> {"none", "checked", "row", "deleted"}] /\ row'[n] = "checked"
      /\ \A m \in Media \ {n} : row'[m] = row[m]
  BY <1>1, <1>2 DEF FileTypes
<1>4. PurgerTypes' /\ FileTypes' /\ RecordTypes'
  BY <1>1, <1>2, <1>3 DEF PurgerTypes, FileTypes, RecordTypes
<1>5. Frame
  BY <1>2, <1>3 DEF Frame
<1>6. \A q \in Purgers : PurgerOK(q)'
  BY <1>1, <1>2, <1>5, PurgerStays
<1>7. \A f \in Events : EventOK(f)'
  BY <1>1, <1>2, <1>5, EventStays
<1>8. \A m \in Media : MediumOK(m)'
  BY <1>1, <1>2, <1>3, <1>5, MediumStays
<1> QED
  BY <1>4, <1>6, <1>7, <1>8 DEF FilesOK, PurgeInv

LEMMA InsertsStep ==
  ASSUME IInv, NEW n \in Media, Inserts(n)
  PROVE  FilesOK'
<1>1. TypeOK /\ PurgeInv /\ PurgerTypes /\ FileTypes /\ RecordTypes
  BY TypeParts DEF IInv
<1>2. /\ row' = [row EXCEPT ![n] = "row"]
      /\ missed' = IF \/ progress[Home[n]] # "none"
                      \/ \E p \in Purgers : at[p] = Home[n] /\ pc[p] \notin {"idle", "look"}
                   THEN missed \cup {n} ELSE missed
      /\ UNCHANGED <<closed, object, progress, captured, gone, late, pc, at, paths>>
  BY DEF Inserts, dateVars, record, purger
<1>3. /\ row' \in [Media -> {"none", "checked", "row", "deleted"}] /\ row'[n] = "row"
      /\ \A m \in Media \ {n} : row'[m] = row[m]
  BY <1>1, <1>2 DEF FileTypes
<1>4. missed \subseteq missed' /\ missed' \in SUBSET Media
  BY <1>1, <1>2 DEF FileTypes
<1>5. PurgerTypes' /\ FileTypes' /\ RecordTypes'
  BY <1>1, <1>2, <1>3, <1>4 DEF PurgerTypes, FileTypes, RecordTypes
<1>6. Frame
  BY <1>2, <1>3, <1>4 DEF Frame
<1>7. \A q \in Purgers : PurgerOK(q)'
  BY <1>1, <1>2, <1>6, PurgerStays
<1>8. \A f \in Events : EventOK(f)'
  BY <1>1, <1>2, <1>6, EventStays
<1>9. \A m \in Media : MediumOK(m)'
  BY <1>1, <1>2, <1>3, <1>6, MediumStays
<1> QED
  BY <1>5, <1>7, <1>8, <1>9 DEF FilesOK, PurgeInv

LEMMA LandsStep ==
  ASSUME IInv, NEW n \in Media, Lands(n)
  PROVE  FilesOK'
<1>1. TypeOK /\ PurgeInv /\ PurgerTypes /\ FileTypes /\ RecordTypes
  BY TypeParts DEF IInv
<1>2. /\ object' = [object EXCEPT ![n] = "stored"] /\ row[n] \in {"row", "deleted"}
      /\ late' = IF Home[n] \in closed THEN late \cup {n} ELSE late
      /\ UNCHANGED <<closed, row, progress, captured, gone, missed, pc, at, paths>>
  BY DEF Lands, dateVars, record, purger
<1>3. /\ object' \in [Media -> {"none", "stored", "removed"}] /\ object'[n] = "stored"
      /\ \A m \in Media \ {n} : object'[m] = object[m]
  BY <1>1, <1>2 DEF FileTypes
<1>4. /\ late \subseteq late' /\ late' \in SUBSET Media
      /\ Home[n] \in closed => n \in late'
  BY <1>1, <1>2 DEF FileTypes
<1>5. PurgerTypes' /\ FileTypes' /\ RecordTypes'
  BY <1>1, <1>2, <1>3, <1>4 DEF PurgerTypes, FileTypes, RecordTypes
<1>6. Frame
  BY <1>2, <1>3, <1>4 DEF Frame
<1>7. \A q \in Purgers : PurgerOK(q)'
  BY <1>1, <1>2, <1>6, PurgerStays
<1>8. \A f \in Events : EventOK(f)'
  BY <1>1, <1>2, <1>6, EventStays
<1>9. ASSUME NEW m \in Media PROVE MediumOK(m)'
  <2>1. CASE m # n \/ Home[m] \in closed
    BY <1>1, <1>2, <1>3, <1>6, <2>1, MediumStays
  <2>2. CASE m = n /\ Home[m] \notin closed
    <3>1. row[n] # "deleted"
      BY <1>1, <2>2 DEF PurgeInv, MediumOK
    <3> QED
      BY <1>2, <1>3, <2>2, <3>1 DEF MediumOK
  <2> QED
    BY <2>1, <2>2
<1> QED
  BY <1>5, <1>7, <1>8, <1>9 DEF FilesOK, PurgeInv

-----------------------------------------------------------------------------
(* Every step keeps what is known of snapshots, rows and files.            *)

LEMMA QuietOK ==
  ASSUME TypeOK, PurgeInv, UNCHANGED <<files, record, missed, late>>, closed \subseteq closed',
         PurgerTypes',
         \A q \in Purgers : \/ pc'[q] = "idle"
                            \/ pc'[q] = pc[q] /\ at'[q] = at[q] /\ paths'[q] = paths[q]
  PROVE  FilesOK'
<1>1. FileTypes' /\ RecordTypes'
  BY TypeParts DEF FileTypes, RecordTypes, files, record
<1>2. PurgeInv'
  BY QuietStep
<1> QED
  BY <1>1, <1>2 DEF FilesOK

LEMMA PurgeStepOK ==
  ASSUME IInv, NEW p \in Purgers, PurgeStep(p)
  PROVE  FilesOK'
BY LookStep, CaptureStep, SoftDeleteStep, DeleteRowsStep, FinishStep, RemoveFileStep
   DEF PurgeStep

LEMMA StopsOK ==
  ASSUME IInv, Restart \/ \E p \in Purgers : PurgeFails(p)
  PROVE  FilesOK'
<1>1. TypeOK /\ PurgeInv /\ PurgerTypes
  BY TypeParts DEF IInv
<1>2. CASE Restart
  <2>1. /\ PurgerTypes' /\ \A q \in Purgers : pc'[q] = "idle"
        /\ UNCHANGED <<files, record, missed, late, closed>>
    BY <1>2 DEF Restart, PurgerTypes, Labels, dateVars, past
  <2> QED
    BY <1>1, <2>1, QuietOK
<1>3. ASSUME NEW p \in Purgers, PurgeFails(p) PROVE FilesOK'
  <2>1. Ends(p) /\ UNCHANGED <<files, record, missed, late, closed>>
    BY <1>3 DEF PurgeFails, dateVars, past
  <2>2. /\ PurgerTypes' /\ pc'[p] = "idle"
        /\ \A q \in Purgers \ {p} : pc'[q] = pc[q] /\ at'[q] = at[q] /\ paths'[q] = paths[q]
    BY <1>1, <2>1, EndsEffect
  <2> QED
    BY <1>1, <2>1, <2>2, QuietOK
<1> QED
  BY <1>2, <1>3

LEMMA CronFilesOK ==
  ASSUME IInv, CronStep \/ \E x \in list : MailFails(x)
  PROVE  FilesOK'
<1>1. /\ TypeOK /\ PurgeInv /\ PurgerTypes /\ CronTypes /\ Cron \in Purgers
      /\ cron # "purge" => pc[Cron] = "idle"
  BY TypeParts DEF IInv, CronInv, Purgers
<1>2. CASE PurgeStep(Cron)
  BY <1>1, <1>2, PurgeStepOK
<1>3. CASE WarnStarts \/ PurgeStarts \/ PurgeEnds \/ \E x \in list : MailFails(x)
  <2>1. UNCHANGED <<files, record, missed, late, closed, pc, at, paths>>
    BY <1>3 DEF WarnStarts, PurgeStarts, PurgeEnds, MailFails, dateVars, purger, past
  <2> QED
    BY <1>1, <2>1, QuietOK DEF PurgerTypes
<1>4. ASSUME NEW x \in list, Mail(x) PROVE FilesOK'
  <2>1. /\ UNCHANGED <<files, record, missed, late, closed, pc, paths>>
        /\ at' = [at EXCEPT ![Cron] = x[1]] /\ pc[Cron] = "idle"
    BY <1>1, <1>4 DEF Mail, dateVars
  <2>2. x[1] \in Events
    BY <1>1, <1>4 DEF CronTypes
  <2>3. PurgerTypes' /\ \A q \in Purgers \ {Cron} : at'[q] = at[q]
    BY <1>1, <2>1, <2>2 DEF PurgerTypes
  <2> QED
    BY <1>1, <2>1, <2>3, QuietOK
<1>5. CASE Mark
  <2>1. /\ UNCHANGED <<files, record, missed, late, closed, pc, paths>>
        /\ at' = [at EXCEPT ![Cron] = NoEvent] /\ pc[Cron] = "idle"
    BY <1>1, <1>5 DEF Mark, MarksWarned, dateVars, past
  <2>2. PurgerTypes' /\ \A q \in Purgers \ {Cron} : at'[q] = at[q]
    BY <1>1, <2>1 DEF PurgerTypes
  <2> QED
    BY <1>1, <2>1, <2>2, QuietOK
<1>6. ASSUME NEW x \in list, PurgeNext(x) PROVE FilesOK'
  <2>1. /\ UNCHANGED <<files, record, missed, late, closed, paths>>
        /\ at' = [at EXCEPT ![Cron] = x[1]] /\ pc' = [pc EXCEPT ![Cron] = "look"]
    BY <1>6 DEF PurgeNext, dateVars, past
  <2>2. x[1] \in Events
    BY <1>1, <1>6 DEF CronTypes
  <2>3. /\ PurgerTypes' /\ pc'[Cron] = "look" /\ at'[Cron] = x[1]
        /\ \A q \in Purgers \ {Cron} : pc'[q] = pc[q] /\ at'[q] = at[q] /\ paths'[q] = paths[q]
    BY <1>1, <2>1, <2>2 DEF PurgerTypes, Labels
  <2>4. PurgerOK(Cron)'
    BY <2>2, <2>3 DEF PurgerOK
  <2> QED
    BY <1>1, <2>1, <2>3, <2>4, OnePurger
<1> QED
  BY <1>2, <1>3, <1>4, <1>5, <1>6 DEF CronStep

LEMMA FilesStep ==
  ASSUME IInv, [Next]_vars
  PROVE  FilesOK'
<1>1. TypeOK /\ PurgeInv /\ PurgerTypes /\ DatesTypeOK
  BY TypeParts DEF IInv
<1>2. CASE Day \/ UNCHANGED vars
  <2>1. UNCHANGED <<files, record, missed, late, closed, pc, at, paths>>
    BY <1>2 DEF Day, Tick, vars, dateVars, files, record, purger, past
  <2> QED
    BY <1>1, <2>1, QuietOK DEF PurgerTypes
<1>3. ASSUME NEW e \in Events, DatesMove(e) PROVE FilesOK'
  <2>1. UNCHANGED <<files, record, missed, late, pc, at, paths>> /\ DateStep(e)
    BY <1>3 DEF DatesMove, purger
  <2>2. UNCHANGED closed
    BY <1>1, <2>1, DateStepEffect
  <2> QED
    BY <1>1, <2>1, <2>2, QuietOK DEF PurgerTypes
<1>4. ASSUME NEW m \in Media, Checks(m) \/ Inserts(m) \/ Lands(m)
      PROVE  FilesOK'
  BY <1>4, ChecksStep, InsertsStep, LandsStep
<1>5. ASSUME NEW p \in Callers,
             \/ PurgeStep(p) \/ Erase(p)
             \/ \E e \in Events : Deletes(p, e) \/ ListFiles(p, e)
      PROVE  FilesOK'
  BY <1>5, PurgeStepOK, EraseStep, DeletesStep, ListFilesStep DEF Purgers
<1> QED
  BY <1>2, <1>3, <1>4, <1>5, CronFilesOK, StopsOK DEF Next

-----------------------------------------------------------------------------
(* The cron.                                                               *)

CronOK == CronTypes /\ CronInv

\* Steps that leave alone what the cron has read, and the dates, and at most go on
\* with its purge.
LEMMA CronStays ==
  ASSUME IInv, UNCHANGED <<cron, list, told, moved, dated, storage, warned, extended>>,
         now' \in Nat, now <= now', closed \subseteq closed',
         early' \subseteq moved, early' \subseteq closed', early' \subseteq Events,
         \/ pc'[Cron] = pc[Cron] /\ at'[Cron] = at[Cron]
         \/ /\ cron = "purge"
            /\ \/ pc'[Cron] \notin {"look", "insert", "close"}
               \/ /\ at'[Cron] = at[Cron]
                  /\ pc[Cron] \in {"look", "insert", "close"}
  PROVE  CronOK'
<1>1. CronInv /\ CronTypes /\ DatesTypeOK
  BY TypeParts DEF IInv
<1>2. ASSUME NEW e, OverOrMoved(e) PROVE OverOrMoved(e)'
  <2>1. CASE Expired(e)
    <3>1. e \in dated /\ e \in Events /\ storage[e] <= now
      BY <1>1, <2>1 DEF Expired, DatesTypeOK
    <3>2. storage[e] \in Nat /\ now \in Nat
      BY <1>1, <3>1, PackageDays
    <3> QED
      BY <3>1, <3>2 DEF OverOrMoved, Expired
  <2>2. CASE e \in moved \/ e \in closed
    BY <2>2 DEF OverOrMoved
  <2> QED
    BY <1>2, <2>1, <2>2 DEF OverOrMoved
<1>3. CronTypes'
  BY <1>1 DEF CronTypes
<1>4. WarnedOfTheDate'
  BY <1>1 DEF CronInv, WarnedOfTheDate
<1>5. (cron # "purge" => pc[Cron] = "idle")'
  BY <1>1 DEF CronInv
<1>6. (cron \in {"warn", "mark"} =>
        \A x \in list : /\ x[1] \notin warned
                        /\ storage[x[1]] = x[2] \/ x[1] \in moved
                        /\ \A y \in list : y[1] = x[1] => y = x)'
  BY <1>1 DEF CronInv
<1>7. (cron = "mark" => /\ at[Cron] \in Events /\ at[Cron] \notin warned
                        /\ \A x \in list : x[1] # at[Cron]
                        /\ storage[at[Cron]] = told[at[Cron]] \/ at[Cron] \in moved)'
  BY <1>1 DEF CronInv
<1>8. (cron = "purge" => \A x \in list : OverOrMoved(x[1]))'
  BY <1>1, <1>2 DEF CronInv
<1>9. (pc[Cron] \in {"look", "insert", "close"} => OverOrMoved(at[Cron]))'
  BY <1>1, <1>2 DEF CronInv
<1> QED
  BY <1>3, <1>4, <1>5, <1>6, <1>7, <1>8, <1>9 DEF CronOK, CronInv

\* The steps of everybody else.
LEMMA OthersCron ==
  ASSUME IInv,
         \/ \E m \in Media : Checks(m) \/ Inserts(m) \/ Lands(m)
         \/ \E p \in Callers :
              \/ PurgeStep(p) \/ Erase(p) \/ PurgeFails(p)
              \/ \E e \in Events : Deletes(p, e) \/ ListFiles(p, e)
         \/ Day \/ UNCHANGED vars
  PROVE  CronOK'
<1>1. CronInv /\ CronTypes /\ DatesTypeOK /\ PurgerTypes /\ RecordTypes /\ PurgeInv
  BY TypeParts DEF IInv
<1>2. now \in Nat /\ now \in 0..Horizon
  BY <1>1 DEF DatesTypeOK
<1>3. early \subseteq moved /\ early \subseteq closed /\ early \subseteq Events
  BY <1>1 DEF CronInv, CronTypes
<1>4. CASE Day
  <2>1. /\ UNCHANGED <<cron, list, told, moved, dated, storage, warned, extended,
                       closed, early, pc, at>>
        /\ now' = now + 1
    BY <1>4 DEF Day, Tick, dates, terms, run, past, purger
  <2> QED
    BY <1>2, <1>3, <2>1, CronStays
<1>5. CASE (\E m \in Media : Checks(m) \/ Inserts(m) \/ Lands(m)) \/ UNCHANGED vars
  <2>1. UNCHANGED <<cron, list, told, moved, dated, storage, warned, extended, now,
                    closed, early, pc, at>>
    BY <1>5 DEF Checks, Inserts, Lands, dateVars, run, past, purger, vars
  <2> QED
    BY <1>2, <1>3, <2>1, CronStays
<1>6. ASSUME NEW p \in Callers,
             \/ PurgeStep(p) \/ Erase(p) \/ PurgeFails(p)
             \/ \E e \in Events : Deletes(p, e) \/ ListFiles(p, e)
      PROVE  CronOK'
  <2>1. p # Cron /\ p \in Purgers /\ Cron \in Purgers
    BY <1>6, CronAssumption DEF Purgers
  <2>2. pc'[Cron] = pc[Cron] /\ at'[Cron] = at[Cron]
    <3>1. CASE \E e \in Events : Deletes(p, e) \/ ListFiles(p, e)
      BY <1>1, <2>1, <3>1 DEF Deletes, ListFiles, PurgerTypes
    <3>2. CASE \/ Ends(p)
               \/ \E l \in {"insert", "close", "rows", "files"} : Goto(p, l)
               \/ UNCHANGED <<pc, at>>
      BY <1>1, <2>1, <3>2 DEF Ends, Goto, PurgerTypes
    <3> QED
      BY <1>6, <3>1, <3>2 DEF PurgeStep, Look, Capture, Resumes, SoftDelete, DeleteRows,
         RemoveFile, Finish, Erase, PurgeFails
  <2>3. UNCHANGED <<cron, list, told, moved, dated, storage, warned, extended, now, early>>
        /\ closed \subseteq closed'
    BY <1>6, <2>1 DEF PurgeStep, Look, Capture, SoftDelete, Closes, DeleteRows,
       RemoveFile, Finish, Erase, PurgeFails, Deletes, ListFiles, dateVars, dates, terms,
       run, past
  <2> QED
    BY <1>2, <1>3, <2>2, <2>3, CronStays
<1> QED
  BY <1>4, <1>5, <1>6

\* The cron's own purge.
LEMMA CronPurgeStep ==
  ASSUME IInv, PurgeStep(Cron)
  PROVE  CronOK'
<1>1. /\ CronInv /\ CronTypes /\ DatesTypeOK /\ PurgerTypes /\ RecordTypes
      /\ Cron \in Purgers
  BY TypeParts DEF IInv, Purgers
<1>2. now \in Nat
  BY <1>1 DEF DatesTypeOK
<1>3. pc[Cron] # "idle" /\ cron = "purge"
  BY <1>1 DEF PurgeStep, Look, Capture, SoftDelete, DeleteRows, RemoveFile, Finish, CronInv
<1>4. UNCHANGED <<cron, list, told, moved, dated, storage, warned, extended, now>>
  BY DEF PurgeStep, Look, Capture, SoftDelete, Closes, DeleteRows, RemoveFile, Finish,
     dateVars, dates, terms, run, past
<1>5. early \subseteq moved /\ early \subseteq closed /\ early \subseteq Events
  BY <1>1 DEF CronInv, CronTypes
<1>6. CASE SoftDelete(Cron)
  <2>1. /\ pc[Cron] = "close" /\ closed' = closed \cup {at[Cron]} /\ Goto(Cron, "rows")
        /\ early' = IF at[Cron] \notin closed /\ ~Expired(at[Cron])
                    THEN early \cup {at[Cron]} ELSE early
    BY <1>6 DEF SoftDelete, Closes
  <2>2. OverOrMoved(at[Cron])
    BY <1>1, <2>1 DEF CronInv
  <2>3. early' \subseteq moved /\ early' \subseteq closed'
    BY <1>5, <2>1, <2>2 DEF OverOrMoved
  <2>4. early' \subseteq Events
    BY <1>1, <2>3 DEF CronTypes
  <2>5. pc'[Cron] = "rows"
    BY <1>1, <2>1 DEF Goto, PurgerTypes
  <2> QED
    BY <1>2, <1>3, <1>4, <2>1, <2>3, <2>4, <2>5, CronStays
<1>7. CASE Look(Cron) \/ Capture(Cron)
  <2>1. pc[Cron] \in {"look", "insert"} /\ UNCHANGED <<early, closed>>
    BY <1>7 DEF Look, Capture, dateVars, past
  <2>2. Ends(Cron) \/ Goto(Cron, "insert") \/ Goto(Cron, "close")
    BY <1>7 DEF Look, Capture, Resumes
  <2>3. pc'[Cron] = "idle" \/ at'[Cron] = at[Cron]
    BY <1>1, <2>2 DEF Ends, Goto, PurgerTypes
  <2> QED
    BY <1>2, <1>3, <1>4, <1>5, <2>1, <2>3, CronStays
<1>8. CASE DeleteRows(Cron) \/ Finish(Cron) \/ \E m \in Media : RemoveFile(Cron, m)
  <2>1. UNCHANGED <<early, closed>>
    BY <1>8 DEF DeleteRows, Finish, RemoveFile, dateVars, past
  <2>2. pc'[Cron] \notin {"look", "insert", "close"}
    BY <1>1, <1>8 DEF DeleteRows, Finish, RemoveFile, Ends, Goto, PurgerTypes
  <2> QED
    BY <1>2, <1>3, <1>4, <1>5, <2>1, <2>2, CronStays
<1> QED
  BY <1>6, <1>7, <1>8 DEF PurgeStep

\* A run that breaks off.
LEMMA CronStops ==
  ASSUME IInv, Restart \/ PurgeFails(Cron)
  PROVE  CronOK'
<1>1. CronInv /\ CronTypes /\ PurgerTypes /\ Cron \in Purgers
  BY TypeParts DEF IInv, Purgers
<1>2. /\ cron' = "idle" /\ list' = {} /\ pc'[Cron] = "idle"
      /\ UNCHANGED <<told, moved, early, closed, storage, warned, extended>>
  BY <1>1 DEF Restart, PurgeFails, Ends, PurgerTypes, dateVars, past
<1>3. CronTypes'
  BY <1>1, <1>2 DEF CronTypes
<1>4. WarnedOfTheDate'
  BY <1>1, <1>2 DEF CronInv, WarnedOfTheDate
<1>5. early' \subseteq moved' /\ early' \subseteq closed'
  BY <1>1, <1>2 DEF CronInv
<1> QED
  BY <1>2, <1>3, <1>4, <1>5 DEF CronOK, CronInv

LEMMA CronReads ==
  ASSUME IInv, WarnStarts \/ PurgeStarts \/ PurgeEnds
  PROVE  CronOK'
<1>1. CronInv /\ CronTypes /\ DatesTypeOK
  BY TypeParts DEF IInv
<1>2. /\ UNCHANGED <<now, closed, dated, storage, warned, extended, told, moved, early,
                     pc, at>>
      /\ pc[Cron] = "idle"
  BY <1>1 DEF WarnStarts, PurgeStarts, PurgeEnds, dateVars, purger, past, CronInv
<1>3. \A f \in dated : f \in Events /\ storage[f] \in Nat
  BY <1>1 DEF DatesTypeOK
<1>4. WarnedOfTheDate' /\ early' \subseteq moved' /\ early' \subseteq closed'
  BY <1>1, <1>2 DEF CronInv, WarnedOfTheDate
<1>5. CASE WarnStarts
  <2>1. /\ cron' = "warn"
        /\ list' = {<<e, storage[e]>> : e \in {f \in dated \ (closed \cup warned) :
                                            storage[f] > now /\ storage[f] - Lead <= now}}
    BY <1>5 DEF WarnStarts
  <2>2. ASSUME NEW x \in list'
        PROVE  /\ x \in Events \X Nat /\ x[1] \notin warned /\ x = <<x[1], storage[x[1]]>>
    BY <1>3, <2>1
  <2>3. CronTypes'
    BY <1>1, <1>2, <2>1, <2>2 DEF CronTypes
  <2>4. \A x \in list' : /\ x[1] \notin warned /\ storage[x[1]] = x[2]
                         /\ \A y \in list' : y[1] = x[1] => y = x
    <3> SUFFICES ASSUME NEW x \in list'
                 PROVE  /\ x[1] \notin warned /\ storage[x[1]] = x[2]
                        /\ \A y \in list' : y[1] = x[1] => y = x
      OBVIOUS
    <3>1. x = <<x[1], storage[x[1]]>> /\ x[1] \notin warned
      BY <2>2
    <3>2. ASSUME NEW y \in list', y[1] = x[1] PROVE y = x
      BY <2>2, <3>1, <3>2
    <3> QED
      BY <3>1, <3>2
  <2> QED
    BY <1>2, <1>4, <2>1, <2>3, <2>4 DEF CronOK, CronInv
<1>6. CASE PurgeStarts
  <2>1. /\ cron' = "purge"
        /\ list' = {<<e, storage[e]>> : e \in {f \in dated \ closed : Expired(f)}}
    BY <1>6 DEF PurgeStarts
  <2>2. ASSUME NEW x \in list' PROVE x \in Events \X Nat /\ Expired(x[1])
    BY <1>3, <2>1
  <2>3. CronTypes'
    BY <1>1, <1>2, <2>1, <2>2 DEF CronTypes
  <2>4. \A x \in list' : OverOrMoved(x[1])'
    BY <1>2, <2>2 DEF OverOrMoved, Expired
  <2> QED
    BY <1>2, <1>4, <2>1, <2>3, <2>4 DEF CronOK, CronInv
<1>7. CASE PurgeEnds
  <2>1. cron' = "idle" /\ list' = list
    BY <1>7 DEF PurgeEnds
  <2>2. CronTypes'
    BY <1>1, <1>2, <2>1 DEF CronTypes
  <2> QED
    BY <1>2, <1>4, <2>1, <2>2 DEF CronOK, CronInv
<1> QED
  BY <1>5, <1>6, <1>7

LEMMA MailStep ==
  ASSUME IInv, NEW x \in list, Mail(x)
  PROVE  CronOK'
<1>1. /\ CronInv /\ CronTypes /\ DatesTypeOK /\ PurgerTypes /\ Cron \in Purgers
  BY TypeParts DEF IInv, Purgers
<1>2. x[1] \in Events /\ x[2] \in Nat
  BY <1>1 DEF CronTypes
<1>3. /\ cron = "warn" /\ cron' = "mark" /\ list' = list \ {x}
      /\ at' = [at EXCEPT ![Cron] = x[1]] /\ told' = [told EXCEPT ![x[1]] = x[2]]
      /\ UNCHANGED <<now, closed, dated, storage, warned, extended, moved, early, pc>>
  BY DEF Mail, dateVars
<1>4. at'[Cron] = x[1] /\ pc'[Cron] = "idle"
  BY <1>1, <1>3 DEF PurgerTypes, CronInv
<1>5. /\ told' \in [Events -> Nat] /\ told'[x[1]] = x[2]
      /\ \A e \in Events \ {x[1]} : told'[e] = told[e]
  BY <1>1, <1>2, <1>3 DEF CronTypes
<1>6. CronTypes'
  BY <1>1, <1>3, <1>5 DEF CronTypes
<1>7. \A y \in list : /\ y[1] \notin warned
                      /\ storage[y[1]] = y[2] \/ y[1] \in moved
                      /\ \A z \in list : z[1] = y[1] => z = y
  BY <1>1, <1>3 DEF CronInv
<1>8. WarnedOfTheDate'
  <2>1. ASSUME NEW e \in warned \ moved
        PROVE  \/ storage[e] = told'[e]
               \/ e \in extended /\ storage[e] = told'[e] + Extension
    <3>1. e # x[1] /\ e \in Events
      BY <1>1, <1>7, <2>1 DEF DatesTypeOK
    <3> QED
      BY <1>1, <1>5, <2>1, <3>1 DEF CronInv, WarnedOfTheDate
  <2> QED
    BY <1>3, <2>1 DEF WarnedOfTheDate
<1>9. /\ at'[Cron] \in Events /\ at'[Cron] \notin warned'
      /\ \A y \in list' : y[1] # at'[Cron]
      /\ storage'[at'[Cron]] = told'[at'[Cron]] \/ at'[Cron] \in moved'
  BY <1>2, <1>3, <1>4, <1>5, <1>7
<1>10. \A y \in list' : /\ y[1] \notin warned'
                        /\ storage'[y[1]] = y[2] \/ y[1] \in moved'
                        /\ \A z \in list' : z[1] = y[1] => z = y
  BY <1>3, <1>7
<1>11. early' \subseteq moved' /\ early' \subseteq closed'
  BY <1>1, <1>3 DEF CronInv
<1> QED
  BY <1>3, <1>4, <1>6, <1>8, <1>9, <1>10, <1>11 DEF CronOK, CronInv

LEMMA MailFailsStep ==
  ASSUME IInv, NEW x \in list, MailFails(x)
  PROVE  CronOK'
<1>1. CronInv /\ CronTypes
  BY TypeParts DEF IInv
<1>2. /\ cron = "warn" /\ list' = list \ {x}
      /\ UNCHANGED <<now, closed, dated, storage, warned, extended, told, moved, early,
                     pc, at, cron>>
  BY DEF MailFails, dateVars, purger, past
<1>3. CronTypes' /\ WarnedOfTheDate'
  BY <1>1, <1>2 DEF CronTypes, CronInv, WarnedOfTheDate
<1> QED
  BY <1>1, <1>2, <1>3 DEF CronOK, CronInv

LEMMA MarkStep ==
  ASSUME IInv, Mark
  PROVE  CronOK'
<1>1. /\ CronInv /\ CronTypes /\ DatesTypeOK /\ PurgerTypes /\ Cron \in Purgers
  BY TypeParts DEF IInv, Purgers
<1> DEFINE e == at[Cron]
<1>2. /\ cron = "mark" /\ cron' = "warn"
      /\ at' = [at EXCEPT ![Cron] = NoEvent]
      /\ UNCHANGED <<now, closed, dated, storage, extended, told, moved, early, pc, list>>
      /\ warned' = warned \cup {e} \/ warned' = warned
  BY DEF Mark, MarksWarned, dateVars, terms, past
<1>3. pc[Cron] = "idle" /\ pc' = pc
  BY <1>1, <1>2 DEF CronInv
<1>4. /\ e \in Events /\ e \notin warned
      /\ \A x \in list : x[1] # e
      /\ storage[e] = told[e] \/ e \in moved
  BY <1>1, <1>2 DEF CronInv
<1>5. CronTypes'
  BY <1>1, <1>2 DEF CronTypes
<1>6. WarnedOfTheDate'
  <2>1. ASSUME NEW f \in warned' \ moved
        PROVE  \/ storage[f] = told[f]
               \/ f \in extended /\ storage[f] = told[f] + Extension
    BY <1>1, <1>2, <1>4, <2>1 DEF CronInv, WarnedOfTheDate
  <2> QED
    BY <1>2, <2>1 DEF WarnedOfTheDate
<1>7. \A x \in list' : /\ x[1] \notin warned'
                       /\ storage'[x[1]] = x[2] \/ x[1] \in moved'
                       /\ \A y \in list' : y[1] = x[1] => y = x
  BY <1>1, <1>2, <1>4 DEF CronInv
<1>8. early' \subseteq moved' /\ early' \subseteq closed'
  BY <1>1, <1>2 DEF CronInv
<1> QED
  BY <1>2, <1>3, <1>5, <1>6, <1>7, <1>8 DEF CronOK, CronInv

LEMMA PurgeNextStep ==
  ASSUME IInv, NEW x \in list, PurgeNext(x)
  PROVE  CronOK'
<1>1. /\ CronInv /\ CronTypes /\ DatesTypeOK /\ PurgerTypes /\ Cron \in Purgers
  BY TypeParts DEF IInv, Purgers
<1>2. /\ cron = "purge" /\ cron' = cron /\ list' = list \ {x}
      /\ at' = [at EXCEPT ![Cron] = x[1]]
      /\ UNCHANGED <<now, closed, dated, storage, warned, extended, told, moved, early>>
  BY DEF PurgeNext, dateVars, past
<1>3. x[1] \in Events /\ at'[Cron] = x[1]
  BY <1>1, <1>2 DEF CronTypes, PurgerTypes
<1>4. \A y \in list : OverOrMoved(y[1])'
  BY <1>1, <1>2 DEF CronInv, OverOrMoved, Expired
<1>5. CronTypes' /\ WarnedOfTheDate'
  BY <1>1, <1>2 DEF CronTypes, CronInv, WarnedOfTheDate
<1>6. early' \subseteq moved' /\ early' \subseteq closed'
  BY <1>1, <1>2 DEF CronInv
<1>7. OverOrMoved(at[Cron])' /\ \A y \in list' : OverOrMoved(y[1])'
  <2>1. OverOrMoved(x[1])'
    BY <1>4
  <2>2. (at[Cron])' = x[1]
    BY <1>3
  <2> QED
    BY <1>2, <1>4, <2>1, <2>2 DEF OverOrMoved, Expired
<1> QED
  BY <1>2, <1>5, <1>6, <1>7 DEF CronOK, CronInv

LEMMA DatesMoveStep ==
  ASSUME IInv, NEW e \in Events, DatesMove(e)
  PROVE  CronOK'
<1>1. CronInv /\ CronTypes /\ DatesTypeOK
  BY TypeParts DEF IInv
<1>2. /\ DateStep(e)
      /\ moved' = IF storage'[e] = storage[e] THEN moved
                  ELSE IF Listed(e) THEN moved \cup {e}
                  ELSE IF e \in closed \/ extended' # extended THEN moved ELSE moved \ {e}
      /\ UNCHANGED <<cron, list, told, early, pc, at>>
  BY DEF DatesMove, run, purger
<1>3. /\ UNCHANGED <<now, closed>>
      /\ dated \subseteq dated' /\ warned' \subseteq warned
      /\ \A f \in Events \ {e} : /\ storage'[f] = storage[f]
                                 /\ f \in extended' <=> f \in extended
      /\ \/ extended' = extended /\ (storage'[e] = storage[e] \/ e \notin warned')
         \/ /\ e \notin extended /\ e \in extended' /\ e \notin closed
            /\ storage'[e] = storage[e] + Extension
  BY <1>1, <1>2, DateStepEffect
<1>4. /\ moved' \in SUBSET Events
      /\ \A f \in Events \ {e} : f \in moved' <=> f \in moved
      /\ Listed(e) => storage'[e] = storage[e] \/ e \in moved'
      /\ e \in moved /\ e \notin moved' => e \notin closed /\ ~Listed(e) /\ extended' = extended
      /\ storage'[e] = storage[e] => moved' = moved
  BY <1>1, <1>2 DEF CronTypes
<1> HIDE DEF Listed
<1>5. ASSUME NEW f \in Events, f = e => Listed(e), OverOrMoved(f)
      PROVE  OverOrMoved(f)'
  <2>1. CASE f # e
    BY <1>3, <1>4, <1>5, <2>1 DEF OverOrMoved, Expired
  <2>2. CASE f = e /\ e \in moved'
    BY <2>2 DEF OverOrMoved
  <2>3. CASE f = e /\ e \notin moved'
    <3>1. storage'[e] = storage[e] /\ moved' = moved
      BY <1>4, <1>5, <2>3
    <3> QED
      BY <1>3, <1>5, <2>3, <3>1 DEF OverOrMoved, Expired
  <2> QED
    BY <2>1, <2>2, <2>3
<1>6. (\A x \in list : x[1] = e => Listed(e)) /\ (at[Cron] = e => Listed(e))
  BY DEF Listed
<1>7. \A x \in list : x[1] \in Events
  BY <1>1 DEF CronTypes
<1>8. CronTypes'
  BY <1>1, <1>2, <1>4 DEF CronTypes
<1>9. WarnedOfTheDate'
  <2>1. ASSUME NEW f \in warned', f \notin moved'
        PROVE  \/ storage'[f] = told[f]
               \/ f \in extended' /\ storage'[f] = told[f] + Extension
    <3>1. f \in warned /\ f \in Events
      BY <1>1, <1>3, <2>1 DEF DatesTypeOK
    <3>2. \/ f \in moved
          \/ storage[f] = told[f]
          \/ f \in extended /\ storage[f] = told[f] + Extension
      BY <1>1, <3>1 DEF CronInv, WarnedOfTheDate
    <3>3. CASE f # e
      BY <1>3, <1>4, <2>1, <3>1, <3>2, <3>3
    <3>4. CASE f = e
      <4>1. CASE storage'[e] = storage[e] /\ extended' = extended
        BY <1>4, <2>1, <3>2, <3>4, <4>1
      <4>2. CASE e \notin extended /\ e \in extended' /\ storage'[e] = storage[e] + Extension
        BY <1>4, <2>1, <3>2, <3>4, <4>2
      <4> QED
        BY <1>3, <2>1, <3>4, <4>1, <4>2
    <3> QED
      BY <3>3, <3>4
  <2> QED
    BY <1>2, <2>1 DEF WarnedOfTheDate
<1>10. (cron # "purge" => pc[Cron] = "idle")'
  BY <1>1, <1>2 DEF CronInv
<1>11. (cron \in {"warn", "mark"} =>
         \A x \in list : /\ x[1] \notin warned
                         /\ storage[x[1]] = x[2] \/ x[1] \in moved
                         /\ \A y \in list : y[1] = x[1] => y = x)'
  <2>1. ASSUME cron \in {"warn", "mark"}, NEW x \in list
        PROVE  /\ x[1] \notin warned'
               /\ storage'[x[1]] = x[2] \/ x[1] \in moved'
               /\ \A y \in list : y[1] = x[1] => y = x
    <3>1. /\ x[1] \notin warned
          /\ storage[x[1]] = x[2] \/ x[1] \in moved
          /\ \A y \in list : y[1] = x[1] => y = x
      BY <1>1, <2>1 DEF CronInv
    <3>2. CASE x[1] # e
      BY <1>3, <1>4, <1>7, <3>1, <3>2
    <3>3. CASE x[1] = e
      BY <1>3, <1>4, <1>6, <3>1, <3>3
    <3> QED
      BY <3>2, <3>3
  <2> QED
    BY <1>2, <2>1
<1>12. (cron = "mark" => /\ at[Cron] \in Events /\ at[Cron] \notin warned
                         /\ \A x \in list : x[1] # at[Cron]
                         /\ storage[at[Cron]] = told[at[Cron]] \/ at[Cron] \in moved)'
  <2>1. ASSUME cron = "mark"
        PROVE  /\ at[Cron] \in Events /\ at[Cron] \notin warned'
               /\ \A x \in list : x[1] # at[Cron]
               /\ storage'[at[Cron]] = told[at[Cron]] \/ at[Cron] \in moved'
    <3>1. /\ at[Cron] \in Events /\ at[Cron] \notin warned
          /\ \A x \in list : x[1] # at[Cron]
          /\ storage[at[Cron]] = told[at[Cron]] \/ at[Cron] \in moved
      BY <1>1, <2>1 DEF CronInv
    <3>2. CASE at[Cron] # e
      BY <1>3, <1>4, <3>1, <3>2
    <3>3. CASE at[Cron] = e
      BY <1>3, <1>4, <1>6, <3>1, <3>3
    <3> QED
      BY <3>2, <3>3
  <2> QED
    BY <1>2, <2>1
<1>13. (cron = "purge" => \A x \in list : OverOrMoved(x[1]))'
  <2>1. ASSUME cron = "purge", NEW x \in list PROVE OverOrMoved(x[1])'
    BY <1>1, <1>5, <1>6, <1>7, <2>1 DEF CronInv
  <2> QED
    BY <1>2, <2>1
<1>14. (pc[Cron] \in {"look", "insert", "close"} => OverOrMoved(at[Cron]))'
  <2>1. ASSUME pc[Cron] \in {"look", "insert", "close"} PROVE OverOrMoved(at[Cron])'
    <3>1. OverOrMoved(at[Cron]) /\ at[Cron] \in Events
      BY <1>1, <2>1 DEF CronInv, IInv, PurgeInv, PurgerOK, Purgers
    <3> QED
      BY <1>2, <1>5, <1>6, <3>1 DEF OverOrMoved, Expired
  <2> QED
    BY <1>2, <2>1
<1>15. early' \subseteq moved' /\ early' \subseteq closed'
  BY <1>1, <1>2, <1>3, <1>4 DEF CronInv, CronTypes
<1> QED
  BY <1>8, <1>9, <1>10, <1>11, <1>12, <1>13, <1>14, <1>15 DEF CronOK, CronInv

-----------------------------------------------------------------------------
(* The inductive invariant.                                                *)

LEMMA Initially == Init => IInv
<1> SUFFICES ASSUME Init PROVE IInv
  OBVIOUS
<1>1. DatesInv
  BY DatesInitially DEF Init
<1>2. PurgerTypes
  BY DEF Init, PurgerTypes, Labels
<1>3. FileTypes
  <2>1. row \in [Media -> {"none", "checked", "row", "deleted"}] /\ object = row
    BY DEF Init
  <2>2. object \in [Media -> {"none", "stored", "removed"}]
    BY DEF Init
  <2> QED
    BY <2>1, <2>2 DEF Init, FileTypes
<1>4. RecordTypes /\ CronTypes
  BY DEF Init, RecordTypes, CronTypes
<1>5. PurgeInv
  <2>1. \A p \in Purgers : PurgerOK(p)
    BY DEF Init, PurgerOK
  <2>2. \A e \in Events : EventOK(e)
    BY DEF Init, EventOK
  <2>3. \A m \in Media : MediumOK(m)
    <3>1. \A m \in Media : row[m] = "none" /\ object[m] = "none"
      BY DEF Init
    <3> QED
      BY <3>1 DEF MediumOK
  <2> QED
    BY <2>1, <2>2, <2>3 DEF PurgeInv
<1>6. CronInv
  <2>1. pc[Cron] = "idle" /\ cron = "idle" /\ early = {} /\ warned = {}
    BY DEF Init, DatesInit, Purgers
  <2> QED
    BY <2>1 DEF CronInv, WarnedOfTheDate
<1> QED
  BY <1>1, <1>2, <1>3, <1>4, <1>5, <1>6, TypeParts DEF IInv, DatesInv

LEMMA CronKept ==
  ASSUME IInv, [Next]_vars
  PROVE  CronOK'
<1>1. CASE CronStep
  BY <1>1, CronPurgeStep, CronReads, MarkStep, MailStep, PurgeNextStep DEF CronStep
<1>2. ASSUME NEW p \in Purgers, PurgeFails(p) PROVE CronOK'
  BY <1>2, OthersCron, CronStops DEF Purgers
<1> QED
  BY <1>1, <1>2, OthersCron, CronStops, MailFailsStep, DatesMoveStep DEF Next

LEMMA Inductive == IInv /\ [Next]_vars => IInv'
<1> SUFFICES ASSUME IInv, [Next]_vars PROVE IInv'
  OBVIOUS
<1>1. DatesInv'
  BY CleanupStep, DatesStep DEF IInv
<1>2. FilesOK' /\ CronOK'
  BY FilesStep, CronKept
<1>3. TypeOK'
  BY <1>1, <1>2 DEF FilesOK, CronOK, DatesInv, TypeOK, PurgerTypes, FileTypes, RecordTypes,
     CronTypes, Labels
<1> QED
  BY <1>1, <1>2, <1>3 DEF IInv, FilesOK, CronOK

LEMMA Invariance == Spec => []IInv
BY Initially, Inductive, PTL DEF Spec

-----------------------------------------------------------------------------
(* The theorems.                                                           *)

\* Every variable has its type.
THEOREM TypeCorrect == Spec => []TypeOK
<1>1. IInv => TypeOK
  BY DEF IInv
<1> QED
  BY <1>1, Invariance, PTL

\* The purge, the cron and guests leave the dates to the rules of EventDates.
THEOREM KeepsDates == Spec => DatesSpec
<1>1. Init => DatesInit
  BY DEF Init
<1>2. IInv /\ [Next]_vars => [DatesNext]_dateVars
  BY CleanupStep
<1> QED
  BY <1>1, <1>2, Invariance, PTL DEF Spec, DatesSpec

\* Whatever was paid for is in the dates, cleanup or not.
THEOREM PaidTimeIsKeptHere == Spec => []PaidTimeIsKept
BY KeepsDates, PaidTimeIsKeptAlways, PTL

\* Only a new activation date shortens anything, cleanup or not.
THEOREM DatesOnlyGrowHere == Spec => DatesOnlyGrow
BY KeepsDates, DatesOnlyGrowAlways, PTL

\* No purge takes a row or a file of an event that is not closed.
THEOREM OpenKeepsMediaAlways == Spec => []OpenKeepsMedia
<1>1. IInv => OpenKeepsMedia
  BY DEF IInv, PurgeInv, MediumOK, OpenKeepsMedia
<1> QED
  BY <1>1, Invariance, PTL

\* A finished purge leaves no file of its list, but late ones.
THEOREM FinishedIsGoneAlways == Spec => []FinishedIsGone
<1>1. IInv => FinishedIsGone
  BY DEF IInv, PurgeInv, EventOK, FinishedIsGone, Stored
<1> QED
  BY <1>1, Invariance, PTL

\* A file whose row is deleted is gone, late, missed or on the open list.
THEOREM NoFileForgottenAlways == Spec => []NoFileForgotten
<1>1. IInv => NoFileForgotten
  BY DEF IInv, PurgeInv, MediumOK, NoFileForgotten
<1> QED
  BY <1>1, Invariance, PTL

\* A permanent removal leaves no file, but late ones.
THEOREM RemovalIsWholeAlways == Spec => []RemovalIsWhole
<1>1. IInv => RemovalIsWhole
  BY DEF IInv, PurgeInv, EventOK, RemovalIsWhole, Stored, TypeOK, DatesTypeOK
<1> QED
  BY <1>1, Invariance, PTL

\* A warning names the day that counts, or the one before the extension.
THEOREM WarnedOfTheDateAlways == Spec => []WarnedOfTheDate
<1>1. IInv => WarnedOfTheDate
  BY DEF IInv, CronInv
<1> QED
  BY <1>1, Invariance, PTL

\* The cron closes early only what moved after it was listed.
THEOREM ClosedEarlyOnlyIfMovedAlways == Spec => []ClosedEarlyOnlyIfMoved
<1>1. IInv => ClosedEarlyOnlyIfMoved
  BY DEF IInv, CronInv, ClosedEarlyOnlyIfMoved
<1> QED
  BY <1>1, Invariance, PTL
=============================================================================
