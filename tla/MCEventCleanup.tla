--------------------------- MODULE MCEventCleanup ---------------------------
(* Instances of EventCleanup for TLC.  A month, the extension, the warning *)
(* time and the days of the small package are one day each.                *)
EXTENDS EventCleanup, TLC

CONSTANTS e1, o1, o2

\* o1 leads from the small to the large package, o2 adds a month of uploading.
Here == [o \in Upgrades |-> e1]
There == [m \in Media |-> e1]
Small == [e \in Events |-> 1]
UploadDays == [t \in Tiers |-> t - 1]
OneDay == [t \in Tiers |-> 1]
FromSmall == [o \in Upgrades |-> 1]
ToLarge == [o \in Upgrades |-> IF o = o1 THEN 2 ELSE NoTier]
Month == [o \in Upgrades |-> IF o = o2 THEN 1 ELSE 0]
Nothing == [o \in Upgrades |-> 0]

Symmetric == Permutations(Callers)
=============================================================================
