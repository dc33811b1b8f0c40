\* A super admin and an account that may come by the panel role, one reset link,
\* and two handlers at once: pages, grants and confirmations in any mix.
SPECIFICATION Spec
CONSTANTS
    People = {boss, helper}
    Supers = {boss}
    Staff = {helper}
    Calls = {c1, c2}
    Resets = {link1}
    Nobody = Nobody
    NoReset = NoReset
    MaxChanges = 2
SYMMETRY Symmetric
INVARIANTS PricesForSuperAdmins AccountNeverBlank
PROPERTIES HostKeepsPassword
CHECK_DEADLOCK FALSE
