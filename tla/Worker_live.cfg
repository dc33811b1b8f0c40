\* One process with two instances, three jobs of three users and no faults,
\* under fair scheduling of its goroutines.
SPECIFICATION FairSpec
CONSTANTS
    j1 = j1  j2 = j2  j3 = j3
    u1 = u1  u2 = u2
    Servers = {s1}
    Instances = {i1, i2}
    Jobs = {j1, j2, j3}
    Users = {j1, j2, j3}
    Owner <- ThreeUsers
    BadInput = {}
    Faults = {}
    NoJob = NoJob
    NoServer = NoServer
INVARIANT OwnInstance
PROPERTIES ClaimedEnds QuietPickup
CHECK_DEADLOCK FALSE
