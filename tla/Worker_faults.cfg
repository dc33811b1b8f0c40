\* Two processes with one instance each, three jobs of two users, one of
\* them with an input that does not decode, and every fault.
SPECIFICATION Spec
CONSTANTS
    j1 = j1  j2 = j2  j3 = j3
    u1 = u1  u2 = u2
    Servers = {s1, s2}
    Instances = {i1}
    Jobs = {j1, j2, j3}
    Users = {u1, u2}
    Owner <- TwoUsers
    BadInput = {j2}
    Faults = {"crash", "claim", "record", "listen"}
    NoJob = NoJob
    NoServer = NoServer
SYMMETRY Symmetric
INVARIANT RunningIsWorkedOn
PROPERTY ImplementsJobQueue
CHECK_DEADLOCK FALSE
