\* One request, every token, two auth replicas, two rotations, every fault.
SPECIFICATION FairSpec
CONSTANTS
    Requests = {r1}
    Users = {u1, u2}
    Replicas = {i1, i2}
    MaxSecret = 3
    Fallback = TRUE
    None = None
    Faults <- MCFaults
INVARIANTS
    TypeOK
    CreatorIsSubject
PROPERTIES
    ImplementsTrail
    CreateAnswered
\* Requests are finitely many; then the services wait.
CHECK_DEADLOCK FALSE
