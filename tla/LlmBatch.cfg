\* Three requests of every kind, batches of two, two replicas, every fault.
SPECIFICATION FairSpec
CONSTANTS
    Requests = {q1, q2, q3}
    Replicas = {r1, r2}
    MaxBatch = 2
    Kinds <- MCKinds
    Faults <- MCFaults
INVARIANT TypeOK
PROPERTIES
    ImplementsReplies
    RaisedHasCause
    RequestAnswered
\* Requests are finitely many; then the replicas wait.
CHECK_DEADLOCK FALSE
