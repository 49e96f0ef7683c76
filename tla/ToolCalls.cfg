\* The handler with its middleware before it: a call and its retries, another tool.
SPECIFICATION Spec
CONSTANTS
    Attempts = {a1, a2, a3}
    Tools = {t1, t2}
    Keys = {k1}
    NoKey = NoKey
    NoRow = NoRow
    Stack <- MiddlewareFirst
    Faults <- MCFaults
SYMMETRY MCSymmetry
INVARIANTS
    TypeOK
    RetriesNameOneCall
    AnswerNamesItsCall
    ReplayIsBacked
PROPERTY ImplementsRegister
\* Requests are finitely many; when all are answered the service waits.
CHECK_DEADLOCK FALSE
