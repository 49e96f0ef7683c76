\* Safety: a chat and two decisions that race on its row; every fault.
SPECIFICATION Spec
CONSTANTS
    Chats = {c1}
    Decisions = {d1, d2}
    NoChat = NoChat
    Amounts <- MCAmounts
    Threshold <- MCThreshold
    LLMReplies <- MCLLMReplies
    Faults <- MCFaults
SYMMETRY MCSymmetry
INVARIANTS
    TypeOK
    RefundsAreSmallOrApproved
    ApprovalIsInsteadOfEffect
    UnauditedCallIsReported
    SuccessIsBacked
    AuditedCallHappened
    ResumeAfterCommit
PROPERTIES
    ResolvedNeverReopens
    ImplementsLedger
\* Requests are finitely many; when all are answered the system stops.
CHECK_DEADLOCK FALSE
