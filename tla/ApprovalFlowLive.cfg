\* Liveness: a chat and the decision on its row; every fault.
SPECIFICATION FairSpec
CONSTANTS
    Chats = {c1}
    Decisions = {d1}
    NoChat = NoChat
    Amounts <- MCAmounts
    Threshold <- MCThreshold
    LLMReplies <- MCLLMReplies
    Faults <- MCFaults
PROPERTIES
    EveryRequestAnswered
    CallIsAuditedOrFails
\* Requests are finitely many; when all are answered the system stops.
CHECK_DEADLOCK FALSE
