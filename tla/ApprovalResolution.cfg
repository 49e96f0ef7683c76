\* Two decisions on one request; nothing fails.
SPECIFICATION FairSpec
CONSTANTS
    Chats = {c1}
    Decisions = {d1, d2}
    NoChat = NoChat
    Amounts <- MCAmounts
    Threshold <- MCThreshold
    LLMReplies <- MCLargeRefund
    Faults <- MCNoFaults
PROPERTY ResolutionIsFinal
CHECK_DEADLOCK FALSE
