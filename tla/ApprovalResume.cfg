\* One decision, nothing fails, the model asks for the refund again.
SPECIFICATION FairSpec
CONSTANTS
    Chats = {c1}
    Decisions = {d1}
    NoChat = NoChat
    Amounts <- MCAmounts
    Threshold <- MCThreshold
    LLMReplies <- MCLargeRefund
    Faults <- MCNoFaults
PROPERTY ApprovedRefundIsMade
CHECK_DEADLOCK FALSE
