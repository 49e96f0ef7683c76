--------------------------- MODULE MCApprovalFlow ---------------------------
(* Instances of ApprovalFlow for TLC.  Amounts are in units of the threshold's *)
(* neighbourhood: 2 is the threshold itself, 3 is just over it, 4 is another   *)
(* amount over it, which a resumed run may plan in place of the approved one.  *)
EXTENDS ApprovalFlow, TLC

MCThreshold == 2
MCAmounts == {2, 3, 4}

Call(tool, amount) == [kind |-> "call", tool |-> tool, amount |-> amount]

\* Both sides of the threshold, a refund without a valid amount, a call that reads,
\* a tool that calls nobody, and each reply that is no call.
MCLLMReplies ==
    {Call("process_refund", 2), Call("process_refund", 3), Call("process_refund", 4),
     Call("process_refund", NoAmount),
     Call("get_order_status", NoAmount), Call("update_customer_note", NoAmount),
     [kind |-> "failed"], [kind |-> "text"], [kind |-> "blank"]}

\* The model asks for what the user asked for, on both sides of the threshold.
MCRefundReplies == {Call("process_refund", 2), Call("process_refund", 3)}

\* The model asks for the large refund, and again when the run resumes.
MCLargeRefund == {Call("process_refund", 3)}

MCFaults == {"api", "database", "checkpoint", "crash"}
MCNoFaults == {}

MCSymmetry == Permutations(Chats) \cup Permutations(Decisions)
=============================================================================
