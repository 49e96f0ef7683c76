---------------------------- MODULE RefundLedger ----------------------------
(***************************************************************************)
(* What the inference agent promises about money, without saying how: the  *)
(* approvals table, the calls carried out by the external API and the      *)
(* audit trail, and the only ways in which the three may change.           *)
(***************************************************************************)
EXTENDS Integers

CONSTANTS Chats, Decisions, Tools, CallingTools, Amounts, NoAmount, Threshold

VARIABLES
    requests,   \* the approval request of each chat
    effects,    \* the calls carried out: [run, tool, amount]
    records     \* the audit trail: <<run, tool>>

Absent == [status |-> "absent", tool_name |-> "none", tool_args |-> NoAmount]

Init ==
    /\ requests = [c \in Chats |-> Absent]
    /\ effects = {}
    /\ records = {}

\* A chat asks for a refund over the threshold instead of making one.
Request(c, amount) ==
    /\ requests[c].status = "absent"
    /\ amount > Threshold
    /\ \A e \in effects : e.run # c
    /\ requests' = [requests EXCEPT ![c] =
          [status |-> "pending", tool_name |-> "process_refund", tool_args |-> amount]]
    /\ UNCHANGED <<effects, records>>

\* Somebody decides; among decisions that race, the last one stands.
Decide(c, status) ==
    /\ requests[c].status # "absent"
    /\ requests' = [requests EXCEPT ![c].status = status]
    /\ UNCHANGED <<effects, records>>

\* A refund that nobody has to approve, or one that a manager approved: for that amount,
\* and carried out by the run of a decision.
MayRefund(r, amount) ==
    \/ amount <= Threshold
    \/ /\ r \in Decisions
       /\ \E c \in Chats : requests[c].status = "approved" /\ requests[c].tool_args = amount

\* A call takes effect: at most one for each run, none for a chat that asked for an
\* approval, a decision's only once some request is decided, and a refund only if it may
\* be made.
Effect(r, tool, amount) ==
    /\ \A e \in effects : e.run # r
    /\ tool = "process_refund" => MayRefund(r, amount)
    /\ r \in Chats => requests[r].status = "absent"
    /\ r \in Decisions => \E c \in Chats : requests[c].status \in {"approved", "rejected"}
    /\ effects' = effects \cup {[run |-> r, tool |-> tool, amount |-> amount]}
    /\ UNCHANGED <<requests, records>>

\* The trail records what has happened; a note happens nowhere else.
Record(r, tool) ==
    /\ tool \in CallingTools => \E e \in effects : e.run = r /\ e.tool = tool
    /\ records' = records \cup {<<r, tool>>}
    /\ UNCHANGED <<requests, effects>>

Next ==
    \/ \E c \in Chats, amount \in Amounts : Request(c, amount)
    \/ \E c \in Chats, status \in {"approved", "rejected"} : Decide(c, status)
    \/ \E r \in Chats \cup Decisions, tool \in CallingTools,
          amount \in Amounts \cup {NoAmount} : Effect(r, tool, amount)
    \/ \E r \in Chats \cup Decisions, tool \in Tools : Record(r, tool)

Spec == Init /\ [][Next]_<<requests, effects, records>>
=============================================================================
