---------------------------- MODULE ApprovalFlow ----------------------------
(***************************************************************************)
(* The inference agent: POST /chat and POST /approve, the LangGraph        *)
(* workflow both of them run, the approvals and audit_logs tables, and the *)
(* external order API the tools call.                                      *)
(*                                                                         *)
(* Handlers are coroutines of one event loop (and of several replicas), so *)
(* every await is a point where the other requests interleave: a step of   *)
(* this module is what one request does between two awaits.  A statement   *)
(* sent with asyncpg outside a transaction is one atomic step that commits *)
(* by itself.                                                              *)
(***************************************************************************)
EXTENDS Integers, FiniteSets

CONSTANTS
    Chats,        \* the POST /chat requests; also names the approvals row one may insert
    Decisions,    \* the POST /approve requests
    NoChat,       \* the target of a decision that has read no row yet
    Amounts,      \* refund amounts, in cents
    Threshold,    \* APPROVAL_THRESHOLD, in cents
    LLMReplies,   \* what the model may answer in this instance
    Faults        \* which parts of the environment may fail in this instance

Runs == Chats \cup Decisions

\* TOOL_REGISTRY.  The external API has an endpoint for each of CallingTools;
\* update_customer_note calls nobody.
CallingTools == {"get_order_status", "process_refund", "escalate_to_human"}
Tools == CallingTools \cup {"update_customer_note"}

\* The amount of a call that has none: the other tools, or no call at all.
NoAmount == 0

\* A reply of the model: no success, a tool call (arguments valid or not), a
\* text, or a text that is empty once stripped.
Calls == [kind : {"call"}, tool : Tools, amount : Amounts \cup {NoAmount}]
LLMReply == Calls \cup [kind : {"failed", "unknown_tool", "text", "blank"}]

ASSUME ApprovalConstants ==
    /\ Chats \cap Decisions = {}
    /\ NoChat \notin Chats
    /\ Amounts \subseteq Nat
    /\ Threshold \in Nat
    /\ LLMReplies \subseteq LLMReply
    /\ Faults \subseteq {"api", "database", "checkpoint", "crash"}

VARIABLES
    pc,         \* where each request is
    agent,      \* the AgentState of each request's graph run
    decision,   \* what each /approve request asks for
    approvals,  \* the approvals table, one possible row for each chat
    audit,      \* the audit_logs rows <<run, tool>>
    posted,     \* runs whose POST to the external API has not been carried out
    issued,     \* what the external API has carried out
    reply       \* the HTTP response of each request

vars == <<pc, agent, decision, approvals, audit, posted, issued, reply>>

----------------------------------------------------------------------------
(* Data.                                                                   *)

AgentState ==
    [current_tool      : Tools \cup {"none"},
     tool_args         : Amounts \cup {NoAmount},
     tool_result       : {"none", "success", "approval"},
     approval_required : BOOLEAN,
     approval_status   : {"none", "approved"},
     error             : BOOLEAN,
     completed         : BOOLEAN,
     message           : {"user", "answer", "pending", "error", "done", "generic"}]

Row == [status : {"absent", "pending", "approved", "rejected"},
        tool_name : Tools \cup {"none"}, tool_args : Amounts \cup {NoAmount}]

Effect == [run : Runs, tool : CallingTools, amount : Amounts \cup {NoAmount}]

Replies == {"none", "ok", "agent_error", "exception", "not_found", "approved", "rejected"}

\* The nodes of create_graph that can be waiting to run; load_state and
\* persist_state only log, so the run enters at plan_action and leaves at "end".
Nodes == {"plan_action", "execute_tool", "approval_gate", "generate_response", "end"}

Active == Nodes \cup {"resolve", "calling", "auditing"}

\* The state a graph run starts from; only /approve starts from a row.  The user,
\* the session and the reason of an approval are left out: no step depends on them.
InitialState(tool, amount, status) ==
    [current_tool |-> tool, tool_args |-> amount, tool_result |-> "none",
     approval_required |-> FALSE, approval_status |-> status,
     error |-> FALSE, completed |-> FALSE, message |-> "user"]

\* Variant: the failure ends the run but leaves no error in the state.
FailQuietly(a) == [a EXCEPT !.completed = TRUE]

Fail(a) == [a EXCEPT !.error = TRUE, !.completed = TRUE]

\* The jsonschema of the tools: a refund carries an amount of at least one
\* cent, and no other tool takes one.
ValidArgs(tool, amount) == (tool = "process_refund") <=> (amount >= 1)

\* Variant: an approved run is trusted with whatever amount the model plans next.
NeedsApprovalOnce(a) ==
    /\ a.approval_status = "none"
    /\ a.current_tool = "process_refund"
    /\ a.tool_args > Threshold

NeedsApproval(a) == a.current_tool = "process_refund" /\ a.tool_args > Threshold

\* Variant: an or for the and of check_approval.
CheckApprovalOr(a) ==
    IF a.approval_required \/ a.approval_status = "none"
    THEN "approval_gate" ELSE "generate_response"

\* check_approval: the edge taken after execute_tool.
CheckApproval(a) ==
    IF a.approval_required /\ a.approval_status = "none"
    THEN "approval_gate" ELSE "generate_response"

\* generate_response formats a refund with result['refund_id'], which the
\* dict saying that approval is required does not have.
ResponseRaises(a) ==
    ~a.error /\ a.tool_result = "approval" /\ a.current_tool = "process_refund"

\* Variant: the result is looked at before the error.
ResponseMessageResultFirst(a) ==
    CASE a.tool_result # "none" -> "done"
      [] a.tool_result = "none" /\ a.error -> "error"
      [] OTHER -> "generic"

ResponseMessage(a) ==
    CASE a.error -> "error"
      [] ~a.error /\ a.tool_result # "none" -> "done"
      [] OTHER -> "generic"

EffectOf(r) ==
    [run |-> r, tool |-> agent[r].current_tool, amount |-> agent[r].tool_args]

----------------------------------------------------------------------------
(* How a step moves a request.                                             *)

Go(r, from, to, a) ==
    /\ pc[r] = from
    /\ pc' = [pc EXCEPT ![r] = to]
    /\ agent' = [agent EXCEPT ![r] = a]

\* The request is answered; its graph run, if it had one, is over.
Finish(r, code) ==
    /\ pc' = [pc EXCEPT ![r] = "done"]
    /\ reply' = [reply EXCEPT ![r] = code]

Init ==
    /\ pc = [r \in Runs |-> "idle"]
    /\ agent = [r \in Runs |-> InitialState("none", NoAmount, "none")]
    /\ decision = [d \in Decisions |-> [target |-> NoChat, action |-> "none"]]
    /\ approvals = [c \in Chats |->
                      [status |-> "absent", tool_name |-> "none", tool_args |-> NoAmount]]
    /\ audit = {}
    /\ posted = {}
    /\ issued = {}
    /\ reply = [r \in Runs |-> "none"]

----------------------------------------------------------------------------
(* The HTTP handlers.                                                      *)

\* chat: the message is there (otherwise 400 and nothing happens).
Receive(c) ==
    /\ Go(c, "idle", "plan_action", InitialState("none", NoAmount, "none"))
    /\ UNCHANGED <<decision, approvals, audit, posted, issued, reply>>

\* approve, the SELECT ... WHERE status = 'pending' FOR UPDATE SKIP LOCKED.  The
\* statement is its own transaction, so its lock is gone when it returns.
SelectPending(d, c, action) ==
    /\ approvals[c].status = "pending"
    /\ Go(d, "idle", "resolve",
          InitialState(approvals[c].tool_name, approvals[c].tool_args, "approved"))
    /\ decision' = [decision EXCEPT ![d] = [target |-> c, action |-> action]]
    /\ UNCHANGED <<approvals, audit, posted, issued, reply>>

\* approve, no row: no such request, or it is resolved, or SKIP LOCKED passed over it while
\* the statement of another decision held the row.
SelectNothing(d, c) ==
    /\ pc[d] = "idle"
    /\ \/ approvals[c].status # "pending"
       \/ \E e \in Decisions \ {d} : pc[e] = "resolve" /\ decision[e].target = c
    /\ Finish(d, "not_found")
    /\ UNCHANGED <<agent, decision, approvals, audit, posted, issued>>

\* The SELECT, or the connection it runs on, raises.
SelectFails(d) ==
    /\ "database" \in Faults
    /\ pc[d] = "idle"
    /\ Finish(d, "exception")
    /\ UNCHANGED <<agent, decision, approvals, audit, posted, issued>>

\* Variant: the action is stored as the status, which the table's CHECK refuses.
StatusOfAction(action) == action

\* Variant: a rejection puts the request back.
StatusOfRequeue(action) == IF action = "approve" THEN "approved" ELSE "pending"

StatusOf(action) == IF action = "approve" THEN "approved" ELSE "rejected"

\* The row after UPDATE approvals SET status = ... WHERE id = ...
Resolution(c, action) == [approvals EXCEPT ![c].status = StatusOf(action)]

\* Variant: the graph runs before the UPDATE.
ResolveLater(d) ==
    /\ decision[d].action = "approve"
    /\ Go(d, "resolve", "plan_action", agent[d])
    /\ UNCHANGED <<decision, approvals, audit, posted, issued, reply>>

\* approve, the UPDATE, then either the graph run or the answer.
Resolve(d) ==
    /\ pc[d] = "resolve"
    /\ approvals' = Resolution(decision[d].target, decision[d].action)
    /\ \/ /\ decision[d].action = "approve"
          /\ Go(d, "resolve", "plan_action", agent[d])
          /\ UNCHANGED reply
       \/ /\ decision[d].action = "reject"
          /\ Finish(d, "rejected")
          /\ UNCHANGED agent
    /\ UNCHANGED <<decision, audit, posted, issued>>

\* The UPDATE raises; a connection that breaks does not say whether it committed.
ResolveFails(d) ==
    /\ "database" \in Faults
    /\ pc[d] = "resolve"
    /\ \/ UNCHANGED approvals
       \/ approvals' = Resolution(decision[d].target, decision[d].action)
    /\ Finish(d, "exception")
    /\ UNCHANGED <<agent, decision, audit, posted, issued>>

\* chat and approve, the end of ainvoke: /chat looks at the error of the final
\* state, /approve answers "approved" whatever it is.
Answer(r) ==
    /\ pc[r] = "end"
    /\ Finish(r, CASE r \in Decisions -> "approved"
                   [] r \notin Decisions /\ agent[r].error -> "agent_error"
                   [] OTHER -> "ok")
    /\ UNCHANGED <<agent, decision, approvals, audit, posted, issued>>

----------------------------------------------------------------------------
(* The nodes of the graph.                                                 *)

\* plan_action: a tool call that parses and validates replaces the tool and its
\* arguments, those of an approved row too.
Planned(a, m) ==
    CASE m.kind = "failed" -> Fail(a)
      [] m.kind = "unknown_tool" -> Fail(a)
      [] m.kind = "call" -> IF ValidArgs(m.tool, m.amount)
                            THEN [a EXCEPT !.current_tool = m.tool, !.tool_args = m.amount]
                            ELSE Fail(a)
      [] m.kind = "text" -> [a EXCEPT !.message = "answer", !.completed = TRUE]
      [] OTHER -> a

PlanAction(r) ==
    /\ \E m \in LLMReplies : Go(r, "plan_action", "execute_tool", Planned(agent[r], m))
    /\ UNCHANGED <<decision, approvals, audit, posted, issued, reply>>

Skips(a) == a.error \/ a.completed \/ a.current_tool = "none"

\* execute_tool returns at once.
ExecuteNothing(r) ==
    /\ Skips(agent[r])
    /\ Go(r, "execute_tool", CheckApproval(agent[r]), agent[r])
    /\ UNCHANGED <<decision, approvals, audit, posted, issued, reply>>

\* execute_process_refund over the threshold: no call, whatever approval_status is.
AskApproval(r) ==
    LET a == [agent[r] EXCEPT !.approval_required = TRUE, !.tool_result = "approval"]
    IN  /\ ~Skips(agent[r])
        /\ NeedsApproval(agent[r])
        /\ Go(r, "execute_tool", CheckApproval(a), a)
        /\ UNCHANGED <<decision, approvals, audit, posted, issued, reply>>

\* Variant: the call is logged when it is sent.
CallToolLogged(r) ==
    /\ ~Skips(agent[r])
    /\ ~NeedsApproval(agent[r])
    /\ agent[r].current_tool \in CallingTools
    /\ Go(r, "execute_tool", "calling", agent[r])
    /\ posted' = posted \cup {r}
    /\ audit' = audit \cup {<<r, agent[r].current_tool>>}
    /\ UNCHANGED <<decision, approvals, issued, reply>>

\* _call_external_api sends its POST ...
CallTool(r) ==
    /\ ~Skips(agent[r])
    /\ ~NeedsApproval(agent[r])
    /\ agent[r].current_tool \in CallingTools
    /\ Go(r, "execute_tool", "calling", agent[r])
    /\ posted' = posted \cup {r}
    /\ UNCHANGED <<decision, approvals, audit, issued, reply>>

\* ... execute_update_customer_note does not.
NoteTool(r) ==
    /\ ~Skips(agent[r])
    /\ agent[r].current_tool = "update_customer_note"
    /\ Go(r, "execute_tool", "auditing", [agent[r] EXCEPT !.tool_result = "success"])
    /\ UNCHANGED <<decision, approvals, audit, posted, issued, reply>>

\* Variant: the result is not logged.
CallReturnsUnlogged(r) ==
    /\ EffectOf(r) \in issued
    /\ Go(r, "calling", "generate_response", [agent[r] EXCEPT !.tool_result = "success"])
    /\ UNCHANGED <<decision, approvals, audit, posted, issued, reply>>

CallReturns(r) ==
    /\ EffectOf(r) \in issued
    /\ Go(r, "calling", "auditing", [agent[r] EXCEPT !.tool_result = "success"])
    /\ UNCHANGED <<decision, approvals, audit, posted, issued, reply>>

\* Variant: a client without a timeout sees only the errors the API answers with.
CallFailsAnswered(r) ==
    /\ "api" \in Faults
    /\ EffectOf(r) \in issued
    /\ Go(r, "calling", CheckApproval(Fail(agent[r])), Fail(agent[r]))
    /\ UNCHANGED <<decision, approvals, audit, posted, issued, reply>>

\* The 10 s timeout, a refused connection, an error status, a body that is not
\* JSON: the caller cannot tell whether the API carries the call out, now or later.
CallFails(r) ==
    /\ "api" \in Faults
    /\ Go(r, "calling", CheckApproval(Fail(agent[r])), Fail(agent[r]))
    /\ UNCHANGED <<decision, approvals, audit, posted, issued, reply>>

\* _audit_log, on a connection of its own, after the effect.
AuditLog(r) ==
    /\ audit' = audit \cup {<<r, agent[r].current_tool>>}
    /\ Go(r, "auditing", CheckApproval(agent[r]), agent[r])
    /\ UNCHANGED <<decision, approvals, posted, issued, reply>>

\* execute_tool catches the exception of _audit_log: the tool did run.
AuditFails(r) ==
    /\ "database" \in Faults
    /\ \/ UNCHANGED audit
       \/ audit' = audit \cup {<<r, agent[r].current_tool>>}
    /\ Go(r, "auditing", CheckApproval(Fail(agent[r])), Fail(agent[r]))
    /\ UNCHANGED <<decision, approvals, posted, issued, reply>>

PendingRow(a) ==
    [status |-> "pending", tool_name |-> a.current_tool, tool_args |-> a.tool_args]

\* approval_gate, the INSERT and the message.
ApprovalGate(c) ==
    /\ approvals' = [approvals EXCEPT ![c] = PendingRow(agent[c])]
    /\ Go(c, "approval_gate", "end",
          [agent[c] EXCEPT !.message = "pending", !.completed = TRUE])
    /\ UNCHANGED <<decision, audit, posted, issued, reply>>

\* The INSERT raises (and may still have committed): nothing catches it in the graph.
GateFails(c) ==
    /\ "database" \in Faults
    /\ pc[c] = "approval_gate"
    /\ \/ UNCHANGED approvals
       \/ approvals' = [approvals EXCEPT ![c] = PendingRow(agent[c])]
    /\ Finish(c, "exception")
    /\ UNCHANGED <<agent, decision, audit, posted, issued>>

GenerateResponse(r) ==
    /\ ~ResponseRaises(agent[r])
    /\ Go(r, "generate_response", "end",
          [agent[r] EXCEPT !.message = ResponseMessage(agent[r]), !.completed = TRUE])
    /\ UNCHANGED <<decision, approvals, audit, posted, issued, reply>>

\* The KeyError of generate_response leaves the graph; an order whose items lack
\* a name or a price raises one too.
ResponseFails(r) ==
    /\ pc[r] = "generate_response"
    /\ \/ ResponseRaises(agent[r])
       \/ /\ "api" \in Faults
          /\ agent[r].current_tool = "get_order_status"
          /\ ~agent[r].error
          /\ agent[r].tool_result = "success"
    /\ Finish(r, "exception")
    /\ UNCHANGED <<agent, decision, approvals, audit, posted, issued>>

\* Between two nodes the checkpointer writes the state to Postgres, and plan_action
\* awaits the model without a try: an exception of either ends the run.
GraphRaises(r) ==
    /\ "checkpoint" \in Faults
    /\ pc[r] \in Nodes
    /\ Finish(r, "exception")
    /\ UNCHANGED <<agent, decision, approvals, audit, posted, issued>>

----------------------------------------------------------------------------
(* The environment.                                                        *)

\* The external API carries out a POST, which may be after its caller gave up.
Deliver(r) ==
    /\ r \in posted
    /\ posted' = posted \ {r}
    /\ issued' = issued \cup {EffectOf(r)}
    /\ UNCHANGED <<pc, agent, decision, approvals, audit, reply>>

Lose(r) ==
    /\ "api" \in Faults
    /\ r \in posted
    /\ posted' = posted \ {r}
    /\ UNCHANGED <<pc, agent, decision, approvals, audit, issued, reply>>

\* The replica that serves the request dies; the tables and the API stay.
Crash(r) ==
    /\ "crash" \in Faults
    /\ pc[r] \in Active
    /\ pc' = [pc EXCEPT ![r] = "crashed"]
    /\ UNCHANGED <<agent, decision, approvals, audit, posted, issued, reply>>

----------------------------------------------------------------------------

GraphStep(r) ==
    \/ PlanAction(r)
    \/ ExecuteNothing(r) \/ AskApproval(r) \/ CallTool(r) \/ NoteTool(r)
    \/ CallReturns(r) \/ CallFails(r)
    \/ AuditLog(r) \/ AuditFails(r)
    \/ GenerateResponse(r) \/ ResponseFails(r)
    \/ Answer(r)

GateStep(c) == ApprovalGate(c) \/ GateFails(c)

ResolveStep(d) == Resolve(d) \/ ResolveFails(d)

Next ==
    \/ \E c \in Chats : Receive(c) \/ GateStep(c)
    \/ \E d \in Decisions, c \in Chats :
          \/ \E action \in {"approve", "reject"} : SelectPending(d, c, action)
          \/ SelectNothing(d, c)
    \/ \E d \in Decisions : SelectFails(d) \/ ResolveStep(d)
    \/ \E r \in Runs : GraphStep(r) \/ GraphRaises(r) \/ Deliver(r) \/ Lose(r) \/ Crash(r)

Spec == Init /\ [][Next]_vars

\* The event loop resumes every coroutine whose await is over, and each await is
\* over in the end: the statements and the model answer or raise, the POST returns
\* or times out.  Nobody has to send a request.
Fairness ==
    /\ \A r \in Runs : WF_vars(GraphStep(r)) /\ WF_vars(Deliver(r))
    /\ \A c \in Chats : WF_vars(GateStep(c))
    /\ \A d \in Decisions : WF_vars(ResolveStep(d))

FairSpec == Spec /\ Fairness

----------------------------------------------------------------------------
(* Properties.                                                             *)

TypeOK ==
    /\ pc \in [Runs -> Active \cup {"idle", "done", "crashed"}]
    /\ agent \in [Runs -> AgentState]
    /\ decision \in [Decisions ->
          [target : Chats \cup {NoChat}, action : {"none", "approve", "reject"}]]
    /\ approvals \in [Chats -> Row]
    /\ audit \subseteq Runs \X Tools
    /\ posted \subseteq Runs
    /\ issued \subseteq Effect
    /\ reply \in [Runs -> Replies]

\* "Amounts over $100 require manager approval" (process_refund): a refund that the API
\* carries out is within the threshold, or it is the run of a manager who approved it, for
\* the very amount that the request showed, and the request still stands approved.  What
\* could break it is a POST that comes late, a resumed run that plans another amount than
\* the request holds, and a second decision about it.
RefundsAreSmallOrApproved ==
    \A e \in issued : e.tool = "process_refund" =>
        \/ e.amount <= Threshold
        \/ /\ e.run \in Decisions
           /\ decision[e.run].action = "approve"
           /\ approvals[decision[e.run].target].status = "approved"
           /\ approvals[decision[e.run].target].tool_args = e.amount

\* A row of the approvals table is a refund over the threshold, and the chat that
\* asked for it has sent nothing to the external API, then or later.
ApprovalIsInsteadOfEffect ==
    \A c \in Chats : approvals[c].status # "absent" =>
        /\ approvals[c].tool_name = "process_refund"
        /\ approvals[c].tool_args > Threshold
        /\ c \notin posted
        /\ \A e \in issued : e.run # c

\* What the requester is told failed: /chat by its status, /approve, which answers
\* "approved" all the same, by the text of the response.
ToldFailure(r) ==
    \/ reply[r] \in {"agent_error", "exception"}
    \/ reply[r] = "approved" /\ agent[r].message = "error"

\* An external call that left no audit row is never hidden behind a success: when
\* its request is answered, the answer says that something failed.
UnauditedCallIsReported ==
    \A e \in issued :
        (pc[e.run] = "done" /\ <<e.run, e.tool>> \notin audit) => ToldFailure(e.run)

\* A response that says the tool did its work is true: the call was carried out
\* with these arguments, and its audit row is there.
SuccessIsBacked ==
    \A r \in Runs :
        (reply[r] \in {"ok", "approved"} /\ agent[r].message = "done") =>
            /\ <<r, agent[r].current_tool>> \in audit
            /\ agent[r].current_tool \in CallingTools => EffectOf(r) \in issued

\* The audit trail holds no call that was not carried out: _audit_log runs after the
\* reply of the API, and no later step plans another tool.
AuditedCallHappened ==
    \A r \in Runs, t \in CallingTools : <<r, t>> \in audit =>
        agent[r].current_tool = t /\ EffectOf(r) \in issued

\* A run resumes, and acts on the external API, only for an approval whose decision
\* is committed: a crash between the two steps of /approve loses the refund, never
\* the record of who decided.
ResumeAfterCommit ==
    \A d \in Decisions :
        (pc[d] \in Nodes \cup {"calling", "auditing"} \/ d \in posted
             \/ \E e \in issued : e.run = d) =>
            /\ decision[d].action = "approve"
            /\ approvals[decision[d].target].status \in {"approved", "rejected"}

\* However decisions race, a resolved request never becomes pending again, and no
\* step changes the tool call it stands for.
ResolvedNeverReopens ==
    [][\A c \in Chats : approvals[c].status \in {"approved", "rejected"} =>
          /\ approvals'[c].status \in {"approved", "rejected"}
          /\ approvals'[c].tool_name = approvals[c].tool_name
          /\ approvals'[c].tool_args = approvals[c].tool_args]_vars

\* The agent implements the ledger: whatever requests, failures and late calls
\* interleave, the two tables and the external API change only as RefundLedger says.
Ledger == INSTANCE RefundLedger WITH
              requests <- approvals, effects <- issued, records <- audit

ImplementsLedger == Ledger!Spec

\* Every request that is taken up is answered, unless its replica dies.
EveryRequestAnswered ==
    \A r \in Runs : pc[r] \in Active ~> pc[r] \in {"done", "crashed"}

\* A call that the external API carried out is audited in the end, unless the run
\* ends with an error or dies: it is never left without either.
CallIsAuditedOrFails ==
    \A r \in Runs :
        (\E e \in issued : e.run = r) ~>
            \/ \E t \in CallingTools : <<r, t>> \in audit
            \/ agent[r].error
            \/ pc[r] = "crashed"

\* "Approval request not found or already processed" (approve): a request that was
\* decided keeps its decision.
ResolutionIsFinal ==
    [][\A c \in Chats : approvals[c].status \in {"approved", "rejected"} =>
          approvals'[c].status = approvals[c].status]_vars

\* "Resume after approval" (approve): a refund that a manager approves is made.
ApprovedRefundIsMade ==
    \A c \in Chats :
        approvals[c].status = "approved" ~>
            \E e \in issued : /\ e.tool = "process_refund"
                              /\ e.amount = approvals[c].tool_args
=============================================================================
