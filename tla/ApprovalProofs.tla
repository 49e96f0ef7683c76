--------------------------- MODULE ApprovalProofs ---------------------------
(***************************************************************************)
(* Theorems about ApprovalFlow, for every set of chats and decisions, every *)
(* threshold, every answer of the model and every failure.                 *)
(*                                                                         *)
(* A run is followed along its pc.  Until it leaves execute_tool it has    *)
(* touched nothing; from there its tool and its arguments do not change,   *)
(* so what is posted, carried out, audited or asked for is what its state  *)
(* says.  That is RunOK, a relation between the values that belong to one  *)
(* run; a step of one run leaves the values of the others alone.           *)
(***************************************************************************)
EXTENDS ApprovalFlow, TLAPS

\* What belongs to run r in the shared sets.
PostOf(r) == posted \cap {r}
EffectsOf(r) == {e \in issued : e.run = r}
AuditOf(r) == {t \in Tools : <<r, t>> \in audit}

CallOf(r, a) == [run |-> r, tool |-> a.current_tool, amount |-> a.tool_args]

Early == {"idle", "resolve", "plan_action", "execute_tool"}
Late == {"approval_gate", "generate_response", "end"}

\* Before it has executed its tool, a run has left no trace.
EarlyOK(p, a, S, E, T) ==
    p \in Early =>
        /\ S = {} /\ E = {} /\ T = {}
        /\ ~a.approval_required
        /\ a.tool_result = "none"
        /\ a.message # "done"

\* A run has at most one call, in flight or carried out, and it is the call of its
\* state, with a refund under the threshold.
CallOK(r, a, S, E) ==
    /\ S # {} => /\ E = {}
                 /\ a.current_tool \in CallingTools
                 /\ ~NeedsApproval(a)
    /\ E # {} => /\ E = {CallOf(r, a)}
                 /\ ~NeedsApproval(a)

\* A run that asks for an approval calls nobody.
AskOK(p, a, S, E) ==
    /\ p = "approval_gate" => a.approval_required
    /\ a.tool_result = "approval" => a.approval_required
    /\ a.approval_required =>
          /\ p \in Late \cup {"done", "crashed"}
          /\ a.tool_result = "approval"
          /\ NeedsApproval(a)
          /\ ~a.error
          /\ S = {} /\ E = {}

\* What is about to be audited, or is audited, has happened.
AuditOK(r, p, a, E, T) ==
    /\ \A t \in T : t = a.current_tool
    /\ T # {} \/ p = "auditing" =>
          /\ a.current_tool \in Tools
          /\ a.current_tool \in CallingTools => E = {CallOf(r, a)}

TellsFailure(a, code) ==
    \/ code \in {"agent_error", "exception"}
    \/ code = "approved" /\ a.message = "error"

\* Past execute_tool a success is audited, and a call is audited or an error is left.
OutcomeOK(p, a, code, S, E, T) ==
    /\ a.tool_result = "success" /\ ~a.error /\ p \notin {"auditing", "crashed"} => T # {}
    /\ a.message = "done" => /\ p \in {"end", "done", "crashed"}
                             /\ a.tool_result = "success"
                             /\ ~a.error
    /\ code # "none" => p = "done"
    /\ p = "end" /\ a.error => a.message = "error"
    /\ S # {} \/ E # {} => /\ p \in Late => T # {} \/ a.error
                           /\ p = "done" => T # {} \/ TellsFailure(a, code)

RunOK(r, p, a, code, S, E, T) ==
    /\ EarlyOK(p, a, S, E, T)
    /\ CallOK(r, a, S, E)
    /\ AskOK(p, a, S, E)
    /\ AuditOK(r, p, a, E, T)
    /\ OutcomeOK(p, a, code, S, E, T)

RunsFit ==
    \A r \in Runs : RunOK(r, pc[r], agent[r], reply[r], PostOf(r), EffectsOf(r), AuditOf(r))

\* A row is there when its chat has asked, and holds what it asked for.
RowsFit ==
    \A c \in Chats : approvals[c].status # "absent" =>
        /\ agent[c].approval_required
        /\ pc[c] \in {"end", "done", "crashed"}
        /\ approvals[c].tool_name = "process_refund"
        /\ approvals[c].tool_args > Threshold

Resolved(c) == c \in Chats /\ approvals[c].status \in {"approved", "rejected"}

\* A decision that is not answered yet has a row; one that resumes has resolved it.
DecisionsFit ==
    \A d \in Decisions :
        /\ pc[d] \in Active =>
              decision[d].target \in Chats /\ approvals[decision[d].target].status # "absent"
        /\ (pc[d] \in Active \ {"resolve"} \/ PostOf(d) # {} \/ EffectsOf(d) # {}) =>
              decision[d].action = "approve" /\ Resolved(decision[d].target)

IInv == TypeOK /\ RunsFit /\ RowsFit /\ DecisionsFit

----------------------------------------------------------------------------
(* The shape of the steps.                                                 *)

Inside == (Nodes \ {"end"}) \cup {"calling", "auditing"}

\* A step that moves run r leaves the other runs as they are.
LEMMA MoveRunsFit ==
    ASSUME NEW r \in Runs, NEW from, NEW p, NEW a, TypeOK, RunsFit, Go(r, from, p, a),
           UNCHANGED <<issued, reply>>,
           \A s \in Runs \ {r} : PostOf(s)' = PostOf(s) /\ AuditOf(s)' = AuditOf(s),
           RunOK(r, p, a, reply[r], PostOf(r)', EffectsOf(r), AuditOf(r)')
    PROVE  RunsFit'
  <1> SUFFICES ASSUME NEW s \in Runs
               PROVE  RunOK(s, pc'[s], agent'[s], reply'[s],
                            PostOf(s)', EffectsOf(s)', AuditOf(s)')
    BY DEF RunsFit
  <1>1. EffectsOf(s)' = EffectsOf(s)
    BY DEF EffectsOf
  <1>2. CASE s = r
    BY <1>1, <1>2 DEF TypeOK, Go
  <1>3. CASE s # r
    <2>1. pc'[s] = pc[s] /\ agent'[s] = agent[s] /\ reply'[s] = reply[s]
      BY <1>3 DEF TypeOK, Go
    <2> QED BY <1>1, <1>3, <2>1 DEF RunsFit
  <1> QED BY <1>2, <1>3

\* A step of the graph that moves run r, and may touch the POST and the audit rows
\* of r.  No row depends on it: a chat with a row has reached the end.
LEMMA MoveIInv ==
    ASSUME NEW r \in Runs, NEW from, NEW p \in Inside \cup {"end"},
           NEW a \in AgentState, IInv, Go(r, from, p, a),
           from \in Inside \/ (from = "idle" /\ r \notin Decisions),
           UNCHANGED <<decision, approvals, issued, reply>>,
           posted' \subseteq Runs, audit' \subseteq Runs \X Tools,
           \A s \in Runs \ {r} : PostOf(s)' = PostOf(s) /\ AuditOf(s)' = AuditOf(s),
           RunOK(r, p, a, reply[r], PostOf(r)', EffectsOf(r), AuditOf(r)')
    PROVE  IInv'
  <1>1. TypeOK'
    BY DEF IInv, TypeOK, Go, Inside, Nodes, Active
  <1>2. RunsFit'
    BY MoveRunsFit DEF IInv
  <1>3. RowsFit'
    BY DEF IInv, TypeOK, RowsFit, Go, Inside, Nodes, Runs
  <1>4. DecisionsFit'
    <2> SUFFICES ASSUME NEW d \in Decisions
                 PROVE  /\ pc'[d] \in Active =>
                              /\ decision[d].target \in Chats
                              /\ approvals[decision[d].target].status # "absent"
                        /\ (pc'[d] \in Active \ {"resolve"} \/ PostOf(d)' # {} \/ EffectsOf(d)' # {}) =>
                              decision[d].action = "approve" /\ Resolved(decision[d].target)
      BY DEF DecisionsFit, Resolved
    <2>1. EffectsOf(d)' = EffectsOf(d)
      BY DEF EffectsOf
    <2>2. CASE d = r
      BY <2>2 DEF IInv, TypeOK, DecisionsFit, Go, Inside, Nodes, Active
    <2>3. CASE d # r
      BY <2>1, <2>3 DEF IInv, TypeOK, DecisionsFit, Go, Runs
    <2> QED BY <2>2, <2>3
  <1> QED BY <1>1, <1>2, <1>3, <1>4 DEF IInv

LEMMA SameSets ==
    ASSUME UNCHANGED <<posted, issued, audit>>, NEW r
    PROVE  PostOf(r)' = PostOf(r) /\ EffectsOf(r)' = EffectsOf(r) /\ AuditOf(r)' = AuditOf(r)
BY DEF PostOf, EffectsOf, AuditOf

\* A step of the graph that only moves its run.
LEMMA QuietMoveIInv ==
    ASSUME NEW r \in Runs, NEW from, NEW p \in Inside \cup {"end"},
           NEW a \in AgentState, IInv, Go(r, from, p, a),
           from \in Inside \/ (from = "idle" /\ r \notin Decisions),
           UNCHANGED <<decision, approvals, audit, posted, issued, reply>>,
           RunOK(r, p, a, reply[r], PostOf(r), EffectsOf(r), AuditOf(r))
    PROVE  IInv'
  <1>1. posted' \subseteq Runs /\ audit' \subseteq Runs \X Tools
    BY DEF IInv, TypeOK
  <1>2. \A s \in Runs : PostOf(s)' = PostOf(s) /\ AuditOf(s)' = AuditOf(s)
    BY SameSets
  <1> QED BY <1>1, <1>2, MoveIInv

\* A step that answers one run.
LEMMA FinishFits ==
    ASSUME NEW r \in Runs, NEW code, TypeOK, RunsFit, Finish(r, code),
           UNCHANGED <<agent, posted, issued, audit>>,
           RunOK(r, "done", agent[r], code, PostOf(r), EffectsOf(r), AuditOf(r))
    PROVE  RunsFit'
  <1> SUFFICES ASSUME NEW s \in Runs
               PROVE  RunOK(s, pc'[s], agent'[s], reply'[s],
                            PostOf(s)', EffectsOf(s)', AuditOf(s)')
    BY DEF RunsFit
  <1>1. /\ PostOf(s)' = PostOf(s) /\ EffectsOf(s)' = EffectsOf(s) /\ AuditOf(s)' = AuditOf(s)
    BY DEF PostOf, EffectsOf, AuditOf
  <1>2. CASE s = r
    BY <1>1, <1>2 DEF TypeOK, Finish
  <1>3. CASE s # r
    <2>1. pc'[s] = pc[s] /\ agent'[s] = agent[s] /\ reply'[s] = reply[s]
      BY <1>3 DEF TypeOK, Finish
    <2> QED BY <1>1, <2>1 DEF RunsFit
  <1> QED BY <1>2, <1>3

\* ... whose handler changes nothing else.
LEMMA FinishIInv ==
    ASSUME NEW r \in Runs, NEW code \in Replies, IInv, Finish(r, code),
           UNCHANGED <<agent, decision, approvals, posted, issued, audit>>,
           RunOK(r, "done", agent[r], code, PostOf(r), EffectsOf(r), AuditOf(r))
    PROVE  IInv'
  <1>1. TypeOK'
    BY DEF IInv, TypeOK, Finish
  <1>2. RunsFit'
    BY FinishFits DEF IInv
  <1>3. RowsFit'
    BY DEF IInv, TypeOK, RowsFit, Finish, Runs
  <1>4. DecisionsFit'
    <2>1. \A d \in Decisions : PostOf(d)' = PostOf(d) /\ EffectsOf(d)' = EffectsOf(d)
      BY DEF PostOf, EffectsOf
    <2>2. \A d \in Decisions : pc'[d] \in Active => pc'[d] = pc[d]
      BY DEF IInv, TypeOK, Finish, Runs, Active, Nodes
    <2> QED BY <2>1, <2>2 DEF IInv, DecisionsFit, Resolved
  <1> QED BY <1>1, <1>2, <1>3, <1>4 DEF IInv

----------------------------------------------------------------------------
(* The initial states, and one lemma for each action.                      *)

LEMMA InitIInv == Init => IInv
  <1> SUFFICES ASSUME Init PROVE IInv
    OBVIOUS
  <1>1. TypeOK
    BY DEF Init, TypeOK, InitialState, AgentState, Row, Replies, Effect
  <1>2. RunsFit
    <2> SUFFICES ASSUME NEW r \in Runs
                 PROVE  RunOK(r, pc[r], agent[r], reply[r], PostOf(r), EffectsOf(r), AuditOf(r))
      BY DEF RunsFit
    <2>1. PostOf(r) = {} /\ EffectsOf(r) = {} /\ AuditOf(r) = {}
      BY DEF Init, PostOf, EffectsOf, AuditOf
    <2>2. pc[r] = "idle" /\ agent[r] = InitialState("none", NoAmount, "none") /\ reply[r] = "none"
      BY DEF Init
    <2> QED BY <2>1, <2>2 DEF RunOK, EarlyOK, CallOK, AskOK, AuditOK, OutcomeOK, InitialState, Late
  <1>3. RowsFit
    BY DEF Init, RowsFit
  <1>4. DecisionsFit
    BY DEF Init, DecisionsFit, PostOf, EffectsOf, Active, Nodes, Runs
  <1> QED BY <1>1, <1>2, <1>3, <1>4 DEF IInv

\* What the invariant says of one run.
LEMMA RunState ==
    ASSUME NEW r \in Runs, IInv
    PROVE  /\ agent[r] \in AgentState
           /\ RunOK(r, pc[r], agent[r], reply[r], PostOf(r), EffectsOf(r), AuditOf(r))
BY DEF IInv, TypeOK, RunsFit

LEMMA PlanActionIInv ==
    ASSUME NEW r \in Runs, IInv, PlanAction(r) PROVE IInv'
  <1>1. PICK m \in LLMReplies : Go(r, "plan_action", "execute_tool", Planned(agent[r], m))
    BY DEF PlanAction
  <1> DEFINE a == Planned(agent[r], m)
  <1>2. m \in LLMReply
    BY ApprovalConstants
  <1>3. agent[r] \in AgentState
    BY RunState
  <1>4. a \in AgentState
    BY <1>2, <1>3 DEF Planned, LLMReply, Calls, AgentState, Fail
  <1>5. /\ a.approval_required = agent[r].approval_required
        /\ a.tool_result = agent[r].tool_result
        /\ a.message = agent[r].message \/ a.message = "answer"
    BY <1>2, <1>3 DEF Planned, LLMReply, Calls, AgentState, Fail
  <1>6. RunOK(r, pc[r], agent[r], reply[r], PostOf(r), EffectsOf(r), AuditOf(r))
    BY RunState
  <1>7. pc[r] = "plan_action"
    BY <1>1 DEF Go
  <1>8. RunOK(r, "execute_tool", a, reply[r], PostOf(r), EffectsOf(r), AuditOf(r))
    BY <1>5, <1>6, <1>7
       DEF RunOK, EarlyOK, CallOK, AskOK, AuditOK, OutcomeOK, Early, Late
  <1> QED
    BY <1>1, <1>4, <1>8, QuietMoveIInv DEF PlanAction, Inside, Nodes

LEMMA ExecuteNothingIInv ==
    ASSUME NEW r \in Runs, IInv, ExecuteNothing(r) PROVE IInv'
  <1> DEFINE a == agent[r]
  <1> DEFINE p == CheckApproval(agent[r])
  <1>1. Go(r, "execute_tool", p, a)
    BY DEF ExecuteNothing
  <1>2. a \in AgentState /\ p \in Inside \cup {"end"}
    BY RunState DEF AgentState, CheckApproval, Inside, Nodes
  <1>3. RunOK(r, p, a, reply[r], PostOf(r), EffectsOf(r), AuditOf(r))
    BY RunState DEF ExecuteNothing, Go, RunOK, EarlyOK, CallOK, AskOK, AuditOK, OutcomeOK, Early, Late,
       CheckApproval, AgentState, Skips
  <1> QED
    BY <1>1, <1>2, <1>3, QuietMoveIInv DEF ExecuteNothing, Inside, Nodes

LEMMA AskApprovalIInv ==
    ASSUME NEW r \in Runs, IInv, AskApproval(r) PROVE IInv'
  <1> DEFINE a == [agent[r] EXCEPT !.approval_required = TRUE, !.tool_result = "approval"]
  <1> DEFINE p == CheckApproval(a)
  <1>1. Go(r, "execute_tool", p, a)
    BY DEF AskApproval
  <1>2. a \in AgentState /\ p \in Inside \cup {"end"}
    BY RunState DEF AgentState, CheckApproval, Inside, Nodes
  <1>3. RunOK(r, p, a, reply[r], PostOf(r), EffectsOf(r), AuditOf(r))
    BY RunState DEF AskApproval, Go, RunOK, EarlyOK, CallOK, AskOK, AuditOK, OutcomeOK, Early, Late,
       CheckApproval, AgentState, Skips, NeedsApproval
  <1> QED
    BY <1>1, <1>2, <1>3, QuietMoveIInv DEF AskApproval, Inside, Nodes

LEMMA NoteToolIInv ==
    ASSUME NEW r \in Runs, IInv, NoteTool(r) PROVE IInv'
  <1> DEFINE a == [agent[r] EXCEPT !.tool_result = "success"]
  <1> DEFINE p == "auditing"
  <1>1. Go(r, "execute_tool", p, a)
    BY DEF NoteTool
  <1>2. a \in AgentState /\ p \in Inside \cup {"end"}
    BY RunState DEF AgentState, CheckApproval, Inside, Nodes
  <1>3. RunOK(r, p, a, reply[r], PostOf(r), EffectsOf(r), AuditOf(r))
    BY RunState DEF NoteTool, Go, RunOK, EarlyOK, CallOK, AskOK, AuditOK, OutcomeOK, Early, Late,
       CheckApproval, AgentState, Skips, NeedsApproval, Tools, CallingTools, CallOf
  <1> QED
    BY <1>1, <1>2, <1>3, QuietMoveIInv DEF NoteTool, Inside, Nodes

LEMMA CallReturnsIInv ==
    ASSUME NEW r \in Runs, IInv, CallReturns(r) PROVE IInv'
  <1> DEFINE a == [agent[r] EXCEPT !.tool_result = "success"]
  <1>1. Go(r, "calling", "auditing", a)
    BY DEF CallReturns
  <1>2. /\ a \in AgentState
        /\ CallOf(r, a) = CallOf(r, agent[r])
        /\ NeedsApproval(a) = NeedsApproval(agent[r])
        /\ a.current_tool = agent[r].current_tool
        /\ a.approval_required = agent[r].approval_required
        /\ a.tool_result = "success"
        /\ a.message = agent[r].message
        /\ a.error = agent[r].error
    BY RunState DEF AgentState, CallOf, NeedsApproval
  <1>3. CallOf(r, agent[r]) \in EffectsOf(r)
    BY DEF CallReturns, EffectOf, CallOf, EffectsOf
  <1>4. agent[r].current_tool \in CallingTools
    BY <1>3 DEF IInv, TypeOK, Effect, CallOf, EffectsOf
  <1>5. RunOK(r, "calling", agent[r], reply[r], PostOf(r), EffectsOf(r), AuditOf(r))
    BY <1>1, RunState DEF Go
  <1> HIDE DEF a
  <1>6. RunOK(r, "auditing", a, reply[r], PostOf(r), EffectsOf(r), AuditOf(r))
    <2>1. EarlyOK("auditing", a, PostOf(r), EffectsOf(r), AuditOf(r))
      BY DEF EarlyOK, Early
    <2>2. CallOK(r, a, PostOf(r), EffectsOf(r))
      BY <1>2, <1>5 DEF RunOK, CallOK
    <2>3. AskOK("auditing", a, PostOf(r), EffectsOf(r))
      BY <1>2, <1>5 DEF RunOK, AskOK, Late
    <2>4. AuditOK(r, "auditing", a, EffectsOf(r), AuditOf(r))
      BY <1>2, <1>3, <1>4, <1>5 DEF RunOK, AuditOK, CallOK, Tools
    <2>5. OutcomeOK("auditing", a, reply[r], PostOf(r), EffectsOf(r), AuditOf(r))
      BY <1>2, <1>5 DEF RunOK, OutcomeOK, Late
    <2> QED BY <2>1, <2>2, <2>3, <2>4, <2>5 DEF RunOK
  <1> QED
    BY <1>1, <1>2, <1>6, QuietMoveIInv DEF CallReturns, Inside, Nodes, a

\* Failing leaves the call of a run as it is, and suits a run that was calling or
\* writing its audit row.
LEMMA FailOK ==
    ASSUME NEW r \in Runs, IInv, pc[r] \in {"calling", "auditing"},
           NEW T, AuditOf(r) \subseteq T, T \subseteq AuditOf(r) \cup {agent[r].current_tool},
           pc[r] = "auditing" \/ T = AuditOf(r),
           NEW a, a = Fail(agent[r])
    PROVE  /\ a \in AgentState
           /\ CheckApproval(a) = "generate_response"
           /\ RunOK(r, "generate_response", a, reply[r], PostOf(r), EffectsOf(r), T)
  <1>1. /\ a \in AgentState
        /\ CallOf(r, a) = CallOf(r, agent[r])
        /\ NeedsApproval(a) = NeedsApproval(agent[r])
        /\ a.current_tool = agent[r].current_tool
        /\ a.approval_required = agent[r].approval_required
        /\ a.tool_result = agent[r].tool_result
        /\ a.message = agent[r].message
        /\ a.error
    BY RunState DEF AgentState, CallOf, NeedsApproval, Fail
  <1>2. RunOK(r, pc[r], agent[r], reply[r], PostOf(r), EffectsOf(r), AuditOf(r))
    BY RunState
  <1>3. ~a.approval_required
    BY <1>1, <1>2 DEF RunOK, AskOK, Late
  <1>4. EarlyOK("generate_response", a, PostOf(r), EffectsOf(r), T)
    BY DEF EarlyOK, Early
  <1>5. CallOK(r, a, PostOf(r), EffectsOf(r))
    BY <1>1, <1>2 DEF RunOK, CallOK
  <1>6. AskOK("generate_response", a, PostOf(r), EffectsOf(r))
    BY <1>1, <1>2, <1>3 DEF RunOK, AskOK
  <1>7. AuditOK(r, "generate_response", a, EffectsOf(r), T)
    BY <1>1, <1>2 DEF RunOK, AuditOK
  <1>8. agent[r].message # "done"
    BY <1>2, <1>3, <1>1 DEF RunOK, OutcomeOK
  <1>9. OutcomeOK("generate_response", a, reply[r], PostOf(r), EffectsOf(r), T)
    BY <1>1, <1>2, <1>8 DEF RunOK, OutcomeOK
  <1> QED
    BY <1>1, <1>3, <1>4, <1>5, <1>6, <1>7, <1>9 DEF RunOK, CheckApproval

LEMMA CallFailsIInv ==
    ASSUME NEW r \in Runs, IInv, CallFails(r) PROVE IInv'
  <1>1. Go(r, "calling", CheckApproval(Fail(agent[r])), Fail(agent[r]))
    BY DEF CallFails
  <1>2. pc[r] = "calling"
    BY <1>1 DEF Go
  <1>3. /\ Fail(agent[r]) \in AgentState
        /\ CheckApproval(Fail(agent[r])) = "generate_response"
        /\ RunOK(r, "generate_response", Fail(agent[r]), reply[r],
                 PostOf(r), EffectsOf(r), AuditOf(r))
    BY <1>2, FailOK
  <1> QED
    BY <1>1, <1>3, QuietMoveIInv DEF CallFails, Inside, Nodes

LEMMA GenerateResponseIInv ==
    ASSUME NEW r \in Runs, IInv, GenerateResponse(r) PROVE IInv'
  <1> DEFINE a == [agent[r] EXCEPT !.message = ResponseMessage(agent[r]), !.completed = TRUE]
  <1> DEFINE p == "end"
  <1>1. Go(r, "generate_response", p, a)
    BY DEF GenerateResponse
  <1>2. a \in AgentState /\ p \in Inside \cup {"end"}
    BY RunState DEF AgentState, CheckApproval, Inside, Nodes, ResponseMessage
  <1>3. RunOK(r, p, a, reply[r], PostOf(r), EffectsOf(r), AuditOf(r))
    BY RunState DEF GenerateResponse, Go, RunOK, EarlyOK, CallOK, AskOK, AuditOK, OutcomeOK, Early, Late,
       CheckApproval, AgentState, ResponseMessage, ResponseRaises, NeedsApproval, CallOf
  <1> QED
    BY <1>1, <1>2, <1>3, QuietMoveIInv DEF GenerateResponse, Inside, Nodes

LEMMA CallToolIInv ==
    ASSUME NEW r \in Runs, IInv, CallTool(r) PROVE IInv'
  <1>1. Go(r, "execute_tool", "calling", agent[r])
    BY DEF CallTool
  <1>2. PostOf(r)' = {r} /\ AuditOf(r)' = AuditOf(r)
    BY DEF CallTool, PostOf, AuditOf
  <1>3. \A s \in Runs \ {r} : PostOf(s)' = PostOf(s) /\ AuditOf(s)' = AuditOf(s)
    BY DEF CallTool, PostOf, AuditOf
  <1>4. posted' \subseteq Runs /\ audit' \subseteq Runs \X Tools
    BY DEF CallTool, IInv, TypeOK
  <1>5. agent[r].current_tool \in CallingTools /\ ~NeedsApproval(agent[r])
    BY DEF CallTool
  <1>6. RunOK(r, "execute_tool", agent[r], reply[r], PostOf(r), EffectsOf(r), AuditOf(r))
    BY <1>1, RunState DEF Go
  <1>7. RunOK(r, "calling", agent[r], reply[r], PostOf(r)', EffectsOf(r), AuditOf(r)')
    BY <1>2, <1>5, <1>6
       DEF RunOK, EarlyOK, CallOK, AskOK, AuditOK, OutcomeOK, Early, Late
  <1> QED
    BY <1>1, <1>3, <1>4, <1>7, RunState, MoveIInv DEF CallTool, Inside, Nodes

\* The audit row of a run is the row of its tool.
LEMMA AuditStep ==
    ASSUME NEW r \in Runs, IInv, pc[r] = "auditing",
           audit' = audit \cup {<<r, agent[r].current_tool>>}
    PROVE  /\ agent[r].current_tool \in Tools
           /\ audit' \subseteq Runs \X Tools
           /\ AuditOf(r)' = AuditOf(r) \cup {agent[r].current_tool}
           /\ \A s \in Runs \ {r} : AuditOf(s)' = AuditOf(s)
  <1>1. agent[r].current_tool \in Tools
    BY RunState DEF RunOK, AuditOK
  <1>2. audit' \subseteq Runs \X Tools
    BY <1>1 DEF IInv, TypeOK
  <1>3. AuditOf(r)' = AuditOf(r) \cup {agent[r].current_tool}
    BY <1>1 DEF AuditOf
  <1>4. \A s \in Runs \ {r} : AuditOf(s)' = AuditOf(s)
    BY DEF AuditOf
  <1> QED BY <1>1, <1>2, <1>3, <1>4

LEMMA AuditLogIInv ==
    ASSUME NEW r \in Runs, IInv, AuditLog(r) PROVE IInv'
  <1>1. Go(r, "auditing", CheckApproval(agent[r]), agent[r])
    BY DEF AuditLog
  <1>2. pc[r] = "auditing"
    BY <1>1 DEF Go
  <1>3. /\ agent[r].current_tool \in Tools
        /\ audit' \subseteq Runs \X Tools
        /\ AuditOf(r)' = AuditOf(r) \cup {agent[r].current_tool}
        /\ \A s \in Runs \ {r} : AuditOf(s)' = AuditOf(s)
    BY <1>2, AuditStep DEF AuditLog
  <1>4. \A s \in Runs : PostOf(s)' = PostOf(s)
    BY DEF AuditLog, PostOf
  <1>5. RunOK(r, "auditing", agent[r], reply[r], PostOf(r), EffectsOf(r), AuditOf(r))
    BY <1>2, RunState
  <1>6. CheckApproval(agent[r]) = "generate_response"
    BY <1>5 DEF RunOK, AskOK, CheckApproval, Late
  <1>7. RunOK(r, "generate_response", agent[r], reply[r], PostOf(r)', EffectsOf(r), AuditOf(r)')
    BY <1>3, <1>4, <1>5
       DEF RunOK, EarlyOK, CallOK, AskOK, AuditOK, OutcomeOK, Early, Late
  <1>8. posted' \subseteq Runs
    BY DEF AuditLog, IInv, TypeOK
  <1> QED
    BY <1>1, <1>3, <1>4, <1>6, <1>7, <1>8, RunState, MoveIInv DEF AuditLog, Inside, Nodes

LEMMA AuditFailsIInv ==
    ASSUME NEW r \in Runs, IInv, AuditFails(r) PROVE IInv'
  <1> DEFINE a == Fail(agent[r])
  <1>1. Go(r, "auditing", CheckApproval(a), a)
    BY DEF AuditFails
  <1>2. pc[r] = "auditing"
    BY <1>1 DEF Go
  <1>3. /\ agent[r].current_tool \in Tools
        /\ AuditOf(r)' \in {AuditOf(r), AuditOf(r) \cup {agent[r].current_tool}}
        /\ audit' \subseteq Runs \X Tools
        /\ \A s \in Runs \ {r} : AuditOf(s)' = AuditOf(s)
    <2>1. CASE UNCHANGED audit
      BY <1>2, <2>1, RunState DEF IInv, TypeOK, AuditOf, RunOK, AuditOK
    <2>2. CASE audit' = audit \cup {<<r, agent[r].current_tool>>}
      BY <1>2, <2>2, AuditStep
    <2> QED BY <2>1, <2>2 DEF AuditFails
  <1>4. \A s \in Runs : PostOf(s)' = PostOf(s)
    BY DEF AuditFails, PostOf
  <1>5. /\ a \in AgentState
        /\ CheckApproval(a) = "generate_response"
        /\ RunOK(r, "generate_response", a, reply[r], PostOf(r), EffectsOf(r), AuditOf(r)')
    BY <1>2, <1>3, FailOK
  <1>6. posted' \subseteq Runs
    BY DEF AuditFails, IInv, TypeOK
  <1> QED
    BY <1>1, <1>3, <1>4, <1>5, <1>6, MoveIInv DEF AuditFails, Inside, Nodes

\* A request that has not started can start from any fresh state.
LEMMA FreshOK ==
    ASSUME NEW r \in Runs, IInv, pc[r] = "idle",
           NEW tool \in Tools \cup {"none"}, NEW amount \in Amounts \cup {NoAmount},
           NEW status \in {"none", "approved"}, NEW p \in {"plan_action", "resolve"}
    PROVE  /\ InitialState(tool, amount, status) \in AgentState
           /\ RunOK(r, p, InitialState(tool, amount, status), reply[r],
                    PostOf(r), EffectsOf(r), AuditOf(r))
  <1>1. InitialState(tool, amount, status) \in AgentState
    BY DEF InitialState, AgentState
  <1>2. RunOK(r, "idle", agent[r], reply[r], PostOf(r), EffectsOf(r), AuditOf(r))
    BY RunState
  <1> QED
    BY <1>1, <1>2
       DEF RunOK, EarlyOK, CallOK, AskOK, AuditOK, OutcomeOK, Early, Late, InitialState

LEMMA ReceiveIInv ==
    ASSUME NEW c \in Chats, IInv, Receive(c) PROVE IInv'
  <1> DEFINE a == InitialState("none", NoAmount, "none")
  <1>1. c \in Runs /\ c \notin Decisions
    BY ApprovalConstants DEF Runs
  <1>2. Go(c, "idle", "plan_action", a) /\ pc[c] = "idle"
    BY DEF Receive, Go
  <1>3. a \in AgentState /\
        RunOK(c, "plan_action", a, reply[c], PostOf(c), EffectsOf(c), AuditOf(c))
    BY <1>1, <1>2, FreshOK
  <1> QED
    BY <1>1, <1>2, <1>3, QuietMoveIInv DEF Receive, Inside, Nodes

LEMMA SelectPendingIInv ==
    ASSUME NEW d \in Decisions, NEW c \in Chats, NEW action \in {"approve", "reject"},
           IInv, SelectPending(d, c, action)
    PROVE  IInv'
  <1> DEFINE a == InitialState(approvals[c].tool_name, approvals[c].tool_args, "approved")
  <1>1. d \in Runs /\ d \notin Chats
    BY ApprovalConstants DEF Runs
  <1>2. Go(d, "idle", "resolve", a) /\ pc[d] = "idle"
    BY DEF SelectPending, Go
  <1>3. a \in AgentState /\
        RunOK(d, "resolve", a, reply[d], PostOf(d), EffectsOf(d), AuditOf(d))
    BY <1>1, <1>2, FreshOK DEF IInv, TypeOK, Row
  <1>4. TypeOK'
    BY <1>2, <1>3 DEF SelectPending, IInv, TypeOK, Go, Active
  <1>5. RunsFit'
    BY <1>1, <1>2, <1>3, SameSets, MoveRunsFit DEF SelectPending, IInv
  <1>6. RowsFit'
    BY <1>1, <1>2 DEF SelectPending, IInv, TypeOK, RowsFit, Go, Runs
  <1>7. DecisionsFit'
    <2> SUFFICES ASSUME NEW e \in Decisions
                 PROVE  /\ pc'[e] \in Active =>
                              /\ decision'[e].target \in Chats
                              /\ approvals[decision'[e].target].status # "absent"
                        /\ (pc'[e] \in Active \ {"resolve"} \/ PostOf(e) # {} \/ EffectsOf(e) # {}) =>
                              decision'[e].action = "approve" /\ Resolved(decision'[e].target)
      BY SameSets DEF SelectPending, DecisionsFit, Resolved
    <2>1. CASE e = d
      <3>1. PostOf(d) = {} /\ EffectsOf(d) = {}
        BY <1>1, <1>2, RunState DEF RunOK, EarlyOK, Early
      <3> QED BY <1>2, <2>1, <3>1 DEF SelectPending, IInv, TypeOK, Go, Runs
    <2>2. CASE e # d
      BY <1>2, <2>2 DEF SelectPending, IInv, TypeOK, DecisionsFit, Go, Runs
    <2> QED BY <2>1, <2>2
  <1> QED BY <1>4, <1>5, <1>6, <1>7 DEF IInv

\* An answer suits a run that has not called anybody.
LEMMA EarlyFinishOK ==
    ASSUME NEW r \in Runs, IInv, pc[r] \in Early, NEW code
    PROVE  RunOK(r, "done", agent[r], code, PostOf(r), EffectsOf(r), AuditOf(r))
BY RunState DEF RunOK, EarlyOK, CallOK, AskOK, AuditOK, OutcomeOK, Early, Late

LEMMA SelectNothingIInv ==
    ASSUME NEW d \in Decisions, NEW c \in Chats, IInv, SelectNothing(d, c)
    PROVE  IInv'
  <1>1. d \in Runs /\ pc[d] \in Early /\ "not_found" \in Replies
    BY DEF SelectNothing, Runs, Early, Replies
  <1> QED
    BY <1>1, EarlyFinishOK, FinishIInv DEF SelectNothing

LEMMA SelectFailsIInv ==
    ASSUME NEW d \in Decisions, IInv, SelectFails(d)
    PROVE  IInv'
  <1>1. d \in Runs /\ pc[d] \in Early /\ "exception" \in Replies
    BY DEF SelectFails, Runs, Early, Replies
  <1> QED
    BY <1>1, EarlyFinishOK, FinishIInv DEF SelectFails

\* An UPDATE resolves the row of its decision, and keeps every row a row.
LEMMA ResolutionStep ==
    ASSUME NEW d \in Decisions, IInv, pc[d] = "resolve",
           approvals' = Resolution(decision[d].target, decision[d].action)
    PROVE  /\ approvals' \in [Chats -> Row]
           /\ decision[d].target \in Chats
           /\ approvals'[decision[d].target].status \in {"approved", "rejected"}
           /\ \A c \in Chats :
                 /\ approvals[c].status = "absent" <=> approvals'[c].status = "absent"
                 /\ approvals'[c].tool_name = approvals[c].tool_name
                 /\ approvals'[c].tool_args = approvals[c].tool_args
                 /\ approvals[c].status \in {"approved", "rejected"} =>
                       approvals'[c].status \in {"approved", "rejected"}
  <1>1. decision[d].target \in Chats /\ approvals[decision[d].target].status # "absent"
    BY DEF IInv, DecisionsFit, Active
  <1>2. approvals \in [Chats -> Row]
    BY DEF IInv, TypeOK
  <1>3. StatusOf(decision[d].action) \in {"approved", "rejected"}
    BY DEF StatusOf
  <1>4. approvals' = [approvals EXCEPT ![decision[d].target].status = StatusOf(decision[d].action)]
    BY DEF Resolution
  <1>5. approvals' \in [Chats -> Row]
    BY <1>1, <1>2, <1>3, <1>4 DEF Row
  <1>6. \A c \in Chats :
          /\ approvals'[c].tool_name = approvals[c].tool_name
          /\ approvals'[c].tool_args = approvals[c].tool_args
          /\ c # decision[d].target => approvals'[c] = approvals[c]
          /\ c = decision[d].target => approvals'[c].status \in {"approved", "rejected"}
    BY <1>1, <1>2, <1>3, <1>4 DEF Row
  <1> QED
    BY <1>1, <1>5, <1>6

LEMMA ResolveIInv ==
    ASSUME NEW d \in Decisions, IInv, Resolve(d) PROVE IInv'
  <1>1. d \in Runs /\ d \notin Chats /\ pc[d] = "resolve"
    BY ApprovalConstants DEF Resolve, Runs
  <1>2. /\ approvals' \in [Chats -> Row]
        /\ decision[d].target \in Chats
        /\ approvals'[decision[d].target].status \in {"approved", "rejected"}
        /\ \A c \in Chats :
              /\ approvals[c].status = "absent" <=> approvals'[c].status = "absent"
              /\ approvals'[c].tool_name = approvals[c].tool_name
              /\ approvals'[c].tool_args = approvals[c].tool_args
              /\ approvals[c].status \in {"approved", "rejected"} =>
                    approvals'[c].status \in {"approved", "rejected"}
    BY <1>1, ResolutionStep DEF Resolve
  <1>3. /\ agent' = agent
        /\ \A s \in Runs \ {d} : pc'[s] = pc[s]
        /\ \/ pc'[d] = "plan_action" /\ decision[d].action = "approve"
           \/ pc'[d] = "done"
    BY <1>1 DEF Resolve, Go, Finish, IInv, TypeOK
  <1>4. TypeOK'
    BY <1>1, <1>2, <1>3 DEF Resolve, Go, Finish, IInv, TypeOK, Replies, Active, Nodes
  <1>5. RunsFit'
    <2>1. CASE Go(d, "resolve", "plan_action", agent[d]) /\ UNCHANGED reply
      <3>1. RunOK(d, "plan_action", agent[d], reply[d], PostOf(d), EffectsOf(d), AuditOf(d))
        BY <1>1, RunState DEF RunOK, EarlyOK, CallOK, AskOK, AuditOK, OutcomeOK, Early, Late
      <3> QED BY <1>1, <2>1, <3>1, SameSets, MoveRunsFit DEF Resolve, IInv
    <2>2. CASE Finish(d, "rejected") /\ UNCHANGED agent
      BY <1>1, <2>2, EarlyFinishOK, FinishFits DEF Resolve, IInv, Early
    <2> QED BY <2>1, <2>2 DEF Resolve
  <1>6. RowsFit'
    BY <1>1, <1>2, <1>3 DEF IInv, RowsFit, Runs
  <1>7. DecisionsFit'
    <2> SUFFICES ASSUME NEW e \in Decisions
                 PROVE  /\ pc'[e] \in Active =>
                              /\ decision[e].target \in Chats
                              /\ approvals'[decision[e].target].status # "absent"
                        /\ (pc'[e] \in Active \ {"resolve"} \/ PostOf(e) # {} \/ EffectsOf(e) # {}) =>
                              /\ decision[e].action = "approve"
                              /\ decision[e].target \in Chats
                              /\ approvals'[decision[e].target].status \in {"approved", "rejected"}
      BY SameSets DEF Resolve, DecisionsFit, Resolved
    <2>1. CASE e = d
      <3>1. PostOf(d) = {} /\ EffectsOf(d) = {}
        BY <1>1, RunState DEF RunOK, EarlyOK, Early
      <3> QED BY <1>2, <1>3, <2>1, <3>1 DEF Active, Nodes
    <2>2. CASE e # d
      BY <1>2, <1>3, <2>2 DEF IInv, DecisionsFit, Resolved, Runs
    <2> QED BY <2>1, <2>2
  <1> QED BY <1>4, <1>5, <1>6, <1>7 DEF IInv

LEMMA ResolveFailsIInv ==
    ASSUME NEW d \in Decisions, IInv, ResolveFails(d) PROVE IInv'
  <1>1. d \in Runs /\ d \notin Chats /\ pc[d] = "resolve" /\ pc[d] \in Early
    BY ApprovalConstants DEF ResolveFails, Runs, Early
  <1>2. /\ "exception" \in Replies
        /\ Finish(d, "exception")
        /\ UNCHANGED <<agent, decision, posted, issued, audit>>
    BY DEF ResolveFails, Replies
  <1>3. RunOK(d, "done", agent[d], "exception", PostOf(d), EffectsOf(d), AuditOf(d))
    BY <1>1, EarlyFinishOK
  <1>4. CASE UNCHANGED approvals
    BY <1>1, <1>2, <1>3, <1>4, FinishIInv
  <1>5. CASE approvals' = Resolution(decision[d].target, decision[d].action)
    <2>1. /\ approvals' \in [Chats -> Row]
          /\ \A c \in Chats :
                /\ approvals[c].status = "absent" <=> approvals'[c].status = "absent"
                /\ approvals'[c].tool_name = approvals[c].tool_name
                /\ approvals'[c].tool_args = approvals[c].tool_args
                /\ approvals[c].status \in {"approved", "rejected"} =>
                      approvals'[c].status \in {"approved", "rejected"}
      BY <1>1, <1>5, ResolutionStep
    <2>2. TypeOK'
      BY <1>2, <2>1 DEF Finish, IInv, TypeOK
    <2>3. RunsFit'
      BY <1>1, <1>2, <1>3, FinishFits DEF IInv
    <2>4. RowsFit'
      BY <1>1, <1>2, <2>1 DEF Finish, IInv, TypeOK, RowsFit, Runs
    <2>5. DecisionsFit'
      <3>1. \A e \in Decisions : PostOf(e)' = PostOf(e) /\ EffectsOf(e)' = EffectsOf(e)
        BY <1>2 DEF PostOf, EffectsOf
      <3>2. \A e \in Decisions : pc'[e] \in Active => pc'[e] = pc[e]
        BY <1>2 DEF IInv, TypeOK, Finish, Runs, Active, Nodes
      <3> QED BY <1>2, <2>1, <3>1, <3>2 DEF IInv, DecisionsFit, Resolved
    <2> QED BY <2>2, <2>3, <2>4, <2>5 DEF IInv
  <1> QED BY <1>4, <1>5 DEF ResolveFails

LEMMA AnswerIInv ==
    ASSUME NEW r \in Runs, IInv, Answer(r) PROVE IInv'
  <1> DEFINE code == CASE r \in Decisions -> "approved"
                       [] r \notin Decisions /\ agent[r].error -> "agent_error"
                       [] OTHER -> "ok"
  <1>1. pc[r] = "end" /\ Finish(r, code)
    BY DEF Answer
  <1>2. code \in Replies /\ (agent[r].error => code \in {"approved", "agent_error"})
    BY DEF Replies
  <1>3. RunOK(r, "end", agent[r], reply[r], PostOf(r), EffectsOf(r), AuditOf(r))
    BY <1>1, RunState
  <1> HIDE DEF code
  <1>4. RunOK(r, "done", agent[r], code, PostOf(r), EffectsOf(r), AuditOf(r))
    BY <1>2, <1>3 DEF RunOK, EarlyOK, CallOK, AskOK, AuditOK, OutcomeOK, Early, Late, TellsFailure
  <1> QED
    BY <1>1, <1>2, <1>4, FinishIInv DEF Answer

\* An exception that leaves the graph between two nodes suits any run.
LEMMA RaiseOK ==
    ASSUME NEW r \in Runs, IInv, pc[r] \in Nodes
    PROVE  /\ "exception" \in Replies
           /\ RunOK(r, "done", agent[r], "exception", PostOf(r), EffectsOf(r), AuditOf(r))
BY RunState
   DEF RunOK, EarlyOK, CallOK, AskOK, AuditOK, OutcomeOK, Early, Late, TellsFailure, Nodes, Replies

LEMMA ResponseFailsIInv ==
    ASSUME NEW r \in Runs, IInv, ResponseFails(r) PROVE IInv'
BY RaiseOK, FinishIInv DEF ResponseFails, Nodes

LEMMA GraphRaisesIInv ==
    ASSUME NEW r \in Runs, IInv, GraphRaises(r) PROVE IInv'
BY RaiseOK, FinishIInv DEF GraphRaises

\* At the gate a chat has no row, has called nobody and wants more than the threshold.
LEMMA GateState ==
    ASSUME NEW c \in Chats, IInv, pc[c] = "approval_gate"
    PROVE  /\ c \in Runs /\ c \notin Decisions
           /\ approvals[c].status = "absent"
           /\ agent[c].approval_required
           /\ agent[c].current_tool = "process_refund"
           /\ agent[c].tool_args > Threshold
           /\ PostOf(c) = {} /\ EffectsOf(c) = {}
           /\ PendingRow(agent[c]) \in Row
           /\ PendingRow(agent[c]).status = "pending"
           /\ PendingRow(agent[c]).tool_name = "process_refund"
           /\ PendingRow(agent[c]).tool_args > Threshold
  <1>1. c \in Runs /\ c \notin Decisions
    BY ApprovalConstants DEF Runs
  <1>2. /\ agent[c].approval_required
        /\ NeedsApproval(agent[c])
        /\ PostOf(c) = {} /\ EffectsOf(c) = {}
    BY <1>1, RunState DEF RunOK, AskOK
  <1>3. approvals[c].status = "absent"
    BY DEF IInv, RowsFit
  <1> QED
    BY <1>1, <1>2, <1>3, RunState DEF NeedsApproval, PendingRow, Row, AgentState

LEMMA ApprovalGateIInv ==
    ASSUME NEW c \in Chats, IInv, ApprovalGate(c) PROVE IInv'
  <1> DEFINE a == [agent[c] EXCEPT !.message = "pending", !.completed = TRUE]
  <1>1. Go(c, "approval_gate", "end", a) /\ pc[c] = "approval_gate"
    BY DEF ApprovalGate, Go
  <1>2. /\ c \in Runs /\ c \notin Decisions
        /\ agent[c].approval_required
        /\ PendingRow(agent[c]) \in Row
        /\ PendingRow(agent[c]).status = "pending"
        /\ PendingRow(agent[c]).tool_name = "process_refund"
        /\ PendingRow(agent[c]).tool_args > Threshold
        /\ approvals[c].status = "absent"
        /\ PostOf(c) = {} /\ EffectsOf(c) = {}
    BY <1>1, GateState
  <1>3. /\ a \in AgentState
        /\ a.approval_required = agent[c].approval_required
        /\ a.tool_result = agent[c].tool_result
        /\ a.error = agent[c].error
        /\ a.current_tool = agent[c].current_tool
        /\ NeedsApproval(a) = NeedsApproval(agent[c])
        /\ a.message = "pending"
    BY <1>2, RunState DEF AgentState, NeedsApproval
  <1>4. RunOK(c, "approval_gate", agent[c], reply[c], PostOf(c), EffectsOf(c), AuditOf(c))
    BY <1>1, <1>2, RunState
  <1>5. approvals' = [approvals EXCEPT ![c] = PendingRow(agent[c])]
    BY DEF ApprovalGate
  <1> HIDE DEF a
  <1>6. RunOK(c, "end", a, reply[c], PostOf(c), EffectsOf(c), AuditOf(c))
    BY <1>2, <1>3, <1>4
       DEF RunOK, EarlyOK, CallOK, AskOK, AuditOK, OutcomeOK, Early, Late
  <1>7. TypeOK'
    BY <1>1, <1>2, <1>3, <1>5 DEF ApprovalGate, IInv, TypeOK, Go, Active, Nodes
  <1>8. RunsFit'
    BY <1>1, <1>2, <1>6, SameSets, MoveRunsFit DEF ApprovalGate, IInv
  <1>9. RowsFit'
    BY <1>1, <1>2, <1>3, <1>5 DEF IInv, TypeOK, RowsFit, Go, Runs
  <1>10. DecisionsFit'
    BY <1>1, <1>2, <1>5, SameSets DEF ApprovalGate, IInv, TypeOK, DecisionsFit, Go, Runs, Resolved
  <1> QED BY <1>7, <1>8, <1>9, <1>10 DEF IInv

LEMMA GateFailsIInv ==
    ASSUME NEW c \in Chats, IInv, GateFails(c) PROVE IInv'
  <1>1. pc[c] = "approval_gate" /\ pc[c] \in Nodes
    BY DEF GateFails, Nodes
  <1>2. /\ c \in Runs /\ c \notin Decisions
        /\ agent[c].approval_required
        /\ PendingRow(agent[c]) \in Row
        /\ PendingRow(agent[c]).status = "pending"
        /\ PendingRow(agent[c]).tool_name = "process_refund"
        /\ PendingRow(agent[c]).tool_args > Threshold
        /\ approvals[c].status = "absent"
    BY <1>1, GateState
  <1>3. /\ Finish(c, "exception")
        /\ UNCHANGED <<agent, decision, posted, issued, audit>>
    BY DEF GateFails
  <1>4. /\ "exception" \in Replies
        /\ RunOK(c, "done", agent[c], "exception", PostOf(c), EffectsOf(c), AuditOf(c))
    BY <1>1, <1>2, RaiseOK
  <1>5. CASE UNCHANGED approvals
    BY <1>2, <1>3, <1>4, <1>5, FinishIInv
  <1>6. CASE approvals' = [approvals EXCEPT ![c] = PendingRow(agent[c])]
    <2>1. TypeOK'
      BY <1>2, <1>3, <1>4, <1>6 DEF Finish, IInv, TypeOK
    <2>2. RunsFit'
      BY <1>2, <1>3, <1>4, FinishFits DEF IInv
    <2>3. RowsFit'
      BY <1>2, <1>3, <1>6 DEF Finish, IInv, TypeOK, RowsFit, Runs
    <2>4. DecisionsFit'
      BY <1>2, <1>3, <1>6, SameSets DEF Finish, IInv, TypeOK, DecisionsFit, Runs, Resolved
    <2> QED BY <2>1, <2>2, <2>3, <2>4 DEF IInv
  <1> QED BY <1>5, <1>6 DEF GateFails

\* A call of the environment: only what belongs to run r in posted and issued changes.
LEMMA EnvironmentIInv ==
    ASSUME NEW r \in Runs, IInv,
           UNCHANGED <<pc, agent, decision, approvals, audit, reply>>,
           posted' \subseteq Runs, issued' \subseteq Effect,
           \A s \in Runs \ {r} : PostOf(s)' = PostOf(s) /\ EffectsOf(s)' = EffectsOf(s),
           PostOf(r) # {},
           RunOK(r, pc[r], agent[r], reply[r], PostOf(r)', EffectsOf(r)', AuditOf(r))
    PROVE  IInv'
  <1>1. TypeOK'
    BY DEF IInv, TypeOK
  <1>2. \A s \in Runs : AuditOf(s)' = AuditOf(s)
    BY DEF AuditOf
  <1>3. RunsFit'
    BY <1>2 DEF IInv, RunsFit
  <1>4. RowsFit'
    BY DEF IInv, RowsFit
  <1>5. DecisionsFit'
    BY DEF IInv, DecisionsFit, Resolved, Runs
  <1> QED BY <1>1, <1>3, <1>4, <1>5 DEF IInv

LEMMA DeliverStep ==
    ASSUME NEW r \in Runs, IInv, Deliver(r)
    PROVE  /\ PostOf(r) # {}
           /\ EffectsOf(r) = {}
           /\ agent[r].current_tool \in CallingTools
           /\ ~NeedsApproval(agent[r])
           /\ EffectOf(r) = CallOf(r, agent[r])
           /\ EffectOf(r) \in Effect
  <1>1. PostOf(r) # {}
    BY DEF Deliver, PostOf
  <1>2. /\ EffectsOf(r) = {}
        /\ agent[r].current_tool \in CallingTools
        /\ ~NeedsApproval(agent[r])
    BY <1>1, RunState DEF RunOK, CallOK
  <1> QED
    BY <1>1, <1>2, RunState DEF EffectOf, CallOf, Effect, AgentState

LEMMA DeliverIInv ==
    ASSUME NEW r \in Runs, IInv, Deliver(r) PROVE IInv'
  <1>1. /\ PostOf(r) # {}
        /\ EffectsOf(r) = {}
        /\ agent[r].current_tool \in CallingTools
        /\ ~NeedsApproval(agent[r])
        /\ EffectOf(r) = CallOf(r, agent[r])
        /\ EffectOf(r) \in Effect
    BY DeliverStep
  <1>2. PostOf(r)' = {} /\ EffectsOf(r)' = {CallOf(r, agent[r])}
    BY <1>1 DEF Deliver, PostOf, EffectsOf, CallOf
  <1>3. \A s \in Runs \ {r} : PostOf(s)' = PostOf(s) /\ EffectsOf(s)' = EffectsOf(s)
    BY <1>1 DEF Deliver, PostOf, EffectsOf, CallOf
  <1>4. RunOK(r, pc[r], agent[r], reply[r], PostOf(r), EffectsOf(r), AuditOf(r))
    BY RunState
  <1>5. RunOK(r, pc[r], agent[r], reply[r], PostOf(r)', EffectsOf(r)', AuditOf(r))
    BY <1>1, <1>2, <1>4
       DEF RunOK, EarlyOK, CallOK, AskOK, AuditOK, OutcomeOK
  <1>6. posted' \subseteq Runs /\ issued' \subseteq Effect
    BY <1>1 DEF Deliver, IInv, TypeOK
  <1> QED
    BY <1>1, <1>3, <1>5, <1>6, EnvironmentIInv DEF Deliver

LEMMA LoseIInv ==
    ASSUME NEW r \in Runs, IInv, Lose(r) PROVE IInv'
  <1>1. PostOf(r) # {} /\ PostOf(r)' = {}
    BY DEF Lose, PostOf
  <1>2. \A s \in Runs \ {r} : PostOf(s)' = PostOf(s)
    BY DEF Lose, PostOf
  <1>3. \A s \in Runs : EffectsOf(s)' = EffectsOf(s)
    BY DEF Lose, EffectsOf
  <1>4. RunOK(r, pc[r], agent[r], reply[r], PostOf(r), EffectsOf(r), AuditOf(r))
    BY RunState
  <1>5. RunOK(r, pc[r], agent[r], reply[r], PostOf(r)', EffectsOf(r)', AuditOf(r))
    BY <1>1, <1>3, <1>4
       DEF RunOK, EarlyOK, CallOK, AskOK, AuditOK, OutcomeOK
  <1>6. posted' \subseteq Runs /\ issued' \subseteq Effect
    BY DEF Lose, IInv, TypeOK
  <1> QED
    BY <1>1, <1>2, <1>3, <1>5, <1>6, EnvironmentIInv DEF Lose

LEMMA CrashIInv ==
    ASSUME NEW r \in Runs, IInv, Crash(r) PROVE IInv'
  <1>1. /\ pc[r] \in Active
        /\ pc' = [pc EXCEPT ![r] = "crashed"]
        /\ UNCHANGED <<agent, decision, approvals, audit, posted, issued, reply>>
    BY DEF Crash
  <1>2. RunOK(r, pc[r], agent[r], reply[r], PostOf(r), EffectsOf(r), AuditOf(r))
    BY RunState
  <1>3. RunOK(r, "crashed", agent[r], reply[r], PostOf(r), EffectsOf(r), AuditOf(r))
    BY <1>1, <1>2
       DEF RunOK, EarlyOK, CallOK, AskOK, AuditOK, OutcomeOK, Early, Late, Active, Nodes
  <1>4. \A s \in Runs : PostOf(s)' = PostOf(s) /\ EffectsOf(s)' = EffectsOf(s)
                           /\ AuditOf(s)' = AuditOf(s)
    BY <1>1, SameSets
  <1>5. TypeOK'
    BY <1>1 DEF IInv, TypeOK
  <1>6. RunsFit'
    BY <1>1, <1>3, <1>4 DEF IInv, TypeOK, RunsFit
  <1>7. RowsFit'
    BY <1>1 DEF IInv, TypeOK, RowsFit, Runs
  <1>8. DecisionsFit'
    BY <1>1, <1>4 DEF IInv, TypeOK, DecisionsFit, Runs, Resolved, Active, Nodes
  <1> QED BY <1>5, <1>6, <1>7, <1>8 DEF IInv

----------------------------------------------------------------------------
(* The invariant.                                                          *)

LEMMA GraphStepIInv ==
    ASSUME NEW r \in Runs, IInv, GraphStep(r) PROVE IInv'
BY PlanActionIInv, ExecuteNothingIInv, AskApprovalIInv, CallToolIInv, NoteToolIInv,
   CallReturnsIInv, CallFailsIInv, AuditLogIInv, AuditFailsIInv, GenerateResponseIInv,
   ResponseFailsIInv, AnswerIInv
   DEF GraphStep

LEMMA StutterIInv == ASSUME IInv, UNCHANGED vars PROVE IInv'
  <1>1. UNCHANGED <<pc, agent, decision, approvals, audit, posted, issued, reply>>
    BY DEF vars
  <1>2. TypeOK'
    BY <1>1 DEF IInv, TypeOK
  <1>3. \A s : PostOf(s)' = PostOf(s) /\ EffectsOf(s)' = EffectsOf(s) /\ AuditOf(s)' = AuditOf(s)
    BY <1>1, SameSets
  <1>4. RunsFit'
    BY <1>1, <1>3 DEF IInv, RunsFit
  <1>5. RowsFit'
    BY <1>1 DEF IInv, RowsFit
  <1>6. DecisionsFit'
    BY <1>1, <1>3 DEF IInv, DecisionsFit, Resolved
  <1> QED BY <1>2, <1>4, <1>5, <1>6 DEF IInv

LEMMA NextIInv == ASSUME IInv, [Next]_vars PROVE IInv'
  <1>1. CASE \E c \in Chats : Receive(c) \/ GateStep(c)
    BY <1>1, ReceiveIInv, ApprovalGateIInv, GateFailsIInv DEF GateStep
  <1>2. CASE \E d \in Decisions, c \in Chats :
                \/ \E action \in {"approve", "reject"} : SelectPending(d, c, action)
                \/ SelectNothing(d, c)
    BY <1>2, SelectPendingIInv, SelectNothingIInv
  <1>3. CASE \E d \in Decisions : SelectFails(d) \/ ResolveStep(d)
    BY <1>3, SelectFailsIInv, ResolveIInv, ResolveFailsIInv DEF ResolveStep
  <1>4. CASE \E r \in Runs : GraphStep(r) \/ GraphRaises(r) \/ Deliver(r) \/ Lose(r) \/ Crash(r)
    BY <1>4, GraphStepIInv, GraphRaisesIInv, DeliverIInv, LoseIInv, CrashIInv
  <1>5. CASE UNCHANGED vars
    BY <1>5, StutterIInv
  <1> QED BY <1>1, <1>2, <1>3, <1>4, <1>5 DEF Next

\* IInv is inductive, so it holds in every reachable state.
THEOREM Invariance == Spec => []IInv
  <1>1. Init => IInv
    BY InitIInv
  <1>2. IInv /\ [Next]_vars => IInv'
    BY NextIInv
  <1> QED BY <1>1, <1>2, PTL DEF Spec

\* Every variable keeps its type: no row has an unknown status, no effect and no
\* audit row an unknown run or tool (agents.py, main.py).
THEOREM TypeCorrect == Spec => []TypeOK
  <1>1. IInv => TypeOK
    BY DEF IInv
  <1> QED BY <1>1, Invariance, PTL

----------------------------------------------------------------------------
(* What the invariant says about money and the audit trail.                *)

\* What the external API has carried out for a run is the call of its state.
LEMMA EffectFits ==
    ASSUME IInv, NEW e \in issued
    PROVE  /\ e.run \in Runs
           /\ e \in EffectsOf(e.run)
           /\ EffectsOf(e.run) = {e}
           /\ e = CallOf(e.run, agent[e.run])
           /\ ~NeedsApproval(agent[e.run])
  <1>1. e.run \in Runs /\ e \in EffectsOf(e.run)
    BY DEF IInv, TypeOK, Effect, EffectsOf
  <1> QED
    BY <1>1, RunState DEF RunOK, CallOK

\* An amount, or the place of one, is a number.
LEMMA AmountIsNat == ASSUME NEW x \in Amounts \cup {NoAmount} PROVE x \in Nat
  <1>1. CASE x \in Amounts
    BY <1>1, ApprovalConstants
  <1>2. CASE x = NoAmount
    BY <1>2 DEF NoAmount
  <1> QED BY <1>1, <1>2

\* A refund that is carried out is within the threshold or approved for its amount
\* (execute_process_refund), whatever the model answers, when a run starts and when it
\* resumes.  The proof shows which of the two holds of this code: an approved refund is
\* asked for again instead of made.
THEOREM RefundsNeedApproval == Spec => []RefundsAreSmallOrApproved
  <1>1. IInv => RefundsAreSmallOrApproved
    <2> SUFFICES ASSUME IInv, NEW e \in issued, e.tool = "process_refund"
                 PROVE  e.amount <= Threshold
      BY DEF RefundsAreSmallOrApproved
    <2>1. /\ e.run \in Runs
          /\ e.tool = agent[e.run].current_tool
          /\ e.amount = agent[e.run].tool_args
          /\ ~(agent[e.run].tool_args > Threshold)
      BY EffectFits DEF CallOf, NeedsApproval
    <2>2. agent[e.run].tool_args \in Nat
      <3>1. agent[e.run] \in AgentState
        BY <2>1, RunState
      <3>2. agent[e.run].tool_args \in Amounts \cup {NoAmount}
        BY <3>1 DEF AgentState
      <3> QED BY <3>2, AmountIsNat
    <2> QED BY <2>1, <2>2, ApprovalConstants
  <1> QED BY <1>1, Invariance, PTL

\* An approval request stands instead of a call, never beside one (approval_gate).
THEOREM ApprovalInsteadOfEffect == Spec => []ApprovalIsInsteadOfEffect
  <1>1. IInv => ApprovalIsInsteadOfEffect
    <2> SUFFICES ASSUME IInv, NEW c \in Chats, approvals[c].status # "absent"
                 PROVE  /\ approvals[c].tool_name = "process_refund"
                        /\ approvals[c].tool_args > Threshold
                        /\ c \notin posted
                        /\ \A e \in issued : e.run # c
      BY DEF ApprovalIsInsteadOfEffect
    <2>1. /\ agent[c].approval_required
          /\ approvals[c].tool_name = "process_refund"
          /\ approvals[c].tool_args > Threshold
      BY DEF IInv, RowsFit
    <2>2. PostOf(c) = {} /\ EffectsOf(c) = {}
      BY <2>1, RunState DEF RunOK, AskOK, Runs
    <2> QED BY <2>1, <2>2 DEF PostOf, EffectsOf
  <1> QED BY <1>1, Invariance, PTL

\* A call without an audit row is never answered with a success (_audit_log,
\* execute_tool, generate_response).
THEOREM UnauditedIsReported == Spec => []UnauditedCallIsReported
  <1>1. IInv => UnauditedCallIsReported
    <2> SUFFICES ASSUME IInv, NEW e \in issued,
                        pc[e.run] = "done", <<e.run, e.tool>> \notin audit
                 PROVE  ToldFailure(e.run)
      BY DEF UnauditedCallIsReported
    <2>1. /\ e.run \in Runs
          /\ EffectsOf(e.run) # {}
          /\ e.tool = agent[e.run].current_tool
      BY EffectFits DEF CallOf
    <2>2. RunOK(e.run, "done", agent[e.run], reply[e.run],
                PostOf(e.run), EffectsOf(e.run), AuditOf(e.run))
      BY <2>1, RunState
    <2>3. e.tool \notin AuditOf(e.run)
      BY DEF AuditOf
    <2>4. AuditOf(e.run) = {}
      BY <2>1, <2>2, <2>3 DEF RunOK, AuditOK
    <2> QED BY <2>1, <2>2, <2>4 DEF RunOK, OutcomeOK, TellsFailure, ToldFailure
  <1> QED BY <1>1, Invariance, PTL

\* A response that says the tool did its work is backed by the call and its audit
\* row (execute_tool, generate_response, chat, approve).
THEOREM BackedSuccess == Spec => []SuccessIsBacked
  <1>1. IInv => SuccessIsBacked
    <2> SUFFICES ASSUME IInv, NEW r \in Runs,
                        reply[r] \in {"ok", "approved"}, agent[r].message = "done"
                 PROVE  /\ <<r, agent[r].current_tool>> \in audit
                        /\ agent[r].current_tool \in CallingTools => EffectOf(r) \in issued
      BY DEF SuccessIsBacked
    <2>1. RunOK(r, pc[r], agent[r], reply[r], PostOf(r), EffectsOf(r), AuditOf(r))
      BY RunState
    <2>2. pc[r] = "done" /\ agent[r].tool_result = "success" /\ ~agent[r].error
      BY <2>1 DEF RunOK, OutcomeOK
    <2>3. AuditOf(r) # {}
      BY <2>1, <2>2 DEF RunOK, OutcomeOK
    <2>4. /\ agent[r].current_tool \in AuditOf(r)
          /\ agent[r].current_tool \in CallingTools => EffectsOf(r) = {CallOf(r, agent[r])}
      BY <2>1, <2>3 DEF RunOK, AuditOK
    <2> QED BY <2>4 DEF AuditOf, EffectsOf, EffectOf, CallOf
  <1> QED BY <1>1, Invariance, PTL

\* What the audit trail says was called was carried out (_audit_log after the call).
THEOREM AuditedHappened == Spec => []AuditedCallHappened
  <1>1. IInv => AuditedCallHappened
    <2> SUFFICES ASSUME IInv, NEW r \in Runs, NEW t \in CallingTools, <<r, t>> \in audit
                 PROVE  agent[r].current_tool = t /\ EffectOf(r) \in issued
      BY DEF AuditedCallHappened
    <2>1. t \in AuditOf(r)
      BY DEF AuditOf, Tools
    <2>2. agent[r].current_tool = t /\ EffectsOf(r) = {CallOf(r, agent[r])}
      BY <2>1, RunState DEF RunOK, AuditOK
    <2> QED BY <2>2 DEF EffectsOf, EffectOf, CallOf
  <1> QED BY <1>1, Invariance, PTL

\* A run resumes, and calls anybody, only after its approval is committed (approve:
\* the UPDATE precedes ainvoke).
THEOREM ResumedAfterCommit == Spec => []ResumeAfterCommit
  <1>1. IInv => ResumeAfterCommit
    <2> SUFFICES ASSUME IInv, NEW d \in Decisions,
                        \/ pc[d] \in Nodes \cup {"calling", "auditing"}
                        \/ d \in posted
                        \/ \E e \in issued : e.run = d
                 PROVE  /\ decision[d].action = "approve"
                        /\ approvals[decision[d].target].status \in {"approved", "rejected"}
      BY DEF ResumeAfterCommit
    <2>1. pc[d] \in Active \ {"resolve"} \/ PostOf(d) # {} \/ EffectsOf(d) # {}
      BY DEF Active, Nodes, PostOf, EffectsOf
    <2> QED BY <2>1 DEF IInv, DecisionsFit, Resolved
  <1> QED BY <1>1, Invariance, PTL

----------------------------------------------------------------------------
(* The agent implements RefundLedger.                                      *)

shown == <<approvals, issued, audit>>

\* The row a chat inserts at the gate is a request of the ledger.
LEMMA GateRequests ==
    ASSUME IInv, NEW c \in Chats, pc[c] = "approval_gate",
           approvals' = [approvals EXCEPT ![c] = PendingRow(agent[c])],
           UNCHANGED <<issued, audit>>
    PROVE  Ledger!Next
  <1>1. /\ approvals[c].status = "absent"
        /\ agent[c].current_tool = "process_refund"
        /\ agent[c].tool_args > Threshold
        /\ EffectsOf(c) = {}
        /\ c \in Runs
    BY GateState
  <1>2. agent[c].tool_args \in Amounts
    BY <1>1, RunState, ApprovalConstants DEF AgentState, NoAmount
  <1>3. \A e \in issued : e.run # c
    BY <1>1 DEF EffectsOf
  <1>4. Ledger!Request(c, agent[c].tool_args)
    BY <1>1, <1>3 DEF Ledger!Request, PendingRow
  <1> QED BY <1>2, <1>4 DEF Ledger!Next

\* The UPDATE of a decision is a decision of the ledger.
LEMMA ResolutionDecides ==
    ASSUME IInv, NEW d \in Decisions, pc[d] = "resolve",
           approvals' = Resolution(decision[d].target, decision[d].action),
           UNCHANGED <<issued, audit>>
    PROVE  Ledger!Next
  <1>1. decision[d].target \in Chats /\ approvals[decision[d].target].status # "absent"
    BY DEF IInv, DecisionsFit, Active
  <1>2. StatusOf(decision[d].action) \in {"approved", "rejected"}
    BY DEF StatusOf
  <1>3. Ledger!Decide(decision[d].target, StatusOf(decision[d].action))
    BY <1>1 DEF Ledger!Decide, Resolution
  <1> QED BY <1>1, <1>2, <1>3 DEF Ledger!Next

\* A POST that the API carries out is an effect of the ledger.
LEMMA DeliverHasEffect ==
    ASSUME IInv, NEW r \in Runs, Deliver(r)
    PROVE  Ledger!Next
  <1> DEFINE tool == agent[r].current_tool
  <1> DEFINE amount == agent[r].tool_args
  <1>1. /\ PostOf(r) # {}
        /\ EffectsOf(r) = {}
        /\ tool \in CallingTools
        /\ ~NeedsApproval(agent[r])
    BY DeliverStep
  <1>2. amount \in Amounts \cup {NoAmount}
    BY RunState DEF AgentState
  <1>3. \A e \in issued : e.run # r
    BY <1>1 DEF EffectsOf
  <1>4. tool = "process_refund" => amount <= Threshold
    <2>1. ~(tool = "process_refund" /\ amount > Threshold)
      BY <1>1 DEF NeedsApproval
    <2>2. /\ Amounts \subseteq Nat
          /\ Threshold \in Nat
      BY ApprovalConstants
    <2> HIDE DEF tool, amount
    <2>3. amount \in Nat
      BY <1>2, <2>2 DEF NoAmount
    <2> QED BY <2>1, <2>2, <2>3
  <1>5. r \in Chats => approvals[r].status = "absent"
    BY <1>1, RunState DEF IInv, RowsFit, RunOK, AskOK
  <1>6. r \in Decisions => \E c \in Chats : approvals[c].status \in {"approved", "rejected"}
    BY <1>1 DEF IInv, DecisionsFit, Resolved
  <1>7. Ledger!Effect(r, tool, amount)
    BY <1>3, <1>4, <1>5, <1>6 DEF Ledger!Effect, Ledger!MayRefund, Deliver, EffectOf
  <1> QED BY <1>1, <1>2, <1>7 DEF Ledger!Next, Runs

\* An audit row is a record of the ledger.
LEMMA AuditRecords ==
    ASSUME IInv, NEW r \in Runs, pc[r] = "auditing",
           audit' = audit \cup {<<r, agent[r].current_tool>>},
           UNCHANGED <<approvals, issued>>
    PROVE  Ledger!Next
  <1> DEFINE tool == agent[r].current_tool
  <1>1. /\ tool \in Tools
        /\ tool \in CallingTools => EffectsOf(r) = {CallOf(r, agent[r])}
    BY RunState DEF RunOK, AuditOK
  <1>2. tool \in CallingTools => \E e \in issued : e.run = r /\ e.tool = tool
    <2> SUFFICES ASSUME tool \in CallingTools
                 PROVE  \E e \in issued : e.run = r /\ e.tool = tool
      OBVIOUS
    <2>1. CallOf(r, agent[r]) \in issued
      BY <1>1 DEF EffectsOf
    <2> WITNESS CallOf(r, agent[r]) \in issued
    <2> QED BY DEF CallOf
  <1>3. Ledger!Record(r, tool)
    BY <1>2 DEF Ledger!Record
  <1> QED BY <1>1, <1>3 DEF Ledger!Next, Runs

\* A step of a run is an audit row, or nothing that the ledger sees.
LEMMA GraphStepRefines ==
    ASSUME IInv, NEW r \in Runs, GraphStep(r)
    PROVE  Ledger!Next \/ UNCHANGED shown
  <1>1. CASE AuditLog(r)
    BY <1>1, AuditRecords DEF AuditLog, Go
  <1>2. CASE AuditFails(r)
    BY <1>2, AuditRecords DEF AuditFails, Go, shown
  <1>3. CASE PlanAction(r) \/ ExecuteNothing(r) \/ AskApproval(r) \/ CallTool(r) \/ NoteTool(r)
    BY <1>3 DEF PlanAction, ExecuteNothing, AskApproval, CallTool, NoteTool, shown
  <1>4. CASE CallReturns(r) \/ CallFails(r) \/ GenerateResponse(r) \/ ResponseFails(r) \/ Answer(r)
    BY <1>4 DEF CallReturns, CallFails, GenerateResponse, ResponseFails, Answer, shown
  <1> QED BY <1>1, <1>2, <1>3, <1>4 DEF GraphStep

LEMMA NextRefines ==
    ASSUME IInv, [Next]_vars
    PROVE  [Ledger!Next]_shown
  <1>1. CASE \E c \in Chats : Receive(c) \/ GateStep(c)
    <2> PICK c \in Chats : Receive(c) \/ GateStep(c)
      BY <1>1
    <2>1. CASE Receive(c)
      BY <2>1 DEF Receive, shown
    <2>2. CASE ApprovalGate(c)
      BY <2>2, GateRequests DEF ApprovalGate, Go
    <2>3. CASE GateFails(c)
      BY <2>3, GateRequests DEF GateFails, shown
    <2> QED BY <2>1, <2>2, <2>3 DEF GateStep
  <1>2. CASE \E d \in Decisions, c \in Chats :
                \/ \E action \in {"approve", "reject"} : SelectPending(d, c, action)
                \/ SelectNothing(d, c)
    BY <1>2 DEF SelectPending, SelectNothing, shown
  <1>3. CASE \E d \in Decisions : SelectFails(d) \/ ResolveStep(d)
    <2> PICK d \in Decisions : SelectFails(d) \/ Resolve(d) \/ ResolveFails(d)
      BY <1>3 DEF ResolveStep
    <2>1. CASE Resolve(d)
      BY <2>1, ResolutionDecides DEF Resolve
    <2>2. CASE ResolveFails(d)
      BY <2>2, ResolutionDecides DEF ResolveFails, shown
    <2>3. CASE SelectFails(d)
      BY <2>3 DEF SelectFails, shown
    <2> QED BY <2>1, <2>2, <2>3
  <1>4. CASE \E r \in Runs : GraphStep(r) \/ GraphRaises(r) \/ Deliver(r) \/ Lose(r) \/ Crash(r)
    <2> PICK r \in Runs : GraphStep(r) \/ GraphRaises(r) \/ Deliver(r) \/ Lose(r) \/ Crash(r)
      BY <1>4
    <2>1. CASE GraphStep(r)
      BY <2>1, GraphStepRefines
    <2>2. CASE Deliver(r)
      BY <2>2, DeliverHasEffect
    <2>3. CASE GraphRaises(r) \/ Lose(r) \/ Crash(r)
      BY <2>3 DEF GraphRaises, Lose, Crash, shown
    <2> QED BY <2>1, <2>2, <2>3
  <1>5. CASE UNCHANGED vars
    BY <1>5 DEF vars, shown
  <1> QED BY <1>1, <1>2, <1>3, <1>4, <1>5 DEF Next

\* The agent implements the ledger: its two tables and the external API change only
\* as RefundLedger allows, under every interleaving and failure.
THEOREM LedgerImplemented == Spec => ImplementsLedger
  <1>1. Init => Ledger!Init
    BY DEF Init, Ledger!Init, Ledger!Absent
  <1>2. IInv /\ [Next]_vars => [Ledger!Next]_<<approvals, issued, audit>>
    BY NextRefines DEF shown
  <1> QED BY <1>1, <1>2, Invariance, PTL DEF Spec, ImplementsLedger, Ledger!Spec

\* A resolved request stays resolved and keeps its tool call: the ledger has no
\* step that does otherwise (the UPDATE of approve, the INSERT of approval_gate).
THEOREM NeverReopens == Spec => ResolvedNeverReopens
  <1>1. ASSUME IInv, [Next]_vars, NEW c \in Chats, approvals[c].status \in {"approved", "rejected"}
        PROVE  /\ approvals'[c].status \in {"approved", "rejected"}
               /\ approvals'[c].tool_name = approvals[c].tool_name
               /\ approvals'[c].tool_args = approvals[c].tool_args
    <2>1. approvals \in [Chats -> Row]
      BY <1>1 DEF IInv, TypeOK
    <2>2. [Ledger!Next]_shown
      BY <1>1, NextRefines
    <2>3. CASE \E k \in Chats, amount \in Amounts : Ledger!Request(k, amount)
      BY <1>1, <2>1, <2>3 DEF Ledger!Request
    <2>4. CASE \E k \in Chats, status \in {"approved", "rejected"} : Ledger!Decide(k, status)
      BY <1>1, <2>1, <2>4 DEF Ledger!Decide, Row
    <2>5. CASE UNCHANGED approvals
      BY <1>1, <2>5
    <2> QED
      BY <2>2, <2>3, <2>4, <2>5 DEF Ledger!Next, Ledger!Effect, Ledger!Record, shown
  <1>2. IInv /\ [Next]_vars =>
          [\A c \in Chats : approvals[c].status \in {"approved", "rejected"} =>
              /\ approvals'[c].status \in {"approved", "rejected"}
              /\ approvals'[c].tool_name = approvals[c].tool_name
              /\ approvals'[c].tool_args = approvals[c].tool_args]_vars
    BY <1>1
  <1> QED BY <1>2, Invariance, PTL DEF Spec, ResolvedNeverReopens

----------------------------------------------------------------------------
(* Overlapping decisions are the only way to lose one.                     *)

\* Two decisions have read the row of the same chat and neither has written it: the
\* lock of SELECT ... FOR UPDATE SKIP LOCKED ended with its statement.
Overlap ==
    \E d, e \in Decisions :
        /\ d # e
        /\ pc[d] = "resolve" /\ pc[e] = "resolve"
        /\ decision[d].target = decision[e].target

\* A decision that has read its row and not yet written it finds it unresolved.
ReadsAreFresh == \A d \in Decisions : pc[d] = "resolve" => ~Resolved(decision[d].target)

\* A graph step, an answer or a crash sends no request to the UPDATE of approve.
LEMMA GraphStepNotToResolve ==
    ASSUME IInv, NEW r \in Runs, NEW d \in Decisions,
           GraphStep(r) \/ GraphRaises(r) \/ Deliver(r) \/ Lose(r) \/ Crash(r),
           pc'[d] = "resolve"
    PROVE  pc[d] = "resolve" /\ UNCHANGED <<decision, approvals>>
  <1>1. DOMAIN pc = Runs /\ d \in Runs
    BY DEF IInv, TypeOK, Runs
  <1>2. ASSUME NEW from, NEW p, NEW a, Go(r, from, p, a), p # "resolve" PROVE pc[d] = "resolve"
    BY <1>1, <1>2 DEF Go
  <1>3. ASSUME NEW code, Finish(r, code) PROVE pc[d] = "resolve"
    BY <1>1, <1>3 DEF Finish
  <1>4. \A a : CheckApproval(a) # "resolve"
    BY DEF CheckApproval
  <1>5. CASE PlanAction(r)
    BY <1>2, <1>5 DEF PlanAction
  <1>6. CASE ExecuteNothing(r) \/ AskApproval(r) \/ CallTool(r) \/ NoteTool(r)
    BY <1>2, <1>4, <1>6 DEF ExecuteNothing, AskApproval, CallTool, NoteTool
  <1>7. CASE CallReturns(r) \/ CallFails(r) \/ AuditLog(r) \/ AuditFails(r)
    BY <1>2, <1>4, <1>7 DEF CallReturns, CallFails, AuditLog, AuditFails
  <1>8. CASE GenerateResponse(r)
    BY <1>2, <1>8 DEF GenerateResponse
  <1>9. CASE ResponseFails(r) \/ GraphRaises(r)
    BY <1>3, <1>9 DEF ResponseFails, GraphRaises
  <1>10. CASE Answer(r)
    BY <1>3, <1>10 DEF Answer
  <1>11. CASE Deliver(r) \/ Lose(r) \/ Crash(r)
    BY <1>1, <1>11 DEF Deliver, Lose, Crash
  <1> QED BY <1>5, <1>6, <1>7, <1>8, <1>9, <1>10, <1>11 DEF GraphStep

\* A chat writes a row that is not resolved, and never one that is (approval_gate).
LEMMA ChatStepResolvesNothing ==
    ASSUME IInv, NEW c \in Chats, Receive(c) \/ GateStep(c), NEW k \in Chats
    PROVE  /\ Resolved(k)' => Resolved(k)
           /\ Resolved(k) => approvals'[k].status = approvals[k].status
  <1>1. approvals \in [Chats -> Row]
    BY DEF IInv, TypeOK
  <1>2. pc[c] = "approval_gate" => approvals[c].status = "absent"
    BY GateState
  <1>3. \/ UNCHANGED approvals
        \/ /\ pc[c] = "approval_gate"
           /\ approvals' = [approvals EXCEPT ![c] = PendingRow(agent[c])]
    BY DEF Receive, GateStep, ApprovalGate, GateFails, Go
  <1> QED BY <1>1, <1>2, <1>3 DEF Resolved, PendingRow

LEMMA ChatStepNotToResolve ==
    ASSUME IInv, NEW c \in Chats, Receive(c) \/ GateStep(c), NEW d \in Decisions
    PROVE  pc'[d] = pc[d] /\ decision' = decision
  <1>1. pc \in [Runs -> Active \cup {"idle", "done", "crashed"}] /\ d # c
    BY ApprovalConstants DEF IInv, TypeOK
  <1> QED BY <1>1 DEF Receive, GateStep, ApprovalGate, GateFails, Go, Finish, Runs

\* The UPDATE of a decision writes the row it has read, and leaves the other rows and
\* the other decisions alone.
LEMMA ResolveStepWrites ==
    ASSUME IInv, NEW d \in Decisions, ResolveStep(d)
    PROVE  /\ pc[d] = "resolve" /\ pc'[d] # "resolve" /\ UNCHANGED decision
           /\ \A e \in Decisions \ {d} : pc'[e] = pc[e]
           /\ \A k \in Chats \ {decision[d].target} : approvals'[k] = approvals[k]
  <1>1. pc \in [Runs -> Active \cup {"idle", "done", "crashed"}] /\ approvals \in [Chats -> Row]
    BY DEF IInv, TypeOK
  <1>2. CASE Resolve(d)
    BY <1>1, <1>2 DEF Resolve, Resolution, Go, Finish, Runs
  <1>3. CASE ResolveFails(d)
    BY <1>1, <1>3 DEF ResolveFails, Resolution, Finish, Runs
  <1> QED BY <1>2, <1>3 DEF ResolveStep

\* While no two decisions overlap, what a decision has read stays true until it writes.
LEMMA FreshStep ==
    ASSUME IInv, ReadsAreFresh, ~Overlap, [Next]_vars
    PROVE  ReadsAreFresh'
  <1> SUFFICES ASSUME NEW d \in Decisions, pc'[d] = "resolve"
               PROVE  ~Resolved(decision[d].target)'
    BY DEF ReadsAreFresh
  <1>0. /\ pc \in [Runs -> Active \cup {"idle", "done", "crashed"}]
        /\ DOMAIN decision = Decisions
    BY DEF IInv, TypeOK
  <1>1. CASE \E c \in Chats : Receive(c) \/ GateStep(c)
    <2> PICK c \in Chats : Receive(c) \/ GateStep(c)
      BY <1>1
    <2>1. pc[d] = "resolve" /\ decision' = decision
      BY ChatStepNotToResolve
    <2>2. ~Resolved(decision[d].target)
      BY <2>1 DEF ReadsAreFresh
    <2>3. CASE decision[d].target \in Chats
      BY <2>1, <2>2, <2>3, ChatStepResolvesNothing DEF Resolved
    <2>4. CASE decision[d].target \notin Chats
      BY <2>1, <2>4 DEF Resolved
    <2> QED BY <2>3, <2>4
  <1>2. CASE \E f \in Decisions, c \in Chats, action \in {"approve", "reject"} :
                SelectPending(f, c, action)
    <2> PICK f \in Decisions, c \in Chats, action \in {"approve", "reject"} :
                SelectPending(f, c, action)
      BY <1>2
    <2>1. CASE f = d
      BY <1>0, <2>1 DEF SelectPending, Resolved
    <2>2. CASE f # d
      BY <1>0, <2>2 DEF SelectPending, Go, Resolved, ReadsAreFresh, Runs
    <2> QED BY <2>1, <2>2
  <1>3. CASE \E f \in Decisions : SelectFails(f) \/ \E c \in Chats : SelectNothing(f, c)
    <2>1. pc[d] = "resolve" /\ UNCHANGED <<decision, approvals>>
      BY <1>0, <1>3 DEF SelectFails, SelectNothing, Finish, Runs
    <2> QED BY <2>1 DEF ReadsAreFresh, Resolved
  <1>4. CASE \E f \in Decisions : ResolveStep(f)
    <2> PICK f \in Decisions : ResolveStep(f)
      BY <1>4
    <2>1. f # d /\ pc[f] = "resolve" /\ pc[d] = "resolve" /\ UNCHANGED decision
      BY ResolveStepWrites
    <2>2. decision[f].target # decision[d].target /\ ~Resolved(decision[d].target)
      BY <2>1 DEF Overlap, ReadsAreFresh
    <2>3. decision[d].target \in Chats => approvals'[decision[d].target] = approvals[decision[d].target]
      BY <2>2, ResolveStepWrites
    <2> QED BY <2>1, <2>2, <2>3 DEF Resolved
  <1>5. CASE \E r \in Runs : GraphStep(r) \/ GraphRaises(r) \/ Deliver(r) \/ Lose(r) \/ Crash(r)
    <2>1. pc[d] = "resolve" /\ UNCHANGED <<decision, approvals>>
      BY <1>5, GraphStepNotToResolve
    <2> QED BY <2>1 DEF ReadsAreFresh, Resolved
  <1>6. CASE UNCHANGED vars
    BY <1>6 DEF vars, ReadsAreFresh, Resolved
  <1> QED BY <1>1, <1>2, <1>3, <1>4, <1>5, <1>6 DEF Next

\* While no two decisions overlap, no step changes a resolved row.
LEMMA FreshStepIsFinal ==
    ASSUME IInv, ReadsAreFresh, [Next]_vars, NEW c \in Chats, Resolved(c)
    PROVE  approvals'[c].status = approvals[c].status
  <1>1. CASE \E k \in Chats : Receive(k) \/ GateStep(k)
    BY <1>1, ChatStepResolvesNothing
  <1>2. CASE \E d \in Decisions, k \in Chats :
                \/ \E action \in {"approve", "reject"} : SelectPending(d, k, action)
                \/ SelectNothing(d, k)
    BY <1>2 DEF SelectPending, SelectNothing
  <1>3. CASE \E d \in Decisions : SelectFails(d) \/ ResolveStep(d)
    <2> PICK d \in Decisions : SelectFails(d) \/ ResolveStep(d)
      BY <1>3
    <2>1. CASE SelectFails(d)
      BY <2>1 DEF SelectFails
    <2>2. CASE ResolveStep(d)
      BY <2>2, ResolveStepWrites DEF ReadsAreFresh
    <2> QED BY <2>1, <2>2
  <1>4. CASE \E r \in Runs : GraphStep(r) \/ GraphRaises(r) \/ Deliver(r) \/ Lose(r) \/ Crash(r)
    BY <1>4 DEF GraphStep, PlanAction, ExecuteNothing, AskApproval, CallTool, NoteTool,
       CallReturns, CallFails, AuditLog, AuditFails, GenerateResponse, ResponseFails, Answer,
       GraphRaises, Deliver, Lose, Crash
  <1>5. CASE UNCHANGED vars
    BY <1>5 DEF vars
  <1> QED BY <1>1, <1>2, <1>3, <1>4, <1>5 DEF Next

\* A resolved request keeps its decision as long as two decisions for one request are
\* never between their SELECT and their UPDATE together (approve).  ResolutionIsFinal
\* itself fails, so this gap, and no failure or crash, is what loses a decision.
THEOREM FinalWithoutOverlap == Spec /\ []~Overlap => ResolutionIsFinal
  <1>1. Init => ReadsAreFresh
    BY DEF Init, ReadsAreFresh, Runs
  <1>2. IInv /\ ReadsAreFresh /\ ~Overlap /\ [Next]_vars => ReadsAreFresh'
    BY FreshStep
  <1>3. IInv /\ ReadsAreFresh /\ [Next]_vars =>
          [\A c \in Chats : approvals[c].status \in {"approved", "rejected"} =>
              approvals'[c].status = approvals[c].status]_vars
    BY FreshStepIsFinal DEF Resolved
  <1> QED BY <1>1, <1>2, <1>3, Invariance, PTL DEF Spec, ResolutionIsFinal
=============================================================================
