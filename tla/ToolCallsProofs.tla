--------------------------- MODULE ToolCallsProofs ---------------------------
(***************************************************************************)
(* Theorems about ToolCalls, for every number of requests, every stack and *)
(* every failure.  A row belongs to the request that inserted it, two rows *)
(* with one key are one row, and what a response says of a row stays true. *)
(***************************************************************************)
EXTENDS ToolCalls, TLAPS

\* A request has its row after its INSERT, without a response before its UPDATE.
RowsFit ==
    \A a \in Attempts :
        /\ pc[a] \in {"idle", "insert", "lookup"} => Absent(a)
        /\ pc[a] = "update" => ~Absent(a)
        /\ pc[a] \in {"idle", "insert", "lookup", "update", "crashed"} => answer[a] = Unanswered
        /\ answer[a].code = 500 => calls[a].status # "success"
        /\ ~Absent(a) => calls[a].tool = request[a].tool /\ calls[a].key = IdempotencyKey(a)

\* The unique index.
KeysFit ==
    \A a, b \in Attempts :
        (/\ ~Absent(a) /\ ~Absent(b)
         /\ calls[a].tool = calls[b].tool
         /\ calls[a].key = calls[b].key
         /\ calls[a].key # NoKey) => a = b

AnswersFit ==
    \A a \in Attempts :
        /\ answer[a].row # NoRow =>
              /\ answer[a].row \in Attempts
              /\ ~Absent(answer[a].row)
              /\ calls[answer[a].row].tool = request[a].tool
              /\ calls[answer[a].row].key = IdempotencyKey(a)
              /\ IdempotencyKey(a) = NoKey => answer[a].row = a
        /\ answer[a].code = 200 =>
              answer[a].row # NoRow /\ calls[answer[a].row].status = "success"

IInv == TypeOK /\ RowsFit /\ KeysFit /\ AnswersFit

\* What a step may do to the table: rows are added and completed, never changed.
Extends ==
    \A a \in Attempts : ~Absent(a) =>
        /\ calls'[a].status # "absent"
        /\ calls'[a].tool = calls[a].tool
        /\ calls'[a].key = calls[a].key
        /\ calls[a].status = "success" => calls'[a].status = "success"

LEMMA KeyType ==
    ASSUME TypeOK, NEW a \in Attempts
    PROVE  IdempotencyKey(a) \in Keys \cup {NoKey}
BY DEF TypeOK, Request, IdempotencyKey

LEMMA InitIInv == Init => IInv
BY ToolCallsConstants
   DEF Init, IInv, TypeOK, RowsFit, KeysFit, AnswersFit, Absent, Row, Response, Unanswered

\* A step that leaves the table alone and answers nobody.
LEMMA QuietIInv ==
    ASSUME NEW a \in Attempts, NEW p \in {"insert", "lookup", "crashed"}, IInv,
           pc[a] \in {"idle", "insert", "lookup", "update"},
           p \in {"insert", "lookup"} => Absent(a),
           pc' = [pc EXCEPT ![a] = p], UNCHANGED <<request, calls, answer>>
    PROVE  IInv' /\ Extends
  <1>1. TypeOK'
    BY DEF IInv, TypeOK
  <1>2. RowsFit'
    BY DEF IInv, TypeOK, RowsFit, Absent, IdempotencyKey
  <1>3. KeysFit' /\ AnswersFit'
    BY DEF IInv, KeysFit, AnswersFit, Absent, IdempotencyKey
  <1> QED BY <1>1, <1>2, <1>3 DEF IInv, Extends, Absent

\* A step that answers one request from the table as it is.
LEMMA RespondIInv ==
    ASSUME NEW a \in Attempts, NEW code \in {200, 202, 500}, NEW row \in Attempts \cup {NoRow},
           IInv, pc[a] \in {"insert", "lookup", "update"},
           Respond(a, code, row), UNCHANGED <<request, calls>>,
           code = 500 => calls[a].status # "success",
           row # NoRow => /\ ~Absent(row)
                          /\ calls[row].tool = request[a].tool
                          /\ calls[row].key = IdempotencyKey(a)
                          /\ IdempotencyKey(a) = NoKey => row = a,
           code = 200 => row # NoRow /\ calls[row].status = "success"
    PROVE  IInv' /\ Extends
  <1>1. TypeOK'
    BY DEF IInv, TypeOK, Respond, Response
  <1>2. RowsFit'
    BY DEF IInv, TypeOK, RowsFit, Respond, Response, Absent, IdempotencyKey
  <1>3. KeysFit'
    BY DEF IInv, KeysFit, Absent
  <1>4. AnswersFit'
    BY DEF IInv, TypeOK, AnswersFit, Respond, Response, Absent, IdempotencyKey
  <1> QED BY <1>1, <1>2, <1>3, <1>4 DEF IInv, Extends, Absent

\* A new row fits: the index has no row with its key.
LEMMA NewRowIInv ==
    ASSUME NEW a \in Attempts, IInv, pc[a] = "insert", SameCall(a) = {},
           calls' = [calls EXCEPT ![a] = NewRow(a)], request' = request,
           \/ pc' = [pc EXCEPT ![a] = "update"] /\ answer' = answer
           \/ Respond(a, 500, NoRow)
    PROVE  IInv' /\ Extends
  <1>1. Absent(a) /\ answer[a] = Unanswered
    BY DEF IInv, RowsFit
  <1>2. /\ IdempotencyKey(a) \in Keys \cup {NoKey}
        /\ \A b \in Attempts : IdempotencyKey(b)' = IdempotencyKey(b)
    BY KeyType DEF IInv, IdempotencyKey
  <1>3. /\ calls'[a] = NewRow(a)
        /\ \A b \in Attempts \ {a} : calls'[b] = calls[b]
        /\ calls' \in [Attempts -> Row]
    BY <1>2 DEF IInv, TypeOK, NewRow, Row, Request
  <1>4. /\ \A b \in Attempts \ {a} : pc'[b] = pc[b] /\ answer'[b] = answer[b]
        /\ \/ pc'[a] = "update" /\ answer'[a] = Unanswered
           \/ pc'[a] = "done" /\ answer'[a] = [code |-> 500, row |-> NoRow]
    <2>1. CASE pc' = [pc EXCEPT ![a] = "update"] /\ answer' = answer
      BY <1>1, <2>1 DEF IInv, TypeOK
    <2>2. CASE Respond(a, 500, NoRow)
      BY <2>2 DEF IInv, TypeOK, Respond
    <2> QED BY <2>1, <2>2
  <1>5. TypeOK'
    <2>1. CASE pc' = [pc EXCEPT ![a] = "update"] /\ answer' = answer
      BY <1>3, <2>1 DEF IInv, TypeOK
    <2>2. CASE Respond(a, 500, NoRow)
      BY <1>3, <2>2 DEF IInv, TypeOK, Respond, Response
    <2> QED BY <2>1, <2>2
  <1>6. RowsFit'
    <2> SUFFICES ASSUME NEW b \in Attempts
                 PROVE  /\ pc'[b] \in {"idle", "insert", "lookup"} => Absent(b)'
                        /\ pc'[b] = "update" => ~Absent(b)'
                        /\ pc'[b] \in {"idle", "insert", "lookup", "update", "crashed"} =>
                              answer'[b] = Unanswered
                        /\ answer'[b].code = 500 => calls'[b].status # "success"
                        /\ ~Absent(b)' => /\ calls'[b].tool = request'[b].tool
                                          /\ calls'[b].key = IdempotencyKey(b)'
      BY DEF RowsFit
    <2>1. CASE b = a
      BY <1>2, <1>3, <1>4, <2>1 DEF Absent, NewRow
    <2>2. CASE b # a
      BY <1>2, <1>3, <1>4, <2>2 DEF IInv, RowsFit, Absent
    <2> QED BY <2>1, <2>2
  <1>7. KeysFit'
    <2> SUFFICES ASSUME NEW b \in Attempts, NEW d \in Attempts,
                        ~Absent(b)', ~Absent(d)', calls'[b].tool = calls'[d].tool,
                        calls'[b].key = calls'[d].key, calls'[b].key # NoKey
                 PROVE  b = d
      BY DEF KeysFit
    <2>1. \A e \in Attempts \ {a} : ~(/\ ~Absent(e)
                                      /\ IdempotencyKey(a) # NoKey
                                      /\ calls[e].tool = request[a].tool
                                      /\ calls[e].key = IdempotencyKey(a))
      BY DEF SameCall
    <2>2. CASE b # a /\ d # a
      BY <1>3, <2>2 DEF IInv, KeysFit, Absent
    <2>3. CASE b = a \/ d = a
      BY <1>3, <2>1, <2>3 DEF NewRow, Absent
    <2> QED BY <2>2, <2>3
  <1>8. AnswersFit'
    BY <1>1, <1>2, <1>3, <1>4 DEF IInv, AnswersFit, Absent, NewRow, Unanswered
  <1> QED BY <1>1, <1>3, <1>5, <1>6, <1>7, <1>8 DEF IInv, Extends, Absent

\* Storing a response completes a row and changes nothing else of it.
LEMMA StoredIInv ==
    ASSUME NEW a \in Attempts, IInv, pc[a] = "update",
           calls' = Stored(a), request' = request, Respond(a, 202, a)
    PROVE  IInv' /\ Extends
  <1>1. /\ ~Absent(a) /\ answer[a] = Unanswered
        /\ calls[a].tool = request[a].tool /\ calls[a].key = IdempotencyKey(a)
    BY DEF IInv, RowsFit
  <1>2. \A b \in Attempts : IdempotencyKey(b)' = IdempotencyKey(b)
    BY DEF IdempotencyKey
  <1>3. /\ calls' \in [Attempts -> Row]
        /\ calls'[a].status = "success"
        /\ calls'[a].tool = calls[a].tool /\ calls'[a].key = calls[a].key
        /\ \A b \in Attempts \ {a} : calls'[b] = calls[b]
    BY DEF IInv, TypeOK, Stored, Row
  <1>4. /\ \A b \in Attempts \ {a} : pc'[b] = pc[b] /\ answer'[b] = answer[b]
        /\ pc'[a] = "done"
        /\ answer'[a] = [code |-> 202, row |-> a]
    BY DEF IInv, TypeOK, Respond
  <1>5. TypeOK'
    BY <1>3 DEF IInv, TypeOK, Respond, Response
  <1>6. RowsFit'
    BY <1>1, <1>2, <1>3, <1>4 DEF IInv, RowsFit, Absent
  <1>7. KeysFit'
    BY <1>1, <1>3 DEF IInv, KeysFit, Absent
  <1>8. AnswersFit'
    BY <1>1, <1>2, <1>3, <1>4 DEF IInv, AnswersFit, Absent
  <1> QED BY <1>1, <1>3, <1>5, <1>6, <1>7, <1>8 DEF IInv, Extends, Absent

LEMMA HandleIInv ==
    ASSUME NEW a \in Attempts, IInv, HandleToolCall(a)
    PROVE  IInv' /\ Extends
  <1>1. CASE InsertToolCall(a)
    BY <1>1, NewRowIInv DEF InsertToolCall
  <1>2. CASE InsertCollides(a)
    <2>1. pc[a] = "insert" /\ Absent(a)
      BY <1>2 DEF InsertCollides, IInv, RowsFit
    <2> QED BY <1>2, <2>1, QuietIInv DEF InsertCollides
  <1>3. CASE InsertFails(a)
    <2>1. CASE UNCHANGED calls
      <3>1. calls[a].status # "success" /\ pc[a] = "insert"
        BY <1>3 DEF InsertFails, IInv, RowsFit, Absent
      <3>2. Respond(a, 500, NoRow) /\ UNCHANGED <<request, calls>>
        BY <1>3, <2>1 DEF InsertFails
      <3> QED BY <3>1, <3>2, RespondIInv
    <2>2. CASE SameCall(a) = {} /\ calls' = [calls EXCEPT ![a] = NewRow(a)]
      BY <1>3, <2>2, NewRowIInv DEF InsertFails
    <2> QED BY <1>3, <2>1, <2>2 DEF InsertFails
  <1>4. CASE GetToolCall(a)
    <2>1. PICK b \in SameCall(a) :
             IF calls[b].status = "success" THEN Respond(a, 200, b)
                                            ELSE Respond(a, 202, b)
      BY <1>4 DEF GetToolCall
    <2>2. /\ b \in Attempts /\ ~Absent(b)
          /\ calls[b].tool = request[a].tool /\ calls[b].key = IdempotencyKey(a)
          /\ IdempotencyKey(a) # NoKey
      BY DEF SameCall
    <2>3. pc[a] = "lookup" /\ UNCHANGED <<request, calls>>
      BY <1>4 DEF GetToolCall
    <2>4. CASE Respond(a, 200, b) /\ calls[b].status = "success"
      BY <2>2, <2>3, <2>4, RespondIInv, ToolCallsConstants
    <2>5. CASE Respond(a, 202, b)
      BY <2>2, <2>3, <2>5, RespondIInv
    <2> QED BY <2>1, <2>4, <2>5
  <1>5. CASE GetToolCallFails(a)
    <2>1. calls[a].status # "success" /\ pc[a] = "lookup"
      BY <1>5 DEF GetToolCallFails, IInv, RowsFit, Absent
    <2> QED BY <1>5, <2>1, RespondIInv DEF GetToolCallFails
  <1>6. CASE UpdateToolCallResponse(a)
    BY <1>6, StoredIInv DEF UpdateToolCallResponse
  <1>7. CASE UpdateFails(a)
    <2>1. CASE UNCHANGED calls
      <3>1. ~Absent(a) /\ calls[a].tool = request[a].tool /\ calls[a].key = IdempotencyKey(a)
        BY <1>7 DEF UpdateFails, IInv, RowsFit
      <3>2. pc[a] = "update" /\ Respond(a, 202, a) /\ UNCHANGED <<request, calls>>
        BY <1>7, <2>1 DEF UpdateFails
      <3> QED BY <3>1, <3>2, RespondIInv
    <2>2. CASE calls' = Stored(a)
      BY <1>7, <2>2, StoredIInv DEF UpdateFails
    <2> QED BY <1>7, <2>1, <2>2 DEF UpdateFails
  <1> QED
    BY <1>1, <1>2, <1>3, <1>4, <1>5, <1>6, <1>7 DEF HandleToolCall

LEMMA NextIInv ==
    ASSUME IInv, [Next]_vars
    PROVE  IInv' /\ Extends
  <1>1. ASSUME NEW a \in Attempts, Receive(a) PROVE IInv' /\ Extends
    BY <1>1, QuietIInv DEF Receive, IInv, RowsFit
  <1>2. ASSUME NEW a \in Attempts, HandleToolCall(a) PROVE IInv' /\ Extends
    BY <1>2, HandleIInv
  <1>3. ASSUME NEW a \in Attempts, Crash(a) PROVE IInv' /\ Extends
    BY <1>3, QuietIInv DEF Crash
  <1>4. CASE UNCHANGED vars
    BY <1>4 DEF vars, IInv, TypeOK, RowsFit, KeysFit, AnswersFit, Extends, Absent, IdempotencyKey
  <1> QED BY <1>1, <1>2, <1>3, <1>4 DEF Next

LEMMA Invariance == Spec => []IInv
  <1>1. Init => IInv
    BY InitIInv
  <1>2. IInv /\ [Next]_vars => IInv'
    BY NextIInv
  <1> QED BY <1>1, <1>2, PTL DEF Spec

----------------------------------------------------------------------------

\* Every variable keeps its type, for any number of requests and any stack.
THEOREM TypeCorrect == Spec => []TypeOK
  <1>1. IInv => TypeOK
    BY DEF IInv
  <1> QED BY <1>1, Invariance, PTL

\* With any stack: the answers to the requests that the handler recognises as retries of
\* each other name one call (handleToolCall), however they race, fail and die, and
\* requests that it does not recognise share none.
THEOREM SafeRetries == Spec => []RetriesNameOneCall
  <1>1. IInv => RetriesNameOneCall
    <2> SUFFICES ASSUME IInv, NEW a \in Attempts, NEW b \in Attempts,
                        answer[a].row # NoRow, answer[b].row # NoRow
                 PROVE  answer[a].row = answer[b].row <=> a = b \/ Recognised(a, b)
      BY DEF RetriesNameOneCall
    <2>1. /\ answer[a].row \in Attempts /\ ~Absent(answer[a].row)
          /\ calls[answer[a].row].tool = request[a].tool
          /\ calls[answer[a].row].key = IdempotencyKey(a)
          /\ IdempotencyKey(a) = NoKey => answer[a].row = a
      BY DEF IInv, AnswersFit
    <2>2. /\ answer[b].row \in Attempts /\ ~Absent(answer[b].row)
          /\ calls[answer[b].row].tool = request[b].tool
          /\ calls[answer[b].row].key = IdempotencyKey(b)
          /\ IdempotencyKey(b) = NoKey => answer[b].row = b
      BY DEF IInv, AnswersFit
    <2>3. Recognised(a, b) => answer[a].row = answer[b].row
      BY <2>1, <2>2 DEF IInv, KeysFit, Recognised
    <2> QED BY <2>1, <2>2, <2>3 DEF Recognised
  <1> QED BY <1>1, Invariance, PTL

\* With any stack, a response names a recorded call of its tool and of its own key.
THEOREM AnswersNameTheirCall == Spec => []AnswerNamesItsCall
  <1>1. IInv => AnswerNamesItsCall
    BY DEF IInv, AnswersFit, AnswerNamesItsCall, IdempotencyKey
  <1> QED BY <1>1, Invariance, PTL

\* A replayed result is stored, and its first request was not told that it failed.
THEOREM ReplaysAreBacked == Spec => []ReplayIsBacked
  <1>1. IInv => ReplayIsBacked
    BY DEF IInv, RowsFit, AnswersFit, ReplayIsBacked
  <1> QED BY <1>1, Invariance, PTL

\* tool_calls only grows: no step changes a recorded call or takes back a response.
THEOREM CallsAreImmutable == Spec => StoredCallIsImmutable
  <1>1. IInv /\ [Next]_vars =>
          [\A a \in Attempts : ~Absent(a) =>
              /\ calls'[a].status # "absent"
              /\ calls'[a].tool = calls[a].tool /\ calls'[a].key = calls[a].key
              /\ calls[a].status = "success" => calls'[a].status = "success"]_vars
    BY NextIInv DEF Extends
  <1> QED BY <1>1, Invariance, PTL DEF Spec, StoredCallIsImmutable

----------------------------------------------------------------------------
(* The tool calls are a register of CallRegister.                          *)

registerVars == <<request, calls, answer>>

\* A step of a request that is not answered yet.
LEMMA StepIsOf ==
    ASSUME NEW a \in Attempts, answer[a] = Unanswered, UNCHANGED request,
           UNCHANGED calls \/ Register!Record(a) \/ Register!Complete(a),
           UNCHANGED answer \/ Register!Refuse(a) \/ Register!Accept(a) \/ Register!Replay(a)
    PROVE  Register!Next
BY DEF Register!Next, Register!Step, Unanswered

\* A row that the index has room for is a call that was not recorded.
LEMMA RecordStep ==
    ASSUME IInv, NEW a \in Attempts, pc[a] = "insert", SameCall(a) = {},
           calls' = [calls EXCEPT ![a] = NewRow(a)]
    PROVE  Register!Record(a)
  <1>1. Absent(a)
    BY DEF IInv, RowsFit
  <1>2. Register!Key(a) = IdempotencyKey(a)
    BY DEF Register!Key, IdempotencyKey
  <1>3. Register!Recorded(a) = {}
    BY <1>1, <1>2 DEF Register!Recorded, SameCall, Absent
  <1> QED BY <1>2, <1>3 DEF Register!Record, NewRow

\* The UPDATE completes a call that has no response, or finds it completed.
LEMMA CompleteStep ==
    ASSUME IInv, NEW a \in Attempts, pc[a] = "update", calls' = Stored(a)
    PROVE  UNCHANGED calls \/ Register!Complete(a)
  <1>1. calls \in [Attempts -> Row] /\ calls[a].status \in {"accepted", "success"}
    BY DEF IInv, TypeOK, RowsFit, Absent, Row
  <1>2. CASE calls[a].status = "success"
    BY <1>1, <1>2 DEF Stored, Row
  <1>3. CASE calls[a].status = "accepted"
    BY <1>3 DEF Stored, Register!Complete
  <1> QED BY <1>1, <1>2, <1>3

LEMMA HandleStep ==
    ASSUME IInv, NEW a \in Attempts, HandleToolCall(a)
    PROVE  Register!Next \/ UNCHANGED registerVars
  <1>1. pc[a] \in {"insert", "lookup", "update"} /\ answer[a] = Unanswered
    BY DEF HandleToolCall, InsertToolCall, InsertCollides, InsertFails, GetToolCall,
           GetToolCallFails, UpdateToolCallResponse, UpdateFails, IInv, RowsFit
  <1>2. IInv'
    BY HandleIInv
  <1>3. CASE InsertToolCall(a)
    BY <1>1, <1>3, RecordStep, StepIsOf DEF InsertToolCall
  <1>4. CASE InsertCollides(a)
    BY <1>4 DEF InsertCollides, registerVars
  <1>5. CASE InsertFails(a)
    <2>1. Respond(a, 500, NoRow) /\ UNCHANGED request /\ pc[a] = "insert"
      BY <1>5 DEF InsertFails
    <2>2. UNCHANGED calls \/ Register!Record(a)
      BY <1>5, RecordStep DEF InsertFails
    <2>3. answer'[a].code = 500
      BY <2>1 DEF Respond, IInv, TypeOK
    <2>4. Register!Refuse(a)
      BY <1>2, <2>1, <2>3 DEF Register!Refuse, Register!Reply, Respond, IInv, RowsFit
    <2> QED BY <1>1, <2>1, <2>2, <2>4, StepIsOf
  <1>6. CASE GetToolCall(a)
    <2>1. pc[a] = "lookup" /\ UNCHANGED <<request, calls>> /\ Absent(a)
      BY <1>6 DEF GetToolCall, IInv, RowsFit
    <2>2. PICK b \in SameCall(a) : IF calls[b].status = "success" THEN Respond(a, 200, b)
                                                                 ELSE Respond(a, 202, b)
      BY <1>6 DEF GetToolCall
    <2>3. b \in Register!Recorded(a)' /\ b # a
      BY <2>1 DEF Register!Recorded, Register!Key, SameCall, Absent, IdempotencyKey
    <2>4. CASE calls[b].status = "success"
      <3>1. Register!Replay(a)
        BY <2>1, <2>2, <2>3, <2>4 DEF Register!Replay, Register!Reply, Respond
      <3> QED BY <1>1, <2>1, <3>1, StepIsOf
    <2>5. CASE calls[b].status # "success"
      <3>1. calls'[b].status = "accepted"
        BY <2>1, <2>5 DEF SameCall, Absent, IInv, TypeOK, Row
      <3>2. Register!Accept(a)
        BY <2>2, <2>3, <2>5, <3>1 DEF Register!Accept, Register!Reply, Respond
      <3> QED BY <1>1, <2>1, <3>2, StepIsOf
    <2> QED BY <2>4, <2>5
  <1>7. CASE GetToolCallFails(a)
    <2>1. Respond(a, 500, NoRow) /\ UNCHANGED <<request, calls>> /\ Absent(a)
      BY <1>7 DEF GetToolCallFails, IInv, RowsFit
    <2>2. Register!Refuse(a)
      BY <2>1 DEF Register!Refuse, Register!Reply, Respond, Absent
    <2> QED BY <1>1, <2>1, <2>2, StepIsOf
  <1>8. CASE UpdateToolCallResponse(a) \/ UpdateFails(a)
    <2>1. /\ pc[a] = "update" /\ Respond(a, 202, a) /\ UNCHANGED request
          /\ UNCHANGED calls \/ calls' = Stored(a)
      BY <1>8 DEF UpdateToolCallResponse, UpdateFails
    <2>2. UNCHANGED calls \/ Register!Complete(a)
      BY <2>1, CompleteStep
    <2>3. ~Absent(a)'
      <3>1. ~Absent(a) /\ calls \in [Attempts -> Row]
        BY <2>1 DEF IInv, RowsFit, TypeOK
      <3>2. CASE UNCHANGED calls
        BY <3>1, <3>2 DEF Absent
      <3>3. CASE calls' = Stored(a)
        BY <3>1, <3>3 DEF Absent, Stored, Row
      <3> QED BY <2>1, <3>2, <3>3
    <2>4. a \in Register!Recorded(a)'
      BY <1>2, <2>3 DEF Register!Recorded, Register!Key, IdempotencyKey, IInv, RowsFit, Absent
    <2>5. Register!Accept(a)
      BY <2>1, <2>4 DEF Register!Accept, Register!Reply, Respond
    <2> QED BY <1>1, <2>1, <2>2, <2>5, StepIsOf
  <1> QED BY <1>3, <1>4, <1>5, <1>6, <1>7, <1>8 DEF HandleToolCall

\* Whatever fails and however requests race, handleToolCall only records, completes and
\* answers calls as CallRegister allows, with any order of handlers.
THEOREM RegisterImplemented == Spec => ImplementsRegister
  <1>1. Init => Register!Init
    BY DEF Init, Request, Unanswered, Register!Init
  <1>2. ASSUME IInv, [Next]_vars PROVE [Register!Next]_registerVars
    <2>1. ASSUME NEW a \in Attempts, Receive(a) \/ Crash(a) PROVE UNCHANGED registerVars
      BY <2>1 DEF Receive, Crash, registerVars
    <2>2. CASE UNCHANGED vars
      BY <2>2 DEF vars, registerVars
    <2> QED BY <1>2, <2>1, <2>2, HandleStep DEF Next
  <1> QED BY <1>1, <1>2, Invariance, PTL DEF Spec, ImplementsRegister, Register!Spec, registerVars
=============================================================================
