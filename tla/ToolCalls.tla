----------------------------- MODULE ToolCalls -----------------------------
(***************************************************************************)
(* The MCP service: POST /tools/:name records the call in tool_calls,      *)
(* answers "accepted", and answers a retry that carries the same           *)
(* idempotency key from the recorded row.                                  *)
(*                                                                         *)
(* handleToolCall runs two statements, each in a transaction of its own;   *)
(* requests of one service and of its replicas interleave between them.    *)
(***************************************************************************)
EXTENDS Naturals, Sequences

CONSTANTS
    Attempts,   \* the HTTP requests; also names the row one may insert
    Tools,      \* the tool names of their paths
    Keys,       \* the idempotency keys clients send
    NoKey,      \* no key
    NoRow,      \* no row
    Stack,      \* what main registers on the fiber app, in order
    Faults      \* which parts of the environment may fail in this instance

ASSUME ToolCallsConstants ==
    /\ NoKey \notin Keys
    /\ NoRow \notin Attempts
    /\ Faults \subseteq {"database", "crash"}

VARIABLES
    pc,         \* where each request is
    request,    \* its tool and the key its client sent
    calls,      \* the tool_calls table, one possible row for each request
    answer      \* its HTTP response: the status and the row it names

vars == <<pc, request, calls, answer>>

Request == [tool : Tools, key : Keys \cup {NoKey}]

\* status is 'success' when response_payload is there: one UPDATE sets both.
Row == [status : {"absent", "accepted", "success"},
        tool : Tools \cup {"none"}, key : Keys \cup {NoKey}]

Response == [code : {0, 200, 202, 500}, row : Attempts \cup {NoRow}]

Unanswered == [code |-> 0, row |-> NoRow]

\* A handler of fiber runs only for the requests that no handler registered before
\* it has answered, and no route calls Next.
Reaches(handler, route) ==
    \E i, j \in DOMAIN Stack : i < j /\ Stack[i] = handler /\ Stack[j] = route

\* c.Locals("idempotency_key"), which the IdempotencyKey middleware sets.
IdempotencyKey(a) ==
    IF Reaches("IdempotencyKey", "/tools/:name") THEN request[a].key ELSE NoKey

Absent(a) == calls[a].status = "absent"

\* Variant: a call whose response is not stored yet does not count.
SameCallAnswered(a) ==
    {b \in Attempts : /\ ~Absent(b)
                      /\ calls[b].status = "success"
                      /\ IdempotencyKey(a) # NoKey
                      /\ calls[b].tool = request[a].tool
                      /\ calls[b].key = IdempotencyKey(a)}

\* Variant: a key names one call, whatever its tool.
SameCallAnyTool(a) ==
    {b \in Attempts : /\ ~Absent(b)
                      /\ IdempotencyKey(a) # NoKey
                      /\ calls[b].key = IdempotencyKey(a)}

\* The rows the unique index on (tool_name, idempotency_key) WHERE idempotency_key IS
\* NOT NULL holds against a new row, and that the lookup returns.
SameCall(a) ==
    {b \in Attempts : /\ ~Absent(b)
                      /\ IdempotencyKey(a) # NoKey
                      /\ calls[b].tool = request[a].tool
                      /\ calls[b].key = IdempotencyKey(a)}

\* Variant: a status the table's CHECK refuses.
NewRowPending(a) == [status |-> "pending", tool |-> request[a].tool, key |-> IdempotencyKey(a)]

NewRow(a) == [status |-> "accepted", tool |-> request[a].tool, key |-> IdempotencyKey(a)]

Respond(a, code, row) ==
    /\ pc' = [pc EXCEPT ![a] = "done"]
    /\ answer' = [answer EXCEPT ![a] = [code |-> code, row |-> row]]

Init ==
    /\ pc = [a \in Attempts |-> "idle"]
    /\ request \in [Attempts -> Request]
    /\ calls = [a \in Attempts |-> [status |-> "absent", tool |-> "none", key |-> NoKey]]
    /\ answer = [a \in Attempts |-> Unanswered]

\* The request arrives with a tool name and a body that parses (otherwise 400, and
\* nothing happens).
Receive(a) ==
    /\ pc[a] = "idle"
    /\ pc' = [pc EXCEPT ![a] = "insert"]
    /\ UNCHANGED <<request, calls, answer>>

\* Variant: an INSERT ... ON CONFLICT DO UPDATE, which starts the call afresh.
InsertToolCallAfresh(a) ==
    /\ pc[a] = "insert"
    /\ calls' = [b \in Attempts |->
                    IF b \in SameCall(a) \cup {a} THEN NewRow(a) ELSE calls[b]]
    /\ pc' = [pc EXCEPT ![a] = "update"]
    /\ UNCHANGED <<request, answer>>

\* The new row has no response yet.
InsertToolCall(a) ==
    /\ pc[a] = "insert"
    /\ SameCall(a) = {}
    /\ calls' = [calls EXCEPT ![a] = NewRow(a)]
    /\ pc' = [pc EXCEPT ![a] = "update"]
    /\ UNCHANGED <<request, answer>>

\* A unique violation: the row is read in a statement of its own.
InsertCollides(a) ==
    /\ pc[a] = "insert"
    /\ SameCall(a) # {}
    /\ pc' = [pc EXCEPT ![a] = "lookup"]
    /\ UNCHANGED <<request, calls, answer>>

\* Any other error of the INSERT, which may have committed: 500.
InsertFails(a) ==
    /\ "database" \in Faults
    /\ pc[a] = "insert"
    /\ \/ UNCHANGED calls
       \/ SameCall(a) = {} /\ calls' = [calls EXCEPT ![a] = NewRow(a)]
    /\ Respond(a, 500, NoRow)
    /\ UNCHANGED request

\* Variant: a retry is told 200 whether a response is stored or not.
GetToolCallAlways(a) ==
    /\ pc[a] = "lookup"
    /\ \E b \in SameCall(a) : Respond(a, 200, b)
    /\ UNCHANGED <<request, calls>>

\* GetToolCallByToolAndIdempotency: the stored response if there is one, or the row
\* alone.
GetToolCall(a) ==
    /\ pc[a] = "lookup"
    /\ \E b \in SameCall(a) :
          IF calls[b].status = "success" THEN Respond(a, 200, b)
                                         ELSE Respond(a, 202, b)
    /\ UNCHANGED <<request, calls>>

GetToolCallFails(a) ==
    /\ "database" \in Faults
    /\ pc[a] = "lookup"
    /\ Respond(a, 500, NoRow)
    /\ UNCHANGED <<request, calls>>

Stored(a) == [calls EXCEPT ![a].status = "success"]

UpdateToolCallResponse(a) ==
    /\ pc[a] = "update"
    /\ calls' = Stored(a)
    /\ Respond(a, 202, a)
    /\ UNCHANGED request

\* The UPDATE raises (and may have committed): the client is answered all the same.
UpdateFails(a) ==
    /\ "database" \in Faults
    /\ pc[a] = "update"
    /\ UNCHANGED calls \/ calls' = Stored(a)
    /\ Respond(a, 202, a)
    /\ UNCHANGED request

\* The replica dies, or its Shutdown gives up on the request.
Crash(a) ==
    /\ "crash" \in Faults
    /\ pc[a] \in {"insert", "lookup", "update"}
    /\ pc' = [pc EXCEPT ![a] = "crashed"]
    /\ UNCHANGED <<request, calls, answer>>

HandleToolCall(a) ==
    \/ InsertToolCall(a) \/ InsertCollides(a) \/ InsertFails(a)
    \/ GetToolCall(a) \/ GetToolCallFails(a)
    \/ UpdateToolCallResponse(a) \/ UpdateFails(a)

Next == \E a \in Attempts : Receive(a) \/ HandleToolCall(a) \/ Crash(a)

Spec == Init /\ [][Next]_vars

----------------------------------------------------------------------------
(* Properties.                                                             *)

TypeOK ==
    /\ pc \in [Attempts -> {"idle", "insert", "lookup", "update", "done", "crashed"}]
    /\ request \in [Attempts -> Request]
    /\ calls \in [Attempts -> Row]
    /\ answer \in [Attempts -> Response]

\* What handleToolCall takes for a request and its retry: the keys are those that reach it.
Recognised(a, b) ==
    /\ request[a].tool = request[b].tool
    /\ IdempotencyKey(a) = IdempotencyKey(b)
    /\ IdempotencyKey(a) # NoKey

\* "for safe retries" (docs/agents/all_pg_tables.md): however a request and its retries
\* race, fail and die, the answers to them name one and the same call, and nobody else is
\* answered with it.
RetriesNameOneCall ==
    \A a, b \in Attempts :
        (answer[a].row # NoRow /\ answer[b].row # NoRow) =>
            (answer[a].row = answer[b].row <=> a = b \/ Recognised(a, b))

\* A response names a call that is recorded, of the tool it was asked for and of no
\* other client's key.
AnswerNamesItsCall ==
    \A a \in Attempts : answer[a].row # NoRow =>
        /\ ~Absent(answer[a].row)
        /\ calls[answer[a].row].tool = request[a].tool
        /\ calls[answer[a].row].key \in {request[a].key, NoKey}

\* A replayed result (200) is stored, and the request that made the call was not told
\* that it failed.
ReplayIsBacked ==
    \A a \in Attempts : answer[a].code = 200 =>
        /\ calls[answer[a].row].status = "success"
        /\ answer[answer[a].row].code # 500

\* "immutable audit of every tool invocation" (docs/agents/all_pg_tables.md): no retry
\* takes back a stored response, and no row goes away or changes its call.
StoredCallIsImmutable ==
    [][\A a \in Attempts : ~Absent(a) =>
          /\ calls'[a].status # "absent"
          /\ calls'[a].tool = calls[a].tool /\ calls'[a].key = calls[a].key
          /\ calls[a].status = "success" => calls'[a].status = "success"]_vars

Register == INSTANCE CallRegister WITH Identified <- Reaches("IdempotencyKey", "/tools/:name")

\* handleToolCall implements a register that is written once for each key: a row is
\* recorded once, completed by its own request at most, and never taken back, and every
\* answer is final and is what the register holds when it is given.
ImplementsRegister == Register!Spec

\* A request and its retry, as their client means them.
Retries(a, b) == request[a] = request[b] /\ request[a].key # NoKey

\* "All mutating tools require an idempotency_key for safe retries"
\* (docs/agents/all_pg_tables.md): a call that is retried is recorded once.
RetriedCallRecordedOnce ==
    \A a, b \in Attempts :
        (Retries(a, b) /\ ~Absent(a) /\ ~Absent(b)) => a = b
=============================================================================
