---------------------------- MODULE CallRegister ----------------------------
(***************************************************************************)
(* What the MCP service promises its clients, without saying how: a        *)
(* register of tool calls that is written once for each key, and the only  *)
(* answers that a client may be given, each of them final.                 *)
(***************************************************************************)

CONSTANTS
    Attempts, Tools, Keys, NoKey, NoRow,
    Identified  \* whether the service learns the key that a client sends

VARIABLES
    request,    \* the tool and the key of each request
    calls,      \* the register
    answer      \* what each client was told

Init ==
    /\ request \in [Attempts -> [tool : Tools, key : Keys \cup {NoKey}]]
    /\ calls = [a \in Attempts |-> [status |-> "absent", tool |-> "none", key |-> NoKey]]
    /\ answer = [a \in Attempts |-> [code |-> 0, row |-> NoRow]]

Key(a) == IF Identified THEN request[a].key ELSE NoKey

\* The calls that a request stands for: its own, and without a key no other.
Recorded(a) ==
    {b \in Attempts : /\ calls[b].status # "absent"
                      /\ calls[b].tool = request[a].tool /\ calls[b].key = Key(a)
                      /\ b = a \/ Key(a) # NoKey}

Record(a) ==
    /\ Recorded(a) = {}
    /\ calls' = [calls EXCEPT ![a] =
          [status |-> "accepted", tool |-> request[a].tool, key |-> Key(a)]]

Complete(a) ==
    /\ calls[a].status = "accepted"
    /\ calls' = [calls EXCEPT ![a].status = "success"]

Reply(a, code, row) == answer' = [answer EXCEPT ![a] = [code |-> code, row |-> row]]

\* A call that failed is not stored as done.
Refuse(a) == calls'[a].status # "success" /\ Reply(a, 500, NoRow)

\* Accepted: the client's own call, or a recorded one that is not done yet.
Accept(a) ==
    \E b \in Recorded(a)' : (b = a \/ calls'[b].status = "accepted") /\ Reply(a, 202, b)

\* The stored result of an earlier request.
Replay(a) ==
    \E b \in Recorded(a)' \ {a} : calls'[b].status = "success" /\ Reply(a, 200, b)

\* A request that is not answered yet may record or complete its call, and be answered.
Step(a) ==
    /\ answer[a].code = 0
    /\ UNCHANGED calls \/ Record(a) \/ Complete(a)
    /\ UNCHANGED answer \/ Refuse(a) \/ Accept(a) \/ Replay(a)
    /\ UNCHANGED request

Next == \E a \in Attempts : Step(a)

Spec == Init /\ [][Next]_<<request, calls, answer>>
=============================================================================
