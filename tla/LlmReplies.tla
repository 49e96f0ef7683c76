----------------------------- MODULE LlmReplies -----------------------------
(***************************************************************************)
(* What the LLM deployment promises its callers, without saying how: some  *)
(* of the requests that wait become a batch; a batch is answered as a      *)
(* whole, all of it with results of their own or all of it with an         *)
(* exception, and an answer is final.                                      *)
(***************************************************************************)
EXTENDS Naturals, FiniteSets

CONSTANTS Requests, Kinds, MaxBatch

VARIABLES
    kind,       \* the kind of each request
    answer,     \* what its caller has
    batches     \* the sets of requests that are being served together

Init ==
    /\ kind \in [Requests -> Kinds]
    /\ answer = [q \in Requests |-> [was |-> "new"]]
    /\ batches = {}

\* The requests that wait and are in no batch.
Queued == {q \in Requests : answer[q].was = "waiting"} \ UNION batches

Submit(q) ==
    /\ answer[q].was = "new"
    /\ answer' = [answer EXCEPT ![q].was = "waiting"]
    /\ UNCHANGED batches

Gather(batch) ==
    /\ batch # {} /\ Cardinality(batch) <= MaxBatch
    /\ batches' = batches \cup {batch}
    /\ UNCHANGED answer

\* A request without messages is no success, and one without a length has no result.
Return(batch) ==
    \E success \in [batch -> BOOLEAN] :
        /\ \A q \in batch : kind[q] # "malformed" /\ (success[q] => kind[q] = "chat")
        /\ answer' = [q \in Requests |->
               IF q \in batch
               THEN [was |-> "returned", result |-> [success |-> success[q], of |-> q]]
               ELSE answer[q]]
        /\ batches' = batches \ {batch}

\* A whole batch or none, and, of a replica that dies, what waited for it.
Raise(batch, queue) ==
    /\ answer' = [q \in Requests |->
                     IF q \in batch \cup queue THEN [was |-> "raised"] ELSE answer[q]]
    /\ batches' = batches \ {batch}

Next ==
    /\ \/ \E q \in Requests : Submit(q)
       \/ \E batch \in SUBSET Queued : Gather(batch)
       \/ \E batch \in batches : Return(batch)
       \/ \E batch \in batches \cup {{}}, queue \in SUBSET Queued : Raise(batch, queue)
    /\ UNCHANGED kind

Spec == Init /\ [][Next]_<<kind, answer, batches>>
=============================================================================
