------------------------------ MODULE LlmBatch ------------------------------
(***************************************************************************)
(* The LLM deployment: Ray Serve gathers the waiting requests of a replica *)
(* into a batch, LLMModel.__call__ loads the model if there is none yet    *)
(* and answers the requests of the batch one after the other, and Serve    *)
(* hands the i-th result to the i-th request.                              *)
(***************************************************************************)
EXTENDS Naturals, SequencesExt

CONSTANTS
    Requests,   \* the requests of the agent's handle
    Replicas,   \* the replicas of the deployment
    MaxBatch,   \* max_batch_size
    Kinds,      \* the kinds of requests this instance sends
    Faults      \* which parts of the environment may fail in this instance

\* A "chat" has messages, an "empty" one has none, and the messages of a "malformed"
\* one have no length (null).
ASSUME LlmConstants ==
    /\ MaxBatch \in Nat \ {0}
    /\ Kinds \subseteq {"chat", "empty", "malformed"}
    /\ Faults \subseteq {"load", "model", "crash"}

VARIABLES
    kind,       \* the kind of each request
    answer,     \* what its caller has: nothing, a result, or an exception
    replica     \* each replica: its queue, its batch, the results so far, its model

vars == <<kind, answer, replica>>

\* A result names the request whose messages it was made from.
Result == [success : BOOLEAN, of : Requests]
Answer == [was : {"new", "waiting", "raised"}] \cup [was : {"returned"}, result : Result]

Idle == [queue |-> <<>>, batch |-> <<>>, results |-> <<>>, next |-> 0, loaded |-> FALSE]

Init ==
    /\ kind \in [Requests -> Kinds]
    /\ answer = [q \in Requests |-> [was |-> "new"]]
    /\ replica = [r \in Replicas |-> Idle]

Raise(qs) == [q \in Requests |-> IF q \in qs THEN [was |-> "raised"] ELSE answer[q]]

Submit(q, r) ==
    /\ answer[q].was = "new"
    /\ answer' = [answer EXCEPT ![q].was = "waiting"]
    /\ replica' = [replica EXCEPT ![r].queue = Append(@, q)]
    /\ UNCHANGED kind

\* @serve.batch: the requests that wait, up to MaxBatch, when the last batch is done.
Gather(r) ==
    LET queue == replica[r].queue
        n == IF Len(queue) < MaxBatch THEN Len(queue) ELSE MaxBatch
    IN /\ replica[r].batch = <<>> /\ queue # <<>>
       /\ replica' = [replica EXCEPT ![r].batch = SubSeq(queue, 1, n),
                                     ![r].queue = SubSeq(queue, n + 1, Len(queue))]
       /\ UNCHANGED <<kind, answer>>

\* _load_model, the first thing a batch does; a model that is there is kept.
LoadModel(r) ==
    /\ replica[r].batch # <<>> /\ replica[r].next = 0
    /\ replica' = [replica EXCEPT ![r].loaded = TRUE, ![r].next = 1]
    /\ UNCHANGED <<kind, answer>>

\* The batch raises: each of its requests does, and the replica takes the next.
BatchRaises(r) ==
    /\ answer' = Raise(ToSet(replica[r].batch))
    /\ replica' = [replica EXCEPT ![r] = [Idle EXCEPT !.queue = replica[r].queue,
                                                      !.loaded = replica[r].loaded]]
    /\ UNCHANGED kind

\* Llama() raises: model stays None, so the next batch tries again.
LoadFails(r) ==
    /\ "load" \in Faults
    /\ replica[r].batch # <<>> /\ replica[r].next = 0 /\ ~replica[r].loaded
    /\ BatchRaises(r)

Serving(r) == replica[r].next \in 1 .. Len(replica[r].batch)

Current(r) == replica[r].batch[replica[r].next]

\* Variant: a result that counts as a failure is a None.
AppendNone(r, success) ==
    replica' = [replica EXCEPT ![r].next = @ + 1,
                               ![r].results = Append(@, IF success
                                   THEN [success |-> TRUE, of |-> Current(r)]
                                   ELSE [success |-> FALSE])]

\* Variant: nothing for a request without messages.
AppendNoEmpty(r, success) ==
    replica' = [replica EXCEPT ![r].next = @ + 1,
                               ![r].results = IF kind[Current(r)] = "empty" THEN @
                                   ELSE Append(@, [success |-> success, of |-> Current(r)])]

\* Variant: the failures before the successes.
AppendSorted(r, success) ==
    replica' = [replica EXCEPT ![r].next = @ + 1,
                               ![r].results = IF success
                                   THEN Append(@, [success |-> success, of |-> Current(r)])
                                   ELSE Cons([success |-> success, of |-> Current(r)], @)]

\* results.append
AppendResult(r, success) ==
    replica' = [replica EXCEPT ![r].next = @ + 1,
                               ![r].results = Append(@, [success |-> success, of |-> Current(r)])]

\* create_chat_completion returns, or raises inside the loop's try.
ServeChat(r) ==
    /\ Serving(r) /\ kind[Current(r)] = "chat"
    /\ AppendResult(r, TRUE) \/ ("model" \in Faults /\ AppendResult(r, FALSE))
    /\ UNCHANGED <<kind, answer>>

\* empty_messages
ServeEmpty(r) ==
    /\ Serving(r) /\ kind[Current(r)] = "empty"
    /\ AppendResult(r, FALSE)
    /\ UNCHANGED <<kind, answer>>

\* Variant: the batch is left where it is when the request raises.
ServeMalformedStops(r) ==
    /\ Serving(r) /\ kind[Current(r)] = "malformed"
    /\ UNCHANGED vars

\* len(messages) raises in the log line, outside the try.
ServeMalformed(r) ==
    /\ Serving(r) /\ kind[Current(r)] = "malformed"
    /\ BatchRaises(r)

\* Serve: as many results as requests, or the batch raises.
Return(r) ==
    /\ replica[r].batch # <<>> /\ replica[r].next = Len(replica[r].batch) + 1
    /\ LET batch == replica[r].batch
           results == replica[r].results
       IN IF Len(results) # Len(batch) THEN BatchRaises(r)
          ELSE /\ answer' = [q \in Requests |->
                      IF q \in ToSet(batch)
                      THEN [was |-> "returned",
                            result |-> results[CHOOSE i \in DOMAIN batch : batch[i] = q]]
                      ELSE answer[q]]
               /\ replica' = [replica EXCEPT ![r] = [Idle EXCEPT !.queue = replica[r].queue,
                                                                 !.loaded = replica[r].loaded]]
               /\ UNCHANGED kind

\* The replica dies; Serve starts another in its place, without a model.
Crash(r) ==
    /\ "crash" \in Faults
    /\ replica[r] # Idle
    /\ answer' = Raise(ToSet(replica[r].queue \o replica[r].batch))
    /\ replica' = [replica EXCEPT ![r] = Idle]
    /\ UNCHANGED kind

Work(r) ==
    \/ Gather(r) \/ LoadModel(r) \/ ServeChat(r) \/ ServeEmpty(r) \/ ServeMalformed(r)
    \/ Return(r)

Next ==
    \E r \in Replicas :
        \/ \E q \in Requests : Submit(q, r)
        \/ Work(r) \/ LoadFails(r) \/ Crash(r)

Spec == Init /\ [][Next]_vars

\* A replica goes on with its batch; inference ends, max_tokens bounds it.
FairSpec == Spec /\ \A r \in Replicas : WF_vars(Work(r))

----------------------------------------------------------------------------
(* Properties.                                                             *)

TypeOK ==
    /\ kind \in [Requests -> Kinds]
    /\ answer \in [Requests -> Answer]
    /\ \A r \in Replicas :
          /\ replica[r].queue \in Seq(Requests) /\ replica[r].loaded \in BOOLEAN
          /\ replica[r].batch \in Seq(Requests) /\ Len(replica[r].batch) <= MaxBatch
          /\ replica[r].results \in Seq(Result)
          /\ replica[r].next \in 0 .. MaxBatch + 1

\* A caller is handed the result of its own request, whatever the batch it was put in,
\* and a request without messages never comes back as a success.
OwnResult ==
    \A q \in Requests : answer[q].was = "returned" =>
        /\ answer[q].result.of = q
        /\ answer[q].result.success => kind[q] = "chat"

Batches == {ToSet(replica[r].batch) : r \in Replicas} \ {{}}

Replies == INSTANCE LlmReplies WITH batches <- Batches

\* However requests are batched and whatever fails, the callers see LlmReplies: what a
\* replica serves together is answered together, all of it or none, every result is of its
\* own request, an empty request is no success, and no answer is followed by another
\* (LLMModel.__call__).
ImplementsReplies == Replies!Spec

\* One request that fails inside the loop does not take its batch with it: while the
\* replica lives, a request raises only when the model cannot be loaded or a request of
\* its batch has messages without a length.
RaisedHasCause ==
    [][\A r \in Replicas : \A q \in ToSet(replica[r].batch) :
          (answer'[q].was = "raised" /\ answer[q].was # "raised") =>
              \/ replica[r].next = 0
              \/ Serving(r) /\ kind[Current(r)] = "malformed"
              \/ replica'[r] = Idle]_vars

\* A request is answered: its caller gets a result or an exception.
RequestAnswered ==
    \A q \in Requests : answer[q].was = "waiting" ~> answer[q].was \in {"returned", "raised"}
=============================================================================
