------------------------------ MODULE TaskTrail ------------------------------
(***************************************************************************)
(* What POST /tasks promises across its four stores, without saying how: a *)
(* task is its creator's, what the cache, the activity log and the stream  *)
(* say of it was committed before, and who is told of an error has left no *)
(* more behind than the task, if that.                                     *)
(***************************************************************************)
EXTENDS Naturals

CONSTANTS Requests, Users, None

VARIABLES
    owner,      \* who makes each request
    told,       \* what each request was answered: "none", "created" or "error"
    tasks,      \* the creator of each committed task
    cache,      \* each task's cache entry: "none", "forever" or "ttl"
    events,     \* how many activities each task has
    stream      \* the tasks whose activity was pushed

vars == <<owner, told, tasks, cache, events, stream>>

Init ==
    /\ owner \in [Requests -> Users]
    /\ told = [r \in Requests |-> "none"]
    /\ tasks = [r \in Requests |-> None]
    /\ cache = [r \in Requests |-> "none"]
    /\ events = [r \in Requests |-> 0]
    /\ stream = {}

Missing(r) == tasks[r] = None /\ told[r] = "none"

There(r) == tasks[r] # None /\ told[r] # "error"

ToldOf(r, answer) == [told EXCEPT ![r] = answer]

\* The task is committed, and the requester may be told of an error all the same.
Create(r) ==
    /\ Missing(r)
    /\ tasks' = [tasks EXCEPT ![r] = owner[r]]
    /\ told' \in {told, ToldOf(r, "error")}
    /\ UNCHANGED <<owner, cache, events, stream>>

Refuse(r) ==
    /\ Missing(r)
    /\ told' = ToldOf(r, "error")
    /\ UNCHANGED <<owner, tasks, cache, events, stream>>

Confirm(r) ==
    /\ There(r) /\ told[r] = "none"
    /\ told' = ToldOf(r, "created")
    /\ UNCHANGED <<owner, tasks, cache, events, stream>>

\* An entry is set, then given its expiry, before the answer.
CacheTask(r) ==
    /\ There(r) /\ told[r] = "none"
    /\ \E step \in {<<"none", "forever">>, <<"forever", "ttl">>} :
          cache[r] = step[1] /\ cache' = [cache EXCEPT ![r] = step[2]]
    /\ UNCHANGED <<owner, told, tasks, events, stream>>

LogEvent(r) ==
    /\ There(r) /\ events[r] = 0
    /\ events' = [events EXCEPT ![r] = 1]
    /\ UNCHANGED <<owner, told, tasks, cache, stream>>

PushEvent(r) ==
    /\ events[r] = 1
    /\ stream' = stream \cup {r}
    /\ UNCHANGED <<owner, told, tasks, cache, events>>

Next ==
    \E r \in Requests :
        \/ Create(r) \/ Refuse(r) \/ Confirm(r)
        \/ CacheTask(r) \/ LogEvent(r) \/ PushEvent(r)

Spec == Init /\ [][Next]_vars
=============================================================================
