-------------------------- MODULE TaskActivityProofs --------------------------
(***************************************************************************)
(* Theorems about TaskActivity, for every number of requests, users and    *)
(* secrets, with and without the fallback, and every failure.  What the    *)
(* stores hold of a request follows from where it and its POST are.        *)
(***************************************************************************)
EXTENDS TaskActivity, TLAPS

\* Nothing is stored before the INSERT; from it on the task is the subject's.
TaskOK(r) ==
    /\ request[r].pc \in {"idle", "local", "remote", "insert", "401", "502"} => tasks[r] = None
    /\ request[r].pc = "insert" => request[r].user = Sub(r)
    /\ request[r].pc \in {"set", "expire", "post", "wait", "200"} => tasks[r] = Sub(r)
    /\ tasks[r] \in {None, Sub(r)}

\* An entry is there once CacheSet has run, and has no expiry before CacheExpire.
CacheOK(r) ==
    /\ cache[r] # "none" =>
          tasks[r] = Sub(r) /\ request[r].pc \in {"expire", "post", "wait", "200", "crashed"}
    /\ request[r].pc = "expire" => cache[r] = "forever"

\* The POST is sent for a committed task; its handler inserts once, then pushes.
PostOK(r) ==
    /\ post[r] # "none" => tasks[r] = Sub(r) /\ request[r].pc \in {"wait", "200", "crashed"}
    /\ post[r] \in {"none", "sent", "insert"} => events[r] = 0
    /\ post[r] = "push" => events[r] = 1
    /\ events[r] \in {0, 1}
    /\ r \in stream => events[r] = 1

RequestOK(r) == TaskOK(r) /\ CacheOK(r) /\ PostOK(r)

IInv == TypeOK /\ \A r \in Requests : RequestOK(r)

----------------------------------------------------------------------------

LEMMA InitIInv == Init => IInv
  <1> SUFFICES ASSUME Init PROVE IInv
    OBVIOUS
  <1> USE TaskConstants
  <1>1. \A r \in Requests : request[r] \in [pc : {"idle"}, token : Token, user : {None}]
    BY DEF Init
  <1>2. TypeOK
    BY <1>1 DEF Init, TypeOK, Request, Secrets, Pair, Deploy
  <1>3. ASSUME NEW r \in Requests PROVE RequestOK(r)
    BY <1>1 DEF Init, RequestOK, TaskOK, CacheOK, PostOK
  <1> QED BY <1>2, <1>3 DEF IInv

\* A step of one request, or of its POST, leaves the others alone.
LEMMA RequestIInv ==
    ASSUME IInv, NEW r \in Requests, TypeOK', RequestOK(r)',
           \A q \in Requests \ {r} :
              /\ request'[q] = request[q] /\ tasks'[q] = tasks[q] /\ cache'[q] = cache[q]
              /\ post'[q] = post[q] /\ events'[q] = events[q]
              /\ q \in stream' => q \in stream
    PROVE  IInv'
  <1>1. ASSUME NEW q \in Requests \ {r} PROVE RequestOK(q)'
    <2>1. RequestOK(q)
      BY DEF IInv
    <2> QED BY <2>1 DEF RequestOK, TaskOK, CacheOK, PostOK, Sub
  <1> QED BY <1>1 DEF IInv

\* What a step of the task service does to its request.
LEMMA GoFacts ==
    ASSUME IInv, NEW r \in Requests, NEW from, NEW to,
           to \in {"local", "remote", "set", "expire", "post", "wait", "200", "401", "500",
                   "502", "crashed"},
           Go(r, from, to)
    PROVE  /\ request' \in [Requests -> Request]
           /\ request[r].pc = from /\ request'[r].pc = to
           /\ request'[r].token = request[r].token /\ request'[r].user = request[r].user
           /\ \A q \in Requests \ {r} : request'[q] = request[q]
  BY DEF Go, IInv, TypeOK, Request

LEMMA VerifiedFacts ==
    ASSUME IInv, NEW r \in Requests, NEW from, VerifiedAs(r, from, Sub(r))
    PROVE  /\ request' \in [Requests -> Request]
           /\ request[r].pc = from /\ request'[r].pc = "insert"
           /\ request'[r].token = request[r].token /\ request'[r].user = Sub(r)
           /\ \A q \in Requests \ {r} : request'[q] = request[q]
  <1>1. request \in [Requests -> Request] /\ Sub(r) \in Users
    BY DEF IInv, TypeOK, Request, Token, Sub
  <1> QED BY <1>1 DEF VerifiedAs, Request

\* Receiving and verifying: the stores are as they were, and empty for this request.
LEMMA VerifyIInv ==
    ASSUME IInv, NEW r \in Requests,
           Receive(r) \/ VerifyLocal(r) \/ VerifyRemote(r) \/ AuthUnreachable(r)
    PROVE  IInv'
  <1>1. TypeOK /\ RequestOK(r)
    BY DEF IInv
  <1>2. UNCHANGED <<secrets, tasks, cache, post, events, stream>>
    BY DEF Receive, VerifyLocal, VerifyRemote, AuthUnreachable, Stores
  <1>3. \/ \E from \in {"idle", "local", "remote"}, to \in {"local", "remote", "401", "502"} :
              Go(r, from, to)
        \/ \E from \in {"local", "remote"} : VerifiedAs(r, from, Sub(r))
    BY DEF Receive, VerifyLocal, VerifyRemote, AuthUnreachable, RemoteUser
  <1>4. CASE \E from \in {"idle", "local", "remote"}, to \in {"local", "remote", "401", "502"} :
                Go(r, from, to)
    <2>1. PICK from \in {"idle", "local", "remote"}, to \in {"local", "remote", "401", "502"} :
             Go(r, from, to)
      BY <1>4
    <2>2. /\ request' \in [Requests -> Request]
          /\ request[r].pc = from /\ request'[r].pc = to
          /\ request'[r].token = request[r].token
          /\ \A q \in Requests \ {r} : request'[q] = request[q]
      BY <2>1, GoFacts
    <2>3. TypeOK' /\ RequestOK(r)'
      BY <1>1, <1>2, <2>2 DEF TypeOK, RequestOK, TaskOK, CacheOK, PostOK, Sub
    <2> QED BY <1>2, <2>2, <2>3, RequestIInv
  <1>5. CASE \E from \in {"local", "remote"} : VerifiedAs(r, from, Sub(r))
    <2>1. PICK from \in {"local", "remote"} : VerifiedAs(r, from, Sub(r))
      BY <1>5
    <2>2. /\ request' \in [Requests -> Request]
          /\ request[r].pc = from /\ request'[r].pc = "insert"
          /\ request'[r].token = request[r].token /\ request'[r].user = Sub(r)
          /\ \A q \in Requests \ {r} : request'[q] = request[q]
      BY <2>1, VerifiedFacts
    <2>3. TypeOK' /\ RequestOK(r)'
      BY <1>1, <1>2, <2>2 DEF TypeOK, RequestOK, TaskOK, CacheOK, PostOK, Sub
    <2> QED BY <1>2, <2>2, <2>3, RequestIInv
  <1> QED BY <1>3, <1>4, <1>5

LEMMA InsertIInv ==
    ASSUME IInv, NEW r \in Requests, InsertTask(r) \/ InsertFails(r)
    PROVE  IInv'
  <1>1. TypeOK /\ RequestOK(r) /\ request[r].pc = "insert"
    BY DEF IInv, InsertTask, InsertFails, Go
  <1>2. request[r].user = Sub(r) /\ Sub(r) \in Users /\ Sub(r) # None
    BY <1>1, TaskConstants DEF RequestOK, TaskOK, TypeOK, Request, Token, Sub
  <1>3. UNCHANGED <<secrets, cache, post, events, stream>>
    BY DEF InsertTask, InsertFails
  <1>4. \E to \in {"set", "500"} :
           /\ Go(r, "insert", to)
           /\ to = "set" => tasks' = Inserted(r)
    BY DEF InsertTask, InsertFails
  <1>5. PICK to \in {"set", "500"} :
           /\ Go(r, "insert", to)
           /\ to = "set" => tasks' = Inserted(r)
    BY <1>4
  <1>6. tasks' \in {tasks, Inserted(r)}
    BY DEF InsertTask, InsertFails
  <1>7. Inserted(r) = [tasks EXCEPT ![r] = Sub(r)]
    BY <1>2 DEF Inserted
  <1>8. /\ tasks' \in [Requests -> Users \cup {None, "unknown"}]
        /\ tasks'[r] \in {None, Sub(r)} /\ (to = "set" => tasks'[r] = Sub(r))
        /\ \A q \in Requests \ {r} : tasks'[q] = tasks[q]
    BY <1>1, <1>2, <1>5, <1>6, <1>7 DEF TypeOK, RequestOK, TaskOK
  <1>9. /\ request' \in [Requests -> Request]
        /\ request'[r].pc = to /\ request'[r].token = request[r].token
        /\ \A q \in Requests \ {r} : request'[q] = request[q]
    BY <1>5, GoFacts
  <1>10. TypeOK' /\ RequestOK(r)'
    BY <1>1, <1>3, <1>8, <1>9 DEF TypeOK, RequestOK, TaskOK, CacheOK, PostOK, Sub
  <1> QED BY <1>3, <1>8, <1>9, <1>10, RequestIInv

LEMMA CacheIInv ==
    ASSUME IInv, NEW r \in Requests, CacheSet(r) \/ CacheExpire(r) \/ CacheFails(r)
    PROVE  IInv'
  <1>1. TypeOK /\ RequestOK(r)
    BY DEF IInv
  <1>2. UNCHANGED <<secrets, tasks, post, events, stream>>
    BY DEF CacheSet, CacheExpire, CacheFails
  <1>3. \E from \in {"set", "expire"}, to \in {"expire", "post"} : Go(r, from, to)
    BY DEF CacheSet, CacheExpire, CacheFails
  <1>4. PICK from \in {"set", "expire"}, to \in {"expire", "post"} : Go(r, from, to)
    BY <1>3
  <1>5. /\ cache' \in [Requests -> {"none", "forever", "ttl"}]
        /\ \A q \in Requests \ {r} : cache'[q] = cache[q]
    BY <1>1 DEF CacheSet, CacheExpire, CacheFails, TypeOK
  <1>6. /\ request' \in [Requests -> Request]
        /\ request[r].pc = from /\ request'[r].pc = to
        /\ request'[r].token = request[r].token
        /\ \A q \in Requests \ {r} : request'[q] = request[q]
    BY <1>4, GoFacts
  <1>7. request'[r].pc = "expire" => cache'[r] = "forever"
    <2>1. CASE CacheSet(r)
      BY <1>1, <2>1 DEF CacheSet, TypeOK
    <2>2. CASE CacheExpire(r) \/ CacheFails(r)
      <3>1. Go(r, "set", "post") \/ Go(r, "expire", "post")
        BY <2>2 DEF CacheExpire, CacheFails
      <3> QED BY <3>1, GoFacts
    <2> QED BY <2>1, <2>2
  <1>8. TypeOK' /\ RequestOK(r)'
    BY <1>1, <1>2, <1>5, <1>6, <1>7 DEF TypeOK, RequestOK, TaskOK, CacheOK, PostOK, Sub
  <1> QED BY <1>2, <1>5, <1>6, <1>8, RequestIInv

LEMMA PostIInv ==
    ASSUME IInv, NEW r \in Requests, PostActivity(r) \/ PostEnds(r) \/ Crash(r)
    PROVE  IInv'
  <1>1. TypeOK /\ RequestOK(r)
    BY DEF IInv
  <1>2. UNCHANGED <<secrets, tasks, cache, events, stream>>
    BY DEF PostActivity, PostEnds, Crash, Stores
  <1>3. /\ post' \in [Requests -> {"none", "sent", "insert", "push", "done", "lost"}]
        /\ \A q \in Requests \ {r} : post'[q] = post[q]
        /\ post'[r] = IF request[r].pc = "post" /\ request'[r].pc = "wait" THEN "sent" ELSE post[r]
    <2>1. CASE PostActivity(r)
      <3>1. request[r].pc = "post" /\ request'[r].pc = "wait"
        BY <2>1, GoFacts DEF PostActivity
      <3> QED BY <1>1, <2>1, <3>1 DEF PostActivity, TypeOK
    <2>2. CASE PostEnds(r)
      <3>1. request[r].pc = "wait"
        BY <2>2 DEF PostEnds, Go
      <3> QED BY <1>1, <2>2, <3>1 DEF PostEnds, TypeOK
    <2>3. CASE Crash(r)
      <3>1. request'[r].pc = "crashed"
        BY <2>3, GoFacts DEF Crash
      <3> QED BY <1>1, <2>3, <3>1 DEF Crash, TypeOK
    <2> QED BY <2>1, <2>2, <2>3
  <1>4. \/ Go(r, "post", "wait")
        \/ Go(r, "wait", "200")
        \/ Go(r, request[r].pc, "crashed") /\ request[r].pc \notin {"idle", "200", "401", "500", "502"}
    BY DEF PostActivity, PostEnds, Crash, Answered
  <1>5. /\ request' \in [Requests -> Request]
        /\ \/ request[r].pc = "post" /\ request'[r].pc = "wait"
           \/ request[r].pc = "wait" /\ request'[r].pc = "200"
           \/ request'[r].pc = "crashed"
        /\ request'[r].token = request[r].token
        /\ \A q \in Requests \ {r} : request'[q] = request[q]
    BY <1>4, GoFacts
  <1>6. TypeOK' /\ RequestOK(r)'
    BY <1>1, <1>2, <1>3, <1>5 DEF TypeOK, RequestOK, TaskOK, CacheOK, PostOK, Sub
  <1> QED BY <1>2, <1>3, <1>5, <1>6, RequestIInv

LEMMA EmitIInv ==
    ASSUME IInv, NEW r \in Requests, EmitActivity(r)
    PROVE  IInv'
  <1>1. TypeOK /\ RequestOK(r)
    BY DEF IInv
  <1>2. UNCHANGED <<secrets, request, tasks, cache>>
    BY DEF EmitActivity, ReceiveActivity, LoseActivity, InsertActivity, InsertActivityFails,
           LPush, PostGo
  <1>3. /\ post' \in [Requests -> {"none", "sent", "insert", "push", "done", "lost"}]
        /\ \A q \in Requests \ {r} : post'[q] = post[q]
        /\ post[r] # "none"
    BY <1>1 DEF EmitActivity, ReceiveActivity, LoseActivity, InsertActivity,
                InsertActivityFails, LPush, PostGo, TypeOK
  <1>4. /\ events' \in [Requests -> Nat] /\ stream' \in SUBSET Requests
        /\ \A q \in Requests \ {r} : events'[q] = events[q] /\ (q \in stream' => q \in stream)
    BY <1>1 DEF EmitActivity, ReceiveActivity, LoseActivity, InsertActivity,
                InsertActivityFails, LPush, TypeOK
  <1>5. PostOK(r)'
    <2>1. PostOK(r) /\ events \in [Requests -> Nat]
      BY <1>1 DEF RequestOK, TypeOK
    <2>2. CASE ReceiveActivity(r) \/ LoseActivity(r)
      BY <1>1, <1>2, <2>1, <2>2 DEF ReceiveActivity, LoseActivity, PostGo, PostOK, TypeOK, Sub
    <2>3. CASE InsertActivity(r) \/ InsertActivityFails(r)
      <3>1. events[r] = 0 /\ post[r] = "insert" /\ events'[r] \in {0, 1} /\ r \notin stream'
        BY <2>1, <2>3 DEF InsertActivity, InsertActivityFails, PostGo, PostOK
      <3>2. \/ post'[r] = "push" /\ events'[r] = 1
            \/ post'[r] = "done"
        BY <1>1, <2>1, <2>3, <3>1 DEF InsertActivity, InsertActivityFails, PostGo, TypeOK
      <3> QED BY <1>2, <2>1, <3>1, <3>2 DEF PostOK, Sub
    <2>4. CASE LPush(r)
      BY <1>1, <1>2, <2>1, <2>4 DEF LPush, PostGo, PostOK, TypeOK, Sub
    <2> QED BY <2>2, <2>3, <2>4 DEF EmitActivity
  <1>6. TypeOK' /\ TaskOK(r)' /\ CacheOK(r)'
    BY <1>1, <1>2, <1>3, <1>4 DEF TypeOK, RequestOK, TaskOK, CacheOK, Sub
  <1> QED BY <1>2, <1>3, <1>4, <1>5, <1>6, RequestIInv DEF RequestOK

LEMMA RotateIInv ==
    ASSUME IInv, DeploySecret \/ StartTask \/ \E i \in Replicas : StartAuth(i)
    PROVE  IInv'
  <1>1. UNCHANGED <<request, tasks, cache, post, events, stream>>
    BY DEF DeploySecret, StartTask, StartAuth, Stores
  <1>2. secrets' \in Secrets
    <2>1. MaxSecret \in Nat /\ secrets \in Secrets
      BY TaskConstants DEF IInv, TypeOK
    <2>2. secrets.deployed \in Pair /\ secrets.deployed.current \in 1 .. MaxSecret
      BY <2>1 DEF Secrets, Pair
    <2>3. CASE DeploySecret
      <3>1. Deploy(secrets.deployed.current + 1) \in Pair
        BY <2>1, <2>2, <2>3 DEF DeploySecret, Deploy, Pair
      <3> QED BY <2>1, <2>3, <3>1 DEF DeploySecret, Secrets
    <2>4. CASE StartTask
      BY <2>1, <2>2, <2>4 DEF StartTask, Secrets
    <2>5. CASE \E i \in Replicas : StartAuth(i)
      <3>1. PICK i \in Replicas : StartAuth(i)
        BY <2>5
      <3>2. [secrets.auth EXCEPT ![i] = secrets.deployed] \in [Replicas -> Pair]
        BY <2>1, <2>2 DEF Secrets
      <3>3. secrets.signed \cup {secrets.deployed.current} \in SUBSET (1 .. MaxSecret)
        BY <2>1, <2>2 DEF Secrets
      <3>4. secrets' = [secrets EXCEPT !.auth = [secrets.auth EXCEPT ![i] = secrets.deployed],
                                       !.signed = secrets.signed \cup {secrets.deployed.current}]
        BY <3>1 DEF StartAuth
      <3> QED BY <2>1, <3>2, <3>3, <3>4 DEF Secrets
    <2> QED BY <2>3, <2>4, <2>5
  <1> QED BY <1>1, <1>2 DEF IInv, TypeOK, RequestOK, TaskOK, CacheOK, PostOK, Sub

LEMMA NextIInv == IInv /\ [Next]_vars => IInv'
  <1> SUFFICES ASSUME IInv, [Next]_vars PROVE IInv'
    OBVIOUS
  <1>1. CASE DeploySecret \/ StartTask \/ \E i \in Replicas : StartAuth(i)
    BY <1>1, RotateIInv
  <1>2. ASSUME NEW r \in Requests,
               Receive(r) \/ CreateTask(r) \/ CallFails(r) \/ EmitActivity(r) \/ Crash(r)
        PROVE  IInv'
    BY <1>2, VerifyIInv, InsertIInv, CacheIInv, PostIInv, EmitIInv DEF CreateTask, CallFails
  <1>3. CASE UNCHANGED vars
    BY <1>3 DEF vars, IInv, TypeOK, RequestOK, TaskOK, CacheOK, PostOK, Sub
  <1> QED BY <1>1, <1>2, <1>3 DEF Next

\* The inductive invariant holds in every reachable state.
THEOREM Invariance == Spec => []IInv
  <1> QED BY InitIInv, NextIInv, PTL DEF Spec

----------------------------------------------------------------------------

\* Every variable keeps its type, for any number of requests and rotations.
THEOREM TypeCorrect == Spec => []TypeOK
  <1>1. IInv => TypeOK
    BY DEF IInv
  <1> QED BY <1>1, Invariance, PTL

\* A task belongs to the subject of its token (create_task), whoever verified it.
THEOREM CreatorCorrect == Spec => []CreatorIsSubject
  <1>1. IInv => CreatorIsSubject
    BY DEF IInv, RequestOK, TaskOK, CreatorIsSubject
  <1> QED BY <1>1, Invariance, PTL

\* Cache entry, event and stream entry follow a committed task (create_task,
\* emit_activity), whatever fails and however late the POST is handled.
THEOREM EffectsFollow == Spec => []EffectsFollowTask
  <1>1. IInv => EffectsFollowTask
    <2> SUFFICES ASSUME IInv, NEW r \in Requests
                 PROVE  /\ (cache[r] # "none" \/ events[r] > 0) =>
                              tasks[r] # None /\ request[r].pc \notin {"401", "500", "502"}
                        /\ events[r] <= 1
                        /\ r \in stream => events[r] = 1
      BY DEF EffectsFollowTask
    <2>1. RequestOK(r) /\ Sub(r) # None
      BY TaskConstants DEF IInv, TypeOK, Request, Token, Sub
    <2> QED BY <2>1 DEF RequestOK, CacheOK, PostOK
  <1> QED BY <1>1, Invariance, PTL

----------------------------------------------------------------------------
(* The services implement TaskTrail.                                       *)

shown == <<Owners, Answers, tasks, cache, events, stream>>

\* A step of one request changes no owner, and the answer of that request alone.
LEMMA RequestShown ==
    ASSUME NEW r \in Requests,
           request'[r].token = request[r].token,
           \A q \in Requests \ {r} : request'[q] = request[q]
    PROVE  /\ Owners' = Owners
           /\ Answers' = Trail!ToldOf(r, Told(request'[r].pc))
  <1>1. Owners' = Owners
    BY DEF Owners, Sub
  <1>2. Answers' = [Answers EXCEPT ![r] = Told(request'[r].pc)]
    BY DEF Answers
  <1> QED BY <1>1, <1>2 DEF Trail!ToldOf

\* ... and no answer at all when the request is not answered by it.
LEMMA SilentShown ==
    ASSUME NEW r \in Requests,
           request'[r].token = request[r].token,
           \A q \in Requests \ {r} : request'[q] = request[q],
           Told(request'[r].pc) = Told(request[r].pc)
    PROVE  UNCHANGED <<Owners, Answers>>
  <1>1. Owners' = Owners /\ Answers' = [Answers EXCEPT ![r] = Told(request'[r].pc)]
    BY RequestShown DEF Trail!ToldOf
  <1>2. Answers[r] = Told(request[r].pc) /\ Answers = [q \in Requests |-> Answers[q]]
    BY DEF Answers
  <1> QED BY <1>1, <1>2

\* What the invariant says of a request, in the words of the trail.
LEMMA TrailState ==
    ASSUME IInv, NEW r \in Requests
    PROVE  /\ Owners[r] = Sub(r) /\ Sub(r) # None
           /\ Answers[r] = Told(request[r].pc)
           /\ TypeOK /\ RequestOK(r)
  <1>1. Sub(r) # None
    BY TaskConstants DEF IInv, TypeOK, Request, Token, Sub
  <1> QED BY <1>1 DEF IInv, Owners, Answers

LEMMA VerifyTrail ==
    ASSUME IInv, NEW r \in Requests,
           Receive(r) \/ VerifyLocal(r) \/ VerifyRemote(r) \/ AuthUnreachable(r)
    PROVE  Trail!Next \/ UNCHANGED shown
  <1>1. UNCHANGED <<tasks, cache, post, events, stream>>
    BY DEF Receive, VerifyLocal, VerifyRemote, AuthUnreachable, Stores
  <1>2. \/ \E from \in {"idle", "local", "remote"}, to \in {"local", "remote", "401", "502"} :
              Go(r, from, to)
        \/ \E from \in {"local", "remote"} : VerifiedAs(r, from, Sub(r))
    BY DEF Receive, VerifyLocal, VerifyRemote, AuthUnreachable, RemoteUser
  <1>3. /\ request[r].pc \in {"idle", "local", "remote"}
        /\ request'[r].pc \in {"local", "remote", "insert", "401", "502"}
        /\ request'[r].token = request[r].token
        /\ \A q \in Requests \ {r} : request'[q] = request[q]
    BY <1>2, GoFacts, VerifiedFacts
  <1>4. CASE request'[r].pc \in {"401", "502"}
    <2>1. /\ Answers' = Trail!ToldOf(r, "error") /\ Owners' = Owners
      BY <1>3, <1>4, RequestShown DEF Told
    <2>2. Trail!Missing(r)
      BY <1>3, TrailState DEF Trail!Missing, RequestOK, TaskOK, Told
    <2> QED BY <1>1, <2>1, <2>2 DEF Trail!Refuse, Trail!Next
  <1>5. CASE request'[r].pc \notin {"401", "502"}
    <2>1. UNCHANGED <<Owners, Answers>>
      BY <1>3, <1>5, SilentShown DEF Told
    <2> QED BY <1>1, <2>1 DEF shown
  <1> QED BY <1>4, <1>5

LEMMA InsertTrail ==
    ASSUME IInv, NEW r \in Requests, InsertTask(r) \/ InsertFails(r)
    PROVE  Trail!Next
  <1>1. UNCHANGED <<cache, events, stream>> /\ tasks' \in {tasks, Inserted(r)}
    BY DEF InsertTask, InsertFails
  <1>2. \/ Go(r, "insert", "set") /\ tasks' = Inserted(r)
        \/ Go(r, "insert", "500")
    BY DEF InsertTask, InsertFails
  <1>3. /\ request[r].pc = "insert"
        /\ \/ request'[r].pc = "set" /\ tasks' = Inserted(r)
           \/ request'[r].pc = "500"
        /\ request'[r].token = request[r].token
        /\ \A q \in Requests \ {r} : request'[q] = request[q]
    BY <1>2, GoFacts
  <1>4. Trail!Missing(r)
    BY <1>3, TrailState DEF Trail!Missing, RequestOK, TaskOK, Told
  <1>5. Inserted(r) = [tasks EXCEPT ![r] = Owners[r]]
    BY <1>3, TrailState DEF Inserted, RequestOK, TaskOK
  <1>6. Owners' = Owners /\ Answers' = Trail!ToldOf(r, Told(request'[r].pc))
    BY <1>3, RequestShown
  <1>7. CASE request'[r].pc = "set"
    <2>1. UNCHANGED Answers
      BY <1>3, <1>7, SilentShown DEF Told
    <2> QED BY <1>1, <1>3, <1>4, <1>5, <1>6, <1>7, <2>1 DEF Trail!Create, Trail!Next
  <1>8. CASE request'[r].pc = "500"
    <2>1. Answers' = Trail!ToldOf(r, "error")
      BY <1>6, <1>8 DEF Told
    <2> QED BY <1>1, <1>4, <1>5, <1>6, <2>1 DEF Trail!Create, Trail!Refuse, Trail!Next
  <1> QED BY <1>3, <1>7, <1>8

LEMMA CacheTrail ==
    ASSUME IInv, NEW r \in Requests, CacheSet(r) \/ CacheExpire(r) \/ CacheFails(r)
    PROVE  Trail!Next \/ UNCHANGED shown
  <1>1. UNCHANGED <<tasks, events, stream>>
    BY DEF CacheSet, CacheExpire, CacheFails
  <1>2. \E from \in {"set", "expire"}, to \in {"expire", "post"} :
           /\ Go(r, from, to)
           /\ cache' \in {cache, [cache EXCEPT ![r] = IF from = "set" THEN "forever" ELSE "ttl"]}
    BY DEF CacheSet, CacheExpire, CacheFails, Go
  <1>3. PICK from \in {"set", "expire"}, to \in {"expire", "post"} :
           /\ Go(r, from, to)
           /\ cache' \in {cache, [cache EXCEPT ![r] = IF from = "set" THEN "forever" ELSE "ttl"]}
    BY <1>2
  <1>4. /\ request[r].pc = from /\ request'[r].pc = to
        /\ request'[r].token = request[r].token
        /\ \A q \in Requests \ {r} : request'[q] = request[q]
    BY <1>3, GoFacts
  <1>5. UNCHANGED <<Owners, Answers>>
    BY <1>4, SilentShown DEF Told
  <1>6. CASE cache' = cache
    BY <1>1, <1>5, <1>6 DEF shown
  <1>7. CASE cache' = [cache EXCEPT ![r] = IF from = "set" THEN "forever" ELSE "ttl"]
    <2>1. /\ Trail!There(r) /\ Answers[r] = "none"
      BY <1>4, TrailState DEF Trail!There, RequestOK, TaskOK, Told
    <2>2. /\ cache \in [Requests -> {"none", "forever", "ttl"}]
          /\ CacheOK(r)
      BY TrailState DEF TypeOK, RequestOK
    <2>3. \E step \in {<<"none", "forever">>, <<"forever", "ttl">>} :
             cache[r] = step[1] /\ cache' = [cache EXCEPT ![r] = step[2]]
      BY <1>4, <1>7, <2>2 DEF CacheOK
    <2> QED BY <1>1, <1>5, <2>1, <2>3 DEF Trail!CacheTask, Trail!Next
  <1> QED BY <1>3, <1>6, <1>7

LEMMA PostTrail ==
    ASSUME IInv, NEW r \in Requests, PostActivity(r) \/ PostEnds(r) \/ Crash(r)
    PROVE  Trail!Next \/ UNCHANGED shown
  <1>1. UNCHANGED <<tasks, cache, events, stream>>
    BY DEF PostActivity, PostEnds, Crash, Stores
  <1>2. \/ Go(r, "post", "wait")
        \/ Go(r, "wait", "200")
        \/ Go(r, request[r].pc, "crashed") /\ request[r].pc \notin {"idle", "200", "401", "500", "502"}
    BY DEF PostActivity, PostEnds, Crash, Answered
  <1>3. /\ \/ request[r].pc = "post" /\ request'[r].pc = "wait"
           \/ request[r].pc = "wait" /\ request'[r].pc = "200"
           \/ /\ request[r].pc \notin {"idle", "200", "401", "500", "502"}
              /\ request'[r].pc = "crashed"
        /\ request'[r].token = request[r].token
        /\ \A q \in Requests \ {r} : request'[q] = request[q]
    BY <1>2, GoFacts
  <1>4. CASE request'[r].pc = "200"
    <2>1. Trail!There(r) /\ Answers[r] = "none"
      BY <1>3, <1>4, TrailState DEF Trail!There, RequestOK, TaskOK, Told
    <2>2. Owners' = Owners /\ Answers' = Trail!ToldOf(r, "created")
      BY <1>3, <1>4, RequestShown DEF Told
    <2> QED BY <1>1, <2>1, <2>2 DEF Trail!Confirm, Trail!Next
  <1>5. CASE request'[r].pc # "200"
    <2>1. UNCHANGED <<Owners, Answers>>
      BY <1>3, <1>5, SilentShown DEF Told
    <2> QED BY <1>1, <2>1 DEF shown
  <1> QED BY <1>4, <1>5

LEMMA EmitTrail ==
    ASSUME IInv, NEW r \in Requests, EmitActivity(r)
    PROVE  Trail!Next \/ UNCHANGED shown
  <1>1. UNCHANGED <<Owners, Answers, tasks, cache>>
    BY DEF EmitActivity, ReceiveActivity, LoseActivity, InsertActivity, InsertActivityFails,
           LPush, PostGo, Owners, Answers, Sub
  <1>2. PostOK(r) /\ events \in [Requests -> Nat] /\ Sub(r) # None
    BY TrailState DEF RequestOK, TypeOK
  <1>3. CASE InsertActivity(r) \/ InsertActivityFails(r)
    <2>1. post[r] = "insert" /\ UNCHANGED stream
      BY <1>3 DEF InsertActivity, InsertActivityFails, PostGo
    <2>2. Trail!There(r) /\ events[r] = 0
      BY <1>2, <2>1, TrailState DEF PostOK, Trail!There, Told
    <2>3. [events EXCEPT ![r] = events[r] + 1] = [events EXCEPT ![r] = 1]
      BY <2>2
    <2>4. events' = events \/ events' = [events EXCEPT ![r] = 1]
      BY <1>3, <2>3 DEF InsertActivity, InsertActivityFails
    <2> QED BY <1>1, <2>1, <2>2, <2>4 DEF Trail!LogEvent, Trail!Next, shown
  <1>4. CASE LPush(r)
    <2>1. events[r] = 1 /\ UNCHANGED events
      BY <1>2, <1>4 DEF LPush, PostGo, PostOK
    <2> QED BY <1>1, <1>4, <2>1 DEF LPush, Trail!PushEvent, Trail!Next, shown
  <1>5. CASE ReceiveActivity(r) \/ LoseActivity(r)
    BY <1>1, <1>5 DEF ReceiveActivity, LoseActivity, shown
  <1> QED BY <1>3, <1>4, <1>5 DEF EmitActivity

LEMMA NextTrail ==
    ASSUME IInv, [Next]_vars
    PROVE  Trail!Next \/ UNCHANGED shown
  <1>1. CASE \/ DeploySecret \/ StartTask \/ UNCHANGED vars
             \/ \E i \in Replicas : StartAuth(i)
    BY <1>1 DEF DeploySecret, StartTask, StartAuth, Stores, vars, shown, Owners, Answers, Sub
  <1>2. ASSUME NEW r \in Requests,
               Receive(r) \/ CreateTask(r) \/ CallFails(r) \/ EmitActivity(r) \/ Crash(r)
        PROVE  Trail!Next \/ UNCHANGED shown
    BY <1>2, VerifyTrail, InsertTrail, CacheTrail, PostTrail, EmitTrail DEF CreateTask, CallFails
  <1> QED BY <1>1, <1>2 DEF Next

\* The two services implement TaskTrail: a step of create_task, of emit_activity, of a
\* rotation or a failure is a step of the trail or changes nothing that it shows.
THEOREM TrailImplemented == Spec => ImplementsTrail
  <1>1. Init => Trail!Init
    <2> SUFFICES ASSUME Init PROVE Trail!Init
      OBVIOUS
    <2>1. \A r \in Requests : request[r].pc = "idle" /\ Sub(r) \in Users
      BY DEF Init, Token, Sub
    <2>2. Owners \in [Requests -> Users] /\ Answers = [r \in Requests |-> "none"]
      BY <2>1 DEF Owners, Answers, Told
    <2> QED BY <2>2 DEF Init, Trail!Init
  <1>2. IInv /\ [Next]_vars => [Trail!Next]_(Trail!vars)
    BY NextTrail DEF shown, Trail!vars
  <1> QED BY <1>1, <1>2, Invariance, PTL DEF Spec, ImplementsTrail, Trail!Spec

===============================================================================
