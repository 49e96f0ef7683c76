---------------------------- MODULE TaskActivity ----------------------------
(***************************************************************************)
(* POST /tasks: the task service verifies the token, alone or by asking    *)
(* the auth service, inserts the task, caches it, and posts an activity;   *)
(* the activity service records the event and pushes it to a stream.       *)
(*                                                                         *)
(* A request names the task row it may insert and the activity it may      *)
(* post. The POST and its handler run on when the task service has stopped *)
(* waiting. Secrets are numbered in the order of their deployment; each    *)
(* process has those it read when it started, so the replicas of the auth  *)
(* service and the task service differ while a rotation is under way.      *)
(***************************************************************************)
EXTENDS Naturals

CONSTANTS
    Requests,   \* the calls of create_task
    Users,      \* the subjects of tokens
    Replicas,   \* the replicas of the auth service
    MaxSecret,  \* how many secrets an instance deploys
    Fallback,   \* whether AUTH_SERVICE_URL is set
    None,       \* nobody
    Faults      \* which parts of the environment may fail in this instance

ASSUME TaskConstants ==
    /\ None \notin Users
    /\ Replicas # {}
    /\ MaxSecret \in Nat \ {0}
    /\ Fallback \in BOOLEAN
    /\ Faults \subseteq {"database", "cache", "network", "crash"}

VARIABLES
    secrets,    \* the JWT secrets: deployed, of each auth replica, of the task service
    request,    \* each request: where it is, its token, the user it was verified as
    tasks,      \* created_by of each committed task, None without one
    cache,      \* each task's cache entry
    post,       \* each POST /activity: where it and its handler are
    events,     \* activity_logs: how many rows a task has
    stream      \* the tasks whose event is in activity_stream

vars == <<secrets, request, tasks, cache, post, events, stream>>

\* JWT_SECRET and JWT_SECRET_PREVIOUS
Pair == [current : 1 .. MaxSecret, previous : 1 .. MaxSecret]

\* signed holds the secrets that an auth replica has signed tokens with.
Secrets == [deployed : Pair, auth : [Replicas -> Pair], task : 1 .. MaxSecret,
            signed : SUBSET (1 .. MaxSecret)]

Token == [sub : Users, secret : 1 .. MaxSecret, expired : BOOLEAN]

Request == [pc : {"idle", "local", "remote", "insert", "set", "expire", "post", "wait",
                  "200", "401", "500", "502", "crashed"},
            token : Token, user : Users \cup {None}]

\* infra.sh gives the Secret one value twice: JWT_SECRET_PREVIOUS="${JWT_SECRET}".
Deploy(n) == [current |-> n, previous |-> n]

Init ==
    /\ secrets = [deployed |-> Deploy(1), auth |-> [i \in Replicas |-> Deploy(1)],
                   task |-> 1, signed |-> {1}]
    /\ request \in [Requests -> [pc : {"idle"}, token : Token, user : {None}]]
    /\ tasks = [r \in Requests |-> None]
    /\ cache = [r \in Requests |-> "none"]
    /\ post = [r \in Requests |-> "none"]
    /\ events = [r \in Requests |-> 0]
    /\ stream = {}

Go(r, from, to) ==
    /\ request[r].pc = from
    /\ request' = [request EXCEPT ![r].pc = to]

VerifiedAs(r, from, user) ==
    /\ request[r].pc = from
    /\ request' = [request EXCEPT ![r].pc = "insert", ![r].user = user]

Stores == <<tasks, cache, events, stream>>

\* ensure_auth_secret: a new secret is deployed; no process has it yet.
DeploySecret ==
    /\ secrets.deployed.current < MaxSecret
    /\ secrets' = [secrets EXCEPT !.deployed = Deploy(secrets.deployed.current + 1)]
    /\ UNCHANGED <<request, post, Stores>>

\* A replica of the auth service is rolled, or starts again, and reads the Secret.
StartAuth(i) ==
    /\ secrets.auth[i] # secrets.deployed
    /\ secrets' = [secrets EXCEPT !.auth[i] = secrets.deployed,
                                  !.signed = @ \cup {secrets.deployed.current}]
    /\ UNCHANGED <<request, post, Stores>>

\* The task service starts again, before or after any replica.
StartTask ==
    /\ secrets.task # secrets.deployed.current
    /\ secrets' = [secrets EXCEPT !.task = secrets.deployed.current]
    /\ UNCHANGED <<request, post, Stores>>

----------------------------------------------------------------------------
(* The task service.                                                       *)

\* The token is one that the auth service has signed by now.
Receive(r) ==
    /\ request[r].token.secret \in secrets.signed
    /\ Go(r, "idle", "local")
    /\ UNCHANGED <<secrets, post, Stores>>

Sub(r) == request[r].token.sub

\* _verify_jwt_local
Decodes(r) == request[r].token.secret = secrets.task /\ ~request[r].token.expired

VerifyLocal(r) ==
    /\ \/ Decodes(r) /\ VerifiedAs(r, "local", Sub(r))
       \/ ~Decodes(r) /\ Go(r, "local", IF Fallback THEN "remote" ELSE "401")
    /\ UNCHANGED <<secrets, post, Stores>>

\* verify_jwt of GET /me: either secret of the replica that is asked; a token of one of them
\* that is expired raises at once, and no other secret would take it.
MeAccepts(r, i) ==
    /\ request[r].token.secret \in {secrets.auth[i].current, secrets.auth[i].previous}
    /\ ~request[r].token.expired

\* Variant: the body of /me is the user, {"authenticated": ..., "user": ...}.
RemoteUserIsBody(r) == None

\* data.get("user")
RemoteUser(r) == Sub(r)

VerifyRemote(r) ==
    /\ \E i \in Replicas :
          \/ MeAccepts(r, i) /\ VerifiedAs(r, "remote", RemoteUser(r))
          \/ ~MeAccepts(r, i) /\ Go(r, "remote", "401")
    /\ UNCHANGED <<secrets, post, Stores>>

\* httpx.HTTPError, a timeout of 3 s among them: auth_unreachable.
AuthUnreachable(r) ==
    /\ "network" \in Faults
    /\ Go(r, "remote", "502")
    /\ UNCHANGED <<secrets, post, Stores>>

\* created_by: the subject, or "unknown".
Inserted(r) ==
    [tasks EXCEPT ![r] = IF request[r].user = None THEN "unknown" ELSE request[r].user]

InsertTask(r) ==
    /\ Go(r, "insert", "set")
    /\ tasks' = Inserted(r)
    /\ UNCHANGED <<secrets, cache, post, events, stream>>

\* Variant: an error of the INSERT is logged.
InsertErrorIsLogged(r) ==
    /\ "database" \in Faults
    /\ Go(r, "insert", "set")
    /\ UNCHANGED <<secrets, tasks, cache, post, events, stream>>

\* The INSERT raises, and may have committed: 500.
InsertFails(r) ==
    /\ "database" \in Faults
    /\ Go(r, "insert", "500")
    /\ tasks' \in {tasks, Inserted(r)}
    /\ UNCHANGED <<secrets, cache, post, events, stream>>

\* valkey_client.set, and EXPIRE in a call of its own.
CacheSet(r) ==
    /\ Go(r, "set", "expire")
    /\ cache' = [cache EXCEPT ![r] = "forever"]
    /\ UNCHANGED <<secrets, tasks, post, events, stream>>

CacheExpire(r) ==
    /\ Go(r, "expire", "post")
    /\ cache' = [cache EXCEPT ![r] = "ttl"]
    /\ UNCHANGED <<secrets, tasks, post, events, stream>>

\* Either raises, before or after it took effect, or there is no client: the request goes
\* on.
CacheFails(r) ==
    /\ "cache" \in Faults
    /\ Go(r, "set", "post") \/ Go(r, "expire", "post")
    /\ cache' \in {cache, [cache EXCEPT ![r] = IF request[r].pc = "set" THEN "forever"
                                                                       ELSE "ttl"]}
    /\ UNCHANGED <<secrets, tasks, post, events, stream>>

PostActivity(r) ==
    /\ Go(r, "post", "wait")
    /\ post' = [post EXCEPT ![r] = "sent"]
    /\ UNCHANGED <<secrets, Stores>>

\* Variant: no timeout.
PostWaits(r) ==
    /\ post[r] = "done"
    /\ Go(r, "wait", "200")
    /\ UNCHANGED <<secrets, post, Stores>>

\* Variant: the error of the POST is raised.
PostRaises(r) ==
    /\ Go(r, "wait", IF post[r] = "done" THEN "200" ELSE "504")
    /\ UNCHANGED <<secrets, post, Stores>>

\* A response of any status (no raise_for_status), the timeout of 3 s, or any other error,
\* which is logged: the task is returned.
PostEnds(r) ==
    /\ Go(r, "wait", "200")
    /\ UNCHANGED <<secrets, post, Stores>>

----------------------------------------------------------------------------
(* The network and the activity service.                                   *)

PostGo(r, from, to) ==
    /\ post[r] = from
    /\ post' = [post EXCEPT ![r] = to]
    /\ UNCHANGED <<secrets, request, tasks, cache>>

ReceiveActivity(r) ==
    /\ PostGo(r, "sent", "insert")
    /\ UNCHANGED <<events, stream>>

\* The POST or its response is lost, or the activity service dies.
LoseActivity(r) ==
    /\ "network" \in Faults
    /\ \E pc \in {"sent", "insert", "push", "done"} : PostGo(r, pc, "lost")
    /\ UNCHANGED <<events, stream>>

\* insert_activity
InsertActivity(r) ==
    /\ PostGo(r, "insert", "push")
    /\ events' = [events EXCEPT ![r] = @ + 1]
    /\ UNCHANGED stream

\* It raises, and may have committed: 500, and no push.
InsertActivityFails(r) ==
    /\ "database" \in Faults
    /\ PostGo(r, "insert", "done")
    /\ events' \in {events, [events EXCEPT ![r] = @ + 1]}
    /\ UNCHANGED stream

\* lpush_activity_stream, which returns as well when it pushes nothing.
LPush(r) ==
    /\ PostGo(r, "push", "done")
    /\ stream' = stream \cup {r} \/ ("cache" \in Faults /\ UNCHANGED stream)
    /\ UNCHANGED events

CreateTask(r) ==
    \/ VerifyLocal(r) \/ VerifyRemote(r) \/ InsertTask(r) \/ CacheSet(r) \/ CacheExpire(r)
    \/ PostActivity(r) \/ PostEnds(r)

CallFails(r) == AuthUnreachable(r) \/ InsertFails(r) \/ CacheFails(r)

EmitActivity(r) ==
    \/ ReceiveActivity(r) \/ LoseActivity(r)
    \/ InsertActivity(r) \/ InsertActivityFails(r) \/ LPush(r)

Answered(r) == request[r].pc \in {"200", "401", "500", "502", "crashed"}

\* The replica of the task service dies.
Crash(r) ==
    /\ "crash" \in Faults
    /\ request[r].pc # "idle" /\ ~Answered(r)
    /\ Go(r, request[r].pc, "crashed")
    /\ UNCHANGED <<secrets, post, Stores>>

Next ==
    \/ DeploySecret \/ StartTask
    \/ \E i \in Replicas : StartAuth(i)
    \/ \E r \in Requests :
          Receive(r) \/ CreateTask(r) \/ CallFails(r) \/ EmitActivity(r) \/ Crash(r)

Spec == Init /\ [][Next]_vars

\* The awaits of a request end: the statements and both HTTP calls have timeouts.
FairSpec == Spec /\ \A r \in Requests : WF_vars(CreateTask(r))

----------------------------------------------------------------------------
(* Properties.                                                             *)

TypeOK ==
    /\ secrets \in Secrets
    /\ request \in [Requests -> Request]
    /\ tasks \in [Requests -> Users \cup {None, "unknown"}]
    /\ cache \in [Requests -> {"none", "forever", "ttl"}]
    /\ post \in [Requests -> {"none", "sent", "insert", "push", "done", "lost"}]
    /\ events \in [Requests -> Nat]
    /\ stream \in SUBSET Requests

\* A task belongs to the subject of the token it was created with, whichever service
\* verified it, and never to the "unknown" that create_task falls back to.
CreatorIsSubject ==
    \A r \in Requests :
        /\ tasks[r] \in {None, Sub(r)}
        /\ request[r].pc = "200" => tasks[r] = Sub(r)

\* What the cache and the activity log say of a task was committed before, once, and its
\* creator was told neither 401 nor an error; "DB insert is the core operation; valkey push
\* is best-effort" (emit_activity): the stream holds no event that the table lacks.  This
\* is what ImplementsTrail says of single states.
EffectsFollowTask ==
    \A r \in Requests :
        /\ (cache[r] # "none" \/ events[r] > 0) =>
              tasks[r] # None /\ request[r].pc \notin {"401", "500", "502"}
        /\ events[r] <= 1
        /\ r \in stream => events[r] = 1

Told(pc) ==
    CASE pc = "200" -> "created"
      [] pc \in {"401", "500", "502"} -> "error"
      [] OTHER -> "none"

Owners == [r \in Requests |-> Sub(r)]
Answers == [r \in Requests |-> Told(request[r].pc)]

\* The services implement the trail: in whatever order they end, fail and die, the four
\* stores and the answers change only as TaskTrail says, an entry of the cache before the
\* answer, an activity once, though it may be after it, and nothing after an error.
Trail == INSTANCE TaskTrail WITH owner <- Owners, told <- Answers

ImplementsTrail == Trail!Spec

\* A request is answered, with the task if it was created, whatever becomes of the cache
\* and of the activity service.
CreateAnswered ==
    \A r \in Requests : request[r].pc = "local" ~> Answered(r)
=============================================================================
