--------------------------- MODULE ServiceStartup ---------------------------
(***************************************************************************)
(* The start of the services that share one database: the lifespan of the  *)
(* auth, activity and task services, and the agent's pg_tables.            *)
(*                                                                         *)
(* A replica runs the steps of its service in order. CREATE ... IF NOT     *)
(* EXISTS looks, then creates: PostgreSQL lets two sessions both look      *)
(* before either creates, and the second then fails with a unique          *)
(* violation. A session-level advisory lock is held until it is released   *)
(* or its session ends.                                                    *)
(***************************************************************************)
EXTENDS Naturals, Sequences, Functions

CONSTANTS
    Replicas,       \* the processes, each of one service
    Service,        \* the service of a replica
    StartupRetries, \* STARTUP_RETRIES
    MaxFaults,      \* how many outages and crashes an instance has
    None            \* no replica, no service

Services == {"auth", "activity", "task", "agent"}

ASSUME StartupConstants ==
    /\ None \notin Replicas \cup Services
    /\ Service \in [Replicas -> Services]
    /\ StartupRetries \in Nat \ {0}
    /\ MaxFaults \in Nat

\* A step: what it does, and to which object of the database or which client.
Step(does, to) == [does |-> does, to |-> to]

AuthSteps ==
    << Step("connect", "pool"), Step("lock", "1234567890"),
       Step("create", "pgcrypto"), Step("create", "users"),
       Step("create", "audit_logs"), Step("create", "oauth_pending"),
       Step("unlock", "1234567890") >>

\* Variant: the lock is taken after the extension.
ActivityStepsLate ==
    << Step("connect", "pool"), Step("create", "pgcrypto"), Step("lock", "987654321"),
       Step("create", "activity_logs"), Step("unlock", "987654321"), Step("connect", "valkey") >>

ActivitySteps ==
    << Step("connect", "pool"), Step("lock", "987654321"),
       Step("create", "pgcrypto"), Step("create", "activity_logs"),
       Step("unlock", "987654321"), Step("connect", "valkey") >>

\* The lifespan of the task service calls connections.init_db_pool, and its connections
\* module has init_pg_pool: AttributeError, before anything else. Nor does it take the
\* lock of ensure_tasks_table, which nothing calls.
TaskSteps ==
    << Step("missing", "init_db_pool"), Step("create", "tasks"), Step("connect", "valkey") >>

\* Variant: no index on audit_logs(session_id).
AgentStepsNoIndex ==
    << Step("create", "extensions"), Step("create", "users"), Step("create", "approvals"),
       Step("create", "audit_logs") >>

\* Each execute of pg_tables is one transaction. That of audit_logs is two steps here, since
\* its index fails on a table without the column: this adds a start-up that dies between
\* them with the table created, and takes nothing away.
AgentSteps ==
    << Step("create", "extensions"), Step("create", "users"), Step("create", "approvals"),
       Step("create", "audit_logs"), Step("index", "audit_logs") >>

Plan == [auth |-> AuthSteps, activity |-> ActivitySteps, task |-> TaskSteps,
         agent |-> AgentSteps]

Steps(r) == Plan[Service[r]]

Objects == {"pgcrypto", "users", "audit_logs", "oauth_pending", "activity_logs", "tasks",
            "extensions", "approvals"}
Locks == {"1234567890", "987654321"}

VARIABLES
    at,         \* the step each replica is at, past the last when it serves
    looked,     \* the replicas whose CREATE has found no object
    tries,      \* the attempts of its retry loop that have failed
    made,       \* the service that created each object of the database
    holder,     \* the replica whose session holds each lock
    faults      \* the faults so far

vars == <<at, looked, tries, made, holder, faults>>

Init ==
    /\ at = [r \in Replicas |-> 1]
    /\ looked = {}
    /\ tries = [r \in Replicas |-> 0]
    /\ made = [o \in Objects |-> None]
    /\ holder = [l \in Locks |-> None]
    /\ faults = 0

Serves(r) == at[r] > Len(Steps(r))
Now(r) == Steps(r)[at[r]]
Doing(r, does) == ~Serves(r) /\ Now(r).does = does
Exists(o) == made[o] # None

Advance(r) ==
    /\ at' = [at EXCEPT ![r] = @ + 1]
    /\ looked' = looked \ {r}
    /\ tries' = [tries EXCEPT ![r] = 0]

\* Variant: the lock survives its session.
DieHolding(r) ==
    /\ at' = [at EXCEPT ![r] = 1]
    /\ looked' = looked \ {r}
    /\ tries' = [tries EXCEPT ![r] = 0]
    /\ UNCHANGED holder

\* The start-up raises and the process exits, through the finally that unlocks, or it is
\* killed: its session ends, and its lock with it. Kubernetes starts it again.
Die(r) ==
    /\ at' = [at EXCEPT ![r] = 1]
    /\ looked' = looked \ {r}
    /\ tries' = [tries EXCEPT ![r] = 0]
    /\ holder' = [l \in Locks |-> IF holder[l] = r THEN None ELSE holder[l]]

Fault == faults < MaxFaults /\ faults' = faults + 1

\* init_db_pool, init_valkey_client: the attempt succeeds.
Connect(r) ==
    /\ Doing(r, "connect")
    /\ Advance(r)
    /\ UNCHANGED <<made, holder, faults>>

\* Variant: one attempt too many.
ConnectFailsOnceMore(r) ==
    /\ Doing(r, "connect")
    /\ IF tries[r] = 0 THEN Fault ELSE UNCHANGED faults
    /\ \/ tries[r] < StartupRetries /\ tries' = [tries EXCEPT ![r] = @ + 1]
          /\ UNCHANGED <<at, looked, holder>>
       \/ tries[r] = StartupRetries /\ Die(r)
    /\ UNCHANGED made

\* It fails: again after a delay, up to StartupRetries times; then the pool's loop raises,
\* and the lifespan goes on without a cache. One outage lasts as long as the loop may.
ConnectFails(r) ==
    /\ Doing(r, "connect")
    /\ IF tries[r] = 0 THEN Fault ELSE UNCHANGED faults
    /\ \/ /\ tries[r] + 1 < StartupRetries
          /\ tries' = [tries EXCEPT ![r] = @ + 1]
          /\ UNCHANGED <<at, looked, holder>>
       \/ /\ tries[r] + 1 = StartupRetries
          /\ \/ Now(r).to = "pool" /\ Die(r)
             \/ Now(r).to = "valkey" /\ Advance(r) /\ UNCHANGED holder
    /\ UNCHANGED made

\* pg_advisory_lock
Lock(r) ==
    /\ Doing(r, "lock")
    /\ holder[Now(r).to] = None
    /\ holder' = [holder EXCEPT ![Now(r).to] = r]
    /\ Advance(r)
    /\ UNCHANGED <<made, faults>>

\* It waits for longer than command_timeout: the lifespan raises.
LockTimesOut(r) ==
    /\ Doing(r, "lock")
    /\ holder[Now(r).to] # None
    /\ Die(r)
    /\ UNCHANGED <<made, faults>>

\* CREATE ... IF NOT EXISTS looks for the object: there is one, or it goes on.
Look(r) ==
    /\ Doing(r, "create") /\ r \notin looked
    /\ \/ Exists(Now(r).to) /\ Advance(r)
       \/ ~Exists(Now(r).to) /\ looked' = looked \cup {r} /\ UNCHANGED <<at, tries>>
    /\ UNCHANGED <<made, holder, faults>>

Creating(r) == Doing(r, "create") /\ r \in looked

Create(r) ==
    /\ Creating(r) /\ ~Exists(Now(r).to)
    /\ made' = [made EXCEPT ![Now(r).to] = Service[r]]
    /\ Advance(r)
    /\ UNCHANGED <<holder, faults>>

Collides(r) == Creating(r) /\ Exists(Now(r).to)

\* Variant: the statement is tried again, without a look.
CreateCollidesAgain(r) ==
    /\ Collides(r)
    /\ UNCHANGED vars

\* A unique violation of the catalogue: the start-up raises.
CreateCollides(r) ==
    /\ Collides(r)
    /\ Die(r)
    /\ UNCHANGED <<made, faults>>

\* An audit_logs of the auth service has no session_id.
HasSession == made["audit_logs"] = "agent"

\* CREATE INDEX on audit_logs(session_id)
Index(r) ==
    /\ Doing(r, "index")
    /\ \/ HasSession /\ Advance(r) /\ UNCHANGED holder
       \/ ~HasSession /\ Die(r)
    /\ UNCHANGED <<made, faults>>

Unlock(r) ==
    /\ Doing(r, "unlock")
    /\ holder' = [holder EXCEPT ![Now(r).to] = None]
    /\ Advance(r)
    /\ UNCHANGED <<made, faults>>

\* The helper is not there.
CallMissing(r) ==
    /\ Doing(r, "missing")
    /\ Die(r)
    /\ UNCHANGED <<made, faults>>

\* The process dies, or a statement raises, before or after what it did was committed.
Crash(r) ==
    /\ Fault
    /\ Die(r)
    /\ \/ UNCHANGED made
       \/ Creating(r) /\ ~Exists(Now(r).to) /\ made' = [made EXCEPT ![Now(r).to] = Service[r]]

Proceed(r) ==
    \/ Connect(r) \/ Lock(r) \/ LockTimesOut(r) \/ Look(r) \/ Create(r)
    \/ CreateCollides(r) \/ Index(r) \/ Unlock(r) \/ CallMissing(r)

Next == \E r \in Replicas : Proceed(r) \/ ConnectFails(r) \/ Crash(r)

Spec == Init /\ [][Next]_vars

\* Kubernetes restarts what exits, and every statement ends.
FairSpec == Spec /\ \A r \in Replicas : WF_vars(Proceed(r))

----------------------------------------------------------------------------
(* Properties.                                                             *)

TypeOK ==
    /\ \A r \in Replicas : at[r] \in 1 .. Len(Steps(r)) + 1
    /\ looked \in SUBSET Replicas
    /\ tries \in [Replicas -> 0 .. StartupRetries - 1]
    /\ made \in [Objects -> Services \cup {None}]
    /\ holder \in [Locks -> Replicas \cup {None}]
    /\ faults \in 0 .. MaxFaults

\* "advisory lock to avoid concurrent migrations" (auth connections.init_db_schema): two
\* replicas of one of the services that lock never collide, however they start, die and
\* start again.
SameServiceNeverCollides ==
    \A r \in Replicas :
        (Collides(r) /\ Service[r] \in {"auth", "activity"}) =>
            made[Now(r).to] # Service[r]

\* A replica that serves finds its schema there: each object of its steps exists, and the
\* audit_logs of an agent that went through has the column its audit rows need.
ServingHasSchema ==
    \A r \in Replicas : Serves(r) =>
        /\ \A i \in DOMAIN Steps(r) : Steps(r)[i].does = "create" => Exists(Steps(r)[i].to)
        /\ Service[r] = "agent" => HasSession

\* "Ensure required tables/extensions exist (idempotent)": once faults are over, each auth
\* and activity replica serves, whatever collided or timed out before, so no start-up that
\* failed has left its lock behind; and so does the agent, unless the auth service has made
\* audit_logs first.
ReplicasServe ==
    \A r \in Replicas :
        /\ Service[r] \in {"auth", "activity"} => <>[]Serves(r)
        /\ Service[r] = "agent" => <>[](Serves(r) \/ (Exists("audit_logs") /\ ~HasSession))

\* "advisory lock to avoid concurrent migrations" (auth connections.py) and "idempotently"
\* (activity connections.py): no start-up fails because another creates the same object.
MigrationsNeverCollide == \A r \in Replicas : ~Collides(r)
=============================================================================
