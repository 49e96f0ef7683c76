# AgentOps-ServiceAutomation: a TLA+ model

This directory specifies, model-checks and proves properties of the programs of
this repository.  Paths are relative to the repository's root unless they start
with `src/src/`, where the first `src/` is the checkout.  TLC checks the
instances named by the `.cfg` files; TLAPS proves the theorems of the `*Proofs`
modules for every value of the constants.

## The system

| Part | Source | State it keeps | Operations |
|---|---|---|---|
| Inference agent | `src/scripts/archive/inference/{main,agents}.py` | the `AgentState` of each graph run; tables `approvals`, `audit_logs`; LangGraph checkpoints | `POST /chat`, `POST /approve`, `GET /approvals/pending`; nodes `load_state`, `plan_action`, `execute_tool`, `approval_gate`, `generate_response`, `persist_state` |
| MCP service (Go) | `services/mcp_service/server.go`, `cmd/mcp-service/main.go`, `migrations/003_mcp_audit.up.sql` | table `tool_calls` | `POST /tools/:name`, health, start-up, shutdown |
| Auth service | `src/scripts/archive/svc/auth` | tables `oauth_pending`, `users`, `audit_logs`; the JWT secrets | login start, OAuth callback, `/me`, schema set-up under an advisory lock |
| Task and activity services | `src/scripts/archive/svc/{task,activity}_service` | their tables, a Valkey cache and stream | create and list tasks, record and list activities |
| LLM deployment | `src/scripts/archive/llm_serve.py` | the loaded model of each replica | load, answer a batch of requests |
| Billing seeder, demo bootstrap | `cmd/seed_billing_scenarios/main.go`, `src/demo/bootstrap_demo_users.py` | users, subscriptions, payments | seeding, re-seeding |
| Cluster scripts | `src/core/*.sh`, `src/terraform/run.sh`, `src/scripts/archive/{valkey.sh,svc/auth/infra.sh}` | cluster objects, annotations, Terraform state versions | roll out, verify, roll back |
| Frontend, telemetry, Terraform modules, manifests | `src/services/frontend`, `svc/common`, `src/terraform/modules`, `src/manifests` | nothing the programs read back | - |

How they interact: the agent asks the LLM deployment for a plan (`handle.remote`),
calls an external order API (`http://external-api:9000`, not in the repository),
and writes Postgres with one connection per statement.  The MCP service is called
by agents that retry with an idempotency key.  The auth service issues the tokens
that the agent, the task and the activity services verify; the task service posts
to the activity service.  `services/agent_service`, the individual tool files of
`services/mcp_service` and all of `tests` are empty files; the packages
`mcp_service/db` and `mcp_service/middleware` are imported and missing.

What is hard in it: every handler awaits between statements that commit one by one,
so requests interleave everywhere; effects outside the database precede the rows
that record them; a timeout does not say whether the effect happened; retries may
or may not be recognised; several replicas share the tables.  `PROJECT.json` lists
each such place under `hazards`, with its line and the properties about it.

What makes each part correct:

* agent: no refund over the threshold that no manager approved, for that amount; no
  effect that nobody hears of, no success that did not happen, a decision that stays decided, and an
  approved refund that is made;
* MCP service: a call and its retries are one recorded call, and its record does
  not change;
* auth: a pending state is used once, and the token is for the account that signed in
  for it; one address is one user; no audit row contradicts the answer (that a token
  of the last secret is still taken during a rotation is meant, and lost: see below);
* task and activity: a task belongs to the subject of its token; cache, log and stream
  never run ahead of the committed task, and an event is recorded at most once;
* start-up: replicas of one service do not collide, whoever serves has its schema, and
  no failed start keeps the others from starting;
* LLM deployment: a batch is answered as a whole, each caller with the result of its own
  request, and an inference that fails does not take its batch with it;
* seeders: a phase is there as a whole or not at all, two runs do not deadlock, and no
  run that ends by itself leaves a port-forward behind, nor any run a transaction;
* scripts: at most one default StorageClass, a manifest that changed is applied, a
  rollback does not race an apply.

## Modules

| Module | Models | Role |
|---|---|---|
| `ApprovalFlow` | `main.py`, `agents.py` | the agent: requests, graph runs, tables, order API |
| `RefundLedger` | - | what the agent promises about money, in four actions |
| `MCApprovalFlow` | - | instances of `ApprovalFlow` for TLC |
| `ApprovalProofs` | - | inductive invariant, safety theorems, refinement |
| `ToolCalls` | `server.go`, `main.go`, `003_mcp_audit.up.sql` | the MCP service's tool calls |
| `CallRegister` | - | what the MCP service promises its clients: calls written once, answers that are final |
| `MCToolCalls` | `main.go` (the order of registration) | instances of `ToolCalls` |
| `ToolCallsProofs` | - | inductive invariant, theorems, refinement |
| `OAuthLogin` | `svc/auth/app.py`, `svc/auth/connections.py` | login start, callback, the provider, the three tables |
| `MCOAuthLogin` | - | its instance for TLC |
| `LoginSessions` | - | what the auth service promises those who log in |
| `OAuthLoginProofs` | - | inductive invariant, theorems, refinement |
| `TaskActivity` | `task_service`, `activity_service`, `/me` of `auth`, the secrets of `infra.sh` | `POST /tasks` across the services |
| `TaskTrail` | - | what `POST /tasks` promises across its four stores |
| `MCTaskActivity` | - | its instance for TLC |
| `TaskActivityProofs` | - | inductive invariant, theorems, refinement |
| `ServiceStartup` | the `lifespan` and schema code of the three services, `inference/pg_tables.py` | their start on one database |
| `MCServiceStartup` | - | its instances for TLC |
| `ServiceStartupProofs` | - | inductive invariant and theorems |
| `DemoSeed` | `src/demo/bootstrap_demo_users.py` | runs of the seeder, at once or again |
| `MCDemoSeed` | - | its instance for TLC |
| `DemoSeedProofs` | - | inductive invariant and theorems |
| `LlmBatch` | `llm_serve.py` | the batches of the replicas |
| `LlmReplies` | - | what the LLM deployment promises its callers |
| `MCLlmBatch` | - | its instance for TLC |
| `LlmBatchProofs` | - | inductive invariant, theorems, refinement |

The modules meet in the code as follows.  A plan of `LlmBatch` is a member of
`LLMReplies` in `ApprovalFlow`; the token that `OAuthLogin` hands out is the one a
request of `TaskActivity` carries; `ServiceStartup` makes the tables that the others
find there, and its `HasSession` decides whether `_audit_log` of the agent can work.
They share no variable, so composing them would only multiply their states.

### ApprovalFlow

A *run* is one HTTP request: a member of `Chats` (`POST /chat`) or of `Decisions`
(`POST /approve`).  `pc[r]` is the await it is at: a node of the graph, `calling`
(the POST to the order API), `auditing` (the INSERT of `_audit_log`), `resolve`
(between the SELECT and the UPDATE of `/approve`), `end` (the graph is over),
`done` (answered) or `crashed`.  `agent[r]` is its `AgentState`, without the
session, the user and the reason, on which no step depends; its message is
reduced to what kind of text it is.  `approvals` has one possible row for each
chat, since only a chat inserts one and a run inserts at most one.  `audit` holds
`<<run, tool>>`.  `posted` and `issued` are the order API: a POST that is on its
way, and a call that was carried out.

| Action | Code |
|---|---|
| `Receive` | `chat`, up to `ainvoke` |
| `SelectPending`, `SelectNothing`, `SelectFails` | `approve`, the SELECT and the 404 |
| `Resolve`, `ResolveFails` | `approve`, the UPDATE, then the graph run or the answer |
| `PlanAction` | `plan_action` with each reply of the model |
| `ExecuteNothing`, `AskApproval`, `CallTool`, `NoteTool` | the branches of `execute_tool` and of the four tools |
| `CallReturns`, `CallFails` | the end of `_call_external_api` |
| `AuditLog`, `AuditFails` | `_audit_log` in `execute_tool` |
| `ApprovalGate`, `GateFails` | `approval_gate` |
| `GenerateResponse`, `ResponseFails` | `generate_response`, and its exceptions |
| `Answer`, `GraphRaises` | the end of `ainvoke`; an exception out of the graph |
| `Deliver`, `Lose`, `Crash` | the order API, the network, the replica |

Every statement runs on a connection without a transaction, so it is one atomic
step that commits by itself; in particular the row lock of `SELECT ... FOR UPDATE
SKIP LOCKED` does not outlive the SELECT.  A statement that raises may have
committed (`ResolveFails`, `AuditFails`, `GateFails` have both outcomes).  A call
that fails (`CallFails`) leaves its POST in `posted`, where `Deliver` may still
carry it out.  LangGraph and its Postgres checkpointer are external: nodes run one
after the other, and a checkpoint that cannot be written raises between two nodes.
A `/chat` or `/approve` refused with 400 changes nothing and is left out, as is the
branch of `execute_tool` for an unknown tool: `plan_action` never selects one.

### ToolCalls

`Attempts` are the HTTP requests, first calls and retries alike; `request` is the
tool of the path and the key of the client; `calls` has one possible row for each
attempt.  The INSERT, the lookup after a unique violation and the UPDATE are
separate steps.  `Stack` is the order in which handlers are registered on the fiber
app: a middleware sees only the requests that no earlier route has answered, so
`IdempotencyKey(a)`, the key the handler finds in `c.Locals`, depends on it.
`MiddlewareFirst` is the order in which the handler's idempotency branch can run at
all; `MainStack` is the order of `cmd/mcp-service/main.go`.  The body, the ULID and
the response are data and left out: a row with a response is one with the status
`success`, which one UPDATE sets with it.  The `db` package is external: an INSERT
that meets the unique index of the migration, a SELECT by tool and key, an UPDATE.

### OAuthLogin

A call of `login_start` names its state, its verifier and the code the provider will
issue for it, which are three random values of one login.  `callback[c]` is where a
callback is, what its browser brought and what it has learnt.  `users` has the id of the
row of each address; an id is named by the callback that would insert it.

| Action | Code |
|---|---|
| `SaveOauthPending`, `SaveFails` | `save_oauth_pending` in `login_start` |
| `AuthorizeRedirect`, `RedirectRaises`, `CleanUp` | `authorize_redirect` and its except branch, which pops the row |
| `Receive` | `callback` up to `unknown_state` for a missing state |
| `SelectPending`, `DeletePending`, `PopFails` | `pop_oauth_pending`, two statements without a transaction |
| `Exchange`, `ExchangeRefused`, `ExchangeRaises` | `authorize_access_token` |
| `UserInfo`, `UserInfoFails` | the id token, Microsoft's graph, the missing address |
| `UpsertUser`, `UpsertFails` | `upsert_user`, `create_jwt` |
| `Succeed`, `Reject` | `audit_auth_event`, then the page or the redirect |
| `Crash`, `SignIn` | the replica; the provider and its user |

A browser may send what any redirect and any provider has given out, again or mixed
from two logins.  The provider is external: it takes a code once, on the callback of
its own client, with the verifier whose challenge the code was issued for.  That check
is all that relates a callback to its login, since the code never compares the
provider of the pending row with that of the path.

### TaskActivity

A request of `create_task` is one token, at most one task row and at most one
activity.  `post` is the POST to the activity service and its handler, which run on when
the task service has stopped waiting.  Secrets are numbered by deployment.  A deployment
of `infra.sh` gives a new one to the Secret, twice, since line 23 makes the previous
secret the new one; it restarts nothing, so each replica of the auth service and the
task service reads the pair when it next starts, in any order and perhaps several
deployments later (`secrets.auth`, `secrets.task`).  A request may carry a token of any
secret that a replica has signed with, expired or not, and `GET /me` may reach any replica.

| Action | Code |
|---|---|
| `VerifyLocal` | `_verify_jwt_local` and the 401 without `AUTH_SERVICE_URL` |
| `VerifyRemote`, `AuthUnreachable` | `GET /me` with `verify_jwt` of the auth service; `httpx.HTTPError` |
| `InsertTask`, `InsertFails` | the INSERT; 500 |
| `CacheSet`, `CacheExpire`, `CacheFails` | SET, EXPIRE, and the except that goes on |
| `PostActivity`, `PostEnds` | the POST with its 3 s; any end of it is followed by the answer |
| `ReceiveActivity`, `InsertActivity`, `InsertActivityFails`, `LPush` | `emit_activity` |
| `LoseActivity`, `Crash` | the network and the activity service; the task service |
| `DeploySecret` | `ensure_auth_secret` of `infra.sh`, with both fields of the Secret |
| `StartAuth`, `StartTask` | a replica starts and reads `JWT_SECRET` and `JWT_SECRET_PREVIOUS` |

### ServiceStartup

Each service is a sequence of steps (`AuthSteps`, `ActivitySteps`, `TaskSteps`,
`AgentSteps`): what it does and to which object.  A replica walks through its sequence;
an exception ends the process and Kubernetes starts it again.  `CREATE ... IF NOT
EXISTS` is two steps, `Look` and `Create`, because PostgreSQL does not make them one:
between them another session may create the object, and then the catalogue's unique
index raises (`CreateCollides`).  `ConnectFails` is the retry loop of the pool and of
the cache.  The lock is one of the session, released by `Unlock` or by its end: the
model takes a connection of the service for a session of the server, as it is with the
`DATABASE_URL` that `infra.sh` derives unless its host is a pooler in transaction mode
(the cluster script deploys one), behind which a session lock means something else.
`pg_tables.py` creates `audit_logs` and its indexes in one transaction, which is two steps
here; that adds a start-up that dies between them and takes nothing away.

### DemoSeed

A run goes through `start_port_forward`, `try_connect`, `ensure_tables` and the phases
users, payments, incidents and articles.  `Loop` has the keys a phase writes; each
phase is a transaction (`tx`) that `Commit` adds to `rows`.  A row that an open
transaction has written makes others that write its key wait (`Holders`).  `CREATE INDEX`
locks its table against writers for the rest of `ensure_tables`, whether or not the index
is there, and waits for the transactions that have written it; so runs wait for each
other's tables too (`Lockers`).  Creating `payments` locks `users` as well, but only in the
transaction that creates `users`, and its foreign key reads rows that no run updates:
neither makes another run wait and neither is in the model.
`wait_for_port` cannot tell whose port-forward listens, so a run may go through that of
another (`via`).  `Raises` is what must fail (the connection is gone, the table was
created meanwhile), `MayRaise` what can.  `Interrupt` ends a run anywhere: a kill, or
Ctrl-C before the `try` (up to line 384) or in its `finally`, whose `except Exception`
(lines 400-404) does not stop it; the transaction is rolled back by the server, and the
port-forward, which has a session of its own (line 117), goes on.

### LlmBatch

A replica has a queue, a batch, the results so far and perhaps a model.  `Gather`,
`Return` and `Crash` are Ray Serve, external; `LoadModel`, `LoadFails`, `ServeChat`,
`ServeEmpty` and `ServeMalformed` are `_load_model` and the branches of the loop in
`LLMModel.__call__`.  A request is reduced to its kind: messages, none, or messages
without a length (null), on which `len(messages)` raises outside the loop's `try`.

Variants.  A definition whose comment starts with "Variant" is not part of the model:
it is the form that a plausible mistake in the code would give the definition after it,
and each property is known to fail with one of them.

## Runs

| Run | Instance | Result |
|---|---|---|
| `approval_safety` | 1 chat, 2 decisions, 3 amounts, every fault; about 145 000 states | all hold, with the refinement of `RefundLedger` |
| `approval_liveness` | 1 chat, 1 decision, every fault, fairness | both hold |
| `approval_resolution` | 1 chat, 2 decisions, no fault | `ResolutionIsFinal` violated |
| `approval_resume` | 1 chat, 1 decision, no fault | `ApprovedRefundIsMade` violated |
| `tool_calls` | 3 requests, 2 tools, 1 key or none, database errors and crashes; middleware first | all hold, with the refinement of `CallRegister` |
| `tool_calls_main` | 3 requests, 1 tool, no fault; the order of `main` | `RetriedCallRecordedOnce` violated |
| `oauth_login` | 2 logins, 2 callbacks, 2 providers, 3 accounts, every fault; about 322 000 states | all hold, with the refinement of `LoginSessions` |
| `service_startup` | 5 replicas of the 4 programs, 1 outage or crash, fairness; about 88 000 states | all hold |
| `startup_collision` | 1 auth and 1 activity replica, no fault | `MigrationsNeverCollide` violated |
| `task_activity` | 1 request with any token, 3 secrets, 2 auth replicas, every fault, fairness; about 21 000 states | all hold, with the refinement of `TaskTrail` |
| `demo_seed` | 2 runs, 3 draws of 2 addresses, every fault, fairness; about 9 500 states | all hold |
| `llm_batch` | 3 requests, batches of 2, 2 replicas, every fault, fairness; about 51 000 states | all hold, with the refinement of `LlmReplies` |

Bounds.  Requests are the only thing that is unbounded in the code; nothing else
is cut off.  A chat and two decisions contain every race on a row: runs of two
chats share nothing but the tables, where each has its own rows.  Three attempts
are a first call, its retry and a third that races with either or is a call of
another tool.  Amounts are the threshold and two more, so that a resumed run may plan another large
refund than the one approved; the refund without a valid amount is a fourth.  `get_order_status` stands for the calls that read and
`escalate_to_human`, with the same steps, is left out of the instances (not of the
proofs).  Symmetry is used in the safety runs only.


Two callbacks of one or of two logins contain every race of pop, exchange and upsert;
of the accounts, two share an address under different providers and one has none.
Requests of `TaskActivity` share nothing but the secrets, which no request writes, so
one of them with every token is enough; with three secrets a process may be two
deployments behind another, and two auth replicas may disagree.  `MaxFaults` bounds the outages and crashes of
`ServiceStartup`: one is enough for a start that fails at any step while others run,
and collisions, time-outs and raises are not counted.  `StartupRetries` is 2 so that a
loop can fail once and go on.  Two runs of the seeder meet in every phase; an address
is drawn twice because the 40 draws from 260 names may repeat.  Three requests fill one batch
of two and leave one for the next.  `DemoSeed` has a port-forward in its instance
(`Resolves` is false), where more can go wrong than with a name that resolves.

Deadlock is not checked except in `service_startup`, where the task service never stops
trying: requests are finitely many and when all are answered the
system stops.

Fairness.  `FairSpec` resumes a coroutine whose await is over (`GraphStep`,
`GateStep`, `ResolveStep` of each run) and lets the order API carry out a POST that
is never lost (`Deliver`).  The event loop gives the first; the second stands for an
API that answers, and where `"api"` is among the faults `Lose` and `CallFails`
compete with it.  `TaskActivity` and `ServiceStartup` are fair to what a coroutine
does next, whose awaits end because each has a timeout (`command_timeout`, 3 s for
HTTP); `DemoSeed` to the script's next step, whose waits have limits or end with the
other run; `LlmBatch` to a replica's next step, since inference is bounded by
`max_tokens`.  `ServiceStartup` also relies on Kubernetes to start again what exits.
`ToolCalls` and `OAuthLogin` have safety properties only.  Nobody has to send a
request, and nothing forces a fault: where a step can end well or fail, fairness is
that of their disjunction.  A failure is forced only where the code must fail (a lost
connection, a collision, a lock that is held for too long).

### What the violated properties say

* `ResolutionIsFinal`: two managers decide at once; both SELECTs find the row
  pending, both UPDATEs run.  One may have approved, and resumed the run, what the
  table says was rejected (`main.py:221-242`).
* `ApprovedRefundIsMade`: the resumed run plans, `execute_process_refund` compares
  the amount with the threshold again and ignores `approval_status`, the gate is
  skipped because the status is set, and `generate_response` raises `KeyError` on
  `refund_id`.  The manager's request ends with 500 and the row stays approved
  (`agents.py:76`, `agents.py:313`).
* `RetriedCallRecordedOnce`: no key reaches `handleToolCall`
  (`cmd/mcp-service/main.go:64-68`), so the unique index, which ignores rows
  without a key, admits every retry.

* `MigrationsNeverCollide`: the auth service locks 1234567890, the activity service
  987654321, so the two locks exclude nobody but replicas of the same service, and both
  services start with `CREATE EXTENSION IF NOT EXISTS pgcrypto`.  The second raises out
  of its lifespan; Kubernetes starts it again and then it serves, as `ReplicasServe`
  shows (`svc/auth/connections.py:43`, `svc/activity_service/connections.py:53`).

Four more places where a document or a comment and the code differ.  The models have the
behaviour of the code in each; no property states the document's side, so no run shows
these as violations:

* a pending row never expires.  The README of the auth service says "Entries should
  expire after short TTL." (`svc/auth/README.md:430`), and `PKCE_TTL_SECONDS` is
  configured and not read;
* a rotation has no overlap.  `verify_jwt` means to "try current + previous for rotation"
  (`svc/auth/app.py:198`); `infra.sh:23` deploys the new secret as the previous one, with
  two replicas of the auth service (`infra.sh:56`) that start with it at different times,
  so a token of the last secret is refused by each replica from its restart on, and a new
  one by each replica that has not restarted.  `VerifyRemote` has both;
* a second run of the demo seeder adds its payments and articles again, since their ids
  are `uuid4`, although the script "seeds deterministic users/payments/incidents/knowledge"
  (`bootstrap_demo_users.py:9`): `Key` gives these rows a key of the run;
* `update_customer_note` answers that a note was added, and stores nothing but the audit
  row (`agents.py:100-101`).  `SuccessIsBacked` asks for that row and cannot ask for more.

What the models record of the code without a document that says otherwise:

* the task service calls `connections.init_db_pool`, which its `connections.py` does not
  define (`task_service/app.py:218`): `CallMissing` repeats for ever.  `TaskActivity`
  models the handler as it is written, for a service that has started;
* if the auth service makes `audit_logs` first, the agent's index on `session_id` fails
  at every start (`pg_tables.py:70`);
* the provider of a pending row is not compared with that of the path; a login can be
  audited as failed although its user row is committed;
* a cache entry whose EXPIRE fails has no expiry; an activity that times out may be
  recorded or not, and is never sent again;
* a run of the demo seeder that is killed, or interrupted outside its `try`, leaves its
  port-forward running;
* one request with null messages fails all requests of its batch;
* a text that the model answers is always followed by the fixed sentence of
  `generate_response`, which is what `/chat` returns;
* a tool call whose replica dies before the UPDATE keeps `accepted` without a response
  for ever.

## Proofs

`ApprovalProofs` proves, for all sets of chats and decisions, thresholds, replies
and faults, every invariant and both action-level properties of `approval_safety`.
It assumes `ApprovalConstants` only: the two sets of requests are disjoint, amounts
and the threshold are natural numbers, replies and faults are among those modelled.

The properties are not inductive: that an unaudited call is reported, say, depends
on which node a run is at and on what it left behind.  The inductive invariant
`IInv` is `TypeOK` and three parts:

* `RunsFit`: `RunOK` for every run, a relation between the run's node, its state,
  its answer and its share of the POSTs, effects and audit rows.  Before a run has
  left `execute_tool` it has touched nothing (`EarlyOK`); after it, its one call is
  the call of its state (`CallOK`), a run that asks for an approval calls nobody
  (`AskOK`), what is audited has happened (`AuditOK`), and an effect comes with an
  audit row or with an error that the answer shows (`OutcomeOK`);
* `RowsFit`: a row belongs to a chat that has asked and holds a large refund;
* `DecisionsFit`: a decision has a row, and acts only once the row is resolved.

A step changes the share of one run only.  `MoveIInv`, `QuietMoveIInv`,
`FinishIInv` and `EnvironmentIInv` say so once for the kinds of steps, so the lemma
of an action only shows `RunOK` for its run.  The invariant itself was first checked
with TLC on the instance of `approval_safety`.

The refinement maps `requests`, `effects` and `records` of `RefundLedger` to
`approvals`, `issued` and `audit`.  `ApprovalGate` is `Request`, `Resolve` is
`Decide`, `Deliver` is `Effect` (of a refund that is small, or that was approved with its
amount: `MayRefund`), `AuditLog` is `Record`; the failing variants are
the same or a stutter, and every other action is a stutter.  `NeverReopens` then
follows from the ledger alone.

`ResolutionIsFinal` is refuted by `approval_resolution`; `FinalWithoutOverlap` says how
far: while no two decisions for one request are between their SELECT and their UPDATE
together (`Overlap`), a decision is final, whatever fails, raises or dies.  The invariant
is `ReadsAreFresh`: what a decision has read as pending is still unresolved.  Only an
UPDATE could make it false, and the decision that sends it is not the one that would
notice.  Behaviours without an overlap are many: every decision after another is one.
The theorem was first checked with TLC on two chats and two decisions with every fault,
cut off at the states that overlap (1.1 million states).

`ToolCallsProofs` proves the properties of `tool_calls` for every order of handlers, from
`RowsFit` (a request has its row from its INSERT on, without a response before its
UPDATE), `KeysFit` (the unique index) and `AnswersFit` (what a response says of a row is
true and stays so).  `SafeRetries` therefore speaks of what the service recognises as one
call (`Recognised`: one tool, one key that reached the handler): the answers to two
requests name one row then, and never otherwise.  With the middleware where `main`
registers it nothing is recognised, and `RetriedCallRecordedOnce`, which speaks of the
clients' keys, is violated (`tool_calls_main`).

`RegisterImplemented` shows, for every order of handlers, that `ToolCalls` implements
`CallRegister`, where `Identified` is whether the key reaches the handler.  The three
variables map to themselves; `pc` is hidden.  An INSERT is `Record`, an UPDATE is
`Complete` or (when an UPDATE that raised had committed) a stutter, the answer that goes
with either is `Refuse`, `Accept` or `Replay`; `Receive`, `InsertCollides` and `Crash`
are stutters.  The invariant is needed where the abstract step looks at the table after
the step: that the row of an UPDATE is still there with the request's own tool and key,
that a 500 stands for a call without a response, that a request whose INSERT collides
has no row itself.  The register implies that answers are final and that no row is taken
back; `CallsAreImmutable` states the latter (`StoredCallIsImmutable`) by itself.

`OAuthLoginProofs` proves every property of `oauth_login`, for all sets of logins,
callbacks, providers and accounts, from `OAuthConstants`.  That no two callbacks of one
state get a token does not follow from the pop, which two of them can pass; it follows
from the code being redeemed once and only with the verifier of its own state.  So the
invariant carries, for each callback, what it brought (`BroughtOK`), that its row is
gone once it has left the DELETE (`PoppedOK`), that an account stands for a redeemed
code of its own state (`AccountOK`), that its user is the table's (`UserOK`) and what was
audited (`AuditOK`); for all, that codes fit their providers (`CodesFit`) and that no
two callbacks with an account have one state (`OneAccount`).  `PoppedOK` needs that a
state which was sent to a browser is never written again: `StartIInv`.  `CallbackIInv`
and `MoveIInv` carry the other callbacks over a step of one.

`LoginsImplemented` shows that `OAuthLogin` implements `LoginSessions`.  `signedIn` is
`code`, `users` is `users`, and a session is there for each callback that has a user: the
callback, its state and that user (`SessionsOf`).  `UpsertUser` is `LogIn`, an upsert that
raises is `EnrolOnly` or a stutter, `SignIn` is `SignIn`, every other step is a stutter.
`UpsertReady` has the substance: at its upsert a callback has the account of its own
login and no other callback has a session of that login, which is `AccountOK` with
`OneAccount`.  `TokensNameOneUser` is a consequence of the refinement, so the run checks
that; `OneUser` proves it by itself.

`TaskActivityProofs` proves the safety properties of `task_activity` for any number of
requests, users and secrets, with and without the fallback.  `TaskOK`, `CacheOK` and
`PostOK` say what the stores hold of a request at each of its steps and of its POST's;
`RequestIInv` carries the other requests over.

`TrailImplemented` maps the owner of a request to the subject of its token, what it was
told to where it ended (a crash tells nothing), and the four stores to themselves.
`InsertTask` is `Create`, `InsertFails` is `Create` with an error or `Refuse`, the two
calls of the cache are `CacheTask`, `PostEnds` is `Confirm`, `InsertActivity` is
`LogEvent`, also when it raises after it committed or comes after the answer, and `LPush`
is `PushEvent`; the refusals are `Refuse` and the rest stutters.  It is what makes
`CacheOK` say that an entry has no expiry before EXPIRE.  `EffectsFollowTask`, a
consequence of the refinement, is proved by itself (`EffectsFollow`); the run checks
`ImplementsTrail`.

`ServiceStartupProofs` proves the safety properties of `service_startup` for any number of
replicas of each service, any number of faults and any number of retries.  Neither is
inductive: that no two replicas of one service collide depends on what happened since
each of them looked.  `PassedIsThere` says what a replica's place in its plan implies: a
session is there once it has connected, and an object is there once the replica has gone
past its step; nothing is ever dropped, so it stays.  `LockHeld` says that a session
between lock and unlock holds the lock of its service, so no two replicas of one service
are both there.  `LookStays` is the heart: between a look that found an object missing
and the create that follows, no replica of the same service has made it, because whoever
made it would have held the lock.  That both steps lie between lock and unlock is a fact
about the plans (`AuthSteps`, `ActivitySteps`) and is proved from their text, one lemma
for each plan.  `AdvanceIInv` and `DieIInv` carry the invariant over the kinds of
steps.  `SameServiceSafe` speaks of the auth and the activity service, the ones that
lock; across services the property fails, as `startup_collision` shows.  `CollisionsAreShared`
says that it fails there only: an auth or activity start-up collides on an object that
another service plans to create as well (`pgcrypto`, `users`, `audit_logs`), because what
exists was made by a service that plans it (`MadeByPlan`).  `MigrationsExclude` says of
whole sessions what the locks are for: of one service, one migration at a time.

`DemoSeedProofs` proves the safety properties of `demo_seed` for any number of runs,
addresses and draws.  `WrittenOK` says that an open transaction has rows only of items its
loop has passed, `PassedOK` that it has one of every item passed or that the row was
committed before, `FreshOK` that what a transaction creates is not committed yet, and
`Isolated` that two open transactions share no row.  `PhasesAreAtomic` follows since a
phase commits only at the end of its loop.  `DeadlockFree` is an argument over an order of
all statements that wait (`Rank`): the run that holds the row another waits for is
further in the same loop (`HolderIsAhead`); who indexes a table waits only for runs past
their first statement on it, and that first statement only for runs past the index
(`BlockerIsAhead`).  So in any set of runs the last in the order waits for nobody in it.
That such a run exists is `Largest`, a nonempty bounded set of natural numbers has a
largest member.  `CleanEnd` is about runs that end by themselves; an interrupted one is
where the clean-up of the code stops.

`LlmBatchProofs` proves the safety properties of `llm_batch` for any number of requests
and replicas and any size of a batch.  `ProgressOK` counts the results against the place
in the batch, `ResultsOK` says that the i-th result is of the i-th request, `QueueOK`
that no request is in a queue twice or in queue and batch, and `HeldOnce` that a request
is held by one replica only, and only while its caller waits.  `OwnResults` and
`CauseOfRaise` use the first two and `HeldOnce`.  `RepliesImplemented` shows that the
replicas implement `LlmReplies`, whose state is `kind`, `answer` and the batches being
served (`Batches`, the sets of requests of the replicas' batches).  `Submit` is `Submit`,
`Gather` is `Gather`, `Return` is `Return` of exactly the replica's batch, a batch that
raises is `Raise` of it, with what is queued when the replica dies; the rest are stutters.
A batch that answered some of its requests only would be none of these.  It needs all
four: a batch is gathered from requests that are in no other, and an answer is final only
because a request that was answered is in no queue any more, which is `QueueOK` with
`HeldOnce`.  `OwnResult` is a consequence of the refinement, so the run checks that.

The inductive invariants were first checked with TLC on the instances of the runs, but
for the typing of `DemoSeed`, whose keys are of several types that TLC does not compare.

Every safety and every action property of the passing runs is stated by a theorem.
Only model-checked: the liveness properties `EveryRequestAnswered`,
`CallIsAuditedOrFails`, `ReplicasServe`, `CreateAnswered`, `RunEnds` and
`RequestAnswered` (fairness and `ENABLED` are out of the prover's reach), and the
violated ones, which are refuted, not proved.

## Not modelled

`PROJECT.json` lists every part with its reason.

* The billing seeder `cmd/seed_billing_scenarios` writes a schema that no other code of
  the repository uses; it is of the kind of `DemoSeed`.  Its hazards are listed.
* The cluster, StorageClass, Terraform and SigNoz scripts are sequences of `kubectl`,
  `aws`, `terraform` and `helm` calls.  Their state is that of those systems, and what a
  step does to it is decided outside the repository.
* Telemetry and the frontend: nothing the programs read back.  Terraform modules and
  manifests: declarations.
* The tools of the MCP service are empty files; its `db` and `middleware` packages are
  missing, and are modelled as external from how they are used.  Its start-up and
  shutdown are calls into libraries.
* The endpoints that only read (`GET /tasks`, `GET /activity`, `GET /approvals/pending`,
  health checks) change no state.  The 503 of the task service's `/ready` without a
  cache, although its start goes on without one, is therefore not in the model either.

## The plan

1. `BillingSeeder`: three transactions, re-runs, aborted transactions; the index
   arithmetic as a pure function against its reference.
