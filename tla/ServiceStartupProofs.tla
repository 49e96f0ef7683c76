------------------------ MODULE ServiceStartupProofs ------------------------
(***************************************************************************)
(* Theorems about ServiceStartup, for any replicas of any of the services, *)
(* any number of retries and any number of faults.                         *)
(***************************************************************************)
EXTENDS ServiceStartup, TLAPS

Locking == {"auth", "activity"}

LockOf(r) == IF Service[r] = "auth" THEN "1234567890" ELSE "987654321"

\* The steps of a service that it does with its lock: the unlock is the last of them.
Guarded(r, i) ==
    \/ Service[r] = "auth" /\ i \in 3 .. 7
    \/ Service[r] = "activity" /\ i \in 3 .. 5

Typed ==
    /\ at \in [Replicas -> Nat \ {0}]
    /\ \A r \in Replicas : at[r] <= Len(Steps(r)) + 1
    /\ looked \in SUBSET Replicas
    /\ tries \in [Replicas -> 0 .. StartupRetries - 1]
    /\ made \in [Objects -> Services \cup {None}]
    /\ holder \in [Locks -> Replicas \cup {None}]
    /\ faults \in 0 .. MaxFaults

\* What a replica went past is there.
PassedIsThere ==
    \A r \in Replicas : \A i \in 1 .. Len(Steps(r)) : i < at[r] =>
        /\ Steps(r)[i].does = "create" => Exists(Steps(r)[i].to)
        /\ Steps(r)[i].does = "index" => HasSession

\* The session of a replica between its lock and its unlock holds the lock.
LockHeld ==
    \A r \in Replicas : Guarded(r, at[r]) => holder[LockOf(r)] = r

\* Between its look and its create, no other replica of its service has created the object.
LookStays ==
    \A r \in looked :
        /\ Doing(r, "create")
        /\ Service[r] \in Locking => made[Now(r).to] # Service[r]

IInv == Typed /\ PassedIsThere /\ LockHeld /\ LookStays

----------------------------------------------------------------------------
(* The plans of the services.                                              *)

LEMMA AuthPlan ==
    /\ Len(AuthSteps) = 7
    /\ AuthSteps[1] = Step("connect", "pool") /\ AuthSteps[2] = Step("lock", "1234567890")
    /\ AuthSteps[3] = Step("create", "pgcrypto") /\ AuthSteps[4] = Step("create", "users")
    /\ AuthSteps[5] = Step("create", "audit_logs")
    /\ AuthSteps[6] = Step("create", "oauth_pending")
    /\ AuthSteps[7] = Step("unlock", "1234567890")
BY DEF AuthSteps

LEMMA ActivityPlan ==
    /\ Len(ActivitySteps) = 6
    /\ ActivitySteps[1] = Step("connect", "pool")
    /\ ActivitySteps[2] = Step("lock", "987654321")
    /\ ActivitySteps[3] = Step("create", "pgcrypto")
    /\ ActivitySteps[4] = Step("create", "activity_logs")
    /\ ActivitySteps[5] = Step("unlock", "987654321")
    /\ ActivitySteps[6] = Step("connect", "valkey")
BY DEF ActivitySteps

LEMMA TaskPlan ==
    /\ Len(TaskSteps) = 3
    /\ TaskSteps[1] = Step("missing", "init_db_pool") /\ TaskSteps[2] = Step("create", "tasks")
    /\ TaskSteps[3] = Step("connect", "valkey")
BY DEF TaskSteps

LEMMA AgentPlan ==
    /\ Len(AgentSteps) = 5
    /\ AgentSteps[1] = Step("create", "extensions") /\ AgentSteps[2] = Step("create", "users")
    /\ AgentSteps[3] = Step("create", "approvals")
    /\ AgentSteps[4] = Step("create", "audit_logs")
    /\ AgentSteps[5] = Step("index", "audit_logs")
BY DEF AgentSteps

\* What the proofs need of a step i of a replica r.
PlannedStep(r, i) ==
    LET step == Steps(r)[i]
    IN /\ step.does = "create" => step.to \in Objects
       /\ step.does = "create" /\ Service[r] \in Locking => Guarded(r, i)
       /\ step.does = "lock" =>
             Service[r] \in Locking /\ step.to = LockOf(r) /\ step.to \in Locks
       /\ step.does = "unlock" =>
             Guarded(r, i) /\ ~Guarded(r, i + 1) /\ step.to = LockOf(r) /\ step.to \in Locks
       /\ step.does # "lock" /\ Guarded(r, i + 1) => Guarded(r, i)

LEMMA Planned ==
    ASSUME NEW r \in Replicas
    PROVE  /\ Len(Steps(r)) \in Nat \ {0} /\ DOMAIN Steps(r) = 1 .. Len(Steps(r))
           /\ \A i \in 1 .. Len(Steps(r)) : PlannedStep(r, i)
           /\ Service[r] = "agent" => Len(Steps(r)) = 5 /\ Steps(r)[5].does = "index"
           /\ ~Guarded(r, 1)
  <1>1. Service[r] \in Services
    BY StartupConstants
  <1>2. ~Guarded(r, 1)
    BY DEF Guarded
  <1>3. CASE Service[r] = "auth"
    <2>1. Steps(r) = AuthSteps
      BY <1>3 DEF Steps, Plan
    <2>2. DOMAIN AuthSteps = 1 .. 7
      BY DEF AuthSteps
    <2>3. ASSUME NEW i \in 1 .. 7 PROVE PlannedStep(r, i)
      <3>1. i \in {1, 2, 3, 4, 5, 6, 7}
        OBVIOUS
      <3> QED BY <1>3, <2>1, <3>1, AuthPlan
              DEF PlannedStep, Step, Objects, Locks, LockOf, Locking, Guarded
    <2> QED BY <1>2, <1>3, <2>1, <2>2, <2>3, AuthPlan
  <1>4. CASE Service[r] = "activity"
    <2>1. Steps(r) = ActivitySteps
      BY <1>4 DEF Steps, Plan
    <2>2. DOMAIN ActivitySteps = 1 .. 6
      BY DEF ActivitySteps
    <2>3. ASSUME NEW i \in 1 .. 6 PROVE PlannedStep(r, i)
      <3>1. i \in {1, 2, 3, 4, 5, 6}
        OBVIOUS
      <3> QED BY <1>4, <2>1, <3>1, ActivityPlan
              DEF PlannedStep, Step, Objects, Locks, LockOf, Locking, Guarded
    <2> QED BY <1>2, <1>4, <2>1, <2>2, <2>3, ActivityPlan
  <1>5. CASE Service[r] = "task"
    <2>1. Steps(r) = TaskSteps
      BY <1>5 DEF Steps, Plan
    <2>2. DOMAIN TaskSteps = 1 .. 3
      BY DEF TaskSteps
    <2>3. ASSUME NEW i \in 1 .. 3 PROVE PlannedStep(r, i)
      <3>1. i \in {1, 2, 3}
        OBVIOUS
      <3> QED BY <1>5, <2>1, <3>1, TaskPlan
              DEF PlannedStep, Step, Objects, Locks, LockOf, Locking, Guarded
    <2> QED BY <1>2, <1>5, <2>1, <2>2, <2>3, TaskPlan
  <1>6. CASE Service[r] = "agent"
    <2>1. Steps(r) = AgentSteps
      BY <1>6 DEF Steps, Plan
    <2>2. DOMAIN AgentSteps = 1 .. 5
      BY DEF AgentSteps
    <2>3. ASSUME NEW i \in 1 .. 5 PROVE PlannedStep(r, i)
      <3>1. i \in {1, 2, 3, 4, 5}
        OBVIOUS
      <3> QED BY <1>6, <2>1, <3>1, AgentPlan
              DEF PlannedStep, Step, Objects, Locks, LockOf, Locking, Guarded
    <2> QED BY <1>2, <1>6, <2>1, <2>2, <2>3, AgentPlan DEF Step
  <1> QED BY <1>1, <1>3, <1>4, <1>5, <1>6 DEF Services

\* A replica that is at a step is at one of its plan.
LEMMA NowPlanned ==
    ASSUME Typed, NEW r \in Replicas, ~Serves(r)
    PROVE  /\ at[r] \in 1 .. Len(Steps(r)) /\ at[r] + 1 \in Nat \ {0}
           /\ PlannedStep(r, at[r])
BY Planned DEF Typed, Serves

----------------------------------------------------------------------------
(* The invariant is inductive.                                             *)

LEMMA InitIInv == Init => IInv
  <1> SUFFICES ASSUME Init PROVE IInv
    OBVIOUS
  <1>1. Typed
    BY Planned, StartupConstants DEF Init, Typed
  <1>2. PassedIsThere
    BY Planned DEF Init, PassedIsThere
  <1>3. LockHeld
    BY Planned DEF Init, LockHeld
  <1>4. LookStays
    BY DEF Init, LookStays
  <1> QED BY <1>1, <1>2, <1>3, <1>4 DEF IInv

\* What a step of a replica may do to the catalogue.
MadeStep(r) ==
    \/ UNCHANGED made
    \/ Creating(r) /\ ~Exists(Now(r).to) /\ made' = [made EXCEPT ![Now(r).to] = Service[r]]

\* Two replicas of one service are not both between their lock and their unlock.
LEMMA GuardedOnce ==
    ASSUME LockHeld, NEW r \in Replicas, NEW s \in Replicas,
           Guarded(r, at[r]), Guarded(s, at[s]), Service[r] = Service[s]
    PROVE  r = s
BY DEF LockHeld, LockOf

LEMMA MadeStepKeeps ==
    ASSUME IInv, NEW r \in Replicas, MadeStep(r)
    PROVE  /\ made' \in [Objects -> Services \cup {None}]
           /\ \A o \in Objects : Exists(o) => made'[o] = made[o]
           /\ \A s \in looked \ {r} : Service[s] \in Locking => made'[Now(s).to] # Service[s]
  <1>1. CASE UNCHANGED made
    BY <1>1 DEF IInv, Typed, LookStays
  <1>2. CASE /\ Creating(r) /\ ~Exists(Now(r).to)
             /\ made' = [made EXCEPT ![Now(r).to] = Service[r]]
    <2>1. Typed /\ LockHeld /\ LookStays
      BY DEF IInv
    <2>2. ~Serves(r) /\ Now(r).does = "create" /\ Now(r) = Steps(r)[at[r]]
      BY <1>2 DEF Creating, Doing, Now
    <2>3. Now(r).to \in Objects /\ (Service[r] \in Locking => Guarded(r, at[r]))
      BY <2>1, <2>2, NowPlanned DEF PlannedStep
    <2>4. /\ made' \in [Objects -> Services \cup {None}]
          /\ \A o \in Objects : made'[o] = IF o = Now(r).to THEN Service[r] ELSE made[o]
      BY <1>2, <2>1, <2>3, StartupConstants DEF Typed
    <2>5. ASSUME NEW s \in looked \ {r}, Service[s] \in Locking
          PROVE  made'[Now(s).to] # Service[s]
      <3>1. s \in Replicas /\ ~Serves(s) /\ Now(s).does = "create" /\ Now(s) = Steps(s)[at[s]]
        BY <2>1, <2>5 DEF Typed, LookStays, Doing, Now
      <3>2. Now(s).to \in Objects /\ Guarded(s, at[s])
        BY <2>1, <2>5, <3>1, NowPlanned DEF PlannedStep
      <3>3. made[Now(s).to] # Service[s]
        BY <2>1, <2>5 DEF LookStays
      <3>4. Service[r] # Service[s]
        BY <2>1, <2>3, <2>5, <3>1, <3>2, GuardedOnce
      <3> QED BY <2>4, <3>2, <3>3, <3>4
    <2> QED BY <1>2, <2>4, <2>5 DEF Exists
  <1> QED BY <1>1, <1>2 DEF MadeStep

\* A replica goes past the step it is at.
LEMMA AdvanceIInv ==
    ASSUME IInv, NEW r \in Replicas, ~Serves(r), Advance(r), MadeStep(r),
           Now(r).does = "create" => made'[Now(r).to] # None,
           Now(r).does = "index" => made'["audit_logs"] = "agent",
           holder' \in [Locks -> Replicas \cup {None}],
           Guarded(r, at[r] + 1) => holder'[LockOf(r)] = r,
           \A s \in Replicas \ {r} : Guarded(s, at[s]) => holder'[LockOf(s)] = s,
           faults' \in 0 .. MaxFaults
    PROVE  IInv'
  <1>1. Typed /\ PassedIsThere /\ LockHeld /\ LookStays
    BY DEF IInv
  <1>2. /\ at[r] \in 1 .. Len(Steps(r)) /\ at[r] + 1 \in Nat \ {0} /\ Len(Steps(r)) \in Nat
        /\ PlannedStep(r, at[r])
    BY <1>1, NowPlanned, Planned
  <1>3. /\ at' \in [Replicas -> Nat \ {0}]
        /\ at'[r] = at[r] + 1
        /\ \A s \in Replicas \ {r} : at'[s] = at[s]
    BY <1>1, <1>2 DEF Advance, Typed
  <1>4. /\ made' \in [Objects -> Services \cup {None}]
        /\ \A o \in Objects : Exists(o) => made'[o] = made[o]
        /\ \A s \in looked \ {r} : Service[s] \in Locking => made'[Now(s).to] # Service[s]
    BY MadeStepKeeps
  <1>5. Typed'
    <2>1. tries' \in [Replicas -> 0 .. StartupRetries - 1]
      BY <1>1, StartupConstants DEF Advance, Typed
    <2>2. ASSUME NEW s \in Replicas PROVE at'[s] <= Len(Steps(s)) + 1
      <3>1. CASE s = r
        BY <1>2, <1>3, <3>1
      <3>2. CASE s # r
        BY <1>1, <1>3, <3>2 DEF Typed
      <3> QED BY <3>1, <3>2
    <2>3. looked' \in SUBSET Replicas
      BY <1>1 DEF Advance, Typed
    <2> QED BY <1>3, <1>4, <2>1, <2>2, <2>3 DEF Typed, Steps
  <1>6. ASSUME NEW s \in Replicas, NEW i \in 1 .. Len(Steps(s)), i < at'[s]
        PROVE  /\ Steps(s)[i].does = "create" => made'[Steps(s)[i].to] # None
               /\ Steps(s)[i].does = "index" => made'["audit_logs"] = "agent"
    <2>1. CASE s = r /\ i = at[r]
      BY <2>1 DEF Now
    <2>2. CASE ~(s = r /\ i = at[r])
      <3>1. i < at[s]
        BY <1>2, <1>3, <1>6, <2>2
      <3>2. /\ Steps(s)[i].does = "create" => Exists(Steps(s)[i].to)
            /\ Steps(s)[i].does = "index" => HasSession
        BY <1>1, <3>1 DEF PassedIsThere
      <3>3. Steps(s)[i].does = "create" => Steps(s)[i].to \in Objects
        BY Planned DEF PlannedStep
      <3>4. "audit_logs" \in Objects /\ "agent" # None
        BY StartupConstants DEF Objects, Services
      <3> QED BY <1>4, <3>2, <3>3, <3>4 DEF Exists, HasSession
    <2> QED BY <2>1, <2>2
  <1>7. PassedIsThere'
    BY <1>6 DEF PassedIsThere, Exists, HasSession, Steps
  <1>8. LockHeld'
    BY <1>3 DEF LockHeld, Guarded, LockOf
  <1>9. LookStays'
    <2>1. \A s \in looked' : s \in looked \ {r} /\ at'[s] = at[s]
      BY <1>1, <1>3 DEF Advance, Typed
    <2> QED BY <1>1, <1>4, <2>1 DEF LookStays, Doing, Serves, Now, Steps
  <1> QED BY <1>5, <1>7, <1>8, <1>9 DEF IInv

\* A replica dies, before or after its CREATE, and starts again.
LEMMA DieIInv ==
    ASSUME IInv, NEW r \in Replicas, Die(r), MadeStep(r), faults' \in 0 .. MaxFaults
    PROVE  IInv'
  <1>1. Typed /\ PassedIsThere /\ LockHeld /\ LookStays
    BY DEF IInv
  <1>2. /\ at' \in [Replicas -> Nat \ {0}] /\ at'[r] = 1
        /\ \A s \in Replicas \ {r} : at'[s] = at[s]
    BY <1>1 DEF Die, Typed
  <1>3. /\ made' \in [Objects -> Services \cup {None}]
        /\ \A o \in Objects : Exists(o) => made'[o] = made[o]
        /\ \A s \in looked \ {r} : Service[s] \in Locking => made'[Now(s).to] # Service[s]
    BY MadeStepKeeps
  <1>4. /\ holder' \in [Locks -> Replicas \cup {None}]
        /\ \A l \in Locks : holder'[l] = IF holder[l] = r THEN None ELSE holder[l]
    BY <1>1 DEF Die, Typed
  <1>5. Typed'
    <2>1. tries' \in [Replicas -> 0 .. StartupRetries - 1]
      BY <1>1, StartupConstants DEF Die, Typed
    <2>2. ASSUME NEW s \in Replicas PROVE at'[s] <= Len(Steps(s)) + 1
      <3>1. CASE s = r
        <4>1. Len(Steps(r)) \in Nat \ {0}
          BY Planned
        <4> QED BY <1>2, <3>1, <4>1
      <3>2. CASE s # r
        BY <1>1, <1>2, <3>2 DEF Typed
      <3> QED BY <3>1, <3>2
    <2>3. looked' \in SUBSET Replicas
      BY <1>1 DEF Die, Typed
    <2> QED BY <1>2, <1>3, <1>4, <2>1, <2>2, <2>3 DEF Typed, Steps
  <1>6. ASSUME NEW s \in Replicas, NEW i \in 1 .. Len(Steps(s)), i < at'[s]
        PROVE  /\ Steps(s)[i].does = "create" => made'[Steps(s)[i].to] # None
               /\ Steps(s)[i].does = "index" => made'["audit_logs"] = "agent"
    <2>1. i < at[s]
      BY <1>2, <1>6, Planned
    <2>2. /\ Steps(s)[i].does = "create" => Exists(Steps(s)[i].to)
          /\ Steps(s)[i].does = "index" => HasSession
      BY <1>1, <2>1 DEF PassedIsThere
    <2>3. Steps(s)[i].does = "create" => Steps(s)[i].to \in Objects
      BY Planned DEF PlannedStep
    <2>4. "audit_logs" \in Objects /\ "agent" # None
      BY StartupConstants DEF Objects, Services
    <2> QED BY <1>3, <2>2, <2>3, <2>4 DEF Exists, HasSession
  <1>7. PassedIsThere'
    BY <1>6 DEF PassedIsThere, Exists, HasSession, Steps
  <1>8. LockHeld'
    <2>1. ASSUME NEW s \in Replicas, Guarded(s, at'[s]) PROVE holder'[LockOf(s)] = s
      <3>1. s # r
        BY <1>2, <2>1, Planned
      <3>2. holder[LockOf(s)] = s
        BY <1>1, <1>2, <2>1, <3>1 DEF LockHeld
      <3> QED BY <1>4, <3>1, <3>2 DEF LockOf, Locks
    <2> QED BY <2>1 DEF LockHeld, Guarded, LockOf
  <1>9. LookStays'
    <2>1. \A s \in looked' : s \in looked \ {r} /\ at'[s] = at[s]
      BY <1>1, <1>2 DEF Die, Typed
    <2> QED BY <1>1, <1>3, <2>1 DEF LookStays, Doing, Serves, Now, Steps
  <1> QED BY <1>5, <1>7, <1>8, <1>9 DEF IInv

LEMMA NextIInv == IInv /\ [Next]_vars => IInv'
  <1> SUFFICES ASSUME IInv, [Next]_vars PROVE IInv'
    OBVIOUS
  <1>1. Typed /\ PassedIsThere /\ LockHeld /\ LookStays
    BY DEF IInv
  <1>2. ASSUME NEW r \in Replicas, ~Serves(r)
        PROVE  /\ at[r] \in 1 .. Len(Steps(r)) /\ at[r] + 1 \in Nat
               /\ Now(r) = Steps(r)[at[r]] /\ PlannedStep(r, at[r])
    BY <1>1, <1>2, NowPlanned DEF Now
  <1>3. "audit_logs" \in Objects
    BY DEF Objects
  \* A step that goes past what it is at and leaves the locks alone.
  <1>4. ASSUME NEW r \in Replicas, ~Serves(r), Advance(r), MadeStep(r),
               Now(r).does # "lock",
               Now(r).does = "create" => made'[Now(r).to] # None,
               Now(r).does = "index" => made'["audit_logs"] = "agent",
               UNCHANGED holder, UNCHANGED faults \/ faults' \in 0 .. MaxFaults
        PROVE  IInv'
    <2>1. Guarded(r, at[r] + 1) => Guarded(r, at[r])
      BY <1>2, <1>4 DEF PlannedStep
    <2>2. /\ Guarded(r, at[r] + 1) => holder'[LockOf(r)] = r
          /\ \A s \in Replicas \ {r} : Guarded(s, at[s]) => holder'[LockOf(s)] = s
      BY <1>1, <1>4, <2>1 DEF LockHeld
    <2>3. faults' \in 0 .. MaxFaults /\ holder' \in [Locks -> Replicas \cup {None}]
      BY <1>1, <1>4 DEF Typed
    <2> QED BY <1>4, <2>2, <2>3, AdvanceIInv
  <1>5. ASSUME NEW r \in Replicas, Die(r), MadeStep(r), UNCHANGED faults PROVE IInv'
    BY <1>1, <1>5, DieIInv DEF Typed
  <1>6. Fault => faults' \in 0 .. MaxFaults
    BY <1>1, StartupConstants DEF Typed, Fault
  <1>7. ASSUME NEW r \in Replicas, Connect(r) PROVE IInv'
    BY <1>4, <1>7 DEF Connect, Doing, MadeStep
  <1>8. ASSUME NEW r \in Replicas, ConnectFails(r) PROVE IInv'
    <2>1. ~Serves(r) /\ Now(r).does = "connect" /\ MadeStep(r)
      BY <1>8 DEF ConnectFails, Doing, MadeStep
    <2>2. faults' \in 0 .. MaxFaults
      BY <1>1, <1>6, <1>8 DEF ConnectFails, Typed
    <2>3. CASE /\ tries[r] + 1 < StartupRetries
               /\ tries' = [tries EXCEPT ![r] = @ + 1]
               /\ UNCHANGED <<at, looked, holder>>
      <3>1. tries[r] \in 0 .. StartupRetries - 1
        BY <1>1 DEF Typed
      <3>2. tries[r] + 1 \in 0 .. StartupRetries - 1
        BY <2>3, <3>1, StartupConstants
      <3>3. tries' \in [Replicas -> 0 .. StartupRetries - 1]
        BY <1>1, <2>3, <3>2 DEF Typed
      <3>4. UNCHANGED made
        BY <1>8 DEF ConnectFails
      <3>5. Typed'
        BY <1>1, <2>2, <2>3, <3>3, <3>4 DEF Typed, Steps
      <3>6. (PassedIsThere /\ LockHeld /\ LookStays)'
        BY <1>1, <2>3, <3>4 DEF PassedIsThere, LockHeld, LookStays, Exists, HasSession,
           Doing, Serves, Now, Steps, Guarded, LockOf
      <3> QED BY <3>5, <3>6 DEF IInv
    <2>4. CASE Die(r)
      BY <2>1, <2>2, <2>4, DieIInv
    <2>5. CASE Advance(r) /\ UNCHANGED holder
      BY <1>4, <2>1, <2>2, <2>5
    <2> QED BY <1>8, <2>3, <2>4, <2>5 DEF ConnectFails
  <1>9. ASSUME NEW r \in Replicas, Lock(r) PROVE IInv'
    <2>1. /\ ~Serves(r) /\ Now(r).does = "lock" /\ holder[Now(r).to] = None
          /\ holder' = [holder EXCEPT ![Now(r).to] = r]
          /\ Advance(r) /\ UNCHANGED <<made, faults>>
      BY <1>9 DEF Lock, Doing
    <2>2. Now(r).to = LockOf(r) /\ Now(r).to \in Locks
      BY <1>2, <2>1 DEF PlannedStep
    <2>3. /\ holder' \in [Locks -> Replicas \cup {None}]
          /\ \A l \in Locks : holder'[l] = IF l = LockOf(r) THEN r ELSE holder[l]
      BY <1>1, <2>1, <2>2 DEF Typed
    <2>4. ASSUME NEW s \in Replicas \ {r}, Guarded(s, at[s]) PROVE holder'[LockOf(s)] = s
      <3>1. holder[LockOf(s)] = s /\ s # None /\ LockOf(s) \in Locks
        BY <1>1, <2>4, StartupConstants DEF LockHeld, LockOf, Locks
      <3> QED BY <2>1, <2>2, <2>3, <3>1
    <2>5. MadeStep(r) /\ faults' \in 0 .. MaxFaults /\ holder'[LockOf(r)] = r
      BY <1>1, <2>1, <2>2, <2>3 DEF MadeStep, Typed
    <2> QED BY <2>1, <2>3, <2>4, <2>5, AdvanceIInv
  <1>10. ASSUME NEW r \in Replicas, Look(r) PROVE IInv'
    <2>1. ~Serves(r) /\ Now(r).does = "create" /\ UNCHANGED <<made, holder, faults>>
      BY <1>10 DEF Look, Doing
    <2>2. CASE Exists(Now(r).to) /\ Advance(r)
      BY <1>4, <2>1, <2>2 DEF Exists, MadeStep
    <2>3. CASE ~Exists(Now(r).to) /\ looked' = looked \cup {r} /\ UNCHANGED <<at, tries>>
      <3>1. Typed' /\ PassedIsThere' /\ LockHeld'
        BY <1>1, <2>1, <2>3 DEF Typed, PassedIsThere, LockHeld, Exists, HasSession,
           Steps, Guarded, LockOf
      <3>2. made[Now(r).to] # Service[r] /\ Doing(r, "create")
        BY <2>1, <2>3, StartupConstants DEF Exists, Doing
      <3>3. LookStays'
        BY <1>1, <2>1, <2>3, <3>2 DEF LookStays, Doing, Serves, Now, Steps
      <3> QED BY <3>1, <3>3 DEF IInv
    <2> QED BY <1>10, <2>2, <2>3 DEF Look
  <1>11. ASSUME NEW r \in Replicas, Create(r) PROVE IInv'
    <2>1. /\ ~Serves(r) /\ Now(r).does = "create" /\ MadeStep(r)
          /\ Advance(r) /\ UNCHANGED <<holder, faults>>
          /\ made' = [made EXCEPT ![Now(r).to] = Service[r]]
      BY <1>11 DEF Create, Creating, Doing, MadeStep
    <2>2. Now(r).to \in Objects
      BY <1>2, <2>1 DEF PlannedStep
    <2>3. made'[Now(r).to] # None
      BY <1>1, <2>1, <2>2, StartupConstants DEF Typed
    <2> QED BY <1>4, <2>1, <2>3
  <1>12. ASSUME NEW r \in Replicas, Index(r) PROVE IInv'
    <2>1. ~Serves(r) /\ Now(r).does = "index" /\ UNCHANGED <<made, faults>> /\ MadeStep(r)
      BY <1>12 DEF Index, Doing, MadeStep
    <2>2. CASE HasSession /\ Advance(r) /\ UNCHANGED holder
      BY <1>4, <2>1, <2>2 DEF HasSession
    <2>3. CASE Die(r)
      BY <1>5, <2>1, <2>3
    <2> QED BY <1>12, <2>2, <2>3 DEF Index
  <1>13. ASSUME NEW r \in Replicas, Unlock(r) PROVE IInv'
    <2>1. /\ ~Serves(r) /\ Now(r).does = "unlock" /\ MadeStep(r)
          /\ holder' = [holder EXCEPT ![Now(r).to] = None]
          /\ Advance(r) /\ UNCHANGED <<made, faults>>
      BY <1>13 DEF Unlock, Doing, MadeStep
    <2>2. /\ Now(r).to = LockOf(r) /\ Now(r).to \in Locks
          /\ Guarded(r, at[r]) /\ ~Guarded(r, at[r] + 1)
      BY <1>2, <2>1 DEF PlannedStep
    <2>3. /\ holder' \in [Locks -> Replicas \cup {None}]
          /\ \A l \in Locks : holder'[l] = IF l = LockOf(r) THEN None ELSE holder[l]
      BY <1>1, <2>1, <2>2 DEF Typed
    <2>4. ASSUME NEW s \in Replicas \ {r}, Guarded(s, at[s]) PROVE holder'[LockOf(s)] = s
      <3>1. /\ holder[LockOf(s)] = s /\ LockOf(s) \in Locks
            /\ holder[LockOf(r)] = r
        BY <1>1, <2>2, <2>4 DEF LockHeld, LockOf, Locks
      <3> QED BY <2>3, <3>1
    <2> QED BY <1>1, <2>1, <2>2, <2>3, <2>4, AdvanceIInv DEF Typed
  <1>14. ASSUME NEW r \in Replicas, Crash(r) PROVE IInv'
    BY <1>6, <1>14, DieIInv DEF Crash, MadeStep
  <1>15. CASE UNCHANGED vars
    BY <1>1, <1>15 DEF vars, IInv, Typed, PassedIsThere, LockHeld, LookStays, Exists,
       HasSession, Doing, Serves, Now, Steps, Guarded, LockOf
  <1>16. ASSUME NEW r \in Replicas,
                LockTimesOut(r) \/ CreateCollides(r) \/ CallMissing(r)
         PROVE  IInv'
    BY <1>5, <1>16 DEF LockTimesOut, CreateCollides, CallMissing, MadeStep
  <1> QED BY <1>7, <1>8, <1>9, <1>10, <1>11, <1>12, <1>13, <1>14, <1>15, <1>16
          DEF Next, Proceed

\* The inductive invariant holds in every reachable state.
THEOREM Invariance == Spec => []IInv
  <1> QED BY InitIInv, NextIInv, PTL DEF Spec

----------------------------------------------------------------------------

\* Every variable keeps its type, and a replica stays within its plan, for any replicas of
\* any services (the lifespans and pg_tables).
THEOREM TypeCorrect == Spec => []TypeOK
  <1>1. ASSUME IInv PROVE TypeOK
    <2>1. Typed
      BY <1>1 DEF IInv
    <2>2. ASSUME NEW r \in Replicas PROVE at[r] \in 1 .. Len(Steps(r)) + 1
      <3>1. /\ Len(Steps(r)) \in Nat
            /\ at[r] \in Nat \ {0} /\ at[r] <= Len(Steps(r)) + 1
        BY <2>1, Planned DEF Typed
      <3> QED BY <3>1
    <2> QED BY <2>1, <2>2 DEF TypeOK, Typed
  <1> QED BY <1>1, Invariance, PTL

\* However many replicas of the auth or of the activity service start, die and start
\* again, none of them finds its object created by another of its service (init_db_schema
\* of the auth service and of the activity service: pg_advisory_lock).
THEOREM SameServiceSafe == Spec => []SameServiceNeverCollides
  <1>1. ASSUME IInv PROVE SameServiceNeverCollides
    BY <1>1 DEF IInv, LookStays, SameServiceNeverCollides, Collides, Creating, Locking
  <1> QED BY <1>1, Invariance, PTL

\* A replica that serves went past each step of its plan, so its objects exist, and the
\* audit_logs an agent serves with is the agent's own (pg_tables).
THEOREM ServingSchema == Spec => []ServingHasSchema
  <1>1. ASSUME IInv PROVE ServingHasSchema
    <2>1. Typed /\ PassedIsThere
      BY <1>1 DEF IInv
    <2>2. ASSUME NEW r \in Replicas, Serves(r)
          PROVE  /\ \A i \in DOMAIN Steps(r) :
                       Steps(r)[i].does = "create" => Exists(Steps(r)[i].to)
                 /\ Service[r] = "agent" => HasSession
      <3>1. /\ Len(Steps(r)) \in Nat \ {0} /\ DOMAIN Steps(r) = 1 .. Len(Steps(r))
            /\ Service[r] = "agent" => Len(Steps(r)) = 5 /\ Steps(r)[5].does = "index"
            /\ at[r] \in Nat
        BY <2>1, Planned DEF Typed
      <3>2. \A i \in 1 .. Len(Steps(r)) : i < at[r]
        BY <2>2, <3>1 DEF Serves
      <3> QED BY <2>1, <3>1, <3>2 DEF PassedIsThere
    <2> QED BY <2>2 DEF ServingHasSchema
  <1> QED BY <1>1, Invariance, PTL

\* Two replicas of one service are never both between lock and unlock, so their migrations
\* run one after the other as wholes, however sessions end in between ("serialise schema
\* creation", init_db_schema).
THEOREM MigrationsExclude ==
    Spec => [](\A r, q \in Replicas :
                  Guarded(r, at[r]) /\ Guarded(q, at[q]) /\ Service[r] = Service[q] => r = q)
  <1>1. IInv => \A r, q \in Replicas :
                   Guarded(r, at[r]) /\ Guarded(q, at[q]) /\ Service[r] = Service[q] => r = q
    BY GuardedOnce DEF IInv
  <1> QED BY <1>1, Invariance, PTL

\* The plan of service s creates object o.
Plans(s, o) == \E i \in DOMAIN Plan[s] : Plan[s][i].does = "create" /\ Plan[s][i].to = o

\* An object was created by a service that plans it.
MadeByPlan == \A o \in Objects : Exists(o) => made[o] \in Services /\ Plans(made[o], o)

\* What a replica creates, its service plans.
LEMMA CreatePlanned ==
    ASSUME IInv, NEW r \in Replicas, Creating(r)
    PROVE  Service[r] \in Services /\ Plans(Service[r], Now(r).to) /\ Now(r).to \in Objects
  <1>1. /\ Typed
        /\ Service[r] \in Services
    BY StartupConstants DEF IInv
  <1>2. at[r] \in 1 .. Len(Steps(r)) /\ DOMAIN Steps(r) = 1 .. Len(Steps(r))
    BY <1>1, Planned DEF Typed, Creating, Doing, Serves
  <1>3. Now(r).does = "create" /\ Now(r).to \in Objects
    BY <1>2, Planned DEF Creating, Doing, Now, PlannedStep
  <1> QED BY <1>1, <1>2, <1>3 DEF Plans, Now, Steps

LEMMA MadeByPlanStep ==
    ASSUME IInv, MadeByPlan, [Next]_vars
    PROVE  MadeByPlan'
  <1>1. made \in [Objects -> Services \cup {None}] /\ None \notin Services
    BY StartupConstants DEF IInv, Typed
  <1>2. \/ UNCHANGED made
        \/ \E r \in Replicas :
              Creating(r) /\ made' = [made EXCEPT ![Now(r).to] = Service[r]]
    BY DEF Next, Proceed, Connect, Lock, LockTimesOut, Look, Create, CreateCollides, Index,
       Unlock, CallMissing, ConnectFails, Crash, vars
  <1>3. CASE UNCHANGED made
    BY <1>3 DEF MadeByPlan, Exists
  <1>4. ASSUME NEW r \in Replicas, Creating(r),
               made' = [made EXCEPT ![Now(r).to] = Service[r]]
        PROVE  MadeByPlan'
    <2> SUFFICES ASSUME NEW o \in Objects, made'[o] # None
                 PROVE  made'[o] \in Services /\ Plans(made'[o], o)
      BY DEF MadeByPlan, Exists, Plans
    <2>1. CASE o = Now(r).to
      BY <1>1, <1>4, <2>1, CreatePlanned
    <2>2. CASE o # Now(r).to
      BY <1>1, <1>4, <2>2 DEF MadeByPlan, Exists
    <2> QED BY <2>1, <2>2
  <1> QED BY <1>2, <1>3, <1>4

\* MigrationsNeverCollide fails, but only across services: where the start-up of an auth or
\* activity replica collides, another service, with another lock or none, plans to create
\* the same object (init_db_schema).
THEOREM CollisionsAreShared ==
    Spec => [](\A r \in Replicas :
                  Collides(r) /\ Service[r] \in Locking =>
                      \E s \in Services \ {Service[r]} : Plans(s, Now(r).to))
  <1>1. Init => MadeByPlan
    BY DEF Init, MadeByPlan, Exists
  <1>2. IInv /\ MadeByPlan /\ [Next]_vars => MadeByPlan'
    BY MadeByPlanStep
  <1>3. ASSUME IInv, MadeByPlan, NEW r \in Replicas, Collides(r), Service[r] \in Locking
        PROVE  \E s \in Services \ {Service[r]} : Plans(s, Now(r).to)
    <2>1. Creating(r) /\ Exists(Now(r).to)
      BY <1>3 DEF Collides
    <2>2. made[Now(r).to] # Service[r]
      BY <1>3, <2>1 DEF IInv, LookStays, Creating
    <2>3. made[Now(r).to] \in Services /\ Plans(made[Now(r).to], Now(r).to)
      BY <1>3, <2>1, CreatePlanned DEF MadeByPlan
    <2> QED BY <2>2, <2>3
  <1>4. IInv /\ MadeByPlan =>
          \A r \in Replicas :
              Collides(r) /\ Service[r] \in Locking =>
                  \E s \in Services \ {Service[r]} : Plans(s, Now(r).to)
    BY <1>3
  <1> QED BY <1>1, <1>2, <1>4, Invariance, PTL DEF Spec
=============================================================================
