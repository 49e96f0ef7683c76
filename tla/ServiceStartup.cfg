\* Two activity replicas, an auth and a task replica, the agent's tables; one outage or crash.
SPECIFICATION FairSpec
CONSTANTS
    auth1 = auth1
    activity1 = activity1
    activity2 = activity2
    task1 = task1
    agent1 = agent1
    Replicas = {auth1, activity1, activity2, task1, agent1}
    Service <- AllServices
    StartupRetries = 2
    MaxFaults = 1
    None = None
INVARIANTS
    TypeOK
    SameServiceNeverCollides
    ServingHasSchema
PROPERTY ReplicasServe
