\* One auth and one activity replica, no fault.
SPECIFICATION Spec
CONSTANTS
    auth1 = auth1
    activity1 = activity1
    activity2 = activity2
    task1 = task1
    agent1 = agent1
    Replicas = {auth1, activity1}
    Service <- TwoServices
    StartupRetries = 3
    MaxFaults = 0
    None = None
INVARIANT MigrationsNeverCollide
CHECK_DEADLOCK FALSE
