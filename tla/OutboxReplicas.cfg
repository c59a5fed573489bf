SPECIFICATION Spec
INVARIANT OneCardPerFamily
CHECK_DEADLOCK FALSE
CONSTANTS
    c1 = c1
    c2 = c2
    n1 = n1
    m1 = m1
    m2 = m2
    a1 = a1
    i1 = i1
    i2 = i2
    w1 = w1
    w2 = w2
    p1 = p1
    p2 = p2
    NoDelivery = NoDelivery
    Deliveries = {c1, c2, n1}
    Incidents = {i1, i2}
    Kind <- ReplicaKind
    IncidentOf <- ReplicaIncident
    Processes = {p1, p2}
    Workers = {w1, w2}
    Home <- TwoProcesses
    Owner <- SharedCard
    Initial = {c1, c2}
    Ceiling <- NoCeiling
    Neighbours <- None
    FollowUps <- None
    Repeats <- None
    LaunchCard <- None
    Interruption <- None
    Restored <- NoMutes
    MuteScope <- NoMutes
    Cleanup = {}
    Managed = {}
    Lease = 1
    RetryDelay = 1
    BusyDelay = 1
    EditPause = 4
    StepDelay = 1
    StaleAfter = 2
    SnoozeFor = 1
    MaxAttempt = 2
    MaxCrashes = 0
    MaxFaults = 0
