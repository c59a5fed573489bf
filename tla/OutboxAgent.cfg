SPECIFICATION Spec
INVARIANT SilentWhenClosed
SYMMETRY Interchangeable
CONSTANTS
    c1 = c1
    c2 = c2
    n1 = n1
    m1 = m1
    m2 = m2
    a1 = a1
    i1 = i1
    i2 = i2
    w1 = w1
    w2 = w2
    p1 = p1
    p2 = p2
    NoDelivery = NoDelivery
    Deliveries = {a1, c1, n1}
    Incidents = {i1, i2}
    Kind <- AgentKind
    IncidentOf <- AgentIncident
    Processes = {p1}
    Workers = {w1, w2}
    Home <- OneProcess
    Owner <- OwnCard
    Initial = {a1}
    Ceiling <- NoCeiling
    Neighbours <- None
    FollowUps <- None
    Repeats <- None
    LaunchCard <- AgentLaunchCard
    Interruption <- AgentInterruption
    Restored <- RaisedCard
    MuteScope <- BothMuted
    Cleanup = {}
    Managed = {i1, i2}
    Lease = 1
    RetryDelay = 1
    BusyDelay = 1
    EditPause = 1
    StepDelay = 1
    StaleAfter = 2
    SnoozeFor = 1
    MaxAttempt = 1
    MaxCrashes = 1
    MaxFaults = 1
