SPECIFICATION FairSpec
PROPERTY FinishedIsFinal
PROPERTY ClaimIsNotStranded
PROPERTY QueuedMessageIsDecided
CONSTANTS
    c1 = c1
    c2 = c2
    n1 = n1
    m1 = m1
    m2 = m2
    a1 = a1
    i1 = i1
    i2 = i2
    w1 = w1
    w2 = w2
    p1 = p1
    p2 = p2
    NoDelivery = NoDelivery
    Deliveries = {m1, n1}
    Incidents = {i1}
    Kind <- PairKind
    IncidentOf <- AllOfOne
    Processes = {p1}
    Workers = {w1, w2}
    Home <- OneProcess
    Owner <- OwnCard
    Initial = {m1, n1}
    Ceiling <- PairCeiling
    Neighbours <- None
    FollowUps <- None
    Repeats <- None
    LaunchCard <- None
    Interruption <- None
    Restored <- NoMutes
    MuteScope <- OwnMute
    Cleanup = {}
    Managed = {i1}
    Lease = 1
    RetryDelay = 1
    BusyDelay = 1
    EditPause = 1
    StepDelay = 1
    StaleAfter = 2
    SnoozeFor = 1
    MaxAttempt = 2
    MaxCrashes = 1
    MaxFaults = 0
