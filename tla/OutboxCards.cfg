SPECIFICATION Spec
INVARIANT TypeOK
INVARIANT OneCardPerFamily
INVARIANT OneTelegramSendPerFamily
SYMMETRY Interchangeable
CONSTANTS
    c1 = c1
    c2 = c2
    n1 = n1
    m1 = m1
    m2 = m2
    a1 = a1
    i1 = i1
    i2 = i2
    w1 = w1
    w2 = w2
    p1 = p1
    p2 = p2
    NoDelivery = NoDelivery
    Deliveries = {c1, c2, n1, m1}
    Incidents = {i1}
    Kind <- CardKind
    IncidentOf <- AllOfOne
    Processes = {p1}
    Workers = {w1, w2}
    Home <- OneProcess
    Owner <- OwnCard
    Initial = {c1, m1}
    Ceiling <- NoCeiling
    Neighbours <- None
    FollowUps <- None
    Repeats <- CardRepeats
    LaunchCard <- None
    Interruption <- None
    Restored <- NoMutes
    MuteScope <- NoMutes
    Cleanup = {i1}
    Managed = {i1}
    Lease = 1
    RetryDelay = 1
    BusyDelay = 1
    EditPause = 1
    StepDelay = 1
    StaleAfter = 2
    SnoozeFor = 1
    MaxAttempt = 2
    MaxCrashes = 0
    MaxFaults = 0
