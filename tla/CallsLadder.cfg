SPECIFICATION Spec
PROPERTY OneEpisodePerInterval
PROPERTY NoCallOnceDisabled
SYMMETRY Interchangeable
CONSTANTS
    k1 = k1
    k2 = k2
    k3 = k3
    m1 = m1
    i1 = i1
    q = q
    w1 = w1
    w2 = w2
    NoCall = NoCall
    Calls = {m1, k3}
    Incidents = {i1}
    Kind <- LadderKind
    IncidentOf <- AllOfOne
    Problems = {q}
    Workers = {w1, w2}
    Chain = {}
    Successor <- None
    ProblemOf <- OneProblem
    MatrixOnly = {}
    Escalation <- MatrixRoots
    Neighbours <- LadderNeighbours
    FollowUps <- None
    Ceiling <- LadderCeiling
    Interval = 2
    Lease = 1
    RetryDelay = 1
    ContextDelay = 1
    EscalationDelay = 0
    StepDelay = 0
    SnoozeFor = 1
    Managed = {i1}
    MaxAttempt = 2
    MaxCrashes = 1
    MaxSwitches = 1
