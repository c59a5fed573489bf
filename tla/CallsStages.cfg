SPECIFICATION FairSpec
INVARIANT TypeOK
PROPERTY NoCallOnceClosed
PROPERTY QueuedCallIsDecided
CONSTANTS
    k1 = k1
    k2 = k2
    k3 = k3
    m1 = m1
    i1 = i1
    q = q
    w1 = w1
    w2 = w2
    NoCall = NoCall
    Calls = {k1, k2}
    Incidents = {i1}
    Kind <- ChainKind
    IncidentOf <- AllOfOne
    Problems = {q}
    Workers = {w1, w2}
    Chain = {k1, k2}
    Successor <- ShortOrder
    ProblemOf <- OneProblem
    MatrixOnly = {}
    Escalation <- ShortRoots
    Neighbours <- None
    FollowUps <- None
    Ceiling <- NoCeiling
    Interval = 2
    Lease = 1
    RetryDelay = 1
    ContextDelay = 1
    EscalationDelay = 0
    StepDelay = 0
    SnoozeFor = 1
    Managed = {i1}
    MaxAttempt = 2
    MaxCrashes = 1
    MaxSwitches = 0
