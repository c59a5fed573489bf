SPECIFICATION OperationsSpec
SYMMETRY SameProcesses
CHECK_DEADLOCK FALSE
CONSTANTS
    b1 = b1
    b2 = b2
    observe = observe
    repair = repair
    other = other
    p1 = p1
    p2 = p2
    c1 = c1
    c2 = c2
    NoPlan = NoPlan
    Plans = {observe, repair, other}
    Bundles = {b1, b2}
    PlansOf <- MCPlansOf
    AutoPlans = {observe, repair}
    Processes = {p1, p2}
    MaxAttached = 3
    MaxVerifications = 2
    MaxClosing = 2
    MaxTries = 2
    MaxDeaths = 1
    Pollers = {p1, p2}
    Choices = {c1, c2}
    NoChoice = NoChoice
    Scripts <- MCScripts
    MaxJobs = 2
    MaxPollerDeaths = 1
    MaxSubmissions = 2
    MaxTurns = 2
INVARIANTS
    OperationsTypeOK OneRemediation OneCardShowsThePlans
    ClosedIsProven DecidedWhenDiagnosed TelegramIsExact AgentJobsAreExact
