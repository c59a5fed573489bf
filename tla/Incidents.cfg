SPECIFICATION IncidentSpec
CONSTANTS
    e1 = e1
    e2 = e2
    a1 = a1
    s1 = s1
    MaxIncidents = 2
    MaxReports = 3
    Episodes = {e1, e2}
    NoEpisode = NoEpisode
    Clocked = {e1}
    Attempts = {a1}
    Sessions = {s1}
    SessionOf <- NativeSessions
    NoAttempt = NoAttempt
    NoSession = NoSession
    Verifiers = {v1}
    MaxActs = 1
INVARIANTS IncidentTypeOK CountedOnce OneActiveIncident ResolvedOnLatestEvidence OneContinuation
PROPERTIES NoOrderIsLost
CHECK_DEADLOCK FALSE
