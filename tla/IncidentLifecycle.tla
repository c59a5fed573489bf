-------------------------- MODULE IncidentLifecycle --------------------------
(***************************************************************************)
(* How an incident is opened, repeated, worked on and closed by its source *)
(* (incident_lifecycle.py and the intake of core.py).                      *)
(*                                                                         *)
(* A source reports that one of its episodes is degraded or has recovered. *)
(* Reports are lost, repeated with their idempotency key, and overtake     *)
(* each other.  An executor declares an attempt finished; from then on the *)
(* incident is closed by a check of its source alone.  All incidents here  *)
(* have one dedup key and belong to one group (project, consumer, host,    *)
(* problem), so that they share the attempts of an executor.               *)
(*                                                                         *)
(* A transaction of the store is one step.                                 *)
(***************************************************************************)
EXTENDS Naturals, FiniteSets, Sequences

CONSTANTS
    MaxIncidents,  \* bound: incidents 1..MaxIncidents
    MaxReports,    \* bound: reports 1..MaxReports, numbered as they are measured
    Episodes,      \* correlation ids of health episodes
    NoEpisode,
    Clocked,       \* episodes whose source sends observed_at
    Attempts,      \* attempts of the executor, each in a native session
    Sessions,
    SessionOf,
    NoAttempt,
    NoSession,
    Verifiers,     \* threads of the source's verifier
    MaxActs        \* bound: what operators do

ASSUME LifecycleAssumption ==
    /\ {MaxIncidents, MaxReports, MaxActs} \subseteq Nat
    /\ Clocked \subseteq Episodes /\ NoEpisode \notin Episodes
    /\ SessionOf \in [Attempts -> Sessions]
    /\ NoAttempt \notin Attempts /\ NoSession \notin Sessions

VARIABLES
    report,        \* what the source measured: the k-th report
    taken,         \* events, resolution_events: the incident of a report
    incident,      \* incidents: state, correlation_id, occurrences
    origin,        \* incident_lifecycle: generation, latest_observed_at, session
    check,         \* incident_lifecycle: verification_state and attempt_id
    finished,      \* incident_verification_requests
    continuation,  \* incident_group_completions
    ticket,        \* deliveries 'source-check', one per attempt
    verifier,      \* the order each verifier works on
    acts,
    ground,        \* history: when the evidence was measured that closed an incident
    reopened       \* history: incidents snoozed after they were resolved

incidentVars == <<report, taken, incident, origin, check, finished, continuation,
                  ticket, verifier, acts, ground, reopened>>
-----------------------------------------------------------------------------
Slots == 1..MaxIncidents
Nobody == 0
Untaken == MaxIncidents + 1
NoGround == 0
Checks == {"none", "due", "unknown", "degraded", "healthy"}
Tickets == {"none", "queued", "claimed", "cancelled"}
NoOrder == [pc |-> "idle", about |-> Nobody, current |-> FALSE, at |-> 0, found |-> "unknown"]
Absent == [state |-> "absent", episode |-> NoEpisode, occurrences |-> 0]

\* Types.
Report == [kind: {"degraded", "recovered"}, episode: Episodes]
Incident == [state: {"absent", "open", "acknowledged", "snoozed", "resolved"},
             episode: Episodes \cup {NoEpisode}, occurrences: Nat]
Origin == [generation: Nat, latest: 0..MaxReports, bound: Sessions \cup {NoSession},
           session: Sessions \cup {NoSession}]
Check == [state: Checks, attempt: Attempts \cup {NoAttempt}]
Order == [pc: {"idle", "ordered", "measured"}, about: Slots \cup {Nobody}, current: BOOLEAN,
          at: 0..MaxReports, found: {"unknown", "degraded", "healthy"}]

\* One type invariant: the rows of the store, the reports and the orders.
IncidentTypeOK ==
    /\ report \in Seq(Report) /\ Len(report) <= MaxReports
    /\ taken \in [1..MaxReports -> Slots \cup {Nobody, Untaken}]
    /\ incident \in [Slots -> Incident]
    /\ origin \in [Slots -> Origin]
    /\ check \in [Slots -> Check]
    /\ \A i \in Slots : check[i].state = "none" <=> check[i].attempt = NoAttempt
    /\ finished \subseteq Slots \X Attempts
    /\ continuation \in [Attempts -> Slots \cup {Nobody}]
    /\ ticket \in [Slots \X Attempts -> Tickets]
    /\ verifier \in [Verifiers -> Order]
    /\ \A v \in Verifiers : verifier[v].pc # "idle" => verifier[v].about \in Slots
    /\ acts \in 0..MaxActs
    /\ ground \in [Slots -> 0..MaxReports]
    /\ reopened \subseteq Slots

IncidentInit ==
    /\ report = <<>>
    /\ taken = [k \in 1..MaxReports |-> Untaken]
    /\ incident = [i \in Slots |-> Absent]
    /\ origin = [i \in Slots |-> [generation |-> 0, latest |-> 0,
                                  bound |-> NoSession, session |-> NoSession]]
    /\ check = [i \in Slots |-> [state |-> "none", attempt |-> NoAttempt]]
    /\ finished = {}
    /\ continuation = [a \in Attempts |-> Nobody]
    /\ ticket = [p \in Slots \X Attempts |-> "none"]
    /\ verifier = [v \in Verifiers |-> NoOrder]
    /\ acts = 0
    /\ ground = [i \in Slots |-> NoGround]
    /\ reopened = {}
-----------------------------------------------------------------------------
(***************************************************************************)
(* The source                                                              *)
(***************************************************************************)
\* The source measures one of its episodes and stamps a new idempotency key.
Measure(kind, e) ==
    /\ Len(report) < MaxReports
    /\ report' = Append(report, [kind |-> kind, episode |-> e])
    /\ UNCHANGED <<taken, incident, origin, check, finished, continuation, ticket,
                   verifier, acts, ground, reopened>>

Active(i) == incident[i].state \notin {"absent", "resolved"}
ActiveUnlessAcknowledged(i) == incident[i].state \in {"open", "snoozed"}

\* The active incidents an event belongs to: those of its own episode.
ExistingDeliverable(e) == {i \in Slots : ActiveUnlessAcknowledged(i) /\ incident[i].episode = e}
Existing(e) == {i \in Slots : Active(i) /\ incident[i].episode = e}
NextSlot == {i \in Slots : incident[i].state = "absent"
                /\ \A j \in Slots : incident[j].state = "absent" => i <= j}

\* The idempotency key was not used before.
FreshAlways(k) == k \in 1..Len(report)
Fresh(k) == k \in 1..Len(report) /\ taken[k] = Untaken

\* The orders of an incident no longer name its request and generation.
Keep(i) == verifier
Rotate(i) ==
    [v \in Verifiers |->
        IF verifier[v].about = i THEN [verifier[v] EXCEPT !.current = FALSE] ELSE verifier[v]]

\* observe_degraded: a new generation; after an attempt a new check is due.
LatestReceived(i, k) == IF incident[i].episode \in Clocked THEN k ELSE 0
Latest(i, k) ==
    IF report[k].episode \in Clocked /\ k > origin[i].latest THEN k ELSE origin[i].latest
Renewed(i) == IF check[i].attempt = NoAttempt THEN Keep(i) ELSE Rotate(i)
DueAgainAlways(i) == [check EXCEPT ![i].state = "due"]
DueAgain(i) == IF check[i].attempt = NoAttempt THEN check ELSE DueAgainAlways(i)
ObserveDegraded(i, k) ==
    /\ origin' = [origin EXCEPT ![i].generation = @ + 1, ![i].latest = Latest(i, k)]
    /\ check' = DueAgain(i)
    /\ verifier' = Renewed(i)

\* create_event
CreateEvent(k) ==
    /\ Fresh(k) /\ report[k].kind = "degraded"
    /\ LET e == report[k].episode
       IN  \E i \in IF Existing(e) # {} THEN Existing(e) ELSE NextSlot :
              /\ taken' = [taken EXCEPT ![k] = i]
              /\ incident' = [incident EXCEPT ![i] =
                    IF Active(i) THEN [incident[i] EXCEPT !.occurrences = @ + 1]
                    ELSE [state |-> "open", episode |-> e, occurrences |-> 1]]
              /\ ObserveDegraded(i, k)
    /\ UNCHANGED <<report, finished, continuation, ticket, acts, ground, reopened>>

\* _transition to 'resolved' cancels the tickets that nobody claimed; whatever becomes
\* of a claimed one, it was claimed.
Withdrawn(i) ==
    [p \in Slots \X Attempts |->
        IF p[1] = i /\ ticket[p] = "queued" THEN "cancelled" ELSE ticket[p]]
Close(i, at) ==
    /\ incident' = [incident EXCEPT ![i].state = "resolved"]
    /\ ticket' = Withdrawn(i)
    /\ ground' = [ground EXCEPT ![i] = at]

\* _source_health_recovery_matches: no attempt was finished, and the recovery was
\* measured after everything that is known; without a clock, one report alone.
RecoveryMatches(i, k) ==
    /\ check[i].state = "none"
    /\ IF incident[i].episode \in Clocked THEN k > origin[i].latest
       ELSE origin[i].generation = 1

\* resolve_event of an episode: refused while another one of the same key is
\* active, recorded for nobody when there is none.
ResolveEvent(k) ==
    LET e == report[k].episode
    IN  /\ Fresh(k) /\ report[k].kind = "recovered"
        /\ \/ /\ \A i \in Slots : ~Active(i)
              /\ taken' = [taken EXCEPT ![k] = Nobody]
              /\ UNCHANGED <<incident, ticket, ground>>
           \/ \E i \in Existing(e) :
                 /\ RecoveryMatches(i, k)
                 /\ taken' = [taken EXCEPT ![k] = i]
                 /\ Close(i, IF e \in Clocked THEN k ELSE NoGround)
        /\ UNCHANGED <<report, origin, check, finished, continuation, verifier, acts, reopened>>
-----------------------------------------------------------------------------
(***************************************************************************)
(* The operator                                                            *)
(***************************************************************************)
Act == acts < MaxActs /\ acts' = acts + 1
AcknowledgeIncident(i) ==
    /\ Act
    /\ incident[i].state \in {"open", "snoozed"}
    /\ incident' = [incident EXCEPT ![i].state = "acknowledged"]
    /\ UNCHANGED <<report, taken, origin, check, finished, continuation, ticket,
                   verifier, ground, reopened>>

\* resolve; the gate of a health incident is the one of HealthWorkflow.
ResolveIncident(i) ==
    /\ Act
    /\ Active(i)
    /\ Close(i, NoGround)
    /\ UNCHANGED <<report, taken, origin, check, finished, continuation,
                   verifier, reopened>>

\* The snooze of the HTTP API takes an incident in any state.
SnoozeIncident(i) ==
    /\ Act
    /\ incident[i].state \notin {"absent", "snoozed"}
    /\ incident' = [incident EXCEPT ![i].state = "snoozed"]
    /\ reopened' = IF incident[i].state = "resolved" THEN reopened \cup {i} ELSE reopened
    /\ UNCHANGED <<report, taken, origin, check, finished, continuation, ticket,
                   verifier, ground>>
-----------------------------------------------------------------------------
(***************************************************************************)
(* The executor                                                            *)
(***************************************************************************)
\* record_health_agent_session: the latest session of the incident.
BindSession(i, s) ==
    /\ incident[i].state # "absent" /\ origin[i].bound # s
    /\ origin' = [origin EXCEPT ![i].bound = s]
    /\ UNCHANGED <<report, taken, incident, check, finished, continuation, ticket,
                   verifier, acts, ground, reopened>>

\* The incidents the completion of an attempt counts for: the one it is sent for,
\* and the active ones of the group that the same session works on.
Preserved(i, a) == origin[i].session \in {NoSession, SessionOf[a]}
Completes(i, a) ==
    /\ Active(i) /\ Preserved(i, a)
    /\ origin[i].bound \in {NoSession, SessionOf[a]}
Peers(i, a) ==
    {j \in Slots \ {i} : /\ Active(j) /\ origin[j].bound = SessionOf[a] /\ Preserved(j, a)}
\* A repeated completion never rotates an order.
DeclaredAgain(i, a) == {i} \cup Peers(i, a)
Declared(i, a) == {j \in {i} \cup Peers(i, a) : <<j, a>> \notin finished}

\* finish; an attempt that was finished for this incident gets its old receipt.
Finish(i, a) ==
    /\ Completes(i, a) /\ <<i, a>> \notin finished
    /\ LET those == Declared(i, a)
       IN  /\ finished' = finished \cup (those \X {a})
           /\ check' = [j \in Slots |-> IF j \in those
                          THEN [state |-> "due", attempt |-> a] ELSE check[j]]
           /\ origin' = [j \in Slots |-> IF j \in those
                          THEN [origin[j] EXCEPT !.session = SessionOf[a]] ELSE origin[j]]
           /\ verifier' = [v \in Verifiers |-> IF verifier[v].about \in those
                          THEN [verifier[v] EXCEPT !.current = FALSE] ELSE verifier[v]]
    /\ UNCHANGED <<report, taken, incident, continuation, ticket, acts, ground, reopened>>

\* The outbox claims the ticket that continues the session; DeliveryOutbox has the rest.
ClaimTicket(i, a) ==
    /\ ticket[<<i, a>>] = "queued" /\ Active(i)
    /\ ticket' = [ticket EXCEPT ![<<i, a>>] = "claimed"]
    /\ UNCHANGED <<report, taken, incident, origin, check, finished, continuation,
                   verifier, acts, ground, reopened>>
-----------------------------------------------------------------------------
(***************************************************************************)
(* The verifier of the source                                              *)
(***************************************************************************)
Unanswered == {"due", "unknown", "degraded"}
Due(i) == Active(i) /\ check[i].state \in Unanswered

\* due_checks: an order names the current request and generation.  A verifier whose
\* answer was lost polls again.
TakeOrder(v, i) ==
    /\ verifier[v].pc # "ordered"
    /\ Due(i)
    /\ verifier' = [verifier EXCEPT ![v] =
          [NoOrder EXCEPT !.pc = "ordered", !.about = i, !.current = TRUE]]
    /\ UNCHANGED <<report, taken, incident, origin, check, finished, continuation,
                   ticket, acts, ground, reopened>>

MeasureSource(v, found) ==
    /\ verifier[v].pc = "ordered"
    /\ verifier' = [verifier EXCEPT ![v].pc = "measured", ![v].found = found,
                                    ![v].at = Len(report)]
    /\ UNCHANGED <<report, taken, incident, origin, check, finished, continuation,
                   ticket, acts, ground, reopened>>

\* Only a ticket that was cancelled before its first claim frees the completion.
FreeWhenResolved(i, a) == continuation[a] = Nobody \/ incident[continuation[a]].state = "resolved"
Free(i, a) ==
    LET j == continuation[a]
    IN  \/ j = Nobody
        \/ j # i /\ incident[j].state = "resolved" /\ ticket[<<j, a>>] = "cancelled"

\* check: what the degraded source needs is at most one continuation for all the
\* incidents that share the completion.
Continue(i, a) ==
    IF Free(i, a)
    THEN /\ continuation' = [continuation EXCEPT ![a] = i]
         /\ ticket' = [ticket EXCEPT ![<<i, a>>] = IF @ = "none" THEN "queued" ELSE @]
    ELSE UNCHANGED <<continuation, ticket>>

Accepts(v) == verifier[v].current /\ check[verifier[v].about].state \in Unanswered

\* check; a stale order is refused, and a repeated one gets its receipt.  The state
\* of the incident is not asked for.
AnswerCheck(v) ==
    LET i == verifier[v].about
        found == verifier[v].found
    IN  /\ verifier[v].pc = "measured"
        /\ \/ /\ ~Accepts(v)
              /\ verifier' = [verifier EXCEPT ![v] = NoOrder]
              /\ UNCHANGED <<incident, check, continuation, ticket, ground>>
           \/ /\ Accepts(v) /\ found = "healthy"
              /\ Close(i, verifier[v].at)
              /\ check' = [check EXCEPT ![i].state = found]
              /\ verifier' = [verifier EXCEPT ![v] = NoOrder]
              /\ UNCHANGED continuation
           \/ /\ Accepts(v) /\ found = "degraded"
              /\ Continue(i, check[i].attempt)
              /\ check' = [check EXCEPT ![i].state = found]
              /\ verifier' = [Rotate(i) EXCEPT ![v] = NoOrder]
              /\ UNCHANGED <<incident, ground>>
           \/ /\ Accepts(v) /\ found = "unknown"
              /\ check' = [check EXCEPT ![i].state = found]
              /\ verifier' = [Rotate(i) EXCEPT ![v] = NoOrder]
              /\ UNCHANGED <<incident, continuation, ticket, ground>>
        /\ UNCHANGED <<report, taken, origin, finished, acts, reopened>>
-----------------------------------------------------------------------------
VerifierStep(v) ==
    \/ \E found \in {"unknown", "degraded", "healthy"} : MeasureSource(v, found)
    \/ AnswerCheck(v)

IncidentNext ==
    \/ \E e \in Episodes : Measure("degraded", e)
    \/ \E e \in Episodes : Measure("recovered", e)
    \/ \E k \in 1..MaxReports : CreateEvent(k) \/ ResolveEvent(k)
    \/ \E i \in Slots :
          \/ AcknowledgeIncident(i) \/ ResolveIncident(i) \/ SnoozeIncident(i)
          \/ \E s \in Sessions : BindSession(i, s)
          \/ \E a \in Attempts : Finish(i, a) \/ ClaimTicket(i, a)
          \/ \E v \in Verifiers : TakeOrder(v, i)
    \/ \E v \in Verifiers : VerifierStep(v)

IncidentSpec == IncidentInit /\ [][IncidentNext]_incidentVars

-----------------------------------------------------------------------------
(***************************************************************************)
(* What must hold                                                          *)
(***************************************************************************)
DegradedReports(i) == {k \in 1..Len(report) : report[k].kind = "degraded" /\ taken[k] = i}

\* However often a source repeats a report, whatever overtakes it and whoever acts
\* on the incident in between, the incident counts it once (create_event).
CountedOnce == \A i \in Slots : incident[i].occurrences = Cardinality(DegradedReports(i))

\* One episode has one incident that is being worked on, unless an operator snoozes
\* one that was resolved already (create_event, _transition).
OneActiveIncident ==
    \A i, j \in Slots \ reopened :
        Active(i) /\ Active(j) /\ incident[i].episode = incident[j].episode => i = j

\* What a source measured after the evidence that closed an incident was never
\* counted for that incident: a late recovery, or an answer to an order that a newer
\* degradation replaced, does not close it (_source_health_recovery_matches, check).
ResolvedOnLatestEvidence ==
    \A i \in Slots :
        incident[i].state = "resolved" /\ ground[i] # NoGround =>
            \A k \in DegradedReports(i) : k <= ground[i]

\* All the incidents that share the completion of an attempt continue its session at
\* most once: another one gets a ticket only if nobody ever claimed the first (check).
OneContinuation ==
    \A a \in Attempts :
        Cardinality({i \in Slots : ticket[<<i, a>>] \in {"queued", "claimed"}}) <= 1

\* An order of a verifier becomes stale only by a newer degradation, by an attempt
\* that is finished for the first time, or by the answer to the same order; repeating
\* a completion for a sibling does not waste it (finish, observe_degraded, check).
Answered(i) ==
    \E w \in Verifiers :
        verifier[w].about = i /\ verifier[w].current /\ verifier[w].pc = "measured"
        /\ verifier'[w] = NoOrder
NoOrderIsLost ==
    [][\A v \in Verifiers :
         LET i == verifier[v].about
         IN  verifier[v].current /\ verifier'[v].about = i /\ ~verifier'[v].current =>
                \/ origin'[i].generation > origin[i].generation
                \/ \E a \in Attempts : <<i, a>> \in finished' \ finished
                \/ Answered(i)]_incidentVars
=============================================================================
