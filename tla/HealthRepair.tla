---------------------------- MODULE HealthRepair ----------------------------
(***************************************************************************)
(* A health incident is diagnosed and repaired by agents and closed on the *)
(* findings of an independent verifier (core.py, health_workflow.py).      *)
(*                                                                         *)
(* The diagnosis either repairs at once (repair-first) or leads to plans,  *)
(* one of which is selected and executed by the remediation.  An agent     *)
(* reports what it did and never closes anything by its own word: a useful *)
(* progress receipt and a matching healthy finding are needed.  The gate,  *)
(* the record of the resolution, the transition and the announcement are   *)
(* transactions of their own, without a common lock.                       *)
(*                                                                         *)
(* An incident that waits for the judgement of the diagnosis withholds its *)
(* card until a decision is recorded.                                      *)
(***************************************************************************)
EXTENDS Naturals, Sequences, FiniteSets

CONSTANTS
    MaxVerifications, \* bound: findings of the verifier
    MaxClosing,       \* bound: resolutions that are under way together
    MaxTries,         \* bound: launches of a job
    MaxDeaths         \* bound: crashes of the worker

ASSUME RepairAssumption == {MaxVerifications, MaxClosing, MaxTries, MaxDeaths} \subseteq Nat

VARIABLES
    incident,      \* incidents.state
    closers,       \* audits incident_resolved: on whose grounds it was resolved so far
    finished,      \* incident_lifecycle.request_id: an attempt was declared finished
    selected,      \* health_plan_selections
    offered,       \* event health.plans_attached
    progress,      \* events health.progress: the plans with a useful receipt
    verified,       \* events health.verification
    closing,       \* what each resolver is about to do
    recorded,      \* events health.resolved, one per verification: who recorded it
    announced,     \* delivery 'health.resolved'
    review,        \* audit health_notification_waiting_ai
    decision,      \* audit health_notification_decision
    first,         \* the first card of the incident
    muted,         \* notification_mutes: the operator silenced the source
    job,           \* deliveries gptadmin.agent, one per job
    agent,         \* the worker that runs a job: what it holds
    deaths

repairVars == <<incident, closers, finished, selected, offered, progress, verified, closing, recorded,
                announced, review, muted, decision, first, job, agent, deaths>>
proofVars == <<selected, offered, progress, verified>>
cardVars == <<review, muted, decision, first>>
-----------------------------------------------------------------------------
Jobs == {"diagnosis", "remediation"}
PlanIds == {"repair", "observe"}
NoSelection == "none"
\* A verification is degraded, healthy, or healthy with another fingerprint than the source's.
Findings == {"degraded", "foreign", "healthy"}
\* record_agent_job_result, the verifier's receipt, POST resolve, a person.
Resolvers == {"agent", "verifier", "source", "operator"}
\* The source's own recovery, and its check after a finished attempt.
Measurements == {"recovery", "check"}
Nobody == "nobody"
Resting == [pc |-> "idle", verified |-> 0]
NoRun == [pc |-> "idle", result |-> "none"]
JobStatuses == {"absent", "queued", "sending", "sent", "failed", "cancelled"}

\* What a launched job comes to.
DiagnosisResults ==
    {"observing", "asking", "repaired", "degraded", "planned", "failed", "rejected"}
RemediationResults == {"repaired", "degraded", "observing", "failed", "rejected"}
ResultsOf(j) == IF j = "diagnosis" THEN DiagnosisResults ELSE RemediationResults

\* Types.
HealthRepairTypeOK ==
    /\ incident \in {"open", "resolved"} /\ finished \in BOOLEAN
    /\ closers \subseteq Resolvers \cup Measurements
    /\ selected \in PlanIds \cup {NoSelection} /\ offered \in BOOLEAN
    /\ progress \subseteq PlanIds
    /\ verified \in Seq(Findings) /\ Len(verified) <= MaxVerifications
    /\ closing \in [Resolvers -> [pc : {"idle", "asked", "proven", "recorded", "closed"}, verified : 0..MaxVerifications]]
    /\ recorded \in [1..MaxVerifications -> Resolvers \cup {Nobody}]
    /\ announced \in BOOLEAN
    /\ review \in BOOLEAN /\ muted \in BOOLEAN /\ decision \in {"none", "show", "hide"}
    /\ first \in {"withheld", "queued", "sent", "cancelled"}
    /\ job \in [Jobs -> [status : JobStatuses, tries : 0..MaxTries]]
    /\ agent \in [Jobs -> [pc : {"idle", "launched", "judged", "reported", "closing", "done"},
                           result : DiagnosisResults \cup {"none"}]]
    /\ deaths \in 0..MaxDeaths
    /\ \A r \in Resolvers :
          closing[r] # Resting => closing[r].verified \in 1..Len(verified)

RepairInit ==
    /\ incident = "open" /\ closers = {} /\ finished = FALSE
    /\ selected = NoSelection /\ offered = FALSE /\ progress = {} /\ verified = <<>>
    /\ closing = [r \in Resolvers |-> Resting]
    /\ recorded = [v \in 1..MaxVerifications |-> Nobody]
    /\ announced = FALSE
    /\ review \in BOOLEAN /\ decision = "none" /\ muted = FALSE
    \* An incident of a family shares the card of the family.
    /\ first \in {IF review THEN "withheld" ELSE "queued", "sent"}
    /\ job = [j \in Jobs |-> [status |-> IF j = "diagnosis" THEN "queued" ELSE "absent", tries |-> 0]]
    /\ agent = [j \in Jobs |-> NoRun] /\ deaths = 0
-----------------------------------------------------------------------------
(***************************************************************************)
(* The decision about the first card, and what is said of an outcome       *)
(***************************************************************************)
\* A decision to show the card schedules it, unless the incident is closed or muted.
FirstAfter(d) ==
    IF d = "show" /\ incident # "resolved" /\ ~muted /\ first = "withheld" THEN "queued" ELSE first

\* health_notification_review_required, of an incident whose card did not go out.
ReviewPending == review /\ first # "sent"

\* schedule_health_outcome: while the card is withheld a job that did not end well
\* decides, in favour of the reader, and nothing is said about an outcome.  (What is
\* said of one that is not a resolution of the workflow is information, and left out.)
\* Mutated form: an interruption decides nothing.
FailsOpenWhenOver(status) ==
    status \in {"failed", "unknown"} /\ decision = "none"
FailsOpen(status) ==
    status \in {"failed", "unknown", "interrupted"} /\ decision = "none"

Outcome(status) ==
    IF ReviewPending
    THEN /\ decision' = IF FailsOpen(status) THEN "show" ELSE decision
         /\ first' = IF FailsOpen(status) THEN FirstAfter("show") ELSE first
         /\ UNCHANGED announced
    ELSE /\ announced' = (announced \/ status = "resolved")
         /\ UNCHANGED <<decision, first>>
Silence == UNCHANGED <<announced, decision, first>>

\* The card is sent unless the incident is closed or muted.
SendFirst ==
    /\ first = "queued" /\ incident = "open" /\ ~muted
    /\ first' = "sent"
    /\ UNCHANGED <<incident, closers, finished, proofVars, closing, recorded, announced,
                   review, muted, decision, job, agent, deaths>>

Dormant == first \in {"withheld", "cancelled"}

\* queue_incident_card_refresh: a pending question for the operator brings the card out,
\* whether or not anything was decided about it.  (So does the source's next event once
\* its rule does not start AI any more.)
AskOperator ==
    /\ incident = "open" /\ Dormant
    /\ first' = "queued"
    /\ UNCHANGED <<incident, closers, finished, proofVars, closing, recorded, announced,
                   review, muted, decision, job, agent, deaths>>

\* set_incident_notifications_muted: cancels what is queued; its end schedules the card of
\* an open incident, whether or not anything was decided about it.
Mute ==
    /\ ~muted /\ muted' = TRUE
    /\ first' = IF first = "queued" THEN "cancelled" ELSE first
    /\ UNCHANGED <<incident, closers, finished, proofVars, closing, recorded, announced,
                   review, decision, job, agent, deaths>>
Unmute ==
    /\ muted /\ muted' = FALSE
    /\ first' = IF incident = "open" /\ Dormant THEN "queued" ELSE first
    /\ UNCHANGED <<incident, closers, finished, proofVars, closing, recorded, announced,
                   review, decision, job, agent, deaths>>
-----------------------------------------------------------------------------
(***************************************************************************)
(* Plans, progress, verifications                                          *)
(***************************************************************************)
\* record_health_update: attached plans queue the card unless it is queued or sent already,
\* with no look at the review, at the mute or at the state of the incident.
OfferPlans ==
    /\ offered' = TRUE
    /\ first' = IF Dormant THEN "queued" ELSE first
    /\ UNCHANGED <<incident, closers, finished, selected, progress, verified, closing,
                   recorded, announced, review, muted, decision, job, agent, deaths>>

ChoosePlan(p) ==
    /\ offered /\ selected = NoSelection
    /\ selected' = p
    /\ job' = [job EXCEPT !["remediation"].status = "queued"]
    /\ UNCHANGED <<incident, closers, finished, offered, progress, verified, closing,
                   recorded, announced, cardVars, agent, deaths>>

\* record_health_progress: the selected plan, or the executor's own without any plans.
Countable(p) == IF offered THEN p = selected ELSE p \in {"repair"}

ReportProgress(p) ==
    /\ Countable(p) /\ progress' = progress \cup {p}
    /\ UNCHANGED <<incident, closers, finished, selected, offered, verified, closing,
                   recorded, announced, cardVars, job, agent, deaths>>

\* finish: from here on the source's recovery closes nothing, see SourceCheckCloses.
DeclareFinished ==
    /\ ~finished /\ incident = "open" /\ finished' = TRUE
    /\ UNCHANGED <<incident, closers, proofVars, closing, recorded, announced, cardVars, job,
                   agent, deaths>>
-----------------------------------------------------------------------------
(***************************************************************************)
(* Closing: resolve_health_incident                                        *)
(***************************************************************************)
Verifications == 1..Len(verified)
\* Mutated form: the fingerprint of the source is not compared.
ConvincesAnyway(v) == verified[v] # "degraded"
Convinces(v) == verified[v] = "healthy"

\* _healthy_verification_matches: any verification so far.
HealthyVerificationMatches == \E v \in Verifications : Convinces(v)

\* The plan whose progress counts: the selected one, else the executor's.
ProgressCounts(r) ==
    IF selected # NoSelection THEN selected \in progress
    ELSE CASE r = "verifier" -> "repair" \in progress
           [] r = "source" -> progress # {}
           [] OTHER -> FALSE

\* The gates: _require_health_resolution_gate for a person, for the others also the
\* latest verification and no finished attempt.
GateOpens(r) ==
    /\ ProgressCounts(r) /\ HealthyVerificationMatches
    /\ r # "operator" => ~finished /\ verified[Len(verified)] # "degraded"
    /\ r = "agent" => verified[Len(verified)] = "healthy"
    /\ r = "verifier" => selected = NoSelection

MayClose == Cardinality({r \in Resolvers : closing[r] # Resting}) < MaxClosing

Proven(r) ==
    closing' = [closing EXCEPT ![r] =
                  IF incident = "resolved" THEN Resting
                  ELSE [pc |-> IF r = "operator" THEN "recorded" ELSE "proven",
                        verified |-> Len(verified)]]

\* record_health_verification: the verification, then the attempt to close on it.
RecordVerification(finding) ==
    /\ Len(verified) < MaxVerifications /\ closing["verifier"] = Resting /\ MayClose
    /\ verified' = Append(verified, finding)
    /\ closing' = [closing EXCEPT !["verifier"] =
                     IF finding = "degraded" THEN Resting
                     ELSE [pc |-> "asked", verified |-> Len(verified) + 1]]
    /\ UNCHANGED <<incident, closers, finished, selected, offered, progress, recorded,
                   announced, cardVars, job, agent, deaths>>
VerifierCloses ==
    /\ closing["verifier"].pc = "asked"
    /\ IF GateOpens("verifier") THEN Proven("verifier")
       ELSE closing' = [closing EXCEPT !["verifier"] = Resting]
    /\ UNCHANGED <<incident, closers, finished, proofVars, recorded, announced, cardVars, job,
                   agent, deaths>>
AskToClose(r) ==
    /\ r \in {"source", "operator"} /\ closing[r] = Resting /\ MayClose
    /\ GateOpens(r) /\ Proven(r) /\ closing' # closing
    /\ UNCHANGED <<incident, closers, finished, proofVars, recorded, announced, cardVars, job,
                   agent, deaths>>

\* What becomes of the agent's receipt: a resolver that is refused rejects it.
Accepted(r) ==
    IF r = "agent" THEN agent' = [agent EXCEPT !["remediation"].pc = "done"] ELSE UNCHANGED agent
Refused(r) ==
    IF r = "agent"
    THEN agent' = [agent EXCEPT !["remediation"] = [pc |-> "reported", result |-> "rejected"]]
    ELSE UNCHANGED agent

\* _record_health_event: the event names the verification and who resolved, and a key that
\* was used for another author conflicts.
Recordable(r) == recorded[closing[r].verified] \in {Nobody, r}

RecordResolution(r) ==
    LET v == closing[r].verified
    IN  /\ closing[r].pc = "proven"
        /\ IF Recordable(r)
           THEN /\ recorded' = [recorded EXCEPT ![v] = r]
                /\ closing' = [closing EXCEPT ![r].pc = "recorded"]
                /\ UNCHANGED agent
           ELSE /\ closing' = [closing EXCEPT ![r] = Resting]
                /\ Refused(r)
                /\ UNCHANGED recorded
        /\ UNCHANGED <<incident, closers, finished, proofVars, announced, cardVars, job,
                       deaths>>

\* _transition: what is queued for the incident is withdrawn, a running job's row too.  It
\* looks at no state: who is late resolves once more.
Resolved(by) ==
    /\ incident' = "resolved" /\ closers' = closers \cup {by}
    /\ first' = IF first = "queued" THEN "cancelled" ELSE first
    /\ job' = [j \in Jobs |-> [job[j] EXCEPT !.status = IF @ \in {"queued", "sending"} THEN "cancelled" ELSE @]]

Transition(r) ==
    /\ closing[r].pc = "recorded"
    /\ Resolved(r)
    /\ closing' = [closing EXCEPT ![r] = IF r = "operator" THEN Resting ELSE [@ EXCEPT !.pc = "closed"]]
    /\ UNCHANGED <<finished, proofVars, recorded, announced, review, muted, decision, agent,
                   deaths>>

\* resolve_event: the recovery of the same source, measured after all that is known, needs no
\* gate until an attempt is declared finished.
SourceRecovers ==
    /\ incident = "open" /\ ~finished
    /\ Resolved("recovery")
    /\ UNCHANGED <<finished, proofVars, closing, recorded, announced, review, muted, decision,
                   agent, deaths>>

\* check: a healthy answer about the finished attempt, whatever the state of the incident.
SourceCheckCloses ==
    /\ finished
    /\ Resolved("check")
    /\ UNCHANGED <<finished, proofVars, closing, recorded, announced, review, muted, decision,
                   agent, deaths>>

Announce(r) ==
    /\ closing[r].pc = "closed"
    /\ Outcome("resolved")
    /\ closing' = [closing EXCEPT ![r] = Resting]
    /\ Accepted(r)
    /\ UNCHANGED <<incident, closers, finished, proofVars, recorded, review, muted, job,
                   deaths>>
-----------------------------------------------------------------------------
(***************************************************************************)
(* The jobs: deliver, record_agent_job_result                              *)
(***************************************************************************)
Launch(j) ==
    /\ job[j].status = "queued" /\ job[j].tries < MaxTries
    /\ \A k \in Jobs : agent[k].pc = "idle"   \* bound: one job runs at a time
    /\ job' = [job EXCEPT ![j] = [status |-> "sending", tries |-> @.tries + 1]]
    /\ agent' = [agent EXCEPT ![j] = [pc |-> "launched", result |-> "none"]]
    /\ UNCHANGED <<incident, closers, finished, proofVars, closing, recorded, announced,
                   cardVars, deaths>>

\* The job's result, and with a diagnosis its judgement of the card; an observer that
\* is still pending gives none.
Judge(j) ==
    /\ agent[j].pc = "launched"
    /\ \E result \in ResultsOf(j), d \in {"show", "hide"} :
          /\ j = "remediation" /\ result = "observing" => selected = "observe"
          /\ agent' = [agent EXCEPT ![j] = [pc |-> "judged", result |-> result]]
          /\ IF j = "diagnosis" /\ review /\ result # "observing"
             THEN decision' = d /\ first' = FirstAfter(d)
             ELSE UNCHANGED <<decision, first>>
    /\ UNCHANGED <<incident, closers, finished, proofVars, closing, recorded, announced,
                   review, muted, job, deaths>>

PlanOf(j) == IF j = "remediation" THEN selected ELSE "repair"
Executed(j) == agent[j].result \in {"repaired", "degraded"} \cup IF j = "remediation" THEN {"observing"} ELSE {}

\* Its progress counts or the receipt is rejected.
Progresses(j) ==
    /\ agent[j].pc = "judged"
    /\ IF Executed(j) /\ Countable(PlanOf(j))
       THEN /\ progress' = progress \cup {PlanOf(j)}
            /\ agent' = [agent EXCEPT ![j].pc = "reported"]
       ELSE /\ agent' = [agent EXCEPT ![j].pc = "reported",
                                      ![j].result = IF Executed(j) THEN "rejected" ELSE @]
            /\ UNCHANGED progress
    /\ UNCHANGED <<incident, closers, finished, selected, offered, verified, closing,
                   recorded, announced, cardVars, job, deaths>>

\* _record_health_repair_first_receipt, and the diagnosis that made no repair.
DiagnosisOutcome(result) ==
    CASE result \in {"observing", "asking"} -> Silence
      [] result = "degraded" -> Outcome("degraded")
      [] result \in {"repaired", "rejected"} -> Outcome("unknown")
      [] result = "planned" -> Outcome(IF offered THEN "planned" ELSE "unknown")
      [] result = "failed" -> Outcome("failed")
ConcludeDiagnosis ==
    /\ agent["diagnosis"].pc = "reported"
    /\ DiagnosisOutcome(agent["diagnosis"].result)
    /\ agent' = [agent EXCEPT !["diagnosis"].pc = "done"]
    /\ UNCHANGED <<incident, closers, finished, proofVars, closing, recorded, review, muted,
                   job, deaths>>

\* _record_health_remediation_receipt: a degraded source decides nothing; a repaired
\* one is closed if there is a verification.
ConcludeRemediation ==
    LET result == agent["remediation"].result
    IN  /\ agent["remediation"].pc = "reported"
        /\ CASE result = "degraded" ->
                  /\ Silence /\ UNCHANGED closing
                  /\ agent' = [agent EXCEPT !["remediation"].pc = "done"]
             [] result = "repaired" /\ GateOpens("agent") ->
                  /\ MayClose
                  /\ Silence /\ Proven("agent")
                  /\ agent' = [agent EXCEPT !["remediation"].pc =
                                 IF incident = "resolved" THEN "done" ELSE "closing"]
             [] result = "repaired" /\ ~GateOpens("agent") ->
                  /\ Outcome("unknown") /\ UNCHANGED closing
                  /\ agent' = [agent EXCEPT !["remediation"] =
                                 [@ EXCEPT !.pc = "done", !.result = "rejected"]]
             [] result \in {"observing", "failed", "rejected"} ->
                  /\ Outcome(IF result = "failed" THEN "failed" ELSE "unknown")
                  /\ UNCHANGED closing
                  /\ agent' = [agent EXCEPT !["remediation"].pc = "done"]
        /\ UNCHANGED <<incident, closers, finished, proofVars, recorded, review, muted, job,
                       deaths>>

\* complete_delivery: a remediation that was not accepted failed.
Ended(j) ==
    IF agent[j].result \in {"failed"} \cup IF j = "remediation" THEN {"rejected"} ELSE {}
    THEN "failed" ELSE "sent"
CompleteJob(j) ==
    /\ agent[j].pc = "done"
    /\ job' = [job EXCEPT ![j].status = IF @ = "sending" THEN Ended(j) ELSE @]
    /\ agent' = [agent EXCEPT ![j] =
                   IF @.result = "observing" THEN [NoRun EXCEPT !.result = "observing"] ELSE NoRun]
    /\ UNCHANGED <<incident, closers, finished, proofVars, closing, recorded, announced,
                   cardVars, deaths>>

\* An exception on the way, a timeout: said, and tried again.
Interrupted(j) ==
    /\ agent[j].pc \in {"launched", "judged", "reported"}
    /\ Outcome("interrupted")
    /\ job' = [job EXCEPT ![j].status = CASE @ # "sending" -> @
                                          [] @ = "sending" /\ job[j].tries < MaxTries -> "queued"
                                          [] OTHER -> "failed"]
    /\ agent' = [agent EXCEPT ![j] = NoRun]
    /\ UNCHANGED <<incident, closers, finished, proofVars, closing, recorded, review, muted,
                   deaths>>

\* HealthSourceGateBlocked: a person stopped a related session, or nobody can tell.
Blocked(j) ==
    /\ agent[j].pc = "launched"
    /\ job' = [job EXCEPT ![j].status = "cancelled"]
    /\ Outcome("blocked")
    /\ agent' = [agent EXCEPT ![j] = NoRun]
    /\ UNCHANGED <<incident, closers, finished, proofVars, closing, recorded, review, muted,
                   deaths>>

\* The worker dies: its rows stay in sending, its resolver stops halfway.
WorkerDies ==
    /\ deaths < MaxDeaths /\ deaths' = deaths + 1
    /\ agent' = [j \in Jobs |-> IF agent[j].pc = "idle" THEN agent[j] ELSE NoRun]
    /\ closing' = [closing EXCEPT !["agent"] = Resting]
    /\ UNCHANGED <<incident, closers, finished, proofVars, recorded, announced, cardVars, job>>
-----------------------------------------------------------------------------
RepairNext ==
    \/ SendFirst \/ AskOperator \/ Mute \/ Unmute
    \/ OfferPlans \/ DeclareFinished \/ VerifierCloses \/ SourceRecovers \/ SourceCheckCloses
    \/ \E p \in PlanIds : ChoosePlan(p) \/ ReportProgress(p)
    \/ \E finding \in Findings : RecordVerification(finding)
    \/ \E r \in Resolvers :
          AskToClose(r) \/ RecordResolution(r) \/ Transition(r) \/ Announce(r)
    \/ \E j \in Jobs :
          Launch(j) \/ Judge(j) \/ Progresses(j) \/ CompleteJob(j) \/ Interrupted(j) \/ Blocked(j)
    \/ ConcludeDiagnosis \/ ConcludeRemediation \/ WorkerDies

RepairSpec == RepairInit /\ [][RepairNext]_repairVars
-----------------------------------------------------------------------------
(***************************************************************************)
(* What must hold                                                          *)
(***************************************************************************)
\* The source closes its incident by a measurement of its own: a recovery before an attempt
\* was finished, a check after it.  Whoever closes it on the workflow's gate, whatever was
\* selected, finished, recovered or found degraded after the gate was passed: an agent made
\* useful progress, and an independent verifier found the original source healthy.  What is
\* announced as resolved was recorded before and is closed.
ClosedIsProven ==
    /\ closers \cap Resolvers # {} =>
          progress # {} /\ \E v \in Verifications : verified[v] = "healthy"
    /\ announced =>
          incident = "resolved" /\ \E v \in Verifications : recorded[v] # Nobody /\ verified[v] # "degraded"

\* By the time the diagnosis is over - answered, failed, or interrupted to the last try,
\* whatever closes, mutes or cancels meanwhile - a withheld card is decided upon.  Not
\* if an answer only observes a session, which says nothing yet; nor if the card went out
\* without a decision: for attached plans, for a question to the operator, at the end of a
\* mute.  (A blocked launch is cancelled, and decides nothing.)  And the decision to show
\* the card brings it out, at the latest when the mute is over.
DecidedWhenDiagnosed ==
    /\ review /\ job["diagnosis"].status \in {"sent", "failed"}
         => decision # "none" \/ agent["diagnosis"].result = "observing" \/ first = "sent"
    /\ decision = "show" /\ incident = "open" /\ ~muted => first \in {"queued", "sent"}
=============================================================================
