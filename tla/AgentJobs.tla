------------------------------ MODULE AgentJobs ------------------------------
(***************************************************************************)
(* One incident's executor: the worker submits a job to the Hub, which     *)
(* runs the helper next to Agent Herder; a remediation falls back on a     *)
(* helper run of its own when the submission raises (gptadmin_agent.py).   *)
(* A run reads the owner's policy, checks the source sessions, reads the   *)
(* policy again and launches under a stable operation id, arms the         *)
(* autopilot of the session and observes it (agent_job_helper.py,          *)
(* source_gate.py).                                                        *)
(*                                                                         *)
(* Agent Herder is external: it admits an operation once and answers a     *)
(* repetition from its log.  Any answer may be lost.                       *)
(***************************************************************************)
EXTENDS Naturals, Sequences

CONSTANTS
    MaxSubmissions,   \* bound: agent jobs of the incident, one after the other
    MaxTurns          \* bound: the owner's stops and starts

ASSUME AgentJobsAssumption == {MaxSubmissions, MaxTurns} \subseteq Nat

VARIABLES
    kind,          \* the job
    submission,    \* deliveries of the job, and what the worker does with each
    run,           \* the runs of the helper
    session,       \* Agent Herder: native sessions in the order of their creation
    stop,          \* Agent Herder: the owner forbids launches
    turns,
    forewarned     \* history: runs that had not read the policy for the last time
                   \* when the owner stopped launches

agentVars == <<kind, submission, run, session, stop, turns, forewarned>>
-----------------------------------------------------------------------------
Submissions == 1..MaxSubmissions
Runs == Submissions \X {"hub", "direct"}
Sessions == DOMAIN session
Unreceived == {"none", "check", "sources", "recheck", "call", "arm", "stop", "observe"}
Receipts == {"raised", "refused", "held", "done"}
NoHelper == [pc |-> "none", session |-> 0, created |-> FALSE, called |-> FALSE]

\* Types.
AgentTypeOK ==
    /\ kind \in {"health-diagnosis", "health-remediation"}
    /\ submission \in [Submissions ->
           [status : {"absent", "post", "poll", "direct"} \cup Receipts, continues : 0..Len(session)]]
    /\ run \in [Runs -> [pc : Unreceived \cup Receipts, session : 0..Len(session),
                         created : BOOLEAN, called : BOOLEAN]]
    /\ \A s \in Sessions :
          session[s] \in [operation : 0..2 * MaxSubmissions, continues : 0..s - 1, creator : Runs,
                          ended : {"no", "idle", "failed"}, armed : BOOLEAN,
                          stoppers : SUBSET Runs, forbidden : BOOLEAN]
    /\ stop \in BOOLEAN /\ turns \in 0..MaxTurns /\ forewarned \subseteq Runs

AgentInit ==
    /\ kind \in {"health-diagnosis", "health-remediation"}
    /\ submission = [a \in Submissions |-> [status |-> "absent", continues |-> 0]]
    /\ run = [r \in Runs |-> NoHelper]
    /\ session = <<>>
    /\ stop = FALSE /\ turns = 0 /\ forewarned = {}
-----------------------------------------------------------------------------
(***************************************************************************)
(* The worker                                                              *)
(***************************************************************************)
Becomes(a, status) == submission' = [submission EXCEPT ![a].status = status]

\* A delivery of the job: the first, a new one by hand after one that failed or was
\* refused before its launch, or the continuation of a finished session under the
\* authority of a source check, which does not wait for the workers before it.
Submit(a) ==
    /\ submission[a].status = "absent"
    /\ \A b \in 1..a - 1 : submission[b].status # "absent"
    /\ \E s \in {0} \cup {t \in Sessions : session[t].ended # "no"} :
          /\ (s = 0 /\ a > 1) => submission[a - 1].status \in {"raised", "refused"}
          /\ kind = "health-remediation" => a = 1
          /\ submission' = [submission EXCEPT ![a] = [status |-> "post", continues |-> s]]
    /\ UNCHANGED <<kind, run, session, stop, turns, forewarned>>

\* The Hub takes the job or not; any error of the call raises
\* GptAdminAdmissionUnavailable, on which a remediation runs its own helper.
PostJob(a) ==
    /\ submission[a].status = "post"
    /\ \E taken, answered \in BOOLEAN :
          LET fallsBack == ~(taken /\ answered) /\ kind = "health-remediation"
              started == {r \in Runs : (r = <<a, "hub">> /\ taken) \/ (r = <<a, "direct">> /\ fallsBack)}
          IN  /\ Becomes(a, IF taken /\ answered THEN "poll" ELSE IF fallsBack THEN "direct" ELSE "raised")
              /\ run' = [r \in Runs |-> IF r \in started THEN [NoHelper EXCEPT !.pc = "check"] ELSE run[r]]
    /\ UNCHANGED <<kind, session, stop, turns, forewarned>>

\* The receipt of the run; what it says of the launch survives its bounding.
ResultOf(a) == run[<<a, IF submission[a].status = "poll" THEN "hub" ELSE "direct">>].pc

\* A poll raises at its deadline, on any error, and on progress that stalls.
PollRaises(a) == submission[a].status = "poll"

Collect(a) ==
    /\ submission[a].status \in {"poll", "direct"}
    /\ \/ ResultOf(a) \in Receipts /\ Becomes(a, ResultOf(a))
       \/ PollRaises(a) /\ Becomes(a, "raised")
    /\ UNCHANGED <<kind, run, session, stop, turns, forewarned>>
-----------------------------------------------------------------------------
(***************************************************************************)
(* A run of the helper: run_profile                                        *)
(***************************************************************************)
Moves(r, pc) == run' = [run EXCEPT ![r].pc = pc]
Quiet == UNCHANGED <<kind, submission, stop, turns, forewarned>>

\* The profile, the launch policy, the callback, a source check or any call raises.
RunRaises(r) ==
    /\ run[r].pc \in {"check", "sources"}
    /\ Moves(r, "raised")
    /\ Quiet /\ UNCHANGED session

\* require_herder_owner_running: open, or stopped or unreadable.
ReadOwner(r, open) ==
    \/ ~stop /\ Moves(r, open)
    \/ Moves(r, "refused")

CheckOwner(r) == run[r].pc = "check" /\ ReadOwner(r, "sources") /\ Quiet /\ UNCHANGED session

\* source_launch_fields: no source session is held; project_launch reads the policy again.
CheckSources(r) == run[r].pc = "sources" /\ Moves(r, "recheck") /\ Quiet /\ UNCHANGED session
CheckAgain(r) == run[r].pc = "recheck" /\ ReadOwner(r, "call") /\ Quiet /\ UNCHANGED session

\* _operation_id: the incident and the job, and the finished attempt that a continuation
\* continues; neither the delivery nor the generation of the check.
\* Mutated form: the delivery is part of it.
OperationOfDelivery(r) == MaxSubmissions + r[1]
Operation(r) == submission[r[1]].continues

\* project_launch and _launch_receipt.  Agent Herder creates the session of an operation
\* that it does not know, names the one that it knows, or refuses; only an answer that
\* names the session is not an error.
Admitted(r) == {s \in Sessions : session[s].operation = Operation(r)}
Created(r) ==
    [operation |-> Operation(r), continues |-> submission[r[1]].continues, creator |-> r,
     ended |-> "no", armed |-> FALSE, stoppers |-> {}, forbidden |-> stop /\ r \in forewarned]
Call(r) ==
    /\ run[r].pc = "call"
    /\ \/ /\ Admitted(r) = {}
          /\ session' = Append(session, Created(r))
          /\ \/ run' = [run EXCEPT ![r] = [pc |-> "arm", session |-> Len(session) + 1,
                                           created |-> TRUE, called |-> TRUE]]
             \/ run' = [run EXCEPT ![r] = [@ EXCEPT !.pc = "raised", !.called = TRUE]]
       \/ /\ \E s \in Admitted(r) :
                run' = [run EXCEPT ![r] = [pc |-> "arm", session |-> s, created |-> FALSE, called |-> TRUE]]
          /\ UNCHANGED session
       \/ /\ run' = [run EXCEPT ![r] = [@ EXCEPT !.pc = "raised", !.called = TRUE]]
          /\ UNCHANGED session
    /\ Quiet

\* arm_session_autopilot: confirmed, or not, although it may be armed.  Without the
\* confirmation a session that this call created is stopped.
Unarmed(r) == IF run[r].created THEN "stop" ELSE "held"
Arm(r) ==
    /\ run[r].pc = "arm"
    /\ \/ /\ ~stop
          /\ session' = [session EXCEPT ![run[r].session].armed = TRUE]
          /\ Moves(r, "observe")
       \/ /\ \E armed \in BOOLEAN :
                /\ armed => ~stop
                /\ session' = [session EXCEPT ![run[r].session].armed = @ \/ armed]
          /\ Moves(r, Unarmed(r))
    /\ Quiet

\* _stop_session: /stop, then /terminate; the receipt says that the launch is held.
StopSession(r) ==
    /\ run[r].pc = "stop"
    /\ session' = [session EXCEPT ![run[r].session].stoppers = @ \cup {r},
                                  ![run[r].session].ended = IF @ = "no" THEN "failed" ELSE @]
    /\ Moves(r, "held")
    /\ Quiet

\* A finished turn may bear the receipt that is asked for.
Conclusive(s) == session[s].ended = "idle"

\* _run_health_diagnosis ends with a terminal turn or at its deadline, and raises when
\* the session failed or its report did; _run_health_remediation needs a strict receipt
\* of a finished turn before its deadline.
ObserveSession(r) ==
    /\ run[r].pc = "observe"
    /\ \/ Conclusive(run[r].session)
       \/ kind = "health-diagnosis" /\ session[run[r].session].ended = "no"
    /\ Moves(r, "done")
    /\ Quiet /\ UNCHANGED session

ObservationRaises(r) ==
    /\ run[r].pc = "observe"
    /\ Moves(r, "raised")
    /\ Quiet /\ UNCHANGED session
-----------------------------------------------------------------------------
(***************************************************************************)
(* External                                                                *)
(***************************************************************************)
SessionEnds(s) ==
    /\ session[s].ended = "no"
    /\ \E ended \in {"idle", "failed"} : session' = [session EXCEPT ![s].ended = ended]
    /\ UNCHANGED <<kind, submission, run, stop, turns, forewarned>>

OwnerTurns ==
    /\ turns < MaxTurns /\ turns' = turns + 1
    /\ stop' = ~stop
    /\ forewarned' = IF stop THEN {} ELSE {r \in Runs : run[r].pc \in {"none", "check", "sources", "recheck"}}
    /\ UNCHANGED <<kind, submission, run, session>>

AgentNext ==
    \/ \E a \in Submissions : Submit(a) \/ PostJob(a) \/ Collect(a)
    \/ \E r \in Runs :
          \/ RunRaises(r) \/ CheckOwner(r) \/ CheckSources(r) \/ CheckAgain(r) \/ Call(r)
          \/ Arm(r) \/ StopSession(r) \/ ObserveSession(r) \/ ObservationRaises(r)
    \/ \E s \in Sessions : SessionEnds(s)
    \/ OwnerTurns

AgentSpec == AgentInit /\ [][AgentNext]_agentVars
-----------------------------------------------------------------------------
(***************************************************************************)
(* What must hold                                                          *)
(***************************************************************************)
\* The incident gets one initial executor and each finished session one continuation,
\* whatever is submitted again, falls back or loses its answer.
OneExecutor ==
    \A s, t \in Sessions : session[s].continues = session[t].continues => s = t

\* A receipt that promises that nothing was launched, on which a new launch by hand is
\* allowed, comes from a run that never called.
RefusedWasNotLaunched ==
    \A r \in Runs : run[r].pc = "refused" => ~run[r].called /\ \A s \in Sessions : session[s].creator # r

\* A session is stopped by nobody but the run that created it, also when the Hub's run
\* and the fallback share it.
OnlyTheCreatorStops ==
    \A s \in Sessions : session[s].stoppers \subseteq {session[s].creator}

\* A stop of the owner that comes before the last reading holds, also during the source
\* checks.
StopHolds == \A s \in Sessions : ~session[s].forbidden

AgentJobsAreExact == OneExecutor /\ RefusedWasNotLaunched /\ OnlyTheCreatorStops /\ StopHolds
=============================================================================
