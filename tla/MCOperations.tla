---------------------------- MODULE MCOperations ----------------------------
(***************************************************************************)
(* Instances of HealthPlans, HealthRepair, TelegramInteractions and        *)
(* AgentJobs.  A behaviour is about one part of the operations around an   *)
(* incident; the other parts rest.                                         *)
(***************************************************************************)
EXTENDS HealthPlans, HealthRepair, TelegramInteractions, AgentJobs, TLC

CONSTANTS b1, b2, observe, repair, other, p1, p2, c1, c2

VARIABLE part    \* "plans", "review", "repair", "telegram" or "agent"

MCPlansOf == b1 :> {observe, repair} @@ b2 :> {repair, other}

\* Two taps on the question, two on AI, a stop and a start of the owner.
MCScripts == {<<>>, <<c1, c2>>, <<"ai", "ai">>, <<"stop", "start">>}
ScriptIs(scripts) == script \in scripts

OperationsInit ==
    /\ part \in {"plans", "review", "repair", "telegram", "agent"}
    /\ PlansInit /\ RepairInit /\ TelegramInit /\ AgentInit
    /\ custom => part = "plans"
    /\ review <=> part = "review"
    /\ ~review => first = "sent"
    /\ script # <<>> <=> part = "telegram"
    /\ kind = "health-remediation" => part = "agent"

\* Where the first card waits for the decision about it there is one verification and no
\* plan is selected; of the other incidents the card was sent and is not muted, the jobs are
\* launched once and do not die, and there is one verification if the selected plan is to
\* observe.
RepairStep ==
    /\ RepairNext
    /\ IF review
       THEN Len(verified') <= 1 /\ selected' = NoSelection
       ELSE /\ deaths' = 0 /\ ~muted' /\ \A j \in Jobs : job'[j].tries <= 1
            /\ selected' = "observe" => Len(verified') <= 1

\* A script of one kind of update leaves the state of the others alone.
TelegramStep ==
    /\ TelegramNext
    /\ ScriptIs({<<c1, c2>>}) => diagnosis' = <<>> /\ ~forbidden'
    /\ ~ScriptIs({<<c1, c2>>}) => accepted' = NoChoice /\ receipt' = NoChoice
    /\ ScriptIs({<<"stop", "start">>}) => diagnosis' = <<>> /\ ~closed'

OperationsNext ==
    /\ UNCHANGED part
    /\ \/ part = "plans" /\ PlansNext /\ UNCHANGED <<repairVars, telegramVars, agentVars>>
       \/ part \in {"review", "repair"} /\ RepairStep /\ UNCHANGED <<plansVars, telegramVars, agentVars>>
       \/ part = "telegram" /\ TelegramStep /\ UNCHANGED <<plansVars, repairVars, agentVars>>
       \/ part = "agent" /\ AgentNext /\ UNCHANGED <<plansVars, repairVars, telegramVars>>

OperationsSpec ==
    OperationsInit /\ [][OperationsNext]_<<part, plansVars, repairVars, telegramVars, agentVars>>

\* HTTP processes are interchangeable, and so are pollers, which bear the same names.
SameProcesses == Permutations(Processes)
-----------------------------------------------------------------------------
\* Every part keeps its types.
OperationsTypeOK == HealthPlansTypeOK /\ HealthRepairTypeOK /\ TelegramTypeOK /\ AgentTypeOK
=============================================================================
