# NoticePlace: a TLA+ model of the notification center

NoticePlace (`notification_center/`, Python) takes events from producers, groups
them into incidents, and delivers each incident to its owner over Telegram cards,
messages, calls and agent jobs until somebody acknowledges or resolves it.  All
durable state is a relational store, SQLite on one node or dqlite shared by
several nodes; around it run worker threads, HTTP handlers and pollers.

These modules model the parts where a mistake is expensive and a unit test hardly
reaches it: what may be sent, how often and by whom; which answer of which person
counts, and what continues on it; on what evidence an incident is closed; and which
agent runs because of it.  The sections below are the inventory of the system, the
modules and how they correspond to the code, what is checked, what is proved, and
what is left out.

## 1. The system: parts, state, operations

| Component | State | Operations | Hard behaviour | What makes it correct |
|---|---|---|---|---|
| **Delivery outbox** `core.py` | `deliveries`, `incidents`, `notification_mutes`, receipts | `_schedule_delivery`, `claim_due_deliveries`, `reserve_delivery_send`, `complete_delivery`, `acknowledge_if_active`, `resolve`, `snooze`, mute | leases expire under slow workers; reports arrive late; owners act between any two steps | no send repeated blindly; no send beyond a ceiling; closed incidents are silent; finished rows stay finished |
| **Delivery worker** `http_api.py` `DeliveryWorker`, `bin/notify-center` | per thread: the claimed row and its payload | `deliver`, `_after_telegram_delivery`, the pools' loops | a process dies between any two steps; several nodes share the store; the store refuses a report | a dead claim is taken over; a queued row is decided |
| **Telegram card family** `core.py`, `telegram_cleanup.py`, `incident_card.py` | owner of a card, confirmed message, edit pause | `original_telegram_card`, `queue_incident_card_refresh`, deletion of a closed card | a receipt is lost; two stages of one incident race; payload read before the reservation | one message per family; one Telegram send per family at a time |
| **Call chain** `incident_call_chain.py`, `core.py`, `http_api.py` | call rows, `call_problem_budgets`, the switch for automatic calls | `start`, `advance`, `continuation`, `_reserve_problem_call`, the call branches of `deliver`, `set_automatic_calls` | one interval shared by chain, ladder, policies and incidents; a switch read before the call; context that arrives before the call | one episode of calls per problem and interval; no call about a closed incident or with calls switched off; a due call is decided |
| **Event intake** `core.py` | `events`, `incidents` | `create_event`, `resolve_event`, family binding | a report is sent again, overtakes another, or names a snoozed incident | one active incident per episode; an event counted once |
| **Incident lifecycle** `incident_lifecycle.py` | generation and latest observation, source checks, group completions | `observe_degraded`, `finish`, `due_checks`, `check` | a check of an older generation is answered late; an attempt is finished for several incidents at once | closed on the latest evidence; a completion continues its session once |
| **Human requests** `core.py`, `human_request_*.py` | `human_requests`, receipts | create, bind a message, resolve, expire, cancel | four surfaces answer at once, expiry races them | the first answer wins, everywhere |
| **Human completions** `core.py`, `http_api.py` | `human_completions` | enqueue, claim, deliver, reconcile, receipts | the process dies after the claim; the admission is unknown | the asking session is resumed at most once, and in the end |
| **Task decisions** `task_decisions.py` | decisions, notifications, controls | reserve, record, resolve due, request/claim/acknowledge a control, resume after hold | the receipt starts the deadline; a control's answer is lost | one outcome per decision; a hold is lifted once |
| **Health workflow** `core.py`, `health_workflow.py`, `source_gate.py` | bundles of plans and their card, selection, progress, verifications, the judgement of a withheld card | attach, select, record, gate, close, announce | plans change while their card is on its way; four resolvers in separate transactions, and the source that closes beside them; cards that go out before the judgement | one plan is executed; the workflow closes on progress and an independent verification; nothing is withheld for ever |
| **Telegram interactions** `telegram_interactions.py`, `selected_card.py` | update rows, offset, the mark on a card | elect a poller, claim, handle, complete, advance the offset | a crash between the transactions, a lease that ends during a poll | an update is applied once; the card shows the choice that counts |
| **Runtime leases** `core.py` | `runtime_leases` | `claim_runtime_lease` | a lease expires under its holder | one active poller |
| **Agent jobs** `gptadmin_agent.py`, `agent_job_helper.py`, `source_gate.py` | the job at the Hub, runs of the helper, native sessions | submit, fall back, poll, check the policy, launch, arm, observe, stop | the answer of the submission is lost; the owner stops launches in between | one executor per operation; no launch after a stop that was read |
| **Store** `mesh_store.py`, `mesh-store/main.go` | connection, leader | transaction, reconnect | a commit whose outcome is unknown | a transaction is applied whole, or refused |
| **Watchdog** `watchdog.py` | failure counter | probe | flapping probes | an alarm after the threshold, once |
| Admin, HTTP API, MCP, clients, formatting, deployment | settings, none | forms, parsing, rendering, scripts | - | call the operations above |

How they interact: producers and owners reach the center over HTTP, Telegram
updates or MCP, and every handler runs its change as one transaction of the
store (`with self._lock, self._connection`).  The only link from an incident to
the outside world is a row of `deliveries`; worker threads claim rows, perform
the external send without holding a transaction, and report.  Workers and owners
never call each other: they meet in the rows.

## 2. Modules

| Module | Role |
|---|---|
| `OutboxRows` | one row of `deliveries` and the updates that the statements of the store apply to it; no variables |
| `DeliveryOutbox` | the outbox, its workers, the Telegram card families and the owners, composed over the shared store |
| `DeliveryContract` | the abstract specification: what the outbox promises of one delivery, without workers, leases, crashes or owners; with the proof of what follows from it |
| `CallEscalation` | calls about incidents: chain, ladder, policy calls, the shared interval, the switch, answers |
| `IncidentLifecycle` | reports of a source, the incidents they make, attempts that are finished, checks of the source |
| `HumanRequests` | a question to a person: answers, expiry, withdrawal, the resume of the asking session, the card that shows the answer |
| `ResumeContract` | the abstract specification of one resume: the session hears the answer that stands, and again only after the call before was disproved |
| `TaskDecisions` | a question about a task: its post, its deadline, the decision, stop and hold |
| `HealthPlans` | bundles of plans attached to an incident, the one card that shows them, the selection |
| `HealthRepair` | diagnosis, remediation, progress, verifications, the four resolvers of the workflow and the two closings by the source itself, the card withheld for a judgement |
| `TelegramInteractions` | the elected poller, updates, choices and the owner's commands |
| `AgentJobs` | submission of an agent job, fallback, the helper's run, the native session |
| `MCDeliveryOutbox`, `MCCallEscalation`, `MCIncidents`, `MCQuestions`, `MCOperations` with `*.cfg` | instances for TLC; `MCQuestions` composes `HumanRequests` and `TaskDecisions`, `MCOperations` the four modules around the repair of an incident |
| `OutboxRowLemmas` | what the operators of `OutboxRows` return, for all proofs |
| `DeliveryOutboxProofs`, `DeliveryOutboxSafety` | type correctness; the inductive invariant, the refinement of the contract, sends, ceilings, families and their cards, finished rows, late reports, silence of closed incidents |
| `CallEscalationProofs` | type correctness, the inductive invariant of the calls, one episode per interval, silence of closed incidents, the switch |
| `IncidentLifecycleProofs` | type correctness, the inductive invariant of the incidents and what follows from it |
| `QuestionsProofs` | the inductive invariants of the questions and of the decisions, the refinement of `ResumeContract` and what follows from it, and their composition |
| `OperationsProofs` | one executor, one plan, one card that shows the plans, closing on evidence, the withheld card, updates of Telegram, and their composition |

How the modules meet.  Outbox and calls keep their rows in the table of `OutboxRows`
and apply the same updates; a row is a call exactly if its channel ends in `.call`,
every statement selects by channel, and the two kinds meet only in `incidents` and in
the card whose delivery schedules the first call (`FirstCardIsSent`).  The other
modules see the outbox as what it promises: a row that was scheduled under a stable
key is claimed by one thread, may be raised or lost with its process, and is then
retried, cancelled or stranded, as `DeliveryOutbox` has it.  A question closes with
its incident (`CloseCase`, `ReopenCase` in `HumanRequests`), the continuation of
`IncidentLifecycle` is a delivery of the diagnosis (`ClaimTicket`), and the closing of
`HealthRepair` is the transition that `Resolve` stands for in the outbox.

### The outbox: state and code

| Variable | Code |
|---|---|
| `row` | table `deliveries`: status, due_at, claimed_at, attempt, the age of a card |
| `incident` | table `incidents`: state and snoozed_until |
| `muted` | `notification_mutes` resolved to the incidents they cover |
| `card` | card owners for which `original_telegram_card` finds a confirmed, not deleted message |
| `pause` | card owner -> what is left of `TELEGRAM_CARD_EDIT_INTERVAL` since its last receipt |
| `worker` | the program counter and locals of each thread inside `DeliveryWorker.deliver` |
| `crashes`, `faults` | bounds |
| `licences`, `reported`, `creations`, `removals` | history, written by the actions and read by properties only |

Times are what is *left* of a duration (`due`, `lease`, `fresh`, `snooze`,
`pause`), counted down by `Tick`, so no clock grows.  A generation of a claim is
`(claimed_at, attempt)` in the code; `attempt` alone identifies it, since every
claim increments it.

A `Kind` stands for what channel and target make of a row:

| Kind | Row | Why it is told apart |
|---|---|---|
| `card` | a Telegram card of an incident | repeats are scheduled after it was sent |
| `consumer` | a card whose profile plans its own steps | no repeat, never deferred |
| `refresh` | `card-refresh` | reused while queued; cancelled by resolve |
| `session` | session link of a diagnosis | revived when an ACK cancelled it |
| `progress` | setback or interruption notice | nothing to say once resolved |
| `recovery`, `phase` | the concluding notices | skip the edit pause; `phase` keeps a card that would be deleted |
| `edit` | migration of an old card in place | no new message, no staleness |
| `message` | any adapter outside Telegram | exceptions are retried |
| `agent` | `gptadmin.agent:*` | survives an ACK, ignores mutes |

### The outbox: actions and code

| Actions | Code |
|---|---|
| `ClaimDueDelivery`, `CancelStaleCard` | `claim_due_deliveries` |
| `BuildPayload` | `delivery_is_claimed` and `delivery_payload` under `delivery_send_lock` |
| `ReserveDeliverySend`, `ReserveTelegramSend` | `reserve_delivery_send`: the compare-and-set on `claimed`, and the Telegram postponements |
| `TurnCardAway`, `RaiseBeforeReserve` | the early exits of `deliver` before the reservation |
| `TelegramReturns`, `EditIsRecorded`, `EditReturns`, `MessageReturns`, `AgentReturns`, `AgentRaises`, `AgentGivesUp` | the outcomes of the external send, with `complete_delivery` and everything it schedules: fan-out (`_schedule_failure_neighbours`), successor or repeat of a policy step, card refresh |
| `ReportIsRefused` | `complete_delivery("sent")` raises and the common handler of `deliver` reports a retry |
| `AfterTelegramDelivery` | `_after_telegram_delivery`, a transaction of its own |
| `ScheduleExecutorLaunchFailure` | `_schedule_executor_launch_failure`, after the transaction of the report |
| `Crash` | a process dies with its threads; rows keep what was committed |
| `Acknowledge`, `Resolve`, `Snooze` | `acknowledge_if_active`, `resolve` and `resolve_event`, `snooze` |
| `Mute`, `Unmute` | `set_incident_notifications_muted` |
| `ScheduleNotice`, `QueueIncidentCardRefresh` | `record_health_agent_session`, `schedule_health_outcome`, `queue_incident_card_refresh` |
| `Tick` | time |

The lock: several processes share one store (`docs/mesh-ha.md:20-22`), and
`delivery_send_lock` is a lock of one process.  It is held from the payload of a
Telegram send to its reservation, so `Locked(p)` is *some thread of p is
`prepared`*, and no other step of that process happens meanwhile; the steps of
the other processes do.

### Calls: state, actions and code

| Variable of `CallEscalation` | Code |
|---|---|
| `row`, `receipt`, `tried` | call rows of `deliveries`; what `result_json` proves; how long `claimed_at` stays within the interval |
| `incident` | as above |
| `budget` | `call_problem_budgets`: what is left of the interval, `last_delivery_id` |
| `enabled`, `recalling` | the setting `automatic_calls_enabled`; between its change and `_cancel_queued_calls` |
| `announced`, `announcing` | incidents whose first card was sent, and those whose sender is still in `_after_telegram_delivery` |
| `worker` | program counter and locals of a thread of the call pool |
| `since`, `dialled` | history, read by properties only |

| Actions | Code |
|---|---|
| `FirstCardIsSent`, `ScheduleEscalation`, `CrashOfSender` | `_after_telegram_delivery`: a first card of a critical incident, then one transaction per call |
| `ClaimCall` | `claim_due_deliveries(channel_group="call")` |
| `ReadSwitch`, `CancelDisabled`, `QuietHours`, `RaiseBeforeReserve` | `deliver` before the reservation |
| `ReserveCall` | `reserve_delivery_send` with `_reserve_problem_call` and `continuation`, one transaction |
| `ContextIsSent`, `ContextIsMissing` | `_send_critical_pre_call_context` and what `deliver` makes of its answer |
| `Dial`, `CallReturns`, `StageIsAnswered`, `CallIsAnswered`, `AnswerIsRecorded` | the adapters, their outcomes and exceptions; `complete_delivery` with `advance`, fan-out and follow-up |
| `Acknowledge`, `Resolve`, `Snooze` | owners, also a voice receipt (`acknowledge_phone_receipt`) |
| `SetAutomaticCalls`, `CancelQueuedCalls` | `set_automatic_calls`, two steps on the admin's page |

`Kind` is what places a call: `matrix`, `telegram` and `phone` are the stages of the
chain and, outside it, the ladder's and policies' calls of that name; `app` is
`android.telegram.call`; `adapter` any other method of a policy.  `Chain`, `Successor`,
`Neighbours`, `FollowUps` and `Escalation` say which rows an instance may create.  A
call thread holds no lock while it calls, so a thread stands for a process.

### Incidents: state, actions and code

One deduplication group of one recipient; an incident is the n-th row of it.

| Variable of `IncidentLifecycle` | Code |
|---|---|
| `report` | what the source measured, in the order of its clock |
| `taken` | which `events` and resolution events were accepted, by idempotency key |
| `incident` | `incidents`: state, correlation id, occurrences |
| `origin` | `incident_lifecycle`: generation, `latest_observed_at`, bound session |
| `check`, `finished` | the verification state and attempt of an incident; `incident_verification_requests` |
| `continuation`, `ticket` | `incident_group_completions.continuation_json`; deliveries `source-check`, one per attempt |
| `verifier`, `acts` | what a verifier holds between its order and its answer; a bound on owners |
| `ground`, `reopened` | history, read by properties only |

| Actions | Code |
|---|---|
| `Measure` | the source, external |
| `CreateEvent`, `ResolveEvent` | `create_event` with `observe_degraded`, `resolve_event` |
| `AcknowledgeIncident`, `ResolveIncident`, `SnoozeIncident` | the operator's transitions |
| `BindSession`, `Finish` | `record_health_agent_session`; `finish` for an incident and its peers |
| `ClaimTicket`, `TakeOrder`, `MeasureSource`, `AnswerCheck` | the queued continuation; `due_checks`; the verifier between the calls; `check` |

### Questions: state, actions and code

| Variable of `HumanRequests` | Code |
|---|---|
| `question`, `overdue` | `human_requests`: status and answer; the wall clock against `expires_at` |
| `closed` | the incident of a bound question is closed |
| `completion` | `human_completions`: resume state, card state, receipt |
| `herder` | Agent Herder, external: what it knows of the session's resume |
| `asker` | threads of the HTTP processes and of the completion pool |
| `doubt` | history: calls whose outcome is unknown |

| Actions | Code |
|---|---|
| `Create`, `CancelQuestion` | `create_human_request`, `cancel_human_request` |
| `Read`, `Expires` | `_expire_human_request`, which every list or get runs, and time |
| `Answer` | `complete_human_request`, from every surface |
| `CloseCase`, `ReopenCase` | `_transition` of the incident, which withdraws its questions; `snooze` |
| `ReplayCompletion`, `ReadCompletion`, `Claim` | `due_human_completions`, `deliver_human_completion`, `claim_human_completion` |
| `PostIsRefused`, `PostIsAdmitted`, `PostIsLost`, `LateCall` | `resume_bound_native_session`: the outcomes of the call, and a lost one that lands after all |
| `RecordOutcome` | `mark_human_completion` |
| `ReceiptIsRead`, `ReceiptIsMissing`, `Reconcile` | receipts of a registered session, `reconcile_human_completions` |
| `ReplayCard`, `CardIsSettled`, `EditCard`, `CardIsEdited` | the card that shows the answer |
| `HostCrash` | a process dies with its threads |

| Variable of `TaskDecisions` | Code |
|---|---|
| `decision`, `notice`, `control` | the tables of `task_decisions.py`: the decision, its question, its control |
| `owed` | the continuation of the task that the decision owes |
| `board`, `posted`, `revoked` | external: the board of tasks, the notices that were posted, what the task's owner applied |
| `clerk` | threads that ask a question or dispatch a control |

| Actions | Code |
|---|---|
| `CreateDecision`, `ReserveQuestion`, `AskForQuestion`, `QueryQuestion`, `SubmitQuestion`, `QuestionIs*` | the question and its notification, `task_decision_service.py` and the transport: reserve, query an earlier attempt, submit, record |
| `AnswerDecision`, `AnswerFromBoard`, `ResolveDue`, `CancelDecision` | the ways a decision is made |
| `Continue`, `ResumeAfterHold` | the continuation; an explicit resume after an acknowledged hold |
| `RequestControl` | `request_control` |
| `LookAtControl`, `ClaimControl`, `ReadCommand`, `QueryControl`, `Revoke`, `RecordReceipt`, `RecordDoubt` | `_dispatch_task_controls`, call by call, of a deployment that gives its worker a `task_action_owner`; `bin/notify-center` gives none (`http_api.py:1630-1632`), and a directive then stays pending |
| `DeadlinePasses`, `LeaseExpires`, `SiteCrash` | time, a lease, a crash |
| `BoardMovesOn` | external: the board rewords, replaces or ends the task |

### Around the repair: state, actions and code

| Variables | Code |
|---|---|
| `HealthPlans`: `attached`, `card`, `shown`, `selection`, `remediation` | events `health.plans_attached`, the deliveries that show them, what the message says, `health_plan_selections`, the remediation's delivery |
| `process`, `custom`, `deferred` | threads of the HTTP and delivery processes; a profile that sends its own steps; attachments that met a send in progress |
| `HealthRepair`: `incident`, `closers`, `finished`, `selected`, `offered`, `progress`, `verified` | the state of the incident, and who resolved it so far; events of an attempt's end, of plans, progress and verification |
| `closing`, `recorded`, `announced` | what each resolver read, the event `health.resolved`, the delivery of that name |
| `review`, `decision`, `first`, `muted` | the audits of a withheld card and of the decision about it, the card, the mute of the source |
| `job`, `agent` | the deliveries of diagnosis and remediation, the worker that runs one |
| `TelegramInteractions`: `script`, `lease`, `offset`, `claimed`, `poller` | the Bot API's updates, `runtime_leases`, the offset, `telegram_updates`, each poller |
| `receipt`, `accepted`, `marked`, `unvouched`, `forbidden`, `diagnosis` | `selection_receipts`; what Agent Herder accepted; the mark on the card; history: the receipt was stored without Herder's word for it; the owner's policy; the jobs that were asked for |
| `AgentJobs`: `kind`, `submission`, `run`, `session`, `stop` | the job's deliveries and their worker; the runs of the helper; Agent Herder's sessions; the owner's policy |

| Actions | Code |
|---|---|
| `AttachPlans`, `AskForPlan`, `CheckPlan`, `SelectPlan`, `Recommendation` | `record_health_update`, `record_health_plan_selection` and their callers |
| `ClaimCard`, `BuildPayload`, `Reserve`, `CardIsShown`, `CardIsUncertain`, `CardIsRefused`, `Withdraw` | the delivery of the plans' card: `deliver` |
| `OfferPlans`, `ChoosePlan`, `ReportProgress`, `RecordVerification` | the events of the workflow |
| `VerifierCloses`, `AskToClose`, `Proven`, `RecordResolution`, `Transition`, `Announce` | the gates of the workflow's resolvers and the transactions after them; a conflict of `RecordResolution` refuses the agent's receipt (`Refused`) |
| `DeclareFinished`, `SourceRecovers`, `SourceCheckCloses` | `finish`; the source's own recovery (`core.py:2481-2498`), its check after a finished attempt (`incident_lifecycle.py:387-389`), neither of which asks the gate |
| `AskOperator`, `Mute`, `Unmute` | a pending question and the end of a mute, which bring the card out undecided (`core.py:2394-2401`, `5380-5391`), as `OfferPlans` does |
| `Launch`, `Judge`, `ConcludeDiagnosis`, `ConcludeRemediation`, `SendFirst` | `record_agent_job_result`, the judgement and the card it releases |
| `Ended`, `CompleteJob`, `Interrupted`, `Blocked` | the branches of `deliver` for agent jobs |
| `Elect`, `LeaseExpires`, `Fetch`, `ClaimUpdate`, `CompleteUpdate`, `Raises` | `claim_runtime_lease`, `poll_once`, the rows and the offset |
| `ApplyChoice` (`CallHerder`), `RecordChoice`, `MarkCard`, `ReadJob`, `InsertJob`, `ApplyOwner`, `PostOwner`, `ReplyOwner` | the handlers, one step per transaction or external call |
| `ReportChoice` | `record_incident_choice_result`, with any of the presented options |
| `JobEnds`, `AnsweredElsewhere`, `ConsoleTurns` | what others do meanwhile |
| `Submit`, `PostJob`, `Collect`, `PollRaises` | the adapters of `gptadmin_agent.py` |
| `CheckOwner`, `CheckSources`, `CheckAgain`, `Call`, `Arm`, `Unarmed`, `StopSession`, `ObserveSession`, `ObservationRaises`, `RunRaises` | a run of `agent_job_helper.py` with `source_gate.py` |
| `SessionEnds`, `OwnerTurns` | Agent Herder and the owner |

### Where the model is coarser than the code

* A send whose card did not change is *coalesced* in the code without leaving
  the lock (`http_api.py:1357-1367`); in the model it reports in a step of its own.
  The model has more interleavings, not fewer.
* Whether the payload asks for the deletion of a closed card is evaluated when
  the payload is built.  A pending question keeps a card that would be deleted;
  questions are not in this module, so deletion is a choice.
* The scope of a mute (exact key or prefix) is a set of incidents, and ending it
  lifts the same set.
* The order in which due rows are claimed is free; fairness stands for it.
* Consumer quiet hours only move `due_at`, mutes only withhold a claim: in
  `CallEscalation` both are a due row that nobody claims yet.
* Without a budget row the code looks for the most recently updated attempt about the
  problem; the model accepts any recent one.  Deployment is the only time it matters.
* A chain row whose metadata was damaged is turned away by `deliver`; the code writes
  none.
* `LaunchCard`, `Repeats`, `FollowUps`, `Neighbours`, `Restored`: which rows an
  operation may create is a constant of the instance; whether and when it
  creates them is the code's guard.
* A question's and a decision's wall clock is one flag per deadline: before it or past it.
* A bundle of plans with the same ids and other texts counts as the same bundle.
* A verification is healthy, degraded or about another fingerprint; a plan's text, a model and
  a route are not told apart.
* `HealthRepair` has one state, `open`, for every incident that is not resolved: an acknowledged or
  snoozed one sends no card until it is open again, which here is a card not sent yet.
* The measurement of `SourceRecovers` and `SourceCheckCloses` is the source's; which of several counts is the
  subject of `IncidentLifecycle`.
* Agent Herder's answer about a choice names the accepted option, or none of the presented ones; the handler
  cannot tell an answer about another option from the accepted one.

## 3. What TLC checks

`Incidents`, `Questions`, `Operations` and `OutboxReplicas` say `CHECK_DEADLOCK FALSE`:
there every question, incident or row really comes to an end, and nobody acts after it.

| Run | Instance | Properties | Shows |
|---|---|---|---|
| `OutboxCards` | one incident: card, repeat, refresh, an edit of a migrated card; deletion on; 2 threads | `TypeOK`, `OneCardPerFamily`, `OneTelegramSendPerFamily` | at most one message per card even when its receipt is lost, a new one only after the deletion; one send of a card at a time |
| `OutboxMessages` | two policy steps with ceilings 2 and 1, a fan-out, 3 claims, 1 crash | `NoBlindResend`, `LicencesWithinCeiling`, `LateReportChangesNothing`, `KeepsContract` | sends answer reported failures, within the ceiling; late reports change nothing |
| `OutboxAgent` | an executor launch, its interruption notice, the incident it raises with its card, a mute of both; 1 crash, 1 refused report | `SilentWhenClosed` | ending a mute revives only active incidents; the jobs an ACK spares are withdrawn by resolving |
| `OutboxLiveness` | a message and a session link under `FairSpec`, 1 crash | `FinishedIsFinal`, `ClaimIsNotStranded`, `QueuedMessageIsDecided` | a dead claim is taken over, a queued message is decided; only a cancelled session link is queued again |
| `OutboxReplicas` | two cards of one family, a recovery notice, 2 processes, a longer edit pause | `OneCardPerFamily` (violated) | finding 1 |
| `OutboxRefused` | one card, one refused report | `NoBlindResend` (violated) | finding 2 |
| `CallsLadder` | a ladder call and its fan-out, a phone call with a ceiling; owners, 1 crash, the switch used once | `OneEpisodePerInterval`, `NoCallOnceDisabled` | retries and fan-outs are limited by their own and others' calls; after the recall none is placed |
| `CallsStages` | two stages of a chain under `FairSpec`, answers, owners, 1 crash | `TypeOK`, `NoCallOnceClosed`, `QueuedCallIsDecided` | nobody is called about a closed incident; a due call is placed or finished |
| `CallsRecalled` | two stages, the switch | `NoCallOnceDisabled` (violated) | finding 3 |
| `Incidents` | two episodes, one with a clock; 3 reports sent again and overtaking each other; an attempt, a verifier, an operator | `IncidentTypeOK`, `CountedOnce`, `OneActiveIncident`, `ResolvedOnLatestEvidence`, `OneContinuation`, `NoOrderIsLost` | one incident per episode, closed on the latest evidence; a finished attempt that is found degraded continues once |
| `Questions` | one of four requests (bound to an incident, registered, secret, with an expiry) or one of four decisions; 2 threads in 2 processes, 1 crash, 1 refusal or silence, 2 controls; fairness | `QuestionsTypeOK`, `NoBlindReplay`, `AnswerStands`, `ShownIsTrue`, `PostedOnceThenDecided`, `AcknowledgedWasApplied`, `KeepsResumeContract`, `OneDecision`, `StopIsFinal`, `RequestIsServed`, `DecisionIsServed` | one answer, one resume, one post, one decision; what a reader is told is true; a resume and the decision of a deadline come in the end |
| `Operations` | one incident's plans, its repair, taps on its card, or its agent jobs | `OperationsTypeOK`, `OneRemediation`, `OneCardShowsThePlans`, `ClosedIsProven`, `DecidedWhenDiagnosed`, `TelegramIsExact`, `AgentJobsAreExact` | one plan executed, one card; the workflow closes on evidence, whatever the source measures beside it; an update applied once or lost with its poller; one executor per operation |

Bounds.  Two threads are what it takes for a claim to be taken over while its
first holder still runs; a third would only repeat the second.  `MaxAttempt` is 2
or 3: a lost generation, the one that took over, and in `OutboxMessages` one more,
because a ceiling of 2 needs an attempt beyond it; `OutboxAgent` is about what closes
and revives a row and needs one.  One crash makes every crash-shaped hazard happen
once; `OutboxCards` leaves it to the others, because the creation fence
treats a lost receipt (`uncertain`) like the send that a crash cut off (`sending`).  Durations are 1 (`StaleAfter` 2): only their order with
one another matters, and a duration of 1 already lets every other action happen before
and after it; `OutboxReplicas` needs an edit pause longer than the busy delay.  Three or four
rows are the most any operation relates: a row, the one it schedules, and a competitor.
The calls' interval is 2, longer than a lease and a retry together with a tick, so a claim
can expire and be taken over inside it.  The chain of the instances has two stages: each
stage only looks at the one before it.

`Incidents` has two incidents of two episodes (a peer to finish with, and an episode to
mistake for another) and three reports (a degradation, one that overtakes it, a
recovery).  In `Questions` and `Operations` a behaviour is about one question, one part of
the operations: the questions of different people share no row, and neither do the
parts, except through the events they take as inputs.  `MaxAttached` 3 allows a bundle to be
replaced and to come back; `MaxVerifications` and `MaxClosing` 2 let two resolvers hold different
verifications; the incident that waits for a judgement is checked with one verification and no
selection but a crash, a retry and mutes, the others without those three; scripts of two updates
are the shortest in which one is applied while the other is repeated; two submissions
are a job and its continuation.  `Launch` runs one job of an incident at a time (a bound named at
the guard); the launches that overlap are the runs of `AgentJobs`.

`SYMMETRY` exchanges the threads of one process and, in `Operations`, processes and
pollers, whose names occur in no property; runs with a temporal liveness property and
those with two named processes do without.

### Fairness

`FairSpec` assumes weak fairness of time and of each thread, and strong fairness
of claiming each row.  The loops of `bin/notify-center:71-109` run for as long as
the process does, and a thread that began `deliver` goes on with it.  A due row may
be postponed or compete with others, so `Claim(d)` (`ClaimCall(w, c)` of the calls) is
enabled again and again rather than always; rows are selected in the order of `due_at`, so
a row that keeps becoming due is reached.  Owners and producers owe nothing, and neither
does a crash.  `ScheduleEscalation` is weakly fair, since the thread that sent the card goes
on.  `QueuedMessageIsDecided` and `QueuedCallIsDecided` except rows whose claims reach
`MaxAttempt`: the bound is the model's, not the code's.

`Questions` assumes weak fairness of each thread that has begun a resume or a card
(`AskerStep`) and strong fairness of what the worker's tick looks for (`http_api.py:1697-1720`):
due completions and cards (`ReplayCompletion`, `ReplayCard`) and the card's lock (`EditCard`).
Strong, since another thread may hold what the tick finds and give it back.  Of the decisions it
assumes weak fairness of the clock alone (`ResolveDue`, `http_api.py:1622-1627`): one tick reads
the 50 rows whose deadline is oldest (`task_decisions.py:210-216`) and leaves those the board
refuses where they are, so for every row it assumes that fewer than 50 are due at once, and a
board that can be reached.  Nothing is assumed of controls: `bin/notify-center:167-185` wires no
`task_action_owner`, and a directive stays pending until a deployment does
(`http_api.py:1616-1617`).  `DecisionIsServed` therefore speaks of deadlines, and of those that no
directive stopped.  Persons, the board and crashes owe nothing.  What stays without an end is
excepted in the properties by name: a claim whose process died (`ResumeIsDecided`) is stranded in
the code as well, see below.

### Findings

1. **Two replicas may create two cards** (`OutboxReplicas`).  The payload is read under
   a lock of one process, before the reservation; a recovery notice skips the edit
   pause that would otherwise put it back (`docs/repair-first-plugin-handoff.md:374-378`).
2. **A refused report repeats a Telegram send** (`OutboxRefused`).  The common handler
   of `deliver` reports `retry`, although a failed Telegram call is `uncertain`.
3. **The recall of queued calls leaves out the Telegram stage** (`CallsRecalled`).
   `_cancel_queued_calls` (`admin.py:684`) names three channels; the chain's second stage,
   `telegram.call`, is not among them, so a worker that read the switch earlier places it.

Other places where code and documents differ, or where the code leaves something
behind, read off the same actions and not given a run of their own.  Deliveries and calls:

* *A dead send is never reclaimed.*  `docs/admin.md:98-102` and `core.py:2906-2907`
  promise at-least-once delivery by lease reclaim.  The reservation moves the row to
  `sending` and only `claimed` rows are reclaimed, so a worker that dies mid-send
  strands its row, and every later card of its family postpones itself.
* *`max_repeats` bounds sends, not attempts.*  `core.py:2724-2725` speaks of attempts;
  claims burnt by crashes count past it, the sends do not (`SentWithinCeiling`).
* *A resolved incident can be snoozed back to life.*  `core.py:3560` says resolving
  prevents future delivery; `snooze` has no guard on the state, and HTTP lets it through.
  The incident is then active beside the one that a new report opened: `OneActiveIncident`
  speaks of incidents that were not (`reopened`).
* *Calls after a first card are lost by a crash* (`CrashOfSender`).  `http_api.py:1152`
  calls their scheduling durable; it is a transaction after the one of the report.
* *A rejected call ends as uncertain* (`ReportsOf`), although
  `docs/voice-confirmation.md:23` keeps a known rejection retryable.
* *A call that waits for its context refuses itself.*  The reservation opens the interval
  before the context is sent, and the retry meets its own budget row (`core.py:3065`).

Incidents and questions:

* *A recovery that arrives before its degradation* finds no incident and is not kept; the
  incident then stays open until a verifier looks.
* *A continuation nobody can claim.*  A check answered in its own generation about an incident
  that was resolved meanwhile queues a continuation (`incident_lifecycle.py:405-415`); deliveries of
  a resolved incident are not claimed.
* *A completion left in `sending` by a crash* is stranded: only `pending` and `retryable` ones
  are due.  A registered session's can be reconciled from its receipt.
* *A misrouted process takes no claim.*  It marks the completion `retryable` without one
  (`http_api.py:2101-2105`) and may withdraw the state another thread is about to use;
  `docs/repair-first-plugin-handoff.md:398-401` says in-flight admissions are never rewritten.
* *`continuation_allowed`* (`task_decisions.py:440`) has no caller: whether a task goes on
  after a control is up to the task's owner.
* *A control about a question of the harness `opencode`* raises outside the handlers of
  `_dispatch_task_controls` (the command accepts `codex` only), and the loop of the worker catches
  `sqlite3.Error` alone.

The repair of an incident:

* *A failure can stay hidden.*  `core.py:4283-4284` says that a missing judgement never hides one.  A diagnosis
  that the source gate blocks is cancelled without a decision (`http_api.py:1580-1584`), and its card
  stays withheld; `DecidedWhenDiagnosed` speaks of diagnoses that ended.
* *A card goes out undecided.*  Attached plans (`core.py:6462-6479`), a pending operator question
  (`core.py:2394-2401`) and the end of a mute (`core.py:5380-5391`) queue the card of an incident whose review
  is not over; once it was sent, the diagnosis decides nothing any more (`core.py:4416`).
  `DecidedWhenDiagnosed` excepts such cards (`first = "sent"`): what is promised is that none is withheld
  without a decision.
* *The source closes without the gate.*  Its own recovery and its check after a finished attempt resolve a
  health incident with neither progress nor a verification event (`core.py:2481-2498`,
  `incident_lifecycle.py:387-389`); only `resolve_health_incident` (`core.py:4987`) asks for both.
  `ClosedIsProven` speaks of the resolvers of the workflow (`closers`).
* *A reported choice is not compared with Agent Herder's.*  `record_incident_choice_result`
  (`http_api.py:1761-1785`) stores any presented option, before Herder accepted one or against it, and the
  handler of a tap stores the tapped option when Herder names none of the presented ones
  (`telegram_interactions.py:1078-1080`).  `OneAnswerEverywhere` then promises one answer on the card and in the
  store (`unvouched`), and agreement with Herder otherwise.
* *Plans attached while a card is being sent* are deferred, and nothing schedules their card
  afterwards (`core.py:6341-6360`); a claimed edit whose payload was built before shows the older bundle.  The
  `PlansReachTheCard` part of `OneCardShowsThePlans` excepts what the code leaves behind (`deferred`):
  these two, a list whose plans were attached before, a card without a proof of its message, a send
  with an unknown outcome, a card whose attempts are used up, and one an operator withdrew.
* *The announcement is lost* if the process dies after the transition; a degraded outcome of a
  remediation is announced without a look at the incident (`core.py:4078-4085`).
* *An update is lost* if its poller dies between the claim and the handling, although
  `core.py:3593` advances only after processing; *an owner's command is replayed* if its reply fails,
  although `telegram_interactions.py:803-804` says it must not be; `_safe_owner_reply`, which would prevent it,
  is not used there.  `TelegramIsExact` excepts these updates by name (`excused`, `unanswered`).
* *A choice button carries an index*, resolved against the newest question of the incident
  (`core.py:5721-5737`).
* *A second run of the helper* starts after any error of the submission, admitted or not, although
  `gptadmin_agent.py:182` falls back only before durable admission.  Only the stable operation id keeps
  it one executor (`AgentJobsAreExact`), and a run that cannot arm the session it created stops it while
  the other observes it.
* *The sources are checked by the helper alone.*  `source_gate.py:53` says the server checks the same list
  again; the launch of a health job does not send it.

## 4. What is proved

For every set of rows, incidents, questions, plans, processes and threads, every
ceiling, every number of crashes and every duration, under the assumptions the
modules state about the shapes of their constants (`OutboxAssumption`, `CallAssumption`,
`LifecycleAssumption`, `HumanAssumption`, `TaskAssumption`, `PlansAssumption`,
`RepairAssumption`, `TelegramAssumption`, `AgentJobsAssumption`) alone, but for the three theorems
whose row names another assumption:

| Module | Theorem | Statement |
|---|---|---|
| `DeliveryOutboxProofs` | `TypeCorrect` | `Spec => []TypeOK` |
| `DeliveryOutboxSafety` | `GenerationsApart` | `Spec => []Inv`, the inductive invariant below |
| | `ContractImplemented` | `Spec => KeepsContract`: every step of the outbox is a step of `DeliveryContract` or a stutter of it |
| | `NeverResentBlindly` | with `MaxFaults = 0`, `Spec => []NoBlindResend`; finding 2 is why the assumption is needed |
| | `SentWithinCeiling` | `Spec => []LicencesWithinCeiling` |
| | `OneSendAtATime` | `Spec => []OneTelegramSendPerFamily` |
| | `FinishedStaysFinished` | `Spec => FinishedIsFinal` |
| | `LateReportsAreIgnored` | `Spec => LateReportChangesNothing` |
| | `OneCardInOneProcess` | with one process and `MaxFaults = 0`, `Spec => []OneCardPerFamily`; findings 1 and 2 are why |
| | `ClosedIsSilent` | `Spec => []SilentWhenClosed` |
| `DeliveryContract` | `ContractKept` | whatever keeps the contract repeats no send blindly and stays within its limit |
| `CallEscalationProofs` | `TypeCorrect`, `EpisodesInTurn` | `Spec => []TypeOK`, `Spec => []Inv` of the calls |
| | `OneEpisodeAtATime` | `Spec => OneEpisodePerInterval` |
| | `ClosedIsNotCalled` | `Spec => NoCallOnceClosed` |
| | `SwitchIsEffective`, `RecalledIsNotPlaced` | the inductive invariant of the switch; a call that the switch takes back is not placed while it is off |
| | `DisabledIsNotCalled` | if the switch takes back every call, `Spec => NoCallOnceDisabled`; finding 3 is why the assumption is needed |
| `IncidentLifecycleProofs` | `TypeCorrect`, `InvariantHolds` | `IncidentTypeOK` and the inductive invariant |
| | `ReportsCountOnce`, `EpisodeHasOneIncident`, `LateEvidenceClosesNothing`, `CompletionContinuesOnce` | `CountedOnce`, `OneActiveIncident`, `ResolvedOnLatestEvidence`, `OneContinuation` |
| | `OrdersAreNotWasted` | `NoOrderIsLost` |
| `QuestionsProofs` | `RequestsAreSound`, `DecisionsAreSound` | the inductive invariants of the two modules |
| | `NothingIsReplayedBlindly`, `AnswersStand`, `ReadersAreToldTheTruth` | `NoBlindReplay`, `AnswerStands`, `ShownIsTrue` |
| | `ResumeContractImplemented` | `HumanSpec => KeepsResumeContract`: every step of the questions is a step of `ResumeContract` or a stutter of it |
| | `ResumeContractSuffices`, `SessionsHearWhatStands` | whatever keeps the contract, and so `HumanSpec`, tells a session only the answer that stands (`ToldWhatStands`) and goes back on nothing (`Final`) |
| | `PostedOnce`, `ReceiptsAreMatched`, `DecidedOnce`, `StopsAreFinal` | `PostedOnceThenDecided`, `AcknowledgedWasApplied`, `OneDecision`, `StopIsFinal` |
| | `QuestionsAreTyped`, `QuestionsAreSafe`, `QuestionsStepSafely` | of the composition `QuestionsSpec`: `QuestionsTypeOK`, and the properties of both halves |
| `OperationsProofs` | `OnePlanIsExecuted`, `CardShowsThePlans` | `OneRemediation`, `OneCardShowsThePlans` |
| | `ClosingIsProven`, `WithheldCardIsDecided` | `ClosedIsProven`, `DecidedWhenDiagnosed` |
| | `UpdatesAreExact` | `TelegramIsExact` |
| | `ExecutorIsExact`, `OneSessionPerDelivery` | `AgentJobsAreExact`; the Hub's run and the fallback of a delivery create one session between them |
| | `OperationsAreTyped`, `OperationsAreSafe` | of the composition `OperationsSpec`: `OperationsTypeOK`, and the properties of the four parts |

Each theorem about the questions or the repair is about one module on its own.
`MCQuestions` and `MCOperations` interleave their modules; a step of the composition is a
step of one part and a stutter of the others (`QuestionsHalves`, `OperationsParts`), so the
inductive invariants of the parts together are one of the composition, and the last rows
of the two modules state of the composition what the runs check of it.

The argument.  None of the sends' properties is inductive over the workers: whether a
late report may requeue a row depends on who else holds it.  `Inv` says that

* the generation a thread holds is not newer than its row's,
* no two busy threads hold the same generation of the same row, and
* a thread still before the reservation, whose generation is current, has not
  reserved it: the row is not `sending`.

So of all threads that ever claimed a row at most one can be the one that licensed the
send in flight, and a report that finds the row `sending` in its own generation comes
from that thread, after its send.  With this each action maps to a `RowStep` of every
row (`Steps` in `DeliveryOutboxSafety`), and `NoBlindResend` and
`LicencesWithinCeiling` follow from `ContractKept` in the abstract, where the only
accounts to keep are those of a single row.  `OneTelegramSendPerFamily` needs the
guard of the reservation only, which reads the family in the same transaction.
`SilentWhenClosed` is preserved action by action; the actions that matter are those
that make a row wait (schedules, retries) and those that close an incident.
`LateReportChangesNothing` needs one thing more than the guard of the report: a schedule of
another row inserts absent rows only, and a row that was reclaimed is not absent.

`OneCardPerFamily` is an account: a creation is matched by a deletion, by the confirmed card,
or by a pledge, a row that is uncertain or that is being sent by a thread that creates or
died.  A report turns the pledge of its row into the card, or into `uncertain`; only a
refused report takes it away (finding 2).  A thread that creates finds no pledge in its family,
because the reservation looks for one (`Obstructed`), and no card, because the lock of the
process keeps what it saw when it built the payload true; a thread of another process saw
it under another lock (finding 1).

For the calls, `OneEpisodePerInterval` speaks of every episode that still runs, the code
only keeps the last call about a problem.  `Inv` connects the two: an episode never
outlasts the interval in the problem's budget row, and the call that began or joined it is
the last one about the problem, or an earlier stage of that last call's chain whose receipt
proves it was missed.  That proof is permanent, since a report needs the claim, the recall
and the owners only touch calls that are not finished, and the cancellation without a
generation (`CancelDisabled`) spares finished stages.  A licence then either finds the
interval over, so no episode runs, or finds its own predecessor as the last call, missed.
`NoCallOnceClosed` follows from *a call that waits belongs to an open incident*, which
every schedule, retry and owner's step preserves.

The switch is two steps, the setting and the recall of what waits, and a thread may have
read it before.  `SwitchInv` says that once both are done no thread that has passed its
look at the switch is ready for a call that the recall touches: the recall moved the row's
generation on (`GenerationsFollow`), so such a thread holds an older one, and a thread that
claims afterwards reads the switch itself (`NoneIsReady`).  The reservation compares
generations and fails.  A Telegram call or the method of a policy is not touched by the
recall, which is finding 3; `RecalledIsNotPlaced` says what holds of every other call in any
deployment, `DisabledIsNotCalled` what follows where there is no other kind.

For the incidents, the properties look at one moment each, the code keeps them apart by
generations.  The invariant says that every accepted report is remembered by exactly one
incident, that the active incidents of an episode which nobody snoozed back are one, and
that tickets, orders and answers carry the generation of the incident that asked for them.
An answer of an older generation then finds a guard that fails, and an answer of the
current one has seen every degradation that counts.

For the questions, `HumanInv` says who may call: one thread holds the claim of a request,
its row is `sending` meanwhile (or, for a registered session only, already settled by a
thread that asked for the receipt), and a call in doubt keeps the answer it was made with and
owes nothing.  `sent` is only written when the session was resumed and its receipt stored.
So a second call needs a proof of refusal, the answer stands while a session may have
continued with it, and what readers are shown (`ContinuationShown`) is what happened.
With it each action maps to a `RowStep` of `ResumeContract` for every question
(`ResumeMoves`): threads, cards, receipts and what Agent Herder does disappear, and the
states `pending` and `retryable` of a completion are one.  A registered resume may be
looked up, so another thread may record it while its caller still waits, and the caller's
own report then overwrites that record; the contract says so (`InFlight`), and promises
the finality of a recorded resume only where nobody looks it up.
The comment of `mark_human_completion` (`core.py:1935`) calls `sent` final; its update has no
guard on the state, so that holds of the row only while no second thread records it, which is
what the contract states.  No blind replay follows from it (`NoBlindReplay`): a row that is
overwritten becomes `unknown`, or `retryable` after Herder refused the call.
`TaskInv` says that the deadline runs from a stored receipt, which precedes the decision, that
of the threads that ask a question at most one is about to submit it while nothing was
posted, that what a thread heard from the owner of the task is true, and that a control is
acknowledged only after that directive was applied.

For the repair, `IsJustified` follows a verification through the four resolvers of the workflow: the
gate, the record and the transition are separate transactions, so the invariant keeps, for each
resolver, the evidence it read, and evidence is never taken back.  The source may close in between;
that adds to `closers` no resolver (`ByWorkflow`), and leaves who is halfway with the evidence it read.
`DecisionInv` ties the judgement to the job's end: a card that was not sent is either decided upon when the
job ends, or the job says nothing yet.  `CardFollows` keeps a decision to show with its card: whatever
withdraws the card closes or mutes, and the end of a mute queues it again.
`JobInv` says whose session an operation is: the one run that created it may stop it, the
others observe it; and a run that had not read the policy for the last time when the owner
stopped launches never comes to the call while the stop holds.

For the card, `CardInv` says that the first delivery and the slot are not active together.
`ReachInv` adds that, unless the code gave up (`deferred`), a delivery is on its way or the
latest plans are shown, and every payload that is built carries the latest plans.  A list
with new plans that leaves nothing behind finds no send in progress and no payload
built, so whichever way `record_health_update` takes, one delivery stays or becomes queued,
and it builds its payload from the latest list.

For the updates of Telegram, `UpdateInv` accounts for each of them: a claimed update is settled
(applied, or excused because its poller died) or in the hands of exactly one poller that
found it unapplied; a poller works on an update whose predecessors are settled; an update
whose claim was released has changed nothing, or its reply failed.  The lease alone would not
do, since it expires under its holder: the claim of the update does.  A poller comes to `fallback`
with an option of the question only (`FallbackTaps`), so the receipt is an option whichever way it was
stored; it is written once, and where nobody reported it and no fallback stored it
(`unvouched`) it is what Herder accepted, which never changes.  `DiagnosisInv` says that at
most the newest diagnosis is queued, and who inserts the next one found none.

The types bound counters and positions, and what bounds them is not always a guard.  No
step counts sessions: there are no more than deliveries because each belongs to the
delivery that asked for it (`JobBounds`) and no two continue the same one.  The plan an executor
reports on is a plan because the remediation exists only once one was selected
(`RemediationHasPlan`); a poller stays within its batch because its position is that of
an update it fetched; no epoch is carried or applied that was not asked for before
(`TaskBounds`).

Only model-checked: liveness (fairness and `ENABLED` are outside the prover's reach),
the five properties `ClaimIsNotStranded`,
`QueuedMessageIsDecided`, `QueuedCallIsDecided`, `RequestIsServed` and `DecisionIsServed`.  Every
invariant and every action property that a run checks has a theorem.

## 5. Not modelled, and why

In the modelled parts:

* `DeliveryOutbox`: quiet hours (they only move `due_at`); repeated events of an active
  incident, and the first card of an incident that was muted when it was created; cards placed
  by hand; denials of a policy; the binding of a question to its message; a receipt without
  a message identity; the capacity of the pools and their admission during a shutdown.
* `IncidentLifecycle`: events without an episode, which join any active incident of their
  key; digests; the binding of families; who may speak for a source.
* `HumanRequests`, `TaskDecisions`: the message a question is posted with, the sealed value
  of a secret, `resolve_human_request` and its Telegram forms, which only tests call.
* `HealthPlans`, `HealthRepair`: normalisation of signals and texts, the choice of a model, a
  route and its failover, the rules about notifications (`core.py:5400` on), coalescing onto the
  executor of a related incident; what ends a review other than a decision (AI on request, the severity,
  `telegram_all_notifications_enabled`: `core.py:3787-3799`), deletion of the card, the card of a family whose
  owner is another incident and sends it later, a send with an unknown outcome; what is said of an outcome
  other than `resolved`.
* `TelegramInteractions`: settings changed by buttons, replies to a message, Matrix rooms; more than one
  question of an incident.
* `TaskDecisions`: rows that are asked under the harness `codex` today: the board's verifier refuses their
  reference (`task_decision_service.py:405-438`), so neither an answer nor a deadline decides them, and the rows of an
  earlier release (`Legacy`) stand for what remains possible; a board that cannot be reached for a moment,
  which refuses like one that moved on.
* `AgentJobs`: parsing of receipts, jobs that are not about health, the stop of a failover,
  which the pinned route never reaches.

Parts without a module:

* *Store.*  Every module takes a transaction as one step.  What the driver does when the
  leader changes during a commit (`mesh_store.py:93`) is inside one such step, and what it cannot
  know belongs to dqlite, which is not in the repository.
* *Session archive and incident progress.*  Two pollers that copy what Agent Herder shows; no other
  part reads what they write.
* *Watchdog.*  One sequential loop with a counter, which unit tests reach.
* *Phone adapters, mesh phones, ExManager.*  They lie behind the send boundary: their outcomes
  are inputs.
* *Admin, consumer profiles, HTTP, formatting, MCP and command line clients, static pages,
  deployment, backup and migration scripts.*  Forms, parsing and rendering around the operations
  above; the switch for automatic calls, which is more than that, is in `CallEscalation`.

## 6. What would come next

| Module | Models | Checks and proofs |
|---|---|---|
| `Intake` | events without an episode, families, muted first cards, composed with the rows of `DeliveryOutbox` | one active incident per key; `OneCardPerFamily` across a family that grows |
| `MeshStore` | a leader change between the statements of a transaction, retried handlers | a transaction is applied whole, or reported as unknown |
| worker shutdown | admission, drain, restart | nothing admitted is dropped |
| quiet hours | pure functions over the minutes of a day | against a reference definition |
