--------------------------- MODULE CallEscalation ---------------------------
(***************************************************************************)
(* Calls about incidents: the ordered chain Matrix, Telegram, phone, whose *)
(* next stage needs the proof that the one before was missed; the older    *)
(* ladder and policy calls; the interval that all calls about one problem  *)
(* share; the operator's switch for automatic calls.                       *)
(*                                                                         *)
(* Rows are those of OutboxRows.  Call threads hold no lock, so a thread   *)
(* stands for a process of its own, which may die between any two steps.   *)
(***************************************************************************)
EXTENDS OutboxRows, FiniteSets

CONSTANTS
    Calls,        \* identities of call rows that exist or may be scheduled
    Incidents, Problems, Workers,
    NoCall,       \* the job of an idle thread
    Kind,         \* call -> what places it
    Chain,        \* calls that are stages of an ordered chain
    Successor,    \* stage -> the stage after it, as a set
    IncidentOf,   \* call -> incident
    ProblemOf,    \* incident -> problem: host and signal, or the dedup key
    MatrixOnly,   \* incidents of consumers with a Matrix only policy
    Escalation,   \* incident -> calls scheduled once its first card was sent
    Neighbours,   \* call -> rows of the adjacent methods
    FollowUps,    \* call -> next repeat or successor step of its policy
    Ceiling,      \* call -> max_repeats of its policy step, 0 without one
    Interval,     \* call_repeat_min_interval_seconds, 0 to switch it off
    Lease, RetryDelay, ContextDelay, EscalationDelay, StepDelay, SnoozeFor,
    Managed,      \* bound: the incidents that owners act on
    MaxAttempt,   \* bound: claims of one row
    MaxCrashes,   \* bound: process deaths
    MaxSwitches   \* bound: uses of the operator's switch

\* "app" is android.telegram.call, "adapter" any other method of a policy.
Kinds == {"matrix", "telegram", "phone", "app", "adapter"}

ASSUME CallAssumption ==
    /\ NoCall \notin Calls
    /\ Kind \in [Calls -> Kinds]
    /\ Chain \subseteq Calls
    /\ \A c \in Chain : Kind[c] \in {"matrix", "telegram", "phone"}
    /\ \A f \in {Successor, Neighbours, FollowUps} : f \in [Calls -> SUBSET Calls]
    /\ IncidentOf \in [Calls -> Incidents]
    /\ \A c \in Calls :
          /\ \A e \in Successor[c] \cup Neighbours[c] \cup FollowUps[c] :
                IncidentOf[e] = IncidentOf[c]
          /\ Successor[c] \subseteq Chain /\ (c \notin Chain => Successor[c] = {})
          /\ (Neighbours[c] \cup FollowUps[c]) \cap Chain = {}
    /\ ProblemOf \in [Incidents -> Problems]
    /\ MatrixOnly \subseteq Incidents /\ Managed \subseteq Incidents
    /\ Escalation \in [Incidents -> SUBSET Calls]
    /\ \A i \in Incidents : \A c \in Escalation[i] : IncidentOf[c] = i
    /\ Ceiling \in [Calls -> Nat]
    /\ {Interval, Lease, RetryDelay, ContextDelay, EscalationDelay, StepDelay,
        SnoozeFor, MaxAttempt, MaxCrashes, MaxSwitches} \subseteq Nat

VARIABLES
    row,         \* the call rows of the deliveries table
    receipt,     \* call -> what its result_json proves
    tried,       \* call -> what is left of the interval since claimed_at
    incident,    \* the incidents table: state and time left of snoozed_until
    budget,      \* problem -> its row of call_problem_budgets
    enabled,     \* the operator's switch
    recalling,   \* calls were switched off, the queued ones not yet cancelled
    announced,   \* incidents whose first card was sent ...
    announcing,  \* ... and whose sender has still to schedule the calls
    worker,
    crashes, switches,
    \* History, read by properties only.
    since,       \* call -> what is left of the interval since its episode began
    dialled      \* calls whose adapter went as far as placing them

table == <<row, receipt, tried>>
switch == <<enabled, recalling, switches>>
cards == <<announced, announcing>>
history == <<since, dialled>>
vars == <<row, receipt, tried, incident, budget, enabled, recalling, announced,
          announcing, worker, crashes, switches, since, dialled>>

Deliverable == {"open", "snoozed"}
IncidentStates == {"open", "acknowledged", "snoozed", "resolved"}
Receipts == {"none", "missed", "answered", "unknown"}

Stages == {"idle", "claimed", "disabled", "ready", "context", "calling",
           "ringing", "heard", "answered"}
Idle == [pc |-> "idle", job |-> NoCall, attempt |-> 0]

StateOf(c) == incident[IncidentOf[c]].state
Problem(c) == ProblemOf[IncidentOf[c]]
Predecessors(c) == {e \in Calls : c \in Successor[e]}

-----------------------------------------------------------------------------
Init ==
    /\ row = [c \in Calls |-> AbsentRow]
    /\ receipt = [c \in Calls |-> "none"]
    /\ tried = [c \in Calls |-> 0]
    /\ incident = [i \in Incidents |-> [state |-> "open", snooze |-> 0]]
    /\ budget = [p \in Problems |-> [left |-> 0, last |-> NoCall]]
    /\ enabled = TRUE /\ recalling = FALSE
    /\ announced = {} /\ announcing = {}
    /\ worker = [w \in Workers |-> Idle]
    /\ crashes = 0 /\ switches = 0
    /\ since = [c \in Calls |-> 0]
    /\ dialled = {}

\* Mutated form: a thread that is done keeps its job.
GoWithJob(w, pc) == worker' = [worker EXCEPT ![w].pc = pc]

Go(w, pc) == worker' = [worker EXCEPT ![w] = IF pc = "idle" THEN Idle ELSE [@ EXCEPT !.pc = pc]]

-----------------------------------------------------------------------------
(* _after_telegram_delivery: the first card of a critical incident was sent, *)
(* the calls are scheduled afterwards, each in a transaction of its own.     *)

FirstCardIsSent(i) ==
    /\ i \notin announced
    /\ announced' = announced \cup {i} /\ announcing' = announcing \cup {i}
    /\ UNCHANGED <<table, incident, budget, switch, worker, crashes, history>>

\* The older ladder schedules its Matrix call whatever the switch says.
Escalates(c) ==
    /\ row[c].status = "absent"
    /\ StateOf(c) \in Deliverable
    /\ enabled \/ (Kind[c] = "matrix" /\ c \notin Chain)

ScheduleEscalation(i) ==
    /\ i \in announcing
    /\ \/ \E c \in Escalation[i] :
             /\ Escalates(c)
             /\ row' = Scheduled(row, {c}, EscalationDelay, 0)
             /\ UNCHANGED cards
       \/ /\ \A c \in Escalation[i] : ~Escalates(c)
          /\ announcing' = announcing \ {i}
          /\ UNCHANGED <<row, announced>>
    /\ UNCHANGED <<receipt, tried, incident, budget, switch, worker, crashes, history>>

-----------------------------------------------------------------------------
(* claim_due_deliveries for the channel group of calls *)

\* Mutated form: an expired claim is not reclaimed.
DueWhenQueued(c) == row[c].status = "queued" /\ row[c].due = 0

Due(c) ==
    \/ row[c].status = "queued" /\ row[c].due = 0
    \/ row[c].status = "claimed" /\ row[c].lease = 0

ClaimCall(w, c) ==
    /\ worker[w] = Idle
    /\ Due(c)
    /\ StateOf(c) \in Deliverable /\ incident[IncidentOf[c]].snooze = 0
    /\ row[c].attempt < MaxAttempt
    /\ row' = [row EXCEPT ![c] = ClaimedRow(@, Lease)]
    /\ tried' = [tried EXCEPT ![c] = Interval]
    /\ worker' = [worker EXCEPT ![w] =
          [pc |-> "claimed", job |-> c, attempt |-> row[c].attempt + 1]]
    /\ UNCHANGED <<receipt, incident, budget, switch, cards, crashes, history>>

-----------------------------------------------------------------------------
(* complete_delivery *)

Holds(w) ==
    /\ row[worker[w].job].status \in Held
    /\ row[worker[w].job].attempt = worker[w].attempt

Effective(c, outcome) ==
    LET bounded == IF outcome = "retry" /\ Ceiling[c] >= 1 /\ row[c].attempt >= Ceiling[c]
                   THEN "failed" ELSE outcome
    IN  IF bounded \in {"sent", "failed", "retry"} /\ StateOf(c) \notin Deliverable
        THEN "cancelled" ELSE bounded

\* advance: the next stage of a chain whose stage was proved missed.
NextStages(c, effective, proof) ==
    IF effective = "failed" /\ proof = "missed" /\ StateOf(c) \in Deliverable
    THEN {e \in Successor[c] : IncidentOf[c] \in MatrixOnly => Kind[e] = "matrix"}
    ELSE {}

\* _schedule_failure_neighbours: not for an unknown outcome of a call.
FanOut(c, effective) ==
    IF /\ effective \in {"failed", "retry"} /\ StateOf(c) \in Deliverable
       /\ \A e \in Calls : c \notin Neighbours[e]
    THEN Neighbours[c] ELSE {}

NextStep(c, effective) ==
    IF effective = "sent" /\ StateOf(c) \in Deliverable THEN FollowUps[c] ELSE {}

Complete(w, outcome, proof, delay, fan) ==
    LET c == worker[w].job
        effective == Effective(c, outcome)
        settled == [row EXCEPT ![c] = IF effective = "retry" THEN RequeuedRow(@, delay)
                                                             ELSE WithStatus(@, effective)]
        next == IF c \in Chain THEN NextStages(c, effective, proof)
                ELSE (IF fan THEN FanOut(c, effective) ELSE {}) \cup NextStep(c, effective)
        after == IF effective = "sent" THEN StepDelay ELSE 0
    IN  \/ /\ Holds(w)
           /\ row' = Scheduled(settled, next, after, 0)
           /\ receipt' = IF proof = "none" \/ effective = "retry" THEN receipt
                         ELSE [receipt EXCEPT ![c] = proof]
        \/ ~Holds(w) /\ UNCHANGED <<row, receipt>>

Report(w, outcome, proof, delay, fan, pc) ==
    /\ Complete(w, outcome, proof, delay, fan)
    /\ Go(w, pc)
    /\ UNCHANGED <<tried, incident, budget, switch, cards, crashes, history>>

-----------------------------------------------------------------------------
(* DeliveryWorker.deliver of a call, before the reservation *)

ReadSwitch(w) ==
    /\ worker[w].pc = "claimed"
    /\ Go(w, IF enabled THEN "ready" ELSE "disabled")
    /\ UNCHANGED <<table, incident, budget, switch, cards, crashes, history>>

\* The report of a call that is switched off names no generation: it cancels
\* whatever the row has become, but for a stage that nobody holds any more.
CancelDisabled(w) ==
    LET c == worker[w].job
    IN  /\ worker[w].pc = "disabled"
        /\ row' = IF c \in Chain /\ row[c].status \notin Held THEN row
                  ELSE Cancelled(row, {c})
        /\ Go(w, "idle")
        /\ UNCHANGED <<receipt, tried, incident, budget, switch, cards, crashes, history>>

\* Global quiet hours, looked at after the switch.
QuietHours(w) ==
    /\ worker[w].pc = "ready"
    /\ Report(w, "cancelled", "none", 0, TRUE, "idle")

\* The payload cannot be built or the adapter is missing: a chain ends.
RaiseBeforeReserve(w) ==
    /\ worker[w].pc \in {"claimed", "ready"}
    /\ IF worker[w].job \in Chain
       THEN Report(w, "failed", "unknown", 0, TRUE, "idle")
       ELSE Report(w, "retry", "none", RetryDelay, TRUE, "idle")

-----------------------------------------------------------------------------
(* reserve_delivery_send and _reserve_problem_call, in one transaction *)

StillClaimed(w) ==
    /\ row[worker[w].job].status = "claimed"
    /\ row[worker[w].job].attempt = worker[w].attempt

ProvedMissed(c) == row[c].status = "failed" /\ receipt[c] = "missed"

\* continuation: the last call about this problem is the stage before, missed.
Continues(c) ==
    \E e \in Predecessors(c) : budget[Problem(c)].last = e /\ ProvedMissed(e)

\* Mutated form: a call is not limited by its own earlier attempt.
LimitedByOthers(c) ==
    /\ Interval > 0
    /\ budget[Problem(c)].last \notin {NoCall, c} /\ budget[Problem(c)].left > 0

\* Without a budget row yet, recent attempts in the table stand for it.
Limited(c) ==
    /\ Interval > 0
    /\ IF budget[Problem(c)].last # NoCall THEN budget[Problem(c)].left > 0
       ELSE \E e \in Calls \ {c} :
               /\ Problem(e) = Problem(c) /\ tried[e] > 0
               /\ row[e].status \in {"sending", "sent", "failed", "uncertain"}

\* Only the first stage, or a call outside chains, opens an episode.
Opens(c) == Predecessors(c) = {} /\ ~Limited(c)

License(w, c) ==
    /\ row' = [row EXCEPT ![c] = WithStatus(@, "sending")]
    /\ budget' = [budget EXCEPT ![Problem(c)] =
          [left |-> IF Continues(c) THEN @.left ELSE Interval, last |-> c]]
    /\ since' = [since EXCEPT ![c] =
          IF Continues(c) THEN since[budget[Problem(c)].last] ELSE Interval]
    /\ Go(w, IF Kind[c] = "phone" /\ c \notin Chain THEN "context" ELSE "calling")

ReserveCall(w) ==
    LET c == worker[w].job
    IN  /\ worker[w].pc = "ready"
        /\ \/ /\ StillClaimed(w) /\ (Continues(c) \/ Opens(c))
              /\ License(w, c)
           \/ /\ StillClaimed(w) /\ ~Continues(c) /\ ~Opens(c)
              /\ row' = Cancelled(row, {c})
              /\ Go(w, "idle")
              /\ UNCHANGED <<budget, since>>
           \/ /\ ~StillClaimed(w)
              /\ Go(w, "idle")
              /\ UNCHANGED <<row, budget, since>>
        /\ UNCHANGED <<receipt, tried, incident, switch, cards, crashes, dialled>>

-----------------------------------------------------------------------------
(* DeliveryWorker.deliver of a call, after the reservation *)

\* _send_critical_pre_call_context: a phone call waits for its Telegram card.
ContextIsSent(w) ==
    /\ worker[w].pc = "context"
    /\ Go(w, "calling")
    /\ UNCHANGED <<table, incident, budget, switch, cards, crashes, history>>

ContextIsMissing(w) ==
    /\ worker[w].pc = "context"
    /\ \/ Report(w, "retry", "none", ContextDelay, FALSE, "idle")
       \/ Report(w, "cancelled", "none", 0, TRUE, "idle")
       \/ Report(w, "uncertain", "unknown", 0, TRUE, "idle")

Dial(w) ==
    /\ worker[w].pc = "calling"
    /\ dialled' = dialled \cup {worker[w].job}
    /\ Go(w, "ringing")
    /\ UNCHANGED <<table, incident, budget, switch, cards, crashes, since>>

\* What the adapter, or the exception it raised, is reported as.
ReportsOf(c, rang) ==
    CASE c \in Chain /\ Kind[c] # "phone" -> {<<"failed", "missed">>, <<"uncertain", "unknown">>}
      [] Kind[c] = "phone"  -> {<<"uncertain", "unknown">>} \cup
                               (IF rang THEN {<<"sent", "answered">>} ELSE {})
      [] Kind[c] = "matrix" /\ c \notin Chain -> {<<"failed", "none">>, <<"uncertain", "unknown">>}
      [] Kind[c] \in {"app", "adapter"} \/ (Kind[c] = "telegram" /\ c \notin Chain) ->
            {<<"retry", "none">>} \cup (IF rang THEN {<<"sent", "none">>} ELSE {})

CallReturns(w) ==
    /\ worker[w].pc \in {"calling", "ringing"}
    /\ \E r \in ReportsOf(worker[w].job, worker[w].pc = "ringing") :
          Report(w, r[1], r[2], RetryDelay, TRUE, "idle")

\* An answered stage of a chain is recorded, then its incident acknowledged.
StageIsAnswered(w) ==
    /\ worker[w].pc = "ringing"
    /\ worker[w].job \in Chain /\ Kind[worker[w].job] # "phone"
    /\ Report(w, "sent", "answered", 0, TRUE, "answered")

\* Mutated form: a claimed call is left to its thread.
WithdrawnUnclaimed(c) == row[c].status \in {"queued", "sending"}

Withdrawn(c) == row[c].status \in {"queued", "claimed", "sending"}

Close(i, state) ==
    /\ incident' = [incident EXCEPT ![i] = [state |-> state, snooze |-> 0]]
    /\ row' = Cancelled(row, {c \in Calls : IncidentOf[c] = i /\ Withdrawn(c)})

AcknowledgeIfActive(i) ==
    IF incident[i].state \in Deliverable
    THEN Close(i, "acknowledged") ELSE UNCHANGED <<row, incident>>

\* Any other call acknowledges first, and is recorded afterwards.
CallIsAnswered(w) ==
    LET c == worker[w].job
    IN  /\ \/ worker[w].pc = "answered"
           \/ /\ worker[w].pc = "ringing"
              /\ c \notin Chain /\ Kind[c] \in {"matrix", "telegram", "adapter"}
        /\ AcknowledgeIfActive(IncidentOf[c])
        /\ Go(w, IF worker[w].pc = "answered" THEN "idle" ELSE "heard")
        /\ UNCHANGED <<receipt, tried, budget, switch, cards, crashes, history>>

AnswerIsRecorded(w) ==
    /\ worker[w].pc = "heard"
    /\ Report(w, "sent", "answered", 0, TRUE, "idle")

Crash(w) ==
    /\ worker[w] # Idle /\ crashes < MaxCrashes
    /\ crashes' = crashes + 1
    /\ Go(w, "idle")
    /\ UNCHANGED <<table, incident, budget, switch, cards, history>>

CrashOfSender(i) ==
    /\ i \in announcing /\ crashes < MaxCrashes
    /\ crashes' = crashes + 1
    /\ announcing' = announcing \ {i}
    /\ UNCHANGED <<table, incident, budget, switch, announced, worker, history>>

-----------------------------------------------------------------------------
(* Owners, the operator's switch and time *)

Acknowledge(i) ==
    /\ incident[i].state \in Deliverable
    /\ AcknowledgeIfActive(i)

Resolve(i) == Close(i, "resolved")

Snooze(i) ==
    /\ incident' = [incident EXCEPT ![i] = [state |-> "snoozed", snooze |-> SnoozeFor]]
    /\ UNCHANGED row

OwnerActs(i) ==
    /\ Acknowledge(i) \/ Resolve(i) \/ Snooze(i)
    /\ UNCHANGED <<receipt, tried, budget, switch, cards, worker, crashes, history>>

\* set_automatic_calls: the setting first, the queued calls in a second step.
SetAutomaticCalls ==
    /\ ~recalling /\ switches < MaxSwitches
    /\ switches' = switches + 1
    /\ enabled' = ~enabled /\ recalling' = enabled
    /\ UNCHANGED <<table, incident, budget, cards, worker, crashes, history>>

\* Mutated form: a call that was claimed meanwhile is left alone.
RecalledUnclaimed == {c \in Calls : /\ row[c].status = "queued"
                                    /\ Kind[c] \in {"matrix", "phone", "app"}}

\* The channels the operator's page knows: no Telegram call, no policy method.
Recalled == {c \in Calls : /\ row[c].status \in {"queued", "claimed"}
                           /\ Kind[c] \in {"matrix", "phone", "app"}}

CancelQueuedCalls ==
    /\ recalling
    /\ recalling' = FALSE
    /\ row' = Cancelled(row, Recalled)
    /\ UNCHANGED <<receipt, tried, incident, budget, enabled, switches, cards,
                   worker, crashes, history>>

Tick ==
    /\ row' = [c \in Calls |-> AgedRow(row[c])]
    /\ tried' = [c \in Calls |-> Elapse(tried[c])]
    /\ incident' = [i \in Incidents |-> [incident[i] EXCEPT !.snooze = Elapse(@)]]
    /\ budget' = [p \in Problems |-> [budget[p] EXCEPT !.left = Elapse(@)]]
    /\ since' = [c \in Calls |-> Elapse(since[c])]
    /\ UNCHANGED <<receipt, switch, cards, worker, crashes, dialled>>
    /\ <<row, tried, incident, budget, since>>' # <<row, tried, incident, budget, since>>

-----------------------------------------------------------------------------
WorkerStep(w) ==
    \/ ReadSwitch(w)
    \/ CancelDisabled(w)
    \/ QuietHours(w)
    \/ RaiseBeforeReserve(w)
    \/ ReserveCall(w)
    \/ ContextIsSent(w)
    \/ ContextIsMissing(w)
    \/ Dial(w)
    \/ CallReturns(w)
    \/ StageIsAnswered(w)
    \/ CallIsAnswered(w)
    \/ AnswerIsRecorded(w)

Next ==
    \/ \E w \in Workers : WorkerStep(w) \/ Crash(w)
    \/ \E w \in Workers, c \in Calls : ClaimCall(w, c)
    \/ \E i \in Incidents : FirstCardIsSent(i) \/ ScheduleEscalation(i) \/ CrashOfSender(i)
    \/ \E i \in Managed : OwnerActs(i)
    \/ SetAutomaticCalls
    \/ CancelQueuedCalls
    \/ Tick

Spec == Init /\ [][Next]_vars

\* Time passes, a thread goes on with what it began, every due row is claimed
\* in the end; owners, operators and crashes owe nothing.
Fairness ==
    /\ WF_vars(Tick)
    /\ \A w \in Workers : WF_vars(WorkerStep(w))
    /\ \A c \in Calls : SF_vars(\E w \in Workers : ClaimCall(w, c))
    /\ \A i \in Incidents : WF_vars(ScheduleEscalation(i))

FairSpec == Spec /\ Fairness

-----------------------------------------------------------------------------
(* Type invariant: what each variable ranges over. *)
TypeOK ==
    /\ row \in [Calls -> Row]
    /\ receipt \in [Calls -> Receipts]
    /\ tried \in [Calls -> Nat] /\ since \in [Calls -> Nat]
    /\ incident \in [Incidents -> [state : IncidentStates, snooze : Nat]]
    /\ budget \in [Problems -> [left : Nat, last : Calls \cup {NoCall}]]
    /\ enabled \in BOOLEAN /\ recalling \in BOOLEAN
    /\ announced \subseteq Incidents /\ announcing \subseteq announced
    /\ worker \in [Workers -> [pc : Stages, job : Calls \cup {NoCall}, attempt : Nat]]
    /\ \A w \in Workers : worker[w].pc = "idle" <=> worker[w].job = NoCall
    /\ crashes \in Nat /\ switches \in Nat
    /\ dialled \subseteq Calls

Licensed(c) == row[c].status = "claimed" /\ row'[c].status = "sending"

(* One episode of calls per problem and interval, across incidents, channels *)
(* and threads: a call is placed while the interval of another one runs only *)
(* as the next stage of that very chain, whose stages so far were all proved *)
(* missed; in particular no call is placed twice.                            *)
OneEpisodePerInterval ==
    [][\A c \in Calls : Licensed(c) =>
          \A e \in Calls :
             Problem(e) = Problem(c) /\ since[e] > 0
                => e # c /\ {c, e} \subseteq Chain /\ IncidentOf[e] = IncidentOf[c]
                   /\ ProvedMissed(e)]_vars

(* No call is placed about an incident that was acknowledged or resolved,    *)
(* whoever scheduled, claimed or prepared it before.                         *)
NoCallOnceClosed ==
    [][\A c \in Calls : Licensed(c) => StateOf(c) \in Deliverable]_vars

(* Once the operator switched calls off and the queued ones were cancelled,  *)
(* none is placed until they are switched on again.                          *)
NoCallOnceDisabled ==
    [][\A c \in Calls : Licensed(c) => enabled \/ recalling]_vars

(* A due call is decided: placed or finished, unless its incident is closed  *)
(* or its claims reach the bound.                                            *)
QueuedCallIsDecided ==
    \A c \in Calls :
        row[c].status = "queued"
            ~> \/ row[c].status \notin {"queued", "claimed"}
               \/ StateOf(c) # "open"
               \/ row[c].attempt = MaxAttempt
=============================================================================
