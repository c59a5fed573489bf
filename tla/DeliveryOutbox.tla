--------------------------- MODULE DeliveryOutbox ---------------------------
(***************************************************************************)
(* The durable outbox of NotificationCenter and the DeliveryWorker threads *)
(* that drain it, for every channel except calls (CallEscalation has       *)
(* those).  A row is claimed under a bounded lease, reserved ('sending')   *)
(* immediately before the external send, and completed with the outcome    *)
(* the adapter reported.  Owners acknowledge, snooze, mute and resolve     *)
(* incidents at any moment; a process may die between any two steps, and   *)
(* the store may refuse a report.  Several processes share one store: the  *)
(* lock around a Telegram payload and its reservation excludes the threads *)
(* of its own process only.                                                *)
(***************************************************************************)
EXTENDS OutboxRows, FiniteSets

CONSTANTS
    Deliveries,   \* identities of rows that exist or may be scheduled
    Incidents,
    Processes,    \* replicas of the center, each with its own lock
    Workers,      \* threads of the worker pools
    Home,         \* worker -> process
    NoDelivery,   \* the job of an idle worker
    Kind,         \* delivery -> what its channel and target make of it
    IncidentOf,   \* delivery -> incident
    Owner,        \* incident -> incident that owns its Telegram card family
    Initial,      \* rows created together with their incident
    Ceiling,      \* delivery -> max_repeats of its policy step, 0 without one
    Neighbours,   \* delivery -> rows of the adjacent methods
    FollowUps,    \* delivery -> next repeat or successor step of its policy
    Repeats,      \* delivery -> Telegram repeat scheduled after it was sent
    LaunchCard,   \* agent delivery -> card of the launch-failure incident
    Interruption, \* agent delivery -> notice that its executor was interrupted
    Restored,     \* incident -> cards put back by ending its mute
    MuteScope,    \* incident -> incidents that a mute of it covers
    Cleanup,      \* incidents of projects that delete the card of a closed one
    Lease, RetryDelay, BusyDelay, EditPause, StepDelay, StaleAfter, SnoozeFor,
    MaxAttempt,   \* bound: claims of one row
    Managed,      \* bound: the incidents that owners act on
    MaxCrashes,   \* bound: process deaths
    MaxFaults     \* bound: reports of a Telegram send that the store refuses

CardKinds   == {"card", "consumer"}
Conclusions == {"recovery", "phase"}
NoticeKinds == {"session", "progress", "refresh"} \cup Conclusions
Kinds       == CardKinds \cup NoticeKinds \cup {"edit", "message", "agent"}
TelegramKinds == CardKinds \cup NoticeKinds \cup {"edit"}

ASSUME OutboxAssumption ==
    /\ NoDelivery \notin Deliveries
    /\ Kind \in [Deliveries -> Kinds]
    /\ IncidentOf \in [Deliveries -> Incidents]
    /\ Owner \in [Incidents -> Incidents]
    /\ Initial \subseteq Deliveries
    /\ Managed \subseteq Incidents /\ Cleanup \subseteq Incidents
    /\ Home \in [Workers -> Processes]
    /\ Ceiling \in [Deliveries -> Nat]
    /\ \A f \in {Neighbours, FollowUps, Repeats, LaunchCard, Interruption} :
          f \in [Deliveries -> SUBSET Deliveries]
    /\ \A d \in Deliveries :
          /\ \A e \in Neighbours[d] \cup FollowUps[d] \cup Repeats[d] \cup Interruption[d] :
                IncidentOf[e] = IncidentOf[d]
          /\ \A e \in Interruption[d] : Kind[e] \in NoticeKinds
          /\ Ceiling[d] >= 1 => Kind[d] \notin NoticeKinds
    /\ Restored \in [Incidents -> SUBSET Deliveries]
    /\ \A i \in Incidents : \A d \in Restored[i] : IncidentOf[d] = i
    /\ MuteScope \in [Incidents -> SUBSET Incidents]
    /\ {Lease, RetryDelay, BusyDelay, EditPause, StepDelay, StaleAfter,
        SnoozeFor, MaxAttempt, MaxCrashes, MaxFaults} \subseteq Nat

VARIABLES
    row,        \* the deliveries table
    incident,   \* the incidents table: state and time left of snoozed_until
    muted,      \* incidents covered by an active notification mute
    card,       \* card owners whose message is confirmed and not deleted
    pause,      \* card owner -> time left until the card may be edited again
    worker,     \* what each thread of DeliveryWorker.deliver is doing
    crashes, faults,
    \* History, read by properties only.
    licences,   \* sends licensed for a delivery: granted reservations
    reported,   \* failures the licensed worker itself reported for a retry
    creations,  \* card owner -> sends licensed that create a new message
    removals    \* card owner -> confirmed deletions of its message

store == <<row, incident, muted, card, pause>>
bounds == <<crashes, faults>>
history == <<licences, reported, creations, removals>>
vars == <<row, incident, muted, card, pause, worker, crashes, faults,
          licences, reported, creations, removals>>

Deliverable == {"open", "snoozed"}
IncidentStates == {"absent", "open", "acknowledged", "snoozed", "resolved"}

Stages == {"idle", "claimed", "prepared", "sending", "edited", "sent", "interrupted", "escalate"}
Thread == [pc : Stages, job : Deliveries \cup {NoDelivery}, attempt : Nat,
           sees : BOOLEAN, removes : BOOLEAN]

\* `sees` and `removes` are what the payload it built says of the card.
Idle == [pc |-> "idle", job |-> NoDelivery, attempt |-> 0, sees |-> FALSE, removes |-> FALSE]

StateOf(d) == incident[IncidentOf[d]].state
IsTelegram(d) == Kind[d] \in TelegramKinds
IsNotice(d) == Kind[d] \in NoticeKinds
OwnerOf(d) == Owner[IncidentOf[d]]
Family(d) == {e \in Deliveries : IsTelegram(e) /\ OwnerOf(e) = OwnerOf(d)}

-----------------------------------------------------------------------------
Init ==
    /\ row = [d \in Deliveries |-> IF d \in Initial THEN NewRow(0, StaleAfter) ELSE AbsentRow]
    /\ incident = [i \in Incidents |->
          [state |-> IF \E d \in Initial : IncidentOf[d] = i THEN "open" ELSE "absent",
           snooze |-> 0]]
    /\ muted = {}
    /\ card = {}
    /\ pause = [i \in Incidents |-> 0]
    /\ worker = [w \in Workers |-> Idle]
    /\ crashes = 0
    /\ faults = 0
    /\ licences = [d \in Deliveries |-> 0]
    /\ reported = [d \in Deliveries |-> 0]
    /\ creations = [i \in Incidents |-> 0]
    /\ removals = [i \in Incidents |-> 0]

-----------------------------------------------------------------------------
(* claim_due_deliveries *)

\* Mutated form: an expired claim is not reclaimed.
DueWhenQueued(d) == row[d].status = "queued" /\ row[d].due = 0

\* Mutated form: a send in flight is reclaimed like an expired claim.
DueWhileSending(d) ==
    \/ row[d].status = "queued" /\ row[d].due = 0
    \/ row[d].status \in Held /\ row[d].lease = 0

Due(d) ==
    \/ row[d].status = "queued" /\ row[d].due = 0
    \/ row[d].status = "claimed" /\ row[d].lease = 0

Claimable(d) ==
    /\ Due(d)
    /\ \/ StateOf(d) \in Deliverable
       \/ Kind[d] = "agent" /\ StateOf(d) = "acknowledged"
       \/ IsNotice(d)
    /\ incident[IncidentOf[d]].snooze = 0
    /\ Kind[d] = "agent" \/ IncidentOf[d] \notin muted

Stale(d) == IsTelegram(d) /\ Kind[d] # "edit" /\ row[d].fresh = 0

ClaimDueDelivery(w, d) ==
    /\ worker[w] = Idle
    /\ Claimable(d) /\ ~Stale(d)
    /\ row[d].attempt < MaxAttempt
    /\ row' = [row EXCEPT ![d] = ClaimedRow(@, Lease)]
    /\ worker' = [worker EXCEPT ![w] =
          [Idle EXCEPT !.pc = "claimed", !.job = d, !.attempt = row[d].attempt + 1]]
    /\ UNCHANGED <<incident, muted, card, pause, bounds, history>>

\* A card nobody delivered for StaleAfter is dropped instead of claimed.
CancelStaleCard(d) ==
    /\ Claimable(d) /\ Stale(d)
    /\ row' = [row EXCEPT ![d] = WithStatus(@, "cancelled")]
    /\ UNCHANGED <<incident, muted, card, pause, worker, bounds, history>>

-----------------------------------------------------------------------------
\* Rows with a key of their own per use: the next one, if the instance has any.
OneUnused(rows, candidates) ==
    LET unused == {e \in candidates : rows[e].status = "absent"}
    IN  IF unused = {} THEN {{}} ELSE {{e} : e \in unused}

(* complete_delivery, called by the thread w with the generation it claimed *)

\* Mutated form: any generation of the row may report.
HoldsAnyGeneration(w) == row[worker[w].job].status \in Held

\* The exact generation is still held.
Holds(w) ==
    /\ row[worker[w].job].status \in Held
    /\ row[worker[w].job].attempt = worker[w].attempt

Ineligible(d) ==
    /\ StateOf(d) \notin Deliverable
    /\ ~IsNotice(d)
    /\ ~(Kind[d] = "agent" /\ StateOf(d) = "acknowledged")

\* Mutated form: the ceiling is off by one.
EffectiveBeyondCeiling(d, outcome) ==
    LET bounded == IF outcome = "retry" /\ Ceiling[d] >= 1 /\ row[d].attempt > Ceiling[d]
                   THEN "failed" ELSE outcome
    IN  IF bounded \in {"sent", "failed", "retry"} /\ Ineligible(d)
        THEN "cancelled" ELSE bounded

\* What the row becomes when the worker reports `outcome`.
Effective(d, outcome) ==
    LET bounded == IF outcome = "retry" /\ Ceiling[d] >= 1 /\ row[d].attempt >= Ceiling[d]
                   THEN "failed" ELSE outcome
    IN  IF /\ bounded \in {"sent", "failed", "retry"}
           /\ Ineligible(d)
           /\ ~(bounded = "sent" /\ IsTelegram(d) /\ row[d].status = "sending")
        THEN "cancelled" ELSE bounded

Settled(d, effective, delay) ==
    [row EXCEPT ![d] = IF effective = "retry" THEN RequeuedRow(@, delay)
                                              ELSE WithStatus(@, effective)]

\* _schedule_failure_neighbours: rows of a fan-out never fan out again.
FanOut(d, effective) ==
    IF /\ effective \in {"failed", "retry", "uncertain"}
       /\ StateOf(d) \in Deliverable /\ ~IsNotice(d)
       /\ \A e \in Deliveries : d \notin Neighbours[e]
    THEN Neighbours[d] ELSE {}

\* A sent policy step schedules its next repeat or its successor.
NextStep(d, effective) ==
    IF effective = "sent" /\ StateOf(d) \in Deliverable THEN FollowUps[d] ELSE {}

Refreshes(i) == {e \in Deliveries : Kind[e] = "refresh" /\ IncidentOf[e] = i}

\* queue_incident_card_refresh: a queued refresh is reused, else one is new.
RefreshChoices(rows, i) ==
    IF \E e \in Refreshes(i) : rows[e].status = "queued"
    THEN {{}} ELSE OneUnused(rows, Refreshes(i))

CompleteDelivery(w, outcome, delay, fan, receipt) ==
    LET d == worker[w].job
        effective == Effective(d, outcome)
        settled == Settled(d, effective, delay)
        fanned == Scheduled(settled, IF fan THEN FanOut(d, effective) ELSE {}, 0, StaleAfter)
        stepped == Scheduled(fanned, NextStep(d, effective), StepDelay, StaleAfter)
        confirmed == effective = "sent" /\ IsTelegram(d) /\ receipt = "message"
        refresh == confirmed /\ ~IsNotice(d) /\ StateOf(d) \in {"acknowledged", "resolved"}
    IN  \/ /\ Holds(w)
           /\ \E new \in IF refresh THEN RefreshChoices(stepped, IncidentOf[d]) ELSE {{}} :
                 row' = Scheduled(stepped, new, EditPause, StaleAfter)
           /\ card' = IF confirmed THEN card \cup {OwnerOf(d)}
                      ELSE IF receipt = "deleted" THEN card \ {OwnerOf(d)} ELSE card
           /\ removals' = IF receipt = "deleted"
                          THEN [removals EXCEPT ![OwnerOf(d)] = @ + 1] ELSE removals
           /\ pause' = IF confirmed THEN [pause EXCEPT ![OwnerOf(d)] = EditPause] ELSE pause
           /\ reported' = IF effective = "retry" /\ row[d].status = "sending"
                          THEN [reported EXCEPT ![d] = @ + 1] ELSE reported
        \/ /\ ~Holds(w)
           /\ UNCHANGED <<row, card, pause, reported, removals>>

\* Mutated form: the thread is free again but keeps its job.
RestWithJob(w) == worker' = [worker EXCEPT ![w].pc = "idle"]

Rest(w) == worker' = [worker EXCEPT ![w] = Idle]

-----------------------------------------------------------------------------
(* reserve_delivery_send: the last durable step before the external send *)

\* Mutated form: the reservation does not ask for its own generation.
ClaimedByAnyone(w) == row[worker[w].job].status \in Held

\* delivery_is_claimed, and the guard of the reserving UPDATE.
StillClaimed(w) ==
    /\ row[worker[w].job].status = "claimed"
    /\ row[worker[w].job].attempt = worker[w].attempt

\* original_telegram_card: the family has a confirmed message.
HasOriginal(d) == OwnerOf(d) \in card

\* should_delete: everything on the card is resolved.  A pending question and a
\* change of phase keep it.
MayRemove(d) ==
    /\ IncidentOf[d] \in Cleanup /\ Kind[d] \notin {"edit", "phase"}
    /\ StateOf(d) = "resolved"
    /\ \A i \in Incidents : Owner[i] = OwnerOf(d) => incident[i].state \in {"absent", "resolved"}

\* The lock is held from the payload to the reservation.
Locked(p) == \E w \in Workers : Home[w] = p /\ worker[w].pc = "prepared"

\* The payload of a Telegram send names the original card it must edit.
BuildPayload(w) ==
    LET d == worker[w].job
    IN  /\ worker[w].pc = "claimed" /\ IsTelegram(d)
        /\ \/ /\ StillClaimed(w)
              /\ \E removes \in {FALSE, MayRemove(d)} :
                    worker' = [worker EXCEPT ![w] =
                        [@ EXCEPT !.pc = "prepared", !.sees = HasOriginal(d), !.removes = removes]]
           \/ /\ ~StillClaimed(w)
              /\ Rest(w)
        /\ UNCHANGED <<store, bounds, history>>

Competing(d) == \E e \in Family(d) \ {d} : row[e].status = "sending"

\* Mutated form: only a creation still in flight blocks another one.
ObstructedInFlight(d) ==
    /\ ~HasOriginal(d)
    /\ \E e \in Family(d) \ {d} : row[e].status = "sending"

\* A lost first receipt blocks another creation.
Obstructed(d) ==
    /\ ~HasOriginal(d)
    /\ \E e \in Family(d) \ {d} : row[e].status \in {"sending", "uncertain"}

TooSoon(d) ==
    /\ Kind[d] \notin Conclusions \cup {"edit"}
    /\ HasOriginal(d)
    /\ pause[OwnerOf(d)] > 0

\* Mutated form: a send of the same card in flight is not looked for.
PostponedUnlessBusy(d) == TooSoon(d) \/ Obstructed(d)

Postponed(d) == Competing(d) \/ TooSoon(d) \/ Obstructed(d)

PostponedFor(d) ==
    IF Competing(d)
    THEN IF Kind[d] \in Conclusions THEN 1 ELSE MaxOf(pause[OwnerOf(d)], BusyDelay)
    ELSE IF TooSoon(d) THEN pause[OwnerOf(d)] ELSE BusyDelay

\* A send whose payload names no card creates a message.
Creates(w, d) == IsTelegram(d) /\ Kind[d] # "edit" /\ ~worker[w].sees /\ ~worker[w].removes

License(w, d) ==
    /\ row' = [row EXCEPT ![d] = WithStatus(@, "sending")]
    /\ worker' = [worker EXCEPT ![w].pc = "sending"]
    /\ licences' = [licences EXCEPT ![d] = @ + 1]
    /\ creations' = IF Creates(w, d)
                    THEN [creations EXCEPT ![OwnerOf(d)] = @ + 1] ELSE creations

\* The CAS fails: another generation, or the row was cancelled meanwhile.
LoseClaim(w) == ~StillClaimed(w) /\ Rest(w) /\ UNCHANGED <<row, licences, creations>>

ReserveDeliverySend(w) ==
    /\ worker[w].pc = "claimed" /\ ~IsTelegram(worker[w].job)
    /\ (StillClaimed(w) /\ License(w, worker[w].job)) \/ LoseClaim(w)
    /\ UNCHANGED <<incident, muted, card, pause, bounds, reported, removals>>

\* A Telegram row may be put back instead of licensed.
ReserveTelegramSend(w) ==
    LET d == worker[w].job
    IN  /\ worker[w].pc = "prepared"
        /\ \/ /\ StillClaimed(w) /\ ~Postponed(d)
              /\ License(w, d)
           \/ /\ StillClaimed(w) /\ Postponed(d)
              /\ row' = [row EXCEPT ![d] = RequeuedRow(@, PostponedFor(d))]
              /\ Rest(w)
              /\ UNCHANGED <<licences, creations>>
           \/ LoseClaim(w)
        /\ UNCHANGED <<incident, muted, card, pause, bounds, reported, removals>>

-----------------------------------------------------------------------------
(* DeliveryWorker.deliver, before the reservation *)

\* The handler ends with this report; the thread goes on at `pc`, if anywhere.
ReportAndGo(w, outcome, delay, fan, receipt, pc) ==
    /\ CompleteDelivery(w, outcome, delay, fan, receipt)
    /\ worker' = [worker EXCEPT ![w] = IF pc = "idle" THEN Idle ELSE [@ EXCEPT !.pc = pc]]
    /\ UNCHANGED <<incident, muted, crashes, licences, creations>>

Report(w, outcome, delay, fan, receipt) ==
    /\ ReportAndGo(w, outcome, delay, fan, receipt, "idle")
    /\ UNCHANGED faults

\* A synthetic canary or an inactive mode: the card is withdrawn or deferred.
TurnCardAway(w) ==
    /\ worker[w].pc = "claimed"
    /\ Kind[worker[w].job] \in CardKinds \cup NoticeKinds
    /\ StillClaimed(w)
    /\ \E outcome \in {"cancelled", "retry"} :
          /\ outcome = "retry" => Kind[worker[w].job] # "consumer"
          /\ Report(w, outcome, RetryDelay, TRUE, "none")

\* The payload cannot be built or the adapter is not configured.
RaiseBeforeReserve(w) ==
    /\ worker[w].pc = "claimed" /\ Kind[worker[w].job] # "agent"
    /\ Report(w, "retry", RetryDelay, TRUE, "none")

-----------------------------------------------------------------------------
(* DeliveryWorker.deliver, after the external send returned *)

\* What a successful send says, given the payload it was made from.
ReceiptsOf(w) ==
    CASE worker[w].removes -> {IF worker[w].sees THEN "deleted" ELSE "coalesced"}
      [] ~worker[w].removes /\ worker[w].sees -> {"message", "coalesced"}
      [] OTHER -> {"message"}

\* Telegram: an exception leaves the outcome unknown, it is never retried.
TelegramReturns(w) ==
    /\ worker[w].pc = "sending"
    /\ Kind[worker[w].job] \in CardKinds \cup NoticeKinds
    /\ \/ Report(w, "uncertain", 0, TRUE, "none")
       \/ \E receipt \in ReceiptsOf(w) :
             /\ ReportAndGo(w, "sent", 0, TRUE, receipt,
                            IF Kind[worker[w].job] = "card" THEN "sent" ELSE "idle")
             /\ UNCHANGED faults

\* record_health_delivery_migrated: an edited card rests, in a transaction of its own.
EditIsRecorded(w) ==
    /\ worker[w].pc = "sending" /\ Kind[worker[w].job] = "edit"
    /\ pause' = [pause EXCEPT ![OwnerOf(worker[w].job)] = EditPause]
    /\ worker' = [worker EXCEPT ![w].pc = "edited"]
    /\ UNCHANGED <<row, incident, muted, card, bounds, history>>

EditReturns(w) ==
    /\ worker[w].pc \in {"sending", "edited"} /\ Kind[worker[w].job] = "edit"
    /\ Report(w, IF worker[w].pc = "edited" THEN "superseded" ELSE "uncertain",
              0, TRUE, "none")

\* The store refuses the report of a Telegram send: the exception reaches the
\* common handler, which reports a failure to retry.
ReportIsRefused(w) ==
    /\ worker[w].pc \in {"sending", "edited"} /\ IsTelegram(worker[w].job)
    /\ faults < MaxFaults
    /\ faults' = faults + 1
    /\ ReportAndGo(w, "retry", RetryDelay, TRUE, "none", "idle")

\* A message adapter: an exception is retried, a refusal ends the step, an
\* outcome the adapter calls uncertain ends it without a fan-out.
MessageReturns(w) ==
    /\ worker[w].pc = "sending" /\ Kind[worker[w].job] = "message"
    /\ \/ \E outcome \in {"sent", "retry", "failed"} : Report(w, outcome, RetryDelay, TRUE, "none")
       \/ Report(w, "uncertain", 0, FALSE, "none")

\* A failed launch goes on to raise an incident of its own.
ReportLaunch(w, outcome) ==
    /\ ReportAndGo(w, outcome, RetryDelay, TRUE, "none",
                   IF Holds(w) /\ Effective(worker[w].job, outcome) = "failed"
                   THEN "escalate" ELSE "idle")
    /\ UNCHANGED faults

\* The agent job ended, completed or failed.
AgentReturns(w) ==
    /\ worker[w].pc = "sending" /\ Kind[worker[w].job] = "agent"
    /\ \E outcome \in {"sent", "failed"} : ReportLaunch(w, outcome)

\* Any exception: the interruption is announced first, in its own transaction.
AgentRaises(w) ==
    LET d == worker[w].job
    IN  /\ worker[w].pc \in {"claimed", "sending"} /\ Kind[d] = "agent"
        /\ row' = IF StateOf(d) = "resolved" THEN row
                  ELSE Scheduled(row, Interruption[d], 0, StaleAfter)
        /\ worker' = [worker EXCEPT ![w].pc = "interrupted"]
        /\ UNCHANGED <<incident, muted, card, pause, bounds, history>>

\* ... then the launch is retried, or withdrawn when its source is gated.
AgentGivesUp(w) ==
    /\ worker[w].pc = "interrupted"
    /\ \E outcome \in {"retry", "cancelled"} : ReportLaunch(w, outcome)

\* _after_telegram_delivery: the repeat is scheduled in a transaction of its own.
AfterTelegramDelivery(w) ==
    LET d == worker[w].job
    IN  /\ worker[w].pc = "sent"
        /\ row' = IF StateOf(d) \in Deliverable
                  THEN Scheduled(row, Repeats[d], StepDelay, StaleAfter) ELSE row
        /\ Rest(w)
        /\ UNCHANGED <<incident, muted, card, pause, bounds, history>>

\* _schedule_executor_launch_failure: a critical incident, outside the
\* transaction and once per source; a muted one is opened without its card.
ScheduleExecutorLaunchFailure(w) ==
    LET new == {e \in LaunchCard[worker[w].job] : StateOf(e) = "absent"}
    IN  /\ worker[w].pc = "escalate"
        /\ row' = Scheduled(row, {e \in new : IncidentOf[e] \notin muted}, 0, StaleAfter)
        /\ incident' = [i \in Incidents |->
              IF \E e \in new : IncidentOf[e] = i
              THEN [state |-> "open", snooze |-> 0] ELSE incident[i]]
        /\ Rest(w)
        /\ UNCHANGED <<muted, card, pause, bounds, history>>

\* A process dies with its threads; the next one starts with nothing in flight.
Crash(p) ==
    /\ \E w \in Workers : Home[w] = p /\ worker[w] # Idle
    /\ crashes < MaxCrashes
    /\ crashes' = crashes + 1
    /\ worker' = [w \in Workers |-> IF Home[w] = p THEN Idle ELSE worker[w]]
    /\ UNCHANGED <<store, faults, history>>

-----------------------------------------------------------------------------
(* Owners and producers: _transition, mutes, informational rows *)

RowsOf(i) == {d \in Deliveries : IncidentOf[d] = i}

\* A Telegram send in flight reports its message; it is never cancelled.
Withdrawn(d) ==
    /\ row[d].status \in {"queued", "claimed", "sending"}
    /\ ~(IsTelegram(d) /\ row[d].status = "sending")
    /\ ~IsNotice(d)

UnchangedByOwner == UNCHANGED <<muted, card, pause, worker, bounds, history>>

\* acknowledge_if_active
Acknowledge(i) ==
    /\ incident[i].state \in Deliverable
    /\ incident' = [incident EXCEPT ![i] = [state |-> "acknowledged", snooze |-> 0]]
    /\ row' = Cancelled(row, {d \in RowsOf(i) : Withdrawn(d) /\ Kind[d] # "agent"})
    /\ UnchangedByOwner

\* resolve and resolve_event; a setback notice has nothing left to say, a card
\* that is to be deleted is refreshed.
Resolve(i) ==
    LET silenced == Cancelled(row,
            {d \in RowsOf(i) : \/ Withdrawn(d)
                               \/ /\ Kind[d] \in {"progress", "refresh", "phase"}
                                  /\ row[d].status \in {"queued", "claimed"}})
    IN  /\ incident[i].state # "absent"
        /\ incident' = [incident EXCEPT ![i] = [state |-> "resolved", snooze |-> 0]]
        /\ \E new \in IF i \in Cleanup /\ Owner[i] \in card
                      THEN RefreshChoices(silenced, i) ELSE {{}} :
              row' = Scheduled(silenced, new, pause[Owner[i]], StaleAfter)
        /\ UnchangedByOwner

\* snooze looks at no state: only its deadline is validated.
Snooze(i) ==
    /\ incident[i].state # "absent"
    /\ incident' = [incident EXCEPT ![i] = [state |-> "snoozed", snooze |-> SnoozeFor]]
    /\ UNCHANGED row
    /\ UnchangedByOwner

\* set_incident_notifications_muted
Mute(i) ==
    /\ incident[i].state # "absent" /\ MuteScope[i] # {}
    /\ muted' = muted \cup MuteScope[i]
    /\ row' = Cancelled(row, {d \in Deliveries : /\ IncidentOf[d] \in MuteScope[i]
                                                 /\ Kind[d] # "agent"
                                                 /\ row[d].status \in {"queued", "claimed"}})
    /\ UNCHANGED <<incident, card, pause, worker, bounds, history>>

\* Mutated form: the card is put back whatever became of the incident.
UnmuteAlways(i) ==
    /\ i \in muted
    /\ muted' = muted \ MuteScope[i]
    /\ \E new \in OneUnused(row, Restored[i]) : row' = Scheduled(row, new, 0, StaleAfter)
    /\ UNCHANGED <<incident, card, pause, worker, bounds, history>>

\* Ending a mute puts the latest card of an active incident back.
Unmute(i) ==
    /\ i \in muted
    /\ muted' = muted \ MuteScope[i]
    /\ \E new \in IF incident[i].state \in Deliverable
                  THEN OneUnused(row, Restored[i]) ELSE {{}} :
          row' = Scheduled(row, new, 0, StaleAfter)
    /\ UNCHANGED <<incident, card, pause, worker, bounds, history>>

\* Mutated form: a session link is queued again whatever became of it.
ScheduleNoticeAgain(d) ==
    /\ Kind[d] \in NoticeKinds \ {"refresh"}
    /\ StateOf(d) # "absent"
    /\ IF row[d].status = "absent"
       THEN row' = Scheduled(row, {d}, 0, StaleAfter)
       ELSE Kind[d] = "session" /\ row' = [row EXCEPT ![d] = RequeuedRow(@, 0)]
    /\ UNCHANGED <<incident, muted, card, pause, worker, bounds, history>>

\* record_health_agent_session revives a cancelled session link;
\* schedule_health_outcome reports no setback of a resolved incident, and a
\* change of phase only when it closed the incident.
ScheduleNotice(d) ==
    /\ Kind[d] \in NoticeKinds \ {"refresh"}
    /\ StateOf(d) # "absent"
    /\ Kind[d] = "progress" => StateOf(d) # "resolved"
    /\ Kind[d] = "phase" => StateOf(d) = "resolved"
    /\ \/ /\ row[d].status = "absent"
          /\ row' = Scheduled(row, {d}, 0, StaleAfter)
       \/ /\ row[d].status = "cancelled" /\ Kind[d] = "session"
          /\ row' = [row EXCEPT ![d] = RequeuedRow(@, 0)]
    /\ UNCHANGED <<incident, muted, card, pause, worker, bounds, history>>

\* queue_incident_card_refresh, called when an incident changes.
QueueIncidentCardRefresh(i) ==
    /\ incident[i].state # "absent"
    /\ \E new \in RefreshChoices(row, i) :
          /\ new # {}
          /\ row' = Scheduled(row, new, pause[Owner[i]], StaleAfter)
    /\ UNCHANGED <<incident, muted, card, pause, worker, bounds, history>>

Tick ==
    /\ row' = [d \in Deliveries |-> AgedRow(row[d])]
    /\ incident' = [i \in Incidents |-> [incident[i] EXCEPT !.snooze = Elapse(@)]]
    /\ pause' = [i \in Incidents |-> Elapse(pause[i])]
    /\ UNCHANGED <<muted, card, worker, bounds, history>>
    /\ <<row, incident, pause>>' # <<row, incident, pause>>

-----------------------------------------------------------------------------
Deliver(w) ==
    \/ BuildPayload(w)
    \/ ReserveDeliverySend(w)
    \/ TurnCardAway(w)
    \/ RaiseBeforeReserve(w)
    \/ TelegramReturns(w)
    \/ EditIsRecorded(w)
    \/ EditReturns(w)
    \/ ReportIsRefused(w)
    \/ MessageReturns(w)
    \/ AgentReturns(w)
    \/ AgentRaises(w)
    \/ AgentGivesUp(w)
    \/ AfterTelegramDelivery(w)
    \/ ScheduleExecutorLaunchFailure(w)

WorkerStep(w) == ReserveTelegramSend(w) \/ (~Locked(Home[w]) /\ Deliver(w))

Claim(d) ==
    \/ \E w \in Workers : ~Locked(Home[w]) /\ ClaimDueDelivery(w, d)
    \/ CancelStaleCard(d)

OwnerActs(i) == Acknowledge(i) \/ Resolve(i) \/ Snooze(i) \/ Mute(i) \/ Unmute(i)

Next ==
    \/ \E w \in Workers : WorkerStep(w)
    \/ \E p \in Processes :
          /\ ~Locked(p)
          /\ \/ \E d \in Deliveries : Claim(d) \/ ScheduleNotice(d)
             \/ \E i \in Incidents : QueueIncidentCardRefresh(i)
             \/ \E i \in Managed : OwnerActs(i)
    \/ \E p \in Processes : Crash(p)
    \/ Tick

Spec == Init /\ [][Next]_vars

(***************************************************************************)
(* The worker loops keep running: time passes, a thread that started       *)
(* delivering goes on, and rows stay ordered by due_at, so a row that is   *)
(* due again and again is claimed in the end.  Owners owe nothing.         *)
(***************************************************************************)
Fairness ==
    /\ WF_vars(Tick)
    /\ \A w \in Workers : WF_vars(WorkerStep(w))
    /\ \A d \in Deliveries : SF_vars(Claim(d))

FairSpec == Spec /\ Fairness

-----------------------------------------------------------------------------
(* What the outbox promises of a single delivery is its DeliveryContract: a  *)
(* Telegram send may be repeated only because the store refused its report.  *)
Repeatable == {d \in Deliveries : IsTelegram(d) => MaxFaults > 0}
Revivable == {d \in Deliveries : Kind[d] = "session"}

Contract == INSTANCE DeliveryContract
    WITH status <- [d \in Deliveries |-> row[d].status],
         attempt <- [d \in Deliveries |-> row[d].attempt],
         Limit <- Ceiling

(* Crashes, expired leases, replicas, owners and cards notwithstanding, each *)
(* delivery moves as its contract says.                                      *)
KeepsContract == Contract!Spec

(* Type invariant: what each variable ranges over. *)
TypeOK ==
    /\ row \in [Deliveries -> Row]
    /\ incident \in [Incidents -> [state : IncidentStates, snooze : Nat]]
    /\ muted \subseteq Incidents
    /\ card \subseteq Incidents
    /\ pause \in [Incidents -> Nat]
    /\ worker \in [Workers -> Thread]
    /\ \A w \in Workers : worker[w].pc = "idle" <=> worker[w].job = NoDelivery
    /\ crashes \in Nat /\ faults \in Nat
    /\ licences \in [Deliveries -> Nat] /\ reported \in [Deliveries -> Nat]
    /\ creations \in [Incidents -> Nat] /\ removals \in [Incidents -> Nat]

(* No send is repeated blindly: whatever crashes, lease expiries and stale   *)
(* workers interleave, a delivery is licensed for another external send only *)
(* after the worker licensed before reported a failure it may retry.  A      *)
(* Telegram send is never reported so: it is licensed at most once.          *)
NoBlindResend ==
    \A d \in Deliveries :
        /\ licences[d] <= 1 + reported[d]
        /\ IsTelegram(d) => licences[d] <= 1

(* All stages of an incident, and all incidents that share a card, create at *)
(* most one Telegram message, even when the receipt of the first is lost;    *)
(* another one only after that message was deleted.                          *)
OneCardPerFamily == \A i \in Incidents : creations[i] <= 1 + removals[i]

(* Two threads never talk to Telegram about the same card at the same time.  *)
OneTelegramSendPerFamily ==
    \A d \in Deliveries : \A e \in Family(d) \ {d} :
        IsTelegram(d) => ~(row[d].status = "sending" /\ row[e].status = "sending")

(* An acknowledged or resolved incident has no alert waiting to go out: what *)
(* a worker, a fan-out, a repeat or a retry leaves behind is cancelled.      *)
SilentWhenClosed ==
    \A d \in Deliveries :
        row[d].status \in {"queued", "claimed"} /\ ~IsNotice(d)
            => \/ StateOf(d) \in Deliverable
               \/ Kind[d] = "agent" /\ StateOf(d) = "acknowledged"

(* A policy step is sent no more often than its max_repeats allows, however  *)
(* many claims were burnt by crashes before.                                 *)
LicencesWithinCeiling ==
    \A d \in Deliveries : Ceiling[d] >= 1 => licences[d] <= Ceiling[d]

(* A finished row is not reopened by a late or repeated report; only the     *)
(* session link that an earlier ACK cancelled is queued again.               *)
FinishedIsFinal ==
    [][\A d \in Deliveries :
          row[d].status \in Finished =>
             \/ row'[d].status = row[d].status
             \/ Kind[d] = "session" /\ row[d].status = "cancelled"]_row

(* A report of a generation that was reclaimed meanwhile leaves the row as   *)
(* it is, also when the new holder is sending it.                            *)
LateReportChangesNothing ==
    [][\A w \in Workers :
          /\ worker[w] # Idle /\ worker'[w] = Idle
          /\ row[worker[w].job].attempt # worker[w].attempt
          => row'[worker[w].job] = row[worker[w].job]]_vars

(* A claim whose worker died before the send boundary is taken over: no row  *)
(* stays in one claimed generation for ever.                                 *)
ClaimIsNotStranded ==
    \A d \in Deliveries, n \in 1..(MaxAttempt - 1) :
        (row[d].status = "claimed" /\ row[d].attempt = n)
            ~> ~(row[d].status = "claimed" /\ row[d].attempt = n)

(* A queued message of an open incident is decided: licensed or finished,    *)
(* unless the incident is closed or muted or its claims reach the bound.     *)
QueuedMessageIsDecided ==
    \A d \in Deliveries :
        (Kind[d] = "message" /\ row[d].status = "queued")
            ~> \/ row[d].status \notin {"queued", "claimed"}
               \/ incident[IncidentOf[d]].state # "open"
               \/ IncidentOf[d] \in muted
               \/ row[d].attempt = MaxAttempt
=============================================================================
