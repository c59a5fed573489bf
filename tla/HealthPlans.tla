---------------------------- MODULE HealthPlans ----------------------------
(***************************************************************************)
(* The plans of a health incident: the orchestrator attaches bundles of    *)
(* plans, the one Telegram card of the incident is made to show the latest *)
(* bundle, and one plan is selected - by a person or by a confident        *)
(* recommendation - and executed once (core.py, health_workflow.py).       *)
(*                                                                         *)
(* The card is created by the incident's first delivery or, when that one  *)
(* is gone, by the slot for plans; a card that was sent is edited in place *)
(* by the delivery of the bundle.  The claims, leases and retries of a     *)
(* delivery are those of DeliveryOutbox: here a delivery is claimed, its   *)
(* payload is built from the latest bundle, it is reserved and sent.       *)
(***************************************************************************)
EXTENDS Naturals, FiniteSets, Sequences

CONSTANTS
    Plans,         \* plan ids
    Bundles,       \* contents of a list of plans
    PlansOf,       \* the ids a bundle offers, which the card's receipt names
    AutoPlans,     \* ids that may be selected without a person
    NoPlan,
    Processes,     \* HTTP processes, each with a lock of its own
    MaxAttached    \* bound: lists that are attached

ASSUME PlansAssumption ==
    /\ PlansOf \in [Bundles -> (SUBSET Plans) \ {{}}]
    /\ AutoPlans \subseteq Plans /\ NoPlan \notin Plans
    /\ {"first", "slot"} \cap Bundles = {}
    /\ MaxAttached \in Nat

VARIABLES
    attached,      \* events health.plans_attached: the bundles, in order
    card,          \* deliveries: the first card, the slot, one edit per bundle
    shown,         \* the message: the list it shows, 0 while it shows none
    selection,     \* health_plan_selections: its primary key is the incident
    remediation,   \* deliveries 'gptadmin.agent:health-remediation:plan', one per plan
    process,       \* what each process is about to do
    custom,        \* the first delivery goes to a consumer's own chat
    deferred       \* history: the code gave up showing the latest list

plansVars == <<attached, card, shown, selection, remediation, process, custom, deferred>>
-----------------------------------------------------------------------------
Creators == {"first", "slot"}
Cards == Creators \cup Bundles
Active == {"queued", "claimed", "sending", "sent", "uncertain"}
CardStatuses == Active \cup {"absent", "cancelled", "failed", "superseded"}
Unbuilt == MaxAttached + 1
Fresh(status) == [status |-> status, payload |-> Unbuilt, proof |-> FALSE]
Idle == [pc |-> "idle", plan |-> NoPlan]

\* Types.
HealthPlansTypeOK ==
    /\ attached \in Seq(Bundles) /\ Len(attached) <= MaxAttached
    /\ card \in [Cards -> [status : CardStatuses, payload : 0..Unbuilt, proof : BOOLEAN]]
    /\ shown \in 0..MaxAttached
    /\ selection \in Plans \cup {NoPlan} /\ remediation \subseteq Plans
    /\ process \in [Processes -> [pc : {"idle", "asked", "checked"}, plan : Plans \cup {NoPlan}]]
    /\ custom \in BOOLEAN /\ deferred \in BOOLEAN
    /\ \A c \in Cards : card[c].status = "absent" => card[c] = Fresh("absent")
    /\ \A c \in Cards : card[c].status \in {"sending", "sent", "superseded"} => card[c].payload # Unbuilt

PlansInit ==
    /\ attached = <<>> /\ shown = 0
    /\ card = [c \in Cards |-> Fresh(IF c = "first" THEN "queued" ELSE "absent")]
    /\ selection = NoPlan /\ remediation = {}
    /\ process = [p \in Processes |-> Idle]
    /\ custom \in BOOLEAN /\ deferred = FALSE
-----------------------------------------------------------------------------
(***************************************************************************)
(* Attaching a list: record_health_update consolidates the deliveries      *)
(***************************************************************************)
Latest == Len(attached)
IdsOf(n) == IF n = 0 THEN {} ELSE PlansOf[attached[n]]

With(cards, statuses) == {c \in Cards : cards[c].status \in statuses}
Without(cards, set) == [c \in Cards |-> IF c \in set THEN Fresh("cancelled") ELSE cards[c]]

\* Edits of another bundle that did not start, or whose outcome nobody knows, are given up.
Outdated(b) == With(card, {"queued", "uncertain"}) \cap (Bundles \ {b})

\* A message that is being sent, or may have been, is waited for.
Unsettled(cards) ==
    \/ Cardinality(With(cards, {"sent"})) > 1
    \/ With(cards, {"sending", "uncertain"}) # {}
Waited(cards) == Without(cards, With(cards, {"queued", "claimed"}))

\* _sent_health_delivery_matches_plans: the receipt proves the ids it was sent with.
Matches(c, b) == card[c].proof /\ IdsOf(card[c].payload) = PlansOf[b]

\* A sent card is edited in place if its receipt names the message; an edit that
\* is on its way takes the new list along.
OnItsWay(cards) == With(cards, {"queued", "claimed", "sending"}) \cap Bundles
Migrated(cards, sent, b) ==
    LET edits == OnItsWay(cards)
        kept == IF edits = {} THEN {} ELSE {CHOOSE e \in edits : TRUE}
        cleared == Without(cards, With(cards, Active) \ (sent \cup kept))
    IN  IF edits = {} /\ cleared[b].status = "absent"
        THEN [cleared EXCEPT ![b] = Fresh("queued")]
        ELSE cleared
Settled(cards, sent) == Without(cards, With(cards, Active) \ sent)

\* Before anything is sent one delivery is kept.
Canonical(live) ==
    IF custom /\ "first" \in live THEN "first"
    ELSE IF "slot" \in live THEN "slot"
    ELSE IF "first" \in live THEN "first" ELSE CHOOSE c \in live : TRUE
Gathered(cards) ==
    LET live == With(cards, Active)
    IN  Without(cards, live \ {Canonical(live)})

\* Mutated form: the slot that was cancelled is not used again.
SlotOnce(cards) ==
    IF cards["slot"].status = "absent"
    THEN [cards EXCEPT !["slot"] = Fresh("queued")] ELSE cards
Slot(cards) ==
    IF cards["slot"].status \in {"absent", "cancelled"}
    THEN [cards EXCEPT !["slot"] = Fresh("queued")] ELSE cards

Consolidated(b) ==
    LET cards == Without(card, Outdated(b))
        sent == With(cards, {"sent"})
    IN  CASE Unsettled(cards) -> Waited(cards)
          [] ~Unsettled(cards) /\ sent # {} ->
               IF \A c \in sent : Matches(c, b) \/ ~card[c].proof THEN Settled(cards, sent)
               ELSE Migrated(cards, sent, b)
          [] ~Unsettled(cards) /\ sent = {} ->
               IF With(cards, Active) # {} THEN Gathered(cards) ELSE Slot(cards)

\* The cases in which the code leaves the card behind the list: a message is on its
\* way with an older list, the receipt names no message, the slot was used up, or the
\* same plans were attached before.
LeftBehind(b) ==
    \/ With(card, {"sending", "uncertain"}) # {}
    \/ \E c \in Cards : card[c].status = "claimed" /\ card[c].payload # Unbuilt
    \/ \E c \in Cards : card[c].status = "sent" /\ ~card[c].proof
    \/ card["slot"].status = "failed"
    \/ \E n \in 1..Latest : IdsOf(n) = PlansOf[b]

\* The handler of the list: a confident recommendation asks for its plan next.
Recommendation(p) ==
    \/ UNCHANGED process
    \/ \E plan \in AutoPlans : process' = [process EXCEPT ![p] = [pc |-> "asked", plan |-> plan]]

AttachPlans(p, b) ==
    /\ process[p] = Idle /\ Latest < MaxAttached
    /\ attached' = Append(attached, b)
    /\ card' = Consolidated(b)
    /\ deferred' = LeftBehind(b)
    /\ Recommendation(p)
    /\ UNCHANGED <<shown, selection, remediation, custom>>
-----------------------------------------------------------------------------
(***************************************************************************)
(* The worker: payload, reservation, outcome                               *)
(***************************************************************************)
ClaimCard(c) ==
    /\ card[c].status = "queued"
    /\ card' = [card EXCEPT ![c].status = "claimed"]
    /\ UNCHANGED <<attached, shown, selection, remediation, process, custom, deferred>>

\* A claim that is taken over builds its payload again.
BuildPayload(c) ==
    /\ card[c].status = "claimed"
    /\ card' = [card EXCEPT ![c].payload = Latest]
    /\ UNCHANGED <<attached, shown, selection, remediation, process, custom, deferred>>

Reserve(c) ==
    /\ card[c].status = "claimed" /\ card[c].payload # Unbuilt
    /\ card' = [card EXCEPT ![c].status = "sending"]
    /\ UNCHANGED <<attached, shown, selection, remediation, process, custom, deferred>>

\* The message is there; its receipt may name it or not.  An edit is history:
\* the card keeps the receipt it was sent with.
CardIsShown(c) ==
    /\ card[c].status = "sending"
    /\ shown' = card[c].payload
    /\ \E proof \in BOOLEAN :
          card' = [card EXCEPT ![c].status = IF c \in Creators THEN "sent" ELSE "superseded",
                               ![c].proof = proof]
    /\ UNCHANGED <<attached, selection, remediation, process, custom, deferred>>

\* An exception after the call: the message may show the payload.
CardIsUncertain(c) ==
    /\ card[c].status = "sending"
    /\ card' = [card EXCEPT ![c].status = "uncertain"]
    /\ shown' \in {shown, card[c].payload}
    /\ deferred' = TRUE
    /\ UNCHANGED <<attached, selection, remediation, process, custom>>

\* A refusal is retried, or its attempts are used up; an edit is never refused.
CardIsRefused(c) ==
    /\ card[c].status = "sending" /\ c \in Creators
    /\ \/ /\ card' = [card EXCEPT ![c] = Fresh("queued")]
          /\ UNCHANGED deferred
       \/ /\ card' = [card EXCEPT ![c] = Fresh("failed")]
          /\ deferred' = TRUE
    /\ UNCHANGED <<attached, shown, selection, remediation, process, custom>>

\* An operator acknowledges or mutes, or the card is too old.
Withdraw ==
    /\ With(card, {"queued", "claimed"}) # {}
    /\ card' = Waited(card)
    /\ deferred' = TRUE
    /\ UNCHANGED <<attached, shown, selection, remediation, process, custom>>
-----------------------------------------------------------------------------
(***************************************************************************)
(* Selecting a plan: record_health_plan_selection                          *)
(***************************************************************************)
\* A person's tap, or a request.
AskForPlan(p, plan) ==
    /\ process[p] = Idle
    /\ process' = [process EXCEPT ![p] = [pc |-> "asked", plan |-> plan]]
    /\ UNCHANGED <<attached, card, shown, selection, remediation, custom, deferred>>

Offered(plan) == plan \in IdsOf(Latest)

\* The lookups, under the lock of the process.
CheckPlan(p) ==
    /\ process[p].pc = "asked"
    /\ process' = [process EXCEPT ![p] =
                     IF Offered(process[p].plan) /\ selection = NoPlan
                     THEN [@ EXCEPT !.pc = "checked"] ELSE Idle]
    /\ UNCHANGED <<attached, card, shown, selection, remediation, custom, deferred>>

\* The transaction: the primary key lets one process win.
\* Mutated form: there is no such key.
NotSelectedOrChecked == TRUE
NotSelected == selection = NoPlan

SelectPlan(p) ==
    /\ process[p].pc = "checked"
    /\ IF NotSelected
       THEN /\ selection' = process[p].plan
            /\ remediation' = remediation \cup {process[p].plan}
       ELSE UNCHANGED <<selection, remediation>>
    /\ process' = [process EXCEPT ![p] = Idle]
    /\ UNCHANGED <<attached, card, shown, custom, deferred>>
-----------------------------------------------------------------------------
PlansNext ==
    \/ \E p \in Processes :
          \/ \E b \in Bundles : AttachPlans(p, b)
          \/ \E plan \in Plans : AskForPlan(p, plan)
          \/ CheckPlan(p) \/ SelectPlan(p)
    \/ \E c \in Cards :
          \/ ClaimCard(c) \/ BuildPayload(c) \/ Reserve(c)
          \/ CardIsShown(c) \/ CardIsUncertain(c) \/ CardIsRefused(c)
    \/ Withdraw

PlansSpec == PlansInit /\ [][PlansNext]_plansVars
-----------------------------------------------------------------------------
(***************************************************************************)
(* What must hold                                                          *)
(***************************************************************************)
\* However many processes receive taps and recommendations, and whatever is attached
\* meanwhile, one plan is executed: the one that is recorded as selected.
OneRemediation == remediation = {selection} \ {NoPlan}

\* The incident has one card: the slot takes over only from a first delivery that is
\* known to have created no message.
OneCardIsCreated ==
    Cardinality(Creators \cap With(card, {"sending", "sent", "uncertain"})) <= 1

\* Unless the code left the card behind, the plans that are offered for selection are
\* the plans the card shows as soon as no delivery is on its way.
PlansReachTheCard ==
    attached # <<>> /\ ~deferred /\ With(card, {"queued", "claimed", "sending"}) = {}
        => IdsOf(shown) = IdsOf(Latest)

\* Both: the one card shows what is offered.
OneCardShowsThePlans == OneCardIsCreated /\ PlansReachTheCard
=============================================================================
