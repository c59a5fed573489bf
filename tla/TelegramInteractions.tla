------------------------ MODULE TelegramInteractions ------------------------
(***************************************************************************)
(* Taps and commands from Telegram: one elected poller per replica fetches *)
(* the updates of the Bot API, claims each once, applies it and moves the  *)
(* durable offset on (telegram_interactions.py, core.py, bin/notify-center *)
(* telegram_interaction_loop).                                             *)
(*                                                                         *)
(* The lease is renewed only between two polls, so a poll that lasts longer *)
(* than it overlaps with the next poller's.  Applying an update calls      *)
(* Agent Herder, which owns the accepted choice and the owner's policy,    *)
(* and Telegram; either may raise before or after it did what was asked.   *)
(***************************************************************************)
EXTENDS Naturals, FiniteSets, Sequences

CONSTANTS
    Pollers,       \* one poller per replica
    Choices,       \* the options of the question that the incident's card asks
    NoChoice,
    Scripts,       \* bound: what people tap and write, in the order of the Bot API
    MaxJobs,       \* bound: launches of the diagnosis
    MaxPollerDeaths      \* bound: crashes of a poller

ASSUME TelegramAssumption ==
    /\ NoChoice \notin Choices
    /\ Scripts \subseteq Seq(Choices \cup {"ai", "stop", "start"})
    /\ {MaxJobs, MaxPollerDeaths} \subseteq Nat

VARIABLES
    script,        \* the updates: update u is script[u]
    lease,         \* runtime_leases 'telegram-poller'
    offset,        \* runtime_settings 'telegram_update_offset'
    claimed,       \* telegram_updates
    poller,        \* what each poller does
    receipt,       \* selection_receipts: the canonical answer
    accepted,      \* Agent Herder: the choice of the bound session
    marked,         \* the mark on the card
    forbidden,     \* Agent Herder: the owner forbids new AI launches
    diagnosis,           \* deliveries of the diagnosis, in the order of their keys
    closed,        \* the incident is resolved
    pollerDeaths,
    handled,       \* history: how often each update was applied to its end
    excused,       \* history: updates whose poller died, or overlapped with another
    unvouched,     \* history: the receipt names an option that Agent Herder did not answer with
    posted,        \* history: how often each update changed the owner's policy
    unanswered     \* history: owner commands whose reply failed

telegramVars == <<script, lease, offset, claimed, poller, receipt, accepted, marked, unvouched,
                  forbidden, diagnosis, closed, pollerDeaths, handled, excused, posted, unanswered>>
choiceVars == <<receipt, accepted, marked, unvouched>>
queueVars == <<script, lease, offset, claimed>>
historyVars == <<handled, excused, posted, unanswered>>
-----------------------------------------------------------------------------
Updates == 1..Len(script)
NoHolder == "nobody"
Waiting == [pc |-> "idle", at |-> 0, upto |-> 0, row |-> 0]
DiagnosisStatuses == {"queued", "failed", "cancelled", "refused", "sent"}
ApplyingPcs == {"apply", "record", "fallback", "mark", "insert", "post", "reply"}

\* Types.
TelegramTypeOK ==
    /\ script \in Scripts
    /\ lease \in [holder : Pollers \cup {NoHolder}, expired : BOOLEAN]
    /\ offset \in 1..Len(script) + 1 /\ claimed \subseteq Updates
    /\ poller \in [Pollers -> [pc : {"idle", "elected", "next", "complete"} \cup ApplyingPcs,
                               at : 0..Len(script) + 1, upto : 0..Len(script), row : 0..MaxJobs + 1]]
    /\ {receipt, accepted, marked} \subseteq Choices \cup {NoChoice} /\ unvouched \in BOOLEAN
    /\ forbidden \in BOOLEAN /\ closed \in BOOLEAN /\ pollerDeaths \in 0..MaxPollerDeaths
    /\ diagnosis \in Seq(DiagnosisStatuses) /\ Len(diagnosis) <= MaxJobs
    /\ handled \in [Updates -> Nat] /\ posted \in [Updates -> Nat]
    /\ excused \subseteq Updates /\ unanswered \subseteq Updates
    /\ \A p \in Pollers : poller[p].pc \in ApplyingPcs \cup {"complete"} => poller[p].at \in Updates

TelegramInit ==
    /\ script \in Scripts
    /\ lease = [holder |-> NoHolder, expired |-> TRUE]
    /\ offset = 1 /\ claimed = {}
    /\ poller = [p \in Pollers |-> Waiting]
    /\ receipt = NoChoice /\ accepted = NoChoice /\ marked = NoChoice /\ unvouched = FALSE
    /\ forbidden = FALSE /\ closed = FALSE /\ pollerDeaths = 0
    /\ diagnosis = <<>>
    /\ handled = [u \in Updates |-> 0] /\ posted = [u \in Updates |-> 0]
    /\ excused = {} /\ unanswered = {}
-----------------------------------------------------------------------------
(***************************************************************************)
(* The poller: claim_runtime_lease, poll_once                              *)
(***************************************************************************)
Goes(p, pc) == poller' = [poller EXCEPT ![p].pc = pc]

LeaseExpires ==
    /\ lease.holder # NoHolder /\ ~lease.expired
    /\ lease' = [lease EXCEPT !.expired = TRUE]
    /\ UNCHANGED <<script, offset, claimed, poller, choiceVars, forbidden, diagnosis, closed, pollerDeaths, historyVars>>

\* claim_runtime_lease takes or extends it.
Elect(p) ==
    /\ poller[p].pc = "idle"
    /\ lease.holder = p \/ lease.expired
    /\ lease' = [holder |-> p, expired |-> FALSE]
    /\ Goes(p, "elected")
    /\ UNCHANGED <<script, offset, claimed, choiceVars, forbidden, diagnosis, closed, pollerDeaths, historyVars>>

\* getUpdates from the durable offset on; what has not arrived comes with a later poll.
Fetch(p) ==
    /\ poller[p].pc = "elected"
    /\ \E upto \in offset - 1..Len(script) :
          poller' = [poller EXCEPT ![p] =
                       IF upto < offset THEN Waiting
                       ELSE [pc |-> "next", at |-> offset, upto |-> upto, row |-> 0]]
    /\ UNCHANGED <<queueVars, choiceVars, forbidden, diagnosis, closed, pollerDeaths, historyVars>>

\* claim_telegram_update: INSERT OR IGNORE; a claimed update counts as processed.
ClaimUpdate(p) ==
    LET u == poller[p].at
        busy == \E q \in Pollers \ {p} : poller[q].at = u /\ poller[q].pc \in ApplyingPcs
    IN  /\ poller[p].pc = "next"
        /\ Goes(p, IF u \in claimed THEN "complete" ELSE "apply")
        /\ claimed' = claimed \cup {u}
        /\ excused' = IF u \in claimed /\ busy THEN excused \cup {u} ELSE excused
        /\ UNCHANGED <<script, lease, offset, choiceVars, forbidden, diagnosis, closed, pollerDeaths,
                       handled, posted, unanswered>>

\* complete_telegram_update, then the next update of the batch.
\* Mutated form: the batch does not end.
AfterUpdateOnwards(p) == [poller[p] EXCEPT !.pc = "next", !.at = @ + 1]
AfterUpdate(p) ==
    IF poller[p].at = poller[p].upto THEN Waiting
    ELSE [poller[p] EXCEPT !.pc = "next", !.at = @ + 1]
CompleteUpdate(p) ==
    LET u == poller[p].at
    IN  /\ poller[p].pc = "complete"
        /\ offset' = IF u + 1 > offset THEN u + 1 ELSE offset
        /\ poller' = [poller EXCEPT ![p] = AfterUpdate(p)]
        /\ UNCHANGED <<script, lease, claimed, choiceVars, forbidden, diagnosis, closed,
                       pollerDeaths, historyVars>>

\* The handler is through.
Handled(p) ==
    /\ Goes(p, "complete")
    /\ handled' = [handled EXCEPT ![poller[p].at] = @ + 1]

\* The handler raised: release_telegram_update, and the poll is over.
Raises(p) ==
    /\ claimed' = claimed \ {poller[p].at}
    /\ poller' = [poller EXCEPT ![p] = Waiting]
    /\ UNCHANGED <<script, lease, offset>>
-----------------------------------------------------------------------------
(***************************************************************************)
(* A choice: the answer that Agent Herder names becomes canonical          *)
(***************************************************************************)
Tap(p) == script[poller[p].at]

\* External: the first option that reaches Agent Herder is accepted, if the tapped one
\* reaches it.
AcceptedAfter(p) == IF accepted = NoChoice THEN {NoChoice, Tap(p)} ELSE {accepted}

\* The call, under the lock of the process: an answer that names the accepted option, or
\* none of the presented ones; one that cannot be read, which is told to the user and ends
\* the update; an exception, whatever was accepted.
CallHerder(p) ==
    /\ accepted' \in AcceptedAfter(p)
    /\ \/ accepted' # NoChoice /\ Goes(p, "record") /\ UNCHANGED <<handled, queueVars>>
       \/ Goes(p, "fallback") /\ UNCHANGED <<handled, queueVars>>
       \/ Handled(p) /\ UNCHANGED queueVars
       \/ Raises(p) /\ UNCHANGED handled

\* get_telegram_choice: the newest question that the incident's events present; it ends with
\* the incident, unless it was answered.
ChoiceIsOpen == ~closed \/ receipt # NoChoice

\* What is not open is refused; a receipt needs no call.
ApplyChoice(p) ==
    /\ poller[p].pc = "apply" /\ Tap(p) \in Choices
    /\ \/ /\ ~ChoiceIsOpen
          /\ Handled(p)
          /\ UNCHANGED <<accepted, queueVars>>
       \/ /\ receipt # NoChoice
          /\ Goes(p, "record")
          /\ UNCHANGED <<accepted, handled, queueVars>>
       \/ /\ ChoiceIsOpen /\ receipt = NoChoice
          /\ CallHerder(p)
    /\ UNCHANGED <<receipt, marked, unvouched, forbidden, diagnosis, closed, pollerDeaths, excused,
                   posted, unanswered>>

\* The canonical identity: what Herder answered with, not what was tapped, unless it named
\* none of the presented options.
\* Mutated form: the tapped option is recorded.
CanonicalTapped(p) == Tap(p)
CanonicalAnswer(p) ==
    IF receipt # NoChoice THEN receipt
    ELSE IF poller[p].pc = "fallback" THEN Tap(p) ELSE accepted

\* record_selection_receipt: the first one is kept.
RecordChoice(p) ==
    /\ poller[p].pc \in {"record", "fallback"}
    /\ receipt' = IF receipt = NoChoice THEN CanonicalAnswer(p) ELSE receipt
    /\ unvouched' = (unvouched \/ (receipt = NoChoice /\ poller[p].pc = "fallback"))
    /\ Goes(p, "mark")
    /\ UNCHANGED <<queueVars, accepted, marked, forbidden, diagnosis, closed, pollerDeaths, historyVars>>

\* apply_selected_card marks the card with the stored answer, if the receipt knows it,
\* then the tap is answered; either call may raise, an unreadable answer ends the update.
MarkCard(p) ==
    /\ poller[p].pc = "mark"
    /\ marked' \in {marked, receipt}
    /\ \/ Handled(p) /\ UNCHANGED queueVars
       \/ Raises(p) /\ UNCHANGED handled
    /\ UNCHANGED <<receipt, accepted, unvouched, forbidden, diagnosis, closed, pollerDeaths, excused,
                   posted, unanswered>>

\* External: another channel answers the question at Agent Herder.
AnsweredElsewhere ==
    /\ accepted = NoChoice /\ ~closed
    /\ accepted' \in Choices
    /\ UNCHANGED <<queueVars, poller, receipt, marked, unvouched, forbidden, diagnosis, closed,
                   pollerDeaths, historyVars>>

\* record_incident_choice_result: a resolver reports one of the presented options over HTTP;
\* Agent Herder is not asked.
ReportChoice ==
    /\ ChoiceIsOpen
    /\ \E c \in Choices : receipt' = IF receipt = NoChoice THEN c ELSE receipt
    /\ unvouched' = (unvouched \/ receipt = NoChoice)
    /\ marked' \in {marked, receipt'}
    /\ UNCHANGED <<queueVars, poller, accepted, forbidden, diagnosis, closed, pollerDeaths, historyVars>>
-----------------------------------------------------------------------------
(***************************************************************************)
(* AI on request: apply_telegram_action('ai')                              *)
(***************************************************************************)
\* A diagnosis that ended badly, or that was refused before its launch while the owner
\* allows launches again, is started anew under the next generation's key.
Restartable ==
    LET last == diagnosis[Len(diagnosis)]
    IN  last \in {"failed", "cancelled"} \/ (last = "refused" /\ ~forbidden)

LaunchWanted == ~closed /\ (diagnosis # <<>> => Restartable)

\* The lookup of the previous row and the generation ...
ReadJob(p) ==
    /\ poller[p].pc = "apply" /\ Tap(p) = "ai"
    /\ \/ /\ ~LaunchWanted
          /\ Handled(p)
       \/ /\ LaunchWanted /\ Len(diagnosis) < MaxJobs
          /\ poller' = [poller EXCEPT ![p] = [@ EXCEPT !.pc = "insert", !.row = Len(diagnosis) + 1]]
          /\ UNCHANGED handled
    /\ UNCHANGED <<queueVars, choiceVars, forbidden, diagnosis, closed, pollerDeaths, excused, posted, unanswered>>

\* ... and the insertion under a unique key, which another process may have used; the
\* mark on the card may raise.
JobsWith(row) == IF row <= Len(diagnosis) THEN diagnosis ELSE Append(diagnosis, "queued")
InsertJob(p) ==
    /\ poller[p].pc = "insert"
    /\ Len(diagnosis) < MaxJobs \/ poller[p].row <= Len(diagnosis)
    /\ diagnosis' = JobsWith(poller[p].row)
    /\ \/ Handled(p) /\ UNCHANGED queueVars
       \/ Raises(p) /\ UNCHANGED handled
    /\ UNCHANGED <<choiceVars, forbidden, closed, pollerDeaths, excused, posted, unanswered>>

\* The worker, see DeliveryOutbox and AgentJobs.
JobEnds ==
    /\ diagnosis # <<>> /\ diagnosis[Len(diagnosis)] = "queued"
    /\ \E status \in DiagnosisStatuses \ {"queued"} : diagnosis' = [diagnosis EXCEPT ![Len(diagnosis)] = status]
    /\ UNCHANGED <<queueVars, poller, choiceVars, forbidden, closed, pollerDeaths, historyVars>>

IncidentCloses ==
    /\ ~closed /\ closed' = TRUE
    /\ diagnosis' = [g \in DOMAIN diagnosis |-> IF diagnosis[g] = "queued" THEN "cancelled" ELSE diagnosis[g]]
    /\ UNCHANGED <<queueVars, poller, choiceVars, forbidden, pollerDeaths, historyVars>>
-----------------------------------------------------------------------------
(***************************************************************************)
(* The owner's commands: _handle_owner_command                             *)
(***************************************************************************)
Wants(p) == Tap(p) = "stop"

\* _owner_policy_state: the one global record, or an answer that is missing or ambiguous.
PolicyRead(p) == {IF forbidden = Wants(p) THEN "obeyed" ELSE "other", "unknown"}

\* The policy is read first; a command that it already obeys changes nothing, and an
\* unreadable policy stops a start.
ApplyOwner(p) ==
    /\ poller[p].pc = "apply" /\ Tap(p) \in {"stop", "start"}
    /\ \E policy \in PolicyRead(p) :
          Goes(p, IF policy = "obeyed" \/ (policy = "unknown" /\ Tap(p) = "start")
                  THEN "reply" ELSE "post")
    /\ UNCHANGED <<queueVars, choiceVars, forbidden, diagnosis, closed, pollerDeaths, historyVars>>

\* The call: applied, or not; what is unknown is said and not repeated.
PostOwner(p) ==
    /\ poller[p].pc = "post"
    /\ forbidden' \in {forbidden, Wants(p)}
    /\ posted' = [posted EXCEPT ![poller[p].at] = IF @ < 2 THEN @ + 1 ELSE @]
    /\ Goes(p, "reply")
    /\ UNCHANGED <<queueVars, choiceVars, diagnosis, closed, pollerDeaths, handled, excused, unanswered>>

\* A reply that fails twice is raised: the command is applied again.
ReplyOwner(p) ==
    /\ poller[p].pc = "reply"
    /\ \/ Handled(p) /\ UNCHANGED <<queueVars, unanswered>>
       \/ Raises(p) /\ unanswered' = unanswered \cup {poller[p].at} /\ UNCHANGED handled
    /\ UNCHANGED <<choiceVars, forbidden, diagnosis, closed, pollerDeaths, excused, posted>>

\* The console changes the policy too.
ConsoleTurns ==
    /\ forbidden' = ~forbidden
    /\ UNCHANGED <<queueVars, poller, choiceVars, diagnosis, closed, pollerDeaths, historyVars>>
-----------------------------------------------------------------------------
PollerDies(p) ==
    /\ pollerDeaths < MaxPollerDeaths /\ pollerDeaths' = pollerDeaths + 1
    /\ poller[p] # Waiting
    /\ poller' = [poller EXCEPT ![p] = Waiting]
    /\ excused' = IF poller[p].pc \in ApplyingPcs THEN excused \cup {poller[p].at} ELSE excused
    /\ UNCHANGED <<queueVars, choiceVars, forbidden, diagnosis, closed, handled, posted, unanswered>>

TelegramNext ==
    \/ LeaseExpires \/ AnsweredElsewhere \/ ReportChoice \/ JobEnds \/ IncidentCloses \/ ConsoleTurns
    \/ \E p \in Pollers :
          \/ Elect(p) \/ Fetch(p) \/ ClaimUpdate(p) \/ CompleteUpdate(p) \/ PollerDies(p)
          \/ ApplyChoice(p) \/ RecordChoice(p) \/ MarkCard(p)
          \/ ReadJob(p) \/ InsertJob(p)
          \/ ApplyOwner(p) \/ PostOwner(p) \/ ReplyOwner(p)

TelegramSpec == TelegramInit /\ [][TelegramNext]_telegramVars
-----------------------------------------------------------------------------
(***************************************************************************)
(* What must hold                                                          *)
(***************************************************************************)
\* No update is applied to its end twice, whatever dies, raises or overlaps; and the
\* offset passes an update only when it was applied, unless its poller died or ran
\* beyond its lease.
UpdatesAreAccountedFor ==
    /\ \A u \in Updates : handled[u] <= 1
    /\ \A u \in 1..offset - 1 : handled[u] = 1 \/ u \in excused

\* However the question was answered - by taps, another channel, a report, in any order and
\* with any call raising - the first stored answer stays, and the card shows no other.  It is
\* the one the session goes on with, whoever tapped what, unless a resolver reported it or
\* Agent Herder named none of the options: what is stored then, nobody compared with Herder.
OneAnswerEverywhere ==
    /\ receipt # NoChoice /\ ~unvouched => receipt = accepted
    /\ marked # NoChoice => marked = receipt

\* Taps in two replicas, retries and restarts never have two diagnoses under way.
OneDiagnosis == Cardinality({g \in DOMAIN diagnosis : diagnosis[g] = "queued"}) <= 1

\* The owner's policy is changed once by a command, also when nobody knows what became
\* of the call, unless the reply failed.
OwnerActsOnce == \A u \in Updates : posted[u] > 1 => u \in unanswered

TelegramIsExact ==
    UpdatesAreAccountedFor /\ OneAnswerEverywhere /\ OneDiagnosis /\ OwnerActsOnce
=============================================================================
