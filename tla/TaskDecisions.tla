---------------------------- MODULE TaskDecisions ----------------------------
(***************************************************************************)
(* A question about a task of the board: posted once, answered by a person *)
(* or by its deadline, fenced by stop and hold directives that the owner   *)
(* of the task has to acknowledge, and continued in the session that asked.*)
(*                                                                         *)
(* The row is the one of human_requests (task_ columns).  The board, the   *)
(* question transport of ExManager and the action owner are external.      *)
(***************************************************************************)
EXTENDS Naturals, FiniteSets

CONSTANTS
    Decisions,   \* task decision references
    Airlock,     \* those posted through the ExManager transport, others by the bot
    Continued,   \* those whose session Herder can resume (harness 'opencode')
    Legacy,      \* rows of an earlier release, without a task_decision_ref (harness 'codex')
    Choices,     \* the choices, each with the person who makes it
    TimeoutChoice,
    NoChoice,
    Clerks,      \* threads: handlers of POST /v1/task-decisions, worker ticks
    Sites,       \* processes
    SiteOf,
    MaxControls, \* bound on stop and hold directives
    MaxSiteCrashes,
    MaxSilences  \* bound on lost answers of the action owner

ASSUME TaskAssumption ==
    /\ Airlock \subseteq Decisions /\ Continued \subseteq Decisions
    /\ Legacy \subseteq Decisions \ Continued
    /\ TimeoutChoice \in Choices /\ NoChoice \notin Choices
    /\ SiteOf \in [Clerks -> Sites]
    /\ MaxControls \in Nat /\ MaxSiteCrashes \in Nat /\ MaxSilences \in Nat

VARIABLES
    decision,    \* state, task_decision_source/value, task_deadline_at, late instructions
    notice,      \* task_notification_state
    control,     \* task_control_*, task_resume_ref
    owed,        \* the completion of the decision
    board,       \* what became of the task since the question was asked
    posted,      \* what the transport did with the question
    revoked,     \* control epochs the action owner has applied
    clerk,
    siteCrashes, silences,
    posts        \* history: how often the question was posted

taskVars == <<decision, notice, control, owed, board, posted, revoked, clerk,
              siteCrashes, silences, posts>>
bounds == <<siteCrashes, silences>>
-----------------------------------------------------------------------------
Open == {"pending", "sending", "unknown"}
NoControl == [state |-> "clear", kind |-> "none", epoch |-> 0,
              resumed |-> FALSE, leased |-> FALSE]
Free == [pc |-> "idle", about |-> NoChoice, recovering |-> FALSE, epoch |-> 0]

\* One type invariant: the row, the external parties and the threads.
TaskTypeOK ==
    /\ decision \in [Decisions ->
          [state: {"none", "pending", "resolved", "expired", "cancelled"},
           source: {"none", "human", "timeout"}, value: Choices \cup {NoChoice},
           deadline: {"none", "running", "past"}, late: BOOLEAN]]
    /\ notice \in [Decisions -> {"queued", "sending", "sent", "unknown", "failed"}]
    /\ control \in [Decisions ->
          [state: {"clear", "acknowledged"} \cup Open, kind: {"none", "stop", "hold"},
           epoch: 0..MaxControls, resumed: BOOLEAN, leased: BOOLEAN]]
    /\ owed \in [Decisions -> {"none", "pending", "resumed"}]
    /\ board \in [Decisions -> {"asked", "edited", "reworded", "lost"}]
    /\ posted \in [Decisions -> {"no", "yes", "failed"}]
    /\ revoked \in [Decisions -> SUBSET (1..MaxControls)]
    /\ clerk \in [Clerks ->
          [pc: {"idle", "submit", "query", "accepted", "refused", "uncertain",
                "claim", "command", "ask", "revoke", "receipt", "doubtful"},
           about: Decisions \cup {NoChoice}, recovering: BOOLEAN, epoch: 0..MaxControls]]
    /\ \A t \in Clerks : clerk[t].pc # "idle" => clerk[t].about \in Decisions
    /\ siteCrashes \in 0..MaxSiteCrashes /\ silences \in 0..MaxSilences
    /\ posts \in [Decisions -> 0..2]

\* The tasks of B run when the program starts, the others were lost; the question of those in P was
\* asked and read before.  The fault budget may be spent already.
TaskInitFor(B, P, spent) ==
    /\ decision = [d \in Decisions |->
          [state |-> IF d \in P THEN "pending" ELSE "none", source |-> "none",
           value |-> NoChoice, deadline |-> IF d \in P THEN "running" ELSE "none",
           late |-> FALSE]]
    /\ notice = [d \in Decisions |-> IF d \in P THEN "sent" ELSE "queued"]
    /\ control = [d \in Decisions |-> NoControl]
    /\ owed = [d \in Decisions |-> "none"]
    /\ board = [d \in Decisions |-> IF d \in B THEN "asked" ELSE "lost"]
    /\ posted = [d \in Decisions |-> IF d \in P THEN "yes" ELSE "no"]
    /\ revoked = [d \in Decisions |-> {}]
    /\ clerk = [t \in Clerks |-> Free]
    /\ siteCrashes = IF spent THEN MaxSiteCrashes ELSE 0
    /\ silences = IF spent THEN MaxSilences ELSE 0
    /\ posts = [d \in Decisions |-> IF d \in P THEN 1 ELSE 0]

TaskInit == TaskInitFor(Decisions, Legacy, FALSE)

Turn(t, pc) == clerk' = [clerk EXCEPT ![t].pc = pc]
Leave(t) == clerk' = [clerk EXCEPT ![t] = Free]
-----------------------------------------------------------------------------
(***************************************************************************)
(* The question and its notification                                       *)
(***************************************************************************)
\* The board still runs the task under the operation and session of the question.
CurrentExecution(d) == board[d] # "lost"
\* A row without a task_decision_ref matches as it is.  With one, the execution has
\* to carry the very question, choices and actors the request was hashed from, and
\* only an 'opencode' execution carries a question: a new 'codex' row never matches.
TaskReferenceMatches(d) ==
    /\ CurrentExecution(d)
    /\ d \in Legacy \/ (d \in Continued /\ board[d] # "reworded")
\* A question is created for the very version of the card it was asked about.
MandateHolds(d) == board[d] = "asked"

\* POST /v1/task-decisions with a mandate the board confirms now; the row has a
\* task_decision_ref.
CreateDecision(d) ==
    /\ decision[d].state = "none" /\ MandateHolds(d) /\ d \notin Legacy
    /\ decision' = [decision EXCEPT ![d].state = "pending"]
    /\ UNCHANGED <<notice, control, owed, board, posted, revoked, clerk, bounds, posts>>

\* The creation and each repeat of it deliver the question: the reservation of
\* the queued row decides who posts, everybody else asks for the outcome.
ReservableAgain(d) == notice[d] \in {"queued", "unknown"} /\ decision[d].state = "pending"
Reservable(d) == notice[d] = "queued" /\ decision[d].state = "pending"
ReserveQuestion(t, d) ==
    /\ clerk[t] = Free
    /\ Reservable(d)
    /\ notice' = [notice EXCEPT ![d] = "sending"]
    /\ clerk' = [clerk EXCEPT ![t] = [Free EXCEPT !.pc = "submit", !.about = d]]
    /\ UNCHANGED <<decision, control, owed, board, posted, revoked, bounds, posts>>

AskForQuestion(t, d) ==
    /\ clerk[t] = Free
    /\ d \in Airlock /\ notice[d] \in {"sending", "unknown"}
    /\ clerk' = [clerk EXCEPT ![t] = [Free EXCEPT !.pc = "query", !.about = d]]
    /\ UNCHANGED <<decision, notice, control, owed, board, posted, revoked, bounds, posts>>

\* submit_question, or sendMessage of the bot: posted or not, and the answer
\* may be lost.
SubmitQuestion(t, outcome, heard) ==
    LET d == clerk[t].about
    IN  /\ clerk[t].pc = "submit"
        /\ posted' = [posted EXCEPT ![d] = IF @ = "yes" THEN @ ELSE outcome]
        /\ posts' = [posts EXCEPT ![d] = @ + 1]
        /\ Turn(t, IF ~heard \/ outcome = "no" THEN "uncertain"
                   ELSE IF outcome = "yes" THEN "accepted"
                   ELSE IF d \in Airlock THEN "refused" ELSE "uncertain")
        /\ UNCHANGED <<decision, notice, control, owed, board, revoked, bounds>>

\* query_question: not found, in doubt and unreachable are all uncertain.
QueryQuestion(t, heard) ==
    LET d == clerk[t].about
    IN  /\ clerk[t].pc = "query"
        /\ Turn(t, IF heard /\ posted[d] = "yes" THEN "accepted"
                   ELSE IF heard /\ posted[d] = "failed" THEN "refused" ELSE "uncertain")
        /\ UNCHANGED <<decision, notice, control, owed, board, posted, revoked, bounds, posts>>

\* record_notification_success arms the deadline, once, while the question is
\* open; otherwise the receipt is not recorded.
ArmedAgain(d) == decision[d].state = "pending"
Armed(d) == decision[d].deadline = "none" /\ decision[d].state = "pending"
QuestionIsAccepted(t) ==
    LET d == clerk[t].about
    IN  /\ clerk[t].pc = "accepted"
        /\ IF notice[d] \in {"sending", "unknown", "sent"} /\ Armed(d)
           THEN /\ notice' = [notice EXCEPT ![d] = "sent"]
                /\ decision' = [decision EXCEPT ![d].deadline = "running"]
           ELSE /\ notice' = [notice EXCEPT ![d] = IF @ = "sending" THEN "unknown" ELSE @]
                /\ UNCHANGED decision
        /\ Leave(t)
        /\ UNCHANGED <<control, owed, board, posted, revoked, bounds, posts>>

\* mark_notification_failed: the provider confirmed that nothing was sent.
QuestionIsRefused(t) ==
    LET d == clerk[t].about
    IN  /\ clerk[t].pc = "refused"
        /\ notice' = [notice EXCEPT ![d] =
              IF @ \in {"sending", "unknown"} /\ decision[d].state = "pending" THEN "failed" ELSE @]
        /\ Leave(t)
        /\ UNCHANGED <<decision, control, owed, board, posted, revoked, bounds, posts>>

\* mark_notification_unknown
QuestionIsUncertain(t) ==
    LET d == clerk[t].about
    IN  /\ clerk[t].pc = "uncertain"
        /\ notice' = [notice EXCEPT ![d] = IF @ = "sending" THEN "unknown" ELSE @]
        /\ Leave(t)
        /\ UNCHANGED <<decision, control, owed, board, posted, revoked, bounds, posts>>
-----------------------------------------------------------------------------
(***************************************************************************)
(* The decision                                                            *)
(***************************************************************************)
\* control_gate_open
GateOpenOnceAcknowledged(d) == control[d].state \in {"clear", "acknowledged"}
GateOpen(d) ==
    \/ control[d].state = "clear"
    \/ control[d].state = "acknowledged" /\ control[d].kind = "hold" /\ control[d].resumed
Undecided(d) == decision[d].state = "pending" /\ notice[d] = "sent"

\* is_actor_allowed, verify_board_answer and timeout_allowed_now
ActorAllowed(d) == TaskReferenceMatches(d)
ProposalHolds(d) == d \in Continued /\ TaskReferenceMatches(d)
TimeoutAllowed(d) == TaskReferenceMatches(d)

Decided(d, source, choice) ==
    [decision EXCEPT ![d].state = IF source = "human" THEN "resolved" ELSE "expired",
                     ![d].source = source, ![d].value = choice]

\* A surface answers.  The actor is checked against the board; after the
\* decision, or behind a control, the answer is a late instruction.
AnswerDecision(d, choice) ==
    /\ ActorAllowed(d) /\ decision[d].state # "none"
    /\ IF decision[d].state = "pending" /\ GateOpen(d)
       THEN /\ Undecided(d)
            /\ decision' = Decided(d, "human", choice)
            /\ owed' = IF d \in Continued THEN [owed EXCEPT ![d] = "pending"] ELSE owed
       ELSE /\ decision' = [decision EXCEPT ![d].late = TRUE]
            /\ UNCHANGED owed
    /\ UNCHANGED <<notice, control, board, posted, revoked, clerk, bounds, posts>>

\* resolve_task_decision_from_board: the same by the board's own proposal, which
\* the deadline refuses even before the worker has acted on it.
AnswerFromBoard(d, choice) ==
    /\ ProposalHolds(d)
    /\ Undecided(d) /\ GateOpen(d)
    /\ decision[d].deadline = "running"
    /\ decision' = Decided(d, "human", choice)
    /\ owed' = [owed EXCEPT ![d] = "pending"]
    /\ UNCHANGED <<notice, control, board, posted, revoked, clerk, bounds, posts>>

\* resolve_due
TimeoutDueOfBot(d) ==
    /\ Undecided(d) /\ decision[d].deadline = "past"
    /\ control[d].state = "clear" /\ d \notin Airlock /\ TimeoutAllowed(d)
TimeoutDue(d) ==
    /\ Undecided(d) /\ decision[d].deadline = "past"
    /\ control[d].state = "clear" /\ TimeoutAllowed(d)
ResolveDue(d) ==
    /\ TimeoutDue(d)
    /\ decision' = Decided(d, "timeout", TimeoutChoice)
    /\ UNCHANGED <<notice, control, owed, board, posted, revoked, clerk, bounds, posts>>

\* cancel_human_request
CancelDecision(d) ==
    /\ decision[d].state = "pending"
    /\ decision' = [decision EXCEPT ![d].state = "cancelled"]
    /\ UNCHANGED <<notice, control, owed, board, posted, revoked, clerk, bounds, posts>>

\* The delivery worker resumes the session of a decision: claim_human_completion
\* looks at the completion and at nothing else.
Continue(d) ==
    /\ owed[d] = "pending"
    /\ owed' = [owed EXCEPT ![d] = "resumed"]
    /\ UNCHANGED <<decision, notice, control, board, posted, revoked, clerk, bounds, posts>>

DeadlinePasses(d) ==
    /\ decision[d].deadline = "running"
    /\ decision' = [decision EXCEPT ![d].deadline = "past"]
    /\ UNCHANGED <<notice, control, owed, board, posted, revoked, clerk, bounds, posts>>

\* The card is edited, its question is worded anew, or the task is finished or
\* taken over.
BoardMovesOn(d, to) ==
    /\ board[d] \in {"asked", "edited"} /\ to # board[d]
    /\ board' = [board EXCEPT ![d] = to]
    /\ UNCHANGED <<decision, notice, control, owed, posted, revoked, clerk, bounds, posts>>
-----------------------------------------------------------------------------
(***************************************************************************)
(* Stop and hold                                                           *)
(***************************************************************************)
\* request_control: a new epoch, unless one is open or a stop was acknowledged.
Controllable(d) ==
    \/ control[d].state = "clear"
    \/ control[d].state = "acknowledged" /\ control[d].kind = "hold"
RequestControl(d, kind) ==
    /\ ActorAllowed(d) /\ decision[d].state # "none"
    /\ Controllable(d)
    /\ control[d].epoch < MaxControls
    /\ control' = [control EXCEPT ![d] = [NoControl EXCEPT !.state = "pending",
                      !.kind = kind, !.epoch = control[d].epoch + 1]]
    /\ UNCHANGED <<decision, notice, owed, board, posted, revoked, clerk, bounds, posts>>

\* resume_after_hold
ResumeAfterHold(d) ==
    /\ ActorAllowed(d)
    /\ control[d].kind = "hold" /\ control[d].state = "acknowledged" /\ ~control[d].resumed
    /\ control' = [control EXCEPT ![d].resumed = TRUE]
    /\ UNCHANGED <<decision, notice, owed, board, posted, revoked, clerk, bounds, posts>>

Dispatchable(d) ==
    \/ control[d].state = "pending"
    \/ control[d].state \in {"sending", "unknown"} /\ ~control[d].leased

\* _dispatch_task_controls, in a worker that was given a task_action_owner (without
\* one nothing is dispatched): it reads whether it recovers an earlier try, claims,
\* reads the command, asks or revokes, and records the answer.  There is a command
\* for sessions with a turn ('codex') only: a continued one raises and ends the tick.
LookAtControl(t, d) ==
    /\ clerk[t] = Free
    /\ d \notin Continued /\ Dispatchable(d)
    /\ clerk' = [clerk EXCEPT ![t] = [pc |-> "claim", about |-> d, epoch |-> 0,
                     recovering |-> control[d].state \in {"sending", "unknown"}]]
    /\ UNCHANGED <<decision, notice, control, owed, board, posted, revoked, bounds, posts>>

ClaimControl(t) ==
    LET d == clerk[t].about
    IN  /\ clerk[t].pc = "claim"
        /\ IF Dispatchable(d)
           THEN /\ control' = [control EXCEPT ![d].state = "sending", ![d].leased = TRUE]
                /\ Turn(t, "command")
           ELSE UNCHANGED control /\ Leave(t)
        /\ UNCHANGED <<decision, notice, owed, board, posted, revoked, bounds, posts>>

ReadCommand(t) ==
    /\ clerk[t].pc = "command"
    /\ clerk' = [clerk EXCEPT ![t].epoch = control[clerk[t].about].epoch,
                     ![t].pc = IF clerk[t].recovering THEN "ask" ELSE "revoke"]
    /\ UNCHANGED <<decision, notice, control, owed, board, posted, revoked, bounds, posts>>

\* query_control: applied, or certainly not and safe to repeat, or no answer.
QueryControl(t, heard) ==
    /\ clerk[t].pc = "ask"
    /\ heard \/ silences < MaxSilences
    /\ silences' = IF heard THEN silences ELSE silences + 1
    /\ Turn(t, IF ~heard THEN "doubtful"
               ELSE IF clerk[t].epoch \in revoked[clerk[t].about] THEN "receipt" ELSE "revoke")
    /\ UNCHANGED <<decision, notice, control, owed, board, posted, revoked, siteCrashes, posts>>

\* revoke: the owner applies it or not, and the answer may be lost.
Revoke(t, applied, heard) ==
    LET d == clerk[t].about
    IN  /\ clerk[t].pc = "revoke"
        /\ (applied /\ heard) \/ silences < MaxSilences
        /\ silences' = IF applied /\ heard THEN silences ELSE silences + 1
        /\ revoked' = IF applied THEN [revoked EXCEPT ![d] = @ \cup {clerk[t].epoch}] ELSE revoked
        /\ Turn(t, IF applied /\ heard THEN "receipt" ELSE "doubtful")
        /\ UNCHANGED <<decision, notice, control, owed, board, posted, siteCrashes, posts>>

\* acknowledge_control, for the epoch of the command only.
AcknowledgesAny(d, epoch) == control[d].state \in Open
Acknowledges(d, epoch) == control[d].epoch = epoch /\ control[d].state \in Open
Acknowledged(d) == [control EXCEPT ![d].state = "acknowledged", ![d].leased = FALSE]
Doubted(d) ==
    IF control[d].state = "sending"
    THEN [control EXCEPT ![d].state = "unknown", ![d].leased = TRUE] ELSE control

RecordReceipt(t) ==
    LET d == clerk[t].about
    IN  /\ clerk[t].pc = "receipt"
        /\ control' = IF Acknowledges(d, clerk[t].epoch) THEN Acknowledged(d) ELSE Doubted(d)
        /\ Leave(t)
        /\ UNCHANGED <<decision, notice, owed, board, posted, revoked, bounds, posts>>

\* mark_control_unknown
RecordDoubt(t) ==
    /\ clerk[t].pc = "doubtful"
    /\ control' = Doubted(clerk[t].about)
    /\ Leave(t)
    /\ UNCHANGED <<decision, notice, owed, board, posted, revoked, bounds, posts>>

LeaseExpires(d) ==
    /\ control[d].leased
    /\ control' = [control EXCEPT ![d].leased = FALSE]
    /\ UNCHANGED <<decision, notice, owed, board, posted, revoked, clerk, bounds, posts>>

SiteCrash(s) ==
    /\ siteCrashes < MaxSiteCrashes
    /\ \E t \in Clerks : SiteOf[t] = s /\ clerk[t] # Free
    /\ siteCrashes' = siteCrashes + 1
    /\ clerk' = [t \in Clerks |-> IF SiteOf[t] = s THEN Free ELSE clerk[t]]
    /\ UNCHANGED <<decision, notice, control, owed, board, posted, revoked, silences, posts>>
-----------------------------------------------------------------------------
ControlStep(t) ==
    \/ \E d \in Decisions : LookAtControl(t, d)
    \/ ClaimControl(t) \/ ReadCommand(t) \/ RecordReceipt(t) \/ RecordDoubt(t)
    \/ \E heard \in BOOLEAN : QueryControl(t, heard) \/ \E applied \in BOOLEAN : Revoke(t, applied, heard)
NoticeStep(t) ==
    \/ \E d \in Decisions : ReserveQuestion(t, d) \/ AskForQuestion(t, d)
    \/ \E heard \in BOOLEAN :
          \/ QueryQuestion(t, heard)
          \/ \E outcome \in {"no", "yes", "failed"} : SubmitQuestion(t, outcome, heard)
    \/ QuestionIsAccepted(t) \/ QuestionIsRefused(t) \/ QuestionIsUncertain(t)

TaskNext ==
    \/ \E d \in Decisions :
          \/ CreateDecision(d) \/ CancelDecision(d) \/ ResolveDue(d) \/ Continue(d)
          \/ DeadlinePasses(d) \/ ResumeAfterHold(d) \/ LeaseExpires(d)
          \/ \E to \in {"edited", "reworded", "lost"} : BoardMovesOn(d, to)
          \/ \E choice \in Choices : AnswerDecision(d, choice) \/ AnswerFromBoard(d, choice)
          \/ \E kind \in {"stop", "hold"} : RequestControl(d, kind)
    \/ \E t \in Clerks : NoticeStep(t) \/ ControlStep(t)
    \/ \E s \in Sites : SiteCrash(s)

TaskSpec == TaskInit /\ [][TaskNext]_taskVars
-----------------------------------------------------------------------------
(***************************************************************************)
(* Properties                                                              *)
(***************************************************************************)
\* The question is posted at most once, whatever is asked, repeated or crashes; it
\* is decided only after a person can have read it, and its time runs from that
\* receipt: there is a deadline exactly when there is a receipt.
PostedOnceThenDecided ==
    \A d \in Decisions :
        /\ posts[d] <= 1
        /\ notice[d] = "sent" <=> decision[d].deadline # "none"
        /\ decision[d].source # "none" => notice[d] = "sent" /\ posted[d] = "yes"

\* Whatever answers, deadlines and instructions arrive, a question has one
\* decision, and its time is not started again.
OneDecision ==
    [][\A d \in Decisions :
         /\ decision[d].source # "none" =>
              decision'[d] = [decision[d] EXCEPT !.late = decision'[d].late,
                                                 !.deadline = decision'[d].deadline]
         /\ decision[d].deadline = "past" => decision'[d].deadline = "past"]_taskVars

\* An acknowledged stop is the end: the question is not decided afterwards and no
\* other directive replaces the stop.
StopIsFinal ==
    [][\A d \in Decisions :
         control[d].state = "acknowledged" /\ control[d].kind = "stop" =>
             /\ control'[d] = control[d]
             /\ decision'[d].source = decision[d].source]_taskVars

\* A control counts as acknowledged only if the owner applied that very directive.
AcknowledgedWasApplied ==
    \A d \in Decisions :
        control[d].state = "acknowledged" => control[d].epoch \in revoked[d]

\* The clock of the questions, on every tick of a worker.  A tick reads the 50 rows
\* whose deadline is oldest, those the board refuses among them: fairness for every
\* question assumes that fewer than 50 are due at once, and a board that answers.
\* No fairness of the controls: bin/notify-center starts its worker without a
\* task_action_owner, and a directive then stays pending.
TaskFairness == \A d \in Decisions : WF_taskVars(ResolveDue(d))
TaskLiveSpec == TaskSpec /\ TaskFairness

\* A question whose time is up is decided, unless a directive or the board is first.
DueIsSettled(d) ==
    \/ decision[d].source # "none" \/ decision[d].state = "cancelled"
    \/ control[d].state # "clear" \/ ~TimeoutAllowed(d)
DueQuestionIsDecided ==
    \A d \in Decisions : decision[d].deadline = "past" ~> DueIsSettled(d)
=============================================================================
