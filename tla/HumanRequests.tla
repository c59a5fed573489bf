---------------------------- MODULE HumanRequests ----------------------------
(***************************************************************************)
(* Questions to a person and the native sessions their answers resume:     *)
(* the tables human_requests and human_request_completions, every surface  *)
(* that answers (HTTP, a Telegram button or reply, a Matrix room), the     *)
(* worker that replays what Agent Herder refused, and the card that shows  *)
(* the answer.                                                             *)
(*                                                                         *)
(* A transaction of the store is one step.  A thread is a handler or a     *)
(* worker of some process; between its steps the others act, and its       *)
(* process may die.                                                        *)
(***************************************************************************)
EXTENDS Naturals, FiniteSets

CONSTANTS
    Requests,    \* the request ids in use
    Bound,       \* those bound to a native session (native_harness)
    Registry,    \* task decisions whose continuation Herder registered
    Secret,      \* those of kind 'secret'
    Timed,       \* those with an expires_at
    Values,      \* answers, each with its actor
    Cases,       \* incidents a question may belong to
    CaseOf,      \* the incident of a request, or NoCase
    NoCase,
    Askers,      \* threads: HTTP handlers, pollers, the delivery worker
    Hosts,       \* processes
    HostOf,      \* the process of a thread
    MaxHostCrashes,
    MaxRefusals  \* bound on refusals by Herder, and on failed card edits

NoAnswer == "no answer"

ASSUME HumanAssumption ==
    /\ Bound \subseteq Requests /\ Registry \subseteq Requests
    /\ Secret \subseteq Requests /\ Timed \subseteq Requests
    /\ Bound \cap Secret = {} /\ Registry \cap (Bound \cup Secret \cup Timed) = {}
    /\ NoCase \notin Cases /\ NoAnswer \notin Values
    /\ CaseOf \in [Requests -> Cases \cup {NoCase}]
    /\ \A q \in Registry : CaseOf[q] = NoCase
    /\ HostOf \in [Askers -> Hosts]
    /\ MaxHostCrashes \in Nat /\ MaxRefusals \in Nat

VARIABLES
    question,    \* human_requests: state, response_value with its actor
    overdue,     \* requests whose expires_at has passed
    closed,      \* incidents in state 'resolved'
    completion,  \* human_request_completions: state, receipt, card_state
    herder,      \* what Agent Herder did with the request
    asker,       \* the program counter and locals of each thread
    hostCrashes, refusals,
    doubt        \* history: the answer Herder may have taken, until proven otherwise

humanVars == <<question, overdue, closed, completion, herder, asker,
               hostCrashes, refusals, doubt>>
-----------------------------------------------------------------------------
QuestionStates == {"none", "pending", "resolved", "expired", "cancelled"}
CompletionStates ==
    {"none", "pending", "sending", "retryable", "unknown", "sent", "cancelled"}
Owed == {"pending", "retryable"}
Points == {"idle", "card", "editing", "deliver", "claim", "post",
           "refused", "lost", "admitted", "readback", "query"}
Calling == {"post", "refused", "lost", "readback", "admitted"}

Quiet == [pc |-> "idle", request |-> NoCase, resume |-> FALSE]
NoCompletion == [state |-> "none", receipt |-> FALSE, card |-> "none"]

\* One type invariant: the rows, what Herder holds, and the threads.
HumanTypeOK ==
    /\ question \in [Requests -> [state: QuestionStates, answer: Values \cup {NoAnswer}]]
    /\ overdue \subseteq Timed
    /\ closed \subseteq Cases
    /\ completion \in [Requests -> [state: CompletionStates, receipt: BOOLEAN,
                                    card: {"none", "pending", "retryable", "sent"}]]
    /\ herder \in [Requests -> {"pending", "flying", "resumed"}]
    /\ asker \in [Askers -> [pc: Points, request: Requests \cup {NoCase}, resume: BOOLEAN]]
    /\ \A t \in Askers : asker[t].pc # "idle" => asker[t].request \in Requests
    /\ hostCrashes \in 0..MaxHostCrashes
    /\ refusals \in 0..MaxRefusals
    /\ doubt \in [Requests -> Values \cup {NoAnswer}]

\* The requests of Q will be asked; the others were cancelled long ago.  The
\* crashes may be over already.
HumanInitFor(Q, spent) ==
    /\ question = [q \in Requests |->
          [state |-> IF q \in Q THEN "none" ELSE "cancelled", answer |-> NoAnswer]]
    /\ overdue = Timed \ Q
    /\ closed = {}
    /\ completion = [q \in Requests |-> NoCompletion]
    /\ herder = [q \in Requests |-> "pending"]
    /\ asker = [t \in Askers |-> Quiet]
    /\ hostCrashes = IF spent THEN MaxHostCrashes ELSE 0
    /\ refusals = 0
    /\ doubt = [q \in Requests |-> NoAnswer]

HumanInit == HumanInitFor(Requests, FALSE)
-----------------------------------------------------------------------------
(***************************************************************************)
(* The question                                                            *)
(***************************************************************************)
CaseClosed(q) == CaseOf[q] \in closed

\* Reading a question settles it: a closed incident withdraws it, time expires
\* it unless the Herder gate owns it.
Settled(q) ==
    LET r == question[q]
    IN  IF r.state = "pending" /\ q \notin Secret /\ CaseClosed(q)
        THEN [r EXCEPT !.state = "cancelled"]
        ELSE IF r.state = "pending" /\ q \in overdue /\ q \notin Bound
        THEN [r EXCEPT !.state = "expired"]
        ELSE r

\* The row that owes the native resume; a repeat finds the first one.
Enqueued(q) ==
    IF (q \in Bound \cup Registry) /\ completion[q].state = "none"
    THEN [completion EXCEPT ![q] = [state |-> "pending", receipt |-> FALSE,
                                    card |-> "pending"]]
    ELSE completion

\* create_human_request: a repeat of the same question reads the row it has.
Create(q) ==
    /\ question[q].state = "none"
    /\ question' = [question EXCEPT ![q].state =
           IF q \notin Secret /\ CaseClosed(q) THEN "cancelled"
           ELSE IF q \in overdue /\ q \notin Bound THEN "expired" ELSE "pending"]
    /\ UNCHANGED <<overdue, closed, completion, herder, asker, hostCrashes, refusals, doubt>>

\* Any read: get, list, a repeated create, for_reply, the card's question.
Read(q) ==
    /\ Settled(q) # question[q]
    /\ question' = [question EXCEPT ![q] = Settled(q)]
    /\ UNCHANGED <<overdue, closed, completion, herder, asker, hostCrashes, refusals, doubt>>

\* cancel_human_request; for a bound question with an explicit reason.
CancelQuestion(q) ==
    /\ Settled(q).state = "pending"
    /\ question' = [question EXCEPT ![q].state = "cancelled"]
    /\ UNCHANGED <<overdue, closed, completion, herder, asker, hostCrashes, refusals, doubt>>

Expires(q) ==
    /\ q \in Timed \ overdue
    /\ overdue' = overdue \cup {q}
    /\ UNCHANGED <<question, closed, completion, herder, asker, hostCrashes, refusals, doubt>>

\* The transition of an incident to 'resolved'.
CloseCase(i) ==
    LET mine == {q \in Requests : CaseOf[q] = i}
    IN  /\ i \notin closed
        /\ closed' = closed \cup {i}
        /\ question' = [q \in Requests |->
              IF q \in mine \ Secret /\ question[q].state = "pending"
              THEN [question[q] EXCEPT !.state = "cancelled"] ELSE question[q]]
        /\ completion' = [q \in Requests |->
              IF q \in mine /\ completion[q].state \in Owed
              THEN [completion[q] EXCEPT !.state = "cancelled"] ELSE completion[q]]
        /\ UNCHANGED <<overdue, herder, asker, hostCrashes, refusals, doubt>>

\* A snooze of a resolved incident makes it active again.
ReopenCase(i) ==
    /\ i \in closed
    /\ closed' = closed \ {i}
    /\ UNCHANGED <<question, overdue, completion, herder, asker, hostCrashes, refusals, doubt>>

\* complete_human_request: the surface answers in one transaction, and goes on
\* to the card and the resume.
Accepted(q, v) == [state |-> "resolved", answer |-> v]
ReplacedBefore(q) == Settled(q).state \in {"pending", "resolved"}
Replaced(q) == Settled(q).state = "pending"

Answer(t, q, v) ==
    /\ asker[t] = Quiet
    /\ q \notin Secret /\ question[q].state # "none"
    /\ LET row == IF Replaced(q) THEN Accepted(q, v) ELSE Settled(q)
           owed == IF row.state = "resolved" /\ ~CaseClosed(q) THEN Enqueued(q) ELSE completion
           shown == Replaced(q) \/ owed[q].state # "none"
       IN  /\ question' = [question EXCEPT ![q] = row]
           /\ completion' = owed
           /\ asker' = [asker EXCEPT ![t] =
                 IF row.state # "resolved" \/ (~shown /\ CaseClosed(q)) THEN Quiet
                 ELSE [pc |-> IF shown THEN "card" ELSE "deliver",
                       request |-> q, resume |-> ~CaseClosed(q)]]
    /\ UNCHANGED <<overdue, closed, herder, hostCrashes, refusals, doubt>>
-----------------------------------------------------------------------------
(***************************************************************************)
(* The card that shows the answer, edited under the lock of its process    *)
(***************************************************************************)
Go(t, pc) == asker' = [asker EXCEPT ![t].pc = pc]
Rest(t) == asker' = [asker EXCEPT ![t] = Quiet]
\* Mutated form: the thread forgets whose session it resumes.
AfterCardOfNobody(t) ==
    asker' = [asker EXCEPT ![t] = [Quiet EXCEPT !.pc = "deliver"]]
AfterCard(t) == IF asker[t].resume THEN Go(t, "deliver") ELSE Rest(t)

Locked(h) == \E t \in Askers : HostOf[t] = h /\ asker[t].pc = "editing"

\* The worker takes a due card.
DueCardOnce(q) == completion[q].card = "pending"
DueCard(q) == completion[q].card \in {"pending", "retryable"}
ReplayCard(t, q) ==
    /\ asker[t] = Quiet
    /\ DueCard(q)
    /\ asker' = [asker EXCEPT ![t] = [pc |-> "card", request |-> q, resume |-> FALSE]]
    /\ UNCHANGED <<question, overdue, closed, completion, herder, hostCrashes, refusals, doubt>>

\* Already marked, or not due yet: nothing to edit.
CardIsSettled(t) ==
    /\ asker[t].pc = "card" /\ ~Locked(HostOf[t])
    /\ completion[asker[t].request].card \in {"sent", "retryable"}
    /\ AfterCard(t)
    /\ UNCHANGED <<question, overdue, closed, completion, herder, hostCrashes, refusals, doubt>>

EditCard(t) ==
    /\ asker[t].pc = "card" /\ ~Locked(HostOf[t])
    /\ completion[asker[t].request].card # "sent"
    /\ Go(t, "editing")
    /\ UNCHANGED <<question, overdue, closed, completion, herder, hostCrashes, refusals, doubt>>

\* The edit is recorded, whatever the row says by then.
CardIsEdited(t, ok) ==
    /\ asker[t].pc = "editing"
    /\ ok \/ refusals < MaxRefusals
    /\ refusals' = IF ok THEN refusals ELSE refusals + 1
    /\ LET q == asker[t].request
       IN  completion' = IF completion[q].state = "none" THEN completion
                         ELSE [completion EXCEPT ![q].card = IF ok THEN "sent" ELSE "retryable"]
    /\ AfterCard(t)
    /\ UNCHANGED <<question, overdue, closed, herder, hostCrashes, doubt>>
-----------------------------------------------------------------------------
(***************************************************************************)
(* The resume: deliver_human_completion                                    *)
(***************************************************************************)
\* The worker takes a due completion; a board or a reader asks what became of
\* a registered one.
Wanted(q) ==
    \/ completion[q].state \in Owed /\ ~CaseClosed(q)
    \/ q \in Registry /\ completion[q].state = "unknown"
    \/ q \in Registry /\ completion[q].state = "sent" /\ ~completion[q].receipt

ReplayCompletion(t, q) ==
    /\ asker[t] = Quiet
    /\ Wanted(q)
    /\ asker' = [asker EXCEPT ![t] = [pc |-> "deliver", request |-> q, resume |-> FALSE]]
    /\ UNCHANGED <<question, overdue, closed, completion, herder, hostCrashes, refusals, doubt>>

\* What the thread reads decides which way it goes on.
ReadCompletion(t) ==
    LET q == asker[t].request
        seen == completion[q].state
    IN  /\ asker[t].pc = "deliver"
        /\ IF seen \in Owed THEN Go(t, "claim")
           ELSE IF q \in Registry /\ seen \in {"sent", "unknown"} THEN Go(t, "query")
           ELSE Rest(t)
        /\ UNCHANGED <<question, overdue, closed, completion, herder, hostCrashes, refusals, doubt>>

Mark(q, state) == completion' = [completion EXCEPT ![q].state = state]

\* claim_human_completion fences the call; every process has a valid route.
ClaimableOnceWithdrawn(q) == completion[q].state \in Owed \cup {"cancelled"}
Claimable(q) == completion[q].state \in Owed /\ ~CaseClosed(q)

Claim(t) ==
    LET q == asker[t].request
    IN  /\ asker[t].pc = "claim"
        /\ IF Claimable(q) THEN Mark(q, "sending") /\ Go(t, "post")
           ELSE UNCHANGED completion /\ Rest(t)
        /\ UNCHANGED <<question, overdue, closed, herder, hostCrashes, refusals, doubt>>

\* resume_bound_native_session.  Herder did not take the call: the connection
\* was refused, or it answers 'pending' or 'native-unavailable' with a retry.
PostIsRefused(t) ==
    /\ asker[t].pc = "post"
    /\ herder[asker[t].request] # "resumed"
    /\ refusals < MaxRefusals
    /\ refusals' = refusals + 1
    /\ Go(t, "refused")
    /\ UNCHANGED <<question, overdue, closed, completion, herder, hostCrashes, doubt>>

\* Herder resumes the session, or says that it has already done so.
Confirmation(q) == IF q \in Registry THEN "readback" ELSE "admitted"

PostIsAdmitted(t) ==
    LET q == asker[t].request
    IN  /\ asker[t].pc = "post"
        /\ herder' = [herder EXCEPT ![q] = "resumed"]
        /\ doubt' = [doubt EXCEPT ![q] = question[q].answer]
        /\ Go(t, Confirmation(q))
        /\ UNCHANGED <<question, overdue, closed, completion, hostCrashes, refusals>>

\* A timeout, a malformed answer or one that admits nothing: the call may
\* still be on its way.
PostIsLost(t) ==
    LET q == asker[t].request
    IN  /\ asker[t].pc = "post"
        /\ herder' = [herder EXCEPT ![q] = IF @ = "resumed" THEN @ ELSE "flying"]
        /\ doubt' = [doubt EXCEPT ![q] = question[q].answer]
        /\ Go(t, "lost")
        /\ UNCHANGED <<question, overdue, closed, completion, hostCrashes, refusals>>

\* A call that was on its way arrives, or never does.
LateCall(q, arrives) ==
    /\ herder[q] = "flying"
    /\ herder' = [herder EXCEPT ![q] = IF arrives THEN "resumed" ELSE "pending"]
    /\ UNCHANGED <<question, overdue, closed, completion, asker, hostCrashes, refusals, doubt>>

\* mark_human_completion after the call.
OutcomeOfTimeout(pc) == IF pc = "admitted" THEN "sent" ELSE "retryable"
Outcome(pc) == CASE pc = "refused" -> "retryable" [] pc = "lost" -> "unknown"
                 [] pc = "admitted" -> "sent"

RecordOutcome(t) ==
    /\ asker[t].pc \in {"refused", "lost", "admitted"}
    /\ Mark(asker[t].request, Outcome(asker[t].pc))
    /\ Rest(t)
    /\ UNCHANGED <<question, overdue, closed, herder, hostCrashes, refusals, doubt>>

\* read_task_receipt: Herder's record of the resume is stored with the row.
ReceiptIsRead(t) ==
    LET q == asker[t].request
    IN  /\ asker[t].pc \in {"readback", "query"}
        /\ herder[q] = "resumed"
        /\ completion' = [completion EXCEPT ![q].receipt = TRUE]
        /\ Go(t, "admitted")
        /\ UNCHANGED <<question, overdue, closed, herder, hostCrashes, refusals, doubt>>

\* No matching record: a thread that called says so, one that asked does not.
ReceiptIsMissing(t) ==
    /\ asker[t].pc \in {"readback", "query"}
    /\ IF asker[t].pc = "readback" THEN Go(t, "lost") ELSE Rest(t)
    /\ UNCHANGED <<question, overdue, closed, completion, herder, hostCrashes, refusals, doubt>>

\* The operator proves that Herder still waits: reconcile_unadmitted_human_completion.
Reconcile(q) ==
    /\ question[q].state = "resolved" /\ q \notin Secret
    /\ completion[q].state = "unknown" /\ herder[q] # "resumed"
    /\ Mark(q, "retryable")
    /\ doubt' = [doubt EXCEPT ![q] = NoAnswer]
    /\ UNCHANGED <<question, overdue, closed, herder, asker, hostCrashes, refusals>>

HostCrash(h) ==
    /\ hostCrashes < MaxHostCrashes
    /\ \E t \in Askers : HostOf[t] = h /\ asker[t] # Quiet
    /\ hostCrashes' = hostCrashes + 1
    /\ asker' = [t \in Askers |-> IF HostOf[t] = h THEN Quiet ELSE asker[t]]
    /\ UNCHANGED <<question, overdue, closed, completion, herder, refusals, doubt>>
-----------------------------------------------------------------------------
\* One step of the thread t.
AskerStep(t) ==
    \/ \E q \in Requests : ReplayCard(t, q) \/ ReplayCompletion(t, q)
    \/ CardIsSettled(t) \/ EditCard(t) \/ \E ok \in BOOLEAN : CardIsEdited(t, ok)
    \/ ReadCompletion(t) \/ Claim(t)
    \/ PostIsRefused(t) \/ PostIsAdmitted(t) \/ PostIsLost(t) \/ RecordOutcome(t)
    \/ ReceiptIsRead(t) \/ ReceiptIsMissing(t)

HumanNext ==
    \/ \E q \in Requests : Create(q) \/ Read(q) \/ CancelQuestion(q) \/ Expires(q)
    \/ \E i \in Cases : CloseCase(i) \/ ReopenCase(i)
    \/ \E t \in Askers, q \in Requests, v \in Values : Answer(t, q, v)
    \/ \E t \in Askers : AskerStep(t)
    \/ \E q \in Requests : Reconcile(q) \/ \E arrives \in BOOLEAN : LateCall(q, arrives)
    \/ \E h \in Hosts : HostCrash(h)

HumanSpec == HumanInit /\ [][HumanNext]_humanVars
-----------------------------------------------------------------------------
(***************************************************************************)
(* Safety                                                                  *)
(***************************************************************************)
\* A session is called again only after Herder was proven not to have taken the
\* call before, and never by two threads at once.
NoBlindReplay ==
    /\ \A t \in Askers : asker[t].pc = "post" => doubt[asker[t].request] = NoAnswer
    /\ \A t, u \in Askers :
          asker[t].pc = "post" /\ asker[u].pc = "post"
             /\ asker[t].request = asker[u].request => t = u

\* The answer a session may have continued with is the answer the question
\* keeps, whichever surfaces answer afterwards; and exactly the answered questions
\* of a session owe it a resume: the row exists as soon as the answer does, and
\* never for a question that was withdrawn.
AnswerStands ==
    /\ \A q \in Requests :
          doubt[q] # NoAnswer => question[q] = Accepted(q, doubt[q])
    /\ \A q \in Bound \cup Registry :
          question[q].state = "resolved" <=> completion[q].state # "none"

\* What a reader is told of the resume (TaskDecisionView, task_completion_view).
ProvenResume(q) == completion[q].state = "sent" /\ (q \in Registry => completion[q].receipt)
ContinuationShown(q) ==
    CASE completion[q].state \in Owed -> "queued"
      [] ProvenResume(q) -> "accepted"
      [] completion[q].state \in {"sending", "sent", "unknown"} /\ ~ProvenResume(q) -> "unknown"
      [] OTHER -> completion[q].state

\* A reader who is told that the resume is queued may rely on it: the session was
\* not called, or Herder was proven not to have taken the call.  One who is told
\* that it was accepted knows that it did happen, and a registered resume that is
\* recorded as sent always has the receipt that proves it.
ShownIsTrue ==
    \A q \in Requests :
        /\ ContinuationShown(q) = "queued" => doubt[q] = NoAnswer
        /\ completion[q].state = "sent" =>
              herder[q] = "resumed" /\ ContinuationShown(q) = "accepted"

\* What is promised of the resume of a single question is its ResumeContract; a
\* question that resumes no session has no part in it.
Resumable == Bound \cup Registry
ResumePhase(q) == IF completion[q].state \in Owed THEN "owed" ELSE completion[q].state
OwedAnswer(q) == IF completion[q].state = "none" THEN NoAnswer ELSE question[q].answer

Resume == INSTANCE ResumeContract
    WITH Questions <- Resumable, Registered <- Registry, Answers <- Values, Nothing <- NoAnswer,
         phase <- [q \in Resumable |-> ResumePhase(q)],
         answer <- [q \in Resumable |-> OwedAnswer(q)],
         told <- [q \in Resumable |-> doubt[q]]

\* Whatever surfaces answer, incidents close and open, calls are lost or late and
\* processes die: each resume moves as its contract says.
KeepsResumeContract == Resume!Spec
-----------------------------------------------------------------------------
(***************************************************************************)
(* Liveness: the delivery worker replays what is due, and a thread goes on *)
(***************************************************************************)
HumanFairness ==
    /\ \A t \in Askers : WF_humanVars(AskerStep(t))
    /\ \A q \in Requests :
          /\ SF_humanVars(\E t \in Askers : ReplayCompletion(t, q))
          /\ SF_humanVars(\E t \in Askers : ReplayCard(t, q))
          /\ SF_humanVars(\E t \in Askers : asker[t].request = q /\ EditCard(t))

HumanLiveSpec == HumanSpec /\ HumanFairness

\* A claim whose process died: nobody may call again, and nobody does.
Stranded(q) ==
    /\ completion[q].state = "sending"
    /\ \A t \in Askers : asker[t].request = q => asker[t].pc \notin Calling
\* What an owed resume comes to.
ResumeIsDecided(q) ==
    completion[q].state \in {"sent", "unknown", "cancelled"} \/ Stranded(q) \/ CaseClosed(q)

\* An owed resume is decided, unless its claim was lost with its process or its
\* incident was closed.
OwedResumeIsDecided ==
    \A q \in Requests : completion[q].state \in Owed ~> ResumeIsDecided(q)

\* The card shows the answer in the end, whatever becomes of the resume.
CardShowsAnswer ==
    \A q \in Requests : completion[q].card = "pending" ~> completion[q].card = "sent"
=============================================================================
