----------------------------- MODULE MCQuestions -----------------------------
(***************************************************************************)
(* Instances of HumanRequests and TaskDecisions.  A behaviour is about one *)
(* question: a request of one of the kinds, or a decision about a task.    *)
(***************************************************************************)
EXTENDS HumanRequests, TaskDecisions, TLC

CONSTANTS qb, qr, qs, qt, c1, none, yes, no, t1, t2, p1, p2,
          d1, d2, d3, d4, go

VARIABLE subject    \* the request or the decision the behaviour is about

MCCaseOf == [q \in Requests |-> IF q = qb THEN c1 ELSE none]
MCHostOf == [t \in Askers |-> IF t = t1 THEN p1 ELSE p2]
MCSiteOf == [t \in Clerks |-> IF t = t1 THEN p1 ELSE p2]

QuestionsInit ==
    \/ /\ subject \in Requests
       /\ HumanInitFor({subject}, subject = qr) /\ TaskInitFor({}, {}, FALSE)
    \/ /\ subject \in Decisions
       /\ HumanInitFor({}, FALSE)
       /\ TaskInitFor({subject}, {subject} \cap {d2, d4}, subject = d4)

\* Nothing happens to an incident the request does not belong to.  d2 and d4 are rows
\* of an earlier release, asked before: nobody answers d2, which is there for the
\* control alone, and the tasks of both stay where they are.
QuestionsNext ==
    /\ UNCHANGED subject
    /\ \/ /\ subject \in Requests /\ HumanNext
          /\ CaseOf[subject] = none => closed' = closed
          /\ UNCHANGED taskVars
       \/ /\ subject \in Decisions /\ TaskNext
          /\ subject = d2 => decision' = decision
          /\ subject \in {d2, d4} => board' = board
          /\ UNCHANGED humanVars

questionsVars == <<humanVars, taskVars, subject>>

\* HumanFairness and TaskFairness of the one subject.  The steps of a thread and the
\* clock of the decisions share a condition: only one of them can be enabled.
Weakly(t) ==
    /\ IF subject \in Requests THEN AskerStep(t) /\ UNCHANGED taskVars
       ELSE ResolveDue(subject) /\ UNCHANGED humanVars
    /\ UNCHANGED subject
Strongly(n) ==
    /\ subject \in Requests
    /\ CASE n = 1 -> \E t \in Askers : ReplayCompletion(t, subject)
         [] n = 2 -> \E t \in Askers : ReplayCard(t, subject)
         [] n = 3 -> \E t \in Askers : asker[t].request = subject /\ EditCard(t)
    /\ UNCHANGED <<taskVars, subject>>
QuestionsFairness ==
    /\ \A t \in {t1, t2} : WF_questionsVars(Weakly(t))
    /\ \A n \in 1..3 : SF_questionsVars(Strongly(n))

QuestionsSpec ==
    QuestionsInit /\ [][QuestionsNext]_questionsVars /\ QuestionsFairness
-----------------------------------------------------------------------------
\* OwedResumeIsDecided and CardShowsAnswer of the subject: nothing is owed to
\* the other requests.
About(set, P(_)) == subject \in set /\ P(subject)

\* An owed resume of the native session is decided in the end, and its card shows
\* the answer (OwedResumeIsDecided and CardShowsAnswer of HumanRequests).
RequestIsServed ==
    LET owes(q) == completion[q].state \in Owed
        due(q) == completion[q].card = "pending"
        shown(q) == completion[q].card = "sent"
    IN  /\ About(Requests, owes) ~> About(Requests, ResumeIsDecided)
        /\ About(Requests, due) ~> About(Requests, shown)

\* A question whose time is up is decided in the end, unless it is cancelled or a
\* directive or the board is first (DueQuestionIsDecided of TaskDecisions).
DecisionIsServed ==
    LET due(d) == decision[d].deadline = "past"
    IN  About(Decisions, due) ~> About(Decisions, DueIsSettled)

\* Both halves keep their types.
QuestionsTypeOK == HumanTypeOK /\ TaskTypeOK
=============================================================================
