--------------------------- MODULE QuestionsProofs ---------------------------
(***************************************************************************)
(* Machine-checked theorems about questions to a person: decisions about a *)
(* task (TaskDecisions) and the sessions that answers resume               *)
(* (HumanRequests), for every value of their constants.                    *)
(***************************************************************************)
EXTENDS MCQuestions, TLAPS

(***************************************************************************)
(* TaskDecisions                                                           *)
(***************************************************************************)
DecisionType ==
    [state: {"none", "pending", "resolved", "expired", "cancelled"},
     source: {"none", "human", "timeout"}, value: Choices \cup {NoChoice},
     deadline: {"none", "running", "past"}, late: BOOLEAN]
ControlType ==
    [state: {"clear", "acknowledged"} \cup Open, kind: {"none", "stop", "hold"},
     epoch: Nat, resumed: BOOLEAN, leased: BOOLEAN]
Stages == {"idle", "submit", "query", "accepted", "refused", "uncertain",
           "claim", "command", "ask", "revoke", "receipt", "doubtful"}
ClerkType == [pc: Stages, about: Decisions \cup {NoChoice}, recovering: BOOLEAN, epoch: Nat]

TaskTypes ==
    /\ decision \in [Decisions -> DecisionType]
    /\ notice \in [Decisions -> {"queued", "sending", "sent", "unknown", "failed"}]
    /\ control \in [Decisions -> ControlType]
    /\ posted \in [Decisions -> {"no", "yes", "failed"}]
    /\ revoked \in [Decisions -> SUBSET Nat]
    /\ clerk \in [Clerks -> ClerkType]
    /\ posts \in [Decisions -> Nat]

\* The receipt starts the clock and comes before the decision; an acknowledged
\* directive was applied and is leased by nobody.
DecisionIsSound(d) ==
    /\ posts[d] <= 1 /\ (notice[d] = "queued" => posts[d] = 0)
    /\ notice[d] = "sent" <=> decision[d].deadline # "none"
    /\ notice[d] = "sent" => posted[d] = "yes"
    /\ decision[d].source # "none" => notice[d] = "sent" /\ decision[d].state \in {"resolved", "expired"}
    /\ control[d].state = "acknowledged" => control[d].epoch \in revoked[d] /\ ~control[d].leased

\* Who is about to post is the first to do so, and what a thread heard is true.
ClerkIsSound(t) ==
    /\ clerk[t].pc # "idle" => clerk[t].about \in Decisions
    /\ clerk[t].pc = "submit" => posts[clerk[t].about] = 0 /\ notice[clerk[t].about] # "queued"
    /\ clerk[t].pc = "accepted" => posted[clerk[t].about] = "yes"
    /\ clerk[t].pc = "receipt" => clerk[t].epoch \in revoked[clerk[t].about]
OnePoster ==
    \A t, u \in Clerks :
        clerk[t].pc = "submit" /\ clerk[u].pc = "submit" /\ clerk[t].about = clerk[u].about => t = u

TaskInv ==
    /\ TaskTypes /\ OnePoster
    /\ \A d \in Decisions : DecisionIsSound(d)
    /\ \A t \in Clerks : ClerkIsSound(t)

\* What a step may make of a decision.
TakesDecision(d, x) ==
    /\ decision[d].source # "none" =>
          x.state = decision[d].state /\ x.source = decision[d].source /\ x.value = decision[d].value
    /\ x.source # "none" =>
          decision[d].source # "none" \/ (notice[d] = "sent" /\ x.state \in {"resolved", "expired"})
    /\ decision[d].deadline # "none" => x.deadline # "none"
    /\ decision[d].deadline = "past" => x.deadline = "past"
    /\ control[d].state = "acknowledged" /\ control[d].kind = "stop" => x.source = decision[d].source

LEMMA DecisionStays == ASSUME NEW d PROVE TakesDecision(d, decision[d])
  BY DEF TakesDecision

\* The steps that decide, and those of the board: the rest of the row stays.
LEMMA DecisionSteps ==
    ASSUME TaskInv, NEW d \in Decisions,
           \/ CreateDecision(d) \/ CancelDecision(d) \/ ResolveDue(d) \/ DeadlinePasses(d)
           \/ \E choice \in Choices : AnswerDecision(d, choice) \/ AnswerFromBoard(d, choice)
    PROVE  /\ decision' \in [Decisions -> DecisionType]
           /\ \A e \in Decisions : /\ TakesDecision(e, decision'[e])
                                   /\ decision[e].deadline = "none" => decision'[e].deadline = "none"
           /\ UNCHANGED <<notice, control, posted, revoked, clerk, posts>>
  <1>a. /\ decision \in [Decisions -> DecisionType] /\ decision[d] \in DecisionType
        /\ decision[d].source # "none" => decision[d].state \in {"resolved", "expired"}
    BY DEF TaskInv, TaskTypes, DecisionIsSound
  <1>b. UNCHANGED <<notice, control, posted, revoked, clerk, posts>>
    BY DEF CreateDecision, CancelDecision, ResolveDue, DeadlinePasses, AnswerDecision,
       AnswerFromBoard, bounds
  <1>1. ASSUME NEW x \in DecisionType, decision' = [decision EXCEPT ![d] = x], TakesDecision(d, x),
               decision[d].deadline = "none" => x.deadline = "none"
        PROVE  /\ decision' \in [Decisions -> DecisionType]
               /\ \A e \in Decisions : /\ TakesDecision(e, decision'[e])
                                       /\ decision[e].deadline = "none" => decision'[e].deadline = "none"
    <2>1. /\ decision' \in [Decisions -> DecisionType] /\ decision'[d] = x
          /\ \A e \in Decisions \ {d} : decision'[e] = decision[e]
      BY <1>a, <1>1
    <2> QED
      BY <1>1, <2>1, DecisionStays
  <1>2. ASSUME NEW source \in {"human", "timeout"}, NEW choice \in Choices,
               Undecided(d), control[d].state = "acknowledged" => control[d].kind # "stop",
               decision' = Decided(d, source, choice)
        PROVE  \E x \in DecisionType :
                  /\ decision' = [decision EXCEPT ![d] = x] /\ TakesDecision(d, x)
                  /\ decision[d].deadline = "none" => x.deadline = "none"
    <2> DEFINE state == IF source = "human" THEN "resolved" ELSE "expired"
               x == [decision[d] EXCEPT !.state = state, !.source = source, !.value = choice]
    <2>1. /\ x \in DecisionType /\ x.state = state /\ x.deadline = decision[d].deadline
          /\ x.source = source
      BY <1>a DEF DecisionType
    <2>2. decision' = [decision EXCEPT ![d] = x]
      BY <1>a, <1>2 DEF Decided
    <2>3. state \in {"resolved", "expired"}
      OBVIOUS
    <2> HIDE DEF x, state
    <2>4. TakesDecision(d, x)
      BY <1>a, <1>2, <2>1, <2>3 DEF TakesDecision, Undecided
    <2> QED
      BY <2>1, <2>2, <2>4
  <1>3. ASSUME NEW x \in DecisionType, x.source = decision[d].source, x.value = decision[d].value,
               x.state = decision[d].state \/ decision[d].state \in {"none", "pending"},
               x.deadline = decision[d].deadline \/ (decision[d].deadline = "running" /\ x.deadline = "past")
        PROVE  TakesDecision(d, x) /\ (decision[d].deadline = "none" => x.deadline = "none")
    BY <1>a, <1>3 DEF TakesDecision
  <1>4. \E x \in DecisionType :
           /\ decision' = [decision EXCEPT ![d] = x] /\ TakesDecision(d, x)
           /\ decision[d].deadline = "none" => x.deadline = "none"
    <2>1. CASE CreateDecision(d) \/ CancelDecision(d)
      <3>1. PICK state \in {"pending", "cancelled"} :
               /\ decision' = [decision EXCEPT ![d].state = state]
               /\ decision[d].state \in {"none", "pending"}
        BY <2>1 DEF CreateDecision, CancelDecision
      <3> DEFINE x == [decision[d] EXCEPT !.state = state]
      <3>2. /\ x \in DecisionType /\ x.source = decision[d].source /\ x.value = decision[d].value
            /\ x.deadline = decision[d].deadline
        BY <1>a DEF DecisionType
      <3>3. decision' = [decision EXCEPT ![d] = x]
        BY <3>1
      <3> HIDE DEF x
      <3> QED
        BY <1>3, <3>1, <3>2, <3>3
    <2>2. CASE DeadlinePasses(d)
      <3> DEFINE x == [decision[d] EXCEPT !.deadline = "past"]
      <3>2. /\ x \in DecisionType /\ x.source = decision[d].source /\ x.value = decision[d].value
            /\ x.deadline = "past" /\ x.state = decision[d].state
        BY <1>a DEF DecisionType
      <3>3. decision' = [decision EXCEPT ![d] = x] /\ decision[d].deadline = "running"
        BY <2>2 DEF DeadlinePasses
      <3> HIDE DEF x
      <3> QED
        BY <1>3, <3>2, <3>3
    <2>3. CASE ResolveDue(d)
      <3>1. TimeoutChoice \in Choices
        BY TaskAssumption
      <3>2. /\ Undecided(d) /\ control[d].state = "clear"
            /\ decision' = Decided(d, "timeout", TimeoutChoice)
        BY <2>3 DEF ResolveDue, TimeoutDue
      <3> QED
        BY <1>2, <3>1, <3>2
    <2>4. ASSUME NEW choice \in Choices, AnswerFromBoard(d, choice)
          PROVE  \E x \in DecisionType :
                   /\ decision' = [decision EXCEPT ![d] = x] /\ TakesDecision(d, x)
                   /\ decision[d].deadline = "none" => x.deadline = "none"
      BY <1>2, <2>4 DEF AnswerFromBoard, GateOpen
    <2>5. ASSUME NEW choice \in Choices, AnswerDecision(d, choice)
          PROVE  \E x \in DecisionType :
                   /\ decision' = [decision EXCEPT ![d] = x] /\ TakesDecision(d, x)
                   /\ decision[d].deadline = "none" => x.deadline = "none"
      <3>1. CASE Undecided(d) /\ GateOpen(d) /\ decision' = Decided(d, "human", choice)
        BY <1>2, <3>1 DEF GateOpen
      <3>2. CASE decision' = [decision EXCEPT ![d].late = TRUE]
        <4> DEFINE x == [decision[d] EXCEPT !.late = TRUE]
        <4>1. /\ x \in DecisionType /\ x.source = decision[d].source /\ x.value = decision[d].value
              /\ x.deadline = decision[d].deadline /\ x.state = decision[d].state
          BY <1>a DEF DecisionType
        <4>2. decision' = [decision EXCEPT ![d] = x]
          BY <3>2
        <4> HIDE DEF x
        <4> QED
          BY <1>3, <4>1, <4>2
      <3> QED
        BY <2>5, <3>1, <3>2 DEF AnswerDecision
    <2> QED
      BY <2>1, <2>2, <2>3, <2>4, <2>5
  <1> QED
    BY <1>b, <1>1, <1>4

LEMMA DecidingKeeps ==
    ASSUME TaskInv, decision' \in [Decisions -> DecisionType],
           \A e \in Decisions : /\ TakesDecision(e, decision'[e])
                                /\ decision[e].deadline = "none" => decision'[e].deadline = "none",
           UNCHANGED <<notice, control, posted, revoked, clerk, posts>>
    PROVE  TaskInv'
  <1>1. ASSUME NEW d \in Decisions
        PROVE  DecisionIsSound(d)'
    <2>1. DecisionIsSound(d) /\ TakesDecision(d, decision'[d])
      BY DEF TaskInv
    <2> QED
      BY <2>1 DEF DecisionIsSound, TakesDecision
  <1>2. OnePoster' /\ \A t \in Clerks : ClerkIsSound(t)'
    BY DEF TaskInv, OnePoster, ClerkIsSound
  <1> QED
    BY <1>1, <1>2 DEF TaskInv, TaskTypes

\* A thread goes on, with the same question and directive, or is done.
LEMMA ClerkTurns ==
    ASSUME TaskInv, NEW t \in Clerks, NEW pc \in Stages, Turn(t, pc)
    PROVE  /\ clerk' \in [Clerks -> ClerkType]
           /\ clerk'[t].pc = pc /\ clerk'[t].about = clerk[t].about
           /\ clerk'[t].epoch = clerk[t].epoch
           /\ \A u \in Clerks \ {t} : clerk'[u] = clerk[u]
  <1>1. clerk \in [Clerks -> ClerkType] /\ clerk[t] \in ClerkType
    BY DEF TaskInv, TaskTypes
  <1> DEFINE x == [clerk[t] EXCEPT !.pc = pc]
  <1>2. x \in ClerkType /\ x.pc = pc /\ x.about = clerk[t].about /\ x.epoch = clerk[t].epoch
    BY <1>1 DEF ClerkType
  <1>3. clerk' = [clerk EXCEPT ![t] = x]
    BY DEF Turn
  <1> HIDE DEF x
  <1> QED
    BY <1>1, <1>2, <1>3

LEMMA ClerkLeaves ==
    ASSUME TaskInv, NEW t \in Clerks, Leave(t)
    PROVE  /\ clerk' \in [Clerks -> ClerkType] /\ clerk'[t].pc = "idle"
           /\ \A u \in Clerks \ {t} : clerk'[u] = clerk[u]
  <1>1. clerk \in [Clerks -> ClerkType]
    BY DEF TaskInv, TaskTypes
  <1>2. Free \in ClerkType /\ Free.pc = "idle"
    BY DEF Free, ClerkType, Stages
  <1> QED
    BY <1>1, <1>2 DEF Leave

\* A step of one thread that posts nothing.
LEMMA ClerkGoesOn ==
    ASSUME TaskInv, NEW t \in Clerks, ClerkIsSound(t)', clerk'[t].pc # "submit",
           \A u \in Clerks \ {t} : clerk'[u] = clerk[u], UNCHANGED posts,
           \A d \in Decisions : /\ posted[d] = "yes" => posted'[d] = "yes"
                                /\ revoked[d] \subseteq revoked'[d]
                                /\ notice[d] # "queued" => notice'[d] # "queued"
    PROVE  OnePoster' /\ \A u \in Clerks : ClerkIsSound(u)'
  <1>1. ASSUME NEW u \in Clerks
        PROVE  ClerkIsSound(u)'
    <2>1. CASE u = t
      BY <2>1
    <2>2. CASE u # t
      <3>1. clerk'[u] = clerk[u] /\ ClerkIsSound(u)
        BY <2>2 DEF TaskInv
      <3> QED
        BY <3>1 DEF ClerkIsSound
    <2> QED
      BY <2>1, <2>2
  <1>2. OnePoster'
    BY DEF TaskInv, OnePoster
  <1> QED
    BY <1>1, <1>2

\* The steps that post the question and record what became of it.
LEMMA NoticeKeeps ==
    ASSUME TaskInv, NEW t \in Clerks, NoticeStep(t)
    PROVE  /\ TaskInv' /\ UNCHANGED control
           /\ \A d \in Decisions : TakesDecision(d, decision'[d])
  <1>a. /\ TaskTypes /\ ClerkIsSound(t) /\ \A d \in Decisions : DecisionIsSound(d)
    BY DEF TaskInv
  <1>b. UNCHANGED <<control, revoked>>
    BY DEF NoticeStep, ReserveQuestion, AskForQuestion, SubmitQuestion, QueryQuestion,
       QuestionIsAccepted, QuestionIsRefused, QuestionIsUncertain
  <1>1. ASSUME NEW d \in Decisions, ReserveQuestion(t, d)
        PROVE  TaskInv' /\ UNCHANGED decision
    <2>1. /\ notice' = [notice EXCEPT ![d] = "sending"] /\ notice[d] = "queued"
          /\ clerk' = [clerk EXCEPT ![t] = [Free EXCEPT !.pc = "submit", !.about = d]]
          /\ UNCHANGED <<decision, posted, posts>>
      BY <1>1 DEF ReserveQuestion, Reservable
    <2>2. /\ [Free EXCEPT !.pc = "submit", !.about = d] \in ClerkType
          /\ [Free EXCEPT !.pc = "submit", !.about = d].pc = "submit"
          /\ [Free EXCEPT !.pc = "submit", !.about = d].about = d
      BY DEF Free, ClerkType, Stages
    <2>3. /\ clerk' \in [Clerks -> ClerkType] /\ clerk'[t].pc = "submit" /\ clerk'[t].about = d
          /\ \A u \in Clerks \ {t} : clerk'[u] = clerk[u]
      BY <1>a, <2>1, <2>2 DEF TaskTypes
    <2>4. TaskTypes'
      BY <1>a, <1>b, <2>1, <2>3 DEF TaskTypes
    <2>5. \A e \in Decisions : DecisionIsSound(e)'
      BY <1>a, <1>b, <2>1 DEF DecisionIsSound, TaskTypes
    <2>6. \A u \in Clerks \ {t} : clerk[u].pc = "submit" => clerk[u].about # d
      BY <2>1 DEF TaskInv, ClerkIsSound
    <2>7. OnePoster'
      BY <2>3, <2>6 DEF TaskInv, OnePoster
    <2>8. ASSUME NEW u \in Clerks
          PROVE  ClerkIsSound(u)'
      <3>1. CASE u = t
        BY <1>a, <2>1, <2>3, <3>1 DEF ClerkIsSound, TaskTypes, DecisionIsSound
      <3>2. CASE u # t
        <4>1. clerk'[u] = clerk[u] /\ ClerkIsSound(u)
          BY <2>3, <3>2 DEF TaskInv
        <4> QED
          BY <1>a, <1>b, <2>1, <4>1 DEF ClerkIsSound, TaskTypes
      <3> QED
        BY <3>1, <3>2
    <2> QED
      BY <2>1, <2>4, <2>5, <2>7, <2>8 DEF TaskInv
  <1>2. ASSUME NEW heard \in BOOLEAN, NEW outcome \in {"no", "yes", "failed"},
               SubmitQuestion(t, outcome, heard)
        PROVE  TaskInv' /\ UNCHANGED decision
    <2> DEFINE d == clerk[t].about
               pc == IF ~heard \/ outcome = "no" THEN "uncertain"
                     ELSE IF outcome = "yes" THEN "accepted"
                     ELSE IF d \in Airlock THEN "refused" ELSE "uncertain"
    <2>1. /\ clerk[t].pc = "submit" /\ d \in Decisions /\ posts[d] = 0 /\ notice[d] # "queued"
          /\ posted' = [posted EXCEPT ![d] = IF posted[d] = "yes" THEN posted[d] ELSE outcome]
          /\ posts' = [posts EXCEPT ![d] = posts[d] + 1]
          /\ Turn(t, pc) /\ pc \in {"uncertain", "accepted", "refused"}
          /\ UNCHANGED <<decision, notice>>
      BY <1>2, <1>a DEF SubmitQuestion, ClerkIsSound
    <2>2. pc = "accepted" => outcome = "yes"
      OBVIOUS
    <2> HIDE DEF d, pc
    <2>3. /\ clerk' \in [Clerks -> ClerkType] /\ clerk'[t].pc = pc /\ clerk'[t].about = d
          /\ \A u \in Clerks \ {t} : clerk'[u] = clerk[u]
      <3>1. pc \in Stages
        BY <2>1 DEF Stages
      <3> QED
        BY <2>1, <3>1, ClerkTurns DEF d
    <2>4. /\ posts' \in [Decisions -> Nat] /\ posts'[d] = 1
          /\ \A e \in Decisions \ {d} : posts'[e] = posts[e]
      BY <1>a, <2>1 DEF TaskTypes
    <2>5. /\ posted' \in [Decisions -> {"no", "yes", "failed"}]
          /\ \A e \in Decisions : posted[e] = "yes" => posted'[e] = "yes"
          /\ outcome = "yes" => posted'[d] = "yes"
      BY <1>a, <2>1 DEF TaskTypes
    <2>6. TaskTypes'
      BY <1>a, <1>b, <2>1, <2>3, <2>4, <2>5 DEF TaskTypes
    <2>7. ASSUME NEW e \in Decisions
          PROVE  DecisionIsSound(e)'
      BY <1>a, <1>b, <2>1, <2>4, <2>5 DEF DecisionIsSound
    <2>8. OnePoster'
      BY <2>1, <2>3 DEF TaskInv, OnePoster
    <2>9. ASSUME NEW u \in Clerks
          PROVE  ClerkIsSound(u)'
      <3>1. CASE u = t
        BY <2>1, <2>2, <2>3, <2>5, <3>1 DEF ClerkIsSound
      <3>2. CASE u # t
        <4>1. clerk'[u] = clerk[u] /\ ClerkIsSound(u)
          BY <2>3, <3>2 DEF TaskInv
        <4>2. clerk[u].pc = "submit" => clerk[u].about # d
          BY <2>1, <3>2 DEF TaskInv, OnePoster, d
        <4> QED
          BY <1>b, <2>1, <2>4, <2>5, <4>1, <4>2 DEF ClerkIsSound
      <3> QED
        BY <3>1, <3>2
    <2> QED
      BY <2>1, <2>6, <2>7, <2>8, <2>9 DEF TaskInv
  <1>3. ASSUME NEW d \in Decisions, AskForQuestion(t, d)
        PROVE  TaskInv' /\ UNCHANGED decision
    <2>1. /\ clerk' = [clerk EXCEPT ![t] = [Free EXCEPT !.pc = "query", !.about = d]]
          /\ UNCHANGED <<decision, notice, posted, posts>>
      BY <1>3 DEF AskForQuestion
    <2>2. /\ [Free EXCEPT !.pc = "query", !.about = d] \in ClerkType
          /\ [Free EXCEPT !.pc = "query", !.about = d].pc = "query"
          /\ [Free EXCEPT !.pc = "query", !.about = d].about = d
      BY DEF Free, ClerkType, Stages
    <2>3. /\ clerk' \in [Clerks -> ClerkType] /\ clerk'[t].pc = "query" /\ clerk'[t].about = d
          /\ \A u \in Clerks \ {t} : clerk'[u] = clerk[u]
      BY <1>a, <2>1, <2>2 DEF TaskTypes
    <2>4. ClerkIsSound(t)'
      BY <2>3 DEF ClerkIsSound
    <2>5. OnePoster' /\ \A u \in Clerks : ClerkIsSound(u)'
      BY <1>b, <2>1, <2>3, <2>4, ClerkGoesOn
    <2> QED
      BY <1>a, <1>b, <2>1, <2>3, <2>5 DEF TaskInv, TaskTypes, DecisionIsSound
  <1>4. ASSUME NEW heard \in BOOLEAN, QueryQuestion(t, heard)
        PROVE  TaskInv' /\ UNCHANGED decision
    <2> DEFINE d == clerk[t].about
               pc == IF heard /\ posted[d] = "yes" THEN "accepted"
                     ELSE IF heard /\ posted[d] = "failed" THEN "refused" ELSE "uncertain"
    <2>1. /\ clerk[t].pc = "query" /\ d \in Decisions /\ Turn(t, pc)
          /\ pc \in {"uncertain", "accepted", "refused"}
          /\ UNCHANGED <<decision, notice, posted, posts>>
      BY <1>4, <1>a DEF QueryQuestion, ClerkIsSound
    <2>2. pc = "accepted" => posted[d] = "yes"
      OBVIOUS
    <2> HIDE DEF d, pc
    <2>3. /\ clerk' \in [Clerks -> ClerkType] /\ clerk'[t].pc = pc /\ clerk'[t].about = d
          /\ \A u \in Clerks \ {t} : clerk'[u] = clerk[u]
      <3>1. pc \in Stages
        BY <2>1 DEF Stages
      <3> QED
        BY <2>1, <3>1, ClerkTurns DEF d
    <2>4. ClerkIsSound(t)' /\ clerk'[t].pc # "submit"
      BY <2>1, <2>2, <2>3 DEF ClerkIsSound
    <2>5. OnePoster' /\ \A u \in Clerks : ClerkIsSound(u)'
      BY <1>b, <2>1, <2>3, <2>4, ClerkGoesOn
    <2> QED
      BY <1>a, <1>b, <2>1, <2>3, <2>5 DEF TaskInv, TaskTypes, DecisionIsSound
  <1>5. ASSUME QuestionIsAccepted(t)
        PROVE  TaskInv' /\ \A e \in Decisions : TakesDecision(e, decision'[e])
    <2> DEFINE d == clerk[t].about
    <2>1. /\ clerk[t].pc = "accepted" /\ d \in Decisions /\ posted[d] = "yes" /\ Leave(t)
          /\ UNCHANGED <<posted, posts>>
      BY <1>5, <1>a DEF QuestionIsAccepted, ClerkIsSound
    <2>2. \/ /\ notice[d] \in {"sending", "unknown", "sent"} /\ Armed(d)
             /\ notice' = [notice EXCEPT ![d] = "sent"]
             /\ decision' = [decision EXCEPT ![d].deadline = "running"]
          \/ /\ notice' = [notice EXCEPT ![d] = IF notice[d] = "sending" THEN "unknown" ELSE notice[d]]
             /\ UNCHANGED decision
      BY <1>5 DEF QuestionIsAccepted
    <2> HIDE DEF d
    <2>3. /\ clerk' \in [Clerks -> ClerkType] /\ clerk'[t].pc = "idle"
          /\ \A u \in Clerks \ {t} : clerk'[u] = clerk[u]
      BY <2>1, ClerkLeaves
    <2>4. /\ decision' \in [Decisions -> DecisionType]
          /\ \A e \in Decisions :
                /\ TakesDecision(e, decision'[e])
                /\ decision'[e].source = decision[e].source /\ decision'[e].state = decision[e].state
                /\ \/ decision'[e].deadline = decision[e].deadline
                   \/ /\ e = d /\ Armed(d) /\ notice'[d] = "sent" /\ notice[d] # "queued"
                      /\ decision'[e].deadline = "running"
                      /\ notice' = [notice EXCEPT ![d] = "sent"]
      <3>1. CASE UNCHANGED decision
        BY <1>a, <3>1, DecisionStays DEF TaskTypes
      <3>2. CASE decision' = [decision EXCEPT ![d].deadline = "running"] /\ Armed(d)
                 /\ notice' = [notice EXCEPT ![d] = "sent"] /\ notice[d] \in {"sending", "unknown", "sent"}
        <4> DEFINE x == [decision[d] EXCEPT !.deadline = "running"]
        <4>1. decision[d] \in DecisionType
          BY <1>a, <2>1 DEF TaskTypes
        <4>2. /\ x \in DecisionType /\ x.source = decision[d].source /\ x.value = decision[d].value
              /\ x.deadline = "running" /\ x.state = decision[d].state
          BY <4>1 DEF DecisionType
        <4>3. decision' = [decision EXCEPT ![d] = x] /\ notice'[d] = "sent"
          BY <1>a, <2>1, <3>2 DEF TaskTypes
        <4> HIDE DEF x
        <4>4. /\ decision' \in [Decisions -> DecisionType] /\ decision'[d] = x
              /\ \A e \in Decisions \ {d} : decision'[e] = decision[e]
          BY <1>a, <2>1, <4>2, <4>3 DEF TaskTypes
        <4>5. TakesDecision(d, x)
          BY <1>a, <2>1, <3>2, <4>2 DEF TakesDecision, Armed, DecisionIsSound
        <4> QED
          BY <2>1, <3>2, <4>2, <4>3, <4>4, <4>5, DecisionStays
      <3> QED
        BY <2>2, <3>1, <3>2
    <2>5. notice' \in [Decisions -> {"queued", "sending", "sent", "unknown", "failed"}]
      BY <1>a, <2>1, <2>2 DEF TaskTypes
    <2>6. \A e \in Decisions :
             /\ notice'[e] = notice[e] \/ (notice[e] \notin {"queued", "sent"} /\ notice'[e] \notin {"queued", "sent"})
                   \/ (notice'[e] = "sent" /\ decision'[e].deadline = "running" /\ e = d /\ notice[e] # "queued")
      BY <1>a, <2>1, <2>2 DEF TaskTypes, DecisionType
    <2>7. ASSUME NEW e \in Decisions
          PROVE  DecisionIsSound(e)'
      BY <1>a, <1>b, <2>1, <2>4, <2>6 DEF DecisionIsSound, Armed, TaskTypes
    <2>8. OnePoster' /\ \A u \in Clerks : ClerkIsSound(u)'
      <3>1. ClerkIsSound(t)' /\ clerk'[t].pc # "submit"
        BY <2>3 DEF ClerkIsSound
      <3> QED
        BY <1>b, <2>1, <2>3, <2>6, <3>1, ClerkGoesOn
    <2> QED
      BY <1>a, <1>b, <2>1, <2>3, <2>4, <2>5, <2>7, <2>8 DEF TaskInv, TaskTypes
  <1>6. ASSUME QuestionIsRefused(t) \/ QuestionIsUncertain(t)
        PROVE  TaskInv' /\ UNCHANGED decision
    <2> DEFINE d == clerk[t].about
    <2>1. /\ d \in Decisions /\ Leave(t) /\ UNCHANGED <<decision, posted, posts>>
      BY <1>6, <1>a DEF QuestionIsRefused, QuestionIsUncertain, ClerkIsSound
    <2>2. PICK state \in {"failed", "unknown", notice[d]} :
             /\ notice' = [notice EXCEPT ![d] = state]
             /\ state # notice[d] => notice[d] \in {"sending", "unknown"}
      BY <1>6 DEF QuestionIsRefused, QuestionIsUncertain
    <2> HIDE DEF d
    <2>3. /\ clerk' \in [Clerks -> ClerkType] /\ clerk'[t].pc = "idle"
          /\ \A u \in Clerks \ {t} : clerk'[u] = clerk[u]
      BY <2>1, ClerkLeaves
    <2>4. /\ notice' \in [Decisions -> {"queued", "sending", "sent", "unknown", "failed"}]
          /\ \A e \in Decisions :
                notice'[e] = notice[e]
                \/ (notice[e] \notin {"queued", "sent"} /\ notice'[e] \notin {"queued", "sent"})
      BY <1>a, <2>1, <2>2 DEF TaskTypes
    <2>5. OnePoster' /\ \A u \in Clerks : ClerkIsSound(u)'
      <3>1. ClerkIsSound(t)' /\ clerk'[t].pc # "submit"
        BY <2>3 DEF ClerkIsSound
      <3> QED
        BY <1>b, <2>1, <2>3, <2>4, <3>1, ClerkGoesOn
    <2>6. ASSUME NEW e \in Decisions
          PROVE  DecisionIsSound(e)'
      BY <1>a, <1>b, <2>1, <2>4 DEF DecisionIsSound
    <2> QED
      BY <1>a, <1>b, <2>1, <2>3, <2>4, <2>5, <2>6 DEF TaskInv, TaskTypes
  <1> QED
    BY <1>b, <1>1, <1>2, <1>3, <1>4, <1>5, <1>6, DecisionStays DEF NoticeStep

\* An acknowledged stop stays as it is.
StopStays(d) ==
    control[d].state = "acknowledged" /\ control[d].kind = "stop" => control'[d] = control[d]

\* A step that leaves the questions alone, and directives but for one.
LEMMA ControlIsSet ==
    ASSUME TaskInv, NEW d \in Decisions, NEW y \in ControlType,
           control' = [control EXCEPT ![d] = y], UNCHANGED <<decision, notice, posted, posts>>,
           \A e \in Decisions : revoked[e] \subseteq revoked'[e],
           y.state = "acknowledged" => y.epoch \in revoked'[d] /\ ~y.leased,
           control[d].state = "acknowledged" /\ control[d].kind = "stop" => y = control[d]
    PROVE  /\ control' \in [Decisions -> ControlType]
           /\ \A e \in Decisions : DecisionIsSound(e)' /\ StopStays(e)
  <1>1. /\ control' \in [Decisions -> ControlType] /\ control'[d] = y
        /\ \A e \in Decisions \ {d} : control'[e] = control[e]
    BY DEF TaskInv, TaskTypes
  <1>2. ASSUME NEW e \in Decisions
        PROVE  DecisionIsSound(e)' /\ StopStays(e)
    <2>1. DecisionIsSound(e)
      BY DEF TaskInv
    <2>2. CASE e = d
      BY <1>1, <2>1, <2>2 DEF DecisionIsSound, StopStays
    <2>3. CASE e # d
      BY <1>1, <2>1, <2>3 DEF DecisionIsSound, StopStays
    <2> QED
      BY <2>2, <2>3
  <1> QED
    BY <1>1, <1>2

LEMMA ControlsKept ==
    ASSUME TaskInv, UNCHANGED <<control, decision, notice, posted, posts>>,
           \A e \in Decisions : revoked[e] \subseteq revoked'[e]
    PROVE  /\ control' \in [Decisions -> ControlType]
           /\ \A e \in Decisions : DecisionIsSound(e)' /\ StopStays(e)
  BY DEF TaskInv, TaskTypes, DecisionIsSound, StopStays

\* Orders of people, and leases that expire.
LEMMA DirectiveKeeps ==
    ASSUME TaskInv, NEW d \in Decisions,
           \/ ResumeAfterHold(d) \/ LeaseExpires(d)
           \/ \E kind \in {"stop", "hold"} : RequestControl(d, kind)
    PROVE  TaskInv' /\ UNCHANGED decision /\ \A e \in Decisions : StopStays(e)
  <1>a. control[d] \in ControlType /\ DecisionIsSound(d) /\ TaskTypes
    BY DEF TaskInv, TaskTypes
  <1>b. UNCHANGED <<decision, notice, posted, posts, revoked, clerk>>
    BY DEF ResumeAfterHold, LeaseExpires, RequestControl, bounds
  <1>1. \E y \in ControlType :
           /\ control' = [control EXCEPT ![d] = y]
           /\ y.state = "acknowledged" => y.epoch \in revoked[d] /\ ~y.leased
           /\ control[d].state = "acknowledged" /\ control[d].kind = "stop" => y = control[d]
    <2>1. CASE ResumeAfterHold(d)
      <3> DEFINE y == [control[d] EXCEPT !.resumed = TRUE]
      <3>1. /\ y \in ControlType /\ y.state = control[d].state /\ y.epoch = control[d].epoch
            /\ y.leased = control[d].leased
        BY <1>a DEF ControlType
      <3>2. control' = [control EXCEPT ![d] = y] /\ control[d].kind = "hold"
        BY <2>1 DEF ResumeAfterHold
      <3> HIDE DEF y
      <3> QED
        BY <1>a, <3>1, <3>2 DEF DecisionIsSound
    <2>2. CASE LeaseExpires(d)
      <3> DEFINE y == [control[d] EXCEPT !.leased = FALSE]
      <3>1. /\ y \in ControlType /\ y.state = control[d].state
        BY <1>a DEF ControlType
      <3>2. control' = [control EXCEPT ![d] = y] /\ control[d].leased
        BY <2>2 DEF LeaseExpires
      <3>3. control[d].state # "acknowledged"
        BY <1>a, <3>2 DEF DecisionIsSound
      <3> HIDE DEF y
      <3> QED
        BY <3>1, <3>2, <3>3
    <2>3. ASSUME NEW kind \in {"stop", "hold"}, RequestControl(d, kind)
          PROVE  \E y \in ControlType :
                    /\ control' = [control EXCEPT ![d] = y]
                    /\ y.state = "acknowledged" => y.epoch \in revoked[d] /\ ~y.leased
                    /\ control[d].state = "acknowledged" /\ control[d].kind = "stop" => y = control[d]
      <3> DEFINE n == control[d].epoch + 1
                 y == [NoControl EXCEPT !.state = "pending", !.kind = kind, !.epoch = n]
      <3>1. control[d].epoch \in Nat
        BY <1>a DEF ControlType
      <3>2. n \in Nat
        BY <3>1
      <3> HIDE DEF n
      <3> DEFINE x1 == [NoControl EXCEPT !.state = "pending"]
                 x2 == [x1 EXCEPT !.kind = kind]
                 x3 == [x2 EXCEPT !.epoch = n]
      <3>4. NoControl \in ControlType
        BY DEF NoControl, ControlType
      <3>6. x1 \in ControlType /\ x1.state = "pending"
        BY <3>4 DEF ControlType, Open
      <3>7. y = x3
        OBVIOUS
      <3> HIDE DEF y, x1
      <3>8. x2 \in ControlType /\ x2.state = "pending"
        BY <3>6 DEF ControlType
      <3> HIDE DEF x2
      <3>5. y \in ControlType /\ y.state = "pending"
        BY <3>2, <3>7, <3>8 DEF ControlType
      <3>3. control' = [control EXCEPT ![d] = y] /\ Controllable(d)
        BY <2>3 DEF RequestControl, n, y
      <3> QED
        BY <3>3, <3>5 DEF Controllable
    <2> QED
      BY <2>1, <2>2, <2>3
  <1>2. /\ control' \in [Decisions -> ControlType]
        /\ \A e \in Decisions : DecisionIsSound(e)' /\ StopStays(e)
    BY <1>1, <1>b, ControlIsSet
  <1>3. OnePoster' /\ \A t \in Clerks : ClerkIsSound(t)'
    BY <1>b DEF TaskInv, OnePoster, ClerkIsSound
  <1> QED
    BY <1>a, <1>b, <1>2, <1>3 DEF TaskInv, TaskTypes

\* The worker that dispatches a directive.
LEMMA ControlKeeps ==
    ASSUME TaskInv, NEW t \in Clerks, ControlStep(t)
    PROVE  TaskInv' /\ UNCHANGED decision /\ \A e \in Decisions : StopStays(e)
  <1>a. TaskTypes /\ ClerkIsSound(t) /\ clerk[t] \in ClerkType
    BY DEF TaskInv, TaskTypes
  <1>b. UNCHANGED <<decision, notice, posted, posts>>
    BY DEF ControlStep, LookAtControl, ClaimControl, ReadCommand, QueryControl, Revoke,
       RecordReceipt, RecordDoubt, bounds
  <1> DEFINE d == clerk[t].about
             Settled1 == /\ clerk' \in [Clerks -> ClerkType]
                         /\ \A u \in Clerks \ {t} : clerk'[u] = clerk[u]
                         /\ clerk'[t].pc # "submit" /\ ClerkIsSound(t)'
             Sound == /\ control' \in [Decisions -> ControlType]
                      /\ \A e \in Decisions : DecisionIsSound(e)' /\ StopStays(e)
             Grows1 == /\ revoked' \in [Decisions -> SUBSET Nat]
                       /\ \A e \in Decisions : revoked[e] \subseteq revoked'[e]
  <1>1. ASSUME Settled1, Sound, Grows1
        PROVE  TaskInv' /\ \A e \in Decisions : StopStays(e)
    <2>1. OnePoster' /\ \A u \in Clerks : ClerkIsSound(u)'
      BY <1>b, <1>1, ClerkGoesOn
    <2> QED
      BY <1>a, <1>b, <1>1, <2>1 DEF TaskInv, TaskTypes
  <1>2. ASSUME UNCHANGED revoked
        PROVE  Grows1
    BY <1>2, <1>a DEF TaskTypes
  <1>3. ASSUME UNCHANGED control, Grows1
        PROVE  Sound
    BY <1>b, <1>3, ControlsKept
  <1>4. ASSUME Leave(t)
        PROVE  Settled1
    BY <1>4, ClerkLeaves DEF ClerkIsSound
  <1>5. ASSUME NEW pc \in Stages, Turn(t, pc), pc \notin {"submit", "accepted"}, d \in Decisions,
               pc = "receipt" => clerk[t].epoch \in revoked'[d]
        PROVE  Settled1
    BY <1>5, ClerkTurns DEF ClerkIsSound
  <1>c. Doubted(d) = control \/
           (control[d].state = "sending" /\ Doubted(d) = [control EXCEPT ![d].state = "unknown", ![d].leased = TRUE])
    BY DEF Doubted
  <1>d. ASSUME d \in Decisions, control' = Doubted(d), UNCHANGED revoked
        PROVE  Sound
    <2>1. CASE control' = control
      BY <1>2, <1>3, <1>d, <2>1
    <2>2. CASE control[d].state = "sending" /\ control' = [control EXCEPT ![d].state = "unknown", ![d].leased = TRUE]
      <3> DEFINE y == [control[d] EXCEPT !.state = "unknown", !.leased = TRUE]
      <3>1. control[d] \in ControlType
        BY <1>a, <1>d DEF TaskTypes
      <3>2. y \in ControlType /\ y.state = "unknown"
        BY <3>1 DEF ControlType, Open
      <3>3. control' = [control EXCEPT ![d] = y]
        BY <1>a, <1>d, <2>2 DEF TaskTypes
      <3> HIDE DEF y
      <3> QED
        BY <1>b, <1>d, <2>2, <3>2, <3>3, ControlIsSet
    <2> QED
      BY <1>c, <1>d, <2>1, <2>2
  <1> HIDE DEF d, Settled1, Sound, Grows1
  <1>6. ASSUME NEW e \in Decisions, LookAtControl(t, e)
        PROVE  TaskInv' /\ \A f \in Decisions : StopStays(f)
    <2>1. PICK x \in ClerkType : clerk' = [clerk EXCEPT ![t] = x] /\ x.pc = "claim" /\ x.about = e
      <3>1. [pc |-> "claim", about |-> e, epoch |-> 0,
             recovering |-> control[e].state \in {"sending", "unknown"}] \in ClerkType
        BY DEF ClerkType, Stages
      <3> QED
        BY <1>6, <3>1 DEF LookAtControl
    <2>2. UNCHANGED <<control, revoked>>
      BY <1>6 DEF LookAtControl
    <2>3. Settled1
      BY <1>a, <2>1 DEF Settled1, TaskTypes, ClerkIsSound
    <2> QED
      BY <1>1, <1>2, <1>3, <2>2, <2>3
  <1>7. CASE ClaimControl(t)
    <2>1. d \in Decisions /\ UNCHANGED revoked
      BY <1>7, <1>a DEF ClaimControl, ClerkIsSound, d
    <2>2. CASE Dispatchable(d) /\ Turn(t, "command")
               /\ control' = [control EXCEPT ![d].state = "sending", ![d].leased = TRUE]
      <3> DEFINE y == [control[d] EXCEPT !.state = "sending", !.leased = TRUE]
      <3>1. control[d] \in ControlType
        BY <1>a, <2>1 DEF TaskTypes
      <3>2. y \in ControlType /\ y.state = "sending"
        BY <3>1 DEF ControlType, Open
      <3>3. control' = [control EXCEPT ![d] = y] /\ control[d].state # "acknowledged"
        BY <1>a, <2>1, <2>2 DEF TaskTypes, Dispatchable
      <3> HIDE DEF y
      <3>4. Sound
        BY <1>b, <2>1, <3>2, <3>3, ControlIsSet DEF Sound
      <3> DEFINE pc == "command"
      <3>5. pc \in Stages /\ pc \notin {"submit", "accepted"} /\ pc # "receipt" /\ Turn(t, pc)
        BY <2>2 DEF Stages
      <3> HIDE DEF pc
      <3>6. Settled1
        BY <1>5, <2>1, <3>5
      <3> QED
        BY <1>1, <1>2, <1>b, <2>1, <3>4, <3>6
    <2>3. CASE UNCHANGED control /\ Leave(t)
      BY <1>1, <1>2, <1>3, <1>4, <1>b, <2>1, <2>3
    <2> QED
      BY <1>7, <2>2, <2>3 DEF ClaimControl, d
  <1>8. CASE ReadCommand(t)
    <2>1. /\ d \in Decisions /\ UNCHANGED <<control, revoked>>
          /\ clerk' = [clerk EXCEPT ![t].epoch = control[d].epoch,
                          ![t].pc = IF clerk[t].recovering THEN "ask" ELSE "revoke"]
      BY <1>8, <1>a DEF ReadCommand, ClerkIsSound, d
    <2> DEFINE pc == IF clerk[t].recovering THEN "ask" ELSE "revoke"
               x == [clerk[t] EXCEPT !.epoch = control[d].epoch, !.pc = pc]
    <2>2. control[d].epoch \in Nat
      <3>1. control[d] \in ControlType
        BY <1>a, <2>1 DEF TaskTypes
      <3> QED
        BY <3>1 DEF ControlType
    <2>3. pc \in {"ask", "revoke"}
      OBVIOUS
    <2>4. clerk' = [clerk EXCEPT ![t] = x]
      BY <1>a, <2>1 DEF TaskTypes
    <2> HIDE DEF pc
    <2>5. x \in ClerkType /\ x.pc = pc /\ x.about = d
      BY <1>a, <2>2, <2>3 DEF ClerkType, Stages, d
    <2> HIDE DEF x
    <2>6. /\ clerk' \in [Clerks -> ClerkType] /\ clerk'[t] = x
          /\ \A u \in Clerks \ {t} : clerk'[u] = clerk[u]
      BY <1>a, <2>4, <2>5 DEF TaskTypes
    <2>7. ClerkIsSound(t)' /\ clerk'[t].pc # "submit"
      BY <2>1, <2>3, <2>5, <2>6 DEF ClerkIsSound
    <2> QED
      BY <1>1, <1>2, <1>3, <1>b, <2>1, <2>6, <2>7 DEF Settled1
  <1>9. ASSUME NEW heard \in BOOLEAN, QueryControl(t, heard)
        PROVE  TaskInv' /\ \A e \in Decisions : StopStays(e)
    <2> DEFINE pc == IF ~heard THEN "doubtful"
                     ELSE IF clerk[t].epoch \in revoked[d] THEN "receipt" ELSE "revoke"
    <2>1. d \in Decisions /\ UNCHANGED <<control, revoked>> /\ Turn(t, pc)
      BY <1>9, <1>a DEF QueryControl, ClerkIsSound, d
    <2>2. pc \in Stages /\ pc \notin {"submit", "accepted"}
          /\ (pc = "receipt" => clerk[t].epoch \in revoked[d])
      BY DEF Stages
    <2> HIDE DEF pc
    <2>3. Settled1
      BY <1>5, <2>1, <2>2
    <2> QED
      BY <1>1, <1>2, <1>3, <2>1, <2>3
  <1>10. ASSUME NEW applied \in BOOLEAN, NEW heard \in BOOLEAN, Revoke(t, applied, heard)
         PROVE  TaskInv' /\ \A e \in Decisions : StopStays(e)
    <2> DEFINE pc == IF applied /\ heard THEN "receipt" ELSE "doubtful"
    <2>1. /\ d \in Decisions /\ UNCHANGED control /\ Turn(t, pc)
          /\ revoked' = IF applied THEN [revoked EXCEPT ![d] = revoked[d] \cup {clerk[t].epoch}] ELSE revoked
      BY <1>10, <1>a DEF Revoke, ClerkIsSound, d
    <2>2. clerk[t].epoch \in Nat
      BY <1>a DEF ClerkType
    <2>3. Grows1 /\ (applied => clerk[t].epoch \in revoked'[d])
      BY <1>a, <2>1, <2>2 DEF Grows1, TaskTypes
    <2>4. pc \in Stages /\ pc \notin {"submit", "accepted"} /\ (pc = "receipt" => applied)
      BY DEF Stages
    <2> HIDE DEF pc
    <2>5. Settled1
      BY <1>5, <2>1, <2>3, <2>4
    <2> QED
      BY <1>1, <1>3, <2>1, <2>3, <2>5
  <1>11. CASE RecordReceipt(t)
    <2>1. /\ d \in Decisions /\ Leave(t) /\ UNCHANGED revoked /\ clerk[t].epoch \in revoked[d]
          /\ control' = IF Acknowledges(d, clerk[t].epoch) THEN Acknowledged(d) ELSE Doubted(d)
      BY <1>11, <1>a DEF RecordReceipt, ClerkIsSound, d
    <2>2. CASE Acknowledges(d, clerk[t].epoch) /\ control' = Acknowledged(d)
      <3> DEFINE y == [control[d] EXCEPT !.state = "acknowledged", !.leased = FALSE]
      <3>1. control[d] \in ControlType
        BY <1>a, <2>1 DEF TaskTypes
      <3>2. y \in ControlType /\ ~y.leased /\ y.epoch = control[d].epoch
        BY <3>1 DEF ControlType
      <3>3. /\ control' = [control EXCEPT ![d] = y] /\ control[d].state # "acknowledged"
            /\ control[d].epoch = clerk[t].epoch
        BY <1>a, <2>1, <2>2 DEF TaskTypes, Acknowledges, Acknowledged, Open
      <3> HIDE DEF y
      <3>4. Sound
        BY <1>b, <2>1, <3>2, <3>3, ControlIsSet DEF Sound
      <3> QED
        BY <1>1, <1>2, <1>4, <1>b, <2>1, <3>4
    <2>3. CASE control' = Doubted(d)
      BY <1>1, <1>2, <1>4, <1>b, <1>d, <2>1, <2>3
    <2> QED
      BY <2>1, <2>2, <2>3
  <1>12. CASE RecordDoubt(t)
    <2>1. d \in Decisions /\ Leave(t) /\ UNCHANGED revoked /\ control' = Doubted(d)
      BY <1>12, <1>a DEF RecordDoubt, ClerkIsSound, d
    <2> QED
      BY <1>1, <1>2, <1>4, <1>b, <1>d, <2>1
  <1> QED
    BY <1>b, <1>6, <1>7, <1>8, <1>9, <1>10, <1>11, <1>12 DEF ControlStep

\* What the properties of decisions rest on, whichever tasks run and whichever questions
\* were read when the program starts.
LEMMA TaskInvInit ==
    ASSUME NEW B, NEW P, NEW spent, TaskInitFor(B, P, spent)
    PROVE  TaskInv
  <1>1. /\ NoControl \in ControlType /\ NoControl.state = "clear"
        /\ Free \in ClerkType /\ Free.pc = "idle"
    BY DEF NoControl, ControlType, Free, ClerkType, Stages
  <1>2. \A asked \in BOOLEAN :
           [state |-> IF asked THEN "pending" ELSE "none", source |-> "none", value |-> NoChoice,
            deadline |-> IF asked THEN "running" ELSE "none", late |-> FALSE] \in DecisionType
    BY DEF DecisionType
  <1>3. \A d \in Decisions :
           /\ decision[d] = [state |-> IF d \in P THEN "pending" ELSE "none", source |-> "none",
                             value |-> NoChoice,
                             deadline |-> IF d \in P THEN "running" ELSE "none", late |-> FALSE]
           /\ notice[d] = IF d \in P THEN "sent" ELSE "queued"
           /\ posted[d] = IF d \in P THEN "yes" ELSE "no"
           /\ posts[d] = IF d \in P THEN 1 ELSE 0
           /\ control[d].state = "clear"
    BY <1>1 DEF TaskInitFor
  <1>4. \A d \in Decisions : decision[d] \in DecisionType
    BY <1>2, <1>3
  <1>5. \A t \in Clerks : clerk[t].pc = "idle"
    BY <1>1 DEF TaskInitFor
  <1>6. decision \in [Decisions -> DecisionType]
    BY <1>4 DEF TaskInitFor
  <1>7. TaskTypes
    BY <1>1, <1>6 DEF TaskInitFor, TaskTypes
  <1>8. ASSUME NEW d \in Decisions PROVE DecisionIsSound(d)
    <2>1. CASE d \in P
      <3>1. /\ decision[d] = [state |-> "pending", source |-> "none", value |-> NoChoice,
                              deadline |-> "running", late |-> FALSE]
            /\ notice[d] = "sent" /\ posted[d] = "yes" /\ posts[d] = 1 /\ control[d].state = "clear"
        BY <1>3, <2>1
      <3> QED
        BY <3>1 DEF DecisionIsSound
    <2>2. CASE d \notin P
      <3>1. /\ decision[d] = [state |-> "none", source |-> "none", value |-> NoChoice,
                              deadline |-> "none", late |-> FALSE]
            /\ notice[d] = "queued" /\ posts[d] = 0 /\ control[d].state = "clear"
        BY <1>3, <2>2
      <3> QED
        BY <3>1 DEF DecisionIsSound
    <2> QED
      BY <2>1, <2>2
  <1> QED
    BY <1>5, <1>7, <1>8 DEF TaskInv, OnePoster, ClerkIsSound

LEMMA TaskSteps ==
    ASSUME TaskInv, [TaskNext]_taskVars
    PROVE  /\ TaskInv'
           /\ \A d \in Decisions : TakesDecision(d, decision'[d]) /\ StopStays(d)
  <1>1. CASE UNCHANGED <<decision, notice, control, posted, revoked, clerk, posts>>
    BY <1>1, DecisionStays DEF TaskInv, TaskTypes, OnePoster, DecisionIsSound, ClerkIsSound, StopStays
  <1>2. ASSUME NEW d \in Decisions,
               \/ CreateDecision(d) \/ CancelDecision(d) \/ ResolveDue(d) \/ DeadlinePasses(d)
               \/ \E choice \in Choices : AnswerDecision(d, choice) \/ AnswerFromBoard(d, choice)
        PROVE  TaskInv' /\ \A e \in Decisions : TakesDecision(e, decision'[e]) /\ StopStays(e)
    <2>1. /\ decision' \in [Decisions -> DecisionType]
          /\ \A e \in Decisions : /\ TakesDecision(e, decision'[e])
                                  /\ decision[e].deadline = "none" => decision'[e].deadline = "none"
          /\ UNCHANGED <<notice, control, posted, revoked, clerk, posts>>
      BY <1>2, DecisionSteps
    <2> QED
      BY <2>1, DecidingKeeps DEF StopStays
  <1>3. ASSUME NEW d \in Decisions, Continue(d) \/ \E to \in {"edited", "reworded", "lost"} : BoardMovesOn(d, to)
        PROVE  TaskInv' /\ \A e \in Decisions : TakesDecision(e, decision'[e]) /\ StopStays(e)
    BY <1>1, <1>3 DEF Continue, BoardMovesOn
  <1>4. ASSUME NEW d \in Decisions,
               \/ ResumeAfterHold(d) \/ LeaseExpires(d)
               \/ \E kind \in {"stop", "hold"} : RequestControl(d, kind)
        PROVE  TaskInv' /\ \A e \in Decisions : TakesDecision(e, decision'[e]) /\ StopStays(e)
    BY <1>4, DirectiveKeeps, DecisionStays
  <1>5. ASSUME NEW t \in Clerks, NoticeStep(t)
        PROVE  TaskInv' /\ \A e \in Decisions : TakesDecision(e, decision'[e]) /\ StopStays(e)
    BY <1>5, NoticeKeeps DEF StopStays
  <1>6. ASSUME NEW t \in Clerks, ControlStep(t)
        PROVE  TaskInv' /\ \A e \in Decisions : TakesDecision(e, decision'[e]) /\ StopStays(e)
    BY <1>6, ControlKeeps, DecisionStays
  <1>7. ASSUME NEW s \in Sites, SiteCrash(s)
        PROVE  TaskInv' /\ \A e \in Decisions : TakesDecision(e, decision'[e]) /\ StopStays(e)
    <2>1. /\ UNCHANGED <<decision, notice, control, posted, revoked, posts>>
          /\ clerk' = [t \in Clerks |-> IF SiteOf[t] = s THEN Free ELSE clerk[t]]
      BY <1>7 DEF SiteCrash
    <2>2. Free \in ClerkType /\ Free.pc = "idle"
      BY DEF Free, ClerkType, Stages
    <2>3. /\ clerk' \in [Clerks -> ClerkType]
          /\ \A t \in Clerks : clerk'[t] = clerk[t] \/ clerk'[t].pc = "idle"
      BY <2>1, <2>2 DEF TaskInv, TaskTypes
    <2>4. OnePoster' /\ \A t \in Clerks : ClerkIsSound(t)'
      BY <2>1, <2>3 DEF TaskInv, OnePoster, ClerkIsSound
    <2> QED
      BY <2>1, <2>3, <2>4, DecisionStays DEF TaskInv, TaskTypes, DecisionIsSound, StopStays
  <1> QED
    BY <1>1, <1>2, <1>3, <1>4, <1>5, <1>6, <1>7 DEF TaskNext, taskVars

\* The receipt starts the clock and precedes the decision, an acknowledged directive was
\* applied, and one thread posts the question (task_decisions.py).
THEOREM DecisionsAreSound == TaskSpec => []TaskInv
  <1>1. TaskInv /\ [TaskNext]_taskVars => TaskInv'
    BY TaskSteps
  <1>2. TaskInit => TaskInv
    BY TaskInvInit DEF TaskInit
  <1> QED
    BY <1>1, <1>2, PTL DEF TaskSpec

\* The question is posted at most once, whatever is repeated or lost, and decided only
\* after a person can have read it (reserve_notification, record_notification_success).
THEOREM PostedOnce == TaskSpec => []PostedOnceThenDecided
  <1>1. TaskInv => PostedOnceThenDecided
    BY DEF TaskInv, DecisionIsSound, PostedOnceThenDecided
  <1> QED
    BY <1>1, DecisionsAreSound, PTL

\* A directive counts as acknowledged only if the owner of the task applied that very
\* directive (acknowledge_control).
THEOREM ReceiptsAreMatched == TaskSpec => []AcknowledgedWasApplied
  <1>1. TaskInv => AcknowledgedWasApplied
    BY DEF TaskInv, DecisionIsSound, AcknowledgedWasApplied
  <1> QED
    BY <1>1, DecisionsAreSound, PTL

\* A decision that is taken keeps everything but the note that something came late.
LEMMA DecisionStands ==
    ASSUME TaskInv, [TaskNext]_taskVars
    PROVE  \A d \in Decisions :
              /\ decision[d].source # "none" =>
                    decision'[d] = [decision[d] EXCEPT !.late = decision'[d].late,
                                                       !.deadline = decision'[d].deadline]
              /\ decision[d].deadline = "past" => decision'[d].deadline = "past"
  <1> SUFFICES ASSUME NEW d \in Decisions
               PROVE  /\ decision[d].source # "none" =>
                            decision'[d] = [decision[d] EXCEPT !.late = decision'[d].late,
                                                               !.deadline = decision'[d].deadline]
                      /\ decision[d].deadline = "past" => decision'[d].deadline = "past"
    OBVIOUS
  <1>1. TakesDecision(d, decision'[d])
    BY TaskSteps
  <1>2. decision[d] \in DecisionType /\ decision'[d] \in DecisionType
    BY TaskSteps DEF TaskInv, TaskTypes
  <1> QED
    BY <1>1, <1>2 DEF TakesDecision, DecisionType

\* Persons, the board and the deadline race: there is one decision (record_late_instruction,
\* resolve_due).
THEOREM DecidedOnce == TaskSpec => OneDecision
  <1>1. TaskInv /\ [TaskNext]_taskVars => [\A d \in Decisions :
           /\ decision[d].source # "none" =>
                 decision'[d] = [decision[d] EXCEPT !.late = decision'[d].late,
                                                    !.deadline = decision'[d].deadline]
           /\ decision[d].deadline = "past" => decision'[d].deadline = "past"]_taskVars
    BY DecisionStands
  <1> QED
    BY <1>1, DecisionsAreSound, PTL DEF TaskSpec, OneDecision

\* An acknowledged stop is final, whatever answers, deadlines and directives were on their
\* way (control_gate_open, request_control).
THEOREM StopsAreFinal == TaskSpec => StopIsFinal
  <1>1. TaskInv /\ [TaskNext]_taskVars => [\A d \in Decisions :
           control[d].state = "acknowledged" /\ control[d].kind = "stop" =>
               /\ control'[d] = control[d]
               /\ decision'[d].source = decision[d].source]_taskVars
    BY TaskSteps DEF TakesDecision, StopStays
  <1> QED
    BY <1>1, DecisionsAreSound, PTL DEF TaskSpec, StopIsFinal
-----------------------------------------------------------------------------
(***************************************************************************)
(* HumanRequests                                                           *)
(***************************************************************************)
QuestionType == [state: QuestionStates, answer: Values \cup {NoAnswer}]
CompletionType ==
    [state: CompletionStates, receipt: BOOLEAN, card: {"none", "pending", "retryable", "sent"}]
AskerType == [pc: Points, request: Requests \cup {NoCase}, resume: BOOLEAN]
HumanTypes ==
    /\ question \in [Requests -> QuestionType]
    /\ completion \in [Requests -> CompletionType]
    /\ herder \in [Requests -> {"pending", "flying", "resumed"}]
    /\ asker \in [Askers -> AskerType]
    /\ doubt \in [Requests -> Values \cup {NoAnswer}]

\* The resume happened, and the receipt of a registered one is stored.
Confirmed(q) ==
    /\ herder[q] = "resumed" /\ completion[q].state # "none"
    /\ q \in Registry => completion[q].receipt
\* The row of a request somebody calls about: fenced, or settled meanwhile by a
\* thread that asked the registry.
InFlight(q) ==
    \/ completion[q].state = "sending"
    \/ q \in Registry /\ herder[q] = "resumed" /\ completion[q].state = "sent"
\* The thread holds the claim of its request.
Calls(t) ==
    \/ asker[t].pc \in {"post", "refused", "lost", "readback"}
    \/ asker[t].pc = "admitted" /\ asker[t].request \notin Registry
\* The call of the thread may have reached the session.
HasCalled(t) ==
    \/ asker[t].pc \in {"lost", "readback"}
    \/ asker[t].pc = "admitted" /\ asker[t].request \notin Registry

RequestIsSound(q) ==
    /\ q \in Bound \cup Registry => (question[q].state = "resolved" <=> completion[q].state # "none")
    /\ completion[q].state # "none" => question[q].state = "resolved"
    /\ doubt[q] # NoAnswer =>
          question[q] = Accepted(q, doubt[q]) /\ completion[q].state \notin Owed \cup {"none"}
    /\ completion[q].state = "sent" => Confirmed(q)
    /\ question[q].state = "resolved" => question[q].answer \in Values
    /\ completion[q].state = "unknown" \/ (completion[q].state = "sent" /\ q \notin Registry)
          => doubt[q] # NoAnswer
    /\ q \in Registry => completion[q].state # "cancelled"
AskerIsSound(t) ==
    /\ asker[t].pc # "idle" => asker[t].request \in Requests
    /\ Calls(t) => InFlight(asker[t].request)
    /\ asker[t].pc = "admitted" => Confirmed(asker[t].request)
    /\ asker[t].pc \in {"post", "refused"} => doubt[asker[t].request] = NoAnswer
    /\ HasCalled(t) => doubt[asker[t].request] # NoAnswer
    /\ asker[t].pc = "query" =>
          asker[t].request \in Registry /\ completion[asker[t].request].state # "none"
OneCaller ==
    \A t, u \in Askers : Calls(t) /\ Calls(u) /\ asker[t].request = asker[u].request => t = u

HumanInv ==
    /\ HumanTypes /\ OneCaller
    /\ \A q \in Requests : RequestIsSound(q)
    /\ \A t \in Askers : AskerIsSound(t)

\* The rows of a request stay as they are.
RowStays(q) ==
    /\ question'[q] = question[q] /\ completion'[q] = completion[q]
    /\ herder'[q] = herder[q] /\ doubt'[q] = doubt[q]
\* What never goes back: a row, its receipt, a resume.
Advances(q) ==
    /\ completion[q].state # "none" =>
          completion'[q].state # "none" /\ (completion[q].receipt => completion'[q].receipt)
    /\ herder[q] = "resumed" => herder'[q] = "resumed"
\* A step leaves the caller u of q with a row it can go on with.
SparesCaller(u, q) ==
    /\ Calls(u) => \/ completion'[q].state = completion[q].state
                   \/ /\ q \in Registry /\ herder'[q] = "resumed"
                      /\ completion'[q].state = "sent"
    /\ asker[u].pc \in {"post", "refused"} => doubt'[q] = NoAnswer
    /\ HasCalled(u) => doubt'[q] # NoAnswer

\* What the state of a completion may become while nobody is called: the steps of
\* ResumeContract that keep what the session was told.
Marked(q) ==
    LET from == completion[q].state
        to == completion'[q].state
    IN  \/ to = from
        \/ from \in Owed /\ to = "cancelled" /\ q \notin Registry
        \/ from \in Owed /\ to = "sending" /\ doubt[q] = NoAnswer
        \/ InFlight(q) /\ to = "retryable" /\ doubt[q] = NoAnswer
        \/ InFlight(q) /\ to = "unknown" /\ doubt[q] # NoAnswer
        \/ from = "sending" /\ to = "sent" /\ doubt[q] # NoAnswer
        \/ q \in Registry /\ from \notin {"none", "cancelled"} /\ to = "sent"
\* Every step of ResumeContract, on the rows of a request.
ResumeMoves(q) ==
    \/ completion[q].state = "none" /\ completion'[q].state = "none" /\ doubt'[q] = doubt[q]
    \/ /\ completion[q].state = "none" /\ completion'[q].state \in Owed
       /\ question'[q].answer \in Values /\ doubt'[q] = doubt[q]
    \/ /\ completion[q].state # "none" /\ question'[q].answer = question[q].answer
       /\ \/ doubt'[q] = doubt[q] /\ Marked(q)
          \/ /\ InFlight(q) /\ completion'[q].state = completion[q].state
             /\ doubt[q] = NoAnswer /\ doubt'[q] = question[q].answer
          \/ /\ completion[q].state = "unknown" /\ completion'[q].state = "retryable"
             /\ doubt'[q] = NoAnswer

LEMMA RowIsKept ==
    ASSUME NEW q, RequestIsSound(q), RowStays(q)
    PROVE  RequestIsSound(q)' /\ ResumeMoves(q) /\ Advances(q)
  BY DEF RequestIsSound, RowStays, Confirmed, ResumeMoves, Marked, Advances, Accepted

LEMMA AskerIsKept ==
    ASSUME NEW u \in Askers, AskerIsSound(u), asker'[u] = asker[u],
           \A q \in Requests : asker[u].request = q => Advances(q) /\ SparesCaller(u, q)
    PROVE  AskerIsSound(u)' /\ (Calls(u)' <=> Calls(u))
  <1>1. Calls(u)' <=> Calls(u)
    BY DEF Calls
  <1>2. CASE asker[u].pc = "idle"
    BY <1>1, <1>2 DEF AskerIsSound, HasCalled, Calls
  <1>3. CASE asker[u].pc # "idle"
    <2>1. asker[u].request \in Requests
      BY <1>3 DEF AskerIsSound
    <2>2. Advances(asker[u].request) /\ SparesCaller(u, asker[u].request)
      BY <2>1
    <2> QED
      BY <1>1, <1>3, <2>1, <2>2 DEF AskerIsSound, HasCalled, Advances, SparesCaller, InFlight, Confirmed
  <1> QED
    BY <1>2, <1>3

\* A step of nobody in particular.
LEMMA AskersStay ==
    ASSUME HumanInv, UNCHANGED asker,
           \A q \in Requests : Advances(q) /\ \A u \in Askers : asker[u].request = q => SparesCaller(u, q)
    PROVE  OneCaller' /\ \A u \in Askers : AskerIsSound(u)'
  <1>1. \A u \in Askers : AskerIsSound(u)' /\ (Calls(u)' <=> Calls(u))
    BY AskerIsKept DEF HumanInv
  <1> QED
    BY <1>1 DEF HumanInv, OneCaller

\* A step of the thread t, about the request q.
LEMMA OtherAskersStay ==
    ASSUME HumanInv, NEW t \in Askers, NEW q,
           \A u \in Askers \ {t} : asker'[u] = asker[u],
           AskerIsSound(t)',
           \A e \in Requests \ {q} : RowStays(e),
           q \in Requests => /\ Advances(q)
                             /\ \A u \in Askers \ {t} : asker[u].request = q => SparesCaller(u, q),
           Calls(t)' => \A u \in Askers \ {t} : ~(Calls(u) /\ asker[u].request = asker'[t].request)
    PROVE  OneCaller' /\ \A u \in Askers : AskerIsSound(u)'
  <1>1. ASSUME NEW u \in Askers \ {t}
        PROVE  AskerIsSound(u)' /\ (Calls(u)' <=> Calls(u))
    <2>1. AskerIsSound(u)
      BY DEF HumanInv
    <2>2. ASSUME NEW e \in Requests, asker[u].request = e
          PROVE  Advances(e) /\ SparesCaller(u, e)
      <3>1. CASE e = q
        BY <2>2, <3>1
      <3>2. CASE e # q
        BY <2>1, <2>2, <3>2 DEF RowStays, Advances, SparesCaller, AskerIsSound
      <3> QED
        BY <3>1, <3>2
    <2> QED
      BY <1>1, <2>1, <2>2, AskerIsKept
  <1>2. OneCaller'
    BY <1>1 DEF HumanInv, OneCaller
  <1> QED
    BY <1>1, <1>2

RowTypes ==
    /\ question \in [Requests -> QuestionType] /\ completion \in [Requests -> CompletionType]
    /\ herder \in [Requests -> {"pending", "flying", "resumed"}]
    /\ doubt \in [Requests -> Values \cup {NoAnswer}]

LEMMA TurnKeeps ==
    ASSUME HumanInv, NEW t \in Askers, NEW q \in Requests, RowTypes',
           asker' \in [Askers -> AskerType], \A u \in Askers \ {t} : asker'[u] = asker[u],
           AskerIsSound(t)',
           \A e \in Requests \ {q} : RowStays(e),
           RequestIsSound(q)', ResumeMoves(q), Advances(q),
           \A u \in Askers \ {t} : asker[u].request = q => SparesCaller(u, q),
           Calls(t)' => \A u \in Askers \ {t} : ~(Calls(u) /\ asker[u].request = asker'[t].request)
    PROVE  HumanInv' /\ \A e \in Requests : ResumeMoves(e)
  <1>1. OneCaller' /\ \A u \in Askers : AskerIsSound(u)'
    BY OtherAskersStay
  <1>2. \A e \in Requests : RequestIsSound(e)' /\ ResumeMoves(e)
    BY RowIsKept DEF HumanInv
  <1> QED
    BY <1>1, <1>2 DEF HumanInv, HumanTypes, RowTypes

\* A step of the thread t that writes no row, to a point where it calls nobody.
LEMMA ReaderKeeps ==
    ASSUME HumanInv, NEW t \in Askers, UNCHANGED <<question, completion, herder, doubt>>,
           asker' \in [Askers -> AskerType], \A u \in Askers \ {t} : asker'[u] = asker[u],
           AskerIsSound(t)',
           Calls(t)' => Calls(t) /\ asker'[t].request = asker[t].request
    PROVE  HumanInv' /\ \A q \in Requests : ResumeMoves(q)
  <1>1. \A q \in Requests : RowStays(q)
    BY DEF RowStays
  <1>2. \A q \in Requests : RequestIsSound(q)' /\ ResumeMoves(q)
    BY <1>1, RowIsKept DEF HumanInv
  <1>3. Calls(t)' => \A u \in Askers \ {t} : ~(Calls(u) /\ asker[u].request = asker'[t].request)
    BY DEF HumanInv, OneCaller
  <1>4. OneCaller' /\ \A u \in Askers : AskerIsSound(u)'
    <2>1. \A u \in Askers \ {t} : AskerIsSound(u)' /\ (Calls(u)' <=> Calls(u))
      BY DEF HumanInv, AskerIsSound, HasCalled, Calls, InFlight, Confirmed
    <2> QED
      BY <1>3, <2>1 DEF HumanInv, OneCaller
  <1> QED
    BY <1>2, <1>4 DEF HumanInv, HumanTypes

LEMMA AskerGoes ==
    ASSUME HumanInv, NEW t \in Askers, NEW pc \in Points, Go(t, pc)
    PROVE  /\ asker' \in [Askers -> AskerType]
           /\ asker'[t].pc = pc /\ asker'[t].request = asker[t].request
           /\ \A u \in Askers \ {t} : asker'[u] = asker[u]
  <1>1. asker \in [Askers -> AskerType] /\ asker[t] \in AskerType
    BY DEF HumanInv, HumanTypes
  <1> DEFINE x == [asker[t] EXCEPT !.pc = pc]
  <1>2. x \in AskerType /\ x.pc = pc /\ x.request = asker[t].request
    BY <1>1 DEF AskerType
  <1>3. asker' = [asker EXCEPT ![t] = x]
    BY DEF Go
  <1> HIDE DEF x
  <1> QED
    BY <1>1, <1>2, <1>3

LEMMA AskerIsSet ==
    ASSUME HumanInv, NEW t \in Askers, NEW x \in AskerType, asker' = [asker EXCEPT ![t] = x]
    PROVE  /\ asker' \in [Askers -> AskerType] /\ asker'[t] = x
           /\ \A u \in Askers \ {t} : asker'[u] = asker[u]
  BY DEF HumanInv, HumanTypes

LEMMA AskerRests ==
    ASSUME HumanInv, NEW t \in Askers, Rest(t)
    PROVE  /\ asker' \in [Askers -> AskerType] /\ asker'[t].pc = "idle"
           /\ \A u \in Askers \ {t} : asker'[u] = asker[u]
           /\ AskerIsSound(t)' /\ ~Calls(t)'
  <1>1. Quiet \in AskerType /\ Quiet.pc = "idle"
    BY DEF Quiet, AskerType, Points
  <1>2. asker' \in [Askers -> AskerType] /\ asker'[t].pc = "idle"
        /\ \A u \in Askers \ {t} : asker'[u] = asker[u]
    BY <1>1, AskerIsSet DEF Rest
  <1> QED
    BY <1>2 DEF AskerIsSound, HasCalled, Calls

\* Questions come, are read, withdrawn and expire; incidents close and open.
LEMMA QuestionSteps ==
    ASSUME HumanInv,
           \/ \E q \in Requests : Create(q) \/ Read(q) \/ CancelQuestion(q) \/ Expires(q)
           \/ \E i \in Cases : CloseCase(i) \/ ReopenCase(i)
    PROVE  HumanInv' /\ \A q \in Requests : ResumeMoves(q)
  <1>a. HumanTypes
    BY DEF HumanInv
  <1> DEFINE Withdraws(q) ==
               /\ question'[q] \in QuestionType /\ completion'[q] \in CompletionType
               /\ question'[q] = question[q]
                  \/ (question[q].state # "resolved" /\ question'[q].state # "resolved")
               /\ completion'[q] = completion[q]
                  \/ (completion[q].state \in Owed /\ completion'[q].state = "cancelled"
                      /\ q \notin Registry
                      /\ completion'[q].receipt = completion[q].receipt)
  <1>1. UNCHANGED <<herder, doubt, asker>>
    BY DEF Create, Read, CancelQuestion, Expires, CloseCase, ReopenCase
  <1>2. ASSUME \A q \in Requests : Withdraws(q),
               question' \in [Requests -> QuestionType], completion' \in [Requests -> CompletionType]
        PROVE  HumanInv' /\ \A q \in Requests : ResumeMoves(q)
    <2>1. ASSUME NEW q \in Requests
          PROVE  RequestIsSound(q)' /\ ResumeMoves(q) /\ Advances(q)
      <3>1. Withdraws(q) /\ RequestIsSound(q)
        BY <1>2 DEF HumanInv
      <3>2. herder'[q] = herder[q] /\ doubt'[q] = doubt[q]
        BY <1>1
      <3>3. RequestIsSound(q)'
        BY <3>1, <3>2 DEF RequestIsSound, Confirmed, Owed, Accepted
      <3>4. ResumeMoves(q)
        BY <3>1, <3>2 DEF RequestIsSound, ResumeMoves, Marked, Owed, Accepted
      <3>5. Advances(q)
        BY <3>1, <3>2 DEF RequestIsSound, Advances, Confirmed, Owed
      <3> QED
        BY <3>3, <3>4, <3>5
    <2>2. ASSUME NEW q \in Requests, NEW u \in Askers, asker[u].request = q
          PROVE  SparesCaller(u, q)
      BY <1>1, <1>2, <2>2 DEF HumanInv, AskerIsSound, SparesCaller, InFlight, Owed
    <2>3. OneCaller' /\ \A u \in Askers : AskerIsSound(u)'
      BY <1>1, <2>1, <2>2, AskersStay
    <2> QED
      BY <1>1, <1>2, <1>a, <2>1, <2>3 DEF HumanInv, HumanTypes
  <1>3. ASSUME NEW q \in Requests, NEW x \in QuestionType,
               question' = [question EXCEPT ![q] = x], UNCHANGED completion,
               x = question[q] \/ (question[q].state # "resolved" /\ x.state # "resolved")
        PROVE  HumanInv' /\ \A e \in Requests : ResumeMoves(e)
    <2>1. /\ question' \in [Requests -> QuestionType] /\ question'[q] = x
          /\ \A e \in Requests \ {q} : question'[e] = question[e]
      BY <1>3, <1>a DEF HumanTypes
    <2>2. \A e \in Requests : Withdraws(e)
      BY <1>3, <1>a, <2>1 DEF HumanTypes
    <2> QED
      BY <1>2, <1>3, <1>a, <2>1, <2>2 DEF HumanTypes
  <1>4. ASSUME NEW q \in Requests, NEW state \in {"cancelled", "expired", "pending"},
               question[q].state # "resolved", UNCHANGED completion,
               question' = [question EXCEPT ![q].state = state]
        PROVE  HumanInv' /\ \A e \in Requests : ResumeMoves(e)
    <2> DEFINE x == [question[q] EXCEPT !.state = state]
    <2>1. question[q] \in QuestionType
      BY <1>4, <1>a DEF HumanTypes
    <2>2. x \in QuestionType /\ x.state # "resolved"
      BY <2>1 DEF QuestionType, QuestionStates
    <2>3. question' = [question EXCEPT ![q] = x]
      BY <1>4
    <2> HIDE DEF x
    <2> QED
      BY <1>3, <1>4, <2>2, <2>3
  <1>b. ASSUME NEW q \in Requests
        PROVE  /\ Settled(q) # question[q] =>
                     /\ question[q].state = "pending"
                     /\ Settled(q) = [question[q] EXCEPT !.state = "cancelled"]
                        \/ Settled(q) = [question[q] EXCEPT !.state = "expired"]
               /\ Settled(q).state = "pending" => question[q].state = "pending"
    <2>1. question[q] \in QuestionType
      BY <1>a DEF HumanTypes
    <2> QED
      BY <2>1 DEF Settled, QuestionType
  <1>5. ASSUME NEW q \in Requests, Create(q)
        PROVE  HumanInv' /\ \A e \in Requests : ResumeMoves(e)
    BY <1>4, <1>5 DEF Create
  <1>6. ASSUME NEW q \in Requests, Read(q)
        PROVE  HumanInv' /\ \A e \in Requests : ResumeMoves(e)
    <2>1. PICK state \in {"cancelled", "expired"} : Settled(q) = [question[q] EXCEPT !.state = state]
      BY <1>6, <1>b DEF Read
    <2>2. question' = [question EXCEPT ![q].state = state]
      BY <1>6, <2>1 DEF Read
    <2> QED
      BY <1>4, <1>6, <1>b, <2>2 DEF Read
  <1>7. ASSUME NEW q \in Requests, CancelQuestion(q)
        PROVE  HumanInv' /\ \A e \in Requests : ResumeMoves(e)
    BY <1>4, <1>7, <1>b DEF CancelQuestion
  <1>8. ASSUME UNCHANGED <<question, completion>>
        PROVE  HumanInv' /\ \A e \in Requests : ResumeMoves(e)
    BY <1>2, <1>8, <1>a DEF HumanTypes
  <1>9. ASSUME NEW i \in Cases, CloseCase(i)
        PROVE  HumanInv' /\ \A e \in Requests : ResumeMoves(e)
    <2> DEFINE mine == {q \in Requests : CaseOf[q] = i}
               Q == {q \in mine \ Secret : question[q].state = "pending"}
               C == {q \in mine : completion[q].state \in Owed}
    <2>1. /\ question' = [q \in Requests |->
                IF q \in Q THEN [question[q] EXCEPT !.state = "cancelled"] ELSE question[q]]
          /\ completion' = [q \in Requests |->
                IF q \in C THEN [completion[q] EXCEPT !.state = "cancelled"] ELSE completion[q]]
      BY <1>9 DEF CloseCase
    <2>2. ASSUME NEW q \in Requests
          PROVE  Withdraws(q)
      <3>1. question[q] \in QuestionType /\ completion[q] \in CompletionType
        BY <1>a DEF HumanTypes
      <3>2. /\ q \in Q => question[q].state = "pending"
            /\ q \in C => completion[q].state \in Owed /\ q \notin Registry
        BY HumanAssumption
      <3> HIDE DEF Q, C
      <3>3. /\ question'[q] \in QuestionType
            /\ q \in Q => question'[q].state = "cancelled"
            /\ q \notin Q => question'[q] = question[q]
        BY <2>1, <3>1 DEF QuestionType, QuestionStates
      <3>4. /\ completion'[q] \in CompletionType
            /\ q \in C => completion'[q].state = "cancelled" /\ completion'[q].receipt = completion[q].receipt
            /\ q \notin C => completion'[q] = completion[q]
        BY <2>1, <3>1 DEF CompletionType, CompletionStates
      <3> QED
        BY <3>2, <3>3, <3>4
    <2> HIDE DEF Q, C
    <2>3. /\ question' \in [Requests -> QuestionType] /\ completion' \in [Requests -> CompletionType]
      BY <2>1, <2>2
    <2> QED
      BY <1>2, <2>2, <2>3
  <1> HIDE DEF Withdraws
  <1> QED
    BY <1>5, <1>6, <1>7, <1>8, <1>9 DEF Expires, ReopenCase

\* A call that was on its way, and the operator's proof that none is.
LEMMA LateSteps ==
    ASSUME HumanInv, NEW q \in Requests,
           Reconcile(q) \/ \E arrives \in BOOLEAN : LateCall(q, arrives)
    PROVE  HumanInv' /\ \A e \in Requests : ResumeMoves(e)
  <1>a. HumanTypes /\ completion[q] \in CompletionType /\ RequestIsSound(q)
    BY DEF HumanInv, HumanTypes
  <1>b. UNCHANGED <<question, asker>>
    BY DEF Reconcile, LateCall
  <1>1. ASSUME RowTypes', \A e \in Requests \ {q} : RowStays(e),
               RequestIsSound(q)', ResumeMoves(q), Advances(q),
               \A u \in Askers : asker[u].request = q => SparesCaller(u, q)
        PROVE  HumanInv' /\ \A e \in Requests : ResumeMoves(e)
    <2>1. \A e \in Requests : RequestIsSound(e)' /\ ResumeMoves(e) /\ Advances(e)
      BY <1>1, RowIsKept DEF HumanInv
    <2>2. \A e \in Requests, u \in Askers : asker[u].request = e => SparesCaller(u, e)
      BY <1>1 DEF HumanInv, AskerIsSound, SparesCaller, RowStays
    <2>3. OneCaller' /\ \A u \in Askers : AskerIsSound(u)'
      BY <1>b, <2>1, <2>2, AskersStay
    <2> QED
      BY <1>1, <1>a, <1>b, <2>1, <2>3 DEF HumanInv, HumanTypes, RowTypes
  <1>2. CASE Reconcile(q)
    <2> DEFINE x == [completion[q] EXCEPT !.state = "retryable"]
    <2>1. /\ x \in CompletionType /\ x.state = "retryable" /\ x.receipt = completion[q].receipt
      BY <1>a DEF CompletionType, CompletionStates
    <2>2. /\ completion' = [completion EXCEPT ![q] = x] /\ doubt' = [doubt EXCEPT ![q] = NoAnswer]
          /\ completion[q].state = "unknown" /\ herder[q] # "resumed" /\ UNCHANGED herder
          /\ question[q].state = "resolved"
      BY <1>2 DEF Reconcile, Mark
    <2> HIDE DEF x
    <2>3. /\ completion' \in [Requests -> CompletionType] /\ completion'[q] = x
          /\ doubt' \in [Requests -> Values \cup {NoAnswer}] /\ doubt'[q] = NoAnswer
          /\ \A e \in Requests \ {q} : RowStays(e)
      BY <1>a, <1>b, <2>1, <2>2 DEF HumanTypes, RowStays
    <2>4. RequestIsSound(q)' /\ ResumeMoves(q) /\ Advances(q)
      BY <1>a, <1>b, <2>1, <2>2, <2>3 DEF RequestIsSound, ResumeMoves, Advances, Owed
    <2>5. \A u \in Askers : asker[u].request = q => SparesCaller(u, q)
      BY <2>2, <2>3 DEF HumanInv, AskerIsSound, HasCalled, Calls, SparesCaller, InFlight
    <2> QED
      BY <1>1, <1>a, <1>b, <2>2, <2>3, <2>4, <2>5 DEF RowTypes, HumanTypes
  <1>3. ASSUME NEW arrives \in BOOLEAN, LateCall(q, arrives)
        PROVE  HumanInv' /\ \A e \in Requests : ResumeMoves(e)
    <2>1. /\ UNCHANGED <<completion, doubt>> /\ herder[q] = "flying"
          /\ herder' \in [Requests -> {"pending", "flying", "resumed"}]
          /\ \A e \in Requests \ {q} : herder'[e] = herder[e]
      BY <1>3, <1>a DEF LateCall, HumanTypes
    <2>2. /\ \A e \in Requests \ {q} : RowStays(e)
          /\ RequestIsSound(q)' /\ ResumeMoves(q) /\ Advances(q)
      BY <1>a, <1>b, <2>1 DEF RowStays, RequestIsSound, ResumeMoves, Marked, Advances, Confirmed
    <2>3. \A u \in Askers : asker[u].request = q => SparesCaller(u, q)
      BY <2>1 DEF HumanInv, AskerIsSound, SparesCaller
    <2> QED
      BY <1>1, <1>a, <1>b, <2>1, <2>2, <2>3 DEF RowTypes, HumanTypes
  <1> QED
    BY <1>2, <1>3

\* A surface answers, or finds the answer it has.
LEMMA AnswerKeeps ==
    ASSUME HumanInv, NEW t \in Askers, NEW q \in Requests, NEW v \in Values, Answer(t, q, v)
    PROVE  HumanInv' /\ \A e \in Requests : ResumeMoves(e)
  <1> DEFINE row == IF Replaced(q) THEN Accepted(q, v) ELSE Settled(q)
             rows == IF row.state = "resolved" /\ ~CaseClosed(q) THEN Enqueued(q) ELSE completion
             shown == Replaced(q) \/ rows[q].state # "none"
             x == IF row.state # "resolved" \/ (~shown /\ CaseClosed(q)) THEN Quiet
                  ELSE [pc |-> IF shown THEN "card" ELSE "deliver",
                        request |-> q, resume |-> ~CaseClosed(q)]
  <1>1. /\ question' = [question EXCEPT ![q] = row] /\ completion' = rows
        /\ asker' = [asker EXCEPT ![t] = x] /\ q \notin Secret
        /\ UNCHANGED <<herder, doubt>>
    BY DEF Answer
  <1>a. HumanTypes /\ question[q] \in QuestionType /\ completion[q] \in CompletionType /\ RequestIsSound(q)
    BY DEF HumanInv, HumanTypes
  <1>2. /\ row \in QuestionType
        /\ row.state = "resolved" /\ question[q].state # "resolved" => ~CaseClosed(q)
        /\ question[q].state = "resolved" => row = question[q]
        /\ row.state = "resolved" => row.answer \in Values
    <2>1. CASE Replaced(q)
      <3>1. question[q].state = "pending" /\ ~CaseClosed(q)
        BY <1>a, <1>1, <2>1 DEF Replaced, Settled, QuestionType
      <3> QED
        BY <2>1, <3>1 DEF Accepted, QuestionType, QuestionStates
    <2>2. CASE ~Replaced(q)
      <3>1. Settled(q) \in QuestionType
            /\ (Settled(q) = question[q] \/ (question[q].state = "pending" /\ Settled(q).state # "resolved"))
        BY <1>a DEF Settled, QuestionType, QuestionStates
      <3> QED
        BY <1>a, <2>2, <3>1 DEF RequestIsSound
    <2> QED
      BY <2>1, <2>2
  <1>3. /\ x \in AskerType /\ x.pc \in {"idle", "card", "deliver"}
        /\ x.pc # "idle" => x.request \in Requests
    <2> HIDE DEF row, shown
    <2>1. /\ Quiet \in AskerType /\ Quiet.pc = "idle"
      BY DEF Quiet, AskerType, Points
    <2>2. ASSUME NEW pc \in {"card", "deliver"}, NEW resume \in BOOLEAN
          PROVE  [pc |-> pc, request |-> q, resume |-> resume] \in AskerType
      BY <2>2 DEF AskerType, Points
    <2>3. CaseClosed(q) \in BOOLEAN
      BY DEF CaseClosed
    <2> QED
      BY <2>1, <2>2, <2>3
  <1> HIDE DEF x, shown
  <1>4. /\ rows \in [Requests -> CompletionType]
        /\ \A e \in Requests \ {q} : rows[e] = completion[e]
        /\ \/ rows[q] = completion[q]
           \/ completion[q].state = "none" /\ rows[q].state = "pending" /\ row.state = "resolved"
        /\ q \in Bound \cup Registry /\ row.state = "resolved" /\ ~CaseClosed(q) => rows[q].state # "none"
    <2> HIDE DEF row
    <2> DEFINE y == [state |-> "pending", receipt |-> FALSE, card |-> "pending"]
    <2>1. y \in CompletionType /\ y.state = "pending"
      BY DEF CompletionType, CompletionStates
    <2> HIDE DEF y
    <2>2. Enqueued(q) = IF q \in Bound \cup Registry /\ completion[q].state = "none"
                        THEN [completion EXCEPT ![q] = y] ELSE completion
      BY DEF Enqueued, y
    <2> QED
      BY <1>a, <2>1, <2>2 DEF HumanTypes
  <1> HIDE DEF row, rows
  <1>5. /\ question' \in [Requests -> QuestionType] /\ question'[q] = row
        /\ \A e \in Requests \ {q} : RowStays(e)
    BY <1>a, <1>1, <1>2, <1>4 DEF HumanTypes, RowStays
  <1>6. asker' \in [Askers -> AskerType] /\ asker'[t] = x
        /\ \A u \in Askers \ {t} : asker'[u] = asker[u]
    BY <1>1, <1>3, AskerIsSet
  <1>7. AskerIsSound(t)' /\ ~Calls(t)'
    BY <1>3, <1>6 DEF AskerIsSound, HasCalled, Calls
  <1>8. RequestIsSound(q)' /\ ResumeMoves(q) /\ Advances(q)
    <2>1. CASE rows[q] = completion[q]
      <3>1. doubt[q] # NoAnswer => question'[q] = question[q]
        BY <1>a, <1>2, <1>5 DEF RequestIsSound, Accepted
      <3>2. completion'[q] = completion[q] /\ herder'[q] = herder[q] /\ doubt'[q] = doubt[q]
        BY <1>1, <2>1
      <3>3. /\ q \in Bound \cup Registry =>
                  (question'[q].state = "resolved" <=> completion'[q].state # "none")
            /\ completion'[q].state # "none" => question'[q].state = "resolved"
        BY <1>a, <1>2, <1>4, <1>5, <2>1, <3>2 DEF RequestIsSound
      <3>4. /\ question'[q].state = "resolved" => question'[q].answer \in Values
            /\ completion[q].state # "none" => question'[q].answer = question[q].answer
        BY <1>a, <1>2, <1>5 DEF RequestIsSound
      <3>5. RequestIsSound(q)'
        BY <1>a, <3>1, <3>2, <3>3, <3>4 DEF RequestIsSound, Confirmed
      <3> QED
        BY <3>2, <3>4, <3>5 DEF ResumeMoves, Marked, Advances
    <2>2. CASE completion[q].state = "none" /\ rows[q].state = "pending" /\ row.state = "resolved"
      <3>1. doubt'[q] = NoAnswer /\ completion'[q].state = "pending" /\ question'[q].state = "resolved"
            /\ herder'[q] = herder[q] /\ doubt'[q] = doubt[q] /\ question'[q].answer \in Values
        BY <1>a, <1>1, <1>2, <1>5, <2>2 DEF RequestIsSound
      <3> QED
        BY <1>a, <2>2, <3>1 DEF RequestIsSound, ResumeMoves, Advances, Owed
    <2> QED
      BY <1>4, <2>1, <2>2
  <1>9. \A u \in Askers \ {t} : asker[u].request = q => SparesCaller(u, q)
    BY <1>1, <1>4 DEF HumanInv, AskerIsSound, SparesCaller, InFlight
  <1>10. RowTypes'
    BY <1>a, <1>1, <1>4, <1>5 DEF RowTypes, HumanTypes
  <1> QED
    BY <1>5, <1>6, <1>7, <1>8, <1>9, <1>10, TurnKeeps

\* The threads that only look, and those that edit the card.
LEMMA LookKeeps ==
    ASSUME HumanInv, NEW t \in Askers,
           \/ \E q \in Requests : ReplayCard(t, q) \/ ReplayCompletion(t, q)
           \/ CardIsSettled(t) \/ EditCard(t) \/ ReadCompletion(t) \/ ReceiptIsMissing(t)
    PROVE  HumanInv' /\ \A q \in Requests : ResumeMoves(q)
  <1>a. HumanTypes /\ AskerIsSound(t)
    BY DEF HumanInv
  <1>b. UNCHANGED <<question, completion, herder, doubt>>
    BY DEF ReplayCard, ReplayCompletion, CardIsSettled, EditCard, ReadCompletion, ReceiptIsMissing
  <1>1. ASSUME Rest(t)
        PROVE  HumanInv' /\ \A q \in Requests : ResumeMoves(q)
    BY <1>1, <1>b, AskerRests, ReaderKeeps
  <1>2. ASSUME NEW pc \in {"editing", "deliver", "claim"}, Go(t, pc), asker[t].pc # "idle"
        PROVE  HumanInv' /\ \A q \in Requests : ResumeMoves(q)
    <2>1. pc \in Points
      BY DEF Points
    <2>2. /\ asker' \in [Askers -> AskerType]
          /\ asker'[t].pc = pc /\ asker'[t].request = asker[t].request
          /\ \A u \in Askers \ {t} : asker'[u] = asker[u]
      BY <1>2, <2>1, AskerGoes
    <2>3. AskerIsSound(t)' /\ ~Calls(t)'
      BY <1>2, <1>a, <2>2 DEF AskerIsSound, HasCalled, Calls
    <2> QED
      BY <1>b, <2>2, <2>3, ReaderKeeps
  <1>3. ASSUME NEW q \in Requests, NEW pc \in {"card", "deliver"},
               asker' = [asker EXCEPT ![t] = [pc |-> pc, request |-> q, resume |-> FALSE]]
        PROVE  HumanInv' /\ \A e \in Requests : ResumeMoves(e)
    <2> DEFINE x == [pc |-> pc, request |-> q, resume |-> FALSE]
    <2>1. x \in AskerType /\ x.pc = pc /\ x.request = q
      BY DEF AskerType, Points
    <2> HIDE DEF x
    <2>2. /\ asker' \in [Askers -> AskerType] /\ asker'[t] = x
          /\ \A u \in Askers \ {t} : asker'[u] = asker[u]
      BY <1>3, <2>1, AskerIsSet DEF x
    <2>3. AskerIsSound(t)' /\ ~Calls(t)'
      BY <2>1, <2>2 DEF AskerIsSound, HasCalled, Calls
    <2> QED
      BY <1>b, <2>2, <2>3, ReaderKeeps
  <1>4. CASE \E q \in Requests : ReplayCard(t, q) \/ ReplayCompletion(t, q)
    BY <1>3, <1>4 DEF ReplayCard, ReplayCompletion
  <1>5. CASE CardIsSettled(t) \/ EditCard(t)
    BY <1>1, <1>2, <1>5 DEF CardIsSettled, EditCard, AfterCard
  <1>6. CASE ReadCompletion(t)
    <2> DEFINE q == asker[t].request
    <2>1. CASE Go(t, "query") /\ q \in Registry /\ completion[q].state \in {"sent", "unknown"}
      <3>1. "query" \in Points
        BY DEF Points
      <3>2. /\ asker' \in [Askers -> AskerType]
            /\ asker'[t].pc = "query" /\ asker'[t].request = asker[t].request
            /\ \A u \in Askers \ {t} : asker'[u] = asker[u]
        BY <2>1, <3>1, AskerGoes
      <3>3. AskerIsSound(t)' /\ ~Calls(t)'
        BY <1>6, <1>a, <1>b, <2>1, <3>2 DEF AskerIsSound, HasCalled, Calls, ReadCompletion
      <3> QED
        BY <1>b, <3>2, <3>3, ReaderKeeps
    <2> QED
      BY <1>1, <1>2, <1>6, <2>1 DEF ReadCompletion
  <1>7. CASE ReceiptIsMissing(t)
    <2>1. CASE asker[t].pc = "readback" /\ Go(t, "lost")
      <3>1. "lost" \in Points
        BY DEF Points
      <3>2. /\ asker' \in [Askers -> AskerType]
            /\ asker'[t].pc = "lost" /\ asker'[t].request = asker[t].request
            /\ \A u \in Askers \ {t} : asker'[u] = asker[u]
        BY <2>1, <3>1, AskerGoes
      <3>3. Calls(t) /\ Calls(t)'
        BY <2>1, <3>2 DEF Calls
      <3>4. AskerIsSound(t)'
        BY <1>a, <1>b, <2>1, <3>2, <3>3 DEF AskerIsSound, HasCalled, InFlight
      <3> QED
        BY <1>b, <3>2, <3>3, <3>4, ReaderKeeps
    <2> QED
      BY <1>1, <1>7, <2>1 DEF ReceiptIsMissing
  <1> QED
    BY <1>4, <1>5, <1>6, <1>7

\* A step that changes the row of a completion, and the point of the thread.
LEMMA CompletionIsSet ==
    ASSUME HumanInv, NEW q \in Requests, NEW y \in CompletionType,
           completion' = [completion EXCEPT ![q] = y], UNCHANGED <<question, herder, doubt>>
    PROVE  /\ RowTypes' /\ completion'[q] = y
           /\ \A e \in Requests \ {q} : RowStays(e)
  BY DEF HumanInv, HumanTypes, RowTypes, RowStays

LEMMA MarkSets ==
    ASSUME HumanInv, NEW q \in Requests, NEW state \in CompletionStates,
           Mark(q, state), UNCHANGED <<question, herder, doubt>>
    PROVE  /\ RowTypes' /\ completion'[q].state = state
           /\ completion'[q].receipt = completion[q].receipt
           /\ \A e \in Requests \ {q} : RowStays(e)
  <1> DEFINE y == [completion[q] EXCEPT !.state = state]
  <1>1. completion[q] \in CompletionType
    BY DEF HumanInv, HumanTypes
  <1>2. y \in CompletionType /\ y.state = state /\ y.receipt = completion[q].receipt
    BY <1>1 DEF CompletionType
  <1>3. completion' = [completion EXCEPT ![q] = y]
    BY DEF Mark
  <1> HIDE DEF y
  <1> QED
    BY <1>2, <1>3, CompletionIsSet

\* The card shows the answer, or its edit failed.
LEMMA EditKeeps ==
    ASSUME HumanInv, NEW t \in Askers, NEW ok \in BOOLEAN, CardIsEdited(t, ok)
    PROVE  HumanInv' /\ \A e \in Requests : ResumeMoves(e)
  <1>0. PICK q \in Requests : asker[t].request = q
    BY DEF CardIsEdited, HumanInv, AskerIsSound
  <1> DEFINE card == IF ok THEN "sent" ELSE "retryable"
             y == IF completion[q].state = "none" THEN completion[q] ELSE [completion[q] EXCEPT !.card = card]
  <1>1. /\ q \in Requests /\ AfterCard(t) /\ UNCHANGED <<question, herder, doubt>>
        /\ completion' = IF completion[q].state = "none" THEN completion
                         ELSE [completion EXCEPT ![q].card = card]
    BY <1>0 DEF CardIsEdited
  <1>2. completion[q] \in CompletionType /\ RequestIsSound(q)
    BY <1>1 DEF HumanInv, HumanTypes
  <1>3. card \in {"sent", "retryable"}
    OBVIOUS
  <1> HIDE DEF card
  <1>4. y \in CompletionType /\ y.state = completion[q].state /\ y.receipt = completion[q].receipt
    BY <1>2, <1>3 DEF CompletionType
  <1>5. completion' = [completion EXCEPT ![q] = y]
    BY <1>1 DEF HumanInv, HumanTypes
  <1> HIDE DEF y
  <1>6. RowTypes' /\ completion'[q] = y /\ \A e \in Requests \ {q} : RowStays(e)
    BY <1>1, <1>4, <1>5, CompletionIsSet
  <1>7. RequestIsSound(q)' /\ ResumeMoves(q) /\ Advances(q)
    BY <1>1, <1>2, <1>4, <1>6 DEF RequestIsSound, ResumeMoves, Marked, Advances, Confirmed, Accepted
  <1>8. \A u \in Askers \ {t} : asker[u].request = q => SparesCaller(u, q)
    BY <1>1, <1>4, <1>6 DEF HumanInv, AskerIsSound, SparesCaller
  <1>9. /\ asker' \in [Askers -> AskerType] /\ \A u \in Askers \ {t} : asker'[u] = asker[u]
        /\ AskerIsSound(t)' /\ ~Calls(t)'
    <2>1. CASE Rest(t)
      BY <2>1, AskerRests
    <2>2. CASE Go(t, "deliver")
      <3>1. "deliver" \in Points
        BY DEF Points
      <3> QED
        BY <1>0, <2>2, <3>1, AskerGoes DEF AskerIsSound, HasCalled, Calls
    <2> QED
      BY <1>1, <2>1, <2>2 DEF AfterCard
  <1> QED
    BY <1>1, <1>6, <1>7, <1>8, <1>9, TurnKeeps

\* One thread wins the claim; nobody calls about a row that is owed.
LEMMA ClaimKeeps ==
    ASSUME HumanInv, NEW t \in Askers, Claim(t)
    PROVE  HumanInv' /\ \A e \in Requests : ResumeMoves(e)
  <1>0. PICK q \in Requests : asker[t].request = q
    BY DEF Claim, HumanInv, AskerIsSound
  <1>1. UNCHANGED <<question, herder, doubt>>
    BY DEF Claim
  <1>2. CASE Claimable(q) /\ Mark(q, "sending") /\ Go(t, "post")
    <2>1. "post" \in Points /\ "sending" \in CompletionStates
      BY DEF Points, CompletionStates
    <2>2. /\ RowTypes' /\ completion'[q].state = "sending"
          /\ completion'[q].receipt = completion[q].receipt
          /\ \A e \in Requests \ {q} : RowStays(e)
      BY <1>1, <1>2, <2>1, MarkSets
    <2>3. /\ asker' \in [Askers -> AskerType]
          /\ asker'[t].pc = "post" /\ asker'[t].request = q
          /\ \A u \in Askers \ {t} : asker'[u] = asker[u]
      BY <1>0, <1>2, <2>1, AskerGoes
    <2>4. RequestIsSound(q) /\ completion[q].state \in Owed
      BY <1>1, <1>2 DEF HumanInv, Claimable
    <2>5. doubt[q] = NoAnswer
      BY <2>4 DEF RequestIsSound
    <2>a. RequestIsSound(q)'
      BY <1>1, <2>2, <2>4, <2>5 DEF RequestIsSound, Owed
    <2>6. RequestIsSound(q)' /\ ResumeMoves(q) /\ Advances(q)
      BY <1>1, <2>2, <2>4, <2>5, <2>a DEF ResumeMoves, Marked, Advances, Owed
    <2>7. \A u \in Askers : ~(Calls(u) /\ asker[u].request = q)
      BY <2>4 DEF HumanInv, AskerIsSound, InFlight, Owed
    <2>8. \A u \in Askers \ {t} : asker[u].request = q => SparesCaller(u, q)
      BY <1>1, <2>5, <2>7 DEF SparesCaller, HasCalled, Calls
    <2>9. AskerIsSound(t)'
      <3>1. completion'[asker'[t].request].state = "sending" /\ doubt'[asker'[t].request] = NoAnswer
        BY <1>1, <2>2, <2>3, <2>5
      <3> QED
        BY <2>3, <3>1 DEF AskerIsSound, HasCalled, InFlight
    <2> QED
      BY <1>1, <2>2, <2>3, <2>6, <2>7, <2>8, <2>9, TurnKeeps
  <1>3. CASE UNCHANGED completion /\ Rest(t)
    BY <1>1, <1>3, AskerRests, ReaderKeeps
  <1> QED
    BY <1>0, <1>2, <1>3 DEF Claim

\* What becomes of the call.
LEMMA CallKeeps ==
    ASSUME HumanInv, NEW t \in Askers, PostIsRefused(t) \/ PostIsAdmitted(t) \/ PostIsLost(t)
    PROVE  HumanInv' /\ \A e \in Requests : ResumeMoves(e)
  <1>0. PICK q \in Requests : asker[t].request = q
    BY DEF PostIsRefused, PostIsAdmitted, PostIsLost, HumanInv, AskerIsSound
  <1>1. /\ asker[t].pc = "post" /\ UNCHANGED <<question, completion>>
        /\ AskerIsSound(t) /\ RequestIsSound(q) /\ HumanTypes
        /\ question[q] \in QuestionType
    BY DEF PostIsRefused, PostIsAdmitted, PostIsLost, HumanInv, HumanTypes
  <1>2. Calls(t) /\ InFlight(q) /\ doubt[q] = NoAnswer
    BY <1>0, <1>1 DEF AskerIsSound, Calls
  <1>3. \A u \in Askers \ {t} : ~(Calls(u) /\ asker[u].request = q)
    BY <1>0, <1>2 DEF HumanInv, OneCaller
  <1>4. \A u \in Askers \ {t} : asker[u].request = q => SparesCaller(u, q)
    BY <1>3 DEF SparesCaller, HasCalled, Calls
  <1>5. CASE PostIsRefused(t)
    <2>1. "refused" \in Points
      BY DEF Points
    <2>2. /\ asker' \in [Askers -> AskerType]
          /\ asker'[t].pc = "refused" /\ asker'[t].request = q
          /\ \A u \in Askers \ {t} : asker'[u] = asker[u]
      BY <1>0, <1>5, <2>1, AskerGoes DEF PostIsRefused
    <2>3. UNCHANGED <<herder, doubt>>
      BY <1>5 DEF PostIsRefused
    <2>4. AskerIsSound(t)'
      BY <1>1, <1>2, <2>2, <2>3 DEF AskerIsSound, HasCalled, InFlight
    <2> QED
      BY <1>0, <1>1, <1>2, <2>2, <2>3, <2>4, ReaderKeeps
  <1>6. ASSUME NEW pc \in Points, Go(t, pc),
               pc \in {"lost", "readback"} \/ (pc = "admitted" /\ q \notin Registry /\ herder'[q] = "resumed"),
               herder' \in [Requests -> {"pending", "flying", "resumed"}],
               \A e \in Requests \ {q} : herder'[e] = herder[e],
               herder[q] = "resumed" => herder'[q] = "resumed",
               doubt' = [doubt EXCEPT ![q] = question[q].answer]
        PROVE  HumanInv' /\ \A e \in Requests : ResumeMoves(e)
    <2>1. /\ asker' \in [Askers -> AskerType]
          /\ asker'[t].pc = pc /\ asker'[t].request = q
          /\ \A u \in Askers \ {t} : asker'[u] = asker[u]
      BY <1>0, <1>6, AskerGoes
    <2>2. question[q].answer \in Values \cup {NoAnswer}
          /\ (question[q].state = "resolved" => question[q] = Accepted(q, question[q].answer))
      BY <1>1 DEF QuestionType, Accepted
    <2>3. /\ RowTypes' /\ doubt'[q] = question[q].answer
          /\ \A e \in Requests \ {q} : RowStays(e)
      BY <1>1, <1>6, <2>2 DEF HumanTypes, RowTypes, RowStays
    <2>4. question[q].state = "resolved" /\ completion[q].state \notin Owed \cup {"none"}
      BY <1>1, <1>2 DEF RequestIsSound, InFlight, Owed
    <2>5. completion[q].state = "sent" => Confirmed(q)'
      BY <1>1, <1>6 DEF RequestIsSound, Confirmed
    <2>6. question'[q] = Accepted(q, doubt'[q])
      BY <1>1, <2>2, <2>3, <2>4
    <2>a. question[q].answer \in Values /\ doubt'[q] # NoAnswer
      BY <1>1, <2>3, <2>4, HumanAssumption DEF RequestIsSound
    <2>7. RequestIsSound(q)'
      BY <1>1, <2>4, <2>5, <2>6, <2>a DEF RequestIsSound
    <2>8. ResumeMoves(q) /\ Advances(q)
      BY <1>1, <1>2, <1>6, <2>3, <2>4 DEF ResumeMoves, Advances
    <2>9. InFlight(q)' /\ (pc = "admitted" => Confirmed(q)')
      BY <1>1, <1>2, <1>6, <2>4 DEF InFlight, Confirmed
    <2>10. AskerIsSound(t)'
      BY <1>6, <2>1, <2>9, <2>a DEF AskerIsSound, InFlight, Confirmed
    <2> QED
      BY <1>3, <1>4, <2>1, <2>3, <2>7, <2>8, <2>10, TurnKeeps
  <1>7. CASE PostIsAdmitted(t)
    <2> DEFINE pc == Confirmation(q)
    <2>1. /\ Go(t, pc) /\ herder' = [herder EXCEPT ![q] = "resumed"]
          /\ doubt' = [doubt EXCEPT ![q] = question[q].answer]
      BY <1>0, <1>7 DEF PostIsAdmitted
    <2>2. pc \in Points /\ (pc = "readback" \/ (pc = "admitted" /\ q \notin Registry))
      BY DEF Confirmation, Points
    <2>3. /\ herder' \in [Requests -> {"pending", "flying", "resumed"}] /\ herder'[q] = "resumed"
          /\ \A e \in Requests \ {q} : herder'[e] = herder[e]
      BY <1>1, <2>1 DEF HumanTypes
    <2> HIDE DEF pc
    <2> QED
      BY <1>6, <2>1, <2>2, <2>3
  <1>8. CASE PostIsLost(t)
    <2> DEFINE pc == "lost"
               h == IF herder[q] = "resumed" THEN "resumed" ELSE "flying"
    <2>1. /\ Go(t, pc) /\ herder' = [herder EXCEPT ![q] = h]
          /\ doubt' = [doubt EXCEPT ![q] = question[q].answer]
      BY <1>0, <1>1, <1>8 DEF PostIsLost, HumanTypes
    <2>2. pc \in Points /\ pc \in {"lost", "readback"}
      BY DEF Points
    <2>3. h \in {"flying", "resumed"} /\ (herder[q] = "resumed" => h = "resumed")
      OBVIOUS
    <2> HIDE DEF pc, h
    <2>4. /\ herder' \in [Requests -> {"pending", "flying", "resumed"}] /\ herder'[q] = h
          /\ \A e \in Requests \ {q} : herder'[e] = herder[e]
      BY <1>1, <2>1, <2>3 DEF HumanTypes
    <2> QED
      BY <1>6, <2>1, <2>2, <2>3, <2>4
  <1> QED
    BY <1>5, <1>7, <1>8

\* The outcome is recorded.
LEMMA OutcomeKeeps ==
    ASSUME HumanInv, NEW t \in Askers, RecordOutcome(t)
    PROVE  HumanInv' /\ \A e \in Requests : ResumeMoves(e)
  <1>0. PICK q \in Requests : asker[t].request = q
    BY DEF RecordOutcome, HumanInv, AskerIsSound
  <1>1. /\ AskerIsSound(t) /\ RequestIsSound(q) /\ UNCHANGED <<question, herder, doubt>>
        /\ asker[t].pc \in {"refused", "lost", "admitted"} /\ Rest(t)
    BY DEF RecordOutcome, HumanInv
  <1>2. PICK state \in {"retryable", "unknown", "sent"} :
           /\ Mark(q, state)
           /\ state = "retryable" => asker[t].pc = "refused"
           /\ state = "unknown" => asker[t].pc = "lost"
           /\ asker[t].pc = "admitted" <=> state = "sent"
    BY <1>0, <1>1 DEF RecordOutcome, Outcome
  <1>3. state \in CompletionStates
    BY DEF CompletionStates
  <1>4. /\ RowTypes' /\ completion'[q].state = state
        /\ completion'[q].receipt = completion[q].receipt
        /\ \A e \in Requests \ {q} : RowStays(e)
    BY <1>1, <1>2, <1>3, MarkSets
  <1>5. completion[q].state # "none"
    BY <1>0, <1>1 DEF AskerIsSound, Calls, InFlight, Confirmed
  <1>6. state = "sent" => Confirmed(q)'
    BY <1>0, <1>1, <1>2, <1>4 DEF AskerIsSound, Confirmed
  <1>7. state = "retryable" => doubt[q] = NoAnswer
    BY <1>0, <1>1, <1>2 DEF AskerIsSound
  <1>a. state = "unknown" \/ (state = "sent" /\ q \notin Registry) => doubt[q] # NoAnswer
    BY <1>0, <1>1, <1>2 DEF AskerIsSound, HasCalled
  <1>8. RequestIsSound(q)'
    BY <1>1, <1>4, <1>5, <1>6, <1>7, <1>a DEF RequestIsSound, Owed, Accepted
  <1>9. Calls(t) \/ (q \in Registry /\ state = "sent")
    BY <1>0, <1>1, <1>2 DEF Calls
  <1>10. ResumeMoves(q) /\ Advances(q)
    <2>1. Calls(t) => InFlight(q)
      BY <1>0, <1>1 DEF AskerIsSound
    <2>2. Marked(q)
      BY <1>1, <1>4, <1>5, <1>7, <1>9, <1>a, <2>1 DEF Marked, InFlight, RequestIsSound
    <2> QED
      BY <1>1, <1>4, <1>5, <2>2 DEF ResumeMoves, Advances
  <1>11. ASSUME NEW u \in Askers \ {t}, asker[u].request = q
         PROVE  SparesCaller(u, q)
    <2>1. CASE Calls(t)
      <3>1. ~Calls(u)
        BY <1>0, <1>11, <2>1 DEF HumanInv, OneCaller
      <3> QED
        BY <3>1 DEF SparesCaller, HasCalled, Calls
    <2>2. CASE q \in Registry /\ state = "sent"
      <3>1. herder'[q] = "resumed"
        BY <1>6, <2>2 DEF Confirmed
      <3> QED
        BY <1>1, <1>4, <1>11, <2>2, <3>1 DEF SparesCaller, HumanInv, AskerIsSound
    <2> QED
      BY <1>9, <2>1, <2>2
  <1>12. /\ asker' \in [Askers -> AskerType] /\ \A u \in Askers \ {t} : asker'[u] = asker[u]
         /\ AskerIsSound(t)' /\ ~Calls(t)'
    BY <1>1, AskerRests
  <1> QED
    BY <1>4, <1>8, <1>10, <1>11, <1>12, TurnKeeps

\* Herder's record of the resume is stored with the row.
LEMMA ReceiptKeeps ==
    ASSUME HumanInv, NEW t \in Askers, ReceiptIsRead(t)
    PROVE  HumanInv' /\ \A e \in Requests : ResumeMoves(e)
  <1>0. PICK q \in Requests : asker[t].request = q
    BY DEF ReceiptIsRead, HumanInv, AskerIsSound
  <1>1. /\ AskerIsSound(t) /\ RequestIsSound(q) /\ UNCHANGED <<question, herder, doubt>>
        /\ asker[t].pc \in {"readback", "query"} /\ Go(t, "admitted") /\ herder[q] = "resumed"
        /\ completion[q] \in CompletionType
    BY <1>0 DEF ReceiptIsRead, HumanInv, HumanTypes
  <1> DEFINE y == [completion[q] EXCEPT !.receipt = TRUE]
  <1>2. y \in CompletionType /\ y.state = completion[q].state /\ y.receipt
    BY <1>1 DEF CompletionType
  <1>3. completion' = [completion EXCEPT ![q] = y]
    BY <1>0 DEF ReceiptIsRead
  <1> HIDE DEF y
  <1>4. RowTypes' /\ completion'[q] = y /\ \A e \in Requests \ {q} : RowStays(e)
    BY <1>1, <1>2, <1>3, CompletionIsSet
  <1>5. completion[q].state # "none" /\ (Calls(t) \/ q \in Registry)
    BY <1>0, <1>1 DEF AskerIsSound, Calls, InFlight
  <1>6. Confirmed(q)'
    BY <1>1, <1>2, <1>4, <1>5 DEF Confirmed
  <1>7. RequestIsSound(q)' /\ ResumeMoves(q) /\ Advances(q)
    BY <1>1, <1>2, <1>4, <1>6 DEF RequestIsSound, ResumeMoves, Marked, Advances, Accepted
  <1>8. \A u \in Askers \ {t} : asker[u].request = q => SparesCaller(u, q)
    BY <1>1, <1>2, <1>4 DEF SparesCaller, HumanInv, AskerIsSound
  <1>9. "admitted" \in Points
    BY DEF Points
  <1>10. /\ asker' \in [Askers -> AskerType]
         /\ asker'[t].pc = "admitted" /\ asker'[t].request = q
         /\ \A u \in Askers \ {t} : asker'[u] = asker[u]
    BY <1>0, <1>1, <1>9, AskerGoes
  <1>11. Calls(t)' => Calls(t)
    BY <1>5, <1>10 DEF Calls
  <1>12. Calls(t) => InFlight(q)'
    BY <1>0, <1>1, <1>2, <1>4 DEF AskerIsSound, InFlight
  <1>a. q \notin Registry => doubt'[q] # NoAnswer
    BY <1>0, <1>1 DEF AskerIsSound, HasCalled
  <1>13. AskerIsSound(t)'
    BY <1>6, <1>10, <1>11, <1>12, <1>a DEF AskerIsSound, HasCalled, InFlight, Confirmed
  <1>14. Calls(t)' => \A u \in Askers \ {t} : ~(Calls(u) /\ asker[u].request = asker'[t].request)
    BY <1>0, <1>10, <1>11 DEF HumanInv, OneCaller
  <1> QED
    BY <1>4, <1>7, <1>8, <1>10, <1>13, <1>14, TurnKeeps

\* A process dies with its threads; the rows stay.
LEMMA HostCrashKeeps ==
    ASSUME HumanInv, NEW h \in Hosts, HostCrash(h)
    PROVE  HumanInv' /\ \A e \in Requests : ResumeMoves(e)
  <1>1. /\ UNCHANGED <<question, completion, herder, doubt>>
        /\ asker' = [t \in Askers |-> IF HostOf[t] = h THEN Quiet ELSE asker[t]]
    BY DEF HostCrash
  <1>2. Quiet \in AskerType /\ Quiet.pc = "idle"
    BY DEF Quiet, AskerType, Points
  <1>3. /\ asker' \in [Askers -> AskerType]
        /\ \A t \in Askers : asker'[t] = asker[t] \/ asker'[t].pc = "idle"
    BY <1>1, <1>2 DEF HumanInv, HumanTypes
  <1>4. \A q \in Requests : RequestIsSound(q)' /\ ResumeMoves(q)
    BY <1>1, RowIsKept DEF HumanInv, RowStays
  <1>5. \A t \in Askers : AskerIsSound(t)' /\ (Calls(t)' => Calls(t) /\ asker'[t] = asker[t])
    BY <1>1, <1>3 DEF HumanInv, AskerIsSound, HasCalled, Calls, InFlight, Confirmed
  <1>6. OneCaller'
    BY <1>5 DEF HumanInv, OneCaller
  <1> QED
    BY <1>1, <1>3, <1>4, <1>5, <1>6 DEF HumanInv, HumanTypes

\* What the properties of requests rest on, whichever of them will be asked.
LEMMA HumanInvInit ==
    ASSUME NEW Q, NEW spent, HumanInitFor(Q, spent)
    PROVE  HumanInv
  <1>1. /\ Quiet \in AskerType /\ Quiet.pc = "idle"
        /\ NoCompletion \in CompletionType /\ NoCompletion.state = "none"
        /\ \A state \in {"none", "cancelled"} : [state |-> state, answer |-> NoAnswer] \in QuestionType
    BY DEF Quiet, AskerType, Points, NoCompletion, CompletionType, CompletionStates,
       QuestionType, QuestionStates
  <1>2. /\ HumanTypes
        /\ \A q \in Requests : /\ question[q].state \in {"none", "cancelled"} /\ doubt[q] = NoAnswer
                               /\ completion[q].state = "none"
        /\ \A t \in Askers : asker[t].pc = "idle"
    BY <1>1 DEF HumanInitFor, HumanTypes
  <1> QED
    BY <1>2, HumanAssumption DEF HumanInv, OneCaller, RequestIsSound, AskerIsSound, HasCalled, Calls

LEMMA HumanSteps ==
    ASSUME HumanInv, [HumanNext]_humanVars
    PROVE  HumanInv' /\ \A q \in Requests : ResumeMoves(q)
  <1>1. CASE UNCHANGED humanVars
    <2>1. UNCHANGED <<question, completion, herder, asker, doubt>>
      BY <1>1 DEF humanVars
    <2> QED
      BY <2>1 DEF HumanInv, HumanTypes, OneCaller, RequestIsSound, AskerIsSound, HasCalled, Calls,
         InFlight, Confirmed, ResumeMoves, Marked, Accepted
  <1>2. ASSUME NEW t \in Askers, AskerStep(t)
        PROVE  HumanInv' /\ \A q \in Requests : ResumeMoves(q)
    BY <1>2, LookKeeps, EditKeeps, ClaimKeeps, CallKeeps, OutcomeKeeps, ReceiptKeeps DEF AskerStep
  <1> QED
    BY <1>1, <1>2, QuestionSteps, LateSteps, AnswerKeeps, HostCrashKeeps DEF HumanNext

\* A claim is one thread's, and what a row says of the session is true
\* (claim_human_completion, mark_human_completion, reconcile_unadmitted_human_completion).
THEOREM RequestsAreSound == HumanSpec => []HumanInv
  <1>1. HumanInv /\ [HumanNext]_humanVars => HumanInv'
    BY HumanSteps
  <1>2. HumanInit => HumanInv
    BY HumanInvInit DEF HumanInit
  <1> QED
    BY <1>1, <1>2, PTL DEF HumanSpec

\* A session is called again only after Herder was proven not to have taken the call, and
\* by one thread at a time (deliver_human_completion).
THEOREM NothingIsReplayedBlindly == HumanSpec => []NoBlindReplay
  <1>1. HumanInv => NoBlindReplay
    BY DEF HumanInv, AskerIsSound, OneCaller, Calls, NoBlindReplay
  <1> QED
    BY <1>1, RequestsAreSound, PTL

\* The answer a session may have continued with stays, and the answered questions of a
\* session are those that owe it a resume (complete_human_request).
THEOREM AnswersStand == HumanSpec => []AnswerStands
  <1>1. HumanInv => AnswerStands
    BY HumanAssumption DEF HumanInv, RequestIsSound, AnswerStands
  <1> QED
    BY <1>1, RequestsAreSound, PTL

\* What the rows and the threads say of a request, a reader is told.
LEMMA SoundIsShown ==
    ASSUME HumanInv
    PROVE  ShownIsTrue
  <1> SUFFICES ASSUME NEW q \in Requests
               PROVE  /\ ContinuationShown(q) = "queued" => doubt[q] = NoAnswer
                      /\ completion[q].state = "sent" =>
                            herder[q] = "resumed" /\ ContinuationShown(q) = "accepted"
    BY DEF ShownIsTrue
  <1>1. RequestIsSound(q) /\ completion[q] \in CompletionType
    BY DEF HumanInv, HumanTypes
  <1>2. completion[q].state \in CompletionStates
    BY <1>1 DEF CompletionType
  <1>3. ContinuationShown(q) = "queued" => completion[q].state \in Owed
    BY <1>2 DEF ContinuationShown, ProvenResume, CompletionStates, Owed
  <1>4. completion[q].state = "sent" => Confirmed(q)
    BY <1>1 DEF RequestIsSound
  <1>5. completion[q].state = "sent" => ContinuationShown(q) = "accepted"
    BY <1>4 DEF ContinuationShown, ProvenResume, Confirmed, Owed
  <1> QED
    BY <1>1, <1>3, <1>4, <1>5 DEF RequestIsSound, Confirmed

\* "Queued" is said of a session that was not called, "accepted" of one that was resumed
\* (task_completion_view).
THEOREM ReadersAreToldTheTruth == HumanSpec => []ShownIsTrue
  <1>1. HumanInv => ShownIsTrue
    BY SoundIsShown
  <1> QED
    BY <1>1, RequestsAreSound, PTL

-----------------------------------------------------------------------------
(***************************************************************************)
(* The resume: HumanRequests implements ResumeContract                     *)
(***************************************************************************)
\* A step of the rows of a request is a step of its contract.
LEMMA ResumeStep ==
    ASSUME HumanInv, NEW q \in Resumable, ResumeMoves(q)
    PROVE  Resume!RowStep(q)
  <1> DEFINE from == completion[q].state
             to == completion'[q].state
  <1>1. /\ ResumePhase(q) = IF from \in Owed THEN "owed" ELSE from
        /\ ResumePhase(q)' = IF to \in Owed THEN "owed" ELSE to
    BY DEF ResumePhase
  <1>2. /\ OwedAnswer(q) = IF from = "none" THEN NoAnswer ELSE question[q].answer
        /\ OwedAnswer(q)' = IF to = "none" THEN NoAnswer ELSE question'[q].answer
    BY DEF OwedAnswer
  <1> HIDE DEF from, to
  <1> USE <1>1, <1>2 DEF Resume!KeepsPhase, Resume!KeepsAnswer, Resume!KeepsTold, Resume!InFlight, Owed
  <1>3. CASE from = "none"
    BY <1>3 DEF ResumeMoves, Resume!RowStep, Resume!Rest, Resume!Accept, from, to
  <1>4. CASE from # "none" /\ doubt'[q] = doubt[q] /\ Marked(q) /\ question'[q].answer = question[q].answer
    <2>2. CASE from \in Owed
      BY <1>4, <2>2 DEF Marked, from, to, InFlight, Resume!RowStep, Resume!Rest, Resume!Withdraw,
         Resume!Claim, Resume!Confirm
    <2>3. CASE from \notin Owed
      BY <1>4, <2>3 DEF Marked, from, to, InFlight, Resume!RowStep, Resume!Rest, Resume!Refuse,
         Resume!Lose, Resume!Confirm
    <2> QED
      BY <2>2, <2>3
  <1>5. CASE from = "unknown" /\ to = "retryable" /\ doubt'[q] = NoAnswer
             /\ question'[q].answer = question[q].answer
    BY <1>5 DEF Resume!RowStep, Resume!Disprove
  <1>6. CASE from # "none" /\ InFlight(q) /\ to = from /\ doubt[q] = NoAnswer
             /\ doubt'[q] = question[q].answer /\ question'[q].answer = question[q].answer
    BY <1>6 DEF InFlight, from, Resume!RowStep, Resume!Call
  <1> QED
    BY <1>3, <1>4, <1>5, <1>6 DEF ResumeMoves, from, to

\* Nothing is owed to a session at first, and it was told nothing.
LEMMA ResumeStart ==
    ASSUME NEW Q, NEW spent, HumanInitFor(Q, spent)
    PROVE  Resume!Init
  BY HumanAssumption
     DEF HumanInitFor, NoCompletion, Resume!Init, Resumable, ResumePhase, OwedAnswer, Owed

LEMMA ResumeTypes ==
    ASSUME HumanInv
    PROVE  Resume!TypeOK
  <1> SUFFICES ASSUME NEW q \in Resumable
               PROVE  /\ ResumePhase(q) \in Resume!Phases
                      /\ OwedAnswer(q) \in Values \cup {NoAnswer}
                      /\ doubt[q] \in Values \cup {NoAnswer}
    BY DEF Resume!TypeOK
  <1>1. question[q] \in QuestionType /\ completion[q] \in CompletionType
        /\ doubt[q] \in Values \cup {NoAnswer}
    BY HumanAssumption DEF HumanInv, HumanTypes, Resumable
  <1> QED
    BY <1>1 DEF QuestionType, CompletionType, CompletionStates, Owed, ResumePhase, OwedAnswer,
       Resume!Phases

\* Surfaces, threads, incidents, lost and late calls and crashes refine to the steps
\* of one resume at a time that ResumeContract allows.
LEMMA ResumeNext ==
    ASSUME HumanInv, [HumanNext]_humanVars
    PROVE  [Resume!Next]_(Resume!vars)
  <1>1. HumanInv' /\ \A q \in Requests : ResumeMoves(q)
    BY HumanSteps
  <1>2. \A q \in Resumable : Resume!RowStep(q)
    BY <1>1, ResumeStep, HumanAssumption DEF Resumable
  <1>3. Resume!TypeOK'
    BY <1>1, ResumeTypes, PTL
  <1> QED
    BY <1>2, <1>3 DEF Resume!Next

\* An agent's session is resumed as its contract says, whichever surfaces answer, threads
\* and processes call, and calls are lost or late (complete_human_request,
\* deliver_human_completion, reconcile_unadmitted_human_completion).
THEOREM ResumeContractImplemented == HumanSpec => KeepsResumeContract
  <1>1. HumanInit => Resume!Init
    BY ResumeStart DEF HumanInit
  <1>2. HumanInv /\ [HumanNext]_humanVars => [Resume!Next]_(Resume!vars)
    BY ResumeNext
  <1> QED
    BY <1>1, <1>2, RequestsAreSound, PTL DEF HumanSpec, KeepsResumeContract, Resume!Spec

\* What the promises of the contract rest on: an answer that is owed is an answer.
ContractInv ==
    /\ Resume!TypeOK /\ Resume!ToldWhatStands
    /\ \A q \in Resumable : ResumePhase(q) # "none" => OwedAnswer(q) \in Values

\* What a step of the contract makes of one resume.
LEMMA ContractSteps ==
    ASSUME ContractInv, Resume!Next
    PROVE  /\ ContractInv'
           /\ \A q \in Resumable :
                 /\ ResumePhase(q) # "none" => OwedAnswer(q)' = OwedAnswer(q)
                 /\ ResumePhase(q) = "cancelled" \/ (ResumePhase(q) = "sent" /\ q \notin Registry)
                       => ResumePhase(q)' = ResumePhase(q)
                 /\ doubt[q] # NoAnswer /\ doubt'[q] # doubt[q]
                       => ResumePhase(q) = "unknown" /\ ResumePhase(q)' = "owed"
  <1> DEFINE Told(q) ==
               /\ doubt[q] # NoAnswer => doubt[q] = OwedAnswer(q)
               /\ ResumePhase(q) \in {"none", "owed", "cancelled"} => doubt[q] = NoAnswer
               /\ ResumePhase(q) = "unknown" \/ (ResumePhase(q) = "sent" /\ q \notin Registry)
                     => doubt[q] = OwedAnswer(q)
               /\ ResumePhase(q) # "none" => OwedAnswer(q) \in Values
  <1>1. ContractInv <=> Resume!TypeOK /\ \A q \in Resumable : Told(q)
    BY DEF ContractInv, Resume!ToldWhatStands
  <1>2. ASSUME NEW q \in Resumable
        PROVE  /\ Told(q)'
               /\ ResumePhase(q) # "none" => OwedAnswer(q)' = OwedAnswer(q)
               /\ ResumePhase(q) = "cancelled" \/ (ResumePhase(q) = "sent" /\ q \notin Registry)
                     => ResumePhase(q)' = ResumePhase(q)
               /\ doubt[q] # NoAnswer /\ doubt'[q] # doubt[q]
                     => ResumePhase(q) = "unknown" /\ ResumePhase(q)' = "owed"
    <2>1. Told(q) /\ Resume!RowStep(q)
      BY <1>1, <1>2 DEF Resume!Next
    <2> USE <2>1, HumanAssumption DEF Resume!KeepsPhase, Resume!KeepsAnswer, Resume!KeepsTold, Resume!InFlight
    <2>2. CASE Resume!Rest(q)
      BY <2>2 DEF Resume!Rest
    <2>3. CASE Resume!Accept(q)
      BY <2>3 DEF Resume!Accept
    <2>4. CASE Resume!Withdraw(q)
      BY <2>4 DEF Resume!Withdraw
    <2>5. CASE Resume!Claim(q)
      BY <2>5 DEF Resume!Claim
    <2>6. CASE Resume!Call(q)
      BY <2>6 DEF Resume!Call
    <2>7. CASE Resume!Refuse(q)
      BY <2>7 DEF Resume!Refuse
    <2>8. CASE Resume!Lose(q)
      <3>1. /\ ResumePhase(q) = "sending" \/ (q \in Registry /\ ResumePhase(q) = "sent")
            /\ doubt[q] = OwedAnswer(q) /\ ResumePhase(q)' = "unknown"
            /\ OwedAnswer(q)' = OwedAnswer(q) /\ doubt'[q] = doubt[q]
        BY <2>8 DEF Resume!Lose
      <3>2. ResumePhase(q) # "none" /\ OwedAnswer(q) \in Values
        BY <3>1
      <3>3. Told(q)'
        BY <3>1, <3>2
      <3>4. ~(ResumePhase(q) = "cancelled" \/ (ResumePhase(q) = "sent" /\ q \notin Registry))
        BY <3>1
      <3> HIDE DEF Told
      <3> QED
        BY <3>1, <3>3, <3>4
    <2>9. CASE Resume!Confirm(q)
      <3>1. /\ \/ ResumePhase(q) = "sending" /\ doubt[q] # NoAnswer
               \/ q \in Registry /\ ResumePhase(q) \notin {"none", "cancelled"}
            /\ ResumePhase(q)' = "sent"
            /\ OwedAnswer(q)' = OwedAnswer(q) /\ doubt'[q] = doubt[q]
        BY <2>9 DEF Resume!Confirm
      <3>2. OwedAnswer(q) \in Values /\ (q \notin Registry => doubt[q] = OwedAnswer(q))
        BY <3>1
      <3>3. Told(q)'
        BY <3>1, <3>2
      <3> HIDE DEF Told
      <3> QED
        BY <3>1, <3>3
    <2>10. CASE Resume!Disprove(q)
      BY <2>10 DEF Resume!Disprove
    <2> HIDE DEF Told
    <2> QED
      BY <2>2, <2>3, <2>4, <2>5, <2>6, <2>7, <2>8, <2>9, <2>10 DEF Resume!RowStep
  <1>3. Resume!TypeOK'
    BY DEF Resume!Next
  <1>4. ContractInv' <=> Resume!TypeOK' /\ \A q \in Resumable : Told(q)'
    BY DEF ContractInv, Resume!ToldWhatStands
  <1> HIDE DEF Told
  <1> QED
    BY <1>2, <1>3, <1>4

\* Whatever keeps the contract calls a session only with the answer its question keeps,
\* and never goes back on a withdrawal, a recorded resume or a call.
THEOREM ResumeContractSuffices ==
    KeepsResumeContract => []Resume!ToldWhatStands /\ Resume!Final
  <1>1. Resume!Init => ContractInv
    BY DEF Resume!Init, ContractInv, Resume!TypeOK, Resume!Phases, Resume!ToldWhatStands
  <1>2. ContractInv /\ [Resume!Next]_(Resume!vars) => ContractInv'
    BY ContractSteps DEF Resume!vars, ContractInv, Resume!TypeOK, Resume!ToldWhatStands
  <1>3. ContractInv /\ [Resume!Next]_(Resume!vars) => [Resume!GoesOn]_(Resume!vars)
    BY ContractSteps DEF Resume!GoesOn
  <1>4. ContractInv => Resume!ToldWhatStands
    BY DEF ContractInv
  <1> QED
    BY <1>1, <1>2, <1>3, <1>4, PTL DEF KeepsResumeContract, Resume!Spec, Resume!Final

\* So a session never hears an answer that does not stand, is never called for one that
\* was withdrawn, nor again once its resume was recorded, unless that one is registered
\* (claim_human_completion, mark_human_completion).
THEOREM SessionsHearWhatStands ==
    HumanSpec => []Resume!ToldWhatStands /\ Resume!Final
  BY ResumeContractImplemented, ResumeContractSuffices, PTL

-----------------------------------------------------------------------------
(***************************************************************************)
(* The whole type invariants: the bounds of the counters and epochs        *)
(***************************************************************************)
\* An epoch is one of the directives that were requested, and one that is carried to the
\* owner of the task was.
ControlIsBounded(d) ==
    /\ control[d].epoch <= MaxControls
    /\ control[d].state # "clear" => 1 <= control[d].epoch
    /\ revoked[d] \subseteq 1..MaxControls
ClerkIsBounded(t) ==
    /\ clerk[t].epoch <= MaxControls
    /\ clerk[t].pc = "command" => control[clerk[t].about].state # "clear"
    /\ clerk[t].pc \in {"ask", "revoke"} => 1 <= clerk[t].epoch
TaskBounds ==
    /\ owed \in [Decisions -> {"none", "pending", "resumed"}]
    /\ board \in [Decisions -> {"asked", "edited", "reworded", "lost"}]
    /\ siteCrashes \in 0..MaxSiteCrashes /\ silences \in 0..MaxSilences
    /\ \A d \in Decisions : ControlIsBounded(d)
    /\ \A t \in Clerks : ClerkIsBounded(t)

LEMMA TaskIsTyped ==
    ASSUME TaskInv, TaskBounds
    PROVE  TaskTypeOK
  <1>1. ASSUME NEW d \in Decisions
        PROVE  /\ control[d] \in [state: {"clear", "acknowledged"} \cup Open, kind: {"none", "stop", "hold"},
                                  epoch: 0..MaxControls, resumed: BOOLEAN, leased: BOOLEAN]
               /\ revoked[d] \in SUBSET (1..MaxControls) /\ posts[d] \in 0..2
    <2>1. control[d] \in ControlType /\ posts[d] \in Nat /\ posts[d] <= 1 /\ ControlIsBounded(d)
      BY DEF TaskInv, TaskTypes, DecisionIsSound, TaskBounds
    <2> QED
      BY <2>1, TaskAssumption DEF ControlType, ControlIsBounded
  <1>2. ASSUME NEW t \in Clerks
        PROVE  /\ clerk[t] \in [pc: Stages, about: Decisions \cup {NoChoice}, recovering: BOOLEAN,
                                epoch: 0..MaxControls]
               /\ clerk[t].pc # "idle" => clerk[t].about \in Decisions
    <2>1. clerk[t] \in ClerkType /\ ClerkIsSound(t) /\ ClerkIsBounded(t)
      BY DEF TaskInv, TaskTypes, TaskBounds
    <2> QED
      BY <2>1, TaskAssumption DEF ClerkType, ClerkIsSound, ClerkIsBounded
  <1>3. TaskTypes
    BY DEF TaskInv
  <1>4. /\ control \in [Decisions -> [state: {"clear", "acknowledged"} \cup Open,
                          kind: {"none", "stop", "hold"}, epoch: 0..MaxControls,
                          resumed: BOOLEAN, leased: BOOLEAN]]
        /\ revoked \in [Decisions -> SUBSET (1..MaxControls)]
        /\ posts \in [Decisions -> 0..2]
    BY <1>1, <1>3 DEF TaskTypes
  <1>5. clerk \in [Clerks -> [pc: Stages, about: Decisions \cup {NoChoice}, recovering: BOOLEAN,
                             epoch: 0..MaxControls]]
    BY <1>2, <1>3 DEF TaskTypes
  <1> QED
    BY <1>2, <1>3, <1>4, <1>5 DEF TaskTypes, TaskBounds, TaskTypeOK, DecisionType, Stages

LEMMA TaskBoundsInit ==
    ASSUME NEW B, NEW P, NEW spent, TaskInitFor(B, P, spent)
    PROVE  TaskBounds
  BY TaskAssumption DEF TaskInitFor, TaskBounds, ControlIsBounded, ClerkIsBounded, NoControl, Free

\* A thread that posts or asks for the question carries no directive.
LEMMA NoticeStaysBounded ==
    ASSUME TaskInv, TaskBounds, NEW t \in Clerks, NoticeStep(t)
    PROVE  TaskBounds'
  <1>1. TaskTypes /\ UNCHANGED <<owed, board, control, revoked, siteCrashes, silences>>
    BY DEF TaskInv, NoticeStep, ReserveQuestion, AskForQuestion, SubmitQuestion, QueryQuestion,
       QuestionIsAccepted, QuestionIsRefused, QuestionIsUncertain, bounds
  <1>2. Free.epoch = 0 /\ Free.pc = "idle" /\ clerk[t] \in ClerkType
    BY <1>1 DEF Free, TaskTypes
  <1>3. \/ Leave(t)
        \/ \E pc \in {"submit", "query"}, d \in Decisions :
              clerk' = [clerk EXCEPT ![t] = [Free EXCEPT !.pc = pc, !.about = d]]
        \/ /\ clerk[t].pc \in {"submit", "query"}
           /\ \E pc \in {"uncertain", "accepted", "refused"} : Turn(t, pc)
    BY DEF NoticeStep, ReserveQuestion, AskForQuestion, SubmitQuestion, QueryQuestion,
       QuestionIsAccepted, QuestionIsRefused, QuestionIsUncertain
  <1>4. \A u \in Clerks : u # t => clerk'[u] = clerk[u]
    BY <1>1, <1>3 DEF TaskTypes, Leave, Turn
  <1>5. /\ clerk'[t].pc \notin {"command", "ask", "revoke"}
        /\ clerk'[t].epoch \in {0, clerk[t].epoch}
    <2>1. CASE Leave(t)
      BY <1>1, <1>2, <2>1 DEF TaskTypes, Leave
    <2>2. ASSUME NEW pc \in {"submit", "query"}, NEW d \in Decisions,
                 clerk' = [clerk EXCEPT ![t] = [Free EXCEPT !.pc = pc, !.about = d]]
          PROVE  clerk'[t].pc = pc /\ clerk'[t].epoch = 0
      BY <1>1, <2>2 DEF TaskTypes, Free
    <2>3. ASSUME NEW pc \in {"uncertain", "accepted", "refused"}, Turn(t, pc)
          PROVE  clerk'[t].pc = pc /\ clerk'[t].epoch = clerk[t].epoch
      BY <1>1, <1>2, <2>3 DEF TaskTypes, Turn, ClerkType
    <2> QED
      BY <1>3, <2>1, <2>2, <2>3
  <1>6. \A u \in Clerks : ClerkIsBounded(u)'
    BY <1>1, <1>4, <1>5, TaskAssumption DEF TaskBounds, ClerkIsBounded
  <1> QED
    BY <1>1, <1>6 DEF TaskBounds, ControlIsBounded

\* A request opens the next epoch, within the bound; a resumption and the end of a lease
\* keep the one there is.
LEMMA DirectiveStaysBounded ==
    ASSUME TaskInv, TaskBounds, NEW d \in Decisions,
           \/ ResumeAfterHold(d) \/ LeaseExpires(d)
           \/ \E kind \in {"stop", "hold"} : RequestControl(d, kind)
    PROVE  TaskBounds'
  <1>1. /\ UNCHANGED <<owed, board, revoked, clerk, siteCrashes, silences>>
        /\ control \in [Decisions -> ControlType] /\ control[d] \in ControlType
        /\ control[d].epoch \in Nat /\ MaxControls \in Nat
    BY TaskAssumption DEF TaskInv, TaskTypes, ControlType, ResumeAfterHold, LeaseExpires, RequestControl, bounds
  <1>2. /\ \A e \in Decisions : e # d => control'[e] = control[e]
        /\ \/ control'[d].epoch = control[d].epoch /\ control'[d].state = control[d].state
           \/ /\ control'[d].epoch = control[d].epoch + 1 /\ control[d].epoch < MaxControls
              /\ control'[d].state = "pending"
    <2>1. CASE ResumeAfterHold(d) \/ LeaseExpires(d)
      BY <1>1, <2>1 DEF ResumeAfterHold, LeaseExpires, ControlType
    <2>2. ASSUME NEW kind \in {"stop", "hold"}, RequestControl(d, kind)
          PROVE  /\ \A e \in Decisions : e # d => control'[e] = control[e]
                 /\ control'[d].epoch = control[d].epoch + 1 /\ control[d].epoch < MaxControls
                 /\ control'[d].state = "pending"
      BY <1>1, <2>2 DEF RequestControl, NoControl
    <2> QED
      BY <2>1, <2>2
  <1>3. \A e \in Decisions : ControlIsBounded(e)'
    BY <1>1, <1>2 DEF TaskBounds, ControlIsBounded
  <1>4. ASSUME NEW t \in Clerks PROVE ClerkIsBounded(t)'
    <2>1. /\ ClerkIsBounded(t) /\ clerk'[t] = clerk[t]
          /\ clerk[t].pc = "command" => clerk[t].about \in Decisions
      BY <1>1 DEF TaskInv, TaskBounds, ClerkIsSound
    <2>2. \A e \in Decisions : control[e].state # "clear" => control'[e].state # "clear"
      BY <1>2
    <2> QED
      BY <2>1, <2>2 DEF ClerkIsBounded
  <1> QED
    BY <1>1, <1>3, <1>4 DEF TaskBounds

\* What a thread carries to the owner of the task is the epoch of a directive.
LEMMA ControlStaysBounded ==
    ASSUME TaskInv, TaskBounds, NEW t \in Clerks, ControlStep(t)
    PROVE  TaskBounds'
  <1> DEFINE d == clerk[t].about
  <1>a. /\ TaskTypes /\ UNCHANGED <<owed, board, siteCrashes>>
        /\ clerk[t] \in ClerkType /\ clerk[t].epoch \in Nat /\ MaxControls \in Nat
        /\ Free.epoch = 0 /\ Free.pc = "idle"
        /\ \A e \in Decisions : control[e] \in ControlType /\ control[e].epoch \in Nat
    BY TaskAssumption DEF TaskInv, TaskTypes, ClerkType, ControlType, Free, bounds, ControlStep,
       LookAtControl, ClaimControl, ReadCommand, RecordReceipt, RecordDoubt, QueryControl, Revoke
  <1>b. clerk[t].pc # "idle" => d \in Decisions
    BY DEF TaskInv, ClerkIsSound
  <1>c. \A u \in Clerks : u # t => clerk'[u] = clerk[u]
    BY <1>a DEF TaskTypes, ControlStep, LookAtControl, ClaimControl, ReadCommand, RecordReceipt,
       RecordDoubt, QueryControl, Revoke, Leave, Turn
  <1>1. silences' \in 0..MaxSilences
    <2>1. silences \in 0..MaxSilences /\ MaxSilences \in Nat
      BY TaskAssumption DEF TaskBounds
    <2>2. silences' = silences \/ (silences < MaxSilences /\ silences' = silences + 1)
      BY DEF ControlStep, LookAtControl, ClaimControl, ReadCommand, RecordReceipt, RecordDoubt,
         QueryControl, Revoke, bounds
    <2> QED
      BY <2>1, <2>2
  <1>2. \A e \in Decisions : /\ control'[e].epoch = control[e].epoch
                             /\ control'[e].state = "clear" <=> control[e].state = "clear"
    <2>1. CASE control' = control
      BY <2>1
    <2>2. CASE ClaimControl(t)
      <3>1. control' = control \/ (/\ Dispatchable(d) /\ d \in Decisions
                                   /\ control' = [control EXCEPT ![d].state = "sending", ![d].leased = TRUE])
        BY <1>b, <2>2 DEF ClaimControl
      <3> QED
        BY <1>a, <2>1, <3>1 DEF TaskTypes, ControlType, Dispatchable
    <2>3. CASE control' = Doubted(d) /\ d \in Decisions
      BY <1>a, <2>1, <2>3 DEF Doubted, TaskTypes, ControlType
    <2>4. CASE control' = Acknowledged(d) /\ d \in Decisions /\ control[d].state \in Open
      BY <1>a, <2>4 DEF Acknowledged, TaskTypes, ControlType, Open
    <2>5. CASE RecordReceipt(t) \/ RecordDoubt(t)
      BY <1>b, <2>3, <2>4, <2>5 DEF RecordReceipt, RecordDoubt, Acknowledges
    <2> QED
      BY <2>1, <2>2, <2>5 DEF ControlStep, LookAtControl, ReadCommand, QueryControl, Revoke
  <1>3. /\ clerk'[t].epoch \in Nat /\ clerk'[t].epoch <= MaxControls
        /\ clerk'[t].pc = "command" => clerk'[t].about \in Decisions /\ control'[clerk'[t].about].state # "clear"
        /\ clerk'[t].pc \in {"ask", "revoke"} => 1 <= clerk'[t].epoch
    <2>0. ClerkIsBounded(t) /\ clerk \in [Clerks -> ClerkType]
          /\ \A e \in Decisions : ControlIsBounded(e)
      BY <1>a DEF TaskBounds, TaskTypes
    <2>1. ASSUME Leave(t) PROVE clerk'[t].pc = "idle" /\ clerk'[t].epoch = 0
      BY <1>a, <2>0, <2>1 DEF Leave
    <2>2. ASSUME NEW pc, Turn(t, pc)
          PROVE  clerk'[t].pc = pc /\ clerk'[t].epoch = clerk[t].epoch /\ clerk'[t].about = d
      BY <1>a, <2>0, <2>2 DEF Turn, ClerkType
    <2>3. CASE \E e \in Decisions : LookAtControl(t, e)
      BY <1>a, <2>0, <2>3 DEF LookAtControl
    <2>4. CASE ClaimControl(t)
      <3>1. CASE Leave(t)
        BY <1>a, <2>1, <3>1
      <3>2. CASE Turn(t, "command") /\ Dispatchable(d)
        BY <1>a, <1>b, <1>2, <2>0, <2>2, <2>4, <3>2 DEF ClaimControl, Dispatchable, ClerkIsBounded
      <3> QED
        BY <2>4, <3>1, <3>2 DEF ClaimControl
    <2>5. CASE ReadCommand(t)
      <3>1. /\ clerk[t].pc = "command" /\ d \in Decisions /\ control[d].state # "clear"
            /\ clerk' = [clerk EXCEPT ![t].epoch = control[d].epoch,
                     ![t].pc = IF clerk[t].recovering THEN "ask" ELSE "revoke"]
        BY <1>b, <2>0, <2>5 DEF ReadCommand, ClerkIsBounded
      <3>2. clerk'[t].epoch = control[d].epoch /\ clerk'[t].pc \in {"ask", "revoke"}
        BY <1>a, <2>0, <3>1 DEF ClerkType
      <3> QED
        BY <1>a, <2>0, <3>1, <3>2 DEF ControlIsBounded
    <2>6. CASE \E heard \in BOOLEAN : QueryControl(t, heard)
      <3>1. /\ clerk[t].pc = "ask" /\ \E pc \in {"doubtful", "receipt", "revoke"} : Turn(t, pc)
        BY <2>6 DEF QueryControl
      <3> QED
        BY <1>a, <2>0, <2>2, <3>1 DEF ClerkIsBounded
    <2>7. CASE \E applied \in BOOLEAN, heard \in BOOLEAN : Revoke(t, applied, heard)
      <3>1. \E pc \in {"doubtful", "receipt"} : Turn(t, pc)
        BY <2>7 DEF Revoke
      <3> QED
        BY <1>a, <2>0, <2>2, <3>1 DEF ClerkIsBounded
    <2>8. CASE RecordReceipt(t) \/ RecordDoubt(t)
      BY <1>a, <2>1, <2>8 DEF RecordReceipt, RecordDoubt
    <2> QED
      BY <2>3, <2>4, <2>5, <2>6, <2>7, <2>8 DEF ControlStep
  <1>4. \A e \in Decisions : revoked'[e] \subseteq 1..MaxControls
    <2>1. CASE revoked' = revoked
      BY <2>1 DEF TaskBounds, ControlIsBounded
    <2>2. CASE revoked' # revoked
      <3>1. /\ clerk[t].pc = "revoke"
            /\ revoked' = [revoked EXCEPT ![d] = revoked[d] \cup {clerk[t].epoch}]
        BY <2>2 DEF ControlStep, LookAtControl, ClaimControl, ReadCommand, RecordReceipt, RecordDoubt,
           QueryControl, Revoke
      <3>2. clerk[t].epoch \in 1..MaxControls
        BY <1>a, <3>1 DEF TaskBounds, ClerkIsBounded
      <3> QED
        BY <1>a, <3>1, <3>2 DEF TaskTypes, TaskBounds, ControlIsBounded
    <2> QED
      BY <2>1, <2>2
  <1>5. \A e \in Decisions : ControlIsBounded(e)'
    BY <1>2, <1>4 DEF TaskBounds, ControlIsBounded
  <1>6. \A u \in Clerks : ClerkIsBounded(u)'
    <2>1. ASSUME NEW u \in Clerks, u # t PROVE ClerkIsBounded(u)'
      <3>1. clerk'[u] = clerk[u] /\ ClerkIsBounded(u)
        BY <1>c, <2>1 DEF TaskBounds
      <3>2. clerk[u].pc = "command" => clerk[u].about \in Decisions
        BY DEF TaskInv, ClerkIsSound
      <3> QED
        BY <1>2, <3>1, <3>2 DEF ClerkIsBounded
    <2>2. ClerkIsBounded(t)'
      BY <1>3 DEF ClerkIsBounded
    <2> QED
      BY <2>1, <2>2
  <1> QED
    BY <1>a, <1>1, <1>5, <1>6 DEF TaskBounds
\* Every step keeps the bounds.
LEMMA TaskStaysBounded ==
    ASSUME TaskInv, TaskBounds, [TaskNext]_taskVars
    PROVE  TaskBounds'
  <1>1. CASE UNCHANGED taskVars
    BY <1>1 DEF taskVars, TaskBounds, ControlIsBounded, ClerkIsBounded
  <1>2. ASSUME NEW d \in Decisions,
               \/ CreateDecision(d) \/ CancelDecision(d) \/ ResolveDue(d) \/ DeadlinePasses(d) \/ Continue(d)
               \/ \E to \in {"edited", "reworded", "lost"} : BoardMovesOn(d, to)
               \/ \E choice \in Choices : AnswerDecision(d, choice) \/ AnswerFromBoard(d, choice)
        PROVE  TaskBounds'
    <2>1. UNCHANGED <<control, revoked, clerk, siteCrashes, silences>>
      BY <1>2 DEF CreateDecision, CancelDecision, ResolveDue, DeadlinePasses, Continue, BoardMovesOn,
         AnswerDecision, AnswerFromBoard, bounds
    <2>2. /\ owed' = owed \/ \E to \in {"pending", "resumed"} : owed' = [owed EXCEPT ![d] = to]
          /\ board' = board \/ \E to \in {"edited", "reworded", "lost"} : board' = [board EXCEPT ![d] = to]
      BY <1>2 DEF CreateDecision, CancelDecision, ResolveDue, DeadlinePasses, Continue, BoardMovesOn,
         AnswerDecision, AnswerFromBoard
    <2>3. /\ owed' \in [Decisions -> {"none", "pending", "resumed"}]
          /\ board' \in [Decisions -> {"asked", "edited", "reworded", "lost"}]
      BY <2>2 DEF TaskBounds
    <2> QED
      BY <2>1, <2>3 DEF TaskBounds, ControlIsBounded, ClerkIsBounded
  <1>3. ASSUME NEW s \in Sites, SiteCrash(s)
        PROVE  TaskBounds'
    <2>1. /\ UNCHANGED <<owed, board, control, revoked, silences>>
          /\ siteCrashes < MaxSiteCrashes /\ siteCrashes' = siteCrashes + 1
          /\ clerk' = [t \in Clerks |-> IF SiteOf[t] = s THEN Free ELSE clerk[t]]
      BY <1>3 DEF SiteCrash
    <2>2. Free.epoch = 0 /\ Free.pc = "idle"
      BY DEF Free
    <2>3. \A t \in Clerks : clerk'[t] = Free \/ clerk'[t] = clerk[t]
      BY <2>1
    <2>4. \A t \in Clerks : ClerkIsBounded(t)'
      BY <2>1, <2>2, <2>3, TaskAssumption DEF TaskBounds, ClerkIsBounded
    <2>5. siteCrashes' \in 0..MaxSiteCrashes
      BY <2>1, TaskAssumption DEF TaskBounds
    <2> QED
      BY <2>1, <2>4, <2>5 DEF TaskBounds, ControlIsBounded
  <1> QED
    BY <1>1, <1>2, <1>3, NoticeStaysBounded, ControlStaysBounded, DirectiveStaysBounded DEF TaskNext

\* The counters and sets of the requests.
HumanBounds ==
    /\ overdue \subseteq Timed /\ closed \subseteq Cases
    /\ hostCrashes \in 0..MaxHostCrashes /\ refusals \in 0..MaxRefusals

LEMMA HumanIsTyped ==
    ASSUME HumanInv, HumanBounds
    PROVE  HumanTypeOK
  BY DEF HumanInv, HumanTypes, AskerIsSound, HumanBounds, HumanTypeOK, QuestionType, CompletionType, AskerType

LEMMA HumanBoundsInit ==
    ASSUME NEW Q, NEW spent, HumanInitFor(Q, spent)
    PROVE  HumanBounds
  BY HumanAssumption DEF HumanInitFor, HumanBounds

LEMMA HumanStaysBounded ==
    ASSUME HumanBounds, [HumanNext]_humanVars
    PROVE  HumanBounds'
  <1>1. overdue' = overdue \/ \E q \in Timed : overdue' = overdue \cup {q}
    BY DEF HumanNext, humanVars, Create, Read, CancelQuestion, Expires, CloseCase, ReopenCase, Answer,
       AskerStep, ReplayCard, ReplayCompletion, CardIsSettled, EditCard, CardIsEdited, ReadCompletion,
       Claim, PostIsRefused, PostIsAdmitted, PostIsLost, RecordOutcome, ReceiptIsRead,
       ReceiptIsMissing, Reconcile, LateCall, HostCrash
  <1>2. \/ closed' = closed
        \/ \E i \in Cases : closed' = closed \cup {i} \/ closed' = closed \ {i}
    BY DEF HumanNext, humanVars, Create, Read, CancelQuestion, Expires, CloseCase, ReopenCase, Answer,
       AskerStep, ReplayCard, ReplayCompletion, CardIsSettled, EditCard, CardIsEdited, ReadCompletion,
       Claim, PostIsRefused, PostIsAdmitted, PostIsLost, RecordOutcome, ReceiptIsRead,
       ReceiptIsMissing, Reconcile, LateCall, HostCrash
  <1>3. hostCrashes' = hostCrashes \/ (hostCrashes < MaxHostCrashes /\ hostCrashes' = hostCrashes + 1)
    BY DEF HumanNext, humanVars, Create, Read, CancelQuestion, Expires, CloseCase, ReopenCase, Answer,
       AskerStep, ReplayCard, ReplayCompletion, CardIsSettled, EditCard, CardIsEdited, ReadCompletion,
       Claim, PostIsRefused, PostIsAdmitted, PostIsLost, RecordOutcome, ReceiptIsRead,
       ReceiptIsMissing, Reconcile, LateCall, HostCrash
  <1>4. refusals' = refusals \/ (refusals < MaxRefusals /\ refusals' = refusals + 1)
    BY DEF HumanNext, humanVars, Create, Read, CancelQuestion, Expires, CloseCase, ReopenCase, Answer,
       AskerStep, ReplayCard, ReplayCompletion, CardIsSettled, EditCard, CardIsEdited, ReadCompletion,
       Claim, PostIsRefused, PostIsAdmitted, PostIsLost, RecordOutcome, ReceiptIsRead,
       ReceiptIsMissing, Reconcile, LateCall, HostCrash
  <1> QED
    BY <1>1, <1>2, <1>3, <1>4, HumanAssumption DEF HumanBounds
-----------------------------------------------------------------------------
(***************************************************************************)
(* The composition: a behaviour about one request or one decision          *)
(***************************************************************************)
QuestionsInv == HumanInv /\ HumanBounds /\ TaskInv /\ TaskBounds

\* A step of the composition is one of each half, or leaves it alone.
LEMMA QuestionsHalves ==
    ASSUME [QuestionsNext]_questionsVars
    PROVE  [HumanNext]_humanVars /\ [TaskNext]_taskVars
  BY DEF QuestionsNext, questionsVars

LEMMA QuestionsStart ==
    ASSUME QuestionsInit
    PROVE  QuestionsInv
  BY HumanInvInit, HumanBoundsInit, TaskInvInit, TaskBoundsInit DEF QuestionsInit, QuestionsInv

\* Whatever the behaviour is about, the requests and the decisions stay sound, and every
\* counter, epoch and set stays within its bound (HumanRequests, TaskDecisions).
THEOREM QuestionsAreSound == QuestionsSpec => []QuestionsInv
  <1>1. QuestionsInit => QuestionsInv
    BY QuestionsStart
  <1>2. QuestionsInv /\ [QuestionsNext]_questionsVars => QuestionsInv'
    BY QuestionsHalves, HumanSteps, HumanStaysBounded, TaskSteps, TaskStaysBounded DEF QuestionsInv
  <1> QED
    BY <1>1, <1>2, PTL DEF QuestionsSpec

\* The types of both halves: no epoch is acknowledged, carried or applied that nobody asked
\* for, and no row leaves its states (task_decisions.py, core.py).
THEOREM QuestionsAreTyped == QuestionsSpec => []QuestionsTypeOK
  <1>1. QuestionsInv => QuestionsTypeOK
    BY HumanIsTyped, TaskIsTyped DEF QuestionsInv, QuestionsTypeOK
  <1> QED
    BY <1>1, QuestionsAreSound, PTL

\* The safety of requests and decisions where each behaviour is about one of them: no session
\* is called blindly, the answer stands, readers are told the truth, a question is posted once
\* before it is decided, and an acknowledged directive was applied.
THEOREM QuestionsAreSafe ==
    QuestionsSpec => [](/\ NoBlindReplay /\ AnswerStands /\ ShownIsTrue
                        /\ PostedOnceThenDecided /\ AcknowledgedWasApplied)
  <1>1. HumanInv => NoBlindReplay /\ AnswerStands
    BY HumanAssumption DEF HumanInv, AskerIsSound, OneCaller, Calls, NoBlindReplay, RequestIsSound,
       AnswerStands
  <1>2. TaskInv => PostedOnceThenDecided /\ AcknowledgedWasApplied
    BY DEF TaskInv, DecisionIsSound, PostedOnceThenDecided, AcknowledgedWasApplied
  <1>3. QuestionsInv => /\ NoBlindReplay /\ AnswerStands /\ ShownIsTrue
                        /\ PostedOnceThenDecided /\ AcknowledgedWasApplied
    BY <1>1, <1>2, SoundIsShown DEF QuestionsInv
  <1> QED
    BY <1>3, QuestionsAreSound, PTL

\* And its steps: what was withdrawn stays so, there is one decision, and a stop is final.
THEOREM QuestionsStepSafely ==
    QuestionsSpec => KeepsResumeContract /\ OneDecision /\ StopIsFinal
  <1>1. QuestionsInit => Resume!Init
    BY ResumeStart DEF QuestionsInit
  <1>2. QuestionsInv /\ [QuestionsNext]_questionsVars => [Resume!Next]_(Resume!vars)
    BY QuestionsHalves, ResumeNext DEF QuestionsInv
  <1>3. QuestionsInv /\ [QuestionsNext]_questionsVars => [\A d \in Decisions :
           /\ decision[d].source # "none" =>
                 decision'[d] = [decision[d] EXCEPT !.late = decision'[d].late,
                                                    !.deadline = decision'[d].deadline]
           /\ decision[d].deadline = "past" => decision'[d].deadline = "past"]_taskVars
    BY DecisionStands, QuestionsHalves DEF QuestionsInv
  <1>4. QuestionsInv /\ [QuestionsNext]_questionsVars => [\A d \in Decisions :
           control[d].state = "acknowledged" /\ control[d].kind = "stop" =>
               /\ control'[d] = control[d]
               /\ decision'[d].source = decision[d].source]_taskVars
    BY TaskSteps, QuestionsHalves DEF QuestionsInv, TakesDecision, StopStays
  <1> QED
    BY <1>1, <1>2, <1>3, <1>4, QuestionsAreSound, PTL
       DEF QuestionsSpec, KeepsResumeContract, Resume!Spec, OneDecision, StopIsFinal
=============================================================================
