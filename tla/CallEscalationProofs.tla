------------------------ MODULE CallEscalationProofs ------------------------
(***************************************************************************)
(* Machine-checked theorems about CallEscalation, for any number of calls, *)
(* incidents, problems and threads, any shape of chains and ladders, and   *)
(* all values of the timing constants.                                     *)
(***************************************************************************)
EXTENDS CallEscalation, OutboxRowLemmas

USE DEF Statuses, Held, Finished

Waiting == {"queued", "claimed"}

Outcomes == {"sent", "failed", "cancelled", "retry", "uncertain"}

\* A call that waits belongs to an incident that still wants it.
WaitsInTime == \A c \in Calls : row[c].status \in Waiting => StateOf(c) \in Deliverable

\* The interval of a problem covers every episode about it, and an episode
\* that still runs is that of the last call, or of a missed stage of its chain.
EpisodesAreCovered ==
    /\ \A p \in Problems : budget[p].left <= Interval
    /\ \A e \in Calls : since[e] > 0 =>
          LET last == budget[Problem(e)].last
          IN  /\ since[e] <= budget[Problem(e)].left
              /\ last \in Calls
              /\ \/ last = e
                 \/ {e, last} \subseteq Chain /\ IncidentOf[last] = IncidentOf[e] /\ ProvedMissed(e)

\* The inductive invariant.
Inv == TypeOK /\ WaitsInTime /\ EpisodesAreCovered

\* What a step that licenses no call does to the row of one call: it leaves
\* alone what is proved about a missed stage, and sends nothing.
Calm(c) ==
    \/ row'[c].status = row[c].status /\ receipt'[c] = receipt[c]
    \/ row'[c].status # "sending" /\ (row[c].status # "failed" \/ c \notin Chain)

\* What such a step does altogether, unless it is a tick.
Calmly ==
    /\ \A c \in Calls : Calm(c)
    /\ budget' = budget /\ since' = since

\* What a step other than a claim does to the row of one call: no generation
\* begins, and nothing becomes claimed.
Kept(c) ==
    \/ row'[c].status = row[c].status /\ row'[c].attempt = row[c].attempt
    \/ /\ row'[c].status \notin {"absent", "claimed"}
       /\ \/ row'[c].attempt = row[c].attempt
          \/ row[c].status = "absent" /\ row'[c].attempt = 0

-----------------------------------------------------------------------------
(* What the operators return *)

\* The constants of an instance, in the form the steps need them.
LEMMA CallTypes ==
    /\ \A c \in Calls : IncidentOf[c] \in Incidents /\ Problem(c) \in Problems
    /\ \A c \in Calls : \A e \in Successor[c] \cup Neighbours[c] \cup FollowUps[c] :
          StateOf(e) = StateOf(c) /\ IncidentOf[e] = IncidentOf[c] /\ Problem(e) = Problem(c)
    /\ \A c \in Calls : Successor[c] \subseteq Chain /\ (Successor[c] # {} => c \in Chain)
    /\ \A n \in {Interval, Lease, RetryDelay, ContextDelay, EscalationDelay,
              StepDelay, SnoozeFor} : n \in Nat
  BY CallAssumption DEF Problem, StateOf

\* A thread that goes to a stage of its job, or to rest, keeps its shape.
LEMMA GoType ==
    ASSUME TypeOK, NEW w \in Workers, NEW pc \in Stages,
           pc # "idle" => worker[w].pc # "idle", Go(w, pc)
    PROVE  /\ worker' \in [Workers -> [pc : Stages, job : Calls \cup {NoCall}, attempt : Nat]]
           /\ \A v \in Workers : worker'[v].pc = "idle" <=> worker'[v].job = NoCall
  <1>1. Idle \in [pc : Stages, job : Calls \cup {NoCall}, attempt : Nat]
        /\ Idle.pc = "idle" /\ Idle.job = NoCall
    BY DEF Idle, Stages
  <1>2. worker[w] \in [pc : Stages, job : Calls \cup {NoCall}, attempt : Nat]
    BY DEF TypeOK
  <1>3. CASE pc = "idle"
    BY <1>1, <1>3 DEF Go, TypeOK
  <1>4. CASE pc # "idle"
    <2>1. worker' = [worker EXCEPT ![w] = [worker[w] EXCEPT !.pc = pc]]
      BY <1>4 DEF Go
    <2>2. worker[w].job # NoCall
      BY <1>4 DEF TypeOK
    <2> QED
      BY <1>2, <1>4, <2>1, <2>2 DEF TypeOK
  <1> QED
    BY <1>3, <1>4

\* The job of a thread at work is a call.
LEMMA JobType ==
    ASSUME TypeOK, NEW w \in Workers, worker[w].pc # "idle"
    PROVE  worker[w].job \in Calls
  BY DEF TypeOK

\* The outcome that is recorded is one of those that may be reported; a call
\* is only put back while its incident wants it.
LEMMA EffectiveOutcome ==
    ASSUME NEW c, NEW outcome \in Outcomes
    PROVE  /\ Effective(c, outcome) \in Outcomes
           /\ Effective(c, outcome) = "retry" => StateOf(c) \in Deliverable
  BY DEF Effective, Outcomes

-----------------------------------------------------------------------------
(* Reports *)

\* complete_delivery settles the call whose generation is held, and inserts
\* calls that the same incident, still open, wants next.
LEMMA Completed ==
    ASSUME TypeOK, NEW w \in Workers, worker[w].job \in Calls, NEW outcome \in Outcomes,
           NEW proof \in Receipts, NEW delay \in Nat, NEW fan \in BOOLEAN,
           Complete(w, outcome, proof, delay, fan)
    PROVE  /\ row' \in [Calls -> Row] /\ receipt' \in [Calls -> Receipts]
           /\ \A c \in Calls : Calm(c) /\ Kept(c)
           /\ \A c \in Calls : row'[c].status \in Waiting =>
                 row[c].status \in Waiting \/ StateOf(c) \in Deliverable
  <1> DEFINE c == worker[w].job
             effective == Effective(c, outcome)
             r == IF effective = "retry" THEN RequeuedRow(row[c], delay)
                                         ELSE WithStatus(row[c], effective)
             settled == [row EXCEPT ![c] = r]
             next == IF c \in Chain THEN NextStages(c, effective, proof)
                     ELSE (IF fan THEN FanOut(c, effective) ELSE {}) \cup NextStep(c, effective)
             after == IF effective = "sent" THEN StepDelay ELSE 0
  <1>1. CASE ~Holds(w)
    <2>1. row' = row /\ receipt' = receipt
      BY <1>1 DEF Complete
    <2> QED
      BY <2>1 DEF TypeOK, Calm, Kept
  <1>2. CASE Holds(w)
    <2>1. /\ row' = Scheduled(settled, next, after, 0)
          /\ receipt' = IF proof = "none" \/ effective = "retry" THEN receipt
                        ELSE [receipt EXCEPT ![c] = proof]
      BY <1>2 DEF Complete
    <2>2. row \in [Calls -> Row] /\ receipt \in [Calls -> Receipts] /\ row[c].status \in Held
      BY <1>2 DEF TypeOK, Holds
    <2>3. effective \in Outcomes /\ (effective = "retry" => StateOf(c) \in Deliverable)
      BY EffectiveOutcome
    <2>4. /\ r \in Row /\ r.attempt = row[c].attempt
          /\ r.status = IF effective = "retry" THEN "queued" ELSE effective
      <3> HIDE DEF effective
      <3>1. row[c] \in Row
        BY <2>2
      <3>2. CASE effective = "retry"
        BY <3>1, <3>2, RequeuedRowType
      <3>3. CASE effective # "retry"
        <4>1. effective \in Statuses
          BY <2>3, <3>3 DEF Outcomes
        <4> QED
          BY <3>1, <3>3, <4>1, WithStatusType
      <3> QED
        BY <3>2, <3>3
    <2>5. settled \in [Calls -> Row] /\ settled[c] = r /\ \A e \in Calls \ {c} : settled[e] = row[e]
      <3> HIDE DEF r
      <3> QED
        BY <2>2, <2>4
    <2>6. \A e \in next : StateOf(e) \in Deliverable
      BY CallTypes DEF NextStages, FanOut, NextStep
    <2>7. /\ row' \in [Calls -> Row]
          /\ \A e \in Calls : \/ row'[e] = settled[e]
                             \/ /\ e \in next /\ settled[e].status = "absent"
                                /\ row'[e].status = "queued" /\ row'[e].attempt = 0
      <3>1. after \in Nat /\ 0 \in Nat
        BY CallTypes
      <3>2. settled \in [Calls -> Row] /\ row' = Scheduled(settled, next, after, 0)
        BY <2>1, <2>5
      <3> HIDE DEF c, effective, r, settled, next, after
      <3>3. /\ Scheduled(settled, next, after, 0) \in [Calls -> Row]
            /\ \A e \in Calls : \/ Scheduled(settled, next, after, 0)[e] = settled[e]
                               \/ /\ e \in next /\ settled[e].status = "absent"
                                  /\ Scheduled(settled, next, after, 0)[e].status = "queued"
                                  /\ Scheduled(settled, next, after, 0)[e].attempt = 0
        BY <3>1, <3>2, ScheduledOnlyInserts, SMTT(30)
      <3> QED
        BY <3>2, <3>3
    <2> HIDE DEF effective, next, r, settled
    <2>8. receipt' \in [Calls -> Receipts] /\ \A e \in Calls \ {c} : receipt'[e] = receipt[e]
      BY <2>1, <2>2 DEF c
    <2>9. r.status \notin {"absent", "claimed", "sending"}
          /\ (r.status = "queued" => StateOf(c) \in Deliverable)
      BY <2>3, <2>4 DEF Outcomes
    <2>10. row'[c] = r
      BY <2>5, <2>7, <2>9
    <2>11. \A e \in Calls : Calm(e)
      <3> SUFFICES ASSUME NEW e \in Calls PROVE Calm(e)
        OBVIOUS
      <3>1. CASE e = c
        BY <2>2, <2>9, <2>10, <3>1 DEF Calm
      <3>2. CASE e # c
        BY <2>5, <2>7, <2>8, <3>2 DEF Calm
      <3> QED
        BY <3>1, <3>2
    <2>12. \A e \in Calls : row'[e].status \in Waiting =>
             row[e].status \in Waiting \/ StateOf(e) \in Deliverable
      <3> SUFFICES ASSUME NEW e \in Calls, row'[e].status \in Waiting
                   PROVE  row[e].status \in Waiting \/ StateOf(e) \in Deliverable
        OBVIOUS
      <3>1. CASE e = c
        BY <2>9, <2>10, <3>1 DEF Waiting
      <3>2. CASE e # c
        BY <2>5, <2>6, <2>7, <3>2 DEF Waiting
      <3> QED
        BY <3>1, <3>2
    <2>13. \A e \in Calls : Kept(e)
      <3> SUFFICES ASSUME NEW e \in Calls PROVE Kept(e)
        OBVIOUS
      <3>1. CASE e = c
        BY <2>4, <2>9, <2>10, <3>1 DEF Kept
      <3>2. CASE e # c
        BY <2>5, <2>7, <3>2 DEF Kept
      <3> QED
        BY <3>1, <3>2
    <2> QED
      BY <2>7, <2>8, <2>11, <2>12, <2>13
  <1> QED
    BY <1>1, <1>2

\* A report keeps the types and lets nothing wait that should not.
LEMMA Reported ==
    ASSUME TypeOK, WaitsInTime, NEW w \in Workers, worker[w].pc # "idle",
           NEW outcome \in Outcomes, NEW proof \in Receipts, NEW delay \in Nat,
           NEW fan \in BOOLEAN, NEW pc \in Stages, Report(w, outcome, proof, delay, fan, pc)
    PROVE  TypeOK' /\ WaitsInTime' /\ Calmly
  <1>1. worker[w].job \in Calls
    BY JobType
  <1>2. Complete(w, outcome, proof, delay, fan) /\ Go(w, pc)
        /\ UNCHANGED <<tried, incident, budget, switch, cards, crashes, history>>
    BY DEF Report
  <1>3. /\ row' \in [Calls -> Row] /\ receipt' \in [Calls -> Receipts]
        /\ \A c \in Calls : Calm(c)
        /\ \A c \in Calls : row'[c].status \in Waiting =>
              row[c].status \in Waiting \/ StateOf(c) \in Deliverable
    BY <1>1, <1>2, Completed
  <1>4. /\ worker' \in [Workers -> [pc : Stages, job : Calls \cup {NoCall}, attempt : Nat]]
        /\ \A v \in Workers : worker'[v].pc = "idle" <=> worker'[v].job = NoCall
    BY <1>2, GoType
  <1>5. TypeOK'
    BY <1>2, <1>3, <1>4 DEF TypeOK, switch, cards, history
  <1>6. WaitsInTime'
    BY <1>2, <1>3 DEF WaitsInTime, StateOf
  <1> QED
    BY <1>2, <1>3, <1>5, <1>6 DEF Calmly, history

-----------------------------------------------------------------------------
(* The steps of a thread *)

\* A thread that only goes on changes no row.
LEMMA GoesOn ==
    ASSUME TypeOK, WaitsInTime, NEW w \in Workers, NEW pc \in Stages,
           pc # "idle" => worker[w].pc # "idle", Go(w, pc),
           UNCHANGED <<table, incident, budget, switch, cards, since>>,
           crashes' \in Nat, dialled' \subseteq Calls
    PROVE  TypeOK' /\ WaitsInTime' /\ Calmly
  <1>1. /\ worker' \in [Workers -> [pc : Stages, job : Calls \cup {NoCall}, attempt : Nat]]
        /\ \A v \in Workers : worker'[v].pc = "idle" <=> worker'[v].job = NoCall
    BY GoType
  <1>2. TypeOK'
    BY <1>1 DEF TypeOK, table, switch, cards
  <1>3. WaitsInTime' /\ Calmly
    BY DEF WaitsInTime, StateOf, Calmly, Calm, table
  <1> QED
    BY <1>2, <1>3

\* Cancelling rows keeps the types, and what is proved about missed stages
\* where it spares them.
LEMMA Withdraws ==
    ASSUME TypeOK, NEW doomed,
           \A c \in doomed : row[c].status # "failed" \/ c \notin Chain,
           row' = Cancelled(row, doomed), receipt' = receipt
    PROVE  /\ row' \in [Calls -> Row] /\ \A c \in Calls : Calm(c)
           /\ \A c \in Calls : row'[c].status \in Waiting =>
                 c \notin doomed /\ row[c].status \in Waiting
  <1>1. row \in [Calls -> Row]
    BY DEF TypeOK
  <1>2. /\ row' \in [Calls -> Row]
        /\ \A c \in Calls : \/ c \notin doomed /\ row'[c] = row[c]
                            \/ c \in doomed /\ row'[c].status = "cancelled"
    BY <1>1, CancelledOnlyNamed
  <1> QED
    BY <1>2 DEF Calm, Waiting

\* The kill switch turns a claimed call away.
LEMMA CancelsDisabled ==
    ASSUME TypeOK, WaitsInTime, NEW w \in Workers, CancelDisabled(w)
    PROVE  TypeOK' /\ WaitsInTime' /\ Calmly
  <1> DEFINE c == worker[w].job
             doomed == IF c \in Chain /\ row[c].status \notin Held THEN {} ELSE {c}
  <1>1. row \in [Calls -> Row] /\ c \in Calls
    BY JobType DEF CancelDisabled, TypeOK
  <1>2. row' = Cancelled(row, doomed)
    <2>1. row = Cancelled(row, {})
      BY <1>1 DEF Cancelled
    <2> QED
      BY <2>1 DEF CancelDisabled
  <1>3. /\ receipt' = receipt /\ Go(w, "idle") /\ "idle" \in Stages
        /\ UNCHANGED <<tried, incident, budget, switch, cards, crashes, history>>
    BY DEF CancelDisabled, Stages
  <1>4. \A e \in doomed : row[e].status # "failed" \/ e \notin Chain
    OBVIOUS
  <1> HIDE DEF doomed
  <1>5. /\ row' \in [Calls -> Row] /\ \A e \in Calls : Calm(e)
        /\ \A e \in Calls : row'[e].status \in Waiting => row[e].status \in Waiting
    BY <1>2, <1>3, <1>4, Withdraws
  <1>6. /\ worker' \in [Workers -> [pc : Stages, job : Calls \cup {NoCall}, attempt : Nat]]
        /\ \A v \in Workers : worker'[v].pc = "idle" <=> worker'[v].job = NoCall
    BY <1>3, GoType
  <1>7. TypeOK'
    BY <1>3, <1>5, <1>6 DEF TypeOK, switch, cards, history
  <1>8. WaitsInTime' /\ Calmly
    BY <1>3, <1>5 DEF WaitsInTime, StateOf, Calmly, history
  <1> QED
    BY <1>7, <1>8

\* The reservation that licenses a call.
Licenses(w) ==
    LET c == worker[w].job
    IN  /\ worker[w].pc = "ready" /\ StillClaimed(w)
        /\ Continues(c) \/ Opens(c)
        /\ License(w, c)
        /\ UNCHANGED <<receipt, tried, incident, switch, cards, crashes, dialled>>

\* A reservation that licenses nothing cancels the claim or leaves it alone.
LEMMA Refuses ==
    ASSUME TypeOK, WaitsInTime, NEW w \in Workers, ReserveCall(w), ~Licenses(w)
    PROVE  TypeOK' /\ WaitsInTime' /\ Calmly
  <1> DEFINE c == worker[w].job
  <1>1. /\ receipt' = receipt /\ Go(w, "idle") /\ "idle" \in Stages
        /\ UNCHANGED <<tried, incident, budget, switch, cards, crashes, history>>
        /\ \/ row' = Cancelled(row, {c}) /\ row[c].status = "claimed"
           \/ row' = row
    BY DEF ReserveCall, Licenses, StillClaimed, Stages, history
  <1>2. /\ row' \in [Calls -> Row] /\ \A e \in Calls : Calm(e)
        /\ \A e \in Calls : row'[e].status \in Waiting => row[e].status \in Waiting
    <2>1. CASE row' = row
      BY <1>1, <2>1 DEF TypeOK, Calm
    <2>2. CASE row' = Cancelled(row, {c}) /\ row[c].status = "claimed"
      <3> DEFINE doomed == {c}
      <3>1. \A e \in doomed : row[e].status # "failed" \/ e \notin Chain
        BY <2>2
      <3>2. row' = Cancelled(row, doomed) /\ receipt' = receipt
        BY <1>1, <2>2
      <3> HIDE DEF doomed
      <3> QED
        BY <3>1, <3>2, Withdraws
    <2> QED
      BY <1>1, <2>1, <2>2
  <1>3. /\ worker' \in [Workers -> [pc : Stages, job : Calls \cup {NoCall}, attempt : Nat]]
        /\ \A v \in Workers : worker'[v].pc = "idle" <=> worker'[v].job = NoCall
    BY <1>1, GoType
  <1>4. TypeOK'
    BY <1>1, <1>2, <1>3 DEF TypeOK, switch, cards, history
  <1>5. WaitsInTime' /\ Calmly
    BY <1>1, <1>2 DEF WaitsInTime, StateOf, Calmly, history
  <1> QED
    BY <1>4, <1>5

\* Every step of a thread that licenses no call is calm.
LEMMA ThreadSteps ==
    ASSUME TypeOK, WaitsInTime, NEW w \in Workers, WorkerStep(w) \/ Crash(w), ~Licenses(w),
           ~CallIsAnswered(w)
    PROVE  TypeOK' /\ WaitsInTime' /\ Calmly
  <1>0. /\ {"sent", "failed", "cancelled", "retry", "uncertain"} = Outcomes
        /\ Stages = {"idle", "claimed", "disabled", "ready", "context", "calling",
                     "ringing", "heard", "answered"}
        /\ Receipts = {"none", "missed", "answered", "unknown"}
        /\ RetryDelay \in Nat /\ ContextDelay \in Nat /\ 0 \in Nat
        /\ TRUE \in BOOLEAN /\ FALSE \in BOOLEAN
        /\ crashes \in Nat /\ dialled \subseteq Calls
    BY CallTypes DEF Outcomes, Stages, Receipts, TypeOK
  <1>1. CASE ReadSwitch(w)
    <2>1. PICK pc \in {"ready", "disabled"} : Go(w, pc)
      BY <1>1 DEF ReadSwitch
    <2>2. /\ worker[w].pc # "idle" /\ pc \in Stages
          /\ UNCHANGED <<table, incident, budget, switch, cards, since>>
          /\ crashes' \in Nat /\ dialled' \subseteq Calls
      BY <1>0, <1>1 DEF ReadSwitch, history
    <2> QED
      BY <2>1, <2>2, GoesOn
  <1>2. CASE CancelDisabled(w)
    BY <1>2, CancelsDisabled
  <1>3. CASE QuietHours(w)
    BY <1>0, <1>3, Reported DEF QuietHours
  <1>4. CASE RaiseBeforeReserve(w)
    BY <1>0, <1>4, Reported DEF RaiseBeforeReserve
  <1>5. CASE ReserveCall(w)
    BY <1>5, Refuses
  <1>6. CASE ContextIsSent(w)
    BY <1>0, <1>6, GoesOn DEF ContextIsSent, history
  <1>7. CASE ContextIsMissing(w)
    BY <1>0, <1>7, Reported DEF ContextIsMissing
  <1>8. CASE Dial(w)
    <2>1. worker[w].job \in Calls
      BY <1>8, JobType DEF Dial
    <2> QED
      BY <1>0, <1>8, <2>1, GoesOn DEF Dial
  <1>9. CASE CallReturns(w)
    <2>1. PICK r \in ReportsOf(worker[w].job, worker[w].pc = "ringing") :
             Report(w, r[1], r[2], RetryDelay, TRUE, "idle")
      BY <1>9 DEF CallReturns
    <2>2. worker[w].job \in Calls /\ Kind[worker[w].job] \in Kinds /\ worker[w].pc # "idle"
      BY <1>9, JobType, CallAssumption DEF CallReturns
    <2>3. r[1] \in Outcomes /\ r[2] \in Receipts
      BY <1>0, <2>2 DEF ReportsOf, Kinds
    <2> QED
      BY <1>0, <2>1, <2>2, <2>3, Reported
  <1>10. CASE StageIsAnswered(w)
    BY <1>0, <1>10, Reported DEF StageIsAnswered
  <1>11. CASE AnswerIsRecorded(w)
    BY <1>0, <1>11, Reported DEF AnswerIsRecorded
  <1>12. CASE Crash(w)
    <2>1. crashes' \in Nat
      BY <1>0, <1>12 DEF Crash
    <2> QED
      BY <1>0, <1>12, <2>1, GoesOn DEF Crash, history
  <1> QED
    BY <1>1, <1>2, <1>3, <1>4, <1>5, <1>6, <1>7, <1>8, <1>9, <1>10, <1>11, <1>12 DEF WorkerStep

\* A licence touches the row, the account and the episode of its own call.
LEMMA Licence ==
    ASSUME TypeOK, WaitsInTime, NEW w \in Workers, Licenses(w)
    PROVE  LET c == worker[w].job
           IN  /\ TypeOK' /\ WaitsInTime'
               /\ c \in Calls /\ row[c].status = "claimed" /\ row'[c].status = "sending"
               /\ \A e \in Calls \ {c} : row'[e] = row[e]
               /\ receipt' = receipt
               /\ budget' = [budget EXCEPT ![Problem(c)] =
                     [left |-> IF Continues(c) THEN budget[Problem(c)].left ELSE Interval,
                      last |-> c]]
               /\ since' = [since EXCEPT ![c] =
                     IF Continues(c) THEN since[budget[Problem(c)].last] ELSE Interval]
  <1> DEFINE c == worker[w].job
  <1>1. c \in Calls /\ row \in [Calls -> Row] /\ row[c] \in Row /\ row[c].status = "claimed"
    BY JobType DEF Licenses, StillClaimed, TypeOK
  <1>2. WithStatus(row[c], "sending") \in Row /\ WithStatus(row[c], "sending").status = "sending"
    BY <1>1, WithStatusType
  <1>3. row' = [row EXCEPT ![c] = WithStatus(row[c], "sending")]
    BY DEF Licenses, License
  <1>4. /\ row' \in [Calls -> Row] /\ row'[c].status = "sending"
        /\ \A e \in Calls \ {c} : row'[e] = row[e]
    BY <1>1, <1>2, <1>3
  <1>5. /\ budget' = [budget EXCEPT ![Problem(c)] =
              [left |-> IF Continues(c) THEN budget[Problem(c)].left ELSE Interval, last |-> c]]
        /\ since' = [since EXCEPT ![c] =
              IF Continues(c) THEN since[budget[Problem(c)].last] ELSE Interval]
    BY DEF Licenses, License
  <1>6. budget' \in [Problems -> [left : Nat, last : Calls \cup {NoCall}]]
    <2>1. budget[Problem(c)].left \in Nat /\ Interval \in Nat
      BY <1>1, CallTypes DEF TypeOK
    <2> QED
      BY <1>1, <1>5, <2>1 DEF TypeOK
  <1>7. since' \in [Calls -> Nat]
    <2>1. Interval \in Nat /\ (Continues(c) => since[budget[Problem(c)].last] \in Nat)
      BY CallTypes DEF TypeOK, Continues, Predecessors
    <2> QED
      BY <1>1, <1>5, <2>1 DEF TypeOK
  <1>8. UNCHANGED <<receipt, tried, incident, switch, cards, crashes, dialled>>
    BY DEF Licenses
  <1>9. PICK pc \in {"context", "calling"} : Go(w, pc)
    BY DEF Licenses, License
  <1>10. /\ worker' \in [Workers -> [pc : Stages, job : Calls \cup {NoCall}, attempt : Nat]]
         /\ \A v \in Workers : worker'[v].pc = "idle" <=> worker'[v].job = NoCall
    <2>1. pc \in Stages /\ worker[w].pc # "idle"
      BY DEF Licenses, Stages
    <2> QED
      BY <1>9, <2>1, GoType
  <1>11. TypeOK'
    BY <1>4, <1>6, <1>7, <1>8, <1>10 DEF TypeOK, switch, cards
  <1>12. WaitsInTime'
    BY <1>1, <1>4, <1>8 DEF WaitsInTime, StateOf, Waiting
  <1> QED
    BY <1>1, <1>4, <1>5, <1>8, <1>11, <1>12

\* Closing an incident withdraws whatever waits for it.
LEMMA Closes ==
    ASSUME TypeOK, WaitsInTime, NEW i \in Incidents, NEW state \in IncidentStates,
           Close(i, state), receipt' = receipt
    PROVE  /\ row' \in [Calls -> Row] /\ WaitsInTime' /\ \A c \in Calls : Calm(c)
           /\ incident' \in [Incidents -> [state : IncidentStates, snooze : Nat]]
  <1> DEFINE doomed == {c \in Calls : IncidentOf[c] = i /\ Withdrawn(c)}
  <1>1. /\ incident' = [incident EXCEPT ![i] = [state |-> state, snooze |-> 0]]
        /\ row' = Cancelled(row, doomed)
    BY DEF Close
  <1>2. \A c \in doomed : row[c].status # "failed" \/ c \notin Chain
    BY DEF Withdrawn
  <1>3. \A c \in Calls : c \notin doomed /\ row[c].status \in Waiting => IncidentOf[c] # i
    BY DEF Withdrawn, Waiting
  <1> HIDE DEF doomed
  <1>4. /\ row' \in [Calls -> Row] /\ \A c \in Calls : Calm(c)
        /\ \A c \in Calls : row'[c].status \in Waiting =>
              c \notin doomed /\ row[c].status \in Waiting
    BY <1>1, <1>2, Withdraws
  <1>5. incident' \in [Incidents -> [state : IncidentStates, snooze : Nat]]
    BY <1>1 DEF TypeOK
  <1>6. \A c \in Calls : IncidentOf[c] # i => StateOf(c)' = StateOf(c)
    BY <1>1, CallTypes DEF StateOf, TypeOK
  <1>7. WaitsInTime'
    BY <1>3, <1>4, <1>6 DEF WaitsInTime
  <1> QED
    BY <1>4, <1>5, <1>7

\* An answered call acknowledges its incident.
LEMMA Answered ==
    ASSUME TypeOK, WaitsInTime, NEW w \in Workers, CallIsAnswered(w)
    PROVE  TypeOK' /\ WaitsInTime' /\ Calmly
  <1> DEFINE c == worker[w].job
  <1>1. /\ c \in Calls /\ IncidentOf[c] \in Incidents /\ worker[w].pc # "idle"
        /\ AcknowledgeIfActive(IncidentOf[c])
        /\ UNCHANGED <<receipt, tried, budget, switch, cards, crashes, history>>
    BY JobType, CallTypes DEF CallIsAnswered
  <1>2. /\ row' \in [Calls -> Row] /\ WaitsInTime' /\ \A e \in Calls : Calm(e)
        /\ incident' \in [Incidents -> [state : IncidentStates, snooze : Nat]]
    <2>1. CASE incident[IncidentOf[c]].state \in Deliverable
      <3>1. Close(IncidentOf[c], "acknowledged") /\ receipt' = receipt
            /\ "acknowledged" \in IncidentStates
        BY <1>1, <2>1 DEF AcknowledgeIfActive, IncidentStates
      <3> QED
        BY <1>1, <3>1, Closes
    <2>2. CASE incident[IncidentOf[c]].state \notin Deliverable
      <3>1. row' = row /\ incident' = incident /\ receipt' = receipt
        BY <1>1, <2>2 DEF AcknowledgeIfActive
      <3> QED
        BY <3>1 DEF TypeOK, WaitsInTime, StateOf, Calm
    <2> QED
      BY <2>1, <2>2
  <1>3. PICK pc \in {"idle", "heard"} : Go(w, pc)
    BY DEF CallIsAnswered
  <1>4. /\ worker' \in [Workers -> [pc : Stages, job : Calls \cup {NoCall}, attempt : Nat]]
        /\ \A v \in Workers : worker'[v].pc = "idle" <=> worker'[v].job = NoCall
    <2>1. pc \in Stages
      BY DEF Stages
    <2> QED
      BY <1>1, <1>3, <2>1, GoType
  <1>5. TypeOK'
    BY <1>1, <1>2, <1>4 DEF TypeOK, switch, cards, history
  <1> QED
    BY <1>1, <1>2, <1>5 DEF Calmly, history

-----------------------------------------------------------------------------
(* The other steps *)

\* A claim takes a call that waits anyway.
LEMMA Claims ==
    ASSUME TypeOK, WaitsInTime, NEW w \in Workers, NEW c \in Calls, ClaimCall(w, c)
    PROVE  TypeOK' /\ WaitsInTime' /\ Calmly
  <1>1. /\ row[c].status \in Waiting /\ StateOf(c) \in Deliverable
        /\ row' = [row EXCEPT ![c] = ClaimedRow(row[c], Lease)]
        /\ tried' = [tried EXCEPT ![c] = Interval]
        /\ worker' = [worker EXCEPT ![w] =
              [pc |-> "claimed", job |-> c, attempt |-> row[c].attempt + 1]]
        /\ UNCHANGED <<receipt, incident, budget, switch, cards, crashes, history>>
    BY DEF ClaimCall, Due, Waiting
  <1>2. row[c] \in Row /\ row \in [Calls -> Row] /\ Lease \in Nat /\ Interval \in Nat
    BY CallTypes DEF TypeOK
  <1>3. /\ ClaimedRow(row[c], Lease) \in Row
        /\ ClaimedRow(row[c], Lease).status = "claimed"
        /\ ClaimedRow(row[c], Lease).attempt = row[c].attempt + 1
    BY <1>2, ClaimedRowType
  <1>4. /\ row' \in [Calls -> Row] /\ row'[c].status = "claimed"
        /\ \A e \in Calls \ {c} : row'[e] = row[e]
    BY <1>1, <1>2, <1>3
  <1>5. tried' \in [Calls -> Nat]
    BY <1>1, <1>2 DEF TypeOK
  <1>6. /\ worker' \in [Workers -> [pc : Stages, job : Calls \cup {NoCall}, attempt : Nat]]
        /\ \A v \in Workers : worker'[v].pc = "idle" <=> worker'[v].job = NoCall
    <2>1. row[c].attempt + 1 \in Nat
      BY <1>2 DEF Row
    <2>2. [pc |-> "claimed", job |-> c, attempt |-> row[c].attempt + 1]
             \in [pc : Stages, job : Calls \cup {NoCall}, attempt : Nat]
      BY <2>1 DEF Stages
    <2> QED
      BY <1>1, <2>2, CallAssumption DEF TypeOK
  <1>7. TypeOK'
    BY <1>1, <1>4, <1>5, <1>6 DEF TypeOK, switch, cards, history
  <1>8. WaitsInTime'
    BY <1>1, <1>4 DEF WaitsInTime, StateOf
  <1>9. Calmly
    BY <1>1, <1>4 DEF Calmly, Calm, Waiting, history
  <1> QED
    BY <1>7, <1>8, <1>9

\* The calls that follow the first card are those the incident still wants.
LEMMA Escalations ==
    ASSUME TypeOK, WaitsInTime, NEW i \in Incidents,
           FirstCardIsSent(i) \/ ScheduleEscalation(i) \/ CrashOfSender(i)
    PROVE  TypeOK' /\ WaitsInTime' /\ Calmly
  <1>1. CASE row' = row /\ UNCHANGED <<receipt, tried, incident, budget, switch, worker, history>>
    <2>1. crashes' \in Nat /\ announced' \subseteq Incidents /\ announcing' \subseteq announced'
      <3>1. crashes \in Nat /\ announced \subseteq Incidents /\ announcing \subseteq announced
        BY DEF TypeOK
      <3>2. \/ /\ announced' = announced \cup {i} /\ announcing' = announcing \cup {i}
               /\ crashes' = crashes
            \/ /\ announced' = announced /\ announcing' \in {announcing, announcing \ {i}}
               /\ crashes' \in {crashes, crashes + 1}
        BY DEF FirstCardIsSent, ScheduleEscalation, CrashOfSender, cards
      <3> QED
        BY <3>1, <3>2
    <2> QED
      BY <1>1, <2>1 DEF TypeOK, WaitsInTime, StateOf, Calmly, Calm, switch, history
  <1>2. ASSUME NEW c \in Escalation[i], Escalates(c),
               row' = Scheduled(row, {c}, EscalationDelay, 0),
               UNCHANGED <<receipt, tried, incident, budget, switch, cards, worker,
                           crashes, history>>
        PROVE  TypeOK' /\ WaitsInTime' /\ Calmly
    <2> DEFINE new == {c}
    <2>1. row' = Scheduled(row, new, EscalationDelay, 0) /\ \A e \in new : StateOf(e) \in Deliverable
      BY <1>2 DEF Escalates
    <2>2. row \in [Calls -> Row] /\ EscalationDelay \in Nat /\ 0 \in Nat
      BY CallTypes DEF TypeOK
    <2> HIDE DEF new
    <2>3. /\ row' \in [Calls -> Row]
          /\ \A d \in Calls :
                \/ row'[d] = row[d]
                \/ /\ d \in new /\ row[d].status = "absent"
                   /\ row'[d].status = "queued"
      BY <2>1, <2>2, ScheduledOnlyInserts
    <2>4. TypeOK'
      BY <1>2, <2>3 DEF TypeOK, switch, cards, history
    <2>5. WaitsInTime'
      BY <1>2, <2>1, <2>3 DEF WaitsInTime, StateOf
    <2>6. Calmly
      BY <1>2, <2>3 DEF Calmly, Calm, history
    <2> QED
      BY <2>4, <2>5, <2>6
  <1>3. CASE FirstCardIsSent(i)
    BY <1>1, <1>3 DEF FirstCardIsSent, table
  <1>4. CASE CrashOfSender(i)
    BY <1>1, <1>4 DEF CrashOfSender, table
  <1>5. CASE ScheduleEscalation(i)
    <2>1. CASE row' = row
      BY <1>1, <1>5, <2>1 DEF ScheduleEscalation
    <2>2. CASE row' # row
      <3>1. PICK c \in Escalation[i] : /\ Escalates(c)
                                      /\ row' = Scheduled(row, {c}, EscalationDelay, 0)
                                      /\ UNCHANGED cards
        BY <1>5, <2>2 DEF ScheduleEscalation
      <3>2. UNCHANGED <<receipt, tried, incident, budget, switch, cards, worker, crashes, history>>
        BY <1>5, <3>1 DEF ScheduleEscalation
      <3> QED
        BY <1>2, <3>1, <3>2
    <2> QED
      BY <2>1, <2>2
  <1> QED
    BY <1>3, <1>4, <1>5

\* Owners withdraw what waits, or put the incident to sleep.
LEMMA OwnersAct ==
    ASSUME TypeOK, WaitsInTime, NEW i \in Incidents, OwnerActs(i)
    PROVE  TypeOK' /\ WaitsInTime' /\ Calmly
  <1>1. UNCHANGED <<receipt, tried, budget, switch, cards, worker, crashes, history>>
    BY DEF OwnerActs
  <1>2. /\ row' \in [Calls -> Row] /\ WaitsInTime' /\ \A e \in Calls : Calm(e)
        /\ incident' \in [Incidents -> [state : IncidentStates, snooze : Nat]]
    <2>1. CASE Acknowledge(i)
      <3>1. Close(i, "acknowledged") /\ "acknowledged" \in IncidentStates
        BY <2>1 DEF Acknowledge, AcknowledgeIfActive, IncidentStates
      <3> QED
        BY <1>1, <3>1, Closes
    <2>2. CASE Resolve(i)
      <3>1. Close(i, "resolved") /\ "resolved" \in IncidentStates
        BY <2>2 DEF Resolve, IncidentStates
      <3> QED
        BY <1>1, <3>1, Closes
    <2>3. CASE Snooze(i)
      <3>1. /\ incident' = [incident EXCEPT ![i] = [state |-> "snoozed", snooze |-> SnoozeFor]]
            /\ row' = row /\ SnoozeFor \in Nat
        BY <2>3, CallTypes DEF Snooze
      <3>2. \A c \in Calls : StateOf(c)' = StateOf(c) \/ StateOf(c)' = "snoozed"
        BY <3>1, CallTypes DEF StateOf, TypeOK
      <3>3. WaitsInTime'
        BY <3>1, <3>2 DEF WaitsInTime, Deliverable
      <3> QED
        BY <1>1, <3>1, <3>3 DEF TypeOK, Calm, IncidentStates
    <2> QED
      BY <2>1, <2>2, <2>3 DEF OwnerActs
  <1>3. TypeOK'
    BY <1>1, <1>2 DEF TypeOK, switch, cards, history
  <1> QED
    BY <1>1, <1>2, <1>3 DEF Calmly, history

\* Recalling the queued calls finishes none that was proved missed.
LEMMA Recalls ==
    ASSUME TypeOK, WaitsInTime, CancelQueuedCalls
    PROVE  TypeOK' /\ WaitsInTime' /\ Calmly
  <1>1. /\ row' = Cancelled(row, Recalled) /\ recalling' = FALSE
        /\ UNCHANGED <<receipt, tried, incident, budget, enabled, switches, cards,
                       worker, crashes, history>>
    BY DEF CancelQueuedCalls
  <1>2. \A c \in Recalled : row[c].status # "failed" \/ c \notin Chain
    BY DEF Recalled
  <1>3. /\ row' \in [Calls -> Row] /\ \A c \in Calls : Calm(c)
        /\ \A c \in Calls : row'[c].status \in Waiting => row[c].status \in Waiting
    BY <1>1, <1>2, Withdraws
  <1>4. TypeOK'
    BY <1>1, <1>3 DEF TypeOK, cards, history
  <1> QED
    BY <1>1, <1>3, <1>4 DEF WaitsInTime, StateOf, Calmly, history

\* The setting alone touches no row.
LEMMA Switches ==
    ASSUME TypeOK, WaitsInTime, SetAutomaticCalls
    PROVE  TypeOK' /\ WaitsInTime' /\ Calmly
  <1>1. enabled' \in BOOLEAN /\ recalling' \in BOOLEAN /\ switches' \in Nat
    BY DEF TypeOK, SetAutomaticCalls
  <1> QED
    BY <1>1 DEF TypeOK, SetAutomaticCalls, WaitsInTime, StateOf, Calmly, Calm, table, cards, history

\* Time changes no status, and no state of an incident.
LEMMA Ticks ==
    ASSUME TypeOK, WaitsInTime, Tick
    PROVE  /\ TypeOK' /\ WaitsInTime' /\ receipt' = receipt
           /\ \A c \in Calls : row'[c].status = row[c].status
           /\ budget' = [p \in Problems |-> [budget[p] EXCEPT !.left = Elapse(budget[p].left)]]
           /\ since' = [c \in Calls |-> Elapse(since[c])]
  <1>1. /\ row' = [c \in Calls |-> AgedRow(row[c])]
        /\ tried' = [c \in Calls |-> Elapse(tried[c])]
        /\ incident' = [i \in Incidents |-> [incident[i] EXCEPT !.snooze = Elapse(incident[i].snooze)]]
        /\ budget' = [p \in Problems |-> [budget[p] EXCEPT !.left = Elapse(budget[p].left)]]
        /\ since' = [c \in Calls |-> Elapse(since[c])]
        /\ UNCHANGED <<receipt, switch, cards, worker, crashes, dialled>>
    BY DEF Tick
  <1>2. row' \in [Calls -> Row] /\ \A c \in Calls : row'[c].status = row[c].status
    <2>1. \A c \in Calls : row[c] \in Row
      BY DEF TypeOK
    <2> QED
      BY <1>1, <2>1, AgedRowType
  <1>3. /\ tried' \in [Calls -> Nat] /\ since' \in [Calls -> Nat]
        /\ budget' \in [Problems -> [left : Nat, last : Calls \cup {NoCall}]]
        /\ incident' \in [Incidents -> [state : IncidentStates, snooze : Nat]]
        /\ \A i \in Incidents : incident'[i].state = incident[i].state
    BY <1>1, ElapseType DEF TypeOK
  <1>4. TypeOK'
    BY <1>1, <1>2, <1>3 DEF TypeOK, switch, cards
  <1>5. WaitsInTime'
    BY <1>2, <1>3, CallTypes DEF WaitsInTime, StateOf
  <1> QED
    BY <1>1, <1>2, <1>4, <1>5

\* Every step is calm, or licenses a call, or is a tick.
LEMMA Steps ==
    ASSUME TypeOK, WaitsInTime, [Next]_vars
    PROVE  /\ TypeOK' /\ WaitsInTime'
           /\ Calmly \/ Tick \/ \E w \in Workers : Licenses(w)
  <1>1. CASE UNCHANGED vars
    BY <1>1 DEF vars, TypeOK, WaitsInTime, StateOf, Calmly, Calm
  <1>2. ASSUME NEW w \in Workers, WorkerStep(w) \/ Crash(w)
        PROVE  /\ TypeOK' /\ WaitsInTime'
               /\ Calmly \/ Tick \/ \E v \in Workers : Licenses(v)
    <2>1. CASE Licenses(w)
      BY <2>1, Licence
    <2>2. CASE CallIsAnswered(w)
      BY <2>2, Answered
    <2>3. CASE ~Licenses(w) /\ ~CallIsAnswered(w)
      BY <1>2, <2>3, ThreadSteps
    <2> QED
      BY <2>1, <2>2, <2>3
  <1>3. ASSUME NEW w \in Workers, NEW c \in Calls, ClaimCall(w, c)
        PROVE  TypeOK' /\ WaitsInTime' /\ Calmly
    BY <1>3, Claims
  <1>4. ASSUME NEW i \in Incidents, FirstCardIsSent(i) \/ ScheduleEscalation(i) \/ CrashOfSender(i)
        PROVE  TypeOK' /\ WaitsInTime' /\ Calmly
    BY <1>4, Escalations
  <1>5. ASSUME NEW i \in Managed, OwnerActs(i)
        PROVE  TypeOK' /\ WaitsInTime' /\ Calmly
    BY <1>5, OwnersAct, CallAssumption
  <1>6. CASE SetAutomaticCalls
    BY <1>6, Switches
  <1>7. CASE CancelQueuedCalls
    BY <1>7, Recalls
  <1>8. CASE Tick
    BY <1>8, Ticks
  <1> QED
    BY <1>1, <1>2, <1>3, <1>4, <1>5, <1>6, <1>7, <1>8 DEF Next

-----------------------------------------------------------------------------
(* Episodes *)

\* A licence opens an episode only when none about the problem runs, and
\* otherwise continues the one whose stages so far were missed.
LEMMA LicensedInTurn ==
    ASSUME Inv, NEW w \in Workers, Licenses(w),
           NEW e \in Calls, Problem(e) = Problem(worker[w].job), since[e] > 0
    PROVE  LET c == worker[w].job
           IN  /\ e # c /\ {c, e} \subseteq Chain /\ IncidentOf[e] = IncidentOf[c]
               /\ ProvedMissed(e) /\ Continues(c)
  <1> DEFINE c == worker[w].job
             p == Problem(c)
  <1>1. /\ TypeOK /\ EpisodesAreCovered /\ worker[w].pc = "ready"
        /\ c \in Calls /\ p \in Problems /\ row[c].status = "claimed"
        /\ Continues(c) \/ Opens(c)
    BY JobType, CallTypes DEF Inv, Licenses, StillClaimed
  <1>2. /\ since[e] \in Nat /\ budget[p].left \in Nat /\ Interval \in Nat
        /\ since[e] <= budget[p].left /\ budget[p].left <= Interval
        /\ budget[p].last \in Calls
        /\ \/ budget[p].last = e
           \/ /\ {e, budget[p].last} \subseteq Chain
              /\ IncidentOf[budget[p].last] = IncidentOf[e] /\ ProvedMissed(e)
    BY <1>1, CallTypes DEF EpisodesAreCovered, TypeOK
  <1>3. budget[p].last # NoCall
    BY <1>2, CallAssumption
  <1>4. ~Opens(c)
    BY <1>2, <1>3 DEF Opens, Limited
  <1>5. PICK d \in Predecessors(c) : budget[p].last = d /\ ProvedMissed(d)
    BY <1>1, <1>4 DEF Continues
  <1>6. d \in Calls /\ c \in Successor[d]
    BY <1>5 DEF Predecessors
  <1>7. {c, d} \subseteq Chain /\ IncidentOf[c] = IncidentOf[d]
    BY <1>6, CallTypes
  <1>8. ProvedMissed(e) /\ e \in Chain /\ IncidentOf[e] = IncidentOf[c]
    BY <1>2, <1>5, <1>7
  <1>9. e # c
    BY <1>1, <1>8 DEF ProvedMissed
  <1> QED
    BY <1>1, <1>4, <1>7, <1>8, <1>9

\* Without a licence, episodes only run out.
LEMMA CalmEpisodes ==
    ASSUME Inv, TypeOK', \A c \in Calls : Calm(c), budget' = budget, since' = since
    PROVE  EpisodesAreCovered'
  <1>1. \A c \in Chain : ProvedMissed(c) => ProvedMissed(c)'
    BY CallAssumption DEF Calm, ProvedMissed
  <1> QED
    BY <1>1 DEF Inv, EpisodesAreCovered

\* So they do when time passes.
LEMMA TickEpisodes ==
    ASSUME Inv, Tick
    PROVE  EpisodesAreCovered'
  <1>1. /\ TypeOK /\ WaitsInTime /\ EpisodesAreCovered
    BY DEF Inv
  <1>2. /\ receipt' = receipt /\ \A c \in Calls : row'[c].status = row[c].status
        /\ budget' = [p \in Problems |-> [budget[p] EXCEPT !.left = Elapse(budget[p].left)]]
        /\ since' = [c \in Calls |-> Elapse(since[c])]
    BY <1>1, Ticks
  <1>3. \A p \in Problems : /\ budget[p].left \in Nat /\ budget'[p].left = Elapse(budget[p].left)
                            /\ budget'[p].last = budget[p].last
    BY <1>1, <1>2 DEF TypeOK
  <1>4. Interval \in Nat /\ \A c \in Calls : /\ since[c] \in Nat /\ since'[c] = Elapse(since[c])
                                            /\ Problem(c) \in Problems
    BY <1>1, <1>2, CallTypes DEF TypeOK
  <1>5. \A m, n \in Nat : m <= n => Elapse(m) <= Elapse(n) /\ Elapse(n) <= n
                                    /\ (Elapse(m) > 0 => m > 0)
    BY DEF Elapse
  <1>6. \A p \in Problems : budget'[p].left <= Interval
    <2>1. \A p \in Problems : budget[p].left <= Interval /\ Elapse(budget[p].left) <= budget[p].left
      BY <1>1, <1>3, <1>5 DEF EpisodesAreCovered
    <2> QED
      BY <1>3, <1>4, <2>1, ElapseType
  <1>7. ASSUME NEW e \in Calls, since'[e] > 0
        PROVE  LET last == budget'[Problem(e)].last
               IN  /\ since'[e] <= budget'[Problem(e)].left
                   /\ last \in Calls
                   /\ \/ last = e
                      \/ {e, last} \subseteq Chain /\ IncidentOf[last] = IncidentOf[e] /\ ProvedMissed(e)'
    <2>1. since[e] > 0 /\ Problem(e) \in Problems
      BY <1>4, <1>5, <1>7
    <2>2. /\ since[e] <= budget[Problem(e)].left
          /\ budget[Problem(e)].last \in Calls
          /\ \/ budget[Problem(e)].last = e
             \/ /\ {e, budget[Problem(e)].last} \subseteq Chain
                /\ IncidentOf[budget[Problem(e)].last] = IncidentOf[e] /\ ProvedMissed(e)
      BY <1>1, <2>1 DEF EpisodesAreCovered
    <2>3. since'[e] <= budget'[Problem(e)].left
      BY <1>3, <1>4, <1>5, <2>1, <2>2
    <2>4. ProvedMissed(e) => ProvedMissed(e)'
      BY <1>2 DEF ProvedMissed
    <2> QED
      BY <1>3, <2>1, <2>2, <2>3, <2>4
  <1> QED
    BY <1>6, <1>7 DEF EpisodesAreCovered, Problem

\* And a licence keeps them covered.
LEMMA LicenceEpisodes ==
    ASSUME Inv, NEW w \in Workers, Licenses(w)
    PROVE  EpisodesAreCovered'
  <1> DEFINE c == worker[w].job
             p == Problem(c)
  <1>1. TypeOK /\ WaitsInTime /\ EpisodesAreCovered
    BY DEF Inv
  <1>2. /\ c \in Calls /\ \A e \in Calls \ {c} : row'[e] = row[e]
        /\ receipt' = receipt
        /\ budget' = [budget EXCEPT ![p] =
              [left |-> IF Continues(c) THEN budget[p].left ELSE Interval, last |-> c]]
        /\ since' = [since EXCEPT ![c] =
              IF Continues(c) THEN since[budget[p].last] ELSE Interval]
    BY <1>1, Licence
  <1>3. /\ p \in Problems /\ Interval \in Nat /\ \A q \in Problems : budget[q].left \in Nat
        /\ \A e \in Calls : since[e] \in Nat /\ Problem(e) \in Problems
    BY <1>1, <1>2, CallTypes DEF TypeOK
  <1>4. /\ budget'[p].last = c /\ budget'[p].left = IF Continues(c) THEN budget[p].left ELSE Interval
        /\ \A q \in Problems \ {p} : budget'[q] = budget[q]
        /\ since'[c] = IF Continues(c) THEN since[budget[p].last] ELSE Interval
        /\ \A e \in Calls \ {c} : since'[e] = since[e]
    BY <1>1, <1>2, <1>3 DEF TypeOK
  <1>5. \A q \in Problems : budget'[q].left <= Interval
    BY <1>1, <1>3, <1>4 DEF EpisodesAreCovered
  <1>6. since'[c] > 0 => since'[c] <= budget'[p].left
    <2>1. CASE Continues(c)
      <3>1. PICK d \in Predecessors(c) : budget[p].last = d
        BY <2>1 DEF Continues
      <3>2. d \in Calls /\ Problem(d) = p
        BY <3>1, CallTypes DEF Predecessors
      <3> QED
        BY <1>1, <1>4, <2>1, <3>1, <3>2 DEF EpisodesAreCovered
    <2>2. CASE ~Continues(c)
      BY <1>3, <1>4, <2>2
    <2> QED
      BY <2>1, <2>2
  <1>7. ASSUME NEW e \in Calls, since'[e] > 0
        PROVE  LET last == budget'[Problem(e)].last
               IN  /\ since'[e] <= budget'[Problem(e)].left
                   /\ last \in Calls
                   /\ \/ last = e
                      \/ {e, last} \subseteq Chain /\ IncidentOf[last] = IncidentOf[e] /\ ProvedMissed(e)'
    <2>1. CASE e = c
      BY <1>2, <1>4, <1>6, <1>7, <2>1
    <2>2. CASE e # c
      <3>1. since[e] > 0 /\ since'[e] = since[e] /\ row'[e] = row[e]
        BY <1>2, <1>4, <1>7, <2>2
      <3>2. CASE Problem(e) = p
        <4>1. /\ {c, e} \subseteq Chain /\ IncidentOf[e] = IncidentOf[c]
              /\ ProvedMissed(e) /\ Continues(c)
          BY <3>1, <3>2, LicensedInTurn
        <4>2. ProvedMissed(e)'
          BY <1>2, <3>1, <4>1 DEF ProvedMissed
        <4>3. since[e] <= budget[p].left
          BY <1>1, <3>1, <3>2 DEF EpisodesAreCovered
        <4> QED
          BY <1>2, <1>4, <3>1, <3>2, <4>1, <4>2, <4>3
      <3>3. CASE Problem(e) # p
        <4>1. budget'[Problem(e)] = budget[Problem(e)]
          BY <1>3, <1>4, <3>3
        <4>2. ProvedMissed(e) => ProvedMissed(e)'
          BY <1>2, <3>1 DEF ProvedMissed
        <4> QED
          BY <1>1, <3>1, <4>1, <4>2 DEF EpisodesAreCovered
      <3> QED
        BY <3>2, <3>3
    <2> QED
      BY <2>1, <2>2
  <1> QED
    BY <1>5, <1>7 DEF EpisodesAreCovered, Problem

-----------------------------------------------------------------------------
(* Generations, and the operator's switch *)

\* The channels that set_automatic_calls takes back when it switches calls off.
Recallable(c) == Kind[c] \in {"matrix", "phone", "app"}

\* A thread at work holds a generation its row had or has.
GenerationsFollow ==
    /\ \A c \in Calls : row[c].status = "absent" => row[c].attempt = 0
    /\ \A w \in Workers : worker[w].pc # "idle" =>
          /\ 0 < worker[w].attempt
          /\ worker[w].attempt <= row[worker[w].job].attempt

\* Calls are off and the queued ones were taken back: whoever read the switch
\* before holds an outdated generation, or a channel nobody takes back.
NoneIsReady ==
    ~enabled /\ ~recalling =>
       \A w \in Workers :
          worker[w].pc = "ready" /\ Recallable(worker[w].job) => ~StillClaimed(w)

SwitchInv == GenerationsFollow /\ NoneIsReady

\* What a step other than a claim does to a thread: it rests, or goes on with
\* its generation, and gets ready only while the switch is on.
GoesAhead(w) ==
    \/ worker'[w].pc = "idle"
    \/ /\ worker[w].pc # "idle"
       /\ worker'[w].job = worker[w].job /\ worker'[w].attempt = worker[w].attempt
       /\ worker'[w].pc = "ready" => worker[w].pc = "ready" \/ enabled

\* One thread that moves leaves the others alone.
LEMMA OnlyOneGoes ==
    ASSUME TypeOK, NEW w \in Workers, NEW pc \in Stages, Go(w, pc),
           pc # "idle" => worker[w].pc # "idle", pc = "ready" => enabled
    PROVE  \A v \in Workers : GoesAhead(v) \/ worker'[v] = worker[v]
  <1>1. worker[w] \in [pc : Stages, job : Calls \cup {NoCall}, attempt : Nat]
    BY DEF TypeOK
  <1>2. \A v \in Workers : v # w => worker'[v] = worker[v]
    BY DEF Go, TypeOK
  <1>3. GoesAhead(w)
    <2>1. CASE pc = "idle"
      BY <2>1 DEF Go, TypeOK, Idle, GoesAhead
    <2>2. CASE pc # "idle"
      <3>1. worker'[w] = [worker[w] EXCEPT !.pc = pc]
        BY <2>2 DEF Go, TypeOK
      <3> QED
        BY <1>1, <2>2, <3>1 DEF GoesAhead
    <2> QED
      BY <2>1, <2>2
  <1> QED
    BY <1>2, <1>3

\* Every step of a thread is such a step.
LEMMA ThreadsGoAhead ==
    ASSUME TypeOK, NEW w \in Workers, WorkerStep(w) \/ Crash(w)
    PROVE  /\ enabled' = enabled /\ recalling' = recalling
           /\ \A v \in Workers : GoesAhead(v) \/ worker'[v] = worker[v]
  <1>1. PICK pc \in Stages : /\ Go(w, pc) /\ (pc = "ready" => enabled)
                             /\ pc # "idle" => worker[w].pc # "idle"
    <2>1. CASE CancelDisabled(w) \/ QuietHours(w) \/ RaiseBeforeReserve(w)
               \/ ContextIsMissing(w) \/ CallReturns(w) \/ AnswerIsRecorded(w) \/ Crash(w)
      BY <2>1 DEF CancelDisabled, QuietHours, RaiseBeforeReserve, ContextIsMissing,
             CallReturns, AnswerIsRecorded, Crash, Report, Stages
    <2>2. CASE ReadSwitch(w) \/ ContextIsSent(w) \/ Dial(w) \/ StageIsAnswered(w) \/ CallIsAnswered(w)
      BY <2>2 DEF ReadSwitch, ContextIsSent, Dial, StageIsAnswered, CallIsAnswered, Report, Stages
    <2>3. CASE ReserveCall(w)
      BY <2>3 DEF ReserveCall, License, Stages
    <2> QED
      BY <2>1, <2>2, <2>3 DEF WorkerStep
  <1>2. enabled' = enabled /\ recalling' = recalling
    BY DEF WorkerStep, ReadSwitch, CancelDisabled, QuietHours, RaiseBeforeReserve, ReserveCall,
           ContextIsSent, ContextIsMissing, Dial, CallReturns, StageIsAnswered,
           CallIsAnswered, AnswerIsRecorded, Crash, Report, switch
  <1> QED
    BY <1>1, <1>2, OnlyOneGoes

\* A cancelling statement begins no generation.
LEMMA CancellingKeeps ==
    ASSUME TypeOK, NEW doomed, row' = Cancelled(row, doomed)
    PROVE  \A c \in Calls : Kept(c)
  <1>1. row \in [Calls -> Row]
    BY DEF TypeOK
  <1> QED
    BY <1>1, CancelledOnlyNamed DEF Kept

\* Nor does closing an incident, or leaving it as it is.
LEMMA ClosingKeeps ==
    ASSUME TypeOK, NEW i, AcknowledgeIfActive(i) \/ Close(i, "resolved")
    PROVE  \A c \in Calls : Kept(c)
  <1> DEFINE doomed == {c \in Calls : IncidentOf[c] = i /\ Withdrawn(c)}
  <1>1. row' = row \/ row' = Cancelled(row, doomed)
    BY DEF AcknowledgeIfActive, Close
  <1> HIDE DEF doomed
  <1>2. CASE row' = row
    BY <1>2 DEF Kept
  <1> QED
    BY <1>1, <1>2, CancellingKeeps

\* Nor a report.
LEMMA ReportKeeps ==
    ASSUME TypeOK, NEW w \in Workers, worker[w].pc # "idle",
           NEW outcome \in Outcomes, NEW proof \in Receipts, NEW delay \in Nat,
           NEW fan \in BOOLEAN, NEW pc, Report(w, outcome, proof, delay, fan, pc)
    PROVE  \A c \in Calls : Kept(c)
  BY JobType, Completed DEF Report

\* Nor any other step of a thread.
LEMMA ThreadsKeep ==
    ASSUME TypeOK, NEW w \in Workers, WorkerStep(w) \/ Crash(w)
    PROVE  \A c \in Calls : Kept(c)
  <1>0. /\ {"sent", "failed", "cancelled", "retry", "uncertain"} = Outcomes
        /\ Receipts = {"none", "missed", "answered", "unknown"}
        /\ RetryDelay \in Nat /\ ContextDelay \in Nat /\ 0 \in Nat
        /\ TRUE \in BOOLEAN /\ FALSE \in BOOLEAN
    BY CallTypes DEF Outcomes, Receipts
  <1>1. CASE row' = row
    BY <1>1 DEF Kept
  <1>2. CASE CancelDisabled(w)
    <2>1. row' = row \/ row' = Cancelled(row, {worker[w].job})
      BY <1>2 DEF CancelDisabled
    <2> QED
      BY <1>1, <2>1, CancellingKeeps
  <1>3. CASE QuietHours(w)
    BY <1>0, <1>3, ReportKeeps DEF QuietHours
  <1>4. CASE RaiseBeforeReserve(w)
    BY <1>0, <1>4, ReportKeeps DEF RaiseBeforeReserve
  <1>5. CASE ReserveCall(w)
    <2> DEFINE c == worker[w].job
    <2>1. CASE row' = Cancelled(row, {c})
      BY <2>1, CancellingKeeps
    <2>2. CASE row' = [row EXCEPT ![c] = WithStatus(row[c], "sending")]
      <3>1. c \in Calls /\ row \in [Calls -> Row] /\ row[c] \in Row
        BY <1>5, JobType DEF ReserveCall, TypeOK
      <3>2. /\ WithStatus(row[c], "sending").status = "sending"
            /\ WithStatus(row[c], "sending").attempt = row[c].attempt
        BY <3>1, WithStatusType
      <3> QED
        BY <2>2, <3>1, <3>2 DEF Kept
    <2> QED
      BY <1>1, <1>5, <2>1, <2>2 DEF ReserveCall, License
  <1>6. CASE ContextIsMissing(w)
    BY <1>0, <1>6, ReportKeeps DEF ContextIsMissing
  <1>7. CASE CallReturns(w)
    <2>1. PICK r \in ReportsOf(worker[w].job, worker[w].pc = "ringing") :
             Report(w, r[1], r[2], RetryDelay, TRUE, "idle")
      BY <1>7 DEF CallReturns
    <2>2. worker[w].job \in Calls /\ Kind[worker[w].job] \in Kinds /\ worker[w].pc # "idle"
      BY <1>7, JobType, CallAssumption DEF CallReturns
    <2>3. r[1] \in Outcomes /\ r[2] \in Receipts
      BY <1>0, <2>2 DEF ReportsOf, Kinds
    <2> QED
      BY <1>0, <2>1, <2>2, <2>3, ReportKeeps
  <1>8. CASE StageIsAnswered(w)
    BY <1>0, <1>8, ReportKeeps DEF StageIsAnswered
  <1>9. CASE CallIsAnswered(w)
    BY <1>9, ClosingKeeps DEF CallIsAnswered
  <1>10. CASE AnswerIsRecorded(w)
    BY <1>0, <1>10, ReportKeeps DEF AnswerIsRecorded
  <1>11. CASE ReadSwitch(w) \/ ContextIsSent(w) \/ Dial(w) \/ Crash(w)
    BY <1>1, <1>11 DEF ReadSwitch, ContextIsSent, Dial, Crash, table
  <1> QED
    BY <1>2, <1>3, <1>4, <1>5, <1>6, <1>7, <1>8, <1>9, <1>10, <1>11 DEF WorkerStep

\* Nor what the sender of a card, an owner or an hour does.
LEMMA OthersKeep ==
    ASSUME TypeOK,
           \/ \E i \in Incidents : FirstCardIsSent(i) \/ ScheduleEscalation(i) \/ CrashOfSender(i)
           \/ \E i \in Managed : OwnerActs(i)
           \/ Tick
    PROVE  /\ \A c \in Calls : Kept(c)
           /\ UNCHANGED <<worker, enabled, recalling>>
  <1>1. row' = row => \A c \in Calls : Kept(c)
    BY DEF Kept
  <1>2. ASSUME NEW i \in Incidents, FirstCardIsSent(i) \/ ScheduleEscalation(i) \/ CrashOfSender(i)
        PROVE  \A c \in Calls : Kept(c)
    <2>1. CASE row' # row
      <3>1. \E c \in Escalation[i] : row' = Scheduled(row, {c}, EscalationDelay, 0)
        BY <1>2, <2>1 DEF FirstCardIsSent, ScheduleEscalation, CrashOfSender, table
      <3>4. PICK new : row' = Scheduled(row, new, EscalationDelay, 0)
        BY <3>1
      <3>2. row \in [Calls -> Row] /\ EscalationDelay \in Nat /\ 0 \in Nat
        BY CallTypes DEF TypeOK
      <3>3. \A c \in Calls :
               \/ Scheduled(row, new, EscalationDelay, 0)[c] = row[c]
               \/ /\ row[c].status = "absent"
                  /\ Scheduled(row, new, EscalationDelay, 0)[c].status = "queued"
                  /\ Scheduled(row, new, EscalationDelay, 0)[c].attempt = 0
        BY <3>2, ScheduledOnlyInserts, SMTT(30)
      <3> QED
        BY <3>3, <3>4 DEF Kept
    <2> QED
      BY <1>1, <2>1
  <1>3. ASSUME NEW i \in Managed, OwnerActs(i)
        PROVE  \A c \in Calls : Kept(c)
    <2>1. CASE Snooze(i)
      BY <1>1, <2>1 DEF Snooze
    <2> QED
      BY <1>3, <2>1, ClosingKeeps DEF OwnerActs, Acknowledge, Resolve
  <1>4. ASSUME Tick
        PROVE  \A c \in Calls : Kept(c)
    <2>1. \A c \in Calls : row[c] \in Row /\ row'[c] = AgedRow(row[c])
      BY <1>4 DEF Tick, TypeOK
    <2> QED
      BY <2>1, AgedRowType DEF Kept
  <1>5. UNCHANGED <<worker, enabled, recalling>>
    BY DEF FirstCardIsSent, ScheduleEscalation, CrashOfSender, OwnerActs, Tick, switch
  <1> QED
    BY <1>2, <1>3, <1>4, <1>5

\* Such steps keep the generations in order.
LEMMA KeepingFollows ==
    ASSUME TypeOK, TypeOK', GenerationsFollow, \A c \in Calls : Kept(c),
           \A w \in Workers : GoesAhead(w) \/ worker'[w] = worker[w]
    PROVE  GenerationsFollow'
  <1>1. \A c \in Calls : row'[c].attempt = row[c].attempt
    BY DEF Kept, GenerationsFollow
  <1>2. \A c \in Calls : row'[c].status = "absent" => row[c].status = "absent"
    BY DEF Kept
  <1>3. \A w \in Workers : worker'[w].pc # "idle" =>
           /\ worker[w].pc # "idle" /\ worker[w].job \in Calls
           /\ worker'[w].job = worker[w].job /\ worker'[w].attempt = worker[w].attempt
    BY JobType DEF GoesAhead
  <1> QED
    BY <1>1, <1>2, <1>3 DEF GenerationsFollow

\* And where the switch stays as it is, nobody becomes ready who should not.
LEMMA KeepingIsReady ==
    ASSUME TypeOK, SwitchInv, \A c \in Calls : Kept(c), enabled' = enabled, recalling' = recalling,
           \A w \in Workers : GoesAhead(w) \/ worker'[w] = worker[w]
    PROVE  NoneIsReady'
  <1> SUFFICES ASSUME ~enabled, ~recalling, NEW w \in Workers, worker'[w].pc = "ready",
                      Recallable(worker'[w].job), StillClaimed(w)'
               PROVE  FALSE
    BY DEF NoneIsReady, Recallable
  <1>1. /\ worker[w].pc = "ready" /\ worker'[w].job = worker[w].job
        /\ worker'[w].attempt = worker[w].attempt
    BY DEF GoesAhead
  <1>2. worker[w].job \in Calls
    BY <1>1, JobType
  <1>3. StillClaimed(w)
    BY <1>1, <1>2 DEF StillClaimed, Kept
  <1> QED
    BY <1>1, <1>3 DEF SwitchInv, NoneIsReady

\* A claim begins the next generation, which outdates every other thread's.
LEMMA ClaimOutdates ==
    ASSUME TypeOK, SwitchInv, NEW w \in Workers, NEW c \in Calls, ClaimCall(w, c)
    PROVE  SwitchInv'
  <1>1. /\ worker[w] = Idle /\ row[c].status \in Waiting
        /\ row' = [row EXCEPT ![c] = ClaimedRow(row[c], Lease)]
        /\ worker' = [worker EXCEPT ![w] =
              [pc |-> "claimed", job |-> c, attempt |-> row[c].attempt + 1]]
        /\ enabled' = enabled /\ recalling' = recalling
    BY DEF ClaimCall, Due, Waiting, switch
  <1>2. /\ row \in [Calls -> Row] /\ Lease \in Nat /\ row[c].attempt \in Nat
        /\ \A v \in Workers : worker[v].attempt \in Nat
        /\ \A e \in Calls : row[e].attempt \in Nat
    BY CallTypes DEF TypeOK, Row
  <1>3. /\ row'[c].status = "claimed" /\ row'[c].attempt = row[c].attempt + 1
        /\ \A e \in Calls : e # c => row'[e] = row[e]
    BY <1>1, <1>2, ClaimedRowType
  <1>4. /\ worker'[w] = [pc |-> "claimed", job |-> c, attempt |-> row[c].attempt + 1]
        /\ \A v \in Workers : v # w => worker'[v] = worker[v]
    BY <1>1 DEF TypeOK
  <1>5. \A v \in Workers : worker[v].pc # "idle" =>
           /\ worker[v].job \in Calls /\ 0 < worker[v].attempt
           /\ worker[v].attempt <= row[worker[v].job].attempt
    BY JobType DEF SwitchInv, GenerationsFollow
  <1>6. GenerationsFollow'
    <2>1. \A e \in Calls : row'[e].status = "absent" => row'[e].attempt = 0
      BY <1>3 DEF SwitchInv, GenerationsFollow
    <2>2. ASSUME NEW v \in Workers, worker'[v].pc # "idle"
          PROVE  0 < worker'[v].attempt /\ worker'[v].attempt <= row'[worker'[v].job].attempt
      <3>1. CASE v = w
        BY <1>2, <1>3, <1>4, <3>1
      <3>2. CASE v # w
        BY <1>2, <1>3, <1>4, <1>5, <2>2, <3>2
      <3> QED
        BY <3>1, <3>2
    <2> QED
      BY <2>1, <2>2 DEF GenerationsFollow
  <1>7. NoneIsReady'
    <2> SUFFICES ASSUME ~enabled, ~recalling, NEW v \in Workers, worker'[v].pc = "ready",
                        Recallable(worker'[v].job), StillClaimed(v)'
                 PROVE  FALSE
      BY <1>1 DEF NoneIsReady, Recallable
    <2>1. v # w /\ worker'[v] = worker[v]
      BY <1>4
    <2>2. worker[v].pc = "ready" /\ Recallable(worker[v].job)
      BY <2>1
    <2>3. ~StillClaimed(v)
      BY <2>2 DEF SwitchInv, NoneIsReady
    <2>4. /\ row'[worker[v].job].status = "claimed"
          /\ row'[worker[v].job].attempt = worker[v].attempt
      BY <2>1 DEF StillClaimed
    <2>5. CASE worker[v].job = c
      BY <1>2, <1>3, <1>5, <2>2, <2>4, <2>5
    <2>6. CASE worker[v].job # c
      BY <1>3, <1>5, <2>2, <2>3, <2>4, <2>6 DEF StillClaimed
    <2> QED
      BY <2>5, <2>6
  <1> QED
    BY <1>6, <1>7 DEF SwitchInv

\* Every step keeps the generations in order, and the switch effective.
LEMMA SwitchSteps ==
    ASSUME TypeOK, TypeOK', SwitchInv, [Next]_vars
    PROVE  SwitchInv'
  <1>1. CASE UNCHANGED vars
    BY <1>1 DEF vars, SwitchInv, GenerationsFollow, NoneIsReady, StillClaimed, Recallable
  <1>2. ASSUME NEW w \in Workers, WorkerStep(w) \/ Crash(w)
        PROVE  SwitchInv'
    BY <1>2, ThreadsKeep, ThreadsGoAhead, KeepingFollows, KeepingIsReady DEF SwitchInv
  <1>3. ASSUME NEW w \in Workers, NEW c \in Calls, ClaimCall(w, c)
        PROVE  SwitchInv'
    BY <1>3, ClaimOutdates
  <1>4. ASSUME \/ \E i \in Incidents : FirstCardIsSent(i) \/ ScheduleEscalation(i) \/ CrashOfSender(i)
               \/ \E i \in Managed : OwnerActs(i)
               \/ Tick
        PROVE  SwitchInv'
    <2>1. /\ \A c \in Calls : Kept(c)
          /\ UNCHANGED <<worker, enabled, recalling>>
      BY <1>4, OthersKeep
    <2> QED
      BY <2>1, KeepingFollows, KeepingIsReady DEF SwitchInv
  <1>5. CASE SetAutomaticCalls
    <2>1. ~enabled' /\ ~recalling' => FALSE
      BY <1>5 DEF SetAutomaticCalls, TypeOK
    <2>2. row' = row /\ worker' = worker
      BY <1>5 DEF SetAutomaticCalls, table
    <2> QED
      BY <2>1, <2>2 DEF SwitchInv, GenerationsFollow, NoneIsReady
  <1>6. CASE CancelQueuedCalls
    <2>1. row' = Cancelled(row, Recalled) /\ worker' = worker
      BY <1>6 DEF CancelQueuedCalls
    <2>2. GenerationsFollow'
      BY <2>1, CancellingKeeps, KeepingFollows DEF SwitchInv
    <2>3. \A w \in Workers :
             worker'[w].pc = "ready" /\ Recallable(worker'[w].job) => ~StillClaimed(w)'
      <3> SUFFICES ASSUME NEW w \in Workers, worker[w].pc = "ready", Recallable(worker[w].job),
                          row'[worker[w].job].status = "claimed"
                   PROVE  FALSE
        BY <2>1 DEF StillClaimed
      <3>1. worker[w].job \in Calls /\ row \in [Calls -> Row]
        BY JobType DEF TypeOK
      <3>2. row[worker[w].job].status = "claimed" /\ worker[w].job \notin Recalled
        BY <2>1, <3>1, CancelledOnlyNamed
      <3> QED
        BY <3>1, <3>2 DEF Recalled, Recallable
    <2> QED
      BY <2>2, <2>3 DEF SwitchInv, NoneIsReady, Recallable
  <1> QED
    BY <1>1, <1>2, <1>3, <1>4, <1>5, <1>6 DEF Next

-----------------------------------------------------------------------------
(* The theorems *)

\* Every reachable state is well typed, lets no call wait for a closed
\* incident, and covers each running episode by the interval of its problem:
\* what claim_due_deliveries, complete_delivery, _reserve_problem_call and the
\* owners keep between them.
THEOREM EpisodesInTurn == Spec => []Inv
  <1>1. Init => Inv
    <2> SUFFICES ASSUME Init PROVE Inv
      OBVIOUS
    <2>1. TypeOK
      BY DEF Init, TypeOK, Row, AbsentRow, Receipts, IncidentStates, Idle, Stages
    <2>2. WaitsInTime
      BY DEF Init, WaitsInTime, AbsentRow, Waiting
    <2>3. EpisodesAreCovered
      BY CallTypes DEF Init, EpisodesAreCovered
    <2> QED
      BY <2>1, <2>2, <2>3 DEF Inv
  <1>2. Inv /\ [Next]_vars => Inv'
    <2> SUFFICES ASSUME Inv, [Next]_vars PROVE Inv'
      OBVIOUS
    <2>1. /\ TypeOK' /\ WaitsInTime'
          /\ Calmly \/ Tick \/ \E w \in Workers : Licenses(w)
      BY Steps DEF Inv
    <2>2. CASE Calmly
      BY <2>1, <2>2, CalmEpisodes DEF Inv, Calmly
    <2>3. CASE Tick
      BY <2>1, <2>3, TickEpisodes DEF Inv
    <2>4. CASE \E w \in Workers : Licenses(w)
      BY <2>1, <2>4, LicenceEpisodes DEF Inv
    <2> QED
      BY <2>1, <2>2, <2>3, <2>4
  <1> QED
    BY <1>1, <1>2, PTL DEF Spec

\* The type invariant, for every instance.
THEOREM TypeCorrect == Spec => []TypeOK
  <1>1. Inv => TypeOK
    BY DEF Inv
  <1> QED
    BY <1>1, EpisodesInTurn, PTL

\* A step that places a call is a reservation of that call.
LEMMA OnlyReservationsLicense ==
    ASSUME Inv, [Next]_vars, NEW c \in Calls, Licensed(c)
    PROVE  \E w \in Workers : Licenses(w) /\ worker[w].job = c
  <1>1. TypeOK /\ WaitsInTime
    BY DEF Inv
  <1>2. ~Calmly
    BY DEF Calmly, Calm, Licensed
  <1>3. ~Tick
    BY <1>1, Ticks DEF Licensed
  <1>4. PICK w \in Workers : Licenses(w)
    BY <1>1, <1>2, <1>3, Steps
  <1>5. \A e \in Calls : e # worker[w].job => row'[e] = row[e]
    BY <1>1, <1>4, Licence
  <1> QED
    BY <1>4, <1>5 DEF Licensed

\* One episode of calls per problem and interval, whichever incidents, chains,
\* ladders, retries, crashes and threads compete: _reserve_problem_call.
THEOREM OneEpisodeAtATime == Spec => OneEpisodePerInterval
  <1>1. Inv /\ [Next]_vars =>
           [\A c \in Calls : Licensed(c) =>
              \A e \in Calls :
                 Problem(e) = Problem(c) /\ since[e] > 0
                    => e # c /\ {c, e} \subseteq Chain /\ IncidentOf[e] = IncidentOf[c]
                       /\ ProvedMissed(e)]_vars
    <2> SUFFICES ASSUME Inv, [Next]_vars, NEW c \in Calls, Licensed(c),
                        NEW e \in Calls, Problem(e) = Problem(c), since[e] > 0
                 PROVE  e # c /\ {c, e} \subseteq Chain /\ IncidentOf[e] = IncidentOf[c]
                        /\ ProvedMissed(e)
      OBVIOUS
    <2>1. PICK w \in Workers : Licenses(w) /\ worker[w].job = c
      BY OnlyReservationsLicense
    <2> QED
      BY <2>1, LicensedInTurn
  <1> QED
    BY <1>1, EpisodesInTurn, PTL DEF Spec, OneEpisodePerInterval

\* No call is placed about an incident that was acknowledged or resolved: a
\* reservation needs the claim, and closing the incident withdrew it.
THEOREM ClosedIsNotCalled == Spec => NoCallOnceClosed
  <1>1. Inv /\ [Next]_vars =>
           [\A c \in Calls : Licensed(c) => StateOf(c) \in Deliverable]_vars
    BY DEF Inv, WaitsInTime, Waiting, Licensed
  <1> QED
    BY <1>1, EpisodesInTurn, PTL DEF Spec, NoCallOnceClosed
\* Every reachable state has its generations in order, and once calls are
\* switched off and taken back no thread is ready to place one of a channel
\* the operator's page knows: what set_automatic_calls relies on.
THEOREM SwitchIsEffective == Spec => [](Inv /\ SwitchInv)
  <1>1. Init => SwitchInv
    BY DEF Init, SwitchInv, GenerationsFollow, NoneIsReady, AbsentRow, Idle
  <1>2. Inv /\ Inv' /\ SwitchInv /\ [Next]_vars => SwitchInv'
    BY SwitchSteps DEF Inv
  <1> QED
    BY <1>1, <1>2, EpisodesInTurn, PTL DEF Spec

\* Once the operator switched calls off and the queued ones were taken back, no
\* Matrix, phone or app call is placed, whoever claimed it or read the switch
\* before: set_automatic_calls, DeliveryWorker.deliver, reserve_delivery_send.
THEOREM RecalledIsNotPlaced ==
    Spec => [][\A c \in Calls : Licensed(c) /\ Recallable(c) => enabled \/ recalling]_vars
  <1>1. Inv /\ SwitchInv /\ [Next]_vars =>
           [\A c \in Calls : Licensed(c) /\ Recallable(c) => enabled \/ recalling]_vars
    <2> SUFFICES ASSUME Inv, SwitchInv, [Next]_vars, NEW c \in Calls, Licensed(c), Recallable(c)
                 PROVE  enabled \/ recalling
      OBVIOUS
    <2>1. PICK w \in Workers : Licenses(w) /\ worker[w].job = c
      BY OnlyReservationsLicense
    <2> QED
      BY <2>1 DEF Licenses, SwitchInv, NoneIsReady
  <1> QED
    BY <1>1, SwitchIsEffective, PTL DEF Spec

\* So the switch holds for every call of a deployment that places no other
\* kind; a Telegram call or the method of a policy is not taken back, and the
\* run CallsRecalled shows one that is placed all the same.
THEOREM DisabledIsNotCalled ==
    ASSUME \A c \in Calls : Recallable(c)
    PROVE  Spec => NoCallOnceDisabled
  <1>1. [\A c \in Calls : Licensed(c) /\ Recallable(c) => enabled \/ recalling]_vars =>
           [\A c \in Calls : Licensed(c) => enabled \/ recalling]_vars
    OBVIOUS
  <1> QED
    BY <1>1, RecalledIsNotPlaced, PTL DEF NoCallOnceDisabled
=============================================================================
