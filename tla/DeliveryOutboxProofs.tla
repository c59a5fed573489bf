------------------------ MODULE DeliveryOutboxProofs ------------------------
(***************************************************************************)
(* Machine-checked theorems about DeliveryOutbox, for any number of        *)
(* deliveries, incidents, processes and worker threads and for all values  *)
(* of the timing constants.                                                *)
(***************************************************************************)
EXTENDS DeliveryOutbox, OutboxRowLemmas

USE DEF Statuses, Held, Finished

Outcomes == {"sent", "failed", "cancelled", "retry", "uncertain", "superseded"}

Rows == [Deliveries -> Row]

-----------------------------------------------------------------------------
(* What the updates of this module do to rows *)

\* _schedule_delivery, for the rows of the outbox.
LEMMA ScheduledRows ==
    ASSUME NEW rows \in Rows, NEW new, NEW due \in Nat, NEW fresh \in Nat
    PROVE  /\ Scheduled(rows, new, due, fresh) \in Rows
           /\ \A d \in Deliveries :
                 \/ Scheduled(rows, new, due, fresh)[d] = rows[d]
                 \/ /\ d \in new /\ rows[d].status = "absent"
                    /\ Scheduled(rows, new, due, fresh)[d].status = "queued"
                    /\ Scheduled(rows, new, due, fresh)[d].attempt = 0
  <1>1. Rows = [Deliveries -> Row]
    BY DEF Rows
  <1> HIDE DEF Rows
  <1> QED
    BY <1>1, ScheduledOnlyInserts

\* The cancelling UPDATE, for the rows of the outbox.
LEMMA CancelledRows ==
    ASSUME NEW rows \in Rows, NEW doomed
    PROVE  /\ Cancelled(rows, doomed) \in Rows
           /\ \A d \in Deliveries :
                 \/ d \notin doomed /\ Cancelled(rows, doomed)[d] = rows[d]
                 \/ /\ d \in doomed /\ Cancelled(rows, doomed)[d].status = "cancelled"
                    /\ Cancelled(rows, doomed)[d].attempt = rows[d].attempt
  <1>1. Rows = [Deliveries -> Row]
    BY DEF Rows
  <1> HIDE DEF Rows
  <1> QED
    BY <1>1, CancelledOnlyNamed

\* The outcome that is recorded is one of those that may be reported.
LEMMA EffectiveOutcome ==
    ASSUME NEW d, NEW outcome \in Outcomes
    PROVE  Effective(d, outcome) \in Outcomes
  BY DEF Effective, Outcomes

\* The row of a delivery is settled, no other is touched.
LEMMA SettledRows ==
    ASSUME row \in Rows, NEW d \in Deliveries, NEW effective \in Outcomes, NEW delay \in Nat
    PROVE  /\ Settled(d, effective, delay) \in Rows
           /\ \A e \in Deliveries \ {d} : Settled(d, effective, delay)[e] = row[e]
           /\ Settled(d, effective, delay)[d].attempt = row[d].attempt
           /\ Settled(d, effective, delay)[d].status =
                 IF effective = "retry" THEN "queued" ELSE effective
  <1> DEFINE r == IF effective = "retry" THEN RequeuedRow(row[d], delay)
                                         ELSE WithStatus(row[d], effective)
  <1>1. row[d] \in Row
    BY DEF Rows
  <1>2. /\ r \in Row /\ r.attempt = row[d].attempt
        /\ r.status = IF effective = "retry" THEN "queued" ELSE effective
    <2>1. CASE effective = "retry"
      BY <1>1, <2>1, RequeuedRowType
    <2>2. CASE effective # "retry"
      <3>1. effective \in Statuses
        BY <2>2 DEF Outcomes
      <3> QED
        BY <1>1, <2>2, <3>1, WithStatusType
    <2> QED
      BY <2>1, <2>2
  <1>3. Settled(d, effective, delay) = [row EXCEPT ![d] = r]
    BY DEF Settled
  <1> HIDE DEF r
  <1> QED
    BY <1>2, <1>3 DEF Rows

-----------------------------------------------------------------------------
(* What a report of a worker does to each row *)

\* A row that a fan-out, a next step, a repeat or a refresh inserts: its
\* incident still wants it, or the row is a notice.
Inserted(d) ==
    /\ row[d].status = "absent"
    /\ row'[d].status = "queued" /\ row'[d].attempt = 0
    /\ IsNotice(d) \/ StateOf(d) \in Deliverable

\* The row of the job is settled as the effective outcome says.
SettledAs(w, d, outcome) ==
    /\ d = worker[w].job /\ Holds(w)
    /\ row'[d].attempt = row[d].attempt
    /\ row'[d].status = IF Effective(d, outcome) = "retry" THEN "queued"
                        ELSE Effective(d, outcome)

\* complete_delivery settles the row of a held generation, inserts rows its
\* incident still wants, counts a retry after a send, and does nothing else.
LEMMA Completed ==
    ASSUME TypeOK, NEW w \in Workers, worker[w].job \in Deliveries,
           NEW outcome \in Outcomes, NEW delay \in Nat, NEW fan \in BOOLEAN, NEW receipt,
           CompleteDelivery(w, outcome, delay, fan, receipt)
    PROVE  /\ row' \in Rows
           /\ \A d \in Deliveries :
                 \/ row'[d] = row[d] /\ ~(d = worker[w].job /\ Holds(w))
                 \/ Inserted(d)
                 \/ SettledAs(w, d, outcome)
           /\ card' \subseteq Incidents /\ pause' \in [Incidents -> Nat]
           /\ removals' \in [Incidents -> Nat] /\ reported' \in [Deliveries -> Nat]
           /\ \A d \in Deliveries :
                 reported'[d] = IF /\ d = worker[w].job /\ Holds(w)
                                   /\ Effective(d, outcome) = "retry" /\ row[d].status = "sending"
                                THEN reported[d] + 1 ELSE reported[d]
  <1> DEFINE d == worker[w].job
             effective == Effective(d, outcome)
             settled == Settled(d, effective, delay)
             fans == IF fan THEN FanOut(d, effective) ELSE {}
             fanned == Scheduled(settled, fans, 0, StaleAfter)
             stepped == Scheduled(fanned, NextStep(d, effective), StepDelay, StaleAfter)
             confirmed == effective = "sent" /\ IsTelegram(d) /\ receipt = "message"
             refresh == confirmed /\ ~IsNotice(d) /\ StateOf(d) \in {"acknowledged", "resolved"}
  <1>1. CASE ~Holds(w)
    BY <1>1 DEF CompleteDelivery, TypeOK, Rows
  <1>2. CASE Holds(w)
    <2>0. /\ StaleAfter \in Nat /\ StepDelay \in Nat /\ EditPause \in Nat
          /\ IncidentOf \in [Deliveries -> Incidents] /\ Owner \in [Incidents -> Incidents]
      BY OutboxAssumption
    <2>1. PICK new \in IF refresh THEN RefreshChoices(stepped, IncidentOf[d]) ELSE {{}} :
             row' = Scheduled(stepped, new, EditPause, StaleAfter)
      BY <1>2 DEF CompleteDelivery
    <2>2. row \in Rows /\ effective \in Outcomes
      BY EffectiveOutcome DEF TypeOK, Rows
    <2>3. /\ settled \in Rows /\ \A e \in Deliveries \ {d} : settled[e] = row[e]
          /\ settled[d].attempt = row[d].attempt
          /\ settled[d].status = IF effective = "retry" THEN "queued" ELSE effective
      BY <2>2, SettledRows
    <2>4. /\ fanned \in Rows
          /\ \A e \in Deliveries :
                \/ fanned[e] = settled[e]
                \/ /\ e \in FanOut(d, effective) /\ settled[e].status = "absent"
                   /\ fanned[e].status = "queued" /\ fanned[e].attempt = 0
      <3>1. 0 \in Nat /\ \A e \in fans : e \in FanOut(d, effective)
        OBVIOUS
      <3> HIDE DEF fans, settled
      <3> QED
        BY <2>0, <2>3, <3>1, ScheduledRows
    <2>5. /\ stepped \in Rows
          /\ \A e \in Deliveries :
                \/ stepped[e] = fanned[e]
                \/ /\ e \in NextStep(d, effective) /\ fanned[e].status = "absent"
                   /\ stepped[e].status = "queued" /\ stepped[e].attempt = 0
      BY <2>0, <2>4, ScheduledRows
    <2>6. /\ row' \in Rows
          /\ \A e \in Deliveries :
                \/ row'[e] = stepped[e]
                \/ /\ e \in new /\ stepped[e].status = "absent"
                   /\ row'[e].status = "queued" /\ row'[e].attempt = 0
      BY <2>0, <2>1, <2>5, ScheduledRows
    <2>7. \A e \in FanOut(d, effective) \cup NextStep(d, effective) :
             StateOf(e) \in Deliverable
      BY OutboxAssumption DEF FanOut, NextStep, StateOf
    <2>8. \A e \in new : IsNotice(e)
      BY DEF RefreshChoices, OneUnused, Refreshes, IsNotice, NoticeKinds
    <2>9. \A e \in Deliveries : \/ row'[e] = row[e] /\ ~(e = d /\ Holds(w))
                                \/ Inserted(e)
                                \/ SettledAs(w, e, outcome)
      <3> SUFFICES ASSUME NEW e \in Deliveries
                   PROVE  \/ row'[e] = row[e] /\ ~(e = d /\ Holds(w))
                          \/ Inserted(e)
                          \/ SettledAs(w, e, outcome)
        OBVIOUS
      <3> HIDE DEF d, effective, settled, fanned, stepped
      <3>1. CASE e = d
        <4>1. settled[d].status # "absent"
          BY <2>2, <2>3 DEF Outcomes
        <4>2. row'[d] = settled[d]
          BY <3>1, <4>1, <2>4, <2>5, <2>6
        <4> QED
          BY <1>2, <2>3, <3>1, <4>2 DEF SettledAs, d, effective
      <3>2. CASE e # d
        <4>1. settled[e] = row[e]
          BY <2>3, <3>2
        <4> QED
          BY <3>2, <2>4, <2>5, <2>6, <2>7, <2>8, <4>1 DEF Inserted
      <3> QED
        BY <3>1, <3>2
    <2>10. OwnerOf(d) \in Incidents
      BY <2>0 DEF OwnerOf
    <2>11. card' \subseteq Incidents
      BY <1>2, <2>10 DEF CompleteDelivery, TypeOK
    <2>12. pause' \in [Incidents -> Nat]
      BY <1>2, <2>0 DEF CompleteDelivery, TypeOK
    <2>13. removals' \in [Incidents -> Nat]
      BY <1>2, <2>10 DEF CompleteDelivery, TypeOK
    <2>14. reported' = IF effective = "retry" /\ row[d].status = "sending"
                       THEN [reported EXCEPT ![d] = @ + 1] ELSE reported
      BY <1>2 DEF CompleteDelivery
    <2>15. reported \in [Deliveries -> Nat]
      BY DEF TypeOK
    <2>16. /\ reported' \in [Deliveries -> Nat]
           /\ \A e \in Deliveries :
                 reported'[e] = IF e = d /\ effective = "retry" /\ row[d].status = "sending"
                                THEN reported[e] + 1 ELSE reported[e]
      <3> HIDE DEF effective, d
      <3>1. d \in Deliveries
        BY DEF d
      <3> QED
        BY <2>14, <2>15, <3>1
    <2> QED
      BY <1>2, <2>6, <2>9, <2>11, <2>12, <2>13, <2>16
  <1> QED
    BY <1>1, <1>2

-----------------------------------------------------------------------------
(* Type correctness *)

\* A thread at work has a job.
LEMMA Working ==
    ASSUME TypeOK, NEW w \in Workers, worker[w].pc # "idle"
    PROVE  worker[w] \in Thread /\ worker[w].job \in Deliveries
  BY DEF TypeOK, Thread

\* The thread goes on at another stage with the same job.
LEMMA MovedThread ==
    ASSUME TypeOK, NEW w \in Workers, worker[w].pc # "idle", NEW pc \in Stages \ {"idle"},
           worker' = [worker EXCEPT ![w] = [@ EXCEPT !.pc = pc]]
    PROVE  /\ worker' \in [Workers -> Thread]
           /\ \A v \in Workers : worker'[v].pc = "idle" <=> worker'[v].job = NoDelivery
  BY DEF TypeOK, Thread

\* The thread is free again.
LEMMA RestedThread ==
    ASSUME TypeOK, NEW w \in Workers, worker' = [worker EXCEPT ![w] = Idle]
    PROVE  /\ worker' \in [Workers -> Thread]
           /\ \A v \in Workers : worker'[v].pc = "idle" <=> worker'[v].job = NoDelivery
  BY DEF TypeOK, Thread, Idle, Stages

\* Every handler that ends with a report keeps the types.
LEMMA ReportedTypeOK ==
    ASSUME TypeOK, NEW w \in Workers, worker[w].pc # "idle",
           NEW outcome \in Outcomes, NEW delay \in Nat, NEW fan \in BOOLEAN, NEW receipt,
           NEW pc \in Stages, faults' \in Nat,
           ReportAndGo(w, outcome, delay, fan, receipt, pc)
    PROVE  TypeOK'
  <1>1. worker[w].job \in Deliveries
    BY Working
  <1>2. /\ row' \in Rows /\ card' \subseteq Incidents /\ pause' \in [Incidents -> Nat]
        /\ removals' \in [Incidents -> Nat] /\ reported' \in [Deliveries -> Nat]
    BY <1>1, Completed DEF ReportAndGo
  <1>3. /\ worker' \in [Workers -> Thread]
        /\ \A v \in Workers : worker'[v].pc = "idle" <=> worker'[v].job = NoDelivery
    <2>1. CASE pc = "idle"
      BY <2>1, RestedThread DEF ReportAndGo
    <2>2. CASE pc # "idle"
      BY <2>2, MovedThread DEF ReportAndGo
    <2> QED
      BY <2>1, <2>2
  <1>4. UNCHANGED <<incident, muted, crashes, licences, creations>>
    BY DEF ReportAndGo
  <1> QED
    BY <1>2, <1>3, <1>4 DEF TypeOK, Rows

\* The initial state has the types.
LEMMA InitTypeOK ==
    ASSUME Init
    PROVE  TypeOK
  <1>1. StaleAfter \in Nat
    BY OutboxAssumption
  <1>2. NewRow(0, StaleAfter) \in Row /\ AbsentRow \in Row
    BY <1>1 DEF NewRow, AbsentRow, Row
  <1>3. row \in [Deliveries -> Row]
    BY <1>2 DEF Init
  <1>4. incident \in [Incidents -> [state : IncidentStates, snooze : Nat]]
    BY DEF Init, IncidentStates
  <1>5. /\ worker \in [Workers -> Thread]
        /\ \A w \in Workers : worker[w].pc = "idle" <=> worker[w].job = NoDelivery
    BY DEF Init, Thread, Idle, Stages
  <1>6. /\ muted \subseteq Incidents /\ card \subseteq Incidents
        /\ pause \in [Incidents -> Nat] /\ crashes \in Nat /\ faults \in Nat
        /\ licences \in [Deliveries -> Nat] /\ reported \in [Deliveries -> Nat]
        /\ creations \in [Incidents -> Nat] /\ removals \in [Incidents -> Nat]
    BY DEF Init
  <1> QED
    BY <1>3, <1>4, <1>5, <1>6 DEF TypeOK

\* The bounds and delays are natural numbers.
LEMMA Delays ==
    /\ Lease \in Nat /\ RetryDelay \in Nat /\ BusyDelay \in Nat /\ EditPause \in Nat
    /\ StepDelay \in Nat /\ StaleAfter \in Nat /\ SnoozeFor \in Nat
  BY OutboxAssumption

\* A licence is counted for its delivery, a creation for the owner of the card.
LEMMA Licensed ==
    ASSUME TypeOK, NEW w \in Workers, NEW d \in Deliveries, License(w, d)
    PROVE  /\ licences' \in [Deliveries -> Nat]
           /\ licences'[d] = licences[d] + 1
           /\ \A e \in Deliveries \ {d} : licences'[e] = licences[e]
           /\ creations' \in [Incidents -> Nat]
  <1>1. licences \in [Deliveries -> Nat] /\ creations \in [Incidents -> Nat]
    BY DEF TypeOK
  <1>2. licences' = [licences EXCEPT ![d] = @ + 1]
    BY DEF License
  <1>3. OwnerOf(d) \in Incidents
    BY OutboxAssumption DEF OwnerOf
  <1>4. \/ creations' = [creations EXCEPT ![OwnerOf(d)] = @ + 1]
        \/ creations' = creations
    BY DEF License
  <1>5. creations' \in [Incidents -> Nat]
    BY <1>1, <1>3, <1>4
  <1> QED
    BY <1>1, <1>2, <1>5

\* Every step of DeliveryWorker.deliver keeps the types.
LEMMA WorkerTypeOK ==
    ASSUME TypeOK, NEW w \in Workers, WorkerStep(w)
    PROVE  TypeOK'
  <1> DEFINE d == worker[w].job
  <1> USE DEF store, bounds, history
  <1>a. row \in Rows /\ worker \in [Workers -> Thread]
    BY DEF TypeOK, Rows
  <1>b. faults \in Nat /\ faults + 1 \in Nat
    BY DEF TypeOK
  <1>c. 0 \in Nat /\ TRUE \in BOOLEAN /\ FALSE \in BOOLEAN
    OBVIOUS
  <1>1. CASE ReserveTelegramSend(w)
    <2>1. worker[w].pc # "idle" /\ d \in Deliveries
      BY <1>1, Working DEF ReserveTelegramSend
    <2>2. CASE License(w, d)
      <3>1. row' \in Rows
        BY <1>a, <2>1, <2>2, WithStatusType DEF License, Rows
      <3>2. /\ worker' \in [Workers -> Thread]
            /\ \A v \in Workers : worker'[v].pc = "idle" <=> worker'[v].job = NoDelivery
        BY <2>1, <2>2, MovedThread DEF License, Stages
      <3>3. licences' \in [Deliveries -> Nat] /\ creations' \in [Incidents -> Nat]
        BY <2>1, <2>2, Licensed
      <3>4. UNCHANGED <<incident, muted, card, pause, crashes, faults, reported, removals>>
        BY <1>1 DEF ReserveTelegramSend
      <3> QED
        BY <3>1, <3>2, <3>3, <3>4 DEF TypeOK, Rows
    <2>3. CASE ~License(w, d)
      <3>1. Rest(w) /\ UNCHANGED <<licences, creations>>
        BY <1>1, <2>3 DEF ReserveTelegramSend, LoseClaim
      <3>2. PostponedFor(d) \in Nat
        BY <2>1, Delays, OutboxAssumption DEF PostponedFor, TypeOK, MaxOf, OwnerOf
      <3>3. row' \in Rows
        BY <1>1, <1>a, <2>1, <2>3, <3>2, RequeuedRowType
           DEF ReserveTelegramSend, LoseClaim, Rows
      <3>4. /\ worker' \in [Workers -> Thread]
            /\ \A v \in Workers : worker'[v].pc = "idle" <=> worker'[v].job = NoDelivery
        BY <3>1, RestedThread DEF Rest
      <3> QED
        BY <1>1, <3>1, <3>3, <3>4 DEF TypeOK, Rows, ReserveTelegramSend
    <2> QED
      BY <2>2, <2>3
  <1>2. CASE BuildPayload(w)
    <2>1. worker[w].pc # "idle"
      BY <1>2 DEF BuildPayload
    <2>2. CASE Rest(w)
      BY <1>2, <2>2, RestedThread DEF BuildPayload, Rest, TypeOK
    <2>3. CASE ~Rest(w)
      <3>1. PICK removes \in {FALSE, MayRemove(d)} :
               worker' = [worker EXCEPT ![w] =
                   [@ EXCEPT !.pc = "prepared", !.sees = HasOriginal(d), !.removes = removes]]
        BY <1>2, <2>3 DEF BuildPayload
      <3>2. removes \in BOOLEAN /\ HasOriginal(d) \in BOOLEAN
        <4>1. HasOriginal(d) \in BOOLEAN
          BY DEF HasOriginal
        <4>2. MayRemove(d) \in BOOLEAN
          BY DEF MayRemove
        <4> QED
          BY <4>1, <4>2
      <3>3. /\ worker' \in [Workers -> Thread]
            /\ \A v \in Workers : worker'[v].pc = "idle" <=> worker'[v].job = NoDelivery
        <4> DEFINE t == [worker[w] EXCEPT !.pc = "prepared", !.sees = HasOriginal(d), !.removes = removes]
        <4>1. t \in Thread /\ t.pc = "prepared" /\ t.job # NoDelivery
          BY <1>a, <2>1, <3>2 DEF Thread, Stages, TypeOK
        <4>2. worker' = [worker EXCEPT ![w] = t]
          BY <3>1
        <4> HIDE DEF t
        <4> QED
          BY <1>a, <4>1, <4>2 DEF TypeOK
      <3>4. UNCHANGED <<row, incident, muted, card, pause, crashes, faults,
                        licences, reported, creations, removals>>
        BY <1>2 DEF BuildPayload
      <3> QED
        BY <3>3, <3>4 DEF TypeOK
    <2> QED
      BY <2>2, <2>3
  <1>3. CASE ReserveDeliverySend(w)
    <2>1. worker[w].pc # "idle" /\ d \in Deliveries
      BY <1>3, Working DEF ReserveDeliverySend
    <2>2. CASE License(w, d)
      <3>1. row' \in Rows
        BY <1>a, <2>1, <2>2, WithStatusType DEF License, Rows
      <3>2. /\ worker' \in [Workers -> Thread]
            /\ \A v \in Workers : worker'[v].pc = "idle" <=> worker'[v].job = NoDelivery
        BY <2>1, <2>2, MovedThread DEF License, Stages
      <3>3. licences' \in [Deliveries -> Nat] /\ creations' \in [Incidents -> Nat]
        BY <2>1, <2>2, Licensed
      <3>4. UNCHANGED <<incident, muted, card, pause, crashes, faults, reported, removals>>
        BY <1>3 DEF ReserveDeliverySend
      <3> QED
        BY <3>1, <3>2, <3>3, <3>4 DEF TypeOK, Rows
    <2>3. CASE LoseClaim(w)
      BY <1>3, <2>3, RestedThread DEF TypeOK, ReserveDeliverySend, LoseClaim, Rest
    <2> QED
      BY <1>3, <2>2, <2>3 DEF ReserveDeliverySend
  <1>4. CASE TurnCardAway(w)
    BY <1>4, <1>b, <1>c, Delays, ReportedTypeOK DEF TurnCardAway, Report, Outcomes, Stages
  <1>5. CASE RaiseBeforeReserve(w)
    BY <1>5, <1>b, <1>c, Delays, ReportedTypeOK DEF RaiseBeforeReserve, Report, Outcomes, Stages
  <1>6. CASE TelegramReturns(w)
    BY <1>6, <1>b, <1>c, Delays, ReportedTypeOK DEF TelegramReturns, Report, Outcomes, Stages
  <1>7. CASE EditIsRecorded(w)
    <2>1. worker[w].pc # "idle" /\ OwnerOf(d) \in Incidents
      BY <1>7, Working, OutboxAssumption DEF EditIsRecorded, OwnerOf
    <2>2. pause' \in [Incidents -> Nat]
      BY <1>7, <2>1, Delays DEF EditIsRecorded, TypeOK
    <2>3. /\ worker' \in [Workers -> Thread]
          /\ \A v \in Workers : worker'[v].pc = "idle" <=> worker'[v].job = NoDelivery
      BY <1>7, <2>1, MovedThread DEF EditIsRecorded, Stages
    <2>4. UNCHANGED <<row, incident, muted, card, crashes, faults,
                      licences, reported, creations, removals>>
      BY <1>7 DEF EditIsRecorded
    <2> QED
      BY <2>2, <2>3, <2>4 DEF TypeOK
  <1>8. CASE EditReturns(w)
    BY <1>8, <1>b, <1>c, Delays, ReportedTypeOK DEF EditReturns, Report, Outcomes, Stages
  <1>9. CASE ReportIsRefused(w)
    BY <1>9, <1>b, <1>c, Delays, ReportedTypeOK DEF ReportIsRefused, Outcomes, Stages
  <1>10. CASE MessageReturns(w)
    BY <1>10, <1>b, <1>c, Delays, ReportedTypeOK DEF MessageReturns, Report, Outcomes, Stages
  <1>11. CASE AgentReturns(w)
    BY <1>11, <1>b, <1>c, Delays, ReportedTypeOK DEF AgentReturns, ReportLaunch, Outcomes, Stages
  <1>12. CASE AgentRaises(w)
    <2>1. row' \in Rows
      BY <1>12, <1>a, <1>c, Delays, ScheduledRows DEF AgentRaises
    <2>2. /\ worker' \in [Workers -> Thread]
          /\ \A v \in Workers : worker'[v].pc = "idle" <=> worker'[v].job = NoDelivery
      BY <1>12 DEF AgentRaises, TypeOK, Thread, Stages
    <2> QED
      BY <1>12, <2>1, <2>2 DEF AgentRaises, TypeOK, Rows
  <1>13. CASE AgentGivesUp(w)
    BY <1>13, <1>b, <1>c, Delays, ReportedTypeOK DEF AgentGivesUp, ReportLaunch, Outcomes, Stages
  <1>14. CASE AfterTelegramDelivery(w)
    <2>1. row' \in Rows
      BY <1>14, <1>a, Delays, ScheduledRows DEF AfterTelegramDelivery
    <2> QED
      BY <1>14, <2>1, RestedThread DEF AfterTelegramDelivery, Rest, TypeOK, Rows
  <1>15. CASE ScheduleExecutorLaunchFailure(w)
    <2>1. row' \in Rows
      <3>1. PICK new : row' = Scheduled(row, new, 0, StaleAfter)
        BY <1>15 DEF ScheduleExecutorLaunchFailure
      <3> QED
        BY <3>1, <1>a, <1>c, Delays, ScheduledRows
    <2>2. incident' \in [Incidents -> [state : IncidentStates, snooze : Nat]]
      BY <1>15 DEF ScheduleExecutorLaunchFailure, TypeOK, IncidentStates
    <2>3. /\ worker' \in [Workers -> Thread]
          /\ \A v \in Workers : worker'[v].pc = "idle" <=> worker'[v].job = NoDelivery
      BY <1>15, RestedThread DEF ScheduleExecutorLaunchFailure, Rest
    <2>4. UNCHANGED <<muted, card, pause, crashes, faults, licences, reported, creations, removals>>
      BY <1>15 DEF ScheduleExecutorLaunchFailure
    <2> QED
      BY <2>1, <2>2, <2>3, <2>4 DEF TypeOK, Rows
  <1> QED
    BY <1>1, <1>2, <1>3, <1>4, <1>5, <1>6, <1>7, <1>8, <1>9, <1>10, <1>11, <1>12, <1>13, <1>14, <1>15
       DEF WorkerStep, Deliver

\* A claim keeps the types.
LEMMA ClaimTypeOK ==
    ASSUME TypeOK, NEW d \in Deliveries, Claim(d)
    PROVE  TypeOK'
  <1> USE DEF store, bounds, history
  <1>a. row \in Rows /\ worker \in [Workers -> Thread]
    BY DEF TypeOK, Rows
  <1>1. ASSUME NEW w \in Workers, ClaimDueDelivery(w, d)
        PROVE  TypeOK'
    <2> DEFINE t == [Idle EXCEPT !.pc = "claimed", !.job = d, !.attempt = row[d].attempt + 1]
    <2>1. row' \in Rows
      BY <1>1, <1>a, Delays, ClaimedRowType DEF ClaimDueDelivery, Rows
    <2>2. row[d].attempt + 1 \in Nat
      BY <1>a DEF Rows, Row
    <2>3. d # NoDelivery
      BY OutboxAssumption
    <2>4. t \in Thread /\ t.pc = "claimed" /\ t.job = d
      BY <2>2 DEF Idle, Thread, Stages
    <2>5. worker' = [worker EXCEPT ![w] = t]
      BY <1>1 DEF ClaimDueDelivery
    <2>6. /\ worker' \in [Workers -> Thread]
          /\ \A v \in Workers : worker'[v].pc = "idle" <=> worker'[v].job = NoDelivery
      <3> HIDE DEF t
      <3> QED
        BY <1>a, <2>3, <2>4, <2>5 DEF TypeOK
    <2>7. UNCHANGED <<incident, muted, card, pause, crashes, faults,
                      licences, reported, creations, removals>>
      BY <1>1 DEF ClaimDueDelivery
    <2> QED
      BY <2>1, <2>6, <2>7 DEF TypeOK, Rows
  <1>2. CASE CancelStaleCard(d)
    <2>1. row' \in Rows
      BY <1>2, <1>a, WithStatusType DEF CancelStaleCard, Rows
    <2>2. UNCHANGED <<incident, muted, card, pause, worker, crashes, faults,
                      licences, reported, creations, removals>>
      BY <1>2 DEF CancelStaleCard
    <2> QED
      BY <2>1, <2>2 DEF TypeOK, Rows
  <1> QED
    BY <1>1, <1>2 DEF Claim

\* What owners do keeps the types.
LEMMA OwnerTypeOK ==
    ASSUME TypeOK, NEW i \in Incidents, OwnerActs(i)
    PROVE  TypeOK'
  <1> USE DEF store, bounds, history
  <1>a. row \in Rows /\ incident \in [Incidents -> [state : IncidentStates, snooze : Nat]]
    BY DEF TypeOK, Rows
  <1>b. 0 \in Nat /\ pause[Owner[i]] \in Nat
    BY OutboxAssumption DEF TypeOK
  <1>1. CASE Acknowledge(i)
    <2>1. row' \in Rows
      BY <1>1, <1>a, CancelledRows DEF Acknowledge
    <2>2. incident' \in [Incidents -> [state : IncidentStates, snooze : Nat]]
      BY <1>1, <1>a DEF Acknowledge, IncidentStates
    <2>3. UNCHANGED <<muted, card, pause, worker, crashes, faults,
                      licences, reported, creations, removals>>
      BY <1>1 DEF Acknowledge, UnchangedByOwner
    <2> QED
      BY <2>1, <2>2, <2>3 DEF TypeOK, Rows
  <1>2. CASE Resolve(i)
    <2>1. row' \in Rows
      <3>1. PICK doomed, new :
               row' = Scheduled(Cancelled(row, doomed), new, pause[Owner[i]], StaleAfter)
        BY <1>2 DEF Resolve
      <3>2. Cancelled(row, doomed) \in Rows
        BY <1>a, CancelledRows
      <3> QED
        BY <1>b, <3>1, <3>2, Delays, ScheduledRows
    <2>2. incident' \in [Incidents -> [state : IncidentStates, snooze : Nat]]
      BY <1>2, <1>a DEF Resolve, IncidentStates
    <2>3. UNCHANGED <<muted, card, pause, worker, crashes, faults,
                      licences, reported, creations, removals>>
      BY <1>2 DEF Resolve, UnchangedByOwner
    <2> QED
      BY <2>1, <2>2, <2>3 DEF TypeOK, Rows
  <1>3. CASE Snooze(i)
    <2>1. incident' \in [Incidents -> [state : IncidentStates, snooze : Nat]]
      BY <1>3, <1>a, Delays DEF Snooze, IncidentStates
    <2>2. UNCHANGED <<row, muted, card, pause, worker, crashes, faults,
                      licences, reported, creations, removals>>
      BY <1>3 DEF Snooze, UnchangedByOwner
    <2> QED
      BY <2>1, <2>2 DEF TypeOK
  <1>4. CASE Mute(i)
    <2>1. row' \in Rows
      <3>1. PICK doomed : row' = Cancelled(row, doomed)
        BY <1>4 DEF Mute
      <3> QED
        BY <1>a, <3>1, CancelledRows
    <2>2. muted' \subseteq Incidents
      BY <1>4, OutboxAssumption DEF Mute, TypeOK
    <2>3. UNCHANGED <<incident, card, pause, worker, crashes, faults,
                      licences, reported, creations, removals>>
      BY <1>4 DEF Mute
    <2> QED
      BY <2>1, <2>2, <2>3 DEF TypeOK, Rows
  <1>5. CASE Unmute(i)
    <2>1. row' \in Rows
      <3>1. PICK new : row' = Scheduled(row, new, 0, StaleAfter)
        BY <1>5 DEF Unmute
      <3> QED
        BY <1>a, <1>b, <3>1, Delays, ScheduledRows
    <2>2. muted' \subseteq Incidents
      BY <1>5 DEF Unmute, TypeOK
    <2>3. UNCHANGED <<incident, card, pause, worker, crashes, faults,
                      licences, reported, creations, removals>>
      BY <1>5 DEF Unmute
    <2> QED
      BY <2>1, <2>2, <2>3 DEF TypeOK, Rows
  <1> QED
    BY <1>1, <1>2, <1>3, <1>4, <1>5 DEF OwnerActs

\* Every step keeps the types.
LEMMA TypeKept ==
    ASSUME TypeOK, [Next]_vars
    PROVE  TypeOK'
  <1> USE DEF store, bounds, history
  <1>a. row \in Rows /\ worker \in [Workers -> Thread]
    BY DEF TypeOK, Rows
  <1>1. CASE UNCHANGED vars
    BY <1>1 DEF vars, TypeOK
  <1>2. ASSUME NEW w \in Workers, WorkerStep(w)
        PROVE  TypeOK'
    BY <1>2, WorkerTypeOK
  <1>3. ASSUME NEW d \in Deliveries, Claim(d)
        PROVE  TypeOK'
    BY <1>3, ClaimTypeOK
  <1>4. ASSUME NEW d \in Deliveries, ScheduleNotice(d)
        PROVE  TypeOK'
    <2>1. row' \in Rows
      <3>1. 0 \in Nat
        OBVIOUS
      <3>2. CASE row' = Scheduled(row, {d}, 0, StaleAfter)
        BY <1>a, <3>1, <3>2, Delays, ScheduledRows
      <3>3. CASE row' = [row EXCEPT ![d] = RequeuedRow(@, 0)]
        BY <1>a, <3>1, <3>3, RequeuedRowType DEF Rows
      <3> QED
        BY <1>4, <3>2, <3>3 DEF ScheduleNotice
    <2>2. UNCHANGED <<incident, muted, card, pause, worker, crashes, faults,
                      licences, reported, creations, removals>>
      BY <1>4 DEF ScheduleNotice
    <2> QED
      BY <2>1, <2>2 DEF TypeOK, Rows
  <1>5. ASSUME NEW i \in Incidents, QueueIncidentCardRefresh(i)
        PROVE  TypeOK'
    <2>1. row' \in Rows
      <3>1. PICK new : row' = Scheduled(row, new, pause[Owner[i]], StaleAfter)
        BY <1>5 DEF QueueIncidentCardRefresh
      <3>2. pause[Owner[i]] \in Nat
        BY OutboxAssumption DEF TypeOK
      <3> QED
        BY <1>a, <3>1, <3>2, Delays, ScheduledRows
    <2>2. UNCHANGED <<incident, muted, card, pause, worker, crashes, faults,
                      licences, reported, creations, removals>>
      BY <1>5 DEF QueueIncidentCardRefresh
    <2> QED
      BY <2>1, <2>2 DEF TypeOK, Rows
  <1>6. ASSUME NEW i \in Managed, OwnerActs(i)
        PROVE  TypeOK'
    BY <1>6, OwnerTypeOK, OutboxAssumption
  <1>7. ASSUME NEW p \in Processes, Crash(p)
        PROVE  TypeOK'
    <2>1. /\ worker' \in [Workers -> Thread]
          /\ \A v \in Workers : worker'[v].pc = "idle" <=> worker'[v].job = NoDelivery
      <3>1. Idle \in Thread /\ Idle.pc = "idle" /\ Idle.job = NoDelivery
        BY DEF Idle, Thread, Stages
      <3> QED
        BY <1>a, <1>7, <3>1 DEF Crash, TypeOK
    <2>2. crashes' \in Nat
      BY <1>7 DEF Crash, TypeOK
    <2>3. UNCHANGED <<row, incident, muted, card, pause, faults,
                      licences, reported, creations, removals>>
      BY <1>7 DEF Crash
    <2> QED
      BY <2>1, <2>2, <2>3 DEF TypeOK
  <1>8. CASE Tick
    <2>1. row' \in Rows
      BY <1>a, <1>8, AgedRowType DEF Tick, Rows
    <2>2. incident' \in [Incidents -> [state : IncidentStates, snooze : Nat]]
      BY <1>8, ElapseType DEF Tick, TypeOK
    <2>3. pause' \in [Incidents -> Nat]
      BY <1>8, ElapseType DEF Tick, TypeOK
    <2>4. UNCHANGED <<muted, card, worker, crashes, faults,
                      licences, reported, creations, removals>>
      BY <1>8 DEF Tick
    <2> QED
      BY <2>1, <2>2, <2>3, <2>4 DEF TypeOK, Rows
  <1> QED
    BY <1>1, <1>2, <1>3, <1>4, <1>5, <1>6, <1>7, <1>8 DEF Next

\* The type invariant holds in every reachable state, whatever the instance.
THEOREM TypeCorrect == Spec => []TypeOK
  BY InitTypeOK, TypeKept, PTL DEF Spec

=============================================================================
