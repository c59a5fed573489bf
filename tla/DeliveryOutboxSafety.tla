------------------------ MODULE DeliveryOutboxSafety ------------------------
(***************************************************************************)
(* The outbox keeps the contract of every delivery, and what follows from  *)
(* it.  The argument rests on the generations of a claim: no two threads   *)
(* hold the same one, so a thread that still reads its own generation      *)
(* knows that nobody else licensed it.                                     *)
(***************************************************************************)
EXTENDS DeliveryOutboxProofs

USE DEF Statuses, Held, Finished

-----------------------------------------------------------------------------
(* The inductive invariant *)

\* A row that was never inserted was never claimed.
AbsentIsUnused == \A d \in Deliveries : row[d].status = "absent" => row[d].attempt = 0

\* A thread reaches some stages with some kinds of job only.
StageFitsKind ==
    \A w \in Workers :
        /\ worker[w].pc = "prepared" => IsTelegram(worker[w].job)
        /\ worker[w].pc \in {"interrupted", "escalate"} => Kind[worker[w].job] = "agent"

BeforeSend == {"claimed", "prepared"}

\* Every generation has one holder, and a holder before the send boundary sees
\* its own generation unlicensed.
Generations ==
    \A w \in Workers : worker[w].pc # "idle" =>
        /\ worker[w].attempt <= row[worker[w].job].attempt
        /\ \A v \in Workers \ {w} :
              worker[v].pc # "idle" /\ worker[v].job = worker[w].job
                 => worker[v].attempt # worker[w].attempt
        /\ worker[w].pc \in BeforeSend /\ worker[w].attempt = row[worker[w].job].attempt
              => row[worker[w].job].status # "sending"

Inv == TypeOK /\ AbsentIsUnused /\ StageFitsKind /\ Generations

-----------------------------------------------------------------------------
(* The steps of a row, as the contract names them *)

KeepsRow(d) ==
    /\ row'[d].attempt = row[d].attempt
    /\ licences'[d] = licences[d] /\ reported'[d] = reported[d]

Ends(d) ==
    /\ row[d].status \in {"queued", "claimed", "sending"} /\ row'[d].status \in Finished
    /\ Kind[d] = "session" /\ row'[d].status = "cancelled" => row[d].status # "sending"

Retried(d) ==
    /\ d \in Repeatable
    /\ row[d].status = "sending" /\ row'[d].status = "queued"
    /\ Ceiling[d] >= 1 => row[d].attempt < Ceiling[d]
    /\ row'[d].attempt = row[d].attempt
    /\ licences'[d] = licences[d] /\ reported'[d] = reported[d] + 1

\* A step that neither claims the row nor licenses its send.
Calm(d) ==
    \/ /\ KeepsRow(d)
       /\ \/ row'[d].status = row[d].status
          \/ row[d].status = "absent" /\ row'[d].status = "queued"
          \/ row[d].status = "claimed" /\ row'[d].status = "queued"
          \/ Ends(d)
          \/ Kind[d] = "session" /\ row[d].status = "cancelled" /\ row'[d].status = "queued"
    \/ Retried(d)

Claimed(d) ==
    /\ row[d].status \in {"queued", "claimed"} /\ row'[d].status = "claimed"
    /\ row'[d].attempt = row[d].attempt + 1
    /\ licences'[d] = licences[d] /\ reported'[d] = reported[d]

Sends(d) ==
    /\ row[d].status = "claimed" /\ row'[d].status = "sending"
    /\ row'[d].attempt = row[d].attempt
    /\ licences'[d] = licences[d] + 1 /\ reported'[d] = reported[d]

\* Each of them is a step of the contract.
LEMMA ContractStep ==
    ASSUME NEW d \in Deliveries, Calm(d) \/ Claimed(d) \/ Sends(d)
    PROVE  Contract!RowStep(d)
  <1> DEFINE s == [e \in Deliveries |-> row[e].status]
             a == [e \in Deliveries |-> row[e].attempt]
  <1>1. /\ s[d] = row[d].status /\ a[d] = row[d].attempt
        /\ s'[d] = row'[d].status /\ a'[d] = row'[d].attempt
    OBVIOUS
  <1> USE <1>1 DEF Contract!KeepsGeneration, Contract!KeepsCounts, Contract!Moves, Contract!Over
  <1>2. CASE Claimed(d)
    <2>1. Contract!Claim(d)
      BY <1>2 DEF Contract!Claim, Claimed
    <2> QED
      BY <2>1 DEF Contract!RowStep
  <1>3. CASE Sends(d)
    <2>1. Contract!License(d)
      BY <1>3 DEF Contract!License, Sends
    <2> QED
      BY <2>1 DEF Contract!RowStep
  <1>4. CASE Retried(d)
    <2>1. Contract!Retry(d)
      BY <1>4 DEF Contract!Retry, Retried
    <2> QED
      BY <2>1 DEF Contract!RowStep
  <1>5. CASE KeepsRow(d) /\ row'[d].status = row[d].status
    <2>1. Contract!Rest(d)
      BY <1>5 DEF Contract!Rest, KeepsRow
    <2> QED
      BY <2>1 DEF Contract!RowStep
  <1>6. CASE KeepsRow(d) /\ row[d].status = "absent" /\ row'[d].status = "queued"
    <2>1. Contract!Schedule(d)
      BY <1>6 DEF Contract!Schedule, KeepsRow
    <2> QED
      BY <2>1 DEF Contract!RowStep
  <1>7. CASE KeepsRow(d) /\ row[d].status = "claimed" /\ row'[d].status = "queued"
    <2>1. Contract!PutBack(d)
      BY <1>7 DEF Contract!PutBack, KeepsRow
    <2> QED
      BY <2>1 DEF Contract!RowStep
  <1>8. CASE KeepsRow(d) /\ Ends(d)
    <2>1. Contract!Finish(d)
      BY <1>8 DEF Contract!Finish, KeepsRow, Ends, Revivable
    <2> QED
      BY <2>1 DEF Contract!RowStep
  <1>9. CASE KeepsRow(d) /\ Kind[d] = "session"
             /\ row[d].status = "cancelled" /\ row'[d].status = "queued"
    <2>1. Contract!Revive(d)
      BY <1>9 DEF Contract!Revive, KeepsRow, Revivable
    <2> QED
      BY <2>1 DEF Contract!RowStep
  <1> QED
    BY <1>2, <1>3, <1>4, <1>5, <1>6, <1>7, <1>8, <1>9 DEF Calm

-----------------------------------------------------------------------------
(* What each action does to the rows *)

\* A calm step leaves the generation, and neither licenses nor removes the row.
LEMMA CalmRow ==
    ASSUME NEW d \in Deliveries, Calm(d)
    PROVE  /\ row'[d].attempt = row[d].attempt
           /\ row'[d].status = "sending" => row[d].status = "sending"
           /\ row'[d].status = "absent" => row[d].status = "absent"
  BY DEF Calm, KeepsRow, Retried, Ends

\* Inserting rows is calm.
LEMMA ScheduledCalm ==
    ASSUME TypeOK, AbsentIsUnused, UNCHANGED <<licences, reported>>,
           NEW new, NEW due \in Nat, NEW fresh \in Nat,
           row' = Scheduled(row, new, due, fresh)
    PROVE  \A d \in Deliveries : Calm(d)
  <1>1. row \in Rows
    BY DEF TypeOK, Rows
  <1> QED
    BY <1>1, ScheduledRows DEF Calm, KeepsRow, AbsentIsUnused

\* What is recorded as a retry was reported as one, within the ceiling; what is
\* recorded as a cancellation of a notice was reported as one.
LEMMA EffectiveRetry ==
    ASSUME NEW d \in Deliveries, NEW outcome \in Outcomes
    PROVE  /\ Effective(d, outcome) = "retry" =>
                 /\ outcome = "retry" /\ ~Ineligible(d)
                 /\ ~(Ceiling[d] >= 1 /\ row[d].attempt >= Ceiling[d])
           /\ Effective(d, outcome) = "cancelled" /\ IsNotice(d) => outcome = "cancelled"
  BY DEF Effective, Ineligible, Outcomes

\* A report is calm, if a send is reported for a retry only where it may be
\* repeated, and a session link is never withdrawn in flight.
LEMMA ReportedCalm ==
    ASSUME TypeOK, AbsentIsUnused, NEW w \in Workers, worker[w].pc # "idle",
           NEW outcome \in Outcomes, NEW delay \in Nat, NEW fan \in BOOLEAN, NEW receipt, NEW pc,
           ReportAndGo(w, outcome, delay, fan, receipt, pc),
           Holds(w) /\ row[worker[w].job].status = "sending" /\ outcome = "retry"
              => worker[w].job \in Repeatable,
           Holds(w) /\ row[worker[w].job].status = "sending" /\ outcome = "cancelled"
              => Kind[worker[w].job] # "session"
    PROVE  \A d \in Deliveries : Calm(d)
  <1>1. worker[w].job \in Deliveries
    BY Working
  <1>2. CompleteDelivery(w, outcome, delay, fan, receipt) /\ licences' = licences
    BY DEF ReportAndGo
  <1> SUFFICES ASSUME NEW d \in Deliveries
               PROVE  Calm(d)
    OBVIOUS
  <1>3. /\ \/ row'[d] = row[d] /\ ~(d = worker[w].job /\ Holds(w))
           \/ Inserted(d)
           \/ SettledAs(w, d, outcome)
        /\ reported'[d] = IF /\ d = worker[w].job /\ Holds(w)
                             /\ Effective(d, outcome) = "retry" /\ row[d].status = "sending"
                          THEN reported[d] + 1 ELSE reported[d]
    BY <1>1, <1>2, Completed
  <1>4. row[d].attempt \in Nat /\ Ceiling[d] \in Nat
    BY OutboxAssumption DEF TypeOK, Row
  <1>5. CASE row'[d] = row[d] /\ ~(d = worker[w].job /\ Holds(w))
    BY <1>2, <1>3, <1>5 DEF Calm, KeepsRow
  <1>6. CASE Inserted(d)
    BY <1>2, <1>3, <1>6 DEF Calm, KeepsRow, Inserted, AbsentIsUnused
  <1>7. CASE SettledAs(w, d, outcome)
    <2>1. d = worker[w].job /\ Holds(w) /\ row[d].status \in Held
      BY <1>7 DEF SettledAs, Holds
    <2>2. CASE Effective(d, outcome) = "retry" /\ row[d].status = "sending"
      <3>1. outcome = "retry" /\ (Ceiling[d] >= 1 => row[d].attempt < Ceiling[d])
        BY <1>4, <2>2, EffectiveRetry
      <3>2. Retried(d)
        BY <1>2, <1>3, <1>7, <2>1, <2>2, <3>1 DEF Retried, SettledAs
      <3> QED
        BY <3>2 DEF Calm
    <2>3. CASE Effective(d, outcome) = "retry" /\ row[d].status = "claimed"
      BY <1>2, <1>3, <1>7, <2>3 DEF Calm, KeepsRow, SettledAs
    <2>4. CASE Effective(d, outcome) # "retry"
      <3>1. Effective(d, outcome) \in Outcomes
        BY EffectiveOutcome
      <3>2. row'[d].status = Effective(d, outcome) /\ row'[d].status \in Finished
        BY <1>7, <2>4, <3>1 DEF SettledAs, Outcomes
      <3>3. Kind[d] = "session" /\ row'[d].status = "cancelled" => row[d].status # "sending"
        BY <2>1, <3>2, EffectiveRetry DEF IsNotice, NoticeKinds
      <3>4. Ends(d)
        BY <2>1, <3>2, <3>3 DEF Ends
      <3> QED
        BY <1>2, <1>3, <1>7, <2>4, <3>4 DEF Calm, KeepsRow, SettledAs
    <2> QED
      BY <2>1, <2>2, <2>3, <2>4
  <1> QED
    BY <1>3, <1>5, <1>6, <1>7

\* A thread that stays with its job moves away from the send boundary only.
Onward(v) ==
    \/ worker'[v].pc = "idle"
    \/ /\ worker[v].pc # "idle"
       /\ worker'[v].job = worker[v].job /\ worker'[v].attempt = worker[v].attempt
       /\ worker'[v].pc \in BeforeSend => worker[v].pc \in BeforeSend
       /\ worker'[v].pc = "prepared" =>
             worker[v].pc = "prepared" \/ IsTelegram(worker[v].job)
       /\ worker'[v].pc \in {"interrupted", "escalate"} =>
             worker[v].pc \in {"interrupted", "escalate"} \/ Kind[worker[v].job] = "agent"

\* The thread w licenses the send of its job, and of nothing else.
LicensedBy(w, d) ==
    /\ d = worker[w].job
    /\ worker[w].pc \in BeforeSend /\ worker'[w].pc = "sending"
    /\ row[d].attempt = worker[w].attempt
    /\ Sends(d)
    /\ \A e \in Deliveries \ {d} :
          row'[e] = row[e] /\ licences'[e] = licences[e] /\ reported'[e] = reported[e]
    /\ IsTelegram(d) => ~Competing(d)

\* A handler that ends with a report sends its thread on.
LEMMA ReportedOnward ==
    ASSUME TypeOK, NEW w \in Workers, worker[w].pc # "idle",
           NEW outcome, NEW delay, NEW fan, NEW receipt,
           NEW pc \in {"idle", "sent", "escalate"},
           pc = "escalate" => Kind[worker[w].job] = "agent",
           ReportAndGo(w, outcome, delay, fan, receipt, pc)
    PROVE  \A v \in Workers : Onward(v)
  <1>1. worker \in [Workers -> Thread]
    BY DEF TypeOK
  <1>2. worker' = [worker EXCEPT ![w] = IF pc = "idle" THEN Idle ELSE [@ EXCEPT !.pc = pc]]
    BY DEF ReportAndGo
  <1>3. CASE pc = "idle"
    BY <1>1, <1>2, <1>3 DEF Onward, Idle, Thread
  <1>4. CASE pc # "idle"
    BY <1>1, <1>2, <1>4 DEF Onward, Thread, BeforeSend
  <1> QED
    BY <1>3, <1>4

\* A thread that rests, and all others that stay as they are, go onward.
LEMMA RestedOnward ==
    ASSUME TypeOK, NEW w \in Workers, Rest(w)
    PROVE  \A v \in Workers : Onward(v)
  BY DEF TypeOK, Rest, Onward, Idle, Thread

\* The reservation licenses exactly the send of the thread's own generation.
LEMMA LicenseOfOwn ==
    ASSUME TypeOK, NEW w \in Workers, worker[w].pc \in BeforeSend,
           StillClaimed(w), License(w, worker[w].job), reported' = reported,
           IsTelegram(worker[w].job) => ~Competing(worker[w].job)
    PROVE  /\ \E d \in Deliveries : LicensedBy(w, d)
           /\ \A v \in Workers : Onward(v)
  <1>1. PICK d \in Deliveries : d = worker[w].job
    BY Working DEF BeforeSend
  <1>2. License(w, d)
    BY <1>1 DEF License, Creates
  <1>3. /\ licences'[d] = licences[d] + 1
        /\ \A e \in Deliveries \ {d} : licences'[e] = licences[e]
    BY <1>2, Licensed
  <1>4. row \in Rows /\ row' = [row EXCEPT ![d] = WithStatus(@, "sending")]
    BY <1>2 DEF License, TypeOK, Rows
  <1>5. /\ row'[d].status = "sending" /\ row'[d].attempt = row[d].attempt
        /\ \A e \in Deliveries \ {d} : row'[e] = row[e]
    BY <1>4, WithStatusType DEF Rows
  <1>6. worker \in [Workers -> Thread] /\ worker' = [worker EXCEPT ![w].pc = "sending"]
    BY <1>2 DEF License, TypeOK
  <1>7. worker'[w].pc = "sending"
    BY <1>6 DEF Thread
  <1>8. \A v \in Workers : Onward(v)
    BY <1>6 DEF Onward, BeforeSend, Thread
  <1>9. Sends(d)
    BY <1>1, <1>3, <1>5 DEF Sends, StillClaimed
  <1>10. LicensedBy(w, d)
    BY <1>1, <1>3, <1>5, <1>7, <1>9 DEF LicensedBy, StillClaimed
  <1> QED
    BY <1>8, <1>10

\* A step of a thread is calm or licenses one send; threads go onward.
LEMMA WorkerSteps ==
    ASSUME Inv, NEW w \in Workers, WorkerStep(w)
    PROVE  /\ (\A d \in Deliveries : Calm(d)) \/ (\E d \in Deliveries : LicensedBy(w, d))
           /\ \A v \in Workers : Onward(v)
  <1> DEFINE d == worker[w].job
  <1> USE DEF store, bounds, history
  <1>a. TypeOK /\ AbsentIsUnused /\ StageFitsKind
    BY DEF Inv
  <1>b. worker \in [Workers -> Thread] /\ 0 \in Nat /\ TRUE \in BOOLEAN /\ FALSE \in BOOLEAN
    BY <1>a DEF TypeOK
  <1>c. worker[w].pc \in BeforeSend /\ Holds(w) => row[d].status # "sending"
    BY DEF Inv, Generations, BeforeSend, Holds
  <1>1. CASE ReserveTelegramSend(w)
    <2>1. /\ worker[w].pc = "prepared" /\ d \in Deliveries
      BY <1>a, <1>1, Working DEF ReserveTelegramSend
    <2>2. CASE StillClaimed(w) /\ ~Postponed(d) /\ License(w, d)
      BY <1>a, <1>1, <2>1, <2>2, LicenseOfOwn DEF ReserveTelegramSend, BeforeSend, Postponed
    <2>3. CASE StillClaimed(w) /\ row' = [row EXCEPT ![d] = RequeuedRow(@, PostponedFor(d))]
               /\ Rest(w) /\ UNCHANGED <<licences, creations>>
      <3>1. PostponedFor(d) \in Nat
        BY <1>a, <2>1, Delays, OutboxAssumption DEF PostponedFor, TypeOK, MaxOf, OwnerOf
      <3>2. row[d].status = "claimed" /\ licences' = licences /\ reported' = reported
        BY <1>1, <2>3 DEF StillClaimed, ReserveTelegramSend
      <3>3. \A e \in Deliveries : Calm(e)
        <4> DEFINE r == RequeuedRow(row[d], PostponedFor(d))
        <4>1. row' = [row EXCEPT ![d] = r]
          BY <2>3
        <4>2. r \in Row /\ r.status = "queued" /\ r.attempt = row[d].attempt
          BY <1>a, <2>1, <3>1, RequeuedRowType DEF TypeOK
        <4>3. row \in Rows
          BY <1>a DEF TypeOK, Rows
        <4> HIDE DEF r
        <4>4. row'[d] = r /\ \A e \in Deliveries \ {d} : row'[e] = row[e]
          BY <2>1, <4>1, <4>3 DEF Rows
        <4> QED
          BY <2>1, <3>2, <4>2, <4>4 DEF Calm, KeepsRow
      <3> QED
        BY <1>a, <2>3, <3>3, RestedOnward
    <2>4. CASE LoseClaim(w)
      <3>1. \A e \in Deliveries : Calm(e)
        BY <1>1, <2>4 DEF LoseClaim, ReserveTelegramSend, Calm, KeepsRow
      <3> QED
        BY <1>a, <2>4, <3>1, RestedOnward DEF LoseClaim
    <2> QED
      BY <1>1, <2>2, <2>3, <2>4 DEF ReserveTelegramSend
  <1>2. CASE BuildPayload(w)
    <2>1. \A e \in Deliveries : Calm(e)
      BY <1>2 DEF BuildPayload, Calm, KeepsRow
    <2>2. CASE Rest(w)
      BY <1>a, <2>1, <2>2, RestedOnward
    <2>3. ASSUME NEW removes,
                 worker' = [worker EXCEPT ![w] =
                    [@ EXCEPT !.pc = "prepared", !.sees = HasOriginal(d), !.removes = removes]]
          PROVE  \A v \in Workers : Onward(v)
      BY <1>b, <1>2, <2>3 DEF BuildPayload, Onward, BeforeSend, Thread
    <2> QED
      BY <1>2, <2>1, <2>2, <2>3 DEF BuildPayload
  <1>3. CASE ReserveDeliverySend(w)
    <2>1. worker[w].pc = "claimed" /\ ~IsTelegram(d) /\ reported' = reported
      BY <1>3 DEF ReserveDeliverySend
    <2>2. CASE StillClaimed(w) /\ License(w, d)
      BY <1>a, <2>1, <2>2, LicenseOfOwn DEF BeforeSend
    <2>3. CASE LoseClaim(w)
      <3>1. \A e \in Deliveries : Calm(e)
        BY <2>1, <2>3 DEF LoseClaim, Calm, KeepsRow
      <3> QED
        BY <1>a, <2>3, <3>1, RestedOnward DEF LoseClaim
    <2> QED
      BY <1>3, <2>2, <2>3 DEF ReserveDeliverySend
  <1>r. ASSUME NEW outcome \in Outcomes, NEW delay \in Nat, NEW fan \in BOOLEAN, NEW receipt,
               NEW pc \in {"idle", "sent", "escalate"},
               worker[w].pc # "idle",
               pc = "escalate" => Kind[d] = "agent",
               ReportAndGo(w, outcome, delay, fan, receipt, pc),
               Holds(w) /\ row[d].status = "sending" /\ outcome = "retry" => d \in Repeatable,
               Holds(w) /\ row[d].status = "sending" /\ outcome = "cancelled" => Kind[d] # "session"
        PROVE  (\A e \in Deliveries : Calm(e)) /\ \A v \in Workers : Onward(v)
    BY <1>a, <1>r, ReportedCalm, ReportedOnward
  <1>k. worker[w].pc # "idle" => d \in Deliveries
    BY <1>a, Working
  <1>m. worker[w].pc # "idle" /\ ~IsTelegram(d) => d \in Repeatable
    BY <1>k DEF Repeatable
  <1> USE DEF Outcomes
  <1>4. CASE TurnCardAway(w)
    <2>1. worker[w].pc = "claimed" /\ row[d].status = "claimed"
      BY <1>4 DEF TurnCardAway, StillClaimed
    <2>2. PICK outcome \in {"cancelled", "retry"} :
             ReportAndGo(w, outcome, RetryDelay, TRUE, "none", "idle")
      BY <1>4 DEF TurnCardAway, Report
    <2> QED
      BY <1>b, <1>r, <2>1, <2>2, Delays
  <1>5. CASE RaiseBeforeReserve(w)
    <2>1. /\ worker[w].pc = "claimed"
          /\ ReportAndGo(w, "retry", RetryDelay, TRUE, "none", "idle")
      BY <1>5 DEF RaiseBeforeReserve, Report
    <2> QED
      BY <1>b, <1>c, <1>r, <2>1, Delays DEF BeforeSend
  <1>6. CASE TelegramReturns(w)
    <2>1. worker[w].pc = "sending"
      BY <1>6 DEF TelegramReturns
    <2>2. CASE ReportAndGo(w, "uncertain", 0, TRUE, "none", "idle")
      BY <1>b, <1>r, <2>1, <2>2
    <2>3. CASE \E receipt : \E pc \in {"idle", "sent"} :
                  ReportAndGo(w, "sent", 0, TRUE, receipt, pc)
      BY <1>b, <1>r, <2>1, <2>3
    <2> QED
      BY <1>6, <2>2, <2>3 DEF TelegramReturns, Report
  <1>7. CASE EditIsRecorded(w)
    <2>1. \A e \in Deliveries : Calm(e)
      BY <1>7 DEF EditIsRecorded, Calm, KeepsRow
    <2>2. \A v \in Workers : Onward(v)
      BY <1>b, <1>7 DEF EditIsRecorded, Onward, Thread, BeforeSend
    <2> QED
      BY <2>1, <2>2
  <1>8. CASE EditReturns(w)
    <2>1. PICK outcome \in {"superseded", "uncertain"} :
             /\ worker[w].pc \in {"sending", "edited"}
             /\ ReportAndGo(w, outcome, 0, TRUE, "none", "idle")
      BY <1>8 DEF EditReturns, Report
    <2> QED
      BY <1>b, <1>r, <2>1
  <1>9. CASE ReportIsRefused(w)
    <2>1. /\ worker[w].pc \in {"sending", "edited"}
          /\ ReportAndGo(w, "retry", RetryDelay, TRUE, "none", "idle")
      BY <1>9 DEF ReportIsRefused
    <2>2. faults \in Nat /\ MaxFaults \in Nat /\ faults < MaxFaults
      BY <1>9, <1>a, OutboxAssumption DEF ReportIsRefused, TypeOK
    <2>3. MaxFaults > 0
      BY <2>2
    <2>4. d \in Repeatable
      BY <1>k, <2>1, <2>3 DEF Repeatable
    <2> QED
      BY <1>b, <1>r, <2>1, <2>4, Delays
  <1>10. CASE MessageReturns(w)
    <2>1. worker[w].pc = "sending" /\ Kind[d] = "message"
      BY <1>10 DEF MessageReturns
    <2>2. d \in Repeatable
      BY <1>m, <2>1 DEF IsTelegram, TelegramKinds, CardKinds, NoticeKinds, Conclusions
    <2>3. CASE ReportAndGo(w, "uncertain", 0, FALSE, "none", "idle")
      BY <1>b, <1>r, <2>1, <2>3
    <2>4. CASE \E outcome \in {"sent", "retry", "failed"} :
                  ReportAndGo(w, outcome, RetryDelay, TRUE, "none", "idle")
      BY <1>b, <1>r, <2>1, <2>2, <2>4, Delays
    <2> QED
      BY <1>10, <2>3, <2>4 DEF MessageReturns, Report
  <1>11. CASE AgentReturns(w)
    <2>1. worker[w].pc = "sending" /\ Kind[d] = "agent"
      BY <1>11 DEF AgentReturns
    <2>2. PICK outcome \in {"sent", "failed"}, pc \in {"idle", "escalate"} :
             ReportAndGo(w, outcome, RetryDelay, TRUE, "none", pc)
      BY <1>11 DEF AgentReturns, ReportLaunch
    <2> QED
      BY <1>b, <1>r, <2>1, <2>2, Delays
  <1>12. CASE AgentRaises(w)
    <2>1. \A e \in Deliveries : Calm(e)
      <3>1. CASE row' = row
        BY <1>12, <3>1 DEF AgentRaises, Calm, KeepsRow
      <3>2. CASE row' = Scheduled(row, Interruption[d], 0, StaleAfter)
        BY <1>a, <1>b, <1>12, <3>2, Delays, ScheduledCalm DEF AgentRaises
      <3> QED
        BY <1>12, <3>1, <3>2 DEF AgentRaises
    <2>2. \A v \in Workers : Onward(v)
      BY <1>b, <1>12 DEF AgentRaises, Onward, Thread, BeforeSend
    <2> QED
      BY <2>1, <2>2
  <1>13. CASE AgentGivesUp(w)
    <2>1. worker[w].pc = "interrupted" /\ Kind[d] = "agent"
      BY <1>13, <1>a DEF AgentGivesUp, StageFitsKind
    <2>2. d \in Repeatable
      BY <1>m, <2>1 DEF IsTelegram, TelegramKinds, CardKinds, NoticeKinds, Conclusions
    <2>3. PICK outcome \in {"retry", "cancelled"}, pc \in {"idle", "escalate"} :
             ReportAndGo(w, outcome, RetryDelay, TRUE, "none", pc)
      BY <1>13 DEF AgentGivesUp, ReportLaunch
    <2> QED
      BY <1>b, <1>r, <2>1, <2>2, <2>3, Delays
  <1>14. CASE AfterTelegramDelivery(w)
    <2>1. \A e \in Deliveries : Calm(e)
      <3>1. CASE row' = row
        BY <1>14, <3>1 DEF AfterTelegramDelivery, Calm, KeepsRow
      <3>2. CASE row' = Scheduled(row, Repeats[d], StepDelay, StaleAfter)
        BY <1>a, <1>14, <3>2, Delays, ScheduledCalm DEF AfterTelegramDelivery
      <3> QED
        BY <1>14, <3>1, <3>2 DEF AfterTelegramDelivery
    <2> QED
      BY <1>a, <1>14, <2>1, RestedOnward DEF AfterTelegramDelivery
  <1>15. CASE ScheduleExecutorLaunchFailure(w)
    <2>1. PICK new : row' = Scheduled(row, new, 0, StaleAfter)
      BY <1>15 DEF ScheduleExecutorLaunchFailure
    <2>2. \A e \in Deliveries : Calm(e)
      BY <1>a, <1>b, <1>15, <2>1, Delays, ScheduledCalm DEF ScheduleExecutorLaunchFailure
    <2> QED
      BY <1>a, <1>15, <2>2, RestedOnward DEF ScheduleExecutorLaunchFailure
  <1> QED
    BY <1>1, <1>2, <1>3, <1>4, <1>5, <1>6, <1>7, <1>8, <1>9, <1>10, <1>11, <1>12, <1>13, <1>14, <1>15
       DEF WorkerStep, Deliver

\* The thread w takes the next generation of the row.
ClaimedBy(w, d) ==
    /\ worker[w].pc = "idle" /\ worker'[w].pc = "claimed"
    /\ worker'[w].job = d /\ worker'[w].attempt = row[d].attempt + 1
    /\ \A v \in Workers \ {w} : worker'[v] = worker[v]
    /\ Claimed(d)
    /\ \A e \in Deliveries \ {d} :
          row'[e] = row[e] /\ licences'[e] = licences[e] /\ reported'[e] = reported[e]

\* A claim takes one generation; a stale card is dropped, which is calm.
LEMMA ClaimSteps ==
    ASSUME Inv, NEW d \in Deliveries, Claim(d)
    PROVE  \/ \E w \in Workers : ClaimedBy(w, d)
           \/ (\A e \in Deliveries : Calm(e)) /\ worker' = worker
  <1> USE DEF store, bounds, history
  <1>a. row \in Rows /\ worker \in [Workers -> Thread]
    BY DEF Inv, TypeOK, Rows
  <1>1. ASSUME NEW w \in Workers, ClaimDueDelivery(w, d)
        PROVE  ClaimedBy(w, d)
    <2>1. /\ row' = [row EXCEPT ![d] = ClaimedRow(@, Lease)]
          /\ row[d].status \in {"queued", "claimed"}
          /\ UNCHANGED <<licences, reported>>
      BY <1>1 DEF ClaimDueDelivery, Claimable, Due
    <2>2. /\ row'[d].status = "claimed" /\ row'[d].attempt = row[d].attempt + 1
          /\ \A e \in Deliveries \ {d} : row'[e] = row[e]
      BY <1>a, <2>1, Delays, ClaimedRowType DEF Rows
    <2>3. Claimed(d)
      BY <2>1, <2>2 DEF Claimed
    <2>4. /\ worker[w] = Idle
          /\ worker' = [worker EXCEPT ![w] =
                [Idle EXCEPT !.pc = "claimed", !.job = d, !.attempt = row[d].attempt + 1]]
      BY <1>1 DEF ClaimDueDelivery
    <2>5. /\ worker[w].pc = "idle" /\ worker'[w].pc = "claimed"
          /\ worker'[w].job = d /\ worker'[w].attempt = row[d].attempt + 1
          /\ \A v \in Workers \ {w} : worker'[v] = worker[v]
      BY <1>a, <2>4 DEF Idle
    <2> QED
      BY <2>1, <2>2, <2>3, <2>5 DEF ClaimedBy
  <1>2. CASE CancelStaleCard(d)
    <2>1. /\ row' = [row EXCEPT ![d] = WithStatus(@, "cancelled")]
          /\ row[d].status \in {"queued", "claimed"}
          /\ UNCHANGED <<worker, licences, reported>>
      BY <1>2 DEF CancelStaleCard, Claimable, Due
    <2>2. /\ row'[d].status = "cancelled" /\ row'[d].attempt = row[d].attempt
          /\ \A e \in Deliveries \ {d} : row'[e] = row[e]
      BY <1>a, <2>1, WithStatusType DEF Rows
    <2> QED
      BY <2>1, <2>2 DEF Calm, KeepsRow, Ends
  <1> QED
    BY <1>1, <1>2 DEF Claim

\* A cancelling UPDATE is calm, if it spares what is finished or absent and the
\* session links in flight; rows may be inserted after it.
LEMMA CancelledCalm ==
    ASSUME Inv, UNCHANGED <<licences, reported>>,
           NEW doomed,
           \A d \in Deliveries \cap doomed :
              /\ row[d].status \in {"queued", "claimed", "sending"}
              /\ Kind[d] = "session" => row[d].status # "sending",
           NEW new, NEW due \in Nat,
           \/ row' = Cancelled(row, doomed)
           \/ row' = Scheduled(Cancelled(row, doomed), new, due, StaleAfter)
    PROVE  \A d \in Deliveries : Calm(d)
  <1> DEFINE mid == Cancelled(row, doomed)
  <1>1. row \in Rows
    BY DEF Inv, TypeOK, Rows
  <1>2. /\ mid \in Rows
        /\ \A d \in Deliveries :
              \/ d \notin doomed /\ mid[d] = row[d]
              \/ d \in doomed /\ mid[d].status = "cancelled" /\ mid[d].attempt = row[d].attempt
    BY <1>1, CancelledRows
  <1>3. \A d \in Deliveries :
           \/ row'[d] = mid[d]
           \/ mid[d].status = "absent" /\ row'[d].status = "queued" /\ row'[d].attempt = 0
    <2>1. CASE row' = mid
      BY <2>1
    <2>2. CASE row' = Scheduled(mid, new, due, StaleAfter)
      BY <1>2, <2>2, Delays, ScheduledRows
    <2> QED
      BY <2>1, <2>2
  <1> HIDE DEF mid
  <1>4. AbsentIsUnused
    BY DEF Inv
  <1> QED
    BY <1>2, <1>3, <1>4 DEF Calm, KeepsRow, Ends, AbsentIsUnused

\* What owners do to the rows is calm, and no business of the threads.
LEMMA OwnerSteps ==
    ASSUME Inv, NEW i \in Incidents, OwnerActs(i)
    PROVE  (\A d \in Deliveries : Calm(d)) /\ worker' = worker
  <1> USE DEF store, bounds, history
  <1>a. TypeOK /\ AbsentIsUnused /\ 0 \in Nat /\ pause[Owner[i]] \in Nat
    BY OutboxAssumption DEF Inv, TypeOK
  <1>b. \A d \in Deliveries : Withdrawn(d) =>
           /\ row[d].status \in {"queued", "claimed", "sending"}
           /\ Kind[d] = "session" => row[d].status # "sending"
    BY DEF Withdrawn, IsNotice, NoticeKinds
  <1>1. CASE Acknowledge(i)
    BY <1>1, <1>a, <1>b, CancelledCalm DEF Acknowledge, UnchangedByOwner
  <1>2. CASE Resolve(i)
    <2>1. UNCHANGED <<licences, reported>> /\ worker' = worker
      BY <1>2 DEF Resolve, UnchangedByOwner
    <2> DEFINE doomed == {d \in RowsOf(i) : \/ Withdrawn(d)
                                            \/ /\ Kind[d] \in {"progress", "refresh", "phase"}
                                               /\ row[d].status \in {"queued", "claimed"}}
    <2>2. PICK new : row' = Scheduled(Cancelled(row, doomed), new, pause[Owner[i]], StaleAfter)
      BY <1>2 DEF Resolve
    <2>3. \A d \in Deliveries \cap doomed :
              /\ row[d].status \in {"queued", "claimed", "sending"}
              /\ Kind[d] = "session" => row[d].status # "sending"
      BY <1>b
    <2> HIDE DEF doomed
    <2> QED
      BY <1>a, <2>1, <2>2, <2>3, CancelledCalm
  <1>3. CASE Snooze(i)
    BY <1>3 DEF Snooze, UnchangedByOwner, Calm, KeepsRow
  <1>4. CASE Mute(i)
    BY <1>4, <1>a, CancelledCalm DEF Mute
  <1>5. CASE Unmute(i)
    <2>1. PICK new : row' = Scheduled(row, new, 0, StaleAfter)
      BY <1>5 DEF Unmute
    <2> QED
      BY <1>5, <1>a, <2>1, Delays, ScheduledCalm DEF Unmute
  <1> QED
    BY <1>1, <1>2, <1>3, <1>4, <1>5 DEF OwnerActs

\* A step is calm, licenses one send, or takes one generation of one row.
LEMMA Steps ==
    ASSUME Inv, [Next]_vars
    PROVE  \/ (\A d \in Deliveries : Calm(d)) /\ (\A v \in Workers : Onward(v))
           \/ \E w \in Workers, d \in Deliveries :
                 LicensedBy(w, d) /\ \A v \in Workers : Onward(v)
           \/ \E w \in Workers, d \in Deliveries : ClaimedBy(w, d)
  <1> USE DEF store, bounds, history
  <1>a. TypeOK /\ AbsentIsUnused /\ row \in Rows /\ worker \in [Workers -> Thread] /\ 0 \in Nat
    BY DEF Inv, TypeOK, Rows
  <1>b. worker' = worker => \A v \in Workers : Onward(v)
    BY DEF Onward
  <1>1. CASE UNCHANGED vars
    BY <1>1, <1>b DEF vars, Calm, KeepsRow
  <1>2. ASSUME NEW w \in Workers, WorkerStep(w)
        PROVE  \/ (\A d \in Deliveries : Calm(d)) /\ (\A v \in Workers : Onward(v))
               \/ \E d \in Deliveries : LicensedBy(w, d) /\ \A v \in Workers : Onward(v)
    BY <1>2, WorkerSteps
  <1>3. ASSUME NEW d \in Deliveries, Claim(d)
        PROVE  \/ (\A e \in Deliveries : Calm(e)) /\ (\A v \in Workers : Onward(v))
               \/ \E w \in Workers : ClaimedBy(w, d)
    BY <1>3, <1>b, ClaimSteps
  <1>4. ASSUME NEW d \in Deliveries, ScheduleNotice(d)
        PROVE  (\A e \in Deliveries : Calm(e)) /\ (\A v \in Workers : Onward(v))
    <2>1. UNCHANGED <<licences, reported>> /\ worker' = worker
      BY <1>4 DEF ScheduleNotice
    <2>2. CASE row' = Scheduled(row, {d}, 0, StaleAfter)
      BY <1>a, <1>b, <2>1, <2>2, Delays, ScheduledCalm
    <2>3. CASE /\ row[d].status = "cancelled" /\ Kind[d] = "session"
               /\ row' = [row EXCEPT ![d] = RequeuedRow(@, 0)]
      <3>1. /\ row'[d].status = "queued" /\ row'[d].attempt = row[d].attempt
            /\ \A e \in Deliveries \ {d} : row'[e] = row[e]
        BY <1>a, <2>3, RequeuedRowType DEF Rows
      <3>2. \A e \in Deliveries : Calm(e)
        BY <2>1, <2>3, <3>1 DEF Calm, KeepsRow
      <3> QED
        BY <1>b, <2>1, <3>2
    <2> QED
      BY <1>4, <2>2, <2>3 DEF ScheduleNotice
  <1>5. ASSUME NEW i \in Incidents, QueueIncidentCardRefresh(i)
        PROVE  (\A d \in Deliveries : Calm(d)) /\ (\A v \in Workers : Onward(v))
    <2>1. UNCHANGED <<licences, reported>> /\ worker' = worker
      BY <1>5 DEF QueueIncidentCardRefresh
    <2>2. PICK new : row' = Scheduled(row, new, pause[Owner[i]], StaleAfter)
      BY <1>5 DEF QueueIncidentCardRefresh
    <2>3. pause[Owner[i]] \in Nat
      BY <1>a, OutboxAssumption DEF TypeOK
    <2> QED
      BY <1>a, <1>b, <2>1, <2>2, <2>3, Delays, ScheduledCalm
  <1>6. ASSUME NEW i \in Managed, OwnerActs(i)
        PROVE  (\A d \in Deliveries : Calm(d)) /\ (\A v \in Workers : Onward(v))
    BY <1>6, <1>b, OwnerSteps, OutboxAssumption
  <1>7. ASSUME NEW p \in Processes, Crash(p)
        PROVE  (\A d \in Deliveries : Calm(d)) /\ (\A v \in Workers : Onward(v))
    BY <1>7, <1>a DEF Crash, Calm, KeepsRow, Onward, Idle, Thread
  <1>8. CASE Tick
    <2>1. \A d \in Deliveries : row'[d].status = row[d].status /\ row'[d].attempt = row[d].attempt
      BY <1>a, <1>8, AgedRowType DEF Tick, Rows
    <2>2. \A d \in Deliveries : Calm(d)
      BY <1>8, <2>1 DEF Tick, Calm, KeepsRow
    <2> QED
      BY <1>8, <1>b, <2>2 DEF Tick
  <1> QED
    BY <1>1, <1>2, <1>3, <1>4, <1>5, <1>6, <1>7, <1>8 DEF Next

-----------------------------------------------------------------------------
\* At first no row was claimed and no thread has a job.
LEMMA InvInit ==
    ASSUME Init
    PROVE  Inv
  <1>1. TypeOK
    BY InitTypeOK
  <1>2. AbsentIsUnused
    BY DEF Init, AbsentIsUnused, NewRow, AbsentRow
  <1>3. \A w \in Workers : worker[w].pc = "idle"
    BY DEF Init, Idle
  <1> QED
    BY <1>1, <1>2, <1>3 DEF Inv, StageFitsKind, Generations

\* A step keeps the generations apart.
LEMMA InvKept ==
    ASSUME Inv, [Next]_vars
    PROVE  Inv'
  <1>1. TypeOK /\ AbsentIsUnused /\ StageFitsKind /\ Generations
    BY DEF Inv
  <1>2. TypeOK'
    BY <1>1, TypeKept
  <1>3. /\ \A w \in Workers : worker[w].pc # "idle" => worker[w].job \in Deliveries
        /\ \A w \in Workers : worker[w].attempt \in Nat
        /\ \A d \in Deliveries : row[d].attempt \in Nat
    BY <1>1, Working DEF TypeOK, Thread, Row
  <1>4. ASSUME \A d \in Deliveries : Calm(d), \A v \in Workers : Onward(v)
        PROVE  AbsentIsUnused' /\ StageFitsKind' /\ Generations'
    <2>1. \A d \in Deliveries :
             /\ row'[d].attempt = row[d].attempt
             /\ row'[d].status = "sending" => row[d].status = "sending"
             /\ row'[d].status = "absent" => row[d].status = "absent"
      BY <1>4, CalmRow
    <2>2. AbsentIsUnused'
      BY <1>1, <2>1 DEF AbsentIsUnused
    <2>3. StageFitsKind'
      BY <1>1, <1>4 DEF StageFitsKind, Onward, IsTelegram
    <2>4. Generations'
      BY <1>1, <1>3, <1>4, <2>1 DEF Generations, Onward, BeforeSend
    <2> QED
      BY <2>2, <2>3, <2>4
  <1>5. ASSUME NEW w \in Workers, NEW d \in Deliveries, LicensedBy(w, d),
               \A v \in Workers : Onward(v)
        PROVE  AbsentIsUnused' /\ StageFitsKind' /\ Generations'
    <2>1. /\ row'[d].attempt = row[d].attempt /\ row'[d].status = "sending"
          /\ \A e \in Deliveries \ {d} : row'[e] = row[e]
      BY <1>5 DEF LicensedBy, Sends
    <2>2. AbsentIsUnused'
      BY <1>1, <2>1 DEF AbsentIsUnused
    <2>3. StageFitsKind'
      BY <1>1, <1>5 DEF StageFitsKind, Onward, IsTelegram
    <2>4. /\ worker[w].pc # "idle" /\ worker[w].job = d /\ worker'[w].pc \notin BeforeSend
          /\ row[d].attempt = worker[w].attempt
      BY <1>5 DEF LicensedBy, BeforeSend
    <2>5. Generations'
      BY <1>1, <1>3, <1>5, <2>1, <2>4 DEF Generations, Onward, BeforeSend
    <2> QED
      BY <2>2, <2>3, <2>5
  <1>6. ASSUME NEW w \in Workers, NEW d \in Deliveries, ClaimedBy(w, d)
        PROVE  AbsentIsUnused' /\ StageFitsKind' /\ Generations'
    <2>1. /\ row'[d].attempt = row[d].attempt + 1 /\ row'[d].status = "claimed"
          /\ \A e \in Deliveries \ {d} : row'[e] = row[e]
          /\ worker'[w].pc = "claimed" /\ worker'[w].job = d
          /\ worker'[w].attempt = row[d].attempt + 1
          /\ \A v \in Workers \ {w} : worker'[v] = worker[v]
      BY <1>6 DEF ClaimedBy, Claimed
    <2>2. AbsentIsUnused'
      BY <1>1, <2>1 DEF AbsentIsUnused
    <2>3. StageFitsKind'
      BY <1>1, <2>1 DEF StageFitsKind, IsTelegram
    <2>4. Generations'
      BY <1>1, <1>3, <2>1 DEF Generations, BeforeSend
    <2> QED
      BY <2>2, <2>3, <2>4
  <1> QED
    BY <1>2, <1>4, <1>5, <1>6, Steps DEF Inv

\* The generations of a claim are told apart in every reachable state.
THEOREM GenerationsApart == Spec => []Inv
  BY InvInit, InvKept, PTL DEF Spec

-----------------------------------------------------------------------------
(* The outbox implements the contract *)

\* The outbox starts as the contract does.
LEMMA ContractInit ==
    ASSUME Init
    PROVE  Contract!Init
  BY DEF Init, NewRow, AbsentRow, Contract!Init

\* Every step of the outbox is a step of the contract, or none of its business.
LEMMA ContractNext ==
    ASSUME Inv, [Next]_vars
    PROVE  [Contract!Next]_(Contract!vars)
  <1>1. Contract!TypeOK'
    <2>1. TypeOK'
      BY TypeKept DEF Inv
    <2> QED
      BY <2>1 DEF TypeOK, Row, Contract!TypeOK, Contract!Phases, Contract!Waiting, Contract!Over
  <1>2. \A d \in Deliveries : Calm(d) \/ Claimed(d) \/ Sends(d)
    <2>1. ASSUME NEW w \in Workers, NEW d \in Deliveries, NEW e \in Deliveries,
                 LicensedBy(w, d)
          PROVE  Calm(e) \/ Sends(e)
      BY <2>1 DEF LicensedBy, Calm, KeepsRow
    <2>2. ASSUME NEW w \in Workers, NEW d \in Deliveries, NEW e \in Deliveries,
                 ClaimedBy(w, d)
          PROVE  Calm(e) \/ Claimed(e)
      BY <2>2 DEF ClaimedBy, Calm, KeepsRow
    <2> QED
      BY <2>1, <2>2, Steps
  <1>3. \A d \in Deliveries : Contract!RowStep(d)
    BY <1>2, ContractStep
  <1> QED
    BY <1>1, <1>3 DEF Contract!Next

(* Claims, leases, crashes, replicas, owners and cards refine to the steps   *)
(* of one delivery at a time that DeliveryContract allows.                   *)
THEOREM ContractImplemented == Spec => KeepsContract
  BY GenerationsApart, ContractInit, ContractNext, PTL DEF Spec, KeepsContract, Contract!Spec

\* The constants of the outbox are what the contract asks for.
LEMMA ContractParameters == Contract!Parameters
  BY OutboxAssumption
     DEF Contract!Parameters, Repeatable, Revivable, NoticeKinds

(* Where the store accepts every report of a Telegram send, no send is       *)
(* repeated blindly.                                                         *)
THEOREM NeverResentBlindly ==
    ASSUME MaxFaults = 0
    PROVE  Spec => []NoBlindResend
  <1>1. Contract!SentOnce => NoBlindResend
    BY DEF Contract!SentOnce, NoBlindResend, Repeatable
  <1>2. KeepsContract => [](Contract!SentOnce /\ Contract!SentWithinLimit)
    BY ContractParameters, Contract!ContractKept DEF KeepsContract
  <1> QED
    BY <1>1, <1>2, ContractImplemented, PTL

(* No policy step is sent more often than its max_repeats, whatever the      *)
(* store refuses.                                                            *)
THEOREM SentWithinCeiling == Spec => []LicencesWithinCeiling
  <1>1. Contract!SentWithinLimit => LicencesWithinCeiling
    BY DEF Contract!SentWithinLimit, LicencesWithinCeiling
  <1>2. KeepsContract => [](Contract!SentOnce /\ Contract!SentWithinLimit)
    BY ContractParameters, Contract!ContractKept DEF KeepsContract
  <1> QED
    BY <1>1, <1>2, ContractImplemented, PTL

-----------------------------------------------------------------------------
(* One card, one send *)

\* A reservation finds no other send of the card; nothing else begins a send.
LEMMA OneSendKept ==
    ASSUME Inv, OneTelegramSendPerFamily, [Next]_vars
    PROVE  OneTelegramSendPerFamily'
  <1>1. \A d, e \in Deliveries : e \in Family(d) <=> IsTelegram(e) /\ OwnerOf(e) = OwnerOf(d)
    BY DEF Family
  <1> SUFFICES ASSUME NEW d \in Deliveries, NEW e \in Deliveries, d # e,
                      IsTelegram(d), IsTelegram(e), OwnerOf(e) = OwnerOf(d),
                      row'[d].status = "sending", row'[e].status = "sending"
               PROVE  FALSE
    BY DEF OneTelegramSendPerFamily, Family, IsTelegram, OwnerOf
  <1>2. ~(row[d].status = "sending" /\ row[e].status = "sending")
    BY <1>1 DEF OneTelegramSendPerFamily
  <1>3. CASE \A f \in Deliveries : Calm(f)
    BY <1>2, <1>3, CalmRow
  <1>4. ASSUME NEW w \in Workers, NEW f \in Deliveries, LicensedBy(w, f)
        PROVE  FALSE
    <2>1. /\ \A g \in Deliveries \ {f} : row'[g] = row[g]
          /\ IsTelegram(f) => \A g \in Family(f) \ {f} : row[g].status # "sending"
      BY <1>4 DEF LicensedBy, Competing
    <2> QED
      BY <1>1, <1>2, <2>1
  <1>5. ASSUME NEW w \in Workers, NEW f \in Deliveries, ClaimedBy(w, f)
        PROVE  FALSE
    BY <1>2, <1>5 DEF ClaimedBy, Claimed
  <1> QED
    BY <1>3, <1>4, <1>5, Steps

(* No two threads, of one process or of several, send for the same card at   *)
(* the same time: the reserving transaction keeps them apart, not the lock.  *)
THEOREM OneSendAtATime == Spec => []OneTelegramSendPerFamily
  <1>1. Init => OneTelegramSendPerFamily
    BY DEF Init, OneTelegramSendPerFamily, NewRow, AbsentRow
  <1> QED
    BY <1>1, OneSendKept, GenerationsApart, PTL DEF Spec

(* A finished row stays what it became; only a cancelled session link is     *)
(* queued again.                                                             *)
THEOREM FinishedStaysFinished == Spec => FinishedIsFinal
  <1>1. ASSUME Inv, [Next]_vars
        PROVE  \A d \in Deliveries :
                  row[d].status \in Finished =>
                     \/ row'[d].status = row[d].status
                     \/ Kind[d] = "session" /\ row[d].status = "cancelled"
    <2> SUFFICES ASSUME NEW d \in Deliveries, row[d].status \in Finished
                 PROVE  \/ row'[d].status = row[d].status
                        \/ Kind[d] = "session" /\ row[d].status = "cancelled"
      OBVIOUS
    <2>1. CASE Calm(d)
      BY <2>1 DEF Calm, Retried, Ends
    <2>2. ASSUME NEW w \in Workers, NEW e \in Deliveries, LicensedBy(w, e)
          PROVE  row'[d].status = row[d].status
      BY <2>2 DEF LicensedBy, Sends
    <2>3. ASSUME NEW w \in Workers, NEW e \in Deliveries, ClaimedBy(w, e)
          PROVE  row'[d].status = row[d].status
      BY <2>3 DEF ClaimedBy, Claimed
    <2> QED
      BY <1>1, <2>1, <2>2, <2>3, Steps
  <1> QED
    BY <1>1, GenerationsApart, PTL DEF Spec, FinishedIsFinal

\* A thread whose generation was reclaimed has a job that was inserted.
LEMMA ReclaimedIsPresent ==
    ASSUME Inv, NEW w \in Workers, worker[w].pc # "idle",
           row[worker[w].job].attempt # worker[w].attempt
    PROVE  worker[w].job \in Deliveries /\ row[worker[w].job].status # "absent"
  <1>1. worker[w].job \in Deliveries /\ worker[w].attempt \in Nat
    BY Working DEF Inv, Thread
  <1>2. worker[w].attempt <= row[worker[w].job].attempt
    BY DEF Inv, Generations
  <1> QED
    BY <1>1, <1>2 DEF Inv, AbsentIsUnused

\* A report, a reservation or a follow-up of a thread whose generation was reclaimed
\* meanwhile leaves the row as it is, also when the new holder is sending it
\* (complete_delivery, reserve_delivery_send).
THEOREM LateReportsAreIgnored == Spec => LateReportChangesNothing
  <1>1. ASSUME Inv, [Next]_vars, NEW w \in Workers, worker[w] # Idle, worker'[w] = Idle,
               row[worker[w].job].attempt # worker[w].attempt
        PROVE  row'[worker[w].job] = row[worker[w].job]
    <2> DEFINE d == worker[w].job
    <2> USE DEF store, bounds, history
    <2>a. ~Holds(w) /\ ~StillClaimed(w)
      BY <1>1 DEF Holds, StillClaimed
    <2>b. worker \in [Workers -> Thread] /\ row \in Rows
      BY <1>1 DEF Inv, TypeOK, Rows
    <2>c. StepDelay \in Nat /\ StaleAfter \in Nat /\ 0 \in Nat
      BY Delays
    <2>1. CASE row' = row
      BY <2>1
    <2>2. CASE worker' = worker
      BY <1>1, <2>2
    <2>3. ASSUME NEW new, NEW due \in Nat, worker[w].pc # "idle",
                 row' = Scheduled(row, new, due, StaleAfter)
          PROVE  row'[d] = row[d]
      BY <1>1, <2>b, <2>c, <2>3, ScheduledRows, ReclaimedIsPresent
    <2>4. ASSUME NEW outcome, NEW delay, NEW fan, NEW receipt, NEW pc,
                 ReportAndGo(w, outcome, delay, fan, receipt, pc)
          PROVE  row' = row
      BY <2>a, <2>4 DEF ReportAndGo, CompleteDelivery
    <2>5. ASSUME NEW v \in Workers, WorkerStep(v)
          PROVE  row'[d] = row[d]
      <3>1. CASE v # w
        <4>1. worker'[w] = worker[w]
          BY <2>b, <2>5, <3>1 DEF WorkerStep, Deliver, ReserveTelegramSend, ReserveDeliverySend,
             BuildPayload, TurnCardAway, RaiseBeforeReserve, TelegramReturns, EditIsRecorded,
             EditReturns, ReportIsRefused, MessageReturns, AgentReturns, AgentRaises, AgentGivesUp,
             AfterTelegramDelivery, ScheduleExecutorLaunchFailure, License, LoseClaim, Rest,
             Report, ReportLaunch, ReportAndGo
        <4> QED
          BY <1>1, <4>1
      <3>2. CASE v = w
        <4>1. CASE ReserveTelegramSend(w) \/ ReserveDeliverySend(w) \/ BuildPayload(w)
          BY <2>1, <2>a, <4>1 DEF ReserveTelegramSend, ReserveDeliverySend, BuildPayload, LoseClaim
        <4>2. CASE \/ TurnCardAway(w) \/ RaiseBeforeReserve(w) \/ TelegramReturns(w) \/ EditReturns(w)
                   \/ ReportIsRefused(w) \/ MessageReturns(w) \/ AgentReturns(w) \/ AgentGivesUp(w)
          BY <2>1, <2>4, <4>2 DEF TurnCardAway, RaiseBeforeReserve, TelegramReturns, EditReturns,
             ReportIsRefused, MessageReturns, AgentReturns, AgentGivesUp, ReportLaunch, Report
        <4>3. CASE EditIsRecorded(w)
          BY <2>1, <4>3 DEF EditIsRecorded
        <4>4. CASE AgentRaises(w)
          BY <2>1, <2>3, <2>c, <4>4 DEF AgentRaises
        <4>5. CASE AfterTelegramDelivery(w)
          BY <2>1, <2>3, <2>c, <4>5 DEF AfterTelegramDelivery
        <4>6. CASE ScheduleExecutorLaunchFailure(w)
          BY <2>3, <2>c, <4>6 DEF ScheduleExecutorLaunchFailure
        <4> QED
          BY <2>5, <3>2, <4>1, <4>2, <4>3, <4>4, <4>5, <4>6 DEF WorkerStep, Deliver
      <3> QED
        BY <3>1, <3>2
    <2>6. ASSUME NEW e \in Deliveries, Claim(e)
          PROVE  row'[d] = row[d]
      <3>1. CASE CancelStaleCard(e)
        BY <2>2, <3>1 DEF CancelStaleCard
      <3>2. ASSUME NEW v \in Workers, ClaimDueDelivery(v, e)
            PROVE  FALSE
        <4>1. v # w /\ worker'[w] = worker[w]
          BY <1>1, <2>b, <3>2 DEF ClaimDueDelivery
        <4> QED
          BY <1>1, <4>1
      <3> QED
        BY <2>6, <3>1, <3>2 DEF Claim
    <2>7. ASSUME NEW e \in Deliveries, ScheduleNotice(e)
          PROVE  row'[d] = row[d]
      BY <2>2, <2>7 DEF ScheduleNotice
    <2>8. ASSUME NEW i \in Incidents, QueueIncidentCardRefresh(i)
          PROVE  row'[d] = row[d]
      BY <2>2, <2>8 DEF QueueIncidentCardRefresh
    <2>9. ASSUME NEW i \in Managed, OwnerActs(i)
          PROVE  row'[d] = row[d]
      BY <2>2, <2>9 DEF OwnerActs, Acknowledge, Resolve, Snooze, Mute, Unmute, UnchangedByOwner
    <2>10. ASSUME NEW p \in Processes, Crash(p)
           PROVE  row'[d] = row[d]
      BY <2>1, <2>10 DEF Crash
    <2>11. CASE Tick
      BY <2>2, <2>11 DEF Tick
    <2>12. CASE UNCHANGED vars
      BY <2>1, <2>12 DEF vars
    <2> QED
      BY <1>1, <2>5, <2>6, <2>7, <2>8, <2>9, <2>10, <2>11, <2>12 DEF Next
  <1>2. ASSUME Inv, [Next]_vars
        PROVE  [\A w \in Workers :
                  /\ worker[w] # Idle /\ worker'[w] = Idle
                  /\ row[worker[w].job].attempt # worker[w].attempt
                  => row'[worker[w].job] = row[worker[w].job]]_vars
    BY <1>1, <1>2
  <1> QED
    BY <1>2, GenerationsApart, PTL DEF Spec, LateReportChangesNothing

-----------------------------------------------------------------------------
(***************************************************************************)
(* An acknowledged or resolved incident has no alert waiting to go out.    *)
(* The invariant is inductive with the types: a row waits because it       *)
(* waited before, because it is a notice, or because its incident wants it *)
(* at that moment; and whoever closes an incident cancels what waits.      *)
(***************************************************************************)
Pending == {"queued", "claimed"}

Wanted(d) ==
    \/ StateOf(d) \in Deliverable
    \/ Kind[d] = "agent" /\ StateOf(d) = "acknowledged"

\* The row waits only if it did, or has a reason to; its incident stays.
Quiet(d) ==
    /\ row'[d].status \in Pending => row[d].status \in Pending \/ IsNotice(d) \/ Wanted(d)
    /\ incident'[IncidentOf[d]].state = incident[IncidentOf[d]].state

\* A quiet step keeps the invariant of its row.
LEMMA QuietKeeps ==
    ASSUME SilentWhenClosed, \A d \in Deliveries : Quiet(d)
    PROVE  SilentWhenClosed'
  BY DEF SilentWhenClosed, Quiet, Wanted, Pending, StateOf, IsNotice

\* Inserting rows that are wanted, or notices, is quiet.
LEMMA ScheduledQuiet ==
    ASSUME TypeOK, incident' = incident,
           NEW new, \A d \in Deliveries \cap new : IsNotice(d) \/ Wanted(d),
           NEW due \in Nat,
           row' = Scheduled(row, new, due, StaleAfter)
    PROVE  \A d \in Deliveries : Quiet(d)
  <1>1. row \in Rows
    BY DEF TypeOK, Rows
  <1> QED
    BY <1>1, Delays, ScheduledRows DEF Quiet

\* A report leaves no row waiting that nobody wants.
LEMMA ReportedQuiet ==
    ASSUME TypeOK, NEW w \in Workers, worker[w].pc # "idle",
           NEW outcome \in Outcomes, NEW delay \in Nat, NEW fan \in BOOLEAN, NEW receipt, NEW pc,
           ReportAndGo(w, outcome, delay, fan, receipt, pc)
    PROVE  \A d \in Deliveries : Quiet(d)
  <1>1. worker[w].job \in Deliveries
    BY Working
  <1>2. CompleteDelivery(w, outcome, delay, fan, receipt) /\ incident' = incident
    BY DEF ReportAndGo
  <1> SUFFICES ASSUME NEW d \in Deliveries
               PROVE  row'[d].status \in Pending
                         => row[d].status \in Pending \/ IsNotice(d) \/ Wanted(d)
    BY <1>2 DEF Quiet
  <1>3. \/ row'[d] = row[d]
        \/ Inserted(d)
        \/ SettledAs(w, d, outcome)
    BY <1>1, <1>2, Completed
  <1>4. CASE Inserted(d)
    BY <1>4 DEF Inserted, Wanted
  <1>5. CASE SettledAs(w, d, outcome)
    <2>1. CASE Effective(d, outcome) = "retry"
      <3>1. ~Ineligible(d)
        BY <2>1 DEF Effective, Outcomes
      <3> QED
        BY <3>1 DEF Ineligible, Wanted
    <2>2. CASE Effective(d, outcome) # "retry"
      <3>1. Effective(d, outcome) \in Outcomes
        BY EffectiveOutcome
      <3> QED
        BY <1>5, <2>2, <3>1 DEF SettledAs, Outcomes, Pending
    <2> QED
      BY <2>1, <2>2
  <1> QED
    BY <1>3, <1>4, <1>5

\* The steps of the threads but one are quiet.
LEMMA WorkerQuiet ==
    ASSUME TypeOK, NEW w \in Workers, WorkerStep(w), ~ScheduleExecutorLaunchFailure(w)
    PROVE  \A e \in Deliveries : Quiet(e)
  <1> USE DEF store, bounds, history
  <1>a. row \in Rows /\ 0 \in Nat /\ TRUE \in BOOLEAN /\ FALSE \in BOOLEAN
    BY DEF TypeOK, Rows
  <1>b. worker[w].pc # "idle" => worker[w].job \in Deliveries
    BY Working
  <1>r. ASSUME NEW outcome \in Outcomes, NEW delay \in Nat, NEW fan \in BOOLEAN, NEW receipt, NEW pc,
               worker[w].pc # "idle",
               ReportAndGo(w, outcome, delay, fan, receipt, pc)
        PROVE  \A e \in Deliveries : Quiet(e)
    BY <1>r, ReportedQuiet
  <1>s. ASSUME row' = row, incident' = incident
        PROVE  \A e \in Deliveries : Quiet(e)
    BY <1>s DEF Quiet
  <1>l. ASSUME NEW d \in Deliveries, License(w, d), incident' = incident
        PROVE  \A e \in Deliveries : Quiet(e)
    BY <1>a, <1>l, WithStatusType DEF License, Rows, Quiet, Pending
  <1> USE DEF Outcomes
  <1>1. CASE ReserveTelegramSend(w)
    <2>1. PICK d \in Deliveries : d = worker[w].job
      BY <1>b, <1>1 DEF ReserveTelegramSend
    <2>2. CASE License(w, worker[w].job)
      BY <1>1, <1>l, <2>1, <2>2 DEF ReserveTelegramSend, License, Creates
    <2>3. CASE /\ row[d].status = "claimed"
               /\ row' = [row EXCEPT ![d] = RequeuedRow(@, PostponedFor(d))]
      BY <1>a, <1>1, <2>1, <2>3 DEF ReserveTelegramSend, Rows, Quiet, Pending
    <2>4. CASE LoseClaim(w)
      BY <1>1, <1>s, <2>4 DEF ReserveTelegramSend, LoseClaim
    <2> QED
      BY <1>1, <2>1, <2>2, <2>3, <2>4 DEF ReserveTelegramSend, StillClaimed
  <1>2. CASE BuildPayload(w)
    BY <1>2, <1>s DEF BuildPayload
  <1>3. CASE ReserveDeliverySend(w)
    <2>1. PICK d \in Deliveries : d = worker[w].job
      BY <1>b, <1>3 DEF ReserveDeliverySend
    <2>2. CASE License(w, worker[w].job)
      BY <1>3, <1>l, <2>1, <2>2 DEF ReserveDeliverySend, License, Creates
    <2>3. CASE LoseClaim(w)
      BY <1>3, <1>s, <2>3 DEF ReserveDeliverySend, LoseClaim
    <2> QED
      BY <1>3, <2>2, <2>3 DEF ReserveDeliverySend
  <1>4. CASE TurnCardAway(w)
    BY <1>a, <1>r, <1>4, Delays DEF TurnCardAway, Report
  <1>5. CASE RaiseBeforeReserve(w)
    BY <1>a, <1>r, <1>5, Delays DEF RaiseBeforeReserve, Report
  <1>6. CASE TelegramReturns(w)
    BY <1>a, <1>r, <1>6, Delays DEF TelegramReturns, Report
  <1>7. CASE EditIsRecorded(w)
    BY <1>7, <1>s DEF EditIsRecorded
  <1>8. CASE EditReturns(w)
    BY <1>a, <1>r, <1>8, Delays DEF EditReturns, Report
  <1>9. CASE ReportIsRefused(w)
    BY <1>a, <1>r, <1>9, Delays DEF ReportIsRefused
  <1>10. CASE MessageReturns(w)
    BY <1>a, <1>r, <1>10, Delays DEF MessageReturns, Report
  <1>11. CASE AgentReturns(w)
    BY <1>a, <1>r, <1>11, Delays DEF AgentReturns, ReportLaunch
  <1>12. CASE AgentRaises(w)
    <2>1. PICK d \in Deliveries : d = worker[w].job
      BY <1>b, <1>12 DEF AgentRaises
    <2>2. CASE row' = row
      BY <1>12, <1>s, <2>2 DEF AgentRaises
    <2>3. CASE row' = Scheduled(row, Interruption[d], 0, StaleAfter)
      <3>1. \A e \in Deliveries \cap Interruption[d] : IsNotice(e)
        BY OutboxAssumption DEF IsNotice
      <3> QED
        BY <1>a, <1>12, <2>3, <3>1, ScheduledQuiet DEF AgentRaises
    <2> QED
      BY <1>12, <2>1, <2>2, <2>3 DEF AgentRaises
  <1>13. CASE AgentGivesUp(w)
    BY <1>a, <1>r, <1>13, Delays DEF AgentGivesUp, ReportLaunch
  <1>14. CASE AfterTelegramDelivery(w)
    <2>1. PICK d \in Deliveries : d = worker[w].job
      BY <1>b, <1>14 DEF AfterTelegramDelivery
    <2>2. CASE row' = row
      BY <1>14, <1>s, <2>2 DEF AfterTelegramDelivery
    <2>3. CASE /\ StateOf(d) \in Deliverable
               /\ row' = Scheduled(row, Repeats[d], StepDelay, StaleAfter)
      <3>1. \A e \in Deliveries \cap Repeats[d] : Wanted(e)
        BY <2>3, OutboxAssumption DEF Wanted, StateOf
      <3> QED
        BY <1>14, <2>3, <3>1, Delays, ScheduledQuiet DEF AfterTelegramDelivery
    <2> QED
      BY <1>14, <2>1, <2>2, <2>3 DEF AfterTelegramDelivery, StateOf
  <1> QED
    BY <1>1, <1>2, <1>3, <1>4, <1>5, <1>6, <1>7, <1>8, <1>9, <1>10, <1>11, <1>12, <1>13, <1>14
       DEF WorkerStep, Deliver

\* The incident that a failed launch raises is open when its card is inserted.
LEMMA LaunchFailureSilent ==
    ASSUME TypeOK, SilentWhenClosed, NEW w \in Workers, ScheduleExecutorLaunchFailure(w)
    PROVE  SilentWhenClosed'
  <1> DEFINE new == {e \in LaunchCard[worker[w].job] : StateOf(e) = "absent"}
             cards == {e \in new : IncidentOf[e] \notin muted}
  <1>1. /\ row' = Scheduled(row, cards, 0, StaleAfter)
        /\ incident' = [i \in Incidents |->
              IF \E e \in new : IncidentOf[e] = i
              THEN [state |-> "open", snooze |-> 0] ELSE incident[i]]
    BY DEF ScheduleExecutorLaunchFailure
  <1>2. row \in Rows /\ 0 \in Nat /\ \A d \in Deliveries : IncidentOf[d] \in Incidents
    BY OutboxAssumption DEF TypeOK, Rows
  <1>3. \A d \in cards : d \in new
    OBVIOUS
  <1> HIDE DEF new, cards
  <1>4. \A d \in Deliveries : \/ row'[d] = row[d]
                              \/ d \in new /\ row'[d].status = "queued"
    BY <1>1, <1>2, <1>3, Delays, ScheduledRows
  <1>5. \A d \in Deliveries :
           \/ incident'[IncidentOf[d]].state = "open"
           \/ d \notin new /\ incident'[IncidentOf[d]] = incident[IncidentOf[d]]
    BY <1>1, <1>2
  <1> QED
    BY <1>4, <1>5 DEF SilentWhenClosed, StateOf, Deliverable, IsNotice

\* Claiming a row needs an incident that wants it; a stale card is dropped.
LEMMA ClaimQuiet ==
    ASSUME TypeOK, NEW d \in Deliveries, Claim(d)
    PROVE  \A e \in Deliveries : Quiet(e)
  <1> USE DEF bounds, history
  <1>1. row \in Rows /\ row[d].status \in Pending /\ incident' = incident
    BY DEF TypeOK, Rows, Claim, ClaimDueDelivery, CancelStaleCard, Claimable, Due, Pending
  <1>2. \A e \in Deliveries \ {d} : row'[e] = row[e]
    BY <1>1 DEF Claim, ClaimDueDelivery, CancelStaleCard, Rows
  <1> QED
    BY <1>1, <1>2 DEF Quiet

\* Cancelling rows inserts none and queues none.
LEMMA CancelledPending ==
    ASSUME TypeOK, NEW doomed, NEW d \in Deliveries,
           Cancelled(row, doomed)[d].status \in Pending
    PROVE  d \notin doomed /\ row[d].status \in Pending
  <1>1. row \in Rows
    BY DEF TypeOK, Rows
  <1> QED
    BY <1>1, CancelledRows DEF Pending

\* Owners cancel what waits when they close an incident.
LEMMA OwnerSilent ==
    ASSUME TypeOK, SilentWhenClosed, NEW i \in Incidents, OwnerActs(i)
    PROVE  SilentWhenClosed'
  <1> USE DEF bounds, history
  <1>a. /\ row \in Rows /\ 0 \in Nat /\ pause[Owner[i]] \in Nat
        /\ incident \in [Incidents -> [state : IncidentStates, snooze : Nat]]
        /\ \A d \in Deliveries : IncidentOf[d] \in Incidents
    BY OutboxAssumption DEF TypeOK, Rows
  <1>b. \A d \in Deliveries : row[d].status \in Pending => IsNotice(d) \/ Wanted(d)
    BY DEF SilentWhenClosed, Pending, Wanted
  <1> SUFFICES ASSUME NEW d \in Deliveries, row'[d].status \in Pending, ~IsNotice(d)
               PROVE  \/ incident'[IncidentOf[d]].state \in Deliverable
                      \/ Kind[d] = "agent" /\ incident'[IncidentOf[d]].state = "acknowledged"
    BY DEF SilentWhenClosed, Pending, StateOf, IsNotice
  <1>1. CASE Acknowledge(i)
    <2> DEFINE doomed == {e \in RowsOf(i) : Withdrawn(e) /\ Kind[e] # "agent"}
    <2>1. row' = Cancelled(row, doomed)
      BY <1>1 DEF Acknowledge
    <2>2. d \notin doomed /\ row[d].status \in Pending
      BY <2>1, CancelledPending
    <2>3. IncidentOf[d] = i => Kind[d] = "agent"
      BY <2>2 DEF RowsOf, Withdrawn, Pending
    <2> QED
      BY <1>a, <1>b, <1>1, <2>2, <2>3 DEF Acknowledge, Wanted, StateOf
  <1>2. CASE Resolve(i)
    <2> DEFINE doomed == {e \in RowsOf(i) : \/ Withdrawn(e)
                                            \/ /\ Kind[e] \in {"progress", "refresh", "phase"}
                                               /\ row[e].status \in {"queued", "claimed"}}
               silenced == Cancelled(row, doomed)
    <2>1. PICK new \in IF i \in Cleanup /\ Owner[i] \in card
                       THEN RefreshChoices(silenced, i) ELSE {{}} :
             row' = Scheduled(silenced, new, pause[Owner[i]], StaleAfter)
      BY <1>2 DEF Resolve
    <2>2. silenced \in Rows
      BY <1>a, CancelledRows
    <2>3. d \notin new
      BY <2>1 DEF RefreshChoices, OneUnused, Refreshes, IsNotice, NoticeKinds
    <2> HIDE DEF doomed
    <2>4. silenced[d].status \in Pending
      <3> HIDE DEF silenced
      <3> QED
        BY <1>a, <2>1, <2>2, <2>3, Delays, ScheduledRows
    <2>5. d \notin doomed /\ row[d].status \in Pending
      BY <2>4, CancelledPending
    <2>6. IncidentOf[d] # i
      BY <2>5 DEF doomed, RowsOf, Withdrawn, Pending
    <2> QED
      BY <1>a, <1>b, <1>2, <2>5, <2>6 DEF Resolve, Wanted, StateOf
  <1>3. CASE Snooze(i)
    BY <1>a, <1>b, <1>3 DEF Snooze, Wanted, StateOf, Deliverable
  <1>4. CASE Mute(i)
    BY <1>b, <1>4, CancelledPending DEF Mute, Wanted, StateOf
  <1>5. CASE Unmute(i)
    <2>1. PICK new \in IF incident[i].state \in Deliverable
                       THEN OneUnused(row, Restored[i]) ELSE {{}} :
             row' = Scheduled(row, new, 0, StaleAfter)
      BY <1>5 DEF Unmute
    <2>2. \A e \in Deliveries \cap new : Wanted(e)
      BY <2>1, OutboxAssumption DEF OneUnused, Wanted, StateOf
    <2>3. Quiet(d)
      BY <1>a, <1>5, <2>1, <2>2, ScheduledQuiet DEF Unmute
    <2> QED
      BY <1>b, <1>5, <2>3 DEF Quiet, Unmute, Wanted, StateOf
  <1> QED
    BY <1>1, <1>2, <1>3, <1>4, <1>5 DEF OwnerActs

-----------------------------------------------------------------------------
\* Every step keeps closed incidents silent.
LEMMA SilenceKept ==
    ASSUME TypeOK, SilentWhenClosed, [Next]_vars
    PROVE  SilentWhenClosed'
  <1> USE DEF store, bounds, history
  <1>a. row \in Rows /\ incident \in [Incidents -> [state : IncidentStates, snooze : Nat]]
    BY DEF TypeOK, Rows
  <1>b. 0 \in Nat /\ \A d \in Deliveries : IncidentOf[d] \in Incidents
    BY OutboxAssumption
  <1>1. CASE UNCHANGED vars
    BY <1>1 DEF vars, SilentWhenClosed, StateOf, IsNotice
  <1>2. ASSUME NEW w \in Workers, WorkerStep(w)
        PROVE  SilentWhenClosed'
    BY <1>2, WorkerQuiet, QuietKeeps, LaunchFailureSilent
  <1>3. ASSUME NEW d \in Deliveries, Claim(d)
        PROVE  SilentWhenClosed'
    BY <1>3, ClaimQuiet, QuietKeeps
  <1>4. ASSUME NEW d \in Deliveries, ScheduleNotice(d)
        PROVE  SilentWhenClosed'
    <2>1. IsNotice(d) /\ incident' = incident
      BY <1>4 DEF ScheduleNotice, IsNotice, NoticeKinds
    <2>2. CASE row' = Scheduled(row, {d}, 0, StaleAfter)
      BY <1>b, <2>1, <2>2, ScheduledQuiet, QuietKeeps
    <2>3. CASE row' = [row EXCEPT ![d] = RequeuedRow(@, 0)]
      <3>1. \A e \in Deliveries : Quiet(e)
        BY <1>a, <2>1, <2>3 DEF Quiet, Rows
      <3> QED
        BY <3>1, QuietKeeps
    <2> QED
      BY <1>4, <2>2, <2>3 DEF ScheduleNotice
  <1>5. ASSUME NEW i \in Incidents, QueueIncidentCardRefresh(i)
        PROVE  SilentWhenClosed'
    <2>1. PICK new \in RefreshChoices(row, i) :
             row' = Scheduled(row, new, pause[Owner[i]], StaleAfter)
      BY <1>5 DEF QueueIncidentCardRefresh
    <2>2. \A d \in Deliveries \cap new : IsNotice(d)
      BY DEF RefreshChoices, OneUnused, Refreshes, IsNotice, NoticeKinds
    <2>3. pause[Owner[i]] \in Nat /\ incident' = incident
      BY <1>5, OutboxAssumption DEF QueueIncidentCardRefresh, TypeOK
    <2> QED
      BY <2>1, <2>2, <2>3, ScheduledQuiet, QuietKeeps
  <1>6. ASSUME NEW i \in Managed, OwnerActs(i)
        PROVE  SilentWhenClosed'
    BY <1>6, OwnerSilent, OutboxAssumption
  <1>7. ASSUME NEW p \in Processes, Crash(p)
        PROVE  SilentWhenClosed'
    BY <1>7 DEF Crash, SilentWhenClosed, StateOf, IsNotice
  <1>8. CASE Tick
    <2>1. \A d \in Deliveries : row'[d].status = row[d].status
      BY <1>a, <1>8, AgedRowType DEF Tick, Rows
    <2>2. \A i \in Incidents : incident'[i].state = incident[i].state
      BY <1>a, <1>8 DEF Tick
    <2> QED
      BY <1>b, <2>1, <2>2 DEF SilentWhenClosed, StateOf, IsNotice
  <1> QED
    BY <1>1, <1>2, <1>3, <1>4, <1>5, <1>6, <1>7, <1>8 DEF Next

(* No alert of an acknowledged or resolved incident waits to go out,         *)
(* whatever workers, fan-outs, repeats, mutes and retries interleave with    *)
(* the owner who closed it.                                                  *)
THEOREM ClosedIsSilent == Spec => []SilentWhenClosed
  <1>1. Init => SilentWhenClosed
    <2>1. \A d \in Deliveries : IncidentOf[d] \in Incidents
      BY OutboxAssumption
    <2> QED
      BY <2>1 DEF Init, SilentWhenClosed, StateOf, Deliverable, NewRow, AbsentRow
  <1> QED
    BY <1>1, SilenceKept, TypeCorrect, PTL DEF Spec

-----------------------------------------------------------------------------
(***************************************************************************)
(* The threads of one process create one message per card.  What keeps     *)
(* the next creation back is the confirmed card, or a row that may have     *)
(* created it: its outcome is not known, or it is being sent by a thread    *)
(* that creates, or by one that died.  The lock of the process makes a      *)
(* prepared thread see the card as it is when it reserves.                  *)
(***************************************************************************)
AfterSend == {"sending", "edited"}

\* The send in flight is an edit or a deletion of the card.
IsHarmless(d) ==
    \E w \in Workers : /\ worker[w].pc \in AfterSend /\ worker[w].job = d
                       /\ worker[w].attempt = row[d].attempt
                       /\ ~Creates(w, d)
IsPledge(d) ==
    /\ IsTelegram(d)
    /\ row[d].status = "uncertain" \/ (row[d].status = "sending" /\ ~IsHarmless(d))

CreationsAreKnown(i) ==
    /\ creations[i] <= removals[i] + 1
    /\ \/ creations[i] <= removals[i] \/ i \in card
       \/ \E d \in Deliveries : OwnerOf(d) = i /\ IsPledge(d)

SeesTheCard == \A w \in Workers : worker[w].pc = "prepared" =>
                  worker[w].sees \/ OwnerOf(worker[w].job) \notin card

CardsInv == SeesTheCard /\ \A i \in Incidents : CreationsAreKnown(i)

\* A row that is not settled stays a pledge while no thread comes to work on it.
LEMMA PledgeStays ==
    ASSUME NEW d \in Deliveries, IsPledge(d),
           row'[d].status = row[d].status, row'[d].attempt = row[d].attempt,
           \A w \in Workers : worker'[w].pc \in AfterSend /\ worker'[w].job = d =>
              /\ worker[w].pc \in AfterSend /\ worker[w].job = d
              /\ worker[w].attempt = worker'[w].attempt
              /\ worker[w].sees = worker'[w].sees /\ worker[w].removes = worker'[w].removes
    PROVE  IsPledge(d)'
  <1>1. CASE row[d].status = "uncertain"
    BY <1>1 DEF IsPledge, IsTelegram
  <1>2. CASE row[d].status = "sending"
    <2>1. ~IsHarmless(d)
      BY <1>2 DEF IsPledge
    <2>2. ~IsHarmless(d)'
      BY <2>1 DEF IsHarmless, Creates, IsTelegram
    <2> QED
      BY <1>2, <2>2 DEF IsPledge, IsTelegram
  <1> QED
    BY <1>1, <1>2 DEF IsPledge

\* The accounts of the cards are kept if pledges stay or are redeemed, and a card is
\* forgotten when its message is deleted.
LEMMA AccountsKept ==
    ASSUME TypeOK, removals' \in [Incidents -> Nat], \A i \in Incidents : CreationsAreKnown(i),
           creations' = creations,
           \A d \in Deliveries : IsPledge(d) => IsPledge(d)' \/ OwnerOf(d) \in card',
           \A i \in Incidents :
              \/ removals'[i] = removals[i] /\ (i \in card => i \in card')
              \/ removals'[i] = removals[i] + 1
    PROVE  \A i \in Incidents : CreationsAreKnown(i)'
  <1> SUFFICES ASSUME NEW i \in Incidents
               PROVE  CreationsAreKnown(i)'
    OBVIOUS
  <1>1. creations[i] \in Nat /\ removals[i] \in Nat /\ removals'[i] \in Nat
    BY DEF TypeOK
  <1>2. CreationsAreKnown(i)
    OBVIOUS
  <1>3. CASE removals'[i] = removals[i] + 1
    BY <1>1, <1>2, <1>3 DEF CreationsAreKnown
  <1>4. CASE removals'[i] = removals[i] /\ (i \in card => i \in card')
    <2>1. CASE creations[i] <= removals[i] \/ i \in card
      BY <1>1, <1>2, <1>4, <2>1 DEF CreationsAreKnown
    <2>2. ASSUME NEW d \in Deliveries, OwnerOf(d) = i, IsPledge(d)
          PROVE  CreationsAreKnown(i)'
      <3>1. IsPledge(d)' \/ i \in card'
        BY <2>2
      <3>2. creations'[i] <= removals'[i] + 1
        BY <1>2, <1>4 DEF CreationsAreKnown
      <3>3. OwnerOf(d)' = i
        BY <2>2 DEF OwnerOf
      <3> QED
        BY <3>1, <3>2, <3>3 DEF CreationsAreKnown
    <2> QED
      BY <1>2, <2>1, <2>2 DEF CreationsAreKnown
  <1> QED
    BY <1>3, <1>4

\* Steps that settle no send of a card, and at which no thread begins one.
LEMMA CardsRest ==
    ASSUME Inv, \A i \in Incidents : CreationsAreKnown(i),
           UNCHANGED <<card, creations, removals>>,
           \A d \in Deliveries : IsTelegram(d) /\ row[d].status \in {"sending", "uncertain"} =>
              row'[d].status = row[d].status /\ row'[d].attempt = row[d].attempt,
           \A w \in Workers : worker'[w].pc \in AfterSend /\ IsTelegram(worker'[w].job) =>
              /\ worker[w].pc \in AfterSend /\ worker[w].job = worker'[w].job
              /\ worker[w].attempt = worker'[w].attempt
              /\ worker[w].sees = worker'[w].sees /\ worker[w].removes = worker'[w].removes
    PROVE  \A i \in Incidents : CreationsAreKnown(i)'
  <1>1. TypeOK /\ removals' \in [Incidents -> Nat]
    BY DEF Inv, TypeOK
  <1>2. ASSUME NEW d \in Deliveries, IsPledge(d)
        PROVE  IsPledge(d)'
    <2>1. row'[d].status = row[d].status /\ row'[d].attempt = row[d].attempt
      BY <1>2 DEF IsPledge
    <2>2. IsTelegram(d)
      BY <1>2 DEF IsPledge
    <2>3. \A w \in Workers : worker'[w].pc \in AfterSend /\ worker'[w].job = d =>
             /\ worker[w].pc \in AfterSend /\ worker[w].job = d
             /\ worker[w].attempt = worker'[w].attempt
             /\ worker[w].sees = worker'[w].sees /\ worker[w].removes = worker'[w].removes
      BY <2>2
    <2> QED
      BY <1>2, <2>1, <2>3, PledgeStays
  <1> QED
    BY <1>1, <1>2, AccountsKept

\* A report: whoever created a message says so, or that nobody knows.
LEMMA ReportedCards ==
    ASSUME Inv, \A i \in Incidents : CreationsAreKnown(i),
           NEW w \in Workers, worker[w].pc # "idle",
           NEW outcome \in Outcomes, NEW delay \in Nat, NEW fan \in BOOLEAN, NEW receipt,
           NEW pc \in Stages \ AfterSend,
           ReportAndGo(w, outcome, delay, fan, receipt, pc),
           IsTelegram(worker[w].job) =>
              \/ worker[w].pc \in BeforeSend
              \/ worker[w].pc \in AfterSend /\ ~Creates(w, worker[w].job)
              \/ outcome = "uncertain"
              \/ outcome = "sent" /\ receipt = "message"
    PROVE  \A i \in Incidents : CreationsAreKnown(i)'
  <1> DEFINE d == worker[w].job
  <1>1. TypeOK /\ d \in Deliveries /\ worker \in [Workers -> Thread]
    BY Working DEF Inv, TypeOK
  <1>2. CompleteDelivery(w, outcome, delay, fan, receipt) /\ creations' = creations
    BY DEF ReportAndGo
  <1>3. \A v \in Workers : worker'[v].pc \in AfterSend => worker'[v] = worker[v]
    BY <1>1 DEF ReportAndGo, Idle, AfterSend, Thread
  <1>4. /\ removals' \in [Incidents -> Nat]
        /\ \A e \in Deliveries :
              \/ row'[e] = row[e] /\ ~(e = d /\ Holds(w))
              \/ Inserted(e)
              \/ SettledAs(w, e, outcome)
    BY <1>1, <1>2, Completed
  <1>5. \A i \in Incidents :
           \/ removals'[i] = removals[i] /\ (i \in card => i \in card')
           \/ removals'[i] = removals[i] + 1
    <2>1. CASE Holds(w)
      <3>1. /\ removals' = IF receipt = "deleted"
                           THEN [removals EXCEPT ![OwnerOf(d)] = @ + 1] ELSE removals
            /\ \/ card' \in {card \cup {OwnerOf(d)}, card}
               \/ receipt = "deleted" /\ card' = card \ {OwnerOf(d)}
        BY <2>1, <1>2 DEF CompleteDelivery
      <3> QED
        BY <1>1, <3>1 DEF TypeOK
    <2>2. CASE ~Holds(w)
      BY <1>2, <2>2 DEF CompleteDelivery
    <2> QED
      BY <2>1, <2>2
  <1>6. ASSUME NEW e \in Deliveries, IsPledge(e)
        PROVE  IsPledge(e)' \/ OwnerOf(e) \in card'
    <2>1. CASE row'[e] = row[e]
      BY <1>3, <1>6, <2>1, PledgeStays
    <2>2. CASE Inserted(e)
      BY <1>6, <2>2 DEF IsPledge, Inserted
    <2>3. CASE SettledAs(w, e, outcome)
      <3>1. e = d /\ Holds(w) /\ row[e].status = "sending" /\ IsTelegram(d) /\ ~IsHarmless(e)
        BY <1>6, <2>3 DEF SettledAs, Holds, IsPledge
      <3>2. worker[w].pc \notin BeforeSend
        BY <3>1 DEF Inv, Generations, Holds
      <3>3. ~(worker[w].pc \in AfterSend /\ ~Creates(w, d))
        BY <3>1 DEF IsHarmless, Holds
      <3>4. CASE outcome = "uncertain"
        <4>1. row'[e].status = "uncertain"
          BY <2>3, <3>4 DEF SettledAs, Effective
        <4> QED
          BY <3>1, <4>1 DEF IsPledge, IsTelegram
      <3>5. CASE outcome = "sent" /\ receipt = "message"
        <4>1. Effective(d, outcome) = "sent"
          BY <3>1, <3>5 DEF Effective
        <4>2. card' = card \cup {OwnerOf(d)}
          BY <1>2, <3>1, <3>5, <4>1 DEF CompleteDelivery
        <4> QED
          BY <3>1, <4>2
      <3> QED
        BY <3>1, <3>2, <3>3, <3>4, <3>5
    <2> QED
      BY <1>4, <2>1, <2>2, <2>3
  <1> QED
    BY <1>1, <1>2, <1>4, <1>5, <1>6, AccountsKept

\* A reservation: a thread that creates finds neither a card nor a pledge.
LEMMA LicensedCards ==
    ASSUME Inv, CardsInv, NEW w \in Workers, worker[w].pc = "prepared",
           NEW d \in Deliveries, d = worker[w].job,
           StillClaimed(w), ~Postponed(d), License(w, d),
           UNCHANGED <<card, removals>>
    PROVE  \A i \in Incidents : CreationsAreKnown(i)'
  <1>1. /\ TypeOK /\ worker \in [Workers -> Thread] /\ row \in Rows
        /\ OwnerOf(d) \in Incidents /\ IsTelegram(d)
    BY OutboxAssumption DEF Inv, TypeOK, Rows, OwnerOf, StageFitsKind
  <1>2. /\ row'[d].status = "sending" /\ row'[d].attempt = row[d].attempt
        /\ \A e \in Deliveries \ {d} : row'[e] = row[e]
    BY <1>1, WithStatusType DEF License, Rows
  <1>3. /\ worker'[w].pc = "sending" /\ worker'[w].job = d
        /\ worker'[w].attempt = row[d].attempt
        /\ worker'[w].sees = worker[w].sees /\ worker'[w].removes = worker[w].removes
        /\ \A v \in Workers \ {w} : worker'[v] = worker[v]
    BY <1>1 DEF License, Thread, StillClaimed
  <1>4. ~IsPledge(d)
    BY DEF StillClaimed, IsPledge
  <1>5. ASSUME NEW e \in Deliveries, IsPledge(e)
        PROVE  IsPledge(e)'
    <2>1. e # d
      BY <1>4, <1>5
    <2> QED
      BY <1>2, <1>3, <1>5, <2>1, PledgeStays
  <1>6. creations \in [Incidents -> Nat] /\ removals \in [Incidents -> Nat]
    BY <1>1 DEF TypeOK
  <1>7. CASE ~Creates(w, d)
    <2>1. creations' = creations
      BY <1>7 DEF License
    <2> QED
      BY <1>1, <1>5, <1>6, <2>1, AccountsKept DEF CardsInv
  <1>8. CASE Creates(w, d)
    <2>1. creations' = [creations EXCEPT ![OwnerOf(d)] = @ + 1]
      BY <1>8 DEF License
    <2>2. OwnerOf(d) \notin card
      BY <1>8 DEF CardsInv, SeesTheCard, Creates
    <2>3. \A e \in Deliveries : OwnerOf(e) = OwnerOf(d) => ~IsPledge(e)
      <3>1. ~Obstructed(d)
        BY DEF Postponed
      <3>2. \A e \in Deliveries \ {d} : IsTelegram(e) /\ OwnerOf(e) = OwnerOf(d) =>
               row[e].status \notin {"sending", "uncertain"}
        BY <2>2, <3>1 DEF Obstructed, HasOriginal, Family
      <3> QED
        BY <1>4, <3>2 DEF IsPledge
    <2>4. creations[OwnerOf(d)] <= removals[OwnerOf(d)]
      BY <1>1, <2>2, <2>3 DEF CardsInv, CreationsAreKnown
    <2>5. IsPledge(d)'
      <3>1. ASSUME NEW v \in Workers, worker'[v].pc \in AfterSend, worker'[v].job = d,
                   worker'[v].attempt = row[d].attempt, v # w
            PROVE  FALSE
        <4>1. worker[v].pc # "idle" /\ worker[v].job = d /\ worker[v].attempt = worker[w].attempt
          BY <1>3, <3>1 DEF AfterSend, StillClaimed
        <4> QED
          BY <3>1, <4>1 DEF Inv, Generations
      <3>2. Creates(w, d)'
        BY <1>3, <1>8 DEF Creates, IsTelegram
      <3>3. ~IsHarmless(d)'
        BY <1>2, <3>1, <3>2 DEF IsHarmless
      <3> QED
        BY <1>1, <1>2, <3>3 DEF IsPledge, IsTelegram
    <2>6. ASSUME NEW i \in Incidents
          PROVE  CreationsAreKnown(i)'
      <3>1. CreationsAreKnown(i)
        BY DEF CardsInv
      <3>2. CASE i = OwnerOf(d)
        <4>1. OwnerOf(d)' = i
          BY <3>2 DEF OwnerOf
        <4>2. creations'[i] <= removals'[i] + 1
          BY <1>6, <2>1, <2>4, <3>2
        <4> QED
          BY <1>1, <2>5, <4>1, <4>2 DEF CreationsAreKnown
      <3>3. CASE i # OwnerOf(d)
        <4>1. creations'[i] = creations[i] /\ removals'[i] = removals[i]
          BY <1>6, <2>1, <3>3
        <4>2. \A e \in Deliveries : OwnerOf(e)' = OwnerOf(e)
          BY DEF OwnerOf
        <4> QED
          BY <1>5, <3>1, <4>1, <4>2 DEF CreationsAreKnown
      <3> QED
        BY <3>2, <3>3
    <2> QED
      BY <2>6
  <1> QED
    BY <1>7, <1>8

\* What a thread does, but for the reservation and the reports of a card, settles no send.
LEMMA WorkerCards ==
    ASSUME Inv, CardsInv, MaxFaults = 0, NEW w \in Workers, WorkerStep(w)
    PROVE  \A i \in Incidents : CreationsAreKnown(i)'
  <1> DEFINE known == \A i \in Incidents : CreationsAreKnown(i)'
  <1> USE DEF store, bounds, history
  <1>a. /\ TypeOK /\ StageFitsKind /\ worker \in [Workers -> Thread] /\ row \in Rows /\ faults \in Nat
        /\ \A i \in Incidents : CreationsAreKnown(i)
    BY DEF Inv, CardsInv, TypeOK, Rows
  <1>b. /\ RetryDelay \in Nat /\ 0 \in Nat /\ TRUE \in BOOLEAN /\ FALSE \in BOOLEAN
        /\ StepDelay \in Nat /\ StaleAfter \in Nat
    BY Delays
  <1>c. worker[w].pc # "idle" =>
           \E d \in Deliveries : d = worker[w].job
    BY <1>a, Working
  <1>d. /\ \A d \in Deliveries : IsTelegram(d) => Kind[d] \notin {"message", "agent"}
        /\ \A d \in Deliveries : Kind[d] = "edit" => ~Creates(w, d)
    BY DEF IsTelegram, TelegramKinds, CardKinds, NoticeKinds, Conclusions, Creates
  <1>1. ASSUME UNCHANGED <<card, creations, removals>>, UNCHANGED row \/ \E new \in SUBSET Deliveries, due \in Nat :
                  row' = Scheduled(row, new, due, StaleAfter),
               Rest(w) \/ \E pc \in {"interrupted", "edited"} :
                  (pc = "edited" => worker[w].pc = "sending") /\ worker' = [worker EXCEPT ![w].pc = pc]
        PROVE  known
    <2>1. \A d \in Deliveries : row[d].status # "absent" => row'[d] = row[d]
      BY <1>1, <1>a, <1>b, ScheduledRows
    <2>2. \A v \in Workers : worker'[v].pc \in AfterSend =>
              /\ worker[v].pc \in AfterSend /\ worker[v].job = worker'[v].job
              /\ worker[v].attempt = worker'[v].attempt
              /\ worker[v].sees = worker'[v].sees /\ worker[v].removes = worker'[v].removes
      BY <1>1, <1>a DEF Rest, Idle, AfterSend, Thread
    <2> QED
      BY <1>1, <1>a, <2>1, <2>2, CardsRest
  <1>2. CASE ReserveTelegramSend(w)
    <2>1. PICK d \in Deliveries : d = worker[w].job
      BY <1>2, <1>c DEF ReserveTelegramSend
    <2>2. CASE StillClaimed(w) /\ ~Postponed(d) /\ License(w, d)
      BY <1>2, <2>1, <2>2, LicensedCards DEF ReserveTelegramSend
    <2>3. CASE /\ StillClaimed(w) /\ row' = [row EXCEPT ![d] = RequeuedRow(@, PostponedFor(d))]
               /\ Rest(w) /\ UNCHANGED <<licences, creations>>
      <3>1. \A e \in Deliveries : row[e].status \in {"sending", "uncertain"} => row'[e] = row[e]
        BY <1>a, <2>1, <2>3 DEF StillClaimed, Rows
      <3>2. \A v \in Workers : worker'[v].pc \in AfterSend => worker'[v] = worker[v]
        BY <1>a, <2>3 DEF Rest, Idle, AfterSend
      <3>3. UNCHANGED <<card, creations, removals>>
        BY <1>2, <2>3 DEF ReserveTelegramSend
      <3> QED
        BY <1>a, <3>1, <3>2, <3>3, CardsRest
    <2>4. CASE LoseClaim(w)
      BY <1>1, <1>2, <2>4 DEF ReserveTelegramSend, LoseClaim
    <2> QED
      BY <1>2, <2>1, <2>2, <2>3, <2>4 DEF ReserveTelegramSend, LoseClaim
  <1>3. CASE ReserveDeliverySend(w)
    <2>1. PICK d \in Deliveries : d = worker[w].job /\ ~IsTelegram(d)
      BY <1>3, <1>c DEF ReserveDeliverySend
    <2>2. CASE License(w, d)
      <3>1. /\ \A e \in Deliveries \ {d} : row'[e] = row[e]
            /\ creations' = creations
        BY <1>a, <2>1, <2>2 DEF License, Creates, Rows
      <3>2. \A v \in Workers : worker'[v].pc \in AfterSend /\ IsTelegram(worker'[v].job) => worker'[v] = worker[v]
        BY <1>a, <2>1, <2>2 DEF License, AfterSend, Thread, IsTelegram
      <3>3. UNCHANGED <<card, removals>>
        BY <1>3 DEF ReserveDeliverySend
      <3> QED
        BY <1>a, <2>1, <3>1, <3>2, <3>3, CardsRest
    <2>3. CASE LoseClaim(w)
      BY <1>1, <1>3, <2>3 DEF ReserveDeliverySend, LoseClaim
    <2> QED
      BY <1>3, <2>1, <2>2, <2>3 DEF ReserveDeliverySend
  <1>4. CASE BuildPayload(w)
    <2>1. UNCHANGED <<row, card, creations, removals>>
      BY <1>4 DEF BuildPayload
    <2>2. /\ \A v \in Workers \ {w} : worker'[v] = worker[v]
          /\ worker'[w].pc \in {"prepared", "idle"}
      <3>1. CASE Rest(w)
        BY <1>a, <3>1 DEF Rest, Idle
      <3>2. ASSUME NEW sees, NEW removes,
                   worker' = [worker EXCEPT ![w] =
                      [@ EXCEPT !.pc = "prepared", !.sees = sees, !.removes = removes]]
            PROVE  /\ \A v \in Workers \ {w} : worker'[v] = worker[v]
                   /\ worker'[w].pc = "prepared"
        BY <1>a, <3>2 DEF Thread
      <3> QED
        BY <1>4, <3>1, <3>2 DEF BuildPayload
    <2>3. \A v \in Workers : worker'[v].pc \in AfterSend => worker'[v] = worker[v]
      BY <2>2 DEF AfterSend
    <2> QED
      BY <1>a, <2>1, <2>3, CardsRest
  <1>5. CASE EditIsRecorded(w)
    BY <1>1, <1>5 DEF EditIsRecorded
  <1>6. CASE AgentRaises(w)
    <2>1. PICK d \in Deliveries : d = worker[w].job
      BY <1>6, <1>c DEF AgentRaises
    <2>2. Interruption[d] \in SUBSET Deliveries
      BY OutboxAssumption
    <2> QED
      BY <1>1, <1>6, <1>b, <2>1, <2>2 DEF AgentRaises
  <1>7. CASE AfterTelegramDelivery(w)
    <2>1. PICK d \in Deliveries : d = worker[w].job
      BY <1>7, <1>c DEF AfterTelegramDelivery
    <2>2. Repeats[d] \in SUBSET Deliveries
      BY OutboxAssumption
    <2> QED
      BY <1>1, <1>7, <1>b, <2>1, <2>2 DEF AfterTelegramDelivery
  <1>8. CASE ScheduleExecutorLaunchFailure(w)
    <2>1. PICK d \in Deliveries : d = worker[w].job
      BY <1>8, <1>c DEF ScheduleExecutorLaunchFailure
    <2> DEFINE new == {e \in LaunchCard[d] : StateOf(e) = "absent"}
               raised == {e \in new : IncidentOf[e] \notin muted}
    <2>2. raised \in SUBSET Deliveries
      BY OutboxAssumption
    <2>3. row' = Scheduled(row, raised, 0, StaleAfter) /\ Rest(w) /\ UNCHANGED <<card, creations, removals>>
      BY <1>8, <2>1 DEF ScheduleExecutorLaunchFailure
    <2> HIDE DEF raised
    <2> QED
      BY <1>1, <1>b, <2>2, <2>3
  <1>9. ASSUME NEW outcome \in Outcomes, NEW delay \in Nat, NEW fan \in BOOLEAN, NEW receipt,
               NEW pc \in {"idle", "sent", "escalate"},
               ReportAndGo(w, outcome, delay, fan, receipt, pc), worker[w].pc # "idle",
               IsTelegram(worker[w].job) =>
                  \/ worker[w].pc \in BeforeSend
                  \/ worker[w].pc \in AfterSend /\ ~Creates(w, worker[w].job)
                  \/ outcome = "uncertain"
                  \/ outcome = "sent" /\ receipt = "message"
        PROVE  known
    <2>1. pc \in Stages \ AfterSend
      BY DEF Stages, AfterSend
    <2> QED
      BY <1>9, <1>a, <2>1, ReportedCards
  <1>10. CASE TurnCardAway(w) \/ RaiseBeforeReserve(w)
    <2>1. worker[w].pc = "claimed"
      BY <1>10 DEF TurnCardAway, RaiseBeforeReserve
    <2>2. PICK outcome \in {"cancelled", "retry"} :
             ReportAndGo(w, outcome, RetryDelay, TRUE, "none", "idle")
      BY <1>10 DEF TurnCardAway, RaiseBeforeReserve, Report
    <2>3. outcome \in Outcomes /\ worker[w].pc # "idle" /\ worker[w].pc \in BeforeSend
      BY <2>1 DEF Outcomes, BeforeSend
    <2> QED
      BY <1>9, <1>b, <2>2, <2>3
  <1>11. CASE TelegramReturns(w)
    <2>1. PICK d \in Deliveries : d = worker[w].job
      BY <1>11, <1>c DEF TelegramReturns
    <2>2. worker[w].pc = "sending"
      BY <1>11 DEF TelegramReturns
    <2>3. CASE Report(w, "uncertain", 0, TRUE, "none")
      <3>1. ReportAndGo(w, "uncertain", 0, TRUE, "none", "idle") /\ "uncertain" \in Outcomes
        BY <2>3 DEF Report, Outcomes
      <3> QED
        BY <1>9, <1>b, <2>2, <3>1
    <2>4. ASSUME NEW receipt \in ReceiptsOf(w), NEW pc \in {"idle", "sent"},
                 ReportAndGo(w, "sent", 0, TRUE, receipt, pc)
          PROVE  known
      <3>1. Creates(w, d) => receipt = "message"
        BY <2>4 DEF Creates, ReceiptsOf
      <3>2. "sent" \in Outcomes /\ worker[w].pc # "idle" /\ worker[w].pc \in AfterSend
        BY <2>2 DEF Outcomes, AfterSend
      <3> QED
        BY <1>9, <1>b, <2>1, <2>4, <3>1, <3>2
    <2> QED
      BY <1>11, <2>3, <2>4 DEF TelegramReturns
  <1>12. CASE EditReturns(w)
    <2>1. PICK d \in Deliveries : d = worker[w].job /\ Kind[d] = "edit"
      BY <1>12, <1>c DEF EditReturns
    <2>2. worker[w].pc \in AfterSend /\ ~Creates(w, worker[w].job)
      BY <1>12, <1>d, <2>1 DEF EditReturns, AfterSend
    <2>3. PICK outcome \in {"superseded", "uncertain"} : ReportAndGo(w, outcome, 0, TRUE, "none", "idle")
      BY <1>12 DEF EditReturns, Report
    <2>4. outcome \in Outcomes /\ worker[w].pc # "idle"
      BY <2>2 DEF Outcomes, AfterSend
    <2> QED
      BY <1>9, <1>b, <2>2, <2>3, <2>4
  <1>13. CASE ReportIsRefused(w)
    BY <1>13, <1>a DEF ReportIsRefused
  <1>14. CASE MessageReturns(w) \/ AgentReturns(w) \/ AgentGivesUp(w)
    <2>1. PICK d \in Deliveries : d = worker[w].job
      BY <1>14, <1>c DEF MessageReturns, AgentReturns, AgentGivesUp
    <2>2. ~IsTelegram(d)
      BY <1>14, <1>a, <1>d, <2>1 DEF MessageReturns, AgentReturns, AgentGivesUp, StageFitsKind
    <2>3. worker[w].pc # "idle"
      BY <1>14 DEF MessageReturns, AgentReturns, AgentGivesUp
    <2>4. PICK outcome \in Outcomes, delay \in {0, RetryDelay}, fan \in BOOLEAN, pc \in {"idle", "escalate"} :
             ReportAndGo(w, outcome, delay, fan, "none", pc)
      <3>1. {"sent", "retry", "failed", "uncertain", "cancelled"} \subseteq Outcomes
        BY DEF Outcomes
      <3>2. CASE MessageReturns(w)
        BY <1>b, <3>1, <3>2 DEF MessageReturns, Report
      <3>3. CASE AgentReturns(w) \/ AgentGivesUp(w)
        <4>1. PICK outcome \in {"sent", "retry", "failed", "cancelled"} : ReportLaunch(w, outcome)
          BY <3>3 DEF AgentReturns, AgentGivesUp
        <4> QED
          BY <1>b, <3>1, <4>1 DEF ReportLaunch
      <3> QED
        BY <1>14, <3>2, <3>3
    <2> QED
      BY <1>9, <1>b, <2>1, <2>2, <2>3, <2>4
  <1> QED
    BY <1>2, <1>3, <1>4, <1>5, <1>6, <1>7, <1>8, <1>10, <1>11, <1>12, <1>13, <1>14
    DEF WorkerStep, Deliver

\* Claims, schedules, owners, crashes and time settle no send of a card.
LEMMA OtherCards ==
    ASSUME Inv, CardsInv, [Next]_vars, \A w \in Workers : ~WorkerStep(w)
    PROVE  \A i \in Incidents : CreationsAreKnown(i)'
  <1> DEFINE Unsettled(d) == row[d].status \in {"sending", "uncertain"}
             Same(d) == row'[d].status = row[d].status /\ row'[d].attempt = row[d].attempt
  <1> USE DEF store, bounds, history
  <1>a. /\ TypeOK /\ worker \in [Workers -> Thread] /\ row \in Rows
        /\ \A i \in Incidents : CreationsAreKnown(i)
    BY DEF Inv, CardsInv, TypeOK, Rows
  <1>b. 0 \in Nat /\ StaleAfter \in Nat /\ \A i \in Incidents : Owner[i] \in Incidents /\ pause[Owner[i]] \in Nat
    BY <1>a, Delays, OutboxAssumption DEF TypeOK
  <1>1. ASSUME UNCHANGED <<card, creations, removals>>,
               \A d \in Deliveries : IsTelegram(d) /\ Unsettled(d) => Same(d),
               \A w \in Workers : worker'[w].pc \in AfterSend => worker'[w] = worker[w]
        PROVE  \A i \in Incidents : CreationsAreKnown(i)'
    BY <1>1, <1>a, CardsRest
  <1>2. ASSUME NEW new, NEW due \in Nat, row' = Scheduled(row, new, due, StaleAfter)
        PROVE  \A d \in Deliveries : Unsettled(d) => Same(d)
    BY <1>2, <1>a, <1>b, ScheduledRows
  <1>3. ASSUME NEW doomed, \A d \in Deliveries \cap doomed : ~(IsTelegram(d) /\ Unsettled(d)),
               NEW new, NEW due \in Nat,
               \/ row' = Cancelled(row, doomed)
               \/ row' = Scheduled(Cancelled(row, doomed), new, due, StaleAfter)
        PROVE  \A d \in Deliveries : IsTelegram(d) /\ Unsettled(d) => Same(d)
    <2> DEFINE mid == Cancelled(row, doomed)
    <2>1. mid \in Rows /\ \A d \in Deliveries : d \notin doomed => mid[d] = row[d]
      BY <1>a, CancelledRows
    <2>2. \A d \in Deliveries : row'[d] = mid[d] \/ mid[d].status = "absent"
      <3> HIDE DEF mid
      <3>1. CASE row' = mid
        BY <3>1
      <3>2. CASE row' = Scheduled(mid, new, due, StaleAfter)
        BY <1>b, <2>1, <3>2, ScheduledRows
      <3> QED
        BY <1>3, <3>1, <3>2 DEF mid
    <2> HIDE DEF mid
    <2> QED
      BY <1>3, <2>1, <2>2
  <1>4. CASE UNCHANGED vars
    BY <1>1, <1>4 DEF vars
  <1>5. ASSUME NEW d \in Deliveries, Claim(d)
        PROVE  \A i \in Incidents : CreationsAreKnown(i)'
    <2>1. Claimable(d) /\ ~Unsettled(d) /\ UNCHANGED <<card, creations, removals>>
      BY <1>5 DEF Claim, ClaimDueDelivery, CancelStaleCard, Claimable, Due
    <2>2. \A e \in Deliveries \ {d} : row'[e] = row[e]
      BY <1>5, <1>a DEF Claim, ClaimDueDelivery, CancelStaleCard, Rows
    <2>3. \A w \in Workers : worker'[w].pc \in AfterSend => worker'[w] = worker[w]
      <3>1. CASE worker' = worker
        BY <3>1
      <3>2. ASSUME NEW v \in Workers, NEW n,
                   worker' = [worker EXCEPT ![v] =
                      [Idle EXCEPT !.pc = "claimed", !.job = d, !.attempt = n]]
            PROVE  \A w \in Workers : worker'[w].pc \in AfterSend => worker'[w] = worker[w]
        BY <1>a, <3>2 DEF Idle, AfterSend
      <3> QED
        BY <1>5, <3>1, <3>2 DEF Claim, ClaimDueDelivery, CancelStaleCard
    <2> QED
      BY <1>1, <2>1, <2>2, <2>3
  <1>6. ASSUME NEW d \in Deliveries, ScheduleNotice(d)
        PROVE  \A i \in Incidents : CreationsAreKnown(i)'
    <2>1. UNCHANGED <<card, creations, removals, worker>>
      BY <1>6 DEF ScheduleNotice
    <2>2. CASE row' = Scheduled(row, {d}, 0, StaleAfter)
      BY <1>1, <1>2, <1>b, <2>1, <2>2
    <2>3. CASE row[d].status = "cancelled" /\ row' = [row EXCEPT ![d] = RequeuedRow(@, 0)]
      <3>1. \A e \in Deliveries : Unsettled(e) => row'[e] = row[e]
        BY <1>a, <2>3 DEF Rows
      <3> QED
        BY <1>1, <2>1, <3>1
    <2> QED
      BY <1>6, <2>2, <2>3 DEF ScheduleNotice
  <1>7. ASSUME NEW i \in Incidents, QueueIncidentCardRefresh(i)
        PROVE  \A j \in Incidents : CreationsAreKnown(j)'
    <2>1. UNCHANGED <<card, creations, removals, worker>>
      BY <1>7 DEF QueueIncidentCardRefresh
    <2>2. PICK new : row' = Scheduled(row, new, pause[Owner[i]], StaleAfter)
      BY <1>7 DEF QueueIncidentCardRefresh
    <2> QED
      BY <1>1, <1>2, <1>b, <2>1, <2>2
  <1>8. ASSUME NEW i \in Managed, OwnerActs(i)
        PROVE  \A j \in Incidents : CreationsAreKnown(j)'
    <2>1. UNCHANGED <<card, creations, removals, worker>> /\ i \in Incidents
      BY <1>8, OutboxAssumption DEF OwnerActs, Acknowledge, Resolve, Snooze, Mute, Unmute, UnchangedByOwner
    <2>2. \A d \in Deliveries : Withdrawn(d) => ~(IsTelegram(d) /\ Unsettled(d))
      BY DEF Withdrawn
    <2>3. CASE Acknowledge(i)
      BY <1>1, <1>3, <1>b, <2>1, <2>2, <2>3 DEF Acknowledge
    <2>4. CASE Resolve(i)
      <3> DEFINE doomed == {d \in RowsOf(i) : \/ Withdrawn(d)
                                              \/ /\ Kind[d] \in {"progress", "refresh", "phase"}
                                                 /\ row[d].status \in {"queued", "claimed"}}
      <3>1. PICK new : row' = Scheduled(Cancelled(row, doomed), new, pause[Owner[i]], StaleAfter)
        BY <2>4 DEF Resolve
      <3>2. \A d \in Deliveries \cap doomed : ~(IsTelegram(d) /\ Unsettled(d))
        BY <2>2
      <3> HIDE DEF doomed
      <3> QED
        BY <1>1, <1>3, <1>b, <2>1, <3>1, <3>2
    <2>5. CASE Snooze(i)
      BY <1>1, <2>1, <2>5 DEF Snooze
    <2>6. CASE Mute(i)
      BY <1>1, <1>3, <1>b, <2>1, <2>6 DEF Mute
    <2>7. CASE Unmute(i)
      <3>1. PICK new : row' = Scheduled(row, new, 0, StaleAfter)
        BY <2>7 DEF Unmute
      <3> QED
        BY <1>1, <1>2, <1>b, <2>1, <3>1
    <2> QED
      BY <1>8, <2>3, <2>4, <2>5, <2>6, <2>7 DEF OwnerActs
  <1>9. ASSUME NEW p \in Processes, Crash(p)
        PROVE  \A i \in Incidents : CreationsAreKnown(i)'
    BY <1>1, <1>9, <1>a DEF Crash, Idle, AfterSend
  <1>10. CASE Tick
    <2>1. \A d \in Deliveries : Same(d)
      BY <1>a, <1>10, AgedRowType DEF Tick, Rows
    <2> QED
      BY <1>1, <1>10, <2>1 DEF Tick
  <1> QED
    BY <1>4, <1>5, <1>6, <1>7, <1>8, <1>9, <1>10 DEF Next

\* The lock: while a thread of the process is prepared, nothing changes the card.
LEMMA CardIsSeen ==
    ASSUME Inv, SeesTheCard, \A p, q \in Processes : p = q, [Next]_vars
    PROVE  SeesTheCard'
  <1> USE DEF store, bounds, history
  <1>a. worker \in [Workers -> Thread] /\ Home \in [Workers -> Processes]
    BY OutboxAssumption DEF Inv, TypeOK
  <1>1. ASSUME card' = card,
               \A w \in Workers : worker'[w].pc = "prepared" => worker'[w] = worker[w]
        PROVE  SeesTheCard'
    BY <1>1 DEF SeesTheCard, OwnerOf
  <1>2. CASE \E w \in Workers : worker[w].pc = "prepared"
    <2>1. \A p \in Processes : Locked(p)
      BY <1>2, <1>a DEF Locked
    <2>2. \A w \in Workers : Home[w] \in Processes
      BY <1>a
    <2>3. \/ \E w \in Workers : ReserveTelegramSend(w)
          \/ \E p \in Processes : Crash(p)
          \/ Tick \/ UNCHANGED vars
      BY <2>1, <2>2 DEF Next, WorkerStep
    <2>4. ASSUME NEW w \in Workers, ReserveTelegramSend(w)
          PROVE  SeesTheCard'
      <3>1. card' = card
        BY <2>4 DEF ReserveTelegramSend
      <3>2. \A v \in Workers : worker'[v].pc = "prepared" => worker'[v] = worker[v]
        BY <2>4, <1>a DEF ReserveTelegramSend, License, LoseClaim, Rest, Idle, Thread
      <3> QED
        BY <1>1, <3>1, <3>2
    <2>5. ASSUME NEW p \in Processes, Crash(p)
          PROVE  SeesTheCard'
      BY <1>1, <1>a, <2>5 DEF Crash, Idle
    <2>6. CASE Tick
      BY <1>1, <2>6 DEF Tick
    <2>7. CASE UNCHANGED vars
      BY <1>1, <2>7 DEF vars
    <2> QED
      BY <2>3, <2>4, <2>5, <2>6, <2>7
  <1>3. CASE \A w \in Workers : worker[w].pc # "prepared"
    <2>1. ASSUME NEW v \in Workers, BuildPayload(v)
          PROVE  SeesTheCard'
      <3>1. card' = card
        BY <2>1 DEF BuildPayload
      <3>2. CASE Rest(v)
        BY <1>1, <1>3, <1>a, <3>1, <3>2 DEF Rest, Idle
      <3>3. ASSUME NEW removes,
                   worker' = [worker EXCEPT ![v] =
                      [@ EXCEPT !.pc = "prepared", !.sees = HasOriginal(worker[v].job), !.removes = removes]]
            PROVE  SeesTheCard'
        <4>1. /\ worker'[v].sees = (OwnerOf(worker[v].job) \in card) /\ worker'[v].job = worker[v].job
              /\ \A w \in Workers \ {v} : worker'[w] = worker[w]
          BY <1>a, <3>3 DEF HasOriginal, Thread
        <4>2. OwnerOf(worker'[v].job) = OwnerOf(worker[v].job)
          BY <4>1
        <4> QED
          BY <1>3, <3>1, <4>1, <4>2 DEF SeesTheCard, OwnerOf
      <3> QED
        BY <2>1, <3>2, <3>3 DEF BuildPayload
    <2>2. ASSUME \A v \in Workers : ~BuildPayload(v)
          PROVE  \A w \in Workers : worker'[w].pc # "prepared"
      <3>0. ASSUME NEW v \in Workers,
                   Rest(v) \/ \E pc \in Stages \ {"prepared"} :
                      worker' = [worker EXCEPT ![v] = [@ EXCEPT !.pc = pc]]
            PROVE  \A w \in Workers : worker'[w].pc # "prepared"
        BY <1>3, <1>a, <3>0 DEF Rest, Idle, Thread
      <3>1. ASSUME NEW v \in Workers, WorkerStep(v)
            PROVE  \A w \in Workers : worker'[w].pc # "prepared"
        <4>1. ASSUME NEW outcome, NEW delay, NEW fan, NEW receipt,
                     NEW pc \in {"idle", "sent", "escalate"},
                     ReportAndGo(v, outcome, delay, fan, receipt, pc)
              PROVE  \A w \in Workers : worker'[w].pc # "prepared"
          <5>1. pc \in Stages \ {"prepared"}
            BY DEF Stages
          <5>2. worker' = [worker EXCEPT ![v] = IF pc = "idle" THEN Idle ELSE [@ EXCEPT !.pc = pc]]
            BY <4>1 DEF ReportAndGo
          <5> QED
            BY <3>0, <5>1, <5>2 DEF Rest
        <4>2. CASE ReserveDeliverySend(v)
          <5>1. "sending" \in Stages \ {"prepared"}
            BY DEF Stages
          <5> QED
            BY <3>0, <4>2, <5>1 DEF ReserveDeliverySend, License, LoseClaim
        <4>3. CASE TurnCardAway(v) \/ RaiseBeforeReserve(v) \/ EditReturns(v) \/ MessageReturns(v)
          BY <4>1, <4>3 DEF TurnCardAway, RaiseBeforeReserve, EditReturns, MessageReturns, Report
        <4>4. CASE TelegramReturns(v)
          BY <4>1, <4>4 DEF TelegramReturns, Report
        <4>5. CASE AgentReturns(v) \/ AgentGivesUp(v)
          BY <4>1, <4>5 DEF AgentReturns, AgentGivesUp, ReportLaunch
        <4>6. CASE ReportIsRefused(v)
          BY <4>1, <4>6 DEF ReportIsRefused
        <4>7. CASE EditIsRecorded(v) \/ AgentRaises(v)
          <5>1. {"edited", "interrupted"} \subseteq Stages \ {"prepared"}
            BY DEF Stages
          <5> QED
            BY <3>0, <4>7, <5>1 DEF EditIsRecorded, AgentRaises
        <4>8. CASE AfterTelegramDelivery(v) \/ ScheduleExecutorLaunchFailure(v)
          BY <3>0, <4>8 DEF AfterTelegramDelivery, ScheduleExecutorLaunchFailure
        <4>9. ~ReserveTelegramSend(v)
          BY <1>3 DEF ReserveTelegramSend
        <4> QED
          BY <2>2, <3>1, <4>2, <4>3, <4>4, <4>5, <4>6, <4>7, <4>8, <4>9 DEF WorkerStep, Deliver
      <3>2. ASSUME NEW e \in Deliveries, Claim(e)
            PROVE  \A w \in Workers : worker'[w].pc # "prepared"
        BY <1>3, <1>a, <3>2 DEF Claim, ClaimDueDelivery, CancelStaleCard, Idle
      <3>3. ASSUME NEW p \in Processes, Crash(p)
            PROVE  \A w \in Workers : worker'[w].pc # "prepared"
        BY <1>3, <1>a, <3>3 DEF Crash, Idle
      <3>4. CASE worker' = worker
        BY <1>3, <3>4
      <3> QED
        BY <3>1, <3>2, <3>3, <3>4 DEF Next, vars, ScheduleNotice, QueueIncidentCardRefresh, Tick,
           OwnerActs, Acknowledge, Resolve, Snooze, Mute, Unmute, UnchangedByOwner
    <2> QED
      BY <2>1, <2>2 DEF SeesTheCard
  <1> QED
    BY <1>2, <1>3

\* Within one process, and while the store takes every report, all deliveries of a
\* family create one message, and another only after that was deleted (reserve_delivery_send
\* under the lock of the process).  Finding 1 is why one process, finding 2 why every report.
THEOREM OneCardInOneProcess ==
    ASSUME \A p, q \in Processes : p = q, MaxFaults = 0
    PROVE  Spec => []OneCardPerFamily
  <1>1. Init => CardsInv
    <2> SUFFICES ASSUME Init PROVE CardsInv
      OBVIOUS
    <2>1. SeesTheCard
      BY DEF Init, SeesTheCard, Idle
    <2>2. \A i \in Incidents : creations[i] = 0 /\ removals[i] = 0
      BY DEF Init
    <2> QED
      BY <2>1, <2>2 DEF CardsInv, CreationsAreKnown
  <1>2. Inv /\ CardsInv /\ [Next]_vars => CardsInv'
    <2> SUFFICES ASSUME Inv, CardsInv, [Next]_vars PROVE CardsInv'
      OBVIOUS
    <2>1. SeesTheCard'
      BY CardIsSeen DEF CardsInv
    <2>2. \A i \in Incidents : CreationsAreKnown(i)'
      BY WorkerCards, OtherCards
    <2> QED
      BY <2>1, <2>2 DEF CardsInv
  <1>3. Inv /\ CardsInv => OneCardPerFamily
    BY DEF Inv, TypeOK, CardsInv, CreationsAreKnown, OneCardPerFamily
  <1> QED
    BY <1>1, <1>2, <1>3, GenerationsApart, PTL DEF Spec

=============================================================================
