----------------------- MODULE IncidentLifecycleProofs -----------------------
(***************************************************************************)
(* Machine-checked theorems about IncidentLifecycle, for any number of     *)
(* incidents, reports, episodes, attempts, sessions and verifiers.         *)
(***************************************************************************)
EXTENDS IncidentLifecycle, FiniteSetTheorems, TLAPS

\* A report that was taken was measured; for an incident that does not exist no report
\* was taken and no check is due.
TakenWasMeasured ==
    /\ \A k \in 1..MaxReports : taken[k] # Untaken => k <= Len(report)
    /\ \A i \in Slots : incident[i].state = "absent" =>
          /\ incident[i].occurrences = 0
          /\ check[i].state = "none"
          /\ \A k \in 1..MaxReports : taken[k] # i

\* The latest observation of an episode with a clock is not before any of its
\* degradations.
LatestIsKnown ==
    \A i \in Slots : incident[i].episode \in Clocked =>
        \A k \in DegradedReports(i) : k <= origin[i].latest

\* A current order is about an incident with a finished attempt, and what it measured
\* was measured after everything that was taken for the incident.
OrdersAreCurrent ==
    \A v \in Verifiers : verifier[v].current =>
        /\ verifier[v].about \in Slots
        /\ check[verifier[v].about].state # "none"
        /\ verifier[v].pc = "measured" =>
              \A k \in DegradedReports(verifier[v].about) : k <= verifier[v].at

\* A ticket that was not cancelled is the one its completion names.
TicketIsNamed ==
    \A i \in Slots, a \in Attempts :
        ticket[<<i, a>>] \in {"queued", "claimed"} => continuation[a] = i

\* The inductive invariant.
Inv ==
    /\ IncidentTypeOK /\ TakenWasMeasured /\ LatestIsKnown /\ OrdersAreCurrent
    /\ TicketIsNamed /\ CountedOnce /\ OneActiveIncident /\ ResolvedOnLatestEvidence
-----------------------------------------------------------------------------
(***************************************************************************)
(* Types                                                                   *)
(***************************************************************************)
LEMMA NoOrderType == NoOrder \in Order
  BY LifecycleAssumption DEF NoOrder, Order, Nobody

LEMMA Rotated == \A o \in Order :
                    /\ [o EXCEPT !.current = FALSE] \in Order
                    /\ [o EXCEPT !.current = FALSE].pc = o.pc
                    /\ [o EXCEPT !.current = FALSE].about = o.about
  BY DEF Order

\* Orders of which some are rotated are still orders.
Orders(f) == /\ f \in [Verifiers -> Order]
             /\ \A v \in Verifiers : f[v].pc # "idle" => f[v].about \in Slots

LEMMA RotateType ==
    ASSUME IncidentTypeOK, NEW i \in Slots
    PROVE  Orders(Rotate(i)) /\ Orders(Keep(i))
  <1>1. Orders(verifier)
    BY DEF IncidentTypeOK, Orders
  <1>2. ASSUME NEW v \in Verifiers
        PROVE  /\ Rotate(i)[v] \in Order
               /\ Rotate(i)[v].pc # "idle" => Rotate(i)[v].about \in Slots
    BY <1>1, Rotated DEF Rotate, Orders
  <1> QED
    BY <1>1, <1>2 DEF Rotate, Keep, Orders

\* Slots and the marks beside them are different.
LEMMA Marks == /\ Nobody \notin Slots /\ Untaken \notin Slots
               /\ \A i \in Slots : i \in Nat
  BY LifecycleAssumption DEF Nobody, Untaken, Slots

LEMMA IncidentFields ==
    \A o \in Incident :
        /\ [o EXCEPT !.occurrences = @ + 1] \in Incident
        /\ \A x \in {"acknowledged", "snoozed", "resolved"} : [o EXCEPT !.state = x] \in Incident
  <1> SUFFICES ASSUME NEW o \in Incident
               PROVE  /\ [o EXCEPT !.occurrences = @ + 1] \in Incident
                      /\ \A x \in {"acknowledged", "snoozed", "resolved"} :
                            [o EXCEPT !.state = x] \in Incident
    OBVIOUS
  <1>1. o.occurrences \in Nat
    BY DEF Incident
  <1>2. o.occurrences + 1 \in Nat
    BY <1>1
  <1> QED
    BY <1>2 DEF Incident

LEMMA Observed ==
    ASSUME NEW o \in Origin, NEW n \in 0..MaxReports
    PROVE  [[o EXCEPT !.generation = @ + 1] EXCEPT !.latest = n] \in Origin
  <1> DEFINE g == [o EXCEPT !.generation = @ + 1]
  <1>1. o.generation \in Nat
    BY DEF Origin
  <1>2. o.generation + 1 \in Nat
    BY <1>1
  <1>3. g \in Origin
    BY <1>2 DEF Origin
  <1> HIDE DEF g
  <1>4. [g EXCEPT !.latest = n] \in Origin
    BY <1>3 DEF Origin
  <1> QED
    BY <1>4 DEF g

\* A new generation keeps the types.
LEMMA ObserveType ==
    ASSUME IncidentTypeOK, NEW i \in Slots, NEW k \in 1..MaxReports, ObserveDegraded(i, k)
    PROVE  /\ origin' \in [Slots -> Origin]
           /\ check' \in [Slots -> Check]
           /\ \A j \in Slots : check'[j].state = "none" <=> check'[j].attempt = NoAttempt
           /\ Orders(verifier')
  <1>1. Latest(i, k) \in 0..MaxReports
    <2>1. origin[i].latest \in 0..MaxReports
      BY DEF IncidentTypeOK, Origin
    <2> QED
      BY <2>1, LifecycleAssumption DEF Latest
  <1>2. origin' \in [Slots -> Origin]
    <2> DEFINE n == Latest(i, k)
    <2>1. origin' = [origin EXCEPT ![i].generation = @ + 1, ![i].latest = n]
      BY DEF ObserveDegraded
    <2> HIDE DEF n
    <2> QED
      BY <1>1, <2>1, Observed DEF IncidentTypeOK, n
  <1>3. check' \in [Slots -> Check]
    BY DEF IncidentTypeOK, ObserveDegraded, DueAgain, DueAgainAlways, Check, Checks
  <1>4. \A j \in Slots : check'[j].state = "none" <=> check'[j].attempt = NoAttempt
    BY DEF IncidentTypeOK, ObserveDegraded, DueAgain, DueAgainAlways, Check, Checks
  <1>5. Orders(verifier')
    BY RotateType DEF ObserveDegraded, Renewed
  <1> QED
    BY <1>2, <1>3, <1>4, <1>5

\* Closing an incident keeps the types.
LEMMA CloseType ==
    ASSUME IncidentTypeOK, NEW i \in Slots, NEW n \in 0..MaxReports, Close(i, n)
    PROVE  /\ incident' \in [Slots -> Incident]
           /\ ticket' \in [Slots \X Attempts -> Tickets]
           /\ ground' \in [Slots -> 0..MaxReports]
  <1>1. incident' \in [Slots -> Incident]
    BY IncidentFields DEF IncidentTypeOK, Close
  <1>2. ticket' \in [Slots \X Attempts -> Tickets]
    BY DEF IncidentTypeOK, Close, Withdrawn, Tickets
  <1>3. ground' \in [Slots -> 0..MaxReports]
    BY DEF IncidentTypeOK, Close
  <1> QED
    BY <1>1, <1>2, <1>3

\* The type invariant is preserved.
LEMMA TypeKept == IncidentTypeOK /\ [IncidentNext]_incidentVars => IncidentTypeOK'
  <1> SUFFICES ASSUME IncidentTypeOK, [IncidentNext]_incidentVars PROVE IncidentTypeOK'
    OBVIOUS
  <1>a. Len(report) \in 0..MaxReports /\ Len(report) \in Nat
    BY LifecycleAssumption DEF IncidentTypeOK
  <1>b. MaxReports \in Nat /\ MaxActs \in Nat
    BY LifecycleAssumption
  <1>1. CASE UNCHANGED incidentVars
    BY <1>1 DEF incidentVars, IncidentTypeOK
  <1>2. ASSUME NEW e \in Episodes, NEW kind \in {"degraded", "recovered"}, Measure(kind, e)
        PROVE  IncidentTypeOK'
    <2>1. report' \in Seq(Report) /\ Len(report') <= MaxReports
      <3>1. [kind |-> kind, episode |-> e] \in Report
        BY DEF Report
      <3> QED
        BY <1>2, <1>a, <1>b, <3>1 DEF Measure, IncidentTypeOK
    <2> QED
      BY <1>2, <2>1 DEF Measure, IncidentTypeOK
  <1>3. ASSUME NEW k \in 1..MaxReports, CreateEvent(k)
        PROVE  IncidentTypeOK'
    <2>1. PICK i \in Slots :
             /\ taken' = [taken EXCEPT ![k] = i]
             /\ incident' = [incident EXCEPT ![i] =
                   IF Active(i) THEN [incident[i] EXCEPT !.occurrences = @ + 1]
                   ELSE [state |-> "open", episode |-> report[k].episode, occurrences |-> 1]]
             /\ ObserveDegraded(i, k)
      BY <1>3 DEF CreateEvent, Existing, NextSlot
    <2>2. report[k].episode \in Episodes
      <3>1. k \in 1..Len(report)
        BY <1>3 DEF CreateEvent, Fresh
      <3>2. report[k] \in Report
        BY <3>1, <1>a DEF IncidentTypeOK
      <3> QED
        BY <3>2 DEF Report
    <2>3. incident' \in [Slots -> Incident]
      <3>1. [incident[i] EXCEPT !.occurrences = @ + 1] \in Incident
        BY IncidentFields DEF IncidentTypeOK
      <3>2. [state |-> "open", episode |-> report[k].episode, occurrences |-> 1] \in Incident
        BY <2>2 DEF Incident
      <3>3. PICK o \in Incident : incident' = [incident EXCEPT ![i] = o]
        BY <2>1, <3>1, <3>2
      <3> QED
        BY <3>3 DEF IncidentTypeOK
    <2>4. taken' \in [1..MaxReports -> Slots \cup {Nobody, Untaken}]
      BY <2>1 DEF IncidentTypeOK
    <2> QED
      BY <1>3, <2>1, <2>3, <2>4, ObserveType DEF CreateEvent, IncidentTypeOK, Orders
  <1>4. ASSUME NEW k \in 1..MaxReports, ResolveEvent(k)
        PROVE  IncidentTypeOK'
    <2>1. taken' \in [1..MaxReports -> Slots \cup {Nobody, Untaken}]
      BY <1>4 DEF ResolveEvent, IncidentTypeOK, Existing
    <2>2. /\ incident' \in [Slots -> Incident]
          /\ ticket' \in [Slots \X Attempts -> Tickets]
          /\ ground' \in [Slots -> 0..MaxReports]
      <3>1. CASE UNCHANGED <<incident, ticket, ground>>
        BY <3>1 DEF IncidentTypeOK
      <3>2. ASSUME NEW i \in Slots,
                   Close(i, IF report[k].episode \in Clocked THEN k ELSE NoGround)
            PROVE  <2>2!1 /\ <2>2!2 /\ <2>2!3
        <4>1. (IF report[k].episode \in Clocked THEN k ELSE NoGround) \in 0..MaxReports
          BY <1>b DEF NoGround
        <4> QED
          BY <3>2, <4>1, CloseType
      <3> QED
        BY <1>4, <3>1, <3>2 DEF ResolveEvent, Existing
    <2> QED
      BY <1>4, <2>1, <2>2 DEF ResolveEvent, IncidentTypeOK
  <1>5. ASSUME NEW i \in Slots, AcknowledgeIncident(i) \/ SnoozeIncident(i)
        PROVE  IncidentTypeOK'
    <2>1. acts' \in 0..MaxActs /\ reopened' \subseteq Slots
      BY <1>5, <1>b DEF AcknowledgeIncident, SnoozeIncident, Act, IncidentTypeOK
    <2>2. incident' \in [Slots -> Incident]
      <3>1. PICK x \in {"acknowledged", "snoozed"} :
               incident' = [incident EXCEPT ![i].state = x]
        BY <1>5 DEF AcknowledgeIncident, SnoozeIncident
      <3>2. [incident[i] EXCEPT !.state = x] \in Incident
        BY IncidentFields DEF IncidentTypeOK
      <3> QED
        BY <3>1, <3>2 DEF IncidentTypeOK
    <2> QED
      BY <1>5, <2>1, <2>2 DEF AcknowledgeIncident, SnoozeIncident, IncidentTypeOK
  <1>6. ASSUME NEW i \in Slots, ResolveIncident(i)
        PROVE  IncidentTypeOK'
    <2>1. Close(i, NoGround) /\ NoGround \in 0..MaxReports
      BY <1>6, <1>b DEF ResolveIncident, NoGround
    <2>2. acts' \in 0..MaxActs
      BY <1>6, <1>b DEF ResolveIncident, Act, IncidentTypeOK
    <2> QED
      BY <1>6, <2>1, <2>2, CloseType DEF ResolveIncident, IncidentTypeOK
  <1>7. ASSUME NEW i \in Slots, NEW s \in Sessions, BindSession(i, s)
        PROVE  IncidentTypeOK'
    <2>1. origin' \in [Slots -> Origin]
      BY <1>7 DEF BindSession, IncidentTypeOK, Origin
    <2> QED
      BY <1>7, <2>1 DEF BindSession, IncidentTypeOK
  <1>8. ASSUME NEW i \in Slots, NEW a \in Attempts, Finish(i, a)
        PROVE  IncidentTypeOK'
    <2> DEFINE those == Declared(i, a)
    <2>1. those \subseteq Slots
      BY DEF Declared, Peers
    <2>2. /\ finished' = finished \cup (those \X {a})
          /\ check' = [j \in Slots |-> IF j \in those
                         THEN [state |-> "due", attempt |-> a] ELSE check[j]]
          /\ origin' = [j \in Slots |-> IF j \in those
                         THEN [origin[j] EXCEPT !.session = SessionOf[a]] ELSE origin[j]]
          /\ verifier' = [v \in Verifiers |-> IF verifier[v].about \in those
                         THEN [verifier[v] EXCEPT !.current = FALSE] ELSE verifier[v]]
          /\ UNCHANGED <<report, taken, incident, continuation, ticket, acts, ground, reopened>>
      BY <1>8 DEF Finish
    <2> HIDE DEF those
    <2>3. SessionOf[a] \in Sessions /\ a # NoAttempt
      BY LifecycleAssumption
    <2>4. finished' \subseteq Slots \X Attempts
      BY <2>1, <2>2 DEF IncidentTypeOK
    <2>5. /\ check' \in [Slots -> Check]
          /\ \A j \in Slots : check'[j].state = "none" <=> check'[j].attempt = NoAttempt
      <3>1. [state |-> "due", attempt |-> a] \in Check
        BY DEF Check, Checks
      <3> QED
        BY <2>2, <2>3, <3>1 DEF IncidentTypeOK
    <2>6. origin' \in [Slots -> Origin]
      <3>1. \A o \in Origin : [o EXCEPT !.session = SessionOf[a]] \in Origin
        BY <2>3 DEF Origin
      <3> QED
        BY <2>2, <3>1 DEF IncidentTypeOK
    <2>7. Orders(verifier')
      <3>1. Orders(verifier)
        BY DEF IncidentTypeOK, Orders
      <3>2. ASSUME NEW v \in Verifiers
            PROVE  verifier'[v] \in Order /\ (verifier'[v].pc # "idle" => verifier'[v].about \in Slots)
        BY <2>2, <3>1, Rotated DEF Orders
      <3> QED
        BY <2>2, <3>2 DEF Orders
    <2> QED
      BY <2>2, <2>4, <2>5, <2>6, <2>7 DEF IncidentTypeOK, Orders
  <1>9. ASSUME NEW i \in Slots, NEW a \in Attempts, ClaimTicket(i, a)
        PROVE  IncidentTypeOK'
    BY <1>9 DEF ClaimTicket, IncidentTypeOK, Tickets
  <1>10. ASSUME NEW v \in Verifiers, NEW i \in Slots, TakeOrder(v, i)
         PROVE  IncidentTypeOK'
    <2>1. [NoOrder EXCEPT !.pc = "ordered", !.about = i, !.current = TRUE] \in Order
      <3>1. \A o \in Order : [o EXCEPT !.pc = "ordered", !.about = i, !.current = TRUE] \in Order
        BY DEF Order
      <3> QED
        BY <3>1, NoOrderType
    <2>2. Orders(verifier')
      BY <1>10, <2>1 DEF TakeOrder, IncidentTypeOK, NoOrder, Orders
    <2> QED
      BY <1>10, <2>2 DEF TakeOrder, IncidentTypeOK, Orders
  <1>11. ASSUME NEW v \in Verifiers, NEW found \in {"unknown", "degraded", "healthy"},
                MeasureSource(v, found)
         PROVE  IncidentTypeOK'
    <2>1. verifier[v] \in Order /\ verifier[v].about \in Slots
      BY <1>11 DEF MeasureSource, IncidentTypeOK
    <2> DEFINE o == [verifier[v] EXCEPT !.pc = "measured", !.found = found, !.at = Len(report)]
    <2>2. o \in Order /\ o.about \in Slots
      BY <1>a, <2>1 DEF Order
    <2>3. verifier' = [verifier EXCEPT ![v] = o]
      BY <1>11 DEF MeasureSource
    <2> HIDE DEF o
    <2>4. Orders(verifier')
      BY <2>2, <2>3 DEF IncidentTypeOK, Orders
    <2> QED
      BY <1>11, <2>4 DEF MeasureSource, IncidentTypeOK, Orders
  <1>12. ASSUME NEW v \in Verifiers, AnswerCheck(v)
         PROVE  IncidentTypeOK'
    <2>1. NoOrder \in Order /\ NoOrder.pc = "idle"
      BY NoOrderType DEF NoOrder
    <2> DEFINE i == verifier[v].about
               found == verifier[v].found
    <2>2. i \in Slots /\ verifier[v].at \in 0..MaxReports /\ found \in Checks
      BY <1>12 DEF AnswerCheck, IncidentTypeOK, Order, Checks
    <2>3. Orders(verifier')
      <3>1. Orders(verifier) /\ Orders(Rotate(i))
        BY <2>2, RotateType DEF IncidentTypeOK, Orders
      <3>2. \/ verifier' = [verifier EXCEPT ![v] = NoOrder]
            \/ verifier' = [Rotate(i) EXCEPT ![v] = NoOrder]
        BY <1>12 DEF AnswerCheck
      <3> HIDE DEF i
      <3> QED
        BY <2>1, <3>1, <3>2 DEF Orders
    <2>4. /\ check' \in [Slots -> Check]
          /\ \A j \in Slots : check'[j].state = "none" <=> check'[j].attempt = NoAttempt
      <3>1. check' = check \/ (check' = [check EXCEPT ![i].state = found] /\ Accepts(v))
        BY <1>12 DEF AnswerCheck
      <3>2. check[i] \in Check /\ (Accepts(v) => check[i].state # "none")
        BY <2>2 DEF IncidentTypeOK, Accepts, Unanswered
      <3>3. found # "none"
        BY <1>12 DEF AnswerCheck, IncidentTypeOK, Order
      <3> HIDE DEF i, found
      <3>4. \A o \in Check : [o EXCEPT !.state = found] \in Check
        BY <2>2 DEF Check
      <3>5. CASE check' = [check EXCEPT ![i].state = found] /\ Accepts(v)
        <4>1. check' \in [Slots -> Check]
          BY <2>2, <3>2, <3>4, <3>5 DEF IncidentTypeOK
        <4>2. ASSUME NEW j \in Slots
              PROVE  check'[j].state = "none" <=> check'[j].attempt = NoAttempt
          <5>1. check[j] \in Check /\ (check[j].state = "none" <=> check[j].attempt = NoAttempt)
            BY DEF IncidentTypeOK
          <5>2. CASE j = i
            BY <2>2, <3>2, <3>3, <3>5, <5>1, <5>2 DEF IncidentTypeOK, Check
          <5>3. CASE j # i
            BY <3>5, <5>1, <5>3 DEF IncidentTypeOK
          <5> QED
            BY <5>2, <5>3
        <4> QED
          BY <4>1, <4>2
      <3> QED
        BY <3>1, <3>5 DEF IncidentTypeOK
    <2>5. /\ incident' \in [Slots -> Incident]
          /\ ticket' \in [Slots \X Attempts -> Tickets]
          /\ ground' \in [Slots -> 0..MaxReports]
          /\ continuation' \in [Attempts -> Slots \cup {Nobody}]
      <3>1. CASE Accepts(v) /\ found = "healthy" /\ Close(i, verifier[v].at) /\ UNCHANGED continuation
        BY <2>2, <3>1, CloseType DEF IncidentTypeOK
      <3>2. CASE Accepts(v) /\ Continue(i, check[i].attempt) /\ UNCHANGED <<incident, ground>>
        <4>1. check[i].attempt \in Attempts
          BY <2>2, <3>2 DEF Accepts, Unanswered, IncidentTypeOK, Check
        <4>2. <<i, check[i].attempt>> \in Slots \X Attempts
          BY <2>2, <4>1
        <4> QED
          BY <2>2, <3>2, <4>1, <4>2 DEF Continue, IncidentTypeOK, Tickets
      <3>3. CASE UNCHANGED <<incident, continuation, ticket, ground>>
        BY <3>3 DEF IncidentTypeOK
      <3> QED
        BY <1>12, <3>1, <3>2, <3>3 DEF AnswerCheck
    <2> QED
      BY <1>12, <2>3, <2>4, <2>5 DEF AnswerCheck, IncidentTypeOK, Orders
  <1> QED
    BY <1>1, <1>2, <1>3, <1>4, <1>5, <1>6, <1>7, <1>8, <1>9, <1>10, <1>11, <1>12
    DEF IncidentNext, VerifierStep
-----------------------------------------------------------------------------
(***************************************************************************)
(* What a step does to the incidents and to the reports they count         *)
(***************************************************************************)
\* Closing an incident changes its state, and how far its evidence reaches.
LEMMA Closed ==
    ASSUME IncidentTypeOK, NEW i \in Slots, NEW n, Close(i, n)
    PROVE  /\ incident'[i].state = "resolved"
           /\ ground'[i] = n
           /\ \A j \in Slots : /\ incident'[j].episode = incident[j].episode
                               /\ incident'[j].occurrences = incident[j].occurrences
           /\ \A j \in Slots \ {i} : incident'[j] = incident[j] /\ ground'[j] = ground[j]
           /\ \A p \in Slots \X Attempts :
                 ticket'[p] \in {"queued", "claimed"} => ticket'[p] = ticket[p]
  <1>1. \A j \in Slots : incident[j] \in Incident
    BY DEF IncidentTypeOK
  <1>2. incident' = [incident EXCEPT ![i].state = "resolved"] /\ ground' = [ground EXCEPT ![i] = n]
    BY DEF Close
  <1>3. /\ incident'[i].state = "resolved"
        /\ incident'[i].episode = incident[i].episode
        /\ incident'[i].occurrences = incident[i].occurrences
        /\ ground'[i] = n
        /\ \A j \in Slots \ {i} : incident'[j] = incident[j] /\ ground'[j] = ground[j]
    BY <1>1, <1>2 DEF IncidentTypeOK, Incident
  <1>4. \A p \in Slots \X Attempts :
            ticket'[p] \in {"queued", "claimed"} => ticket'[p] = ticket[p]
    BY DEF Close, Withdrawn
  <1> QED
    BY <1>3, <1>4

\* The intake of a degradation counts its report for one incident.
LEMMA Created ==
    ASSUME IncidentTypeOK, TakenWasMeasured, NEW k \in 1..MaxReports, CreateEvent(k)
    PROVE  \E i \in Slots :
              /\ ObserveDegraded(i, k)
              /\ taken' = [taken EXCEPT ![k] = i]
              /\ k <= Len(report) /\ report' = report
              /\ k \notin DegradedReports(i) /\ DegradedReports(i)' = DegradedReports(i) \cup {k}
              /\ \A j \in Slots \ {i} : /\ DegradedReports(j)' = DegradedReports(j)
                                        /\ incident'[j] = incident[j]
              /\ incident'[i].state \notin {"absent", "resolved"}
              /\ incident'[i].episode = report[k].episode
              /\ incident'[i].occurrences = incident[i].occurrences + 1
              /\ Active(i) => incident[i].episode = report[k].episode
              /\ ~Active(i) => /\ incident[i].state = "absent"
                               /\ \A j \in Slots : Active(j) => incident[j].episode # report[k].episode
  <1>1. PICK i \in Slots :
           /\ taken' = [taken EXCEPT ![k] = i]
           /\ incident' = [incident EXCEPT ![i] =
                 IF Active(i) THEN [incident[i] EXCEPT !.occurrences = @ + 1]
                 ELSE [state |-> "open", episode |-> report[k].episode, occurrences |-> 1]]
           /\ ObserveDegraded(i, k)
           /\ Active(i) => incident[i].episode = report[k].episode
           /\ ~Active(i) => /\ incident[i].state = "absent"
                            /\ \A j \in Slots : Active(j) => incident[j].episode # report[k].episode
    BY DEF CreateEvent, Existing, NextSlot, Active
  <1>2. /\ taken[k] = Untaken /\ k \in 1..Len(report) /\ report[k].kind = "degraded"
        /\ k <= Len(report) /\ report' = report
    BY DEF CreateEvent, Fresh
  <1>3. k \notin DegradedReports(i) /\ DegradedReports(i)' = DegradedReports(i) \cup {k}
    BY <1>1, <1>2, Marks DEF DegradedReports, IncidentTypeOK
  <1>4. \A j \in Slots \ {i} : DegradedReports(j)' = DegradedReports(j)
    BY <1>1, <1>2, Marks DEF DegradedReports, IncidentTypeOK
  <1>5. \A j \in Slots \ {i} : incident'[j] = incident[j]
    BY <1>1 DEF IncidentTypeOK
  <1>6. /\ incident'[i].state \notin {"absent", "resolved"}
        /\ incident'[i].episode = report[k].episode
        /\ incident'[i].occurrences = incident[i].occurrences + 1
    <2>1. incident[i] \in Incident
      BY DEF IncidentTypeOK
    <2>2. CASE Active(i)
      <3> DEFINE n == incident[i].occurrences + 1
      <3>1. incident' = [incident EXCEPT ![i].occurrences = n]
        BY <1>1, <2>2
      <3> HIDE DEF n
      <3>2. incident'[i] = [incident[i] EXCEPT !.occurrences = n]
        BY <3>1 DEF IncidentTypeOK
      <3>3. /\ incident'[i].state = incident[i].state
            /\ incident'[i].episode = incident[i].episode
            /\ incident'[i].occurrences = n
        BY <2>1, <3>2 DEF Incident
      <3> QED
        BY <1>1, <2>2, <3>3 DEF Active, n
    <2>3. CASE ~Active(i)
      <3>1. incident[i].occurrences = 0
        BY <1>1, <2>3 DEF TakenWasMeasured
      <3> QED
        BY <1>1, <2>3, <3>1 DEF IncidentTypeOK
    <2> QED
      BY <2>2, <2>3
  <1> QED
    BY <1>1, <1>2, <1>3, <1>4, <1>5, <1>6

\* No other step counts a report, begins an incident or moves its latest observation.
Uncounted ==
    \A j \in Slots : /\ DegradedReports(j)' = DegradedReports(j)
                     /\ incident'[j].episode = incident[j].episode
                     /\ incident'[j].occurrences = incident[j].occurrences
                     /\ incident'[j].state = "absent" <=> incident[j].state = "absent"
                     /\ origin'[j].latest = origin[j].latest
LEMMA NotCreated ==
    ASSUME IncidentTypeOK, TakenWasMeasured, [IncidentNext]_incidentVars,
           \A k \in 1..MaxReports : ~CreateEvent(k)
    PROVE  Uncounted
  <1>a. \A j \in Slots : incident[j] \in Incident /\ origin[j] \in Origin
    BY DEF IncidentTypeOK
  <1>b. ASSUME UNCHANGED <<report, taken>> PROVE \A j \in Slots : DegradedReports(j)' = DegradedReports(j)
    BY <1>b DEF DegradedReports
  <1>1. CASE UNCHANGED incidentVars
    BY <1>1, <1>b DEF incidentVars, Uncounted
  <1>2. ASSUME NEW e \in Episodes, NEW kind \in {"degraded", "recovered"}, Measure(kind, e)
        PROVE  Uncounted
    <2>1. \A k \in 1..Len(report) : report'[k] = report[k]
      BY <1>2 DEF Measure, IncidentTypeOK
    <2>2. Len(report') = Len(report) + 1 /\ Len(report) \in Nat /\ Len(report) < MaxReports
      BY <1>2 DEF Measure, IncidentTypeOK
    <2>3. taken[Len(report) + 1] = Untaken
      BY <2>2, LifecycleAssumption DEF TakenWasMeasured
    <2>4. \A j \in Slots : DegradedReports(j)' = DegradedReports(j)
      <3>1. taken' = taken
        BY <1>2 DEF Measure
      <3> QED
        BY <2>1, <2>2, <2>3, <3>1, Marks DEF DegradedReports
    <2> QED
      BY <1>2, <2>4 DEF Measure, Uncounted
  <1>3. ASSUME NEW k \in 1..MaxReports, ResolveEvent(k)
        PROVE  Uncounted
    <2>1. /\ k \in 1..Len(report) /\ taken[k] = Untaken /\ report[k].kind = "recovered"
          /\ UNCHANGED <<report, origin>>
      BY <1>3 DEF ResolveEvent, Fresh
    <2>2. \E i \in Slots \cup {Nobody} : taken' = [taken EXCEPT ![k] = i]
      BY <1>3 DEF ResolveEvent, Existing
    <2>3. \A j \in Slots : DegradedReports(j)' = DegradedReports(j)
      BY <2>1, <2>2 DEF DegradedReports, IncidentTypeOK
    <2>4. CASE UNCHANGED incident
      BY <2>1, <2>3, <2>4 DEF Uncounted
    <2>5. ASSUME NEW i \in Slots, Active(i),
                 Close(i, IF report[k].episode \in Clocked THEN k ELSE NoGround)
          PROVE  Uncounted
      BY <2>1, <2>3, <2>5, Closed DEF Uncounted, Active
    <2> QED
      BY <1>3, <2>4, <2>5 DEF ResolveEvent, Existing
  <1>4. ASSUME NEW i \in Slots, AcknowledgeIncident(i) \/ SnoozeIncident(i)
        PROVE  Uncounted
    <2>1. PICK x \in {"acknowledged", "snoozed"} : incident' = [incident EXCEPT ![i].state = x]
      BY <1>4 DEF AcknowledgeIncident, SnoozeIncident
    <2>2. \A j \in Slots : /\ incident'[j].episode = incident[j].episode
                           /\ incident'[j].occurrences = incident[j].occurrences
                           /\ incident'[j].state = IF j = i THEN x ELSE incident[j].state
      BY <1>a, <2>1 DEF IncidentTypeOK, Incident
    <2>3. incident[i].state # "absent"
      BY <1>4 DEF AcknowledgeIncident, SnoozeIncident
    <2> QED
      BY <1>4, <1>b, <2>2, <2>3 DEF AcknowledgeIncident, SnoozeIncident, Uncounted
  <1>5. ASSUME NEW i \in Slots, ResolveIncident(i)
        PROVE  Uncounted
    BY <1>5, <1>b, Closed DEF ResolveIncident, Active, Uncounted
  <1>6. ASSUME NEW i \in Slots, NEW s \in Sessions, BindSession(i, s)
        PROVE  Uncounted
    <2>1. \A j \in Slots : origin'[j].latest = origin[j].latest
      BY <1>6, <1>a DEF BindSession, IncidentTypeOK, Origin
    <2> QED
      BY <1>6, <1>b, <2>1 DEF BindSession, Uncounted
  <1>7. ASSUME NEW i \in Slots, NEW a \in Attempts, Finish(i, a)
        PROVE  Uncounted
    <2> DEFINE those == Declared(i, a)
    <2>1. origin' = [j \in Slots |-> IF j \in those
                       THEN [origin[j] EXCEPT !.session = SessionOf[a]] ELSE origin[j]]
      BY <1>7 DEF Finish
    <2> HIDE DEF those
    <2>2. \A j \in Slots : origin'[j].latest = origin[j].latest
      BY <1>a, <2>1 DEF Origin
    <2> QED
      BY <1>7, <1>b, <2>2 DEF Finish, Uncounted
  <1>8. ASSUME NEW i \in Slots, NEW a \in Attempts, ClaimTicket(i, a)
        PROVE  Uncounted
    BY <1>8, <1>b DEF ClaimTicket, Uncounted
  <1>9. ASSUME NEW v \in Verifiers, NEW i \in Slots, TakeOrder(v, i)
        PROVE  Uncounted
    BY <1>9, <1>b DEF TakeOrder, Uncounted
  <1>10. ASSUME NEW v \in Verifiers, NEW found \in {"unknown", "degraded", "healthy"},
                MeasureSource(v, found)
         PROVE  Uncounted
    BY <1>10, <1>b DEF MeasureSource, Uncounted
  <1>11. ASSUME NEW v \in Verifiers, AnswerCheck(v)
         PROVE  Uncounted
    <2>1. verifier[v].about \in Slots
      BY <1>11 DEF AnswerCheck, IncidentTypeOK
    <2>2. UNCHANGED <<report, taken, origin>>
      BY <1>11 DEF AnswerCheck
    <2>3. CASE UNCHANGED incident
      BY <1>b, <2>2, <2>3 DEF Uncounted
    <2>4. CASE Accepts(v) /\ Close(verifier[v].about, verifier[v].at)
      <3>1. incident[verifier[v].about].state # "absent"
        BY <2>1, <2>4 DEF Accepts, Unanswered, TakenWasMeasured
      <3> QED
        BY <1>b, <2>1, <2>2, <2>4, <3>1, Closed DEF Uncounted
    <2> QED
      BY <1>11, <2>3, <2>4 DEF AnswerCheck
  <1> QED
    BY <1>1, <1>2, <1>3, <1>4, <1>5, <1>6, <1>7, <1>8, <1>9, <1>10, <1>11
    DEF IncidentNext, VerifierStep
-----------------------------------------------------------------------------
(***************************************************************************)
(* The parts of the invariant                                              *)
(***************************************************************************)
LEMMA TakenKept ==
    ASSUME IncidentTypeOK, TakenWasMeasured, [IncidentNext]_incidentVars
    PROVE  TakenWasMeasured'
  <1>1. ASSUME NEW k \in 1..MaxReports, CreateEvent(k)
        PROVE  TakenWasMeasured'
    <2>1. PICK i \in Slots :
             /\ ObserveDegraded(i, k)
             /\ taken' = [taken EXCEPT ![k] = i]
             /\ k <= Len(report) /\ report' = report
             /\ \A j \in Slots \ {i} : incident'[j] = incident[j]
             /\ incident'[i].state # "absent"
      BY <1>1, Created
    <2>2. \A j \in Slots \ {i} : check'[j] = check[j]
      BY <2>1 DEF ObserveDegraded, DueAgain, DueAgainAlways, IncidentTypeOK
    <2> QED
      BY <2>1, <2>2 DEF TakenWasMeasured, IncidentTypeOK
  <1>2. ASSUME \A k \in 1..MaxReports : ~CreateEvent(k)
        PROVE  TakenWasMeasured'
    <2>1. Uncounted
      BY <1>2, NotCreated
    <2>2. \A k \in 1..MaxReports : taken'[k] # Untaken => k <= Len(report')
      <3>1. CASE UNCHANGED <<report, taken>>
        BY <3>1 DEF TakenWasMeasured
      <3>2. ASSUME NEW e \in Episodes, NEW kind \in {"degraded", "recovered"}, Measure(kind, e)
            PROVE  <2>2
        BY <3>2 DEF Measure, IncidentTypeOK, TakenWasMeasured
      <3>3. ASSUME NEW k \in 1..MaxReports, ResolveEvent(k)
            PROVE  <2>2
        <4>1. k \in 1..Len(report) /\ report' = report
              /\ \E i \in Slots \cup {Nobody} : taken' = [taken EXCEPT ![k] = i]
          BY <3>3 DEF ResolveEvent, Fresh, Existing
        <4> QED
          BY <4>1 DEF TakenWasMeasured, IncidentTypeOK
      <3>4. UNCHANGED <<report, taken>>
            \/ (\E e \in Episodes, kind \in {"degraded", "recovered"} : Measure(kind, e))
            \/ (\E k \in 1..MaxReports : ResolveEvent(k))
        BY <1>2 DEF IncidentNext, VerifierStep, incidentVars, AcknowledgeIncident,
              ResolveIncident, SnoozeIncident, BindSession, Finish, ClaimTicket, TakeOrder,
              MeasureSource, AnswerCheck
      <3> QED
        BY <3>1, <3>2, <3>3, <3>4
    <2>3. ASSUME NEW i \in Slots, NEW k \in 1..MaxReports, incident[i].state = "absent"
          PROVE  taken'[k] # i
      <3>1. CASE UNCHANGED taken
        BY <2>3, <3>1 DEF TakenWasMeasured
      <3>2. ASSUME NEW n \in 1..MaxReports, ResolveEvent(n)
            PROVE  taken'[k] # i
        <4>1. \E j \in Slots \cup {Nobody} : j # i /\ taken' = [taken EXCEPT ![n] = j]
          BY <2>3, <3>2, Marks DEF ResolveEvent, Existing, Active
        <4> QED
          BY <2>3, <4>1 DEF TakenWasMeasured, IncidentTypeOK
      <3>3. UNCHANGED taken \/ (\E n \in 1..MaxReports : ResolveEvent(n))
        BY <1>2 DEF IncidentNext, VerifierStep, incidentVars, Measure, AcknowledgeIncident,
              ResolveIncident, SnoozeIncident, BindSession, Finish, ClaimTicket, TakeOrder,
              MeasureSource, AnswerCheck
      <3> QED
        BY <3>1, <3>2, <3>3
    <2>4. ASSUME NEW i \in Slots, incident[i].state = "absent"
          PROVE  check'[i].state = "none"
      <3>0. check[i].state = "none"
        BY <2>4 DEF TakenWasMeasured
      <3>1. CASE UNCHANGED check
        BY <3>0, <3>1
      <3>2. ASSUME NEW j \in Slots, NEW a \in Attempts, Finish(j, a)
            PROVE  check'[i].state = "none"
        <4>1. i \notin Declared(j, a)
          BY <2>4, <3>2 DEF Finish, Completes, Declared, Peers, Active
        <4> QED
          BY <3>0, <3>2, <4>1 DEF Finish
      <3>3. ASSUME NEW v \in Verifiers, AnswerCheck(v)
            PROVE  check'[i].state = "none"
        <4> DEFINE j == verifier[v].about
                   found == verifier[v].found
        <4>1. check' = check \/ (Accepts(v) /\ check' = [check EXCEPT ![j].state = found])
          BY <3>3 DEF AnswerCheck
        <4>2. Accepts(v) => check[j].state # "none"
          BY DEF Accepts, Unanswered
        <4> HIDE DEF j, found
        <4> QED
          BY <3>0, <4>1, <4>2 DEF IncidentTypeOK
      <3>4. \/ UNCHANGED check
            \/ \E j \in Slots, a \in Attempts : Finish(j, a)
            \/ \E v \in Verifiers : AnswerCheck(v)
        BY <1>2 DEF IncidentNext, VerifierStep, incidentVars, Measure, ResolveEvent,
              AcknowledgeIncident, ResolveIncident, SnoozeIncident, BindSession, ClaimTicket,
              TakeOrder, MeasureSource
      <3> QED
        BY <3>1, <3>2, <3>3, <3>4
    <2> QED
      BY <2>1, <2>2, <2>3, <2>4 DEF Uncounted, TakenWasMeasured
  <1> QED
    BY <1>1, <1>2

LEMMA LatestKept ==
    ASSUME IncidentTypeOK, TakenWasMeasured, LatestIsKnown, [IncidentNext]_incidentVars
    PROVE  LatestIsKnown'
  <1>1. ASSUME NEW k \in 1..MaxReports, CreateEvent(k)
        PROVE  LatestIsKnown'
    <2>1. PICK i \in Slots :
             /\ ObserveDegraded(i, k)
             /\ DegradedReports(i)' = DegradedReports(i) \cup {k}
             /\ \A j \in Slots \ {i} : /\ DegradedReports(j)' = DegradedReports(j)
                                       /\ incident'[j] = incident[j]
             /\ incident'[i].episode = report[k].episode
             /\ Active(i) => incident[i].episode = report[k].episode
             /\ ~Active(i) => incident[i].state = "absent"
      BY <1>1, Created
    <2>2. /\ origin'[i].latest = Latest(i, k)
          /\ \A j \in Slots \ {i} : origin'[j] = origin[j]
      <3> DEFINE n == Latest(i, k)
      <3>1. origin' = [origin EXCEPT ![i].generation = @ + 1, ![i].latest = n]
        BY <2>1 DEF ObserveDegraded
      <3> HIDE DEF n
      <3>2. origin'[i].latest = n /\ \A j \in Slots \ {i} : origin'[j] = origin[j]
        BY <3>1 DEF IncidentTypeOK, Origin
      <3> QED
        BY <3>2 DEF n
    <2>3. ASSUME report[k].episode \in Clocked, NEW n \in DegradedReports(i) \cup {k}
          PROVE  n <= Latest(i, k)
      <3>1. origin[i].latest \in 0..MaxReports /\ MaxReports \in Nat
        BY LifecycleAssumption DEF IncidentTypeOK, Origin
      <3>2. n \in DegradedReports(i) => n \in Nat /\ n <= origin[i].latest
        <4>1. CASE Active(i)
          BY <2>1, <2>3, <4>1 DEF LatestIsKnown, DegradedReports
        <4>2. CASE ~Active(i)
          <5>1. incident[i].state = "absent"
            BY <2>1, <4>2
          <5>2. \A m \in 1..MaxReports : taken[m] # i
            BY <5>1 DEF TakenWasMeasured
          <5>3. DegradedReports(i) \subseteq 1..MaxReports
            BY LifecycleAssumption DEF DegradedReports, IncidentTypeOK
          <5> QED
            BY <5>2, <5>3 DEF DegradedReports
        <4> QED
          BY <4>1, <4>2
      <3> QED
        BY <2>3, <3>1, <3>2 DEF Latest
    <2>4. ASSUME NEW j \in Slots, incident'[j].episode \in Clocked, NEW n \in DegradedReports(j)'
          PROVE  n <= origin'[j].latest
      <3>1. CASE j = i
        BY <2>1, <2>2, <2>3, <2>4, <3>1
      <3>2. CASE j # i
        BY <2>1, <2>2, <2>4, <3>2 DEF LatestIsKnown
      <3> QED
        BY <3>1, <3>2
    <2> QED
      BY <2>4 DEF LatestIsKnown
  <1>2. ASSUME \A k \in 1..MaxReports : ~CreateEvent(k)
        PROVE  LatestIsKnown'
    BY <1>2, NotCreated DEF Uncounted, LatestIsKnown
  <1> QED
    BY <1>1, <1>2

LEMMA CountKept ==
    ASSUME IncidentTypeOK, TakenWasMeasured, CountedOnce, [IncidentNext]_incidentVars
    PROVE  CountedOnce'
  <1>1. ASSUME NEW k \in 1..MaxReports, CreateEvent(k)
        PROVE  CountedOnce'
    <2>1. PICK i \in Slots :
             /\ k \notin DegradedReports(i)
             /\ DegradedReports(i)' = DegradedReports(i) \cup {k}
             /\ \A j \in Slots \ {i} : /\ DegradedReports(j)' = DegradedReports(j)
                                       /\ incident'[j] = incident[j]
             /\ incident'[i].occurrences = incident[i].occurrences + 1
      BY <1>1, Created
    <2>2. IsFiniteSet(DegradedReports(i))
      <3>1. IsFiniteSet(1..Len(report))
        BY FS_Interval DEF IncidentTypeOK
      <3>2. DegradedReports(i) \subseteq 1..Len(report)
        BY DEF DegradedReports
      <3> QED
        BY <3>1, <3>2, FS_Subset
    <2>3. Cardinality(DegradedReports(i) \cup {k}) = Cardinality(DegradedReports(i)) + 1
      BY <2>1, <2>2, FS_AddElement
    <2> QED
      BY <2>1, <2>3 DEF CountedOnce
  <1>2. ASSUME \A k \in 1..MaxReports : ~CreateEvent(k)
        PROVE  CountedOnce'
    BY <1>2, NotCreated DEF Uncounted, CountedOnce
  <1> QED
    BY <1>1, <1>2

\* A step that begins no incident and reopens none leaves every incident that is not
\* active as it is.
LEMMA NotBegun ==
    ASSUME IncidentTypeOK, TakenWasMeasured, [IncidentNext]_incidentVars,
           \A k \in 1..MaxReports : ~CreateEvent(k),
           NEW j \in Slots \ reopened', ~Active(j)
    PROVE  ~Active(j)'
  <1>a. \A i \in Slots : incident[i] \in Incident
    BY DEF IncidentTypeOK
  <1>1. CASE UNCHANGED incident
    BY <1>1 DEF Active
  <1>2. ASSUME NEW i \in Slots, AcknowledgeIncident(i) \/ SnoozeIncident(i)
        PROVE  ~Active(j)'
    <2>1. j # i
      BY <1>2 DEF AcknowledgeIncident, SnoozeIncident, Active
    <2>2. incident'[j] = incident[j]
      BY <1>2, <2>1 DEF AcknowledgeIncident, SnoozeIncident, IncidentTypeOK
    <2> QED
      BY <2>2 DEF Active
  <1>3. ASSUME NEW i \in Slots, NEW n, Close(i, n)
        PROVE  ~Active(j)'
    BY <1>3, Closed DEF Active
  <1>4. \/ UNCHANGED incident
        \/ \E i \in Slots : AcknowledgeIncident(i) \/ SnoozeIncident(i)
        \/ \E i \in Slots : \E n : Close(i, n)
    <2>1. ASSUME NEW v \in Verifiers, AnswerCheck(v)
          PROVE  UNCHANGED incident \/ Close(verifier[v].about, verifier[v].at)
      BY <2>1 DEF AnswerCheck
    <2>2. ASSUME NEW v \in Verifiers, AnswerCheck(v)
          PROVE  verifier[v].about \in Slots
      BY <2>2 DEF AnswerCheck, IncidentTypeOK
    <2>3. ASSUME NEW k \in 1..MaxReports, ResolveEvent(k)
          PROVE  UNCHANGED incident \/ \E i \in Slots : \E n : Close(i, n)
      BY <2>3 DEF ResolveEvent, Existing
    <2> QED
      BY <2>1, <2>2, <2>3 DEF IncidentNext, VerifierStep, incidentVars, Measure,
         ResolveIncident, BindSession, Finish, ClaimTicket, TakeOrder, MeasureSource
  <1> QED
    BY <1>1, <1>2, <1>3, <1>4

LEMMA ActiveKept ==
    ASSUME IncidentTypeOK, TakenWasMeasured, OneActiveIncident, [IncidentNext]_incidentVars
    PROVE  OneActiveIncident'
  <1>1. ASSUME NEW k \in 1..MaxReports, CreateEvent(k)
        PROVE  OneActiveIncident'
    <2>1. PICK i \in Slots :
             /\ \A j \in Slots \ {i} : incident'[j] = incident[j]
             /\ incident'[i].episode = report[k].episode
             /\ Active(i) => incident[i].episode = report[k].episode
             /\ ~Active(i) => \A j \in Slots : Active(j) => incident[j].episode # report[k].episode
      BY <1>1, Created
    <2>2. reopened' = reopened
      BY <1>1 DEF CreateEvent
    <2>3. \A j \in Slots \ {i} : Active(j)' <=> Active(j)
      BY <2>1 DEF Active
    <2> QED
      BY <2>1, <2>2, <2>3 DEF OneActiveIncident
  <1>2. ASSUME \A k \in 1..MaxReports : ~CreateEvent(k)
        PROVE  OneActiveIncident'
    <2>1. reopened \subseteq reopened'
      BY <1>2 DEF IncidentNext, VerifierStep, incidentVars, Measure, ResolveEvent,
         AcknowledgeIncident, ResolveIncident, SnoozeIncident, BindSession, Finish,
         ClaimTicket, TakeOrder, MeasureSource, AnswerCheck
    <2>2. \A j \in Slots \ reopened' : Active(j)' => Active(j)
      BY <1>2, NotBegun
    <2>3. \A j \in Slots : incident'[j].episode = incident[j].episode
      BY <1>2, NotCreated DEF Uncounted
    <2> QED
      BY <2>1, <2>2, <2>3 DEF OneActiveIncident
  <1> QED
    BY <1>1, <1>2

LEMMA OrdersKept ==
    ASSUME IncidentTypeOK, TakenWasMeasured, OrdersAreCurrent, [IncidentNext]_incidentVars
    PROVE  OrdersAreCurrent'
  <1>a. \A v \in Verifiers : verifier[v] \in Order
    BY DEF IncidentTypeOK
  <1>b. NoOrder.current = FALSE
    BY DEF NoOrder
  <1>1. ASSUME NEW k \in 1..MaxReports, CreateEvent(k)
        PROVE  OrdersAreCurrent'
    <2>1. PICK i \in Slots :
             /\ ObserveDegraded(i, k)
             /\ \A j \in Slots \ {i} : DegradedReports(j)' = DegradedReports(j)
      BY <1>1, Created
    <2>2. \A j \in Slots : check'[j].state = "none" => check[j].state = "none"
      BY <2>1 DEF ObserveDegraded, DueAgain, DueAgainAlways, IncidentTypeOK, Check
    <2>3. ASSUME NEW v \in Verifiers, verifier'[v].current
          PROVE  verifier'[v] = verifier[v] /\ verifier[v].about # i
      <3>1. CASE check[i].attempt = NoAttempt
        <4>1. verifier' = verifier /\ check[i].state = "none"
          BY <2>1, <3>1 DEF ObserveDegraded, Renewed, Keep, IncidentTypeOK
        <4> QED
          BY <2>3, <4>1 DEF OrdersAreCurrent
      <3>2. CASE check[i].attempt # NoAttempt
        <4>1. verifier'[v] = IF verifier[v].about = i
                             THEN [verifier[v] EXCEPT !.current = FALSE] ELSE verifier[v]
          BY <2>1, <3>2 DEF ObserveDegraded, Renewed, Rotate
        <4> QED
          BY <1>a, <2>3, <4>1 DEF Order
      <3> QED
        BY <3>1, <3>2
    <2>4. ASSUME NEW v \in Verifiers, verifier'[v].current
          PROVE  /\ verifier'[v].about \in Slots
                 /\ check'[verifier'[v].about].state # "none"
                 /\ verifier'[v].pc = "measured" =>
                       \A n \in DegradedReports(verifier[v].about)' : n <= verifier'[v].at
      <3>1. PICK j : j = verifier[v].about
        OBVIOUS
      <3>2. /\ j \in Slots \ {i} /\ check[j].state # "none" /\ verifier'[v] = verifier[v]
            /\ verifier[v].pc = "measured" => \A n \in DegradedReports(j) : n <= verifier[v].at
        BY <2>3, <2>4, <3>1 DEF OrdersAreCurrent
      <3>3. verifier'[v].pc = "measured" => \A n \in DegradedReports(j)' : n <= verifier'[v].at
        BY <2>1, <3>2
      <3> QED
        BY <2>2, <3>1, <3>2, <3>3
    <2> QED
      BY <2>4 DEF OrdersAreCurrent
  <1>2. ASSUME \A k \in 1..MaxReports : ~CreateEvent(k)
        PROVE  OrdersAreCurrent'
    <2>1. \A j \in Slots : DegradedReports(j)' = DegradedReports(j)
      BY <1>2, NotCreated DEF Uncounted
    <2>2. \A j \in Slots : check'[j].state = "none" => check[j].state = "none"
      <3>1. ASSUME NEW i \in Slots, NEW a \in Attempts, Finish(i, a)
            PROVE  <2>2
        BY <3>1 DEF Finish
      <3>2. ASSUME NEW v \in Verifiers, AnswerCheck(v)
            PROVE  <2>2
        <4> DEFINE j == verifier[v].about
                   found == verifier[v].found
        <4>1. check' = check \/ check' = [check EXCEPT ![j].state = found]
          BY <3>2 DEF AnswerCheck
        <4>2. found # "none"
          BY <1>a DEF Order
        <4> HIDE DEF j, found
        <4>3. ASSUME NEW i \in Slots
              PROVE  check'[i] = check[i] \/ check'[i] = [check[i] EXCEPT !.state = found]
          BY <4>1 DEF IncidentTypeOK
        <4>4. ASSUME NEW i \in Slots
              PROVE  check'[i].state = check[i].state \/ check'[i].state = found
          <5>1. check[i] \in Check
            BY DEF IncidentTypeOK
          <5> QED
            BY <4>3, <5>1 DEF Check
        <4> QED
          BY <4>2, <4>4
      <3>3. \/ UNCHANGED check
            \/ \E i \in Slots, a \in Attempts : Finish(i, a)
            \/ \E v \in Verifiers : AnswerCheck(v)
        BY <1>2 DEF IncidentNext, VerifierStep, incidentVars, Measure, ResolveEvent,
           AcknowledgeIncident, ResolveIncident, SnoozeIncident, BindSession, ClaimTicket,
           TakeOrder, MeasureSource
      <3> QED
        BY <3>1, <3>2, <3>3
    <2>3. ASSUME NEW v \in Verifiers, verifier'[v].current
          PROVE  \/ verifier'[v] = verifier[v]
                 \/ /\ verifier'[v].about \in Slots
                    /\ check[verifier'[v].about].state # "none"
                    /\ verifier'[v].pc = "ordered"
                 \/ /\ verifier[v].current /\ verifier'[v].about = verifier[v].about
                    /\ verifier'[v].at = Len(report)
      <3> DEFINE Taken == /\ verifier'[v].about \in Slots
                          /\ check[verifier'[v].about].state # "none"
                          /\ verifier'[v].pc = "ordered"
                 Measured == /\ verifier[v].current /\ verifier'[v].about = verifier[v].about
                             /\ verifier'[v].at = Len(report)
      <3>1. CASE UNCHANGED verifier
        BY <3>1
      <3>2. ASSUME NEW i \in Slots, NEW a \in Attempts, Finish(i, a)
            PROVE  verifier'[v] = verifier[v]
        <4>1. \/ verifier'[v] = verifier[v]
              \/ verifier'[v] = [verifier[v] EXCEPT !.current = FALSE]
          BY <3>2 DEF Finish
        <4> QED
          BY <1>a, <2>3, <4>1 DEF Order
      <3>3. ASSUME NEW w \in Verifiers, NEW i \in Slots, TakeOrder(w, i)
            PROVE  verifier'[v] = verifier[v] \/ Taken
        <4>1. check[i].state # "none"
          BY <3>3 DEF TakeOrder, Due, Unanswered
        <4>2. verifier' = [verifier EXCEPT ![w] =
                 [NoOrder EXCEPT !.pc = "ordered", !.about = i, !.current = TRUE]]
          BY <3>3 DEF TakeOrder
        <4> QED
          BY <4>1, <4>2 DEF NoOrder, IncidentTypeOK
      <3>4. ASSUME NEW w \in Verifiers, NEW found \in {"unknown", "degraded", "healthy"},
                   MeasureSource(w, found)
            PROVE  verifier'[v] = verifier[v] \/ Measured
        <4>1. verifier' = [verifier EXCEPT ![w] =
                 [verifier[w] EXCEPT !.pc = "measured", !.found = found, !.at = Len(report)]]
          BY <3>4 DEF MeasureSource
        <4>2. CASE v = w
          <5>1. verifier'[v] = [verifier[v] EXCEPT !.pc = "measured", !.found = found,
                                                   !.at = Len(report)]
            BY <4>1, <4>2 DEF IncidentTypeOK
          <5> QED
            BY <1>a, <2>3, <5>1 DEF Order
        <4>3. CASE v # w
          BY <4>1, <4>3 DEF IncidentTypeOK
        <4> QED
          BY <4>2, <4>3
      <3>5. ASSUME NEW w \in Verifiers, AnswerCheck(w)
            PROVE  verifier'[v] = verifier[v]
        <4> DEFINE i == verifier[w].about
        <4>1. \/ verifier' = [verifier EXCEPT ![w] = NoOrder]
              \/ verifier' = [Rotate(i) EXCEPT ![w] = NoOrder]
          BY <3>5 DEF AnswerCheck
        <4> HIDE DEF i
        <4>2. v # w
          BY <1>b, <2>3, <4>1 DEF IncidentTypeOK, Rotate
        <4>3. verifier'[v] = verifier[v] \/ verifier'[v] = [verifier[v] EXCEPT !.current = FALSE]
          BY <4>1, <4>2 DEF IncidentTypeOK, Rotate
        <4> QED
          BY <1>a, <2>3, <4>3 DEF Order
      <3> QED
        BY <1>2, <3>1, <3>2, <3>3, <3>4, <3>5 DEF IncidentNext, VerifierStep, incidentVars,
           Measure, ResolveEvent, AcknowledgeIncident, ResolveIncident, SnoozeIncident,
           BindSession, ClaimTicket
    <2>4. ASSUME NEW v \in Verifiers, verifier'[v].current
          PROVE  /\ verifier'[v].about \in Slots
                 /\ check'[verifier'[v].about].state # "none"
                 /\ verifier'[v].pc = "measured" =>
                       \A n \in DegradedReports(verifier'[v].about) : n <= verifier'[v].at
      <3>1. CASE verifier'[v] = verifier[v]
        BY <2>2, <2>4, <3>1 DEF OrdersAreCurrent
      <3>2. CASE /\ verifier'[v].about \in Slots
                 /\ check[verifier'[v].about].state # "none"
                 /\ verifier'[v].pc = "ordered"
        BY <2>2, <3>2
      <3>3. CASE /\ verifier[v].current /\ verifier'[v].about = verifier[v].about
                 /\ verifier'[v].at = Len(report)
        BY <2>2, <3>3 DEF OrdersAreCurrent, DegradedReports
      <3> QED
        BY <2>3, <2>4, <3>1, <3>2, <3>3
    <2>5. ASSUME NEW v \in Verifiers, verifier'[v].current
          PROVE  /\ verifier'[v].about \in Slots
                 /\ check'[verifier'[v].about].state # "none"
                 /\ verifier'[v].pc = "measured" =>
                       \A n \in DegradedReports(verifier[v].about)' : n <= verifier'[v].at
      <3>1. PICK j : j = verifier'[v].about
        OBVIOUS
      <3>2. DegradedReports(j)' = DegradedReports(j)
        BY <2>1, <2>4, <2>5, <3>1
      <3> QED
        BY <2>4, <2>5, <3>1, <3>2
    <2> QED
      BY <2>5 DEF OrdersAreCurrent
  <1> QED
    BY <1>1, <1>2

LEMMA TicketsKept ==
    ASSUME IncidentTypeOK, TicketIsNamed, [IncidentNext]_incidentVars
    PROVE  TicketIsNamed'
  <1>1. CASE UNCHANGED <<ticket, continuation>>
    BY <1>1 DEF TicketIsNamed
  <1>2. ASSUME NEW i \in Slots, NEW n, Close(i, n), UNCHANGED continuation
        PROVE  TicketIsNamed'
    BY <1>2, Closed DEF TicketIsNamed
  <1>3. ASSUME NEW i \in Slots, NEW a \in Attempts, ClaimTicket(i, a)
        PROVE  TicketIsNamed'
    BY <1>3 DEF ClaimTicket, TicketIsNamed, IncidentTypeOK
  <1>4. ASSUME NEW i \in Slots, NEW a \in Attempts, Continue(i, a)
        PROVE  TicketIsNamed'
    <2>1. CASE ~Free(i, a)
      BY <1>4, <2>1 DEF Continue, TicketIsNamed
    <2>2. CASE Free(i, a)
      <3>1. \A j \in Slots \ {i} : ticket[<<j, a>>] \notin {"queued", "claimed"}
        BY <2>2, Marks DEF Free, TicketIsNamed
      <3>2. /\ continuation' = [continuation EXCEPT ![a] = i]
            /\ \A j \in Slots, b \in Attempts :
                  <<j, b>> # <<i, a>> => ticket'[<<j, b>>] = ticket[<<j, b>>]
        BY <1>4, <2>2 DEF Continue, IncidentTypeOK
      <3>3. ASSUME NEW j \in Slots, NEW b \in Attempts,
                   ticket'[<<j, b>>] \in {"queued", "claimed"}
            PROVE  continuation'[b] = j
        <4>1. CASE b = a
          BY <3>1, <3>2, <3>3, <4>1 DEF IncidentTypeOK
        <4>2. CASE b # a
          BY <3>2, <3>3, <4>2 DEF IncidentTypeOK, TicketIsNamed
        <4> QED
          BY <4>1, <4>2
      <3> QED
        BY <3>3 DEF TicketIsNamed
    <2> QED
      BY <2>1, <2>2
  <1>5. ASSUME NEW v \in Verifiers, AnswerCheck(v)
        PROVE  TicketIsNamed'
    <2>1. verifier[v].about \in Slots
      BY <1>5 DEF AnswerCheck, IncidentTypeOK
    <2>2. Accepts(v) => check[verifier[v].about].attempt \in Attempts
      BY <2>1 DEF Accepts, Unanswered, IncidentTypeOK, Check
    <2> QED
      BY <1>1, <1>2, <1>4, <1>5, <2>1, <2>2 DEF AnswerCheck
  <1>6. ASSUME NEW k \in 1..MaxReports, ResolveEvent(k)
        PROVE  TicketIsNamed'
    BY <1>1, <1>2, <1>6 DEF ResolveEvent, Existing
  <1> QED
    BY <1>1, <1>2, <1>3, <1>5, <1>6 DEF IncidentNext, VerifierStep, incidentVars, Measure,
       CreateEvent, AcknowledgeIncident, ResolveIncident, SnoozeIncident, BindSession, Finish,
       TakeOrder, MeasureSource

LEMMA GroundKept ==
    ASSUME IncidentTypeOK, TakenWasMeasured, LatestIsKnown, OrdersAreCurrent,
           ResolvedOnLatestEvidence, NoEpisode \notin Clocked, [IncidentNext]_incidentVars
    PROVE  ResolvedOnLatestEvidence'
  <1> DEFINE Grounded(j) ==
        incident'[j].state = "resolved" /\ ground'[j] # NoGround =>
            \A k \in DegradedReports(j) : k <= ground'[j]
  <1>1. ASSUME NEW k \in 1..MaxReports, CreateEvent(k)
        PROVE  ResolvedOnLatestEvidence'
    <2>1. PICK i \in Slots :
             /\ \A j \in Slots \ {i} : /\ DegradedReports(j)' = DegradedReports(j)
                                       /\ incident'[j] = incident[j]
             /\ incident'[i].state # "resolved"
      BY <1>1, Created
    <2>2. ground' = ground
      BY <1>1 DEF CreateEvent
    <2> QED
      BY <2>1, <2>2 DEF ResolvedOnLatestEvidence
  <1>2. ASSUME \A k \in 1..MaxReports : ~CreateEvent(k)
        PROVE  ResolvedOnLatestEvidence'
    <2>1. \A j \in Slots : DegradedReports(j)' = DegradedReports(j)
      BY <1>2, NotCreated DEF Uncounted
    <2>2. CASE UNCHANGED <<incident, ground>>
      BY <2>1, <2>2 DEF ResolvedOnLatestEvidence
    <2>3. ASSUME NEW i \in Slots, NEW n, Close(i, n),
                 n # NoGround => \A k \in DegradedReports(i) : k <= n
          PROVE  ResolvedOnLatestEvidence'
      BY <2>1, <2>3, Closed DEF ResolvedOnLatestEvidence
    <2>4. ASSUME NEW i \in Slots, AcknowledgeIncident(i) \/ SnoozeIncident(i)
          PROVE  ResolvedOnLatestEvidence'
      <3>1. PICK x \in {"acknowledged", "snoozed"} : incident' = [incident EXCEPT ![i].state = x]
        BY <2>4 DEF AcknowledgeIncident, SnoozeIncident
      <3>2. incident'[i].state = x
        BY <3>1 DEF IncidentTypeOK, Incident
      <3>3. \A j \in Slots \ {i} : incident'[j] = incident[j]
        BY <3>1 DEF IncidentTypeOK
      <3>4. ground' = ground
        BY <2>4 DEF AcknowledgeIncident, SnoozeIncident
      <3> QED
        BY <2>1, <3>2, <3>3, <3>4 DEF ResolvedOnLatestEvidence
    <2>5. ASSUME NEW k \in 1..MaxReports, ResolveEvent(k)
          PROVE  ResolvedOnLatestEvidence'
      <3>1. CASE UNCHANGED <<incident, ground>>
        BY <2>2, <3>1
      <3>2. ASSUME NEW i \in Slots, incident[i].episode = report[k].episode, RecoveryMatches(i, k),
                   Close(i, IF report[k].episode \in Clocked THEN k ELSE NoGround)
            PROVE  ResolvedOnLatestEvidence'
        <4>1. CASE report[k].episode \notin Clocked
          BY <2>3, <3>2, <4>1
        <4>2. CASE report[k].episode \in Clocked
          <5>1. k > origin[i].latest /\ \A m \in DegradedReports(i) : m <= origin[i].latest
            BY <3>2, <4>2 DEF RecoveryMatches, LatestIsKnown
          <5>2. origin[i].latest \in Nat /\ \A m \in DegradedReports(i) : m \in Nat
            BY LifecycleAssumption DEF IncidentTypeOK, Origin, DegradedReports
          <5>3. \A m \in DegradedReports(i) : m <= k
            BY <5>1, <5>2
          <5> QED
            BY <2>3, <3>2, <4>2, <5>3
        <4> QED
          BY <4>1, <4>2
      <3> QED
        BY <2>5, <3>1, <3>2 DEF ResolveEvent, Existing
    <2>6. ASSUME NEW v \in Verifiers, AnswerCheck(v)
          PROVE  ResolvedOnLatestEvidence'
      <3>1. CASE UNCHANGED <<incident, ground>>
        BY <2>2, <3>1
      <3>2. CASE Accepts(v) /\ Close(verifier[v].about, verifier[v].at)
        BY <2>3, <2>6, <3>2 DEF AnswerCheck, Accepts, OrdersAreCurrent
      <3> QED
        BY <2>6, <3>1, <3>2 DEF AnswerCheck
    <2>7. ASSUME NEW i \in Slots, ResolveIncident(i)
          PROVE  ResolvedOnLatestEvidence'
      BY <2>3, <2>7 DEF ResolveIncident
    <2> QED
      BY <1>2, <2>2, <2>4, <2>5, <2>6, <2>7 DEF IncidentNext, VerifierStep, incidentVars,
         Measure, BindSession, Finish, ClaimTicket, TakeOrder, MeasureSource
  <1> QED
    BY <1>1, <1>2
-----------------------------------------------------------------------------
(***************************************************************************)
(* The theorems                                                            *)
(***************************************************************************)
\* The invariant holds in every state that the store can be in.
THEOREM InvariantHolds == IncidentSpec => []Inv
  <1>a. NoEpisode \notin Clocked
    BY LifecycleAssumption
  <1>1. IncidentInit => Inv
    <2> SUFFICES ASSUME IncidentInit PROVE Inv
      OBVIOUS
    <2>1. IncidentTypeOK
      <3>1. /\ report \in Seq(Report) /\ Len(report) <= MaxReports
            /\ 0 \in 0..MaxReports /\ 0 \in 0..MaxActs
        BY LifecycleAssumption DEF IncidentInit
      <3>2. incident \in [Slots -> Incident]
        BY DEF IncidentInit, Incident, Absent
      <3>3. origin \in [Slots -> Origin]
        BY <3>1 DEF IncidentInit, Origin
      <3>4. /\ check \in [Slots -> Check]
            /\ \A i \in Slots : check[i].state = "none" <=> check[i].attempt = NoAttempt
        BY DEF IncidentInit, Check, Checks
      <3>5. /\ verifier \in [Verifiers -> Order]
            /\ \A v \in Verifiers : verifier[v].pc # "idle" => verifier[v].about \in Slots
        BY NoOrderType DEF IncidentInit, NoOrder
      <3> QED
        BY <3>1, <3>2, <3>3, <3>4, <3>5 DEF IncidentInit, IncidentTypeOK, Tickets, NoGround
    <2>2. \A i \in Slots : DegradedReports(i) = {}
      BY DEF IncidentInit, DegradedReports
    <2>3. TakenWasMeasured
      BY Marks DEF IncidentInit, TakenWasMeasured, Absent
    <2>4. LatestIsKnown /\ ResolvedOnLatestEvidence
      BY <2>2 DEF LatestIsKnown, ResolvedOnLatestEvidence
    <2>5. OrdersAreCurrent
      BY DEF IncidentInit, OrdersAreCurrent, NoOrder
    <2>6. TicketIsNamed
      BY DEF IncidentInit, TicketIsNamed
    <2>7. CountedOnce
      BY <2>2, FS_EmptySet DEF IncidentInit, CountedOnce, Absent
    <2>8. OneActiveIncident
      BY DEF IncidentInit, OneActiveIncident, Active, Absent
    <2> QED
      BY <2>1, <2>3, <2>4, <2>5, <2>6, <2>7, <2>8 DEF Inv
  <1>2. Inv /\ [IncidentNext]_incidentVars => Inv'
    BY <1>a, TypeKept, TakenKept, LatestKept, OrdersKept, TicketsKept, CountKept, ActiveKept,
       GroundKept DEF Inv
  <1> QED
    BY <1>1, <1>2, PTL DEF IncidentSpec

\* The rows of the store have their types.
THEOREM TypeCorrect == IncidentSpec => []IncidentTypeOK
  <1>1. Inv => IncidentTypeOK
    BY DEF Inv
  <1> QED
    BY <1>1, InvariantHolds, PTL

\* However often a report is repeated and whatever overtakes it, its incident counts it
\* once (create_event).
THEOREM ReportsCountOnce == IncidentSpec => []CountedOnce
  <1>1. Inv => CountedOnce
    BY DEF Inv
  <1> QED
    BY <1>1, InvariantHolds, PTL

\* An episode has one incident that is worked on, unless a resolved one was snoozed
\* (create_event, _transition).
THEOREM EpisodeHasOneIncident == IncidentSpec => []OneActiveIncident
  <1>1. Inv => OneActiveIncident
    BY DEF Inv
  <1> QED
    BY <1>1, InvariantHolds, PTL

\* The evidence that closes an incident was measured after all its degradations
\* (_source_health_recovery_matches, check).
THEOREM LateEvidenceClosesNothing == IncidentSpec => []ResolvedOnLatestEvidence
  <1>1. Inv => ResolvedOnLatestEvidence
    BY DEF Inv
  <1> QED
    BY <1>1, InvariantHolds, PTL

\* The incidents that share the completion of an attempt continue its session at most
\* once (check).
THEOREM CompletionContinuesOnce == IncidentSpec => []OneContinuation
  <1>1. Inv => OneContinuation
    <2> SUFFICES ASSUME Inv, NEW a \in Attempts
                 PROVE  Cardinality({i \in Slots : ticket[<<i, a>>] \in {"queued", "claimed"}}) <= 1
      BY DEF OneContinuation
    <2> DEFINE S == {i \in Slots : ticket[<<i, a>>] \in {"queued", "claimed"}}
    <2>1. S \subseteq {continuation[a]}
      BY DEF Inv, TicketIsNamed
    <2>2. IsFiniteSet({continuation[a]}) /\ Cardinality({continuation[a]}) = 1
      BY FS_Singleton
    <2> HIDE DEF S
    <2>3. Cardinality(S) <= 1
      BY <2>1, <2>2, FS_Subset
    <2> QED
      BY <2>3 DEF S
  <1> QED
    BY <1>1, InvariantHolds, PTL

\* What can make the order of a verifier stale (finish, observe_degraded, check).
LEMMA OrderKept ==
    ASSUME Inv, [IncidentNext]_incidentVars, NEW v \in Verifiers, NEW i \in Slots,
           verifier[v].about = i, verifier[v].current, verifier'[v].about = i,
           ~verifier'[v].current
    PROVE  \/ origin'[i].generation > origin[i].generation
           \/ \E a \in Attempts : <<i, a>> \in finished' \ finished
           \/ Answered(i)
  <1>a. IncidentTypeOK /\ TakenWasMeasured /\ i # Nobody
    BY Marks DEF Inv
  <1>1. CASE UNCHANGED verifier
    BY <1>1
  <1>2. ASSUME NEW k \in 1..MaxReports, CreateEvent(k)
        PROVE  origin'[i].generation > origin[i].generation
    <2>1. PICK j \in Slots : ObserveDegraded(j, k)
      BY <1>a, <1>2, Created
    <2>2. verifier'[v] # verifier[v] => j = i
      BY <2>1 DEF ObserveDegraded, Renewed, Keep, Rotate
    <2>3. j = i
      BY <2>2
    <2> DEFINE n == Latest(j, k)
               g == origin[i].generation + 1
    <2>4. origin' = [origin EXCEPT ![i].generation = g, ![i].latest = n]
      BY <2>1, <2>3 DEF ObserveDegraded
    <2> HIDE DEF n, g
    <2>5. origin'[i].generation = g
      BY <1>a, <2>4 DEF IncidentTypeOK, Origin
    <2>6. origin[i].generation \in Nat
      BY <1>a DEF IncidentTypeOK, Origin
    <2> QED
      BY <2>5, <2>6 DEF g
  <1>3. ASSUME NEW j \in Slots, NEW a \in Attempts, Finish(j, a)
        PROVE  <<i, a>> \in finished' \ finished
    <2>1. i \in Declared(j, a)
      BY <1>3 DEF Finish
    <2> QED
      BY <1>3, <2>1 DEF Finish, Declared
  <1>4. ASSUME NEW w \in Verifiers, NEW j \in Slots, TakeOrder(w, j)
        PROVE  FALSE
    <2>1. verifier' = [verifier EXCEPT ![w] =
             [NoOrder EXCEPT !.pc = "ordered", !.about = j, !.current = TRUE]]
      BY <1>4 DEF TakeOrder
    <2> QED
      BY <1>a, <2>1 DEF NoOrder, IncidentTypeOK
  <1>5. ASSUME NEW w \in Verifiers, NEW found \in {"unknown", "degraded", "healthy"},
               MeasureSource(w, found)
        PROVE  FALSE
    <2>1. verifier[v] \in Order
      BY <1>a DEF IncidentTypeOK
    <2>2. \/ verifier'[v] = verifier[v]
          \/ verifier'[v] = [verifier[v] EXCEPT !.pc = "measured", !.found = found,
                                                !.at = Len(report)]
      BY <1>a, <1>5 DEF MeasureSource, IncidentTypeOK
    <2> QED
      BY <2>1, <2>2 DEF Order
  <1>6. ASSUME NEW w \in Verifiers, AnswerCheck(w)
        PROVE  Answered(i)
    <2>1. NoOrder.about = Nobody
      BY DEF NoOrder
    <2>2. PICK j : j = verifier[w].about
      OBVIOUS
    <2>3. CASE verifier' = [verifier EXCEPT ![w] = NoOrder]
      BY <1>a, <2>1, <2>3 DEF IncidentTypeOK
    <2>4. CASE verifier' = [Rotate(j) EXCEPT ![w] = NoOrder] /\ Accepts(w)
      <3>1. v # w
        BY <1>a, <2>1, <2>4 DEF IncidentTypeOK, Rotate
      <3>2. j = i /\ verifier'[w] = NoOrder
        BY <1>a, <2>4, <3>1 DEF IncidentTypeOK, Rotate
      <3> QED
        BY <1>6, <2>2, <2>4, <3>2 DEF AnswerCheck, Accepts, Answered
    <2> QED
      BY <1>6, <2>2, <2>3, <2>4 DEF AnswerCheck
  <1> QED
    BY <1>1, <1>2, <1>3, <1>4, <1>5, <1>6 DEF IncidentNext, VerifierStep, incidentVars,
       Measure, ResolveEvent, AcknowledgeIncident, ResolveIncident, SnoozeIncident,
       BindSession, ClaimTicket

\* An order becomes stale only by a newer degradation, a newly finished attempt or the
\* answer to the same order: repeating a completion wastes no order (finish).
THEOREM OrdersAreNotWasted == IncidentSpec => NoOrderIsLost
  <1> DEFINE Kept ==
        \A v \in Verifiers :
         LET i == verifier[v].about
         IN  verifier[v].current /\ verifier'[v].about = i /\ ~verifier'[v].current =>
                \/ origin'[i].generation > origin[i].generation
                \/ \E a \in Attempts : <<i, a>> \in finished' \ finished
                \/ Answered(i)
  <1>1. Inv /\ [IncidentNext]_incidentVars => Kept
    <2> SUFFICES ASSUME Inv, [IncidentNext]_incidentVars, NEW v \in Verifiers,
                        NEW i, i = verifier[v].about,
                        verifier[v].current, verifier'[v].about = i, ~verifier'[v].current
                 PROVE  \/ origin'[i].generation > origin[i].generation
                        \/ \E a \in Attempts : <<i, a>> \in finished' \ finished
                        \/ Answered(i)
      OBVIOUS
    <2>1. i \in Slots
      BY DEF Inv, OrdersAreCurrent
    <2> QED
      BY <2>1, OrderKept
  <1>2. Inv /\ [IncidentNext]_incidentVars => [Kept]_incidentVars
    BY <1>1
  <1> QED
    BY <1>2, InvariantHolds, PTL DEF IncidentSpec, NoOrderIsLost
=============================================================================
