-------------------------- MODULE OutboxRowLemmas --------------------------
(***************************************************************************)
(* What the operators of OutboxRows return, for the proofs about every     *)
(* module that keeps such rows.                                            *)
(***************************************************************************)
EXTENDS OutboxRows, TLAPS

USE DEF Statuses, Held, Finished

\* Counting down stays within the naturals.
LEMMA ElapseType ==
    ASSUME NEW n \in Nat
    PROVE  Elapse(n) \in Nat
  BY DEF Elapse

\* A row that ages keeps its status and its generation.
LEMMA AgedRowType ==
    ASSUME NEW r \in Row
    PROVE  AgedRow(r) \in Row /\ AgedRow(r).status = r.status /\ AgedRow(r).attempt = r.attempt
  BY ElapseType DEF AgedRow, Row

\* A claim of a row is its next generation.
LEMMA ClaimedRowType ==
    ASSUME NEW r \in Row, NEW n \in Nat
    PROVE  /\ ClaimedRow(r, n) \in Row
           /\ ClaimedRow(r, n).status = "claimed" /\ ClaimedRow(r, n).attempt = r.attempt + 1
  <1>1. r.attempt \in Nat /\ r.attempt + 1 \in Nat
    BY DEF Row
  <1> QED
    BY <1>1 DEF Row, ClaimedRow

\* A row that is put back keeps its generation.
LEMMA RequeuedRowType ==
    ASSUME NEW r \in Row, NEW n \in Nat
    PROVE  /\ RequeuedRow(r, n) \in Row
           /\ RequeuedRow(r, n).status = "queued" /\ RequeuedRow(r, n).attempt = r.attempt
  BY DEF Row, RequeuedRow

\* So does a row whose status is set.
LEMMA WithStatusType ==
    ASSUME NEW r \in Row, NEW s \in Statuses
    PROVE  /\ WithStatus(r, s) \in Row
           /\ WithStatus(r, s).status = s /\ WithStatus(r, s).attempt = r.attempt
  BY DEF Row, WithStatus

\* _schedule_delivery inserts rows that were absent and touches no other.
LEMMA ScheduledOnlyInserts ==
    ASSUME NEW D, NEW rows \in [D -> Row], NEW new, NEW due \in Nat, NEW fresh \in Nat
    PROVE  /\ Scheduled(rows, new, due, fresh) \in [D -> Row]
           /\ \A d \in D :
                 \/ Scheduled(rows, new, due, fresh)[d] = rows[d]
                 \/ /\ d \in new /\ rows[d].status = "absent"
                    /\ Scheduled(rows, new, due, fresh)[d].status = "queued"
                    /\ Scheduled(rows, new, due, fresh)[d].attempt = 0
  <1>1. NewRow(due, fresh) \in Row /\ NewRow(due, fresh).status = "queued"
        /\ NewRow(due, fresh).attempt = 0
    BY DEF Row, NewRow
  <1>2. DOMAIN rows = D
    OBVIOUS
  <1> QED
    BY <1>1, <1>2 DEF Scheduled

\* The cancelling UPDATE touches the rows it names, and their status only.
LEMMA CancelledOnlyNamed ==
    ASSUME NEW D, NEW rows \in [D -> Row], NEW doomed
    PROVE  /\ Cancelled(rows, doomed) \in [D -> Row]
           /\ \A d \in D :
                 \/ d \notin doomed /\ Cancelled(rows, doomed)[d] = rows[d]
                 \/ /\ d \in doomed /\ Cancelled(rows, doomed)[d].status = "cancelled"
                    /\ Cancelled(rows, doomed)[d].attempt = rows[d].attempt
  <1>1. \A d \in D : /\ WithStatus(rows[d], "cancelled") \in Row
                     /\ WithStatus(rows[d], "cancelled").status = "cancelled"
                     /\ WithStatus(rows[d], "cancelled").attempt = rows[d].attempt
    BY DEF Row, WithStatus
  <1>2. DOMAIN rows = D
    OBVIOUS
  <1> QED
    BY <1>1, <1>2 DEF Cancelled
=============================================================================
