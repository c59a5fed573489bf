----------------------------- MODULE OutboxRows -----------------------------
(***************************************************************************)
(* What one row of the `deliveries` table is, and the updates every        *)
(* statement of the store applies to it.  The module has no variables: the *)
(* outbox modules hold a function from delivery identities to rows.        *)
(*                                                                         *)
(* Times are kept as the time that is still left: `due` until due_at,      *)
(* `lease` until claimed_at + lease_seconds, `fresh` until the staleness   *)
(* bound of a Telegram card.  `due_at <= now` is `due = 0`.  A generation  *)
(* of a claim is the pair (claimed_at, attempt) in the code; attempt alone *)
(* identifies it, because every claim increments it.                       *)
(***************************************************************************)
EXTENDS Naturals

\* A row is absent until its unique delivery_key is inserted.
Statuses == {"absent", "queued", "claimed", "sending",
             "sent", "failed", "cancelled", "uncertain", "superseded"}

\* Statuses in which a worker still holds the generation it claimed.
Held == {"claimed", "sending"}

Finished == {"sent", "failed", "cancelled", "uncertain", "superseded"}

Row == [status : Statuses, due : Nat, lease : Nat, fresh : Nat, attempt : Nat]

AbsentRow == [status |-> "absent", due |-> 0, lease |-> 0, fresh |-> 0, attempt |-> 0]

NewRow(due, fresh) ==
    [status |-> "queued", due |-> due, lease |-> 0, fresh |-> fresh, attempt |-> 0]

\* UPDATE ... SET status='claimed', claimed_at=now, attempt=attempt+1
ClaimedRow(r, lease) ==
    [status |-> "claimed", due |-> r.due, lease |-> lease, fresh |-> r.fresh,
     attempt |-> r.attempt + 1]

\* UPDATE ... SET status='queued', due_at=now+delay
RequeuedRow(r, delay) == [r EXCEPT !.status = "queued", !.due = delay, !.lease = 0]

WithStatus(r, status) == [r EXCEPT !.status = status, !.lease = 0]

Elapse(n) == IF n = 0 THEN 0 ELSE n - 1

\* One time unit passes for a row; claimed_at only matters while it is claimed.
AgedRow(r) ==
    [r EXCEPT !.due = Elapse(@), !.lease = Elapse(@), !.fresh = Elapse(@)]

\* _schedule_delivery: an existing delivery_key keeps its row, whatever it says.
Scheduled(rows, new, due, fresh) ==
    [d \in DOMAIN rows |->
        IF d \in new /\ rows[d].status = "absent" THEN NewRow(due, fresh) ELSE rows[d]]

\* UPDATE deliveries SET status='cancelled' WHERE ...
Cancelled(rows, doomed) ==
    [d \in DOMAIN rows |->
        IF d \in doomed THEN WithStatus(rows[d], "cancelled") ELSE rows[d]]

MaxOf(a, b) == IF a >= b THEN a ELSE b
=============================================================================
