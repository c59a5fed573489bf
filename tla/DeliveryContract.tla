-------------------------- MODULE DeliveryContract --------------------------
(***************************************************************************)
(* What the outbox promises of every single delivery, without the workers, *)
(* processes, leases, cards and owners that make it hard to keep.  A row   *)
(* is claimed as often as it must be, but each external send is licensed   *)
(* by exactly one step out of 'claimed', and only a failure reported for   *)
(* that send puts the row back so that it can be licensed again.           *)
(*                                                                         *)
(* One step may move several rows: each of them moves as RowStep allows.   *)
(***************************************************************************)
EXTENDS Naturals, TLAPS

CONSTANTS
    Deliveries,
    Repeatable,   \* deliveries whose failed send may be reported for a retry
    Revivable,    \* deliveries that are queued again after a cancellation
    Limit         \* delivery -> the most sends of it, 0 for no limit

\* What an instance owes the contract.
Parameters ==
    /\ Repeatable \subseteq Deliveries /\ Revivable \subseteq Deliveries
    /\ Limit \in [Deliveries -> Nat]
    /\ \A d \in Revivable : Limit[d] = 0

VARIABLES status, attempt, licences, reported

vars == <<status, attempt, licences, reported>>

Waiting == {"absent", "queued", "claimed"}
Over == {"sent", "failed", "cancelled", "uncertain", "superseded"}
Phases == Waiting \cup {"sending"} \cup Over

TypeOK ==
    /\ status \in [Deliveries -> Phases]
    /\ attempt \in [Deliveries -> Nat]
    /\ licences \in [Deliveries -> Nat]
    /\ reported \in [Deliveries -> Nat]

Init ==
    /\ status \in [Deliveries -> {"absent", "queued"}]
    /\ attempt = [d \in Deliveries |-> 0]
    /\ licences = [d \in Deliveries |-> 0]
    /\ reported = [d \in Deliveries |-> 0]

Moves(d, from, to) == status[d] \in from /\ status'[d] \in to

KeepsGeneration(d) == attempt'[d] = attempt[d]
KeepsCounts(d) == licences'[d] = licences[d] /\ reported'[d] = reported[d]

Rest(d) == status'[d] = status[d] /\ KeepsGeneration(d) /\ KeepsCounts(d)

Schedule(d) == Moves(d, {"absent"}, {"queued"}) /\ KeepsGeneration(d) /\ KeepsCounts(d)

Claim(d) ==
    /\ Moves(d, {"queued", "claimed"}, {"claimed"})
    /\ attempt'[d] = attempt[d] + 1
    /\ KeepsCounts(d)

PutBack(d) == Moves(d, {"claimed"}, {"queued"}) /\ KeepsGeneration(d) /\ KeepsCounts(d)

License(d) ==
    /\ Moves(d, {"claimed"}, {"sending"})
    /\ KeepsGeneration(d)
    /\ licences'[d] = licences[d] + 1 /\ reported'[d] = reported[d]

\* The send failed and may be tried again: never beyond the limit.
Retry(d) ==
    /\ d \in Repeatable
    /\ Moves(d, {"sending"}, {"queued"})
    /\ Limit[d] >= 1 => attempt[d] < Limit[d]
    /\ KeepsGeneration(d)
    /\ licences'[d] = licences[d] /\ reported'[d] = reported[d] + 1

\* A revivable delivery is not cancelled once its send was licensed.
Finish(d) ==
    /\ Moves(d, {"queued", "claimed", "sending"}, Over)
    /\ d \in Revivable /\ status'[d] = "cancelled" => status[d] # "sending"
    /\ KeepsGeneration(d) /\ KeepsCounts(d)

Revive(d) ==
    /\ d \in Revivable
    /\ Moves(d, {"cancelled"}, {"queued"})
    /\ KeepsGeneration(d) /\ KeepsCounts(d)

RowStep(d) ==
    \/ Rest(d) \/ Schedule(d) \/ Claim(d) \/ PutBack(d)
    \/ License(d) \/ Retry(d) \/ Finish(d) \/ Revive(d)

Next == TypeOK' /\ \A d \in Deliveries : RowStep(d)

Spec == Init /\ [][Next]_vars

-----------------------------------------------------------------------------
(* Every send but the first answers a reported failure of the one before;    *)
(* a delivery that must not be repeated is sent at most once.                *)
SentOnce ==
    \A d \in Deliveries :
        /\ licences[d] <= 1 + reported[d]
        /\ d \notin Repeatable => licences[d] <= 1

(* No delivery is sent more often than its limit allows.                     *)
SentWithinLimit ==
    \A d \in Deliveries : Limit[d] >= 1 => licences[d] <= Limit[d]

-----------------------------------------------------------------------------
(* The inductive invariant behind both: what a row still waiting has used up. *)
Accounts ==
    \A d \in Deliveries :
        /\ licences[d] <= 1 + reported[d]
        /\ d \notin Repeatable => reported[d] = 0
        /\ status[d] \in Waiting => licences[d] <= reported[d]
        /\ d \in Revivable /\ status[d] = "cancelled" => licences[d] <= reported[d]
        /\ licences[d] <= attempt[d]
        /\ status[d] = "claimed" => licences[d] < attempt[d]
        /\ Limit[d] >= 1 => /\ licences[d] <= Limit[d]
                            /\ status[d] \in Waiting => licences[d] < Limit[d]

-----------------------------------------------------------------------------
\* A step keeps the accounts of every delivery.
LEMMA AccountsKept ==
    ASSUME Parameters, TypeOK, Accounts, [Next]_vars
    PROVE  TypeOK' /\ Accounts'
  <1>1. CASE UNCHANGED vars
    BY <1>1 DEF vars, TypeOK, Accounts
  <1>2. CASE Next
    <2> USE <1>2
    <2>1. TypeOK'
      BY DEF Next
    <2> SUFFICES ASSUME NEW d \in Deliveries
                 PROVE  /\ licences'[d] <= 1 + reported'[d]
                        /\ d \notin Repeatable => reported'[d] = 0
                        /\ status'[d] \in Waiting => licences'[d] <= reported'[d]
                        /\ d \in Revivable /\ status'[d] = "cancelled"
                              => licences'[d] <= reported'[d]
                        /\ licences'[d] <= attempt'[d]
                        /\ status'[d] = "claimed" => licences'[d] < attempt'[d]
                        /\ Limit[d] >= 1 =>
                              /\ licences'[d] <= Limit[d]
                              /\ status'[d] \in Waiting => licences'[d] < Limit[d]
      BY <2>1 DEF Accounts
    <2>2. /\ licences[d] \in Nat /\ reported[d] \in Nat /\ attempt[d] \in Nat /\ Limit[d] \in Nat
          /\ licences'[d] \in Nat /\ reported'[d] \in Nat /\ attempt'[d] \in Nat
      BY <2>1 DEF Parameters, TypeOK
    <2>3. /\ licences[d] <= 1 + reported[d]
          /\ d \notin Repeatable => reported[d] = 0
          /\ status[d] \in Waiting => licences[d] <= reported[d]
          /\ d \in Revivable /\ status[d] = "cancelled" => licences[d] <= reported[d]
          /\ licences[d] <= attempt[d]
          /\ status[d] = "claimed" => licences[d] < attempt[d]
          /\ Limit[d] >= 1 => /\ licences[d] <= Limit[d]
                              /\ status[d] \in Waiting => licences[d] < Limit[d]
      BY DEF Accounts
    <2>4. d \in Revivable => Limit[d] = 0
      BY DEF Parameters
    <2> USE DEF Moves, KeepsGeneration, KeepsCounts, Waiting, Over
    <2>5. CASE Rest(d)
      BY <2>2, <2>3, <2>5 DEF Rest
    <2>6. CASE Schedule(d)
      BY <2>2, <2>3, <2>6 DEF Schedule
    <2>7. CASE Claim(d)
      BY <2>2, <2>3, <2>7 DEF Claim
    <2>8. CASE PutBack(d)
      BY <2>2, <2>3, <2>8 DEF PutBack
    <2>9. CASE License(d)
      BY <2>2, <2>3, <2>9 DEF License
    <2>10. CASE Retry(d)
      BY <2>2, <2>3, <2>10 DEF Retry
    <2>11. CASE Finish(d)
      BY <2>2, <2>3, <2>11 DEF Finish
    <2>12. CASE Revive(d)
      BY <2>2, <2>3, <2>4, <2>12 DEF Revive
    <2> QED
      BY <2>5, <2>6, <2>7, <2>8, <2>9, <2>10, <2>11, <2>12 DEF Next, RowStep
  <1> QED
    BY <1>1, <1>2

\* Nothing has been used up at first.
LEMMA AccountsOpen ==
    ASSUME Parameters, Init
    PROVE  TypeOK /\ Accounts
  BY DEF Parameters, Init, TypeOK, Accounts, Phases, Waiting, Over

\* The accounts are enough for both promises.
LEMMA AccountsSuffice ==
    ASSUME TypeOK, Accounts
    PROVE  SentOnce /\ SentWithinLimit
  BY DEF TypeOK, Accounts, SentOnce, SentWithinLimit

\* Whatever keeps the contract never repeats a send blindly, nor beyond the limit.
THEOREM ContractKept ==
    ASSUME Parameters
    PROVE  Spec => [](SentOnce /\ SentWithinLimit)
  <1> QED
    BY AccountsOpen, AccountsKept, AccountsSuffice, PTL DEF Spec
=============================================================================
