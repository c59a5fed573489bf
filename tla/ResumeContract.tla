--------------------------- MODULE ResumeContract ---------------------------
(***************************************************************************)
(* What is promised to an agent whose question was answered, without the   *)
(* surfaces, threads, processes, cards and receipts that make it hard to   *)
(* keep.  Its session is resumed with the answer the question keeps, and   *)
(* called again only when the call before was proven not to have happened. *)
(*                                                                         *)
(* One step may move several questions: each moves as RowStep allows.      *)
(***************************************************************************)
CONSTANTS
    Questions,    \* those whose answer resumes a session
    Registered,   \* those whose resume can be looked up afterwards
    Answers,
    Nothing       \* no answer

\* What an instance owes the contract.
Parameters == Registered \subseteq Questions /\ Nothing \notin Answers

VARIABLES
    phase,     \* how far the resume has come
    answer,    \* the answer that is owed to the session
    told       \* the answer the session may have been called with

vars == <<phase, answer, told>>

Phases == {"none", "owed", "sending", "unknown", "sent", "cancelled"}

TypeOK ==
    /\ phase \in [Questions -> Phases]
    /\ answer \in [Questions -> Answers \cup {Nothing}]
    /\ told \in [Questions -> Answers \cup {Nothing}]

Init ==
    /\ phase = [q \in Questions |-> "none"]
    /\ answer = [q \in Questions |-> Nothing]
    /\ told = [q \in Questions |-> Nothing]

\* A resume is in flight until its caller reports; somebody who looked a
\* registered one up may have recorded it before.
InFlight(q) == phase[q] = "sending" \/ (q \in Registered /\ phase[q] = "sent")

KeepsPhase(q) == phase'[q] = phase[q]
KeepsAnswer(q) == answer'[q] = answer[q]
KeepsTold(q) == told'[q] = told[q]

Rest(q) == KeepsPhase(q) /\ KeepsAnswer(q) /\ KeepsTold(q)

\* A surface answers.
Accept(q) ==
    /\ phase[q] = "none" /\ phase'[q] = "owed"
    /\ answer'[q] \in Answers /\ KeepsTold(q)

\* The incident is closed first; a registered resume belongs to none.
Withdraw(q) ==
    /\ q \notin Registered
    /\ phase[q] = "owed" /\ phase'[q] = "cancelled"
    /\ KeepsAnswer(q) /\ KeepsTold(q)

\* One caller fences the call.
Claim(q) ==
    /\ phase[q] = "owed" /\ told[q] = Nothing
    /\ phase'[q] = "sending"
    /\ KeepsAnswer(q) /\ KeepsTold(q)

\* The call may have reached the session.
Call(q) ==
    /\ InFlight(q) /\ told[q] = Nothing
    /\ told'[q] = answer[q]
    /\ KeepsPhase(q) /\ KeepsAnswer(q)

\* The caller reports that it was refused, lost or taken.
Refuse(q) ==
    /\ InFlight(q) /\ told[q] = Nothing
    /\ phase'[q] = "owed"
    /\ KeepsAnswer(q) /\ KeepsTold(q)

Lose(q) ==
    /\ InFlight(q) /\ told[q] # Nothing
    /\ phase'[q] = "unknown"
    /\ KeepsAnswer(q) /\ KeepsTold(q)

Confirm(q) ==
    /\ \/ phase[q] = "sending" /\ told[q] # Nothing
       \/ q \in Registered /\ phase[q] \notin {"none", "cancelled"}
    /\ phase'[q] = "sent"
    /\ KeepsAnswer(q) /\ KeepsTold(q)

\* A call in doubt is proven not to have happened.
Disprove(q) ==
    /\ phase[q] = "unknown" /\ phase'[q] = "owed"
    /\ told'[q] = Nothing /\ KeepsAnswer(q)

RowStep(q) ==
    \/ Rest(q) \/ Accept(q) \/ Withdraw(q) \/ Claim(q) \/ Call(q)
    \/ Refuse(q) \/ Lose(q) \/ Confirm(q) \/ Disprove(q)

Next == TypeOK' /\ \A q \in Questions : RowStep(q)

Spec == Init /\ [][Next]_vars
-----------------------------------------------------------------------------
\* A session is only ever called with the answer its question keeps: while it waits
\* it was told nothing, and a resume in doubt, or recorded without having been
\* looked up, was told that answer.
ToldWhatStands ==
    \A q \in Questions :
        /\ told[q] # Nothing => told[q] = answer[q]
        /\ phase[q] \in {"none", "owed", "cancelled"} => told[q] = Nothing
        /\ phase[q] = "unknown" \/ (phase[q] = "sent" /\ q \notin Registered)
              => told[q] = answer[q]

\* The answer is final, so is a withdrawal, and so is a resume that was recorded
\* unless it is registered; and what a session was told is forgotten only by the
\* proof that it was not.
GoesOn ==
    \A q \in Questions :
        /\ phase[q] # "none" => answer'[q] = answer[q]
        /\ phase[q] = "cancelled" \/ (phase[q] = "sent" /\ q \notin Registered)
              => phase'[q] = phase[q]
        /\ told[q] # Nothing /\ told'[q] # told[q]
              => phase[q] = "unknown" /\ phase'[q] = "owed"

Final == [][GoesOn]_vars
=============================================================================
