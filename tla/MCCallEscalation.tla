-------------------------- MODULE MCCallEscalation --------------------------
(***************************************************************************)
(* Instances of CallEscalation for TLC: two stages of a chain, and the     *)
(* older ladder with a phone call.                                         *)
(***************************************************************************)
EXTENDS CallEscalation, TLC

CONSTANTS k1, k2, k3, m1, i1, q, w1, w2

None == [c \in Calls |-> {}]
NoCeiling == [c \in Calls |-> 0]
OneProblem == [i \in Incidents |-> q]

\* No liveness run uses this.
Interchangeable == Permutations(Workers)

\* Two stages of a chain: the account of Matrix, then the one of Telegram.
ChainKind == [c \in Calls |-> IF c = k2 THEN "telegram" ELSE "matrix"]
ShortOrder == k1 :> {k2} @@ None
ShortRoots == i1 :> {k1}

\* The ladder: a Matrix call and a phone call, the next method of a policy
\* with a ceiling.
LadderKind == [c \in Calls |-> IF c = m1 THEN "matrix" ELSE "phone"]
LadderNeighbours == m1 :> {k3} @@ None
LadderCeiling == [c \in Calls |-> IF c = k3 THEN 2 ELSE 0]
MatrixRoots == i1 :> {m1}
AllOfOne == [c \in Calls |-> i1]
=============================================================================
