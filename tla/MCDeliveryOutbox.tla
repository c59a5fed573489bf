-------------------------- MODULE MCDeliveryOutbox --------------------------
(***************************************************************************)
(* Instances of DeliveryOutbox for TLC.  Every row that may come to exist  *)
(* in an instance is named; a function over rows is given by the few rows  *)
(* where it is not empty.                                                  *)
(***************************************************************************)
EXTENDS DeliveryOutbox, TLC

CONSTANTS c1, c2, n1, m1, m2, a1, i1, i2, w1, w2, p1, p2

None == [d \in Deliveries |-> {}]
NoCeiling == [d \in Deliveries |-> 0]
OwnCard == [i \in Incidents |-> i]
NoMutes == [i \in Incidents |-> {}]
OneProcess == [w \in Workers |-> p1]
TwoProcesses == w1 :> p1 @@ w2 :> p2

\* Threads of one process are interchangeable; no liveness run uses this.
Interchangeable == Permutations(Workers)

AllOfOne == [d \in Deliveries |-> i1]

\* One incident: its first card, the repeat of it, a refresh, and the edit of the
\* card of a migrated incident.
CardKind == c1 :> "card" @@ c2 :> "card" @@ n1 :> "refresh" @@ m1 :> "edit"
CardRepeats == c1 :> {c2} @@ None
\* Two incidents that share one card.
SharedCard == [i \in Incidents |-> i1]

\* Two cards and the news that the first incident recovered.
ReplicaKind == c1 :> "card" @@ c2 :> "consumer" @@ n1 :> "recovery"
ReplicaIncident == c1 :> i1 @@ c2 :> i2 @@ n1 :> i1

\* A policy of two message steps; the third row is the neighbour of a failed
\* first step and would, were it not a neighbour itself, fan out to the second.
MessageKind == m1 :> "message" @@ m2 :> "message" @@ n1 :> "message"
MessageCeiling == m1 :> 2 @@ m2 :> 1 @@ n1 :> 0
MessageNeighbours == m1 :> {n1} @@ n1 :> {m2} @@ None
MessageFollowUps == m1 :> {m2} @@ None

\* An executor launch, the notice that it was interrupted and the incident that
\* its failure raises.
AgentKind == a1 :> "agent" @@ c1 :> "card" @@ n1 :> "progress"
AgentIncident == a1 :> i1 @@ c1 :> i2 @@ n1 :> i1
AgentLaunchCard == a1 :> {c1} @@ None
AgentInterruption == a1 :> {n1} @@ None

\* A mute covers both incidents; its end puts the card of the second back.
BothMuted == [i \in Incidents |-> Incidents]
RaisedCard == i1 :> {} @@ i2 :> {c1}

\* One message step and the link to a session, for the temporal run.
PairKind == m1 :> "message" @@ n1 :> "session"
PairCeiling == m1 :> 2 @@ n1 :> 0
OwnMute == [i \in Incidents |-> {i}]
=============================================================================
