----------------------------- MODULE MCIncidents -----------------------------
(***************************************************************************)
(* Two incidents of one problem, one with a clock and one without, an      *)
(* attempt that one session makes for both, and a verifier.                *)
(***************************************************************************)
EXTENDS IncidentLifecycle

CONSTANTS e1, e2, a1, s1
NativeSessions == [a \in Attempts |-> s1]
=============================================================================
