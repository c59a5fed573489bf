SPECIFICATION QuestionsSpec
CHECK_DEADLOCK FALSE
CONSTANTS
  qb = qb  qr = qr  qs = qs  qt = qt  c1 = c1  none = none  yes = yes  no = no
  t1 = t1  t2 = t2  p1 = p1  p2 = p2  d1 = d1  d2 = d2  d3 = d3  d4 = d4  go = go
  Requests = {qb, qr, qs, qt}
  Bound = {qb}
  Registry = {qr}
  Secret = {qs}
  Timed = {qt}
  Values = {yes, no}
  Cases = {c1}
  NoCase = none
  CaseOf <- MCCaseOf
  Askers = {t1, t2}
  Hosts = {p1, p2}
  HostOf <- MCHostOf
  MaxHostCrashes = 1
  MaxRefusals = 1
  Decisions = {d1, d2, d3, d4}
  Airlock = {d1}
  Continued = {d1, d3}
  Legacy = {d2, d4}
  Choices = {go}
  TimeoutChoice = go
  NoChoice = none
  Clerks = {t1, t2}
  Sites = {p1, p2}
  SiteOf <- MCSiteOf
  MaxControls = 2
  MaxSiteCrashes = 1
  MaxSilences = 1
INVARIANTS
  QuestionsTypeOK NoBlindReplay AnswerStands ShownIsTrue
  PostedOnceThenDecided AcknowledgedWasApplied
PROPERTIES
  KeepsResumeContract OneDecision StopIsFinal RequestIsServed DecisionIsServed
