--------------------------- MODULE OperationsProofs ---------------------------
(***************************************************************************)
(* Machine-checked theorems about the operations around an incident: its   *)
(* executor (AgentJobs), its plans (HealthPlans), its closing              *)
(* (HealthRepair) and the updates of Telegram about it                     *)
(* (TelegramInteractions), for every value of their constants.             *)
(***************************************************************************)
EXTENDS MCOperations, FiniteSetTheorems, TLAPS

(***************************************************************************)
(* AgentJobs                                                               *)
(***************************************************************************)
SessionType == [operation : Nat, continues : Nat, creator : Runs,
                ended : {"no", "idle", "failed"}, armed : BOOLEAN,
                stoppers : SUBSET Runs, forbidden : BOOLEAN]
HelperType == [pc : Unreceived \cup Receipts, session : Nat, created : BOOLEAN, called : BOOLEAN]
SubmissionType ==
    [status : {"absent", "post", "poll", "direct"} \cup Receipts, continues : Nat]

JobTypes ==
    /\ kind \in {"health-diagnosis", "health-remediation"}
    /\ session \in Seq(SessionType)
    /\ run \in [Runs -> HelperType]
    /\ submission \in [Submissions -> SubmissionType]
    /\ stop \in BOOLEAN

\* A session belongs to the operation of the session it continues; its creator called,
\* and nobody else stops it.
SessionIsOwned(s) ==
    /\ session[s].operation = session[s].continues
    /\ run[session[s].creator].called
    /\ session[s].stoppers \subseteq {session[s].creator}
    /\ ~session[s].forbidden

\* A run has not called before it says so, works on a session that exists, stops only
\* one that it created, and does not call after a stop that preceded its last reading.
RunIsLawful(r) ==
    /\ run[r].pc \in {"none", "check", "sources", "recheck", "call", "refused"} => ~run[r].called
    /\ run[r].pc \in {"arm", "stop", "observe"} => run[r].session \in Sessions
    /\ run[r].pc \in {"arm", "stop"} /\ run[r].created => session[run[r].session].creator = r
    /\ run[r].pc = "stop" => run[r].created
    /\ run[r].pc = "call" => ~(stop /\ r \in forewarned)
    /\ submission[r[1]].status \in {"absent", "post"} => run[r].pc = "none"

JobInv ==
    /\ JobTypes /\ OneExecutor
    /\ \A s \in Sessions : SessionIsOwned(s)
    /\ \A r \in Runs : RunIsLawful(r)

LEMMA RunTypes ==
    /\ \A r \in Runs : r[1] \in Submissions
    /\ \A x \in HelperType, pc \in Unreceived \cup Receipts :
          /\ [x EXCEPT !.pc = pc] \in HelperType
          /\ [x EXCEPT !.pc = pc].pc = pc
          /\ [x EXCEPT !.pc = pc].session = x.session
          /\ [x EXCEPT !.pc = pc].created = x.created
          /\ [x EXCEPT !.pc = pc].called = x.called
    /\ \A x \in HelperType, pc \in Unreceived \cup Receipts :
          /\ [x EXCEPT !.pc = pc, !.called = TRUE] \in HelperType
          /\ [x EXCEPT !.pc = pc, !.called = TRUE].pc = pc
          /\ [x EXCEPT !.pc = pc, !.called = TRUE].called
  <1>1. \A r \in Runs : r[1] \in Submissions
    BY DEF Runs
  <1>2. ASSUME NEW x \in HelperType, NEW pc \in Unreceived \cup Receipts
        PROVE  /\ [x EXCEPT !.pc = pc] \in HelperType
               /\ [x EXCEPT !.pc = pc].pc = pc
               /\ [x EXCEPT !.pc = pc].session = x.session
               /\ [x EXCEPT !.pc = pc].created = x.created
               /\ [x EXCEPT !.pc = pc].called = x.called
               /\ [x EXCEPT !.pc = pc, !.called = TRUE] \in HelperType
               /\ [x EXCEPT !.pc = pc, !.called = TRUE].pc = pc
               /\ [x EXCEPT !.pc = pc, !.called = TRUE].called
    BY DEF HelperType
  <1> QED
    BY <1>1, <1>2

\* A run that goes on with the same session.
LEMMA RunMoves ==
    ASSUME JobInv, NEW r \in Runs, NEW pc \in (Unreceived \cup Receipts) \ {"none", "arm"},
           Moves(r, pc), UNCHANGED <<submission, stop, forewarned>>, run[r].pc # "none",
           Sessions' = Sessions, \A s \in Sessions : session'[s].creator = session[s].creator,
           pc \in {"check", "sources", "recheck", "call", "refused"} => ~run[r].called,
           pc = "call" => ~stop,
           pc \in {"stop", "observe"} => run[r].session \in Sessions,
           pc = "stop" => run[r].created /\ session[run[r].session].creator = r
    PROVE  /\ run' \in [Runs -> HelperType]
           /\ \A q \in Runs : RunIsLawful(q)' /\ run'[q].called = run[q].called
  <1>1. /\ run' \in [Runs -> HelperType]
        /\ run'[r].pc = pc
        /\ run'[r].session = run[r].session
        /\ run'[r].created = run[r].created
        /\ run'[r].called = run[r].called
        /\ \A q \in Runs \ {r} : run'[q] = run[q]
    <2> DEFINE x == [run[r] EXCEPT !.pc = pc]
    <2>1. run[r] \in HelperType /\ pc \in Unreceived \cup Receipts
      BY DEF JobInv, JobTypes
    <2>2. /\ x \in HelperType /\ x.pc = pc /\ x.session = run[r].session
          /\ x.created = run[r].created /\ x.called = run[r].called
      BY <2>1, RunTypes
    <2>3. run' = [run EXCEPT ![r] = x]
      BY DEF Moves
    <2> HIDE DEF x
    <2> QED
      BY <2>2, <2>3 DEF JobInv, JobTypes
  <1>2. ASSUME NEW q \in Runs
        PROVE  RunIsLawful(q)'
    <2>1. RunIsLawful(q)
      BY DEF JobInv
    <2>2. CASE q = r
      BY <1>1, <2>1, <2>2 DEF RunIsLawful
    <2>3. CASE q # r
      BY <1>1, <2>1, <2>3 DEF RunIsLawful
    <2> QED
      BY <2>2, <2>3
  <1> QED
    BY <1>1, <1>2

\* Steps that leave the sessions' origins alone keep what is known of them.
LEMMA SessionsKept ==
    ASSUME JobInv, session' \in Seq(SessionType), Sessions' = Sessions,
           \A s \in Sessions : /\ session'[s].operation = session[s].operation
                               /\ session'[s].continues = session[s].continues
                               /\ session'[s].creator = session[s].creator
                               /\ session'[s].forbidden = session[s].forbidden
                               /\ session'[s].stoppers \subseteq {session[s].creator},
           \A q \in Runs : run[q].called => run'[q].called
    PROVE  OneExecutor' /\ \A s \in Sessions' : SessionIsOwned(s)'
  <1>1. OneExecutor'
    BY DEF JobInv, OneExecutor
  <1>2. ASSUME NEW s \in Sessions
        PROVE  SessionIsOwned(s)'
    <2>1. session[s].creator \in Runs
      <3>1. session[s] \in SessionType
        BY DEF JobInv, JobTypes, Sessions
      <3> QED
        BY <3>1 DEF SessionType
    <2>2. SessionIsOwned(s)
      BY DEF JobInv
    <2> QED
      BY <2>1, <2>2 DEF SessionIsOwned
  <1> QED
    BY <1>1, <1>2

LEMMA SessionsUnchanged ==
    ASSUME JobInv, UNCHANGED session, \A q \in Runs : run[q].called => run'[q].called
    PROVE  OneExecutor' /\ \A s \in Sessions' : SessionIsOwned(s)'
  <1>1. session' \in Seq(SessionType) /\ Sessions' = Sessions
    BY DEF JobInv, JobTypes, Sessions
  <1>2. \A s \in Sessions : session[s].stoppers \subseteq {session[s].creator}
    BY DEF JobInv, SessionIsOwned
  <1> QED
    BY <1>1, <1>2, SessionsKept

\* A job that is posted starts at most the Hub's run and the fallback.
LEMMA StartedRuns ==
    ASSUME NEW a, NEW taken \in BOOLEAN, NEW fallsBack \in BOOLEAN
    PROVE  /\ {r \in Runs : (r = <<a, "hub">> /\ taken) \/ (r = <<a, "direct">> /\ fallsBack)}
                 \in SUBSET Runs
           /\ {r \in Runs : (r = <<a, "hub">> /\ taken) \/ (r = <<a, "direct">> /\ fallsBack)}
                 \subseteq {<<a, "hub">>, <<a, "direct">>}
  OBVIOUS

\* The worker's steps.
LEMMA WorkerKeeps ==
    ASSUME JobInv, NEW a \in Submissions, Submit(a) \/ PostJob(a) \/ Collect(a)
    PROVE  JobInv'
  <1>a. /\ Runs' = Runs /\ Submissions' = Submissions
        /\ \A q \in Runs : RunIsLawful(q) /\ run[q] \in HelperType
        /\ \A q \in Runs : q[1] \in Submissions
        /\ \A b \in Submissions : submission[b] \in SubmissionType
    BY RunTypes DEF JobInv, JobTypes, Runs, Submissions
  <1>1. CASE Submit(a)
    <2>1. PICK s \in {0} \cup {t \in Sessions : session[t].ended # "no"} :
             submission' = [submission EXCEPT ![a] = [status |-> "post", continues |-> s]]
      BY <1>1 DEF Submit
    <2>2. s \in Nat
      BY <2>1 DEF JobInv, JobTypes, Sessions
    <2>3. submission' \in [Submissions -> SubmissionType]
      BY <2>1, <2>2 DEF JobInv, JobTypes, SubmissionType
    <2>4. ASSUME NEW q \in Runs
          PROVE  RunIsLawful(q)'
      <3>1. submission'[q[1]].status \in {"absent", "post"} =>
                submission[q[1]].status \in {"absent", "post"}
        BY <1>1, <1>a, <2>1 DEF JobInv, JobTypes, Submit
      <3> QED
        BY <1>1, <1>a, <3>1 DEF Submit, RunIsLawful, Sessions
    <2> QED
      BY <1>1, <1>a, <2>3, <2>4, SessionsUnchanged DEF Submit, JobInv, JobTypes
  <1>2. CASE PostJob(a)
    <2>1. PICK taken \in BOOLEAN, answered \in BOOLEAN, status \in {"poll", "direct", "raised"},
               started \in SUBSET Runs :
             /\ started \subseteq {<<a, "hub">>, <<a, "direct">>}
             /\ submission' = [submission EXCEPT ![a].status = status]
             /\ run' = [r \in Runs |-> IF r \in started THEN [NoHelper EXCEPT !.pc = "check"] ELSE run[r]]
      BY <1>2, StartedRuns DEF PostJob, Becomes
    <2> DEFINE new == [NoHelper EXCEPT !.pc = "check"]
    <2>2. new \in HelperType /\ new.pc = "check" /\ ~new.called
      BY DEF NoHelper, HelperType, Unreceived
    <2> HIDE DEF new
    <2>3. run' \in [Runs -> HelperType]
      BY <1>a, <2>1, <2>2 DEF new
    <2>4. submission[a].status = "post"
          /\ UNCHANGED <<kind, session, stop, turns, forewarned>>
      BY <1>2 DEF PostJob
    <2>5. /\ submission' \in [Submissions -> SubmissionType]
          /\ submission'[a].status \notin {"absent", "post"}
          /\ \A b \in Submissions \ {a} : submission'[b] = submission[b]
      <3>1. submission' = [submission EXCEPT ![a].status = status]
        BY <2>1
      <3>2. /\ [submission[a] EXCEPT !.status = status] \in SubmissionType
            /\ [submission[a] EXCEPT !.status = status].status = status
        BY <1>a DEF SubmissionType, Receipts
      <3> QED
        BY <3>1, <3>2 DEF JobInv, JobTypes
    <2>6. ASSUME NEW q \in Runs
          PROVE  RunIsLawful(q)' /\ (run[q].called => run'[q].called)
      <3>1. CASE q \in started
        <4>1. q[1] = a /\ run'[q] = new
          BY <2>1, <3>1 DEF new
        <4> QED
          BY <1>a, <2>2, <2>4, <2>5, <4>1 DEF RunIsLawful, Sessions
      <3>2. CASE q \notin started
        <4>1. run'[q] = run[q]
          BY <2>1, <3>2
        <4>2. submission'[q[1]].status \in {"absent", "post"} =>
                  submission[q[1]].status \in {"absent", "post"}
          BY <1>a, <2>5
        <4> QED
          BY <1>a, <2>4, <4>1, <4>2 DEF RunIsLawful, Sessions
      <3> QED
        BY <3>1, <3>2
    <2> QED
      BY <1>a, <2>3, <2>4, <2>5, <2>6, SessionsUnchanged DEF JobInv, JobTypes
  <1>3. CASE Collect(a)
    <2>1. PICK status \in Receipts : submission' = [submission EXCEPT ![a].status = status]
      BY <1>3 DEF Collect, Becomes, Receipts
    <2>2. UNCHANGED <<kind, run, session, stop, turns, forewarned>>
      BY <1>3 DEF Collect
    <2>3. /\ submission' \in [Submissions -> SubmissionType]
          /\ submission'[a].status \notin {"absent", "post"}
          /\ \A b \in Submissions \ {a} : submission'[b] = submission[b]
      <3>2. /\ [submission[a] EXCEPT !.status = status] \in SubmissionType
            /\ [submission[a] EXCEPT !.status = status].status = status
        BY <1>a DEF SubmissionType
      <3> QED
        BY <2>1, <3>2 DEF JobInv, JobTypes, Receipts
    <2>4. ASSUME NEW q \in Runs
          PROVE  RunIsLawful(q)'
      <3>1. submission'[q[1]].status \in {"absent", "post"} =>
                submission[q[1]].status \in {"absent", "post"}
        BY <1>a, <2>3
      <3> QED
        BY <1>a, <2>2, <3>1 DEF RunIsLawful, Sessions
    <2> QED
      BY <1>a, <2>2, <2>3, <2>4, SessionsUnchanged DEF JobInv, JobTypes
  <1> QED
    BY <1>1, <1>2, <1>3

\* The steps of a run that leave Agent Herder alone.
LEMMA RunKeeps ==
    ASSUME JobInv, NEW r \in Runs,
           \/ RunRaises(r) \/ CheckOwner(r) \/ CheckSources(r) \/ CheckAgain(r)
           \/ ObserveSession(r) \/ ObservationRaises(r)
    PROVE  JobInv'
  <1>1. PICK pc \in {"raised", "sources", "refused", "recheck", "call", "done"} :
           /\ Moves(r, pc)
           /\ pc \in {"sources", "refused", "recheck", "call"} =>
                 run[r].pc \in {"check", "sources", "recheck"}
           /\ pc = "call" => ~stop
           /\ run[r].pc \in {"check", "sources", "recheck", "observe"}
    BY DEF RunRaises, CheckOwner, CheckSources, CheckAgain, ObserveSession, ObservationRaises,
       ReadOwner
  <1>2. UNCHANGED <<kind, submission, stop, turns, forewarned, session>>
    BY DEF RunRaises, CheckOwner, CheckSources, CheckAgain, ObserveSession, ObservationRaises, Quiet
  <1>3. run[r].pc \in {"check", "sources", "recheck"} => ~run[r].called
    BY DEF JobInv, RunIsLawful
  <1>4. Sessions' = Sessions
    BY <1>2 DEF Sessions
  <1>5. /\ run' \in [Runs -> HelperType]
        /\ \A q \in Runs : RunIsLawful(q)' /\ run'[q].called = run[q].called
    BY <1>1, <1>2, <1>3, <1>4, RunMoves DEF Unreceived, Receipts
  <1>6. OneExecutor' /\ \A s \in Sessions' : SessionIsOwned(s)'
    BY <1>2, <1>5, SessionsUnchanged
  <1> QED
    BY <1>2, <1>5, <1>6 DEF JobInv, JobTypes

\* The launch: a new session has an operation that none has, and its creator called.
LEMMA CallKeeps ==
    ASSUME JobInv, NEW r \in Runs, Call(r)
    PROVE  JobInv'
  <1>a. /\ \A q \in Runs : RunIsLawful(q) /\ run[q] \in HelperType
        /\ \A s \in Sessions : SessionIsOwned(s) /\ session[s] \in SessionType
        /\ submission[r[1]] \in SubmissionType
        /\ run \in [Runs -> HelperType] /\ session \in Seq(SessionType)
    <2>1. /\ run \in [Runs -> HelperType] /\ session \in Seq(SessionType)
          /\ submission \in [Submissions -> SubmissionType] /\ r[1] \in Submissions
      BY RunTypes DEF JobInv, JobTypes
    <2>2. \A s \in Sessions : session[s] \in SessionType
      BY <2>1 DEF Sessions
    <2> QED
      BY <2>1, <2>2 DEF JobInv
  <1>b. /\ run[r].pc = "call" /\ UNCHANGED <<kind, submission, stop, turns, forewarned>>
        /\ ~(stop /\ r \in forewarned)
        /\ submission[r[1]].status \notin {"absent", "post"}
    BY <1>a DEF Call, Quiet, RunIsLawful
  <1>c. Sessions = 1..Len(session) /\ Len(session) \in Nat
    BY <1>a DEF Sessions
  <1>1. CASE UNCHANGED session
    <2> DEFINE After(x) == /\ run' = [run EXCEPT ![r] = x] /\ x.called
                           /\ x.pc \in {"raised", "arm"}
                           /\ x.pc = "arm" => x.session \in Sessions /\ ~x.created
    <2>1. PICK x \in HelperType : After(x)
      <3>1. ASSUME NEW s \in Sessions,
                   run' = [run EXCEPT ![r] = [pc |-> "arm", session |-> s, created |-> FALSE, called |-> TRUE]]
            PROVE  \E x \in HelperType : After(x)
        <4>1. [pc |-> "arm", session |-> s, created |-> FALSE, called |-> TRUE] \in HelperType
          BY <1>c DEF HelperType, Unreceived
        <4> QED
          BY <3>1, <4>1
      <3>2. ASSUME run' = [run EXCEPT ![r] = [run[r] EXCEPT !.pc = "raised", !.called = TRUE]]
            PROVE  \E x \in HelperType : After(x)
        <4>1. /\ [run[r] EXCEPT !.pc = "raised", !.called = TRUE] \in HelperType
              /\ [run[r] EXCEPT !.pc = "raised", !.called = TRUE].pc = "raised"
              /\ [run[r] EXCEPT !.pc = "raised", !.called = TRUE].called
          BY <1>a, RunTypes DEF Receipts
        <4> QED
          BY <3>2, <4>1
      <3>3. session' # Append(session, Created(r))
        <4>1. Len(Append(session, Created(r))) # Len(session)
          BY <1>a
        <4> QED
          BY <1>1, <4>1
      <3>4. \/ \E s \in Sessions :
                 run' = [run EXCEPT ![r] = [pc |-> "arm", session |-> s, created |-> FALSE, called |-> TRUE]]
            \/ run' = [run EXCEPT ![r] = [run[r] EXCEPT !.pc = "raised", !.called = TRUE]]
        BY <3>3 DEF Call, Admitted
      <3> HIDE DEF After
      <3> QED
        BY <3>1, <3>2, <3>4
    <2>2. run' \in [Runs -> HelperType] /\ \A q \in Runs : run[q].called => run'[q].called
      BY <1>a, <2>1
    <2>3. ASSUME NEW q \in Runs
          PROVE  RunIsLawful(q)'
      <3>1. CASE q = r
        BY <1>1, <1>a, <1>b, <2>1, <3>1 DEF RunIsLawful, Sessions
      <3>2. CASE q # r
        BY <1>1, <1>a, <1>b, <2>1, <3>2 DEF RunIsLawful, Sessions
      <3> QED
        BY <3>1, <3>2
    <2> QED
      BY <1>1, <1>b, <2>2, <2>3, SessionsUnchanged DEF JobInv, JobTypes
  <1>2. CASE Admitted(r) = {} /\ session' = Append(session, Created(r))
    <2> DEFINE n == Len(session) + 1
    <2>1. Created(r) \in SessionType
      BY <1>a, <1>b DEF Created, SessionType, SubmissionType, Operation, JobInv, JobTypes
    <2>2. /\ session' \in Seq(SessionType)
          /\ Sessions' = Sessions \cup {n} /\ n \notin Sessions
          /\ session'[n] = Created(r)
          /\ \A s \in Sessions : session'[s] = session[s]
      BY <1>2, <1>a, <1>c, <2>1 DEF Sessions
    <2>3. PICK x \in HelperType :
             /\ run' = [run EXCEPT ![r] = x] /\ x.called
             /\ x.pc \in {"raised", "arm"}
             /\ x.pc = "arm" => x.session = n
      <3>1. [pc |-> "arm", session |-> n, created |-> TRUE, called |-> TRUE] \in HelperType
        BY <1>c DEF HelperType, Unreceived
      <3>2. /\ [run[r] EXCEPT !.pc = "raised", !.called = TRUE] \in HelperType
            /\ [run[r] EXCEPT !.pc = "raised", !.called = TRUE].pc = "raised"
            /\ [run[r] EXCEPT !.pc = "raised", !.called = TRUE].called
        BY <1>a, RunTypes DEF Receipts
      <3>3. \/ run' = [run EXCEPT ![r] = [pc |-> "arm", session |-> n, created |-> TRUE, called |-> TRUE]]
            \/ run' = [run EXCEPT ![r] = [run[r] EXCEPT !.pc = "raised", !.called = TRUE]]
        BY <1>2 DEF Call
      <3> QED
        BY <3>1, <3>2, <3>3
    <2>4. /\ Created(r).creator = r /\ ~Created(r).forbidden
          /\ Created(r).stoppers = {}
          /\ Created(r).operation = Created(r).continues
          /\ Created(r).continues = submission[r[1]].continues
      BY <1>b DEF Created, Operation
    <2> HIDE DEF n
    <2>5. run' \in [Runs -> HelperType] /\ run'[r] = x /\ \A q \in Runs \ {r} : run'[q] = run[q]
      BY <1>a, <2>3
    <2>6. ASSUME NEW s \in Sessions'
          PROVE  SessionIsOwned(s)'
      <3>1. CASE s = n
        BY <2>2, <2>3, <2>4, <2>5, <3>1 DEF SessionIsOwned
      <3>2. CASE s # n
        <4>1. s \in Sessions /\ session'[s] = session[s]
          BY <2>2, <2>6, <3>2
        <4>2. session[s].creator \in Runs /\ SessionIsOwned(s)
          BY <1>a, <4>1 DEF SessionType
        <4> QED
          BY <2>3, <2>5, <4>1, <4>2 DEF SessionIsOwned
      <3> QED
        BY <3>1, <3>2
    <2>7. OneExecutor'
      <3>1. \A s \in Sessions : session[s].continues # Created(r).continues
        BY <1>2, <1>a, <2>4 DEF Admitted, Operation, SessionIsOwned
      <3> QED
        BY <2>2, <3>1 DEF JobInv, OneExecutor
    <2>8. ASSUME NEW q \in Runs
          PROVE  RunIsLawful(q)'
      <3>0. session'[n].creator = r
        BY <2>2, <2>4
      <3>1. CASE q = r
        BY <1>b, <2>2, <2>3, <2>5, <3>0, <3>1 DEF RunIsLawful
      <3>2. CASE q # r
        BY <1>a, <1>b, <2>2, <2>5, <3>2 DEF RunIsLawful
      <3> QED
        BY <3>1, <3>2
    <2> QED
      BY <1>b, <2>2, <2>5, <2>6, <2>7, <2>8 DEF JobInv, JobTypes
  <1> QED
    BY <1>1, <1>2 DEF Call

\* A change of one session that keeps where it comes from.
LEMMA SessionChanges ==
    ASSUME JobInv, NEW s \in Sessions, NEW x \in SessionType, session' = [session EXCEPT ![s] = x],
           x.operation = session[s].operation, x.continues = session[s].continues,
           x.creator = session[s].creator, x.forbidden = session[s].forbidden,
           x.stoppers \subseteq {x.creator}
    PROVE  /\ session' \in Seq(SessionType) /\ Sessions' = Sessions
           /\ \A t \in Sessions : /\ session'[t].operation = session[t].operation
                                  /\ session'[t].continues = session[t].continues
                                  /\ session'[t].creator = session[t].creator
                                  /\ session'[t].forbidden = session[t].forbidden
                                  /\ session'[t].stoppers \subseteq {session[t].creator}
  <1>1. session' \in Seq(SessionType) /\ Sessions' = Sessions
    BY DEF JobInv, JobTypes, Sessions
  <1>2. session'[s] = x /\ \A t \in Sessions \ {s} : session'[t] = session[t]
    BY DEF Sessions
  <1>3. \A t \in Sessions : session[t].stoppers \subseteq {session[t].creator}
    BY DEF JobInv, SessionIsOwned
  <1> QED
    BY <1>1, <1>2, <1>3

LEMMA ArmKeeps ==
    ASSUME JobInv, NEW r \in Runs, Arm(r) \/ StopSession(r)
    PROVE  JobInv'
  <1>0. /\ RunIsLawful(r) /\ run[r].pc \in {"arm", "stop"}
        /\ UNCHANGED <<kind, submission, stop, turns, forewarned>>
    BY DEF JobInv, Arm, StopSession, Quiet
  <1> DEFINE s == run[r].session
  <1>1. s \in Sessions /\ session[s] \in SessionType /\ SessionIsOwned(s)
    BY <1>0 DEF RunIsLawful, JobInv, JobTypes, Sessions
  <1>2. CASE Arm(r)
    <2>1. PICK armed \in BOOLEAN, pc \in {"observe", "stop", "held"} :
             /\ session' = [session EXCEPT ![s].armed = armed]
             /\ Moves(r, pc)
             /\ pc = "stop" => run[r].created
      <3>1. session[s].armed \in BOOLEAN
        BY <1>1 DEF SessionType
      <3> QED
        BY <1>2, <3>1 DEF Arm, Unarmed
    <2> DEFINE x == [session[s] EXCEPT !.armed = armed]
    <2>2. /\ x \in SessionType /\ x.operation = session[s].operation
          /\ x.continues = session[s].continues /\ x.creator = session[s].creator
          /\ x.forbidden = session[s].forbidden /\ x.stoppers = session[s].stoppers
      BY <1>1 DEF SessionType
    <2>3. session' = [session EXCEPT ![s] = x] /\ x.stoppers \subseteq {x.creator}
      BY <1>1, <2>1, <2>2 DEF SessionIsOwned
    <2> HIDE DEF x, s
    <2>4. /\ session' \in Seq(SessionType) /\ Sessions' = Sessions
          /\ \A t \in Sessions : /\ session'[t].operation = session[t].operation
                                 /\ session'[t].continues = session[t].continues
                                 /\ session'[t].creator = session[t].creator
                                 /\ session'[t].forbidden = session[t].forbidden
                                 /\ session'[t].stoppers \subseteq {session[t].creator}
      BY <1>1, <2>2, <2>3, SessionChanges
    <2>5. pc = "stop" => session[s].creator = r
      BY <1>0, <1>2, <2>1 DEF Arm, RunIsLawful, s
    <2>6. /\ run' \in [Runs -> HelperType]
          /\ \A q \in Runs : RunIsLawful(q)' /\ run'[q].called = run[q].called
      BY <1>0, <1>1, <2>1, <2>4, <2>5, RunMoves DEF Unreceived, Receipts, s
    <2>7. OneExecutor' /\ \A t \in Sessions' : SessionIsOwned(t)'
      BY <2>4, <2>6, SessionsKept
    <2> QED
      BY <1>0, <2>4, <2>6, <2>7 DEF JobInv, JobTypes
  <1>3. CASE StopSession(r)
    <2> DEFINE x == [session[s] EXCEPT !.stoppers = @ \cup {r},
                                       !.ended = IF @ = "no" THEN "failed" ELSE @]
    <2>1. session[s].creator = r
      BY <1>0, <1>3 DEF StopSession, RunIsLawful
    <2>2. /\ x \in SessionType /\ x.operation = session[s].operation
          /\ x.continues = session[s].continues /\ x.creator = session[s].creator
          /\ x.forbidden = session[s].forbidden /\ x.stoppers = session[s].stoppers \cup {r}
      <3>1. /\ session[s].stoppers \cup {r} \in SUBSET Runs
            /\ (IF session[s].ended = "no" THEN "failed" ELSE session[s].ended) \in {"no", "idle", "failed"}
        BY <1>1 DEF SessionType
      <3> QED
        BY <1>1, <3>1 DEF SessionType
    <2>3. session' = [session EXCEPT ![s] = x] /\ x.stoppers \subseteq {x.creator}
      <3>1. session' = [session EXCEPT ![s].stoppers = @ \cup {r},
                                       ![s].ended = IF @ = "no" THEN "failed" ELSE @]
        BY <1>3 DEF StopSession
      <3> QED
        BY <1>1, <2>1, <2>2, <3>1 DEF SessionIsOwned, SessionType
    <2>0. Moves(r, "held")
      BY <1>3 DEF StopSession
    <2> HIDE DEF x, s
    <2>4. /\ session' \in Seq(SessionType) /\ Sessions' = Sessions
          /\ \A t \in Sessions : /\ session'[t].operation = session[t].operation
                                 /\ session'[t].continues = session[t].continues
                                 /\ session'[t].creator = session[t].creator
                                 /\ session'[t].forbidden = session[t].forbidden
                                 /\ session'[t].stoppers \subseteq {session[t].creator}
      BY <1>1, <2>2, <2>3, SessionChanges
    <2>6. /\ run' \in [Runs -> HelperType]
          /\ \A q \in Runs : RunIsLawful(q)' /\ run'[q].called = run[q].called
      BY <1>0, <2>0, <2>4, RunMoves DEF Unreceived, Receipts
    <2>7. OneExecutor' /\ \A t \in Sessions' : SessionIsOwned(t)'
      BY <2>4, <2>6, SessionsKept
    <2> QED
      BY <1>0, <2>4, <2>6, <2>7 DEF JobInv, JobTypes
  <1> QED
    BY <1>2, <1>3

\* What Agent Herder and the owner do.
LEMMA OthersKeep ==
    ASSUME JobInv, OwnerTurns \/ \E s \in Sessions : SessionEnds(s)
    PROVE  JobInv'
  <1>1. ASSUME NEW s \in Sessions, SessionEnds(s)
        PROVE  JobInv'
    <2>1. PICK ended \in {"idle", "failed"} : session' = [session EXCEPT ![s].ended = ended]
      BY <1>1 DEF SessionEnds
    <2>2. UNCHANGED <<kind, submission, run, stop, turns, forewarned>>
      BY <1>1 DEF SessionEnds
    <2>3. session[s] \in SessionType /\ SessionIsOwned(s)
      BY DEF JobInv, JobTypes, Sessions
    <2> DEFINE x == [session[s] EXCEPT !.ended = ended]
    <2>4. /\ x \in SessionType /\ x.operation = session[s].operation
          /\ x.continues = session[s].continues /\ x.creator = session[s].creator
          /\ x.forbidden = session[s].forbidden /\ x.stoppers = session[s].stoppers
      BY <2>3 DEF SessionType
    <2>5. session' = [session EXCEPT ![s] = x] /\ x.stoppers \subseteq {x.creator}
      BY <2>1, <2>3, <2>4 DEF SessionIsOwned
    <2> HIDE DEF x
    <2>6. /\ session' \in Seq(SessionType) /\ Sessions' = Sessions
          /\ \A t \in Sessions : /\ session'[t].operation = session[t].operation
                                 /\ session'[t].continues = session[t].continues
                                 /\ session'[t].creator = session[t].creator
                                 /\ session'[t].forbidden = session[t].forbidden
                                 /\ session'[t].stoppers \subseteq {session[t].creator}
      BY <2>4, <2>5, SessionChanges
    <2>7. OneExecutor' /\ \A t \in Sessions' : SessionIsOwned(t)'
      BY <2>2, <2>6, SessionsKept
    <2>8. ASSUME NEW q \in Runs
          PROVE  RunIsLawful(q)'
      <3>1. RunIsLawful(q)
        BY DEF JobInv
      <3> QED
        BY <2>2, <2>6, <3>1 DEF RunIsLawful
    <2> QED
      BY <2>2, <2>6, <2>7, <2>8 DEF JobInv, JobTypes
  <1>2. CASE OwnerTurns
    <2>1. UNCHANGED <<kind, submission, run, session>> /\ stop' = ~stop
      BY <1>2 DEF OwnerTurns
    <2>2. ASSUME NEW q \in Runs
          PROVE  RunIsLawful(q)'
      <3>1. RunIsLawful(q) /\ (stop' => (q \in forewarned' => run[q].pc # "call"))
        BY <1>2 DEF JobInv, JobTypes, OwnerTurns
      <3> QED
        BY <2>1, <3>1 DEF RunIsLawful, Sessions
    <2>3. OneExecutor' /\ \A t \in Sessions' : SessionIsOwned(t)'
      BY <2>1, SessionsUnchanged
    <2> QED
      BY <2>1, <2>2, <2>3 DEF JobInv, JobTypes
  <1> QED
    BY <1>1, <1>2

LEMMA JobStarts == AgentInit => JobInv
  <1> SUFFICES ASSUME AgentInit PROVE JobInv
    OBVIOUS
  <1>1. session = <<>> /\ Sessions = {}
    BY DEF AgentInit, Sessions
  <1>2. NoHelper \in HelperType /\ NoHelper.pc = "none" /\ ~NoHelper.called
    BY DEF NoHelper, HelperType, Unreceived
  <1>3. submission \in [Submissions -> SubmissionType]
    BY DEF AgentInit, SubmissionType
  <1>4. run \in [Runs -> HelperType] /\ \A r \in Runs : run[r] = NoHelper
    BY <1>2 DEF AgentInit
  <1>5. \A r \in Runs : RunIsLawful(r)
    BY <1>2, <1>4 DEF RunIsLawful
  <1>6. JobTypes
    <2>1. session \in Seq(SessionType)
      BY <1>1
    <2>2. kind \in {"health-diagnosis", "health-remediation"} /\ stop \in BOOLEAN
      BY DEF AgentInit
    <2> QED
      BY <1>3, <1>4, <2>1, <2>2 DEF JobTypes
  <1>7. OneExecutor /\ \A s \in Sessions : SessionIsOwned(s)
    BY <1>1 DEF OneExecutor
  <1> QED
    BY <1>5, <1>6, <1>7 DEF JobInv

LEMMA JobKept == JobInv /\ [AgentNext]_agentVars => JobInv'
  <1> SUFFICES ASSUME JobInv, [AgentNext]_agentVars PROVE JobInv'
    OBVIOUS
  <1>1. CASE UNCHANGED agentVars
    <2>1. UNCHANGED <<kind, submission, run, session, stop, turns, forewarned>>
      BY <1>1 DEF agentVars
    <2>2. ASSUME NEW r \in Runs
          PROVE  RunIsLawful(r)'
      <3>1. RunIsLawful(r)
        BY DEF JobInv
      <3> QED
        BY <2>1, <3>1 DEF RunIsLawful, Sessions
    <2>3. OneExecutor' /\ \A t \in Sessions' : SessionIsOwned(t)'
      BY <2>1, SessionsUnchanged
    <2> QED
      BY <2>1, <2>2, <2>3 DEF JobInv, JobTypes
  <1> QED
    BY <1>1, WorkerKeeps, RunKeeps, CallKeeps, ArmKeeps, OthersKeep DEF AgentNext

LEMMA JobIsExact == JobInv => AgentJobsAreExact
  <1> SUFFICES ASSUME JobInv PROVE AgentJobsAreExact
    OBVIOUS
  <1>1. \A r \in Runs : run[r].pc = "refused" => ~run[r].called
    BY DEF JobInv, RunIsLawful
  <1>2. \A s \in Sessions : run[session[s].creator].called
    BY DEF JobInv, SessionIsOwned
  <1>3. RefusedWasNotLaunched
    BY <1>1, <1>2 DEF RefusedWasNotLaunched
  <1>4. OnlyTheCreatorStops /\ StopHolds
    BY DEF JobInv, SessionIsOwned, OnlyTheCreatorStops, StopHolds
  <1> QED
    BY <1>3, <1>4 DEF JobInv, AgentJobsAreExact

\* One executor per operation, whatever is submitted again, falls back or loses its
\* answer; a receipt of a refusal is honest; only the creator of a session stops it; the
\* owner's stop holds (gptadmin_agent.py, agent_job_helper.py).
THEOREM ExecutorIsExact == AgentSpec => []AgentJobsAreExact
  BY JobStarts, JobKept, JobIsExact, PTL DEF AgentSpec
-----------------------------------------------------------------------------
(***************************************************************************)
(* HealthPlans                                                             *)
(***************************************************************************)
\* What a process asks for is a plan, and there is at most one selection.
ProcessType == [pc : {"idle", "asked", "checked"}, plan : Plans \cup {NoPlan}]
PlanInv ==
    /\ process \in [Processes -> ProcessType]
    /\ \A p \in Processes : process[p].pc # "idle" => process[p].plan \in Plans
    /\ OneRemediation

LEMMA PlanStarts == PlansInit => PlanInv
  <1>1. Idle \in ProcessType /\ Idle.pc = "idle"
    BY DEF Idle, ProcessType
  <1> QED
    BY <1>1 DEF PlansInit, PlanInv, OneRemediation

LEMMA PlanKept == PlanInv /\ [PlansNext]_plansVars => PlanInv'
  <1>a. NoPlan \notin Plans /\ AutoPlans \subseteq Plans
    BY PlansAssumption
  <1>b. /\ Idle \in ProcessType /\ Idle.pc = "idle"
        /\ \A plan \in Plans : [pc |-> "asked", plan |-> plan] \in ProcessType
    BY DEF Idle, ProcessType
  <1> SUFFICES ASSUME PlanInv, [PlansNext]_plansVars PROVE PlanInv'
    OBVIOUS
  <1>1. CASE UNCHANGED <<process, selection, remediation>>
    BY <1>1 DEF PlanInv, OneRemediation
  <1>2. ASSUME NEW p \in Processes, NEW plan \in Plans,
               process' = [process EXCEPT ![p] = [pc |-> "asked", plan |-> plan]],
               UNCHANGED <<selection, remediation>>
        PROVE  PlanInv'
    BY <1>b, <1>2 DEF PlanInv, OneRemediation
  <1>3. ASSUME NEW p \in Processes, CheckPlan(p)
        PROVE  PlanInv'
    <2>1. PICK x \in ProcessType :
             /\ process' = [process EXCEPT ![p] = x]
             /\ x.pc # "idle" => x.plan \in Plans
      <3>1. process[p] \in ProcessType /\ process[p].plan \in Plans
        BY <1>3 DEF CheckPlan, PlanInv
      <3>2. /\ [process[p] EXCEPT !.pc = "checked"] \in ProcessType
            /\ [process[p] EXCEPT !.pc = "checked"].plan \in Plans
        BY <3>1 DEF ProcessType
      <3>3. \/ process' = [process EXCEPT ![p] = [process[p] EXCEPT !.pc = "checked"]]
            \/ process' = [process EXCEPT ![p] = Idle]
        BY <1>3 DEF CheckPlan
      <3> QED
        BY <1>b, <3>2, <3>3
    <2>2. UNCHANGED <<selection, remediation>>
      BY <1>3 DEF CheckPlan
    <2> QED
      BY <2>1, <2>2 DEF PlanInv, OneRemediation
  <1>4. ASSUME NEW p \in Processes, SelectPlan(p)
        PROVE  PlanInv'
    <2>1. process[p].plan \in Plans
      BY <1>4 DEF SelectPlan, PlanInv
    <2>2. OneRemediation'
      BY <1>a, <1>4, <2>1 DEF SelectPlan, NotSelected, PlanInv, OneRemediation
    <2>3. process' = [process EXCEPT ![p] = Idle]
      BY <1>4 DEF SelectPlan
    <2> QED
      BY <1>b, <2>2, <2>3 DEF PlanInv
  <1>5. ASSUME NEW p \in Processes, NEW b \in Bundles, AttachPlans(p, b)
        PROVE  PlanInv'
    BY <1>a, <1>1, <1>2, <1>5 DEF AttachPlans, Recommendation
  <1>6. ASSUME NEW p \in Processes, NEW plan \in Plans, AskForPlan(p, plan)
        PROVE  PlanInv'
    BY <1>2, <1>6 DEF AskForPlan
  <1> QED
    BY <1>1, <1>3, <1>4, <1>5, <1>6 DEF PlansNext, plansVars, ClaimCard, BuildPayload, Reserve,
       CardIsShown, CardIsUncertain, CardIsRefused, Withdraw

\* However many processes receive taps and recommendations, one plan is executed: the
\* selected one (record_health_plan_selection).
THEOREM OnePlanIsExecuted == PlansSpec => []OneRemediation
  <1>1. PlanInv => OneRemediation
    BY DEF PlanInv
  <1> QED
    BY PlanStarts, PlanKept, <1>1, PTL DEF PlansSpec

\* The slot is used only when the first delivery is over.
CardInv ==
    /\ DOMAIN card = Cards
    /\ ~(card["first"].status \in Active /\ card["slot"].status \in Active)

\* Giving deliveries up makes none of them active.
LEMMA Reduced ==
    ASSUME NEW cards, NEW set, DOMAIN cards = Cards, NEW c \in Cards,
           Without(cards, set)[c].status \in Active
    PROVE  Without(cards, set)[c] = cards[c]
  BY DEF Without, Fresh, Active

\* A new list activates nothing but its own edit, and the slot if nothing is active.
LEMMA ConsolidatedCreators ==
    ASSUME CardInv, NEW b \in Bundles
    PROVE  /\ DOMAIN Consolidated(b) = Cards
           /\ ~(Consolidated(b)["first"].status \in Active
                /\ Consolidated(b)["slot"].status \in Active)
  <1>a. /\ b # "first" /\ b # "slot" /\ b \in Cards /\ "first" \in Cards /\ "slot" \in Cards
    BY PlansAssumption DEF Cards, Creators
  <1> DEFINE Good(cards) == /\ DOMAIN cards = Cards
                            /\ ~(cards["first"].status \in Active /\ cards["slot"].status \in Active)
  <1>1. ASSUME NEW cards, NEW set, Good(cards)
        PROVE  Good(Without(cards, set))
    <2>1. DOMAIN Without(cards, set) = Cards
      BY DEF Without
    <2> QED
      BY <1>1, <1>a, <2>1, Reduced
  <1>2. ASSUME NEW cards, Good(cards)
        PROVE  Good([cards EXCEPT ![b] = Fresh("queued")])
    BY <1>2, <1>a
  <1>3. ASSUME NEW cards, Good(cards), With(cards, Active) = {}
        PROVE  Good(Slot(cards))
    <2>1. cards["first"].status \notin Active
      BY <1>3, <1>a DEF With
    <2>2. DOMAIN Slot(cards) = Cards /\ Slot(cards)["first"] = cards["first"]
      BY <1>3, <1>a DEF Slot
    <2> QED
      BY <2>1, <2>2
  <1> DEFINE cards == Without(card, Outdated(b))
             sent == With(cards, {"sent"})
  <1>4. Good(cards)
    BY <1>1 DEF CardInv
  <1> HIDE DEF Good, cards, sent
  <1>5. Good(Migrated(cards, sent, b))
    BY <1>1, <1>2, <1>4 DEF Migrated
  <1>6. Good(Waited(cards)) /\ Good(Settled(cards, sent)) /\ Good(Gathered(cards))
    BY <1>1, <1>4 DEF Waited, Settled, Gathered
  <1>7. Good(Consolidated(b))
    BY <1>3, <1>4, <1>5, <1>6 DEF Consolidated, cards, sent
  <1> QED
    BY <1>7 DEF Good

LEMMA CreatorsAreCards == "first" \in Cards /\ "slot" \in Cards
  BY DEF Cards, Creators

LEMMA CardStarts == PlansInit => CardInv
  BY CreatorsAreCards DEF PlansInit, CardInv, Fresh, Active

LEMMA CardKept == CardInv /\ [PlansNext]_plansVars => CardInv'
  <1> SUFFICES ASSUME CardInv, [PlansNext]_plansVars PROVE CardInv'
    OBVIOUS
  <1>1. CASE UNCHANGED card
    BY <1>1 DEF CardInv
  <1>2. ASSUME NEW p \in Processes, NEW b \in Bundles, AttachPlans(p, b)
        PROVE  CardInv'
    BY <1>2, ConsolidatedCreators DEF AttachPlans, CardInv
  <1>3. ASSUME DOMAIN card' = Cards,
               \A c \in Cards : card'[c].status \in Active => card[c].status \in Active
        PROVE  CardInv'
    BY CreatorsAreCards, <1>3 DEF CardInv
  <1>4. ASSUME NEW c \in Cards,
               ClaimCard(c) \/ BuildPayload(c) \/ Reserve(c) \/ CardIsUncertain(c)
        PROVE  CardInv'
    <2>1. card[c].status \in Active /\ DOMAIN card' = Cards
      BY <1>4 DEF ClaimCard, BuildPayload, Reserve, CardIsUncertain, Active, CardInv
    <2>2. \A d \in Cards \ {c} : card'[d] = card[d]
      BY <1>4 DEF ClaimCard, BuildPayload, Reserve, CardIsUncertain, CardInv
    <2> QED
      BY <1>3, <2>1, <2>2
  <1>5. ASSUME NEW c \in Cards, CardIsShown(c) \/ CardIsRefused(c)
        PROVE  CardInv'
    <2>1. card[c].status \in Active /\ DOMAIN card' = Cards
      BY <1>5 DEF CardIsShown, CardIsRefused, Active, CardInv
    <2>2. \A d \in Cards \ {c} : card'[d] = card[d]
      BY <1>5 DEF CardIsShown, CardIsRefused, CardInv
    <2> QED
      BY <1>3, <2>1, <2>2
  <1>6. CASE Withdraw
    <2>1. \A c \in Cards : card'[c].status \in Active => card[c].status \in Active
      BY <1>6, Reduced DEF Withdraw, Waited, CardInv
    <2>2. DOMAIN card' = Cards
      BY <1>6 DEF Withdraw, Waited, Without
    <2> QED
      BY <1>3, <2>1, <2>2
  <1> QED
    BY <1>1, <1>2, <1>4, <1>5, <1>6 DEF PlansNext, plansVars, AskForPlan, CheckPlan, SelectPlan

LEMMA CardIsOne == CardInv => OneCardIsCreated
  <1> SUFFICES ASSUME CardInv PROVE OneCardIsCreated
    OBVIOUS
  <1> DEFINE S == Creators \cap With(card, {"sending", "sent", "uncertain"})
  <1>1. S \subseteq {"first"} \/ S \subseteq {"slot"}
    BY DEF CardInv, Creators, With, Active
  <1> HIDE DEF S
  <1>2. PICK x \in {"first", "slot"} : S \subseteq {x}
    BY <1>1
  <1>3. Cardinality(S) <= 1
    <2>1. IsFiniteSet({x}) /\ Cardinality({x}) = 1
      BY FS_Singleton
    <2>2. Cardinality(S) <= Cardinality({x})
      BY <1>2, <2>1, FS_Subset
    <2> QED
      BY <2>1, <2>2
  <1> QED
    BY <1>3 DEF S, OneCardIsCreated

\* The incident has at most one card: the slot for plans takes over only from a first
\* delivery that created no message (record_health_update).
THEOREM OneCard == PlansSpec => []OneCardIsCreated
  BY CardStarts, CardKept, CardIsOne, PTL DEF PlansSpec

\* A delivery's payload is built when it is claimed; an edit belongs to a list that was
\* attached and ends as history; the first card and the slot end as a card that was sent.
CardType == [status : CardStatuses, payload : Nat, proof : BOOLEAN]
CardIsInOrder(c) ==
    /\ card[c].status = "queued" => card[c].payload = Unbuilt
    /\ card[c].payload \in 0..Latest \cup {Unbuilt}
    /\ card[c].status \in {"sending", "sent"} => card[c].payload # Unbuilt
    /\ c \in Bundles => card[c].status # "sent"
    /\ c \in Creators => card[c].status # "superseded"
    /\ c \in Bundles /\ card[c].status # "absent" => \E n \in 1..Latest : attached[n] = c

\* Unless the code gave up, the latest plans are shown or a delivery will show them, and
\* a payload that is built carries them.
PlansAreComing ==
    /\ \/ \E c \in Cards : card[c].status \in {"queued", "claimed", "sending"}
       \/ IdsOf(shown) = IdsOf(Latest)
    /\ \A c \in Cards :
          card[c].status = "sending" \/ (card[c].status = "claimed" /\ card[c].payload # Unbuilt)
             => IdsOf(card[c].payload) = IdsOf(Latest)

ReachInv ==
    /\ attached \in Seq(Bundles) /\ card \in [Cards -> CardType]
    /\ CardInv
    /\ \A c \in Cards : CardIsInOrder(c)
    /\ attached # <<>> /\ ~deferred => PlansAreComing

LEMMA FreshCards ==
    ASSUME NEW status \in CardStatuses
    PROVE  /\ Fresh(status) \in CardType
           /\ Fresh(status).status = status /\ Fresh(status).payload = Unbuilt
  BY PlansAssumption DEF Fresh, CardType, Unbuilt

\* A new list leaves each delivery alone, gives it up, or queues its own edit or the slot.
GivenUp(cards, c) == card[c].status # "absent" /\ cards[c] = Fresh("cancelled")
LEMMA ConsolidatedCards ==
    ASSUME card \in [Cards -> CardType], NEW b \in Bundles
    PROVE  /\ Consolidated(b) \in [Cards -> CardType]
           /\ \A c \in Cards :
                 \/ Consolidated(b)[c] = card[c] \/ GivenUp(Consolidated(b), c)
                 \/ Consolidated(b)[c] = Fresh("queued") /\ c \in {b, "slot"}
  <1>a. b \in Cards /\ "slot" \in Cards
    BY DEF Cards, Creators
  <1>b. /\ Fresh("cancelled") \in CardType /\ Fresh("queued") \in CardType
        /\ Fresh("cancelled").status # "absent"
    BY FreshCards DEF CardStatuses, Active
  <1> DEFINE Given(cards) ==
               /\ cards \in [Cards -> CardType]
               /\ \A c \in Cards : cards[c] = card[c] \/ GivenUp(cards, c)
             Near(cards) ==
               /\ cards \in [Cards -> CardType]
               /\ \A c \in Cards :
                     \/ cards[c] = card[c] \/ GivenUp(cards, c)
                     \/ cards[c] = Fresh("queued") /\ c \in {b, "slot"}
             Present(cards) == {c \in Cards : cards[c].status # "absent"}
  <1>1. ASSUME NEW cards, NEW set, Given(cards), set \cap Cards \subseteq Present(cards)
        PROVE  Given(Without(cards, set))
    <2>1. Without(cards, set) \in [Cards -> CardType]
      BY <1>1, <1>b DEF Without
    <2>2. ASSUME NEW c \in Cards
          PROVE  Without(cards, set)[c] = card[c] \/ GivenUp(Without(cards, set), c)
      <3>1. CASE c \in set
        BY <1>1, <1>b, <3>1 DEF Without, GivenUp
      <3>2. CASE c \notin set
        BY <1>1, <3>2 DEF Without, GivenUp
      <3> QED
        BY <3>1, <3>2
    <2> QED
      BY <2>1, <2>2
  <1>2. ASSUME NEW cards, Given(cards)
        PROVE  Near([cards EXCEPT ![b] = Fresh("queued")]) /\ Near(Slot(cards))
    <2>1. ASSUME NEW d \in {b, "slot"}
          PROVE  Near([cards EXCEPT ![d] = Fresh("queued")])
      BY <1>a, <1>b, <1>2, <2>1 DEF GivenUp
    <2>2. Near(cards)
      BY <1>2
    <2> HIDE DEF Near, Given
    <2> QED
      BY <2>1, <2>2 DEF Slot
  <1>3. ASSUME NEW cards, NEW statuses, NEW set, NEW others, "absent" \notin statuses,
               cards \in [Cards -> CardType],
               set \subseteq With(cards, statuses) \/ set = With(cards, statuses) \ others
        PROVE  set \cap Cards \subseteq Present(cards)
    BY <1>3 DEF With
  <1>4. ASSUME NEW cards
        PROVE  Given(cards) => cards \in [Cards -> CardType] /\ Near(cards)
    OBVIOUS
  <1> DEFINE cards == Without(card, Outdated(b))
             sent == With(cards, {"sent"})
  <1>5. Given(cards)
    <2>1. Given(card)
      OBVIOUS
    <2>2. Outdated(b) \subseteq With(card, {"queued", "uncertain"})
      BY DEF Outdated
    <2> HIDE DEF Given, Present
    <2> QED
      BY <1>1, <1>3, <2>1, <2>2
  <1> HIDE DEF Given, Near, Present, cards, sent
  <1>6. Near(Migrated(cards, sent, b))
    <2> DEFINE edits == OnItsWay(cards)
               kept == IF edits = {} THEN {} ELSE {CHOOSE e \in edits : TRUE}
               cleared == Without(cards, With(cards, Active) \ (sent \cup kept))
    <2>1. Given(cleared)
      <3>1. "absent" \notin Active
        BY DEF Active
      <3> HIDE DEF kept
      <3> QED
        BY <1>1, <1>3, <1>4, <1>5, <3>1
    <2>2. Migrated(cards, sent, b) \in {cleared, [cleared EXCEPT ![b] = Fresh("queued")]}
      BY DEF Migrated
    <2> HIDE DEF cleared
    <2> QED
      BY <1>2, <1>4, <2>1, <2>2
  <1>7. Given(Waited(cards)) /\ Given(Settled(cards, sent)) /\ Given(Gathered(cards))
    <2>1. "absent" \notin Active /\ "absent" \notin {"queued", "claimed"}
      BY DEF Active
    <2>2. Given(Waited(cards))
      BY <1>1, <1>3, <1>4, <1>5, <2>1 DEF Waited
    <2>3. Given(Settled(cards, sent))
      BY <1>1, <1>3, <1>4, <1>5, <2>1 DEF Settled
    <2>4. Given(Gathered(cards))
      BY <1>1, <1>3, <1>4, <1>5, <2>1 DEF Gathered
    <2> QED
      BY <2>2, <2>3, <2>4
  <1>8. Near(Consolidated(b))
    BY <1>2, <1>4, <1>5, <1>6, <1>7 DEF Consolidated, cards, sent
  <1> QED
    BY <1>8 DEF Near

\* At most one delivery was sent.
LEMMA OneIsSent ==
    ASSUME ReachInv
    PROVE  ~(Cardinality(With(card, {"sent"})) > 1)
  <1> DEFINE S == With(card, {"sent"})
  <1>1. S \subseteq Creators
    BY DEF ReachInv, CardIsInOrder, With, Cards
  <1>2. S \subseteq {"first"} \/ S \subseteq {"slot"}
    BY <1>1 DEF ReachInv, CardInv, Creators, With, Active
  <1> HIDE DEF S
  <1>3. PICK x \in {"first", "slot"} : S \subseteq {x}
    BY <1>2
  <1>4. IsFiniteSet({x}) /\ Cardinality({x}) = 1
    BY FS_Singleton
  <1>5. IsFiniteSet(S) /\ Cardinality(S) <= Cardinality({x})
    BY <1>3, <1>4, FS_Subset
  <1>6. Cardinality(S) \in Nat
    BY <1>5, FS_CardinalityType
  <1> QED
    BY <1>4, <1>5, <1>6 DEF S

\* A list with new plans that is not left behind has a delivery that will carry it.
LEMMA NewPlansAreComing ==
    ASSUME ReachInv, NEW b \in Bundles, ~LeftBehind(b)
    PROVE  \E c \in Cards : Consolidated(b)[c].status \in {"queued", "claimed"}
  <1> DEFINE cards == Without(card, Outdated(b))
             sent == With(cards, {"sent"})
  <1>a. b \in Cards /\ "slot" \in Cards
    BY DEF Cards, Creators
  <1>b. Fresh("queued").status = "queued" /\ Fresh("cancelled").status = "cancelled"
    BY FreshCards DEF CardStatuses, Active
  <1>c. DOMAIN cards = Cards /\ card \in [Cards -> CardType]
    BY DEF Without, ReachInv
  <1>1. \A c \in Cards : cards[c].status \in Active => cards[c] = card[c]
    BY Reduced, <1>c
  <1>2. \A c \in Cards : cards[c].status \notin {"sending", "uncertain"}
    BY <1>1 DEF LeftBehind, With, Active
  <1>3. sent = With(card, {"sent"})
    <2>1. \A c \in Cards : card[c].status = "sent" => c \notin Outdated(b)
      BY DEF Outdated, With
    <2>2. \A c \in Cards : card[c].status = "sent" => cards[c] = card[c]
      BY <2>1 DEF Without
    <2>3. \A c \in Cards : cards[c].status = "sent" => card[c].status = "sent"
      BY <1>1 DEF Active
    <2> HIDE DEF cards
    <2> QED
      BY <2>2, <2>3 DEF With
  <1>4. ~Unsettled(cards)
    <2>1. With(cards, {"sending", "uncertain"}) = {}
      BY <1>2 DEF With
    <2>2. ~(Cardinality(With(cards, {"sent"})) > 1)
      BY <1>3, OneIsSent
    <2> QED
      BY <2>1, <2>2 DEF Unsettled
  <1>5. CASE sent # {}
    <2>1. PICK c \in Cards : c \in sent /\ card[c].status = "sent"
      BY <1>3, <1>5 DEF With
    <2>2. card[c].proof
      BY <2>1 DEF LeftBehind
    <2>3. ~Matches(c, b)
      <3>1. card[c].payload \in 0..Latest
        BY <2>1 DEF ReachInv, CardIsInOrder
      <3>2. \A n \in 1..Latest : IdsOf(n) # PlansOf[b]
        BY DEF LeftBehind
      <3>3. PlansOf[b] # {} /\ IdsOf(0) = {}
        BY PlansAssumption DEF IdsOf
      <3>4. Latest \in Nat
        BY DEF ReachInv, Latest
      <3> QED
        BY <3>1, <3>2, <3>3, <3>4 DEF Matches
    <2>4. Consolidated(b) = Migrated(cards, sent, b)
      BY <1>4, <1>5, <2>1, <2>2, <2>3 DEF Consolidated
    <2> DEFINE edits == OnItsWay(cards)
               kept == IF edits = {} THEN {} ELSE {CHOOSE e \in edits : TRUE}
               cleared == Without(cards, With(cards, Active) \ (sent \cup kept))
    <2>5. CASE edits = {}
      <3>1. card[b].status = "absent"
        <4>1. \A n \in 1..Latest : attached[n] # b
          BY DEF LeftBehind, IdsOf, ReachInv, Latest
        <4> QED
          BY <1>a, <4>1 DEF ReachInv, CardIsInOrder
      <3>2. cards[b].status = "absent"
        BY <1>a, <3>1 DEF Without, Outdated, With
      <3>3. cleared[b].status = "absent"
        BY <1>a, <1>c, <3>2 DEF Without, With, Active
      <3>4. DOMAIN cleared = Cards
        BY <1>c DEF Without
      <3>5. Migrated(cards, sent, b) = [cleared EXCEPT ![b] = Fresh("queued")]
        BY <2>5, <3>3 DEF Migrated
      <3>6. Consolidated(b) = [cleared EXCEPT ![b] = Fresh("queued")]
        BY <2>4, <3>5
      <3> HIDE DEF cleared, cards, sent
      <3>7. Consolidated(b)[b] = Fresh("queued")
        BY <1>a, <3>4, <3>6
      <3> QED
        BY <1>a, <1>b, <3>7
    <2>6. CASE edits # {}
      <3>1. PICK e : e \in edits /\ kept = {e}
        BY <2>6
      <3>2. e \in Cards /\ cards[e].status \in {"queued", "claimed"}
        BY <1>2, <3>1 DEF OnItsWay, With
      <3>3. cleared[e] = cards[e]
        BY <1>c, <3>1, <3>2 DEF Without
      <3>4. Migrated(cards, sent, b) = cleared
        BY <2>6 DEF Migrated
      <3> QED
        BY <2>4, <3>2, <3>3, <3>4
    <2> QED
      BY <2>5, <2>6
  <1>6. CASE sent = {} /\ With(cards, Active) # {}
    <2> DEFINE live == With(cards, Active)
    <2>1. Consolidated(b) = Gathered(cards)
      BY <1>4, <1>6 DEF Consolidated
    <2>2. Canonical(live) \in live
      BY <1>6 DEF Canonical
    <2>3. \A c \in live : c \in Cards /\ cards[c].status \in {"queued", "claimed"}
      BY <1>2, <1>6 DEF With, Active
    <2>4. Gathered(cards)[Canonical(live)] = cards[Canonical(live)]
      BY <1>c, <2>2, <2>3 DEF Gathered, Without
    <2> QED
      BY <2>1, <2>2, <2>3, <2>4
  <1>7. CASE sent = {} /\ With(cards, Active) = {}
    <2>1. Consolidated(b) = Slot(cards)
      BY <1>4, <1>7 DEF Consolidated
    <2>2. cards["slot"].status \in {"absent", "cancelled"}
      <3>1. cards["slot"].status \notin Active
        BY <1>7, <1>a, <1>c DEF With
      <3>2. cards["slot"] \in {card["slot"], Fresh("cancelled")}
        BY <1>a, <1>c DEF Without
      <3>3. card["slot"].status \notin {"superseded", "failed"}
        BY <1>a DEF ReachInv, CardIsInOrder, Creators, LeftBehind
      <3>4. card["slot"].status \in CardStatuses
        BY <1>a, <1>c DEF CardType
      <3> QED
        BY <1>b, <3>1, <3>2, <3>3, <3>4 DEF CardStatuses
    <2> QED
      BY <1>a, <1>b, <1>c, <2>1, <2>2 DEF Slot
  <1> QED
    BY <1>5, <1>6, <1>7

\* A new list: what it leaves behind is deferred, otherwise a delivery carries it.
LEMMA AttachKeeps ==
    ASSUME ReachInv, CardInv', NEW p \in Processes, NEW b \in Bundles, AttachPlans(p, b)
    PROVE  ReachInv'
  <1>a. b \in Cards /\ PlansOf \in [Bundles -> SUBSET Plans] /\ b \notin Creators /\ "slot" \notin Bundles
    BY PlansAssumption DEF Cards, Creators
  <1>b. /\ Fresh("queued").status = "queued" /\ Fresh("cancelled").status = "cancelled"
        /\ Fresh("queued").payload = Unbuilt /\ Fresh("cancelled").payload = Unbuilt
    BY FreshCards DEF CardStatuses, Active
  <1>1. /\ attached' = Append(attached, b) /\ attached \in Seq(Bundles)
        /\ card' = Consolidated(b) /\ deferred' = LeftBehind(b)
    BY DEF AttachPlans, ReachInv
  <1>2. /\ attached' \in Seq(Bundles) /\ Latest' = Latest + 1 /\ Latest \in Nat
        /\ attached'[Latest'] = b
        /\ \A n \in 1..Latest : n \in 1..Latest' /\ attached'[n] = attached[n]
    BY <1>1 DEF Latest
  <1>3. /\ card' \in [Cards -> CardType]
        /\ \A c \in Cards :
              \/ card'[c] = card[c]
              \/ card[c].status # "absent" /\ card'[c] = Fresh("cancelled")
              \/ card'[c] = Fresh("queued") /\ c \in {b, "slot"}
    BY <1>1, ConsolidatedCards DEF ReachInv, GivenUp
  <1>4. ASSUME NEW c \in Cards
        PROVE  CardIsInOrder(c)'
    <2>1. CardIsInOrder(c) /\ Unbuilt' = Unbuilt
      BY DEF ReachInv, Unbuilt
    <2>2. /\ card'[c].status = "queued" => card'[c].payload = Unbuilt
          /\ card'[c].payload \in 0..Latest \cup {Unbuilt}
          /\ card'[c].status \in {"sending", "sent"} => card'[c].payload # Unbuilt
          /\ c \in Bundles => card'[c].status # "sent"
          /\ c \in Creators => card'[c].status # "superseded"
      BY <1>b, <1>3, <2>1 DEF CardIsInOrder
    <2>3. c \in Bundles /\ card'[c].status # "absent" => \E n \in 1..Latest' : attached'[n] = c
      <3>1. ASSUME c \in Bundles, card'[c].status # "absent", c # b
            PROVE  card[c].status # "absent"
        BY <1>3, <1>a, <3>1
      <3>2. CASE c = b
        BY <1>2, <3>2
      <3>3. CASE c # b
        BY <1>2, <2>1, <3>1, <3>3 DEF CardIsInOrder
      <3> QED
        BY <3>2, <3>3
    <2> QED
      BY <1>2, <2>1, <2>2, <2>3 DEF CardIsInOrder
  <1>5. ASSUME ~LeftBehind(b)
        PROVE  PlansAreComing'
    <2>1. \E c \in Cards : card'[c].status \in {"queued", "claimed"}
      BY <1>1, <1>5, NewPlansAreComing
    <2>2. \A c \in Cards : ~(card'[c].status = "sending"
                             \/ (card'[c].status = "claimed" /\ card'[c].payload # Unbuilt))
      BY <1>b, <1>3, <1>5 DEF LeftBehind, With
    <2> QED
      BY <2>1, <2>2 DEF PlansAreComing, Unbuilt, Cards
  <1> QED
    BY <1>1, <1>2, <1>3, <1>4, <1>5 DEF ReachInv

\* A delivery that changes alone.
LEMMA CardMoves ==
    ASSUME ReachInv, CardInv', NEW c \in Cards, NEW x \in CardType,
           card' = [card EXCEPT ![c] = x], attached' = attached,
           card[c].status # "absent",
           x.status = "queued" => x.payload = Unbuilt,
           x.payload \in 0..Latest \cup {Unbuilt},
           x.status \in {"sending", "sent"} => x.payload # Unbuilt,
           c \in Bundles => x.status # "sent",
           c \in Creators => x.status # "superseded",
           attached # <<>> /\ ~deferred' =>
              /\ ~deferred
              /\ \/ x.status \in {"queued", "claimed", "sending"} /\ shown' = shown
                 \/ IdsOf(shown') = IdsOf(Latest)
              /\ x.status = "sending" \/ (x.status = "claimed" /\ x.payload # Unbuilt)
                   => IdsOf(x.payload) = IdsOf(Latest)
    PROVE  ReachInv'
  <1>1. /\ card' \in [Cards -> CardType] /\ card'[c] = x
        /\ \A d \in Cards \ {c} : card'[d] = card[d]
    BY DEF ReachInv
  <1>2. Latest' = Latest /\ Unbuilt' = Unbuilt /\ \A n \in Nat : IdsOf(n)' = IdsOf(n)
    BY DEF Latest, Unbuilt, IdsOf
  <1>3. ASSUME NEW d \in Cards
        PROVE  CardIsInOrder(d)'
    <2>1. CardIsInOrder(d)
      BY DEF ReachInv
    <2>2. CASE d = c
      BY <1>1, <1>2, <2>1, <2>2 DEF CardIsInOrder
    <2>3. CASE d # c
      BY <1>1, <1>2, <2>1, <2>3 DEF CardIsInOrder
    <2> QED
      BY <2>2, <2>3
  <1>4. ASSUME attached # <<>>, ~deferred'
        PROVE  PlansAreComing'
    <2>1. PlansAreComing
      BY <1>4 DEF ReachInv
    <2>2. IdsOf(Latest)' = IdsOf(Latest)
      BY <1>2 DEF IdsOf
    <2>4. IdsOf(shown)' = IdsOf(shown')
      BY DEF IdsOf
    <2>5. \/ \E d \in Cards : card'[d].status \in {"queued", "claimed", "sending"}
          \/ IdsOf(shown)' = IdsOf(Latest)'
      BY <1>1, <1>4, <2>2, <2>4
    <2>6. \A d \in Cards :
             card'[d].status = "sending" \/ (card'[d].status = "claimed" /\ card'[d].payload # Unbuilt')
                => IdsOf(card[d].payload)' = IdsOf(Latest)'
      <3>1. ASSUME NEW d \in Cards,
                   card'[d].status = "sending" \/ (card'[d].status = "claimed" /\ card'[d].payload # Unbuilt)
            PROVE  IdsOf(card'[d].payload) = IdsOf(Latest)
        <4>1. CASE d = c
          BY <1>1, <1>4, <3>1, <4>1
        <4>2. CASE d # c
          BY <1>1, <2>1, <3>1, <4>2 DEF PlansAreComing
        <4> QED
          BY <4>1, <4>2
      <3> QED
        BY <1>2, <2>2, <3>1 DEF IdsOf
    <2> QED
      BY <2>5, <2>6 DEF PlansAreComing, Cards
  <1> QED
    BY <1>1, <1>3, <1>4 DEF ReachInv, Cards

LEMMA ReachStarts == PlansInit => ReachInv
  <1>c. \A s \in CardStatuses : Fresh(s) \in CardType /\ Fresh(s).status = s /\ Fresh(s).payload = Unbuilt
    BY FreshCards
  <1>d. {"queued", "claimed", "sending", "sent", "superseded", "uncertain", "absent", "cancelled", "failed"}
           = CardStatuses
    BY DEF CardStatuses, Active
  <1> SUFFICES ASSUME PlansInit PROVE ReachInv
    OBVIOUS
  <1>1. CardInv
    BY CardStarts
  <1>2. attached = <<>> /\ attached \in Seq(Bundles)
    BY DEF PlansInit
  <1>3. /\ card \in [Cards -> CardType]
        /\ \A c \in Cards : card[c].status = IF c = "first" THEN "queued" ELSE "absent"
        /\ \A c \in Cards : card[c].payload = Unbuilt
    BY <1>c, <1>d DEF PlansInit
  <1>4. "first" \notin Bundles
    BY PlansAssumption
  <1>5. ASSUME NEW c \in Cards
        PROVE  CardIsInOrder(c)
    BY <1>3, <1>4 DEF CardIsInOrder
  <1> QED
    BY <1>1, <1>2, <1>3, <1>5 DEF ReachInv

LEMMA ReachKept == ReachInv /\ [PlansNext]_plansVars => ReachInv'
  <1>c. \A s \in CardStatuses : Fresh(s) \in CardType /\ Fresh(s).status = s /\ Fresh(s).payload = Unbuilt
    BY FreshCards
  <1>d. {"queued", "claimed", "sending", "sent", "superseded", "uncertain", "absent", "cancelled", "failed"}
           = CardStatuses
    BY DEF CardStatuses, Active
  <1> SUFFICES ASSUME ReachInv, [PlansNext]_plansVars PROVE ReachInv'
    OBVIOUS
  <1>0. CardInv'
    BY CardKept DEF ReachInv
  <1>a. /\ \A c \in Cards : CardIsInOrder(c) /\ card[c] \in CardType
        /\ attached # <<>> /\ ~deferred => PlansAreComing
        /\ Latest \in Nat /\ Unbuilt \in Nat
    BY PlansAssumption DEF ReachInv, Latest, Unbuilt
  <1>1. CASE UNCHANGED <<attached, card, shown, deferred>>
    BY <1>1 DEF ReachInv, CardInv, CardIsInOrder, PlansAreComing, Cards, Latest, Unbuilt, IdsOf
  <1>2. ASSUME NEW p \in Processes, NEW b \in Bundles, AttachPlans(p, b)
        PROVE  ReachInv'
    BY <1>0, <1>2, AttachKeeps
  <1>3. ASSUME NEW c \in Cards, ClaimCard(c)
        PROVE  ReachInv'
    <2> DEFINE x == [card[c] EXCEPT !.status = "claimed"]
    <2>1. x \in CardType /\ x.status = "claimed" /\ x.payload = Unbuilt
      BY <1>d, <1>3, <1>a DEF CardType, ClaimCard, CardIsInOrder
    <2>2. /\ card' = [card EXCEPT ![c] = x] /\ UNCHANGED <<attached, shown, deferred>>
          /\ card[c].status = "queued"
      BY <1>3 DEF ClaimCard
    <2> HIDE DEF x
    <2> QED
      BY <1>a, <2>1, <2>2, <1>0, CardMoves
  <1>4. ASSUME NEW c \in Cards, BuildPayload(c)
        PROVE  ReachInv'
    <2> DEFINE x == [card[c] EXCEPT !.payload = Latest]
    <2>1. x \in CardType /\ x.status = "claimed" /\ x.payload = Latest
      BY <1>4, <1>a DEF CardType, BuildPayload
    <2>2. /\ card' = [card EXCEPT ![c] = x] /\ UNCHANGED <<attached, shown, deferred>>
          /\ card[c].status = "claimed"
      BY <1>4 DEF BuildPayload
    <2>3. x.payload \in 0..Latest \cup {Unbuilt} /\ IdsOf(x.payload) = IdsOf(Latest)
      BY <1>a, <2>1
    <2>4. x.status \notin {"queued", "sending", "sent", "superseded"}
      BY <2>1
    <2> HIDE DEF x
    <2> QED
      BY <2>1, <2>2, <2>3, <2>4, <1>0, CardMoves
  <1>5. ASSUME NEW c \in Cards, Reserve(c)
        PROVE  ReachInv'
    <2> DEFINE x == [card[c] EXCEPT !.status = "sending"]
    <2>1. x \in CardType /\ x.status = "sending" /\ x.payload = card[c].payload
      BY <1>d, <1>a DEF CardType
    <2>2. /\ card' = [card EXCEPT ![c] = x] /\ UNCHANGED <<attached, shown, deferred>>
          /\ card[c].status = "claimed" /\ card[c].payload # Unbuilt
      BY <1>5 DEF Reserve
    <2>3. attached # <<>> /\ ~deferred => IdsOf(card[c].payload) = IdsOf(Latest)
      BY <1>a, <2>2 DEF PlansAreComing
    <2>4. x.payload \in 0..Latest \cup {Unbuilt}
      BY <1>a, <2>1 DEF CardIsInOrder
    <2> HIDE DEF x
    <2> QED
      BY <2>1, <2>2, <2>3, <2>4, <1>0, CardMoves
  <1>6. ASSUME NEW c \in Cards, CardIsShown(c)
        PROVE  ReachInv'
    <2>1. PICK proof \in BOOLEAN :
             card' = [card EXCEPT ![c].status = IF c \in Creators THEN "sent" ELSE "superseded",
                                  ![c].proof = proof]
      BY <1>6 DEF CardIsShown
    <2> DEFINE x == [card[c] EXCEPT !.status = IF c \in Creators THEN "sent" ELSE "superseded",
                                    !.proof = proof]
    <2>2. /\ x \in CardType /\ x.payload = card[c].payload
          /\ x.status = IF c \in Creators THEN "sent" ELSE "superseded"
      BY <1>d, <1>a DEF CardType
    <2>3. /\ card' = [card EXCEPT ![c] = x] /\ UNCHANGED <<attached, deferred>>
          /\ card[c].status = "sending" /\ shown' = card[c].payload
      BY <1>6, <2>1 DEF CardIsShown
    <2>4. attached # <<>> /\ ~deferred => IdsOf(card[c].payload) = IdsOf(Latest)
      BY <1>a, <2>3 DEF PlansAreComing
    <2>5. x.payload \in 0..Latest \cup {Unbuilt} /\ x.payload # Unbuilt
      BY <1>a, <2>2, <2>3 DEF CardIsInOrder
    <2>6. c \in Bundles <=> c \notin Creators
      BY PlansAssumption DEF Cards, Creators
    <2> HIDE DEF x
    <2> QED
      BY <2>2, <2>3, <2>4, <2>5, <2>6, <1>0, CardMoves
  <1>7. ASSUME NEW c \in Cards, CardIsUncertain(c)
        PROVE  ReachInv'
    <2> DEFINE x == [card[c] EXCEPT !.status = "uncertain"]
    <2>1. x \in CardType /\ x.status = "uncertain" /\ x.payload = card[c].payload
      BY <1>d, <1>a DEF CardType
    <2>2. /\ card' = [card EXCEPT ![c] = x] /\ attached' = attached /\ deferred'
          /\ card[c].status = "sending"
      BY <1>7 DEF CardIsUncertain
    <2>3. x.payload \in 0..Latest \cup {Unbuilt}
      BY <1>a, <2>1 DEF CardIsInOrder
    <2> HIDE DEF x
    <2> QED
      BY <2>1, <2>2, <2>3, <1>0, CardMoves
  <1>8. ASSUME NEW c \in Cards, CardIsRefused(c)
        PROVE  ReachInv'
    <2>1. CASE card' = [card EXCEPT ![c] = Fresh("queued")] /\ deferred' = deferred
      <3>1. attached' = attached /\ shown' = shown /\ card[c].status = "sending"
        BY <1>8 DEF CardIsRefused
      <3> QED
        BY <1>c, <1>d, <2>1, <3>1, <1>0, CardMoves
    <2>2. CASE card' = [card EXCEPT ![c] = Fresh("failed")] /\ deferred'
      <3>1. attached' = attached /\ card[c].status = "sending"
        BY <1>8 DEF CardIsRefused
      <3> QED
        BY <1>c, <1>d, <2>2, <3>1, <1>0, CardMoves
    <2> QED
      BY <1>8, <2>1, <2>2 DEF CardIsRefused
  <1>9. CASE Withdraw
    <2>1. /\ attached' = attached /\ deferred'
          /\ card' = Without(card, With(card, {"queued", "claimed"}))
      BY <1>9 DEF Withdraw, Waited
    <2>2. /\ Fresh("cancelled") \in CardType /\ Fresh("cancelled").status = "cancelled"
          /\ Fresh("cancelled").payload = Unbuilt
      BY <1>c, <1>d
    <2>3. ASSUME NEW c \in Cards
          PROVE  /\ card'[c] \in CardType
                 /\ card'[c] = card[c] \/ (card'[c] = Fresh("cancelled") /\ card[c].status # "absent")
      <3>1. CASE c \in With(card, {"queued", "claimed"})
        <4>1. card[c].status # "absent"
          BY <3>1 DEF With
        <4> QED
          BY <2>1, <2>2, <3>1, <4>1 DEF Without, ReachInv
      <3>2. CASE c \notin With(card, {"queued", "claimed"})
        BY <1>a, <2>1, <3>2 DEF Without, ReachInv
      <3> QED
        BY <3>1, <3>2
    <2>4. card' \in [Cards -> CardType]
      BY <2>1, <2>3 DEF Without
    <2>5. \A c \in Cards : CardIsInOrder(c)'
      BY <1>a, <2>1, <2>2, <2>3 DEF CardIsInOrder, Latest, Unbuilt
    <2> QED
      BY <1>0, <2>1, <2>4, <2>5 DEF ReachInv, Cards
  <1> QED
    BY <1>1, <1>2, <1>3, <1>4, <1>5, <1>6, <1>7, <1>8, <1>9 DEF PlansNext, plansVars,
       AskForPlan, CheckPlan, SelectPlan

LEMMA ReachShows == ReachInv => OneCardShowsThePlans
  <1>1. ReachInv => PlansReachTheCard
    BY DEF ReachInv, PlansAreComing, PlansReachTheCard, With
  <1>2. ReachInv => OneCardIsCreated
    BY CardIsOne DEF ReachInv
  <1> QED
    BY <1>1, <1>2 DEF OneCardShowsThePlans

\* The card of the incident shows the plans that are offered for selection as soon as no
\* delivery is on its way, unless the code left it behind (record_health_update); and it
\* is one card.
THEOREM CardShowsThePlans == PlansSpec => []OneCardShowsThePlans
  BY ReachStarts, ReachKept, ReachShows, PTL DEF PlansSpec
-----------------------------------------------------------------------------
(***************************************************************************)
(* HealthRepair: closing                                                   *)
(***************************************************************************)
ClosingType ==
    [pc : {"idle", "asked", "proven", "recorded", "closed"}, verified : Nat]
RepairTypes ==
    /\ closing \in [Resolvers -> ClosingType]
    /\ verified \in Seq(Findings) /\ Len(verified) <= MaxVerifications
    /\ recorded \in [1..MaxVerifications -> Resolvers \cup {Nobody}]

\* There was useful progress, and the verifier found the source healthy.
Proof == progress # {} /\ HealthyVerificationMatches

\* Whoever is through the gate has the proof; but for the operator, who records
\* nothing, the verification it names is not a degraded one and is recorded when it says so.
IsJustified(r) ==
    /\ closing[r].pc \in {"proven", "recorded", "closed"} =>
          Proof /\ closing[r].verified \in Verifications
    /\ closing[r].pc \in {"proven", "recorded", "closed"} /\ r # "operator" =>
          verified[closing[r].verified] # "degraded"
    /\ closing[r].pc \in {"recorded", "closed"} /\ r # "operator" =>
          recorded[closing[r].verified] # Nobody
    /\ closing[r].pc = "closed" => incident = "resolved" /\ r # "operator"
    /\ r = "operator" => closing[r].pc # "proven"

RepairInv ==
    /\ RepairTypes /\ ClosedIsProven
    /\ \A r \in Resolvers : IsJustified(r)

\* Proofs, verifications and records only grow, and a closed incident stays closed.
Grows ==
    /\ progress \subseteq progress'
    /\ Len(verified) <= Len(verified') /\ \A v \in Verifications : verified'[v] = verified[v]
    /\ \A v \in 1..MaxVerifications : recorded[v] # Nobody => recorded'[v] # Nobody
    /\ incident = "resolved" => incident' = "resolved"

LEMMA ProofGrows ==
    ASSUME RepairTypes, Len(verified') \in Nat, Grows
    PROVE  /\ Verifications \subseteq Verifications'
           /\ Proof => Proof'
  BY DEF Grows, Verifications, Proof, HealthyVerificationMatches, Convinces, RepairTypes

\* What was justified stays justified.
LEMMA StaysJustified ==
    ASSUME RepairInv, NEW r \in Resolvers, closing'[r] = closing[r], Len(verified') \in Nat, Grows
    PROVE  IsJustified(r)'
  <1>1. IsJustified(r) /\ RepairTypes
    BY DEF RepairInv
  <1>2. closing[r].verified \in Verifications => closing[r].verified \in 1..MaxVerifications
    BY <1>1, RepairAssumption DEF RepairTypes, Verifications
  <1>3. /\ Verifications \subseteq Verifications'
        /\ Proof => Proof'
    BY <1>1, ProofGrows
  <1> QED
    BY <1>1, <1>2, <1>3 DEF IsJustified, Grows

\* The workflow's gate let somebody close the incident.
ByWorkflow == closers \cap Resolvers # {}

\* What is announced stays true.
LEMMA StaysProven ==
    ASSUME RepairInv, Len(verified') \in Nat, Grows,
           ByWorkflow' => ByWorkflow \/ Proof,
           announced' => announced \/ \E r \in Resolvers : closing[r].pc = "closed"
    PROVE  ClosedIsProven'
  <1>1. RepairTypes /\ ClosedIsProven /\ \A r \in Resolvers : IsJustified(r)
    BY DEF RepairInv
  <1>2. Verifications \subseteq 1..MaxVerifications
    BY <1>1, RepairAssumption DEF RepairTypes, Verifications
  <1>3. /\ Verifications \subseteq Verifications'
        /\ Proof => Proof'
    BY <1>1, ProofGrows
  <1>4. ByWorkflow' => Proof'
    BY <1>1, <1>3 DEF ClosedIsProven, ByWorkflow, Proof, HealthyVerificationMatches, Convinces
  <1>5. ASSUME announced'
        PROVE  incident = "resolved"
               /\ \E v \in Verifications : recorded[v] # Nobody /\ verified[v] # "degraded"
    BY <1>1, <1>5 DEF ClosedIsProven, IsJustified
  <1>6. announced' => incident' = "resolved"
          /\ \E v \in Verifications' : recorded'[v] # Nobody /\ verified'[v] # "degraded"
    BY <1>2, <1>3, <1>5 DEF Grows
  <1> QED
    BY <1>4, <1>6 DEF ClosedIsProven, ByWorkflow, Proof, HealthyVerificationMatches, Convinces

\* Who passes the gate has the proof (_require_health_resolution_gate).
LEMMA GateProves ==
    ASSUME RepairTypes, NEW r \in Resolvers, GateOpens(r)
    PROVE  /\ Proof /\ Len(verified) \in Verifications
           /\ r # "operator" => verified[Len(verified)] # "degraded"
  <1>1. progress # {}
    BY DEF GateOpens, ProgressCounts, Resolvers
  <1>2. HealthyVerificationMatches
    BY DEF GateOpens
  <1>3. Len(verified) \in Verifications
    BY <1>2 DEF HealthyVerificationMatches, Verifications, RepairTypes
  <1> QED
    BY <1>1, <1>2, <1>3 DEF GateOpens, Proof

\* Passing the gate: the resolver is justified.
LEMMA GateKeeps ==
    ASSUME RepairInv, NEW r \in Resolvers, GateOpens(r), Proven(r),
           UNCHANGED <<incident, progress, verified, recorded>>
    PROVE  closing' \in [Resolvers -> ClosingType] /\ \A q \in Resolvers : IsJustified(q)'
  <1>1. RepairTypes
    BY DEF RepairInv
  <1>2. /\ Proof /\ Len(verified) \in Verifications
        /\ r # "operator" => verified[Len(verified)] # "degraded"
    BY <1>1, GateProves
  <1>3. Grows /\ Len(verified') \in Nat /\ Verifications' = Verifications /\ (Proof <=> Proof')
    BY <1>1 DEF Grows, RepairTypes, Verifications, Proof, HealthyVerificationMatches, Convinces
  <1>4. PICK x \in ClosingType :
           /\ closing' = [closing EXCEPT ![r] = x]
           /\ x.pc \in {"idle", "recorded", "proven"}
           /\ x.pc = "recorded" => r = "operator"
           /\ x.pc = "proven" => r # "operator"
           /\ x.pc # "idle" => x.verified = Len(verified)
    <2>1. Resting \in ClosingType /\ Resting.pc = "idle"
      BY DEF Resting, ClosingType
    <2> DEFINE y == [pc |-> IF r = "operator" THEN "recorded" ELSE "proven", verified |-> Len(verified)]
    <2>2. y \in ClosingType
      BY <1>1 DEF ClosingType, RepairTypes
    <2> QED
      BY <2>1, <2>2 DEF Proven
  <1>5. closing' \in [Resolvers -> ClosingType] /\ closing'[r] = x
        /\ \A q \in Resolvers \ {r} : closing'[q] = closing[q]
    BY <1>1, <1>4 DEF RepairTypes
  <1>6. IsJustified(r)'
    BY <1>2, <1>3, <1>4, <1>5 DEF IsJustified
  <1>7. \A q \in Resolvers \ {r} : IsJustified(q)'
    BY <1>3, <1>5, StaysJustified
  <1> QED
    BY <1>5, <1>6, <1>7

LEMMA OutcomeSays ==
    ASSUME NEW status, Outcome(status)
    PROVE  announced' => announced \/ status = "resolved"
  BY DEF Outcome, ReviewPending

\* A step of which the gate knows nothing: it may close by the source's measurement.
LEMMA NothingCloses ==
    ASSUME RepairInv, UNCHANGED <<verified, closing, recorded>>,
           incident' \in {incident, "resolved"}, ByWorkflow' => ByWorkflow,
           progress \subseteq progress', announced' => announced
    PROVE  RepairInv'
  <1>1. RepairTypes
    BY DEF RepairInv
  <1>2. Grows /\ Len(verified') \in Nat /\ RepairTypes'
    BY <1>1 DEF Grows, RepairTypes
  <1>3. ClosedIsProven'
    BY <1>2, StaysProven DEF ByWorkflow
  <1>4. \A r \in Resolvers : IsJustified(r)'
    BY <1>2, StaysJustified
  <1> QED
    BY <1>2, <1>3, <1>4 DEF RepairInv

\* What the worker of a job holds: a result as soon as it judged it.
RunType ==
    [pc : {"idle", "launched", "judged", "reported", "closing", "done"},
     result : DiagnosisResults \cup {"none"}]
WorkInv ==
    /\ agent \in [Jobs -> RunType]
    /\ \A j \in Jobs : agent[j].pc \in {"judged", "reported"} => agent[j].result \in ResultsOf(j)

LEMMA RunFields ==
    /\ NoRun \in RunType
    /\ \A x \in RunType, pc \in {"idle", "launched", "judged", "reported", "closing", "done"} :
          [x EXCEPT !.pc = pc] \in RunType
    /\ \A x \in RunType, result \in DiagnosisResults :
          [x EXCEPT !.result = result] \in RunType
    /\ \A j \in Jobs : ResultsOf(j) \subseteq DiagnosisResults /\ "rejected" \in ResultsOf(j)
  BY DEF NoRun, RunType, DiagnosisResults, RemediationResults, ResultsOf

LEMMA WorkStarts == RepairInit => WorkInv
  <1>1. NoRun \in RunType /\ NoRun.pc = "idle"
    BY DEF NoRun, RunType
  <1> QED
    BY <1>1 DEF RepairInit, WorkInv

LEMMA WorkKept == WorkInv /\ [RepairNext]_repairVars => WorkInv'
  <1> SUFFICES ASSUME WorkInv, [RepairNext]_repairVars PROVE WorkInv'
    OBVIOUS
  <1>1. CASE UNCHANGED agent
    BY <1>1 DEF WorkInv
  <1>2. ASSUME NEW j \in Jobs, NEW x \in RunType, agent' = [agent EXCEPT ![j] = x],
               x.pc \in {"judged", "reported"} => x.result \in ResultsOf(j)
        PROVE  WorkInv'
    BY <1>2 DEF WorkInv
  <1>3. ASSUME NEW j \in Jobs, NEW pc \in {"reported", "closing", "done"},
               agent' = [agent EXCEPT ![j].pc = pc],
               pc = "reported" => agent[j].pc = "judged"
        PROVE  WorkInv'
    <2>1. agent[j] \in RunType
      BY DEF WorkInv
    <2> DEFINE x == [agent[j] EXCEPT !.pc = pc]
    <2>2. x \in RunType /\ x.pc = pc /\ x.result = agent[j].result
      BY <2>1 DEF RunType
    <2>3. agent' = [agent EXCEPT ![j] = x]
      BY <1>3
    <2>4. x.pc \in {"judged", "reported"} => x.result \in ResultsOf(j)
      BY <1>3, <2>2 DEF WorkInv
    <2> HIDE DEF x
    <2> QED
      BY <1>2, <2>2, <2>3, <2>4
  <1>4. ASSUME NEW j \in Jobs, NEW pc \in {"reported", "done"},
               NEW result \in ResultsOf(j),
               agent' = [agent EXCEPT ![j].pc = pc, ![j].result = result]
        PROVE  WorkInv'
    <2>1. agent[j] \in RunType /\ result \in DiagnosisResults
      BY RunFields DEF WorkInv
    <2> DEFINE x == [agent[j] EXCEPT !.pc = pc, !.result = result]
    <2>2. x \in RunType /\ x.pc = pc /\ x.result = result
      BY <2>1 DEF RunType
    <2>3. agent' = [agent EXCEPT ![j] = x]
      BY <1>4, <2>1 DEF WorkInv
    <2> HIDE DEF x
    <2> QED
      BY <1>2, <2>2, <2>3
  <1>5. ASSUME NEW j \in Jobs, Launch(j) \/ Judge(j) \/ CompleteJob(j) \/ Interrupted(j) \/ Blocked(j)
        PROVE  WorkInv'
    <2>1. PICK x \in RunType :
             /\ agent' = [agent EXCEPT ![j] = x]
             /\ x.pc \in {"judged", "reported"} => x.result \in ResultsOf(j)
      <3>1. /\ NoRun \in RunType /\ NoRun.pc = "idle"
            /\ [NoRun EXCEPT !.result = "observing"] \in RunType
            /\ [NoRun EXCEPT !.result = "observing"].pc = "idle"
        BY DEF NoRun, RunType, DiagnosisResults
      <3>2. [pc |-> "launched", result |-> "none"] \in RunType
        BY DEF RunType
      <3>3. CASE Launch(j)
        BY <3>2, <3>3 DEF Launch
      <3>4. CASE Judge(j)
        <4>1. PICK result \in ResultsOf(j) :
                 agent' = [agent EXCEPT ![j] = [pc |-> "judged", result |-> result]]
          BY <3>4 DEF Judge
        <4>2. [pc |-> "judged", result |-> result] \in RunType
          BY RunFields DEF RunType
        <4> QED
          BY <4>1, <4>2
      <3>5. CASE CompleteJob(j)
        <4>1. agent' = [agent EXCEPT ![j] = IF agent[j].result = "observing"
                           THEN [NoRun EXCEPT !.result = "observing"] ELSE NoRun]
          BY <3>5 DEF CompleteJob
        <4> QED
          BY <3>1, <4>1
      <3>6. CASE Interrupted(j) \/ Blocked(j)
        BY <3>1, <3>6 DEF Interrupted, Blocked
      <3> QED
        BY <1>5, <3>3, <3>4, <3>5, <3>6
    <2> QED
      BY <1>2, <2>1
  <1>6. ASSUME NEW j \in Jobs, Progresses(j)
        PROVE  WorkInv'
    <2>1. CASE agent' = [agent EXCEPT ![j].pc = "reported"]
      BY <1>3, <1>6, <2>1 DEF Progresses
    <2>2. CASE agent' = [agent EXCEPT ![j].pc = "reported",
                                      ![j].result = IF Executed(j) THEN "rejected" ELSE agent[j].result]
      <3> DEFINE result == IF Executed(j) THEN "rejected" ELSE agent[j].result
      <3>1. result \in ResultsOf(j)
        BY <1>6, RunFields DEF WorkInv, Progresses
      <3>2. agent' = [agent EXCEPT ![j].pc = "reported", ![j].result = result]
        BY <2>2
      <3> HIDE DEF result
      <3> QED
        BY <1>4, <3>1, <3>2
    <2> QED
      BY <1>6, <2>1, <2>2 DEF Progresses
  <1>7. "diagnosis" \in Jobs /\ "remediation" \in Jobs /\ "rejected" \in ResultsOf("remediation")
    BY DEF Jobs, ResultsOf, RemediationResults
  <1>8. ASSUME NEW r \in Resolvers, RecordResolution(r) \/ Announce(r)
        PROVE  WorkInv'
    <2>1. CASE UNCHANGED agent \/ agent' = [agent EXCEPT !["remediation"].pc = "done"]
      BY <1>1, <1>3, <1>7, <2>1
    <2>2. CASE agent' = [agent EXCEPT !["remediation"] = [pc |-> "reported", result |-> "rejected"]]
      <3>1. [pc |-> "reported", result |-> "rejected"] \in RunType
        BY DEF RunType, DiagnosisResults
      <3> QED
        BY <1>2, <1>7, <2>2, <3>1
    <2> QED
      BY <1>8, <2>1, <2>2 DEF RecordResolution, Announce, Accepted, Refused
  <1>9. CASE ConcludeDiagnosis
    BY <1>3, <1>7, <1>9 DEF ConcludeDiagnosis
  <1>10. CASE ConcludeRemediation
    <2>1. agent["remediation"].result \in RemediationResults
      BY <1>7, <1>10 DEF ConcludeRemediation, WorkInv, ResultsOf
    <2>2. \/ \E pc \in {"closing", "done"} : agent' = [agent EXCEPT !["remediation"].pc = pc]
          \/ agent' = [agent EXCEPT !["remediation"] = [agent["remediation"] EXCEPT !.pc = "done", !.result = "rejected"]]
      <3>1. CASE agent["remediation"].result = "degraded"
        BY <1>10, <3>1 DEF ConcludeRemediation
      <3>2. CASE agent["remediation"].result = "repaired" /\ GateOpens("agent")
        BY <1>10, <3>2 DEF ConcludeRemediation
      <3>3. CASE agent["remediation"].result = "repaired" /\ ~GateOpens("agent")
        BY <1>10, <3>3 DEF ConcludeRemediation
      <3>4. CASE agent["remediation"].result \in {"observing", "failed", "rejected"}
        BY <1>10, <3>4 DEF ConcludeRemediation
      <3> QED
        BY <2>1, <3>1, <3>2, <3>3, <3>4 DEF RemediationResults
    <2>3. CASE agent' = [agent EXCEPT !["remediation"] = [agent["remediation"] EXCEPT !.pc = "done", !.result = "rejected"]]
      <3> DEFINE x == [agent["remediation"] EXCEPT !.pc = "done", !.result = "rejected"]
      <3>1. x \in RunType /\ x.pc = "done"
        BY <1>7 DEF WorkInv, RunType, DiagnosisResults
      <3> HIDE DEF x
      <3>2. agent' = [agent EXCEPT !["remediation"] = x]
        BY <2>3 DEF x
      <3> QED
        BY <1>2, <1>7, <3>1, <3>2
    <2> QED
      BY <1>3, <1>7, <2>2, <2>3
  <1>11. CASE WorkerDies
    <2>1. agent' = [j \in Jobs |-> IF agent[j].pc = "idle" THEN agent[j] ELSE NoRun]
      BY <1>11 DEF WorkerDies
    <2>2. NoRun \in RunType /\ NoRun.pc = "idle"
      BY DEF NoRun, RunType
    <2> QED
      BY <2>1, <2>2 DEF WorkInv
  <1>12. CASE \/ SendFirst \/ AskOperator \/ Mute \/ Unmute
              \/ OfferPlans \/ DeclareFinished \/ VerifierCloses \/ SourceRecovers \/ SourceCheckCloses
              \/ \E p \in PlanIds : ChoosePlan(p) \/ ReportProgress(p)
              \/ \E finding \in Findings : RecordVerification(finding)
              \/ \E r \in Resolvers : AskToClose(r) \/ Transition(r)
              \/ UNCHANGED repairVars
    BY <1>1, <1>12 DEF SendFirst, AskOperator, Mute, Unmute, SourceRecovers, SourceCheckCloses, OfferPlans, DeclareFinished, VerifierCloses, ChoosePlan,
       ReportProgress, RecordVerification, AskToClose, Transition, repairVars
  <1> QED
    BY <1>5, <1>6, <1>8, <1>9, <1>10, <1>11, <1>12 DEF RepairNext

LEMMA QuietSteps ==
    ASSUME RepairInv, WorkInv,
           \/ SendFirst \/ AskOperator \/ Mute \/ Unmute
           \/ OfferPlans \/ DeclareFinished \/ SourceRecovers \/ SourceCheckCloses \/ ConcludeDiagnosis
           \/ \E p \in PlanIds : ChoosePlan(p) \/ ReportProgress(p)
           \/ \E j \in Jobs : \/ Launch(j) \/ Judge(j) \/ Progresses(j) \/ CompleteJob(j)
                              \/ Interrupted(j) \/ Blocked(j)
    PROVE  RepairInv'
  <1>1. CASE SendFirst \/ AskOperator \/ Mute \/ Unmute \/ OfferPlans \/ DeclareFinished
    BY <1>1, NothingCloses
    DEF ByWorkflow, SendFirst, AskOperator, Mute, Unmute, OfferPlans, DeclareFinished, proofVars
  <1>7. CASE SourceRecovers \/ SourceCheckCloses
    <2>1. "recovery" \notin Resolvers /\ "check" \notin Resolvers
      BY DEF Resolvers
    <2>2. closers' = closers \cup {"recovery"} \/ closers' = closers \cup {"check"}
      BY <1>7 DEF SourceRecovers, SourceCheckCloses, Resolved
    <2>3. ByWorkflow' => ByWorkflow
      BY <2>1, <2>2 DEF ByWorkflow
    <2> QED
      BY <1>7, <2>3, NothingCloses DEF SourceRecovers, SourceCheckCloses, Resolved, proofVars
  <1>2. CASE ConcludeDiagnosis
    <2>1. Silence \/ \E status \in {"degraded", "unknown", "planned", "failed"} : Outcome(status)
      <3>1. agent["diagnosis"].result \in DiagnosisResults
        BY <1>2 DEF ConcludeDiagnosis, WorkInv, ResultsOf, Jobs
      <3> QED
        BY <1>2, <3>1 DEF ConcludeDiagnosis, DiagnosisOutcome, DiagnosisResults
    <2>2. announced' => announced
      BY <2>1, OutcomeSays DEF Silence
    <2> QED
      BY <1>2, <2>2, NothingCloses DEF ByWorkflow, ConcludeDiagnosis, proofVars
  <1>3. ASSUME NEW p \in PlanIds, ChoosePlan(p) \/ ReportProgress(p)
        PROVE  RepairInv'
    BY <1>3, NothingCloses DEF ByWorkflow, ChoosePlan, ReportProgress
  <1>4. ASSUME NEW j \in Jobs, Launch(j) \/ Judge(j) \/ CompleteJob(j)
        PROVE  RepairInv'
    BY <1>4, NothingCloses DEF ByWorkflow, Launch, Judge, CompleteJob, proofVars
  <1>5. ASSUME NEW j \in Jobs, Progresses(j)
        PROVE  RepairInv'
    <2>1. progress \subseteq progress'
      BY <1>5 DEF Progresses
    <2>2. UNCHANGED <<incident, closers, verified, closing, recorded, announced>>
      BY <1>5 DEF Progresses
    <2> QED
      BY <2>1, <2>2, NothingCloses DEF ByWorkflow
  <1>6. ASSUME NEW j \in Jobs, Interrupted(j) \/ Blocked(j)
        PROVE  RepairInv'
    <2>1. Outcome("interrupted") \/ Outcome("blocked")
      BY <1>6 DEF Interrupted, Blocked
    <2>2. announced' => announced
      BY <2>1, OutcomeSays
    <2>3. UNCHANGED <<incident, closers, verified, closing, recorded, progress>>
      BY <1>6 DEF Interrupted, Blocked, proofVars
    <2> QED
      BY <2>2, <2>3, NothingCloses DEF ByWorkflow
  <1> QED
    BY <1>1, <1>2, <1>3, <1>4, <1>5, <1>6, <1>7

\* A verification is recorded, and the verifier asks for the gate.
LEMMA VerificationKeeps ==
    ASSUME RepairInv, NEW finding \in Findings, RecordVerification(finding)
    PROVE  RepairInv'
  <1>1. RepairTypes /\ IsJustified("verifier")
    BY DEF RepairInv, Resolvers
  <1>2. /\ verified' = Append(verified, finding) /\ Len(verified) < MaxVerifications
        /\ UNCHANGED <<incident, closers, recorded, progress, announced>>
    BY DEF RecordVerification
  <1>3. /\ verified' \in Seq(Findings) /\ Len(verified') = Len(verified) + 1
        /\ \A v \in Verifications : verified'[v] = verified[v]
    BY <1>1, <1>2 DEF RepairTypes, Verifications
  <1>4. Grows /\ Len(verified') \in Nat /\ Len(verified') <= MaxVerifications
    <2>1. Len(verified) \in Nat /\ MaxVerifications \in Nat
      BY <1>1, RepairAssumption DEF RepairTypes
    <2>2. Len(verified) <= Len(verified') /\ Len(verified') \in Nat /\ Len(verified') <= MaxVerifications
      BY <1>2, <1>3, <2>1
    <2> QED
      BY <1>2, <1>3, <2>2 DEF Grows
  <1>5. PICK x \in ClosingType :
           closing' = [closing EXCEPT !["verifier"] = x] /\ x.pc \in {"idle", "asked"}
    <2>1. Resting \in ClosingType /\ Resting.pc = "idle"
      BY DEF Resting, ClosingType
    <2>2. [pc |-> "asked", verified |-> Len(verified) + 1] \in ClosingType
      BY <1>1 DEF ClosingType, RepairTypes
    <2> QED
      BY <2>1, <2>2 DEF RecordVerification
  <1>6. /\ closing' \in [Resolvers -> ClosingType]
        /\ closing'["verifier"] = x
        /\ \A r \in Resolvers \ {"verifier"} : closing'[r] = closing[r]
    BY <1>1, <1>5 DEF RepairTypes, Resolvers
  <1>7. RepairTypes'
    BY <1>1, <1>2, <1>3, <1>4, <1>6 DEF RepairTypes
  <1>8. ClosedIsProven'
    BY <1>2, <1>4, StaysProven DEF ByWorkflow
  <1>9. ASSUME NEW r \in Resolvers
        PROVE  IsJustified(r)'
    <2>1. CASE r = "verifier"
      BY <1>5, <1>6, <2>1 DEF IsJustified
    <2>2. CASE r # "verifier"
      BY <1>4, <1>6, <2>2, StaysJustified
    <2> QED
      BY <2>1, <2>2
  <1> QED
    BY <1>7, <1>8, <1>9 DEF RepairInv

\* A resolver that changes only where it stands, or rests.
LEMMA ResolverRests ==
    ASSUME RepairInv, NEW r \in Resolvers, closing' = [closing EXCEPT ![r] = Resting],
           UNCHANGED <<incident, closers, verified, recorded, progress>>,
           announced' => announced \/ closing[r].pc = "closed"
    PROVE  RepairInv'
  <1>1. RepairTypes
    BY DEF RepairInv
  <1>2. Grows /\ Len(verified') \in Nat
    BY <1>1 DEF Grows, RepairTypes
  <1>3. Resting \in ClosingType /\ Resting.pc = "idle"
    BY DEF Resting, ClosingType
  <1>4. /\ closing' \in [Resolvers -> ClosingType] /\ closing'[r].pc = "idle"
        /\ \A q \in Resolvers \ {r} : closing'[q] = closing[q]
    BY <1>1, <1>3 DEF RepairTypes
  <1>5. RepairTypes'
    BY <1>1, <1>4 DEF RepairTypes
  <1>6. ClosedIsProven'
    BY <1>2, StaysProven DEF ByWorkflow
  <1>7. ASSUME NEW q \in Resolvers
        PROVE  IsJustified(q)'
    <2>1. CASE q = r
      BY <1>4, <2>1 DEF IsJustified
    <2>2. CASE q # r
      BY <1>2, <1>4, <2>2, StaysJustified
    <2> QED
      BY <2>1, <2>2
  <1> QED
    BY <1>5, <1>6, <1>7 DEF RepairInv

LEMMA GateStepKeeps ==
    ASSUME RepairInv, NEW r \in Resolvers, GateOpens(r), Proven(r),
           UNCHANGED <<incident, closers, verified, recorded, progress>>, announced' => announced
    PROVE  RepairInv'
  <1>1. RepairTypes
    BY DEF RepairInv
  <1>2. Grows /\ Len(verified') \in Nat
    BY <1>1 DEF Grows, RepairTypes
  <1>3. closing' \in [Resolvers -> ClosingType] /\ \A q \in Resolvers : IsJustified(q)'
    BY GateKeeps
  <1>4. RepairTypes'
    BY <1>1, <1>3 DEF RepairTypes
  <1>5. ClosedIsProven'
    BY <1>2, StaysProven DEF ByWorkflow
  <1> QED
    BY <1>3, <1>4, <1>5 DEF RepairInv

LEMMA RecordKeeps ==
    ASSUME RepairInv, NEW r \in Resolvers, RecordResolution(r)
    PROVE  RepairInv'
  <1>1. RepairTypes /\ IsJustified(r)
    BY DEF RepairInv
  <1>2. /\ closing[r].pc = "proven" /\ UNCHANGED <<incident, closers, verified, progress, announced>>
    BY DEF RecordResolution, proofVars
  <1>3. CASE closing' = [closing EXCEPT ![r] = Resting] /\ UNCHANGED recorded
    BY <1>2, <1>3, ResolverRests
  <1>4. CASE /\ recorded' = [recorded EXCEPT ![closing[r].verified] = r]
             /\ closing' = [closing EXCEPT ![r].pc = "recorded"]
    <2> DEFINE n == closing[r].verified
    <2>1. n \in Verifications /\ Proof /\ r # "operator" /\ verified[n] # "degraded" /\ n \in 1..MaxVerifications
      BY <1>1, <1>2, RepairAssumption DEF IsJustified, RepairTypes, Verifications
    <2>2. r # Nobody
      BY DEF Resolvers, Nobody
    <2>3. recorded' \in [1..MaxVerifications -> Resolvers \cup {Nobody}] /\ recorded'[n] = r
          /\ \A v \in 1..MaxVerifications : v # n => recorded'[v] = recorded[v]
      BY <1>1, <1>4, <2>1 DEF RepairTypes
    <2> DEFINE x == [closing[r] EXCEPT !.pc = "recorded"]
    <2>4. x \in ClosingType /\ x.pc = "recorded" /\ x.verified = n
      BY <1>1 DEF RepairTypes, ClosingType
    <2>5. closing' = [closing EXCEPT ![r] = x]
      BY <1>4
    <2> HIDE DEF x, n
    <2>6. /\ closing' \in [Resolvers -> ClosingType] /\ closing'[r] = x
          /\ \A q \in Resolvers \ {r} : closing'[q] = closing[q]
      BY <1>1, <2>4, <2>5 DEF RepairTypes
    <2>7. Grows /\ Len(verified') \in Nat /\ Verifications' = Verifications /\ (Proof <=> Proof')
      BY <1>1, <1>2, <2>2, <2>3 DEF Grows, RepairTypes, Verifications, Proof, HealthyVerificationMatches, Convinces
    <2>8. RepairTypes'
      BY <1>1, <1>2, <2>3, <2>6 DEF RepairTypes
    <2>9. ClosedIsProven'
      BY <1>2, <2>7, StaysProven DEF ByWorkflow
    <2>10. IsJustified(r)'
      BY <1>2, <2>1, <2>2, <2>3, <2>4, <2>6, <2>7 DEF IsJustified
    <2>11. \A q \in Resolvers \ {r} : IsJustified(q)'
      BY <2>6, <2>7, StaysJustified
    <2> QED
      BY <2>8, <2>9, <2>10, <2>11 DEF RepairInv
  <1> QED
    BY <1>3, <1>4 DEF RecordResolution

LEMMA TransitionKeeps ==
    ASSUME RepairInv, NEW r \in Resolvers, Transition(r)
    PROVE  RepairInv'
  <1>1. RepairTypes /\ IsJustified(r)
    BY DEF RepairInv
  <1>2. /\ closing[r].pc = "recorded" /\ incident' = "resolved" /\ closers' = closers \cup {r}
        /\ UNCHANGED <<verified, progress, recorded, announced>>
    BY DEF Transition, Resolved, proofVars
  <1>3. Proof
    BY <1>1, <1>2 DEF IsJustified
  <1>4. PICK x \in ClosingType :
           /\ closing' = [closing EXCEPT ![r] = x]
           /\ x.pc \in {"idle", "closed"}
           /\ x.pc = "closed" => r # "operator" /\ x.verified = closing[r].verified
    <2>1. Resting \in ClosingType /\ Resting.pc = "idle"
      BY DEF Resting, ClosingType
    <2>2. /\ [closing[r] EXCEPT !.pc = "closed"] \in ClosingType
          /\ [closing[r] EXCEPT !.pc = "closed"].pc = "closed"
          /\ [closing[r] EXCEPT !.pc = "closed"].verified = closing[r].verified
      BY <1>1 DEF RepairTypes, ClosingType
    <2>3. closing' = [closing EXCEPT ![r] =
             IF r = "operator" THEN Resting ELSE [closing[r] EXCEPT !.pc = "closed"]]
      BY DEF Transition
    <2> QED
      BY <2>1, <2>2, <2>3
  <1>5. /\ closing' \in [Resolvers -> ClosingType] /\ closing'[r] = x
        /\ \A q \in Resolvers \ {r} : closing'[q] = closing[q]
    BY <1>1, <1>4 DEF RepairTypes
  <1>6. Grows /\ Len(verified') \in Nat /\ Verifications' = Verifications /\ (Proof <=> Proof')
    BY <1>1, <1>2 DEF Grows, RepairTypes, Verifications, Proof, HealthyVerificationMatches, Convinces
  <1>7. RepairTypes'
    BY <1>1, <1>2, <1>5 DEF RepairTypes
  <1>8. ClosedIsProven'
    BY <1>2, <1>3, <1>6, StaysProven
  <1>9. IsJustified(r)'
    BY <1>1, <1>2, <1>4, <1>5, <1>6 DEF IsJustified
  <1>10. \A q \in Resolvers \ {r} : IsJustified(q)'
    BY <1>5, <1>6, StaysJustified
  <1> QED
    BY <1>7, <1>8, <1>9, <1>10 DEF RepairInv

LEMMA RepairStarts == RepairInit => RepairInv
  <1> SUFFICES ASSUME RepairInit PROVE RepairInv
    OBVIOUS
  <1>1. Resting \in ClosingType /\ Resting.pc = "idle"
    BY DEF Resting, ClosingType
  <1>2. RepairTypes
    <2>1. verified \in Seq(Findings) /\ Len(verified) <= MaxVerifications
      BY RepairAssumption DEF RepairInit
    <2> QED
      BY <1>1, <2>1 DEF RepairInit, RepairTypes
  <1>3. \A r \in Resolvers : IsJustified(r)
    BY <1>1 DEF RepairInit, IsJustified
  <1> QED
    BY <1>2, <1>3 DEF RepairInit, RepairInv, ClosedIsProven

LEMMA RepairKept == RepairInv /\ WorkInv /\ [RepairNext]_repairVars => RepairInv'
  <1> SUFFICES ASSUME RepairInv, WorkInv, [RepairNext]_repairVars PROVE RepairInv'
    OBVIOUS
  <1>1. CASE UNCHANGED repairVars
    BY <1>1, NothingCloses DEF ByWorkflow, repairVars
  <1>2. CASE VerifierCloses
    <2>1. "verifier" \in Resolvers /\ UNCHANGED <<incident, closers, verified, recorded, progress, announced>>
      BY <1>2 DEF VerifierCloses, proofVars, Resolvers
    <2> QED
      BY <1>2, <2>1, GateStepKeeps, ResolverRests DEF VerifierCloses
  <1>3. ASSUME NEW r \in Resolvers, AskToClose(r)
        PROVE  RepairInv'
    BY <1>3, GateStepKeeps DEF AskToClose, proofVars
  <1>4. ASSUME NEW r \in Resolvers, Announce(r)
        PROVE  RepairInv'
    <2>1. UNCHANGED <<incident, closers, verified, recorded, progress>> /\ closing[r].pc = "closed"
          /\ closing' = [closing EXCEPT ![r] = Resting]
      BY <1>4 DEF Announce, proofVars
    <2> QED
      BY <2>1, ResolverRests
  <1>5. CASE ConcludeRemediation
    <2>1. "agent" \in Resolvers /\ UNCHANGED <<incident, closers, verified, recorded, progress>>
      BY <1>5 DEF ConcludeRemediation, proofVars, Resolvers
    <2>2. CASE GateOpens("agent") /\ Silence /\ Proven("agent")
      BY <2>1, <2>2, GateStepKeeps DEF Silence
    <2>3. CASE UNCHANGED closing /\ (Silence \/ Outcome("unknown") \/ Outcome("failed"))
      BY <2>1, <2>3, NothingCloses, OutcomeSays DEF ByWorkflow, Silence
    <2>4. agent["remediation"].result \in RemediationResults
      BY <1>5 DEF ConcludeRemediation, WorkInv, ResultsOf, Jobs
    <2>5. CASE agent["remediation"].result \in {"degraded", "observing", "failed", "rejected"}
      BY <1>5, <2>3, <2>5 DEF ConcludeRemediation
    <2>6. CASE agent["remediation"].result = "repaired"
      BY <1>5, <2>2, <2>3, <2>6 DEF ConcludeRemediation
    <2> QED
      BY <2>4, <2>5, <2>6 DEF RemediationResults
  <1>6. CASE WorkerDies
    <2>1. "agent" \in Resolvers /\ UNCHANGED <<incident, closers, verified, recorded, progress, announced>>
          /\ closing' = [closing EXCEPT !["agent"] = Resting]
      BY <1>6 DEF WorkerDies, proofVars, Resolvers
    <2> QED
      BY <2>1, ResolverRests
  <1> QED
    BY <1>1, <1>2, <1>3, <1>4, <1>5, <1>6, QuietSteps, VerificationKeeps, RecordKeeps, TransitionKeeps
    DEF RepairNext

\* Whoever closes a health incident on the workflow's gate, and whatever is selected,
\* finished, measured by the source or found in between: there was progress and an
\* independent healthy verification, and what is announced was recorded and is closed
\* (resolve_health_incident).
THEOREM ClosingIsProven == RepairSpec => []ClosedIsProven
  <1>1. RepairInv => ClosedIsProven
    BY DEF RepairInv
  <1> QED
    BY RepairStarts, WorkStarts, RepairKept, WorkKept, <1>1, PTL DEF RepairSpec

(***************************************************************************)
(* The withheld card                                                       *)
(***************************************************************************)
JobType == [status : JobStatuses, tries : Nat]
\* A card that is cancelled, or withheld in spite of the decision to show it, waits for
\* the end of a mute or belongs to a closed incident.
CardFollows ==
    /\ first \in {"withheld", "queued", "sent", "cancelled"}
    /\ first = "cancelled" \/ (first = "withheld" /\ decision = "show")
          => muted \/ incident # "open"

\* A diagnosis that is queued or over is run by nobody, and one that was judged was
\* decided upon with the judgement.
DecisionInv ==
    /\ job \in [Jobs -> JobType]
    /\ DecidedWhenDiagnosed /\ CardFollows
    /\ job["diagnosis"].status \in {"queued", "sent", "failed"} => agent["diagnosis"].pc = "idle"
    /\ review /\ agent["diagnosis"].pc \in {"judged", "reported", "done"}
          => decision # "none" \/ agent["diagnosis"].result = "observing"

\* A decision is never taken back, a card that was sent stays sent.
DecisionStays ==
    /\ UNCHANGED review
    /\ decision # "none" => decision' # "none"
    /\ first = "sent" => first' = "sent"
    /\ CardFollows'

LEMMA CardStays ==
    ASSUME DecisionInv, UNCHANGED <<incident, cardVars>>
    PROVE  DecisionStays
  BY DEF DecisionInv, DecisionStays, CardFollows, cardVars

LEMMA OutcomeDecides ==
    ASSUME DecisionInv, UNCHANGED <<incident, review, muted>>, NEW status,
           Outcome(status) \/ Silence
    PROVE  /\ DecisionStays
           /\ Outcome(status) /\ status = "interrupted" /\ review
                => decision' # "none" \/ first' = "sent"
  BY DEF DecisionInv, CardFollows, Outcome, ReviewPending, Silence, FailsOpen, FirstAfter, DecisionStays

\* Nothing about the diagnosis changes.
LEMMA DiagnosisKept ==
    ASSUME DecisionInv, DecisionStays, job' \in [Jobs -> JobType],
           job'["diagnosis"].status \in {job["diagnosis"].status, "cancelled", "sending"},
           agent'["diagnosis"] = agent["diagnosis"]
    PROVE  DecisionInv'
  BY DEF DecisionInv, DecidedWhenDiagnosed, DecisionStays, CardFollows

\* The diagnosis is run by nobody any more.
LEMMA DiagnosisLeft ==
    ASSUME DecisionInv, DecisionStays, job' \in [Jobs -> JobType],
           agent'["diagnosis"].pc = "idle",
           review /\ job'["diagnosis"].status \in {"sent", "failed"}
              => decision' # "none" \/ agent'["diagnosis"].result = "observing" \/ first' = "sent"
    PROVE  DecisionInv'
  BY DEF DecisionInv, DecidedWhenDiagnosed, DecisionStays, CardFollows

LEMMA JobFields ==
    ASSUME DecisionInv, NEW j \in Jobs, NEW status \in JobStatuses,
           job' = [job EXCEPT ![j].status = status]
    PROVE  /\ job' \in [Jobs -> JobType] /\ job'[j].status = status
           /\ \A k \in Jobs \ {j} : job'[k] = job[k]
  <1> DEFINE x == [job[j] EXCEPT !.status = status]
  <1>1. job[j] \in JobType
    BY DEF DecisionInv
  <1>2. x \in JobType /\ x.status = status
    BY <1>1 DEF JobType
  <1>3. job' = [job EXCEPT ![j] = x]
    OBVIOUS
  <1> HIDE DEF x
  <1> QED
    BY <1>2, <1>3 DEF DecisionInv

\* The steps of a job's worker.
LEMMA JobDecides ==
    ASSUME WorkInv, DecisionInv, NEW j \in Jobs,
           \/ Launch(j) \/ Judge(j) \/ Progresses(j) \/ CompleteJob(j)
           \/ Interrupted(j) \/ Blocked(j)
    PROVE  DecisionInv'
  <1>a. /\ job \in [Jobs -> JobType] /\ agent \in [Jobs -> RunType] /\ "diagnosis" \in Jobs
        /\ NoRun.pc = "idle"
    BY DEF DecisionInv, WorkInv, Jobs, NoRun
  <1>1. CASE Launch(j)
    <2>1. [status |-> "sending", tries |-> job[j].tries + 1] \in JobType
      <3>1. job[j] \in JobType
        BY <1>a
      <3> QED
        BY <3>1 DEF JobType, JobStatuses
    <2>2. /\ job' = [job EXCEPT ![j] = [status |-> "sending", tries |-> job[j].tries + 1]]
          /\ agent' = [agent EXCEPT ![j] = [pc |-> "launched", result |-> "none"]]
          /\ UNCHANGED <<incident, cardVars>>
      BY <1>1 DEF Launch
    <2>3. job' \in [Jobs -> JobType] /\ DecisionStays
      BY <1>a, <2>1, <2>2, CardStays
    <2>4. CASE j = "diagnosis"
      BY <1>a, <2>2, <2>3, <2>4 DEF DecisionInv, DecidedWhenDiagnosed, DecisionStays, CardFollows
    <2>5. CASE j # "diagnosis"
      BY <1>a, <2>2, <2>3, <2>5, DiagnosisKept
    <2> QED
      BY <2>4, <2>5
  <1>2. CASE Judge(j)
    <2>1. PICK result \in ResultsOf(j), d \in {"show", "hide"} :
             /\ agent' = [agent EXCEPT ![j] = [pc |-> "judged", result |-> result]]
             /\ IF j = "diagnosis" /\ review /\ result # "observing"
                THEN decision' = d /\ first' = FirstAfter(d)
                ELSE UNCHANGED <<decision, first>>
      BY <1>2 DEF Judge
    <2>2. UNCHANGED <<job, incident, review, muted>> /\ agent[j].pc = "launched"
      BY <1>2 DEF Judge
    <2>3. DecisionStays
      BY <2>1, <2>2 DEF DecisionInv, DecisionStays, CardFollows, FirstAfter
    <2>4. CASE j = "diagnosis"
      <3>1. agent'["diagnosis"].pc = "judged" /\ agent'["diagnosis"].result = result
        BY <1>a, <2>1, <2>4
      <3>2. job["diagnosis"].status \notin {"queued", "sent", "failed"}
        BY <2>2, <2>4 DEF DecisionInv
      <3>3. review /\ result # "observing" => decision' # "none"
        BY <2>1, <2>4
      <3> QED
        BY <2>2, <2>3, <3>1, <3>2, <3>3 DEF DecisionInv, DecidedWhenDiagnosed, DecisionStays, CardFollows
    <2>5. CASE j # "diagnosis"
      BY <1>a, <2>1, <2>2, <2>3, <2>5, DiagnosisKept
    <2> QED
      BY <2>4, <2>5
  <1>3. CASE Progresses(j)
    <2>1. UNCHANGED <<job, incident, cardVars>> /\ agent[j].pc = "judged"
      BY <1>3 DEF Progresses
    <2>2. DecisionStays
      BY <2>1, CardStays
    <2>3. PICK result \in DiagnosisResults \cup {"none"} :
             /\ agent' = [agent EXCEPT ![j].pc = "reported", ![j].result = result]
             /\ result = agent[j].result \/ Executed(j)
      <3>1. CASE agent' = [agent EXCEPT ![j].pc = "reported"]
        <4>1. agent[j] \in RunType /\ agent[j].result \in DiagnosisResults \cup {"none"}
          BY <1>a DEF RunType
        <4>2. [agent[j] EXCEPT !.pc = "reported", !.result = agent[j].result]
                 = [agent[j] EXCEPT !.pc = "reported"]
          BY <4>1 DEF RunType
        <4> QED
          BY <1>a, <3>1, <4>1, <4>2
      <3>2. CASE agent' = [agent EXCEPT ![j].pc = "reported",
                                        ![j].result = IF Executed(j) THEN "rejected" ELSE agent[j].result]
        <4>1. agent[j].result \in DiagnosisResults \cup {"none"} /\ "rejected" \in DiagnosisResults
          BY <1>a DEF RunType, DiagnosisResults
        <4>2. CASE Executed(j)
          BY <3>2, <4>1, <4>2
        <4>3. CASE ~Executed(j)
          BY <3>2, <4>1, <4>3
        <4> QED
          BY <4>2, <4>3
      <3> QED
        BY <1>3, <3>1, <3>2 DEF Progresses
    <2>4. CASE j = "diagnosis"
      <3>1. agent'["diagnosis"].pc = "reported" /\ agent'["diagnosis"].result = result
        BY <1>a, <2>3, <2>4 DEF RunType
      <3>2. result = agent["diagnosis"].result \/ agent["diagnosis"].result # "observing"
        BY <2>3, <2>4 DEF Executed
      <3>3. job["diagnosis"].status \notin {"queued", "sent", "failed"}
        BY <2>1, <2>4 DEF DecisionInv
      <3> QED
        BY <2>1, <2>2, <2>4, <3>1, <3>2, <3>3 DEF DecisionInv, DecidedWhenDiagnosed, DecisionStays, CardFollows
    <2>5. CASE j # "diagnosis"
      BY <1>a, <2>1, <2>2, <2>3, <2>5, DiagnosisKept
    <2> QED
      BY <2>4, <2>5
  <1>4. CASE CompleteJob(j)
    <2>1. /\ UNCHANGED <<incident, cardVars>> /\ agent[j].pc = "done"
          /\ agent' = [agent EXCEPT ![j] = IF agent[j].result = "observing"
                                           THEN [NoRun EXCEPT !.result = "observing"] ELSE NoRun]
          /\ job' = [job EXCEPT ![j].status =
                        IF job[j].status = "sending" THEN Ended(j) ELSE job[j].status]
      BY <1>4 DEF CompleteJob
    <2>2. DecisionStays
      BY <2>1, CardStays
    <2> DEFINE status == IF job[j].status = "sending" THEN Ended(j) ELSE job[j].status
    <2>3. status \in JobStatuses
      BY <1>a DEF Ended, JobStatuses, JobType
    <2>4. job' \in [Jobs -> JobType] /\ \A k \in Jobs \ {j} : job'[k] = job[k]
          /\ job'[j].status = status
      <3>1. job' = [job EXCEPT ![j].status = status]
        BY <2>1
      <3> HIDE DEF status
      <3> QED
        BY <2>3, <3>1, JobFields
    <2>5. CASE j = "diagnosis"
      <3>1. agent["diagnosis"].result # "observing" /\ review => decision # "none"
        BY <2>1, <2>5 DEF DecisionInv, cardVars
      <3>2. /\ agent'["diagnosis"].pc = "idle"
            /\ agent["diagnosis"].result = "observing" => agent'["diagnosis"].result = "observing"
        BY <1>a, <2>1, <2>5 DEF NoRun
      <3>3. review => decision' # "none" \/ agent'["diagnosis"].result = "observing"
        BY <2>2, <3>1, <3>2 DEF DecisionStays
      <3> HIDE DEF status
      <3> QED
        BY <2>2, <2>4, <3>2, <3>3, DiagnosisLeft
    <2>6. CASE j # "diagnosis"
      BY <1>a, <2>1, <2>2, <2>4, <2>6, DiagnosisKept
    <2> QED
      BY <2>5, <2>6
  <1>5. CASE Interrupted(j)
    <2>1. /\ Outcome("interrupted") /\ UNCHANGED <<incident, review, muted>>
          /\ agent' = [agent EXCEPT ![j] = NoRun]
      BY <1>5 DEF Interrupted
    <2>2. DecisionStays /\ (review => decision' # "none" \/ first' = "sent")
      BY <2>1, OutcomeDecides
    <2>3. PICK status \in JobStatuses : job' = [job EXCEPT ![j].status = status]
      <3>1. job[j].status \in JobStatuses /\ "queued" \in JobStatuses /\ "failed" \in JobStatuses
        BY <1>a DEF JobType, JobStatuses
      <3>2. job' = [job EXCEPT ![j].status = CASE job[j].status # "sending" -> job[j].status
                                      [] job[j].status = "sending" /\ job[j].tries < MaxTries -> "queued"
                                      [] OTHER -> "failed"]
        BY <1>5 DEF Interrupted
      <3>3. CASE job[j].status # "sending"
        BY <3>1, <3>2, <3>3
      <3>4. CASE job[j].status = "sending" /\ job[j].tries < MaxTries
        BY <3>1, <3>2, <3>4
      <3>5. CASE job[j].status = "sending" /\ ~(job[j].tries < MaxTries)
        BY <3>1, <3>2, <3>5
      <3> QED
        BY <3>3, <3>4, <3>5
    <2>4. job' \in [Jobs -> JobType] /\ \A k \in Jobs \ {j} : job'[k] = job[k]
      BY <2>3, JobFields
    <2>5. CASE j = "diagnosis"
      BY <1>a, <2>1, <2>2, <2>4, <2>5, DiagnosisLeft
    <2>6. CASE j # "diagnosis"
      BY <1>a, <2>1, <2>2, <2>4, <2>6, DiagnosisKept
    <2> QED
      BY <2>5, <2>6
  <1>6. CASE Blocked(j)
    <2>1. /\ Outcome("blocked") /\ UNCHANGED <<incident, review, muted>>
          /\ agent' = [agent EXCEPT ![j] = NoRun]
          /\ job' = [job EXCEPT ![j].status = "cancelled"]
      BY <1>6 DEF Blocked
    <2>2. DecisionStays
      BY <2>1, OutcomeDecides
    <2>3. /\ job' \in [Jobs -> JobType] /\ \A k \in Jobs \ {j} : job'[k] = job[k]
          /\ job'[j].status = "cancelled"
      BY <2>1, JobFields DEF JobStatuses
    <2>4. CASE j = "diagnosis"
      BY <1>a, <2>1, <2>2, <2>3, <2>4, DiagnosisLeft
    <2>5. CASE j # "diagnosis"
      BY <1>a, <2>1, <2>2, <2>3, <2>5, DiagnosisKept
    <2> QED
      BY <2>4, <2>5
  <1> QED
    BY <1>1, <1>2, <1>3, <1>4, <1>5, <1>6

\* Whoever resolves the incident withdraws its card and its jobs.
LEMMA ResolvedDecides ==
    ASSUME DecisionInv, NEW by, Resolved(by), UNCHANGED <<agent, review, muted, decision>>
    PROVE  DecisionInv'
  <1>1. job \in [Jobs -> JobType] /\ "diagnosis" \in Jobs
    BY DEF DecisionInv, Jobs
  <1>2. job' = [j \in Jobs |-> [job[j] EXCEPT !.status =
                   IF job[j].status \in {"queued", "sending"} THEN "cancelled" ELSE job[j].status]]
    BY DEF Resolved
  <1>3. ASSUME NEW j \in Jobs
        PROVE  job'[j] \in JobType /\ job'[j].status \in {job[j].status, "cancelled"}
    <2>1. job[j] \in JobType
      BY <1>1
    <2>2. job'[j] = [job[j] EXCEPT !.status =
                      IF job[j].status \in {"queued", "sending"} THEN "cancelled" ELSE job[j].status]
      BY <1>2
    <2> QED
      BY <2>1, <2>2 DEF JobType, JobStatuses
  <1>4. job' \in [Jobs -> JobType]
    BY <1>2, <1>3
  <1>5. DecisionStays
    BY DEF Resolved, DecisionInv, DecisionStays, CardFollows
  <1> QED
    BY <1>1, <1>3, <1>4, <1>5, DiagnosisKept

\* The remaining steps that touch a job or its worker.
LEMMA ClosingDecides ==
    ASSUME WorkInv, DecisionInv,
           \/ SourceRecovers \/ SourceCheckCloses
           \/ \E r \in Resolvers : RecordResolution(r) \/ Transition(r) \/ Announce(r)
           \/ ConcludeDiagnosis \/ ConcludeRemediation \/ WorkerDies
           \/ \E p \in PlanIds : ChoosePlan(p)
    PROVE  DecisionInv'
  <1>a. /\ job \in [Jobs -> JobType] /\ agent \in [Jobs -> RunType]
        /\ "diagnosis" \in Jobs /\ "remediation" \in Jobs /\ NoRun.pc = "idle"
    BY DEF DecisionInv, WorkInv, Jobs, NoRun
  <1>1. ASSUME NEW r \in Resolvers, RecordResolution(r)
        PROVE  DecisionInv'
    <2>1. UNCHANGED <<job, incident, cardVars>> /\ agent'["diagnosis"] = agent["diagnosis"]
      BY <1>a, <1>1 DEF RecordResolution, Refused
    <2> QED
      BY <1>a, <2>1, CardStays, DiagnosisKept
  <1>2. ASSUME NEW r \in Resolvers, Transition(r)
        PROVE  DecisionInv'
    BY <1>2, ResolvedDecides DEF Transition
  <1>8. CASE SourceRecovers \/ SourceCheckCloses
    BY <1>8, ResolvedDecides DEF SourceRecovers, SourceCheckCloses
  <1>3. ASSUME NEW r \in Resolvers, Announce(r)
        PROVE  DecisionInv'
    <2>1. UNCHANGED <<job, incident, review, muted>> /\ agent'["diagnosis"] = agent["diagnosis"]
          /\ Outcome("resolved")
      BY <1>a, <1>3 DEF Announce, Accepted
    <2> QED
      BY <1>a, <2>1, OutcomeDecides, DiagnosisKept
  <1>4. CASE ConcludeDiagnosis
    <2>1. UNCHANGED <<job, incident, review, muted>> /\ agent["diagnosis"].pc = "reported"
          /\ agent' = [agent EXCEPT !["diagnosis"].pc = "done"]
      BY <1>4 DEF ConcludeDiagnosis
    <2>2. DecisionStays
      <3>1. agent["diagnosis"].result \in DiagnosisResults
        BY <1>a, <2>1 DEF WorkInv, ResultsOf
      <3>2. Silence \/ \E status \in {"degraded", "unknown", "planned", "failed"} : Outcome(status)
        BY <1>4, <3>1 DEF ConcludeDiagnosis, DiagnosisOutcome, DiagnosisResults
      <3> QED
        BY <2>1, <3>2, OutcomeDecides
    <2>3. agent'["diagnosis"].pc = "done" /\ agent'["diagnosis"].result = agent["diagnosis"].result
      BY <1>a, <2>1 DEF RunType
    <2> QED
      BY <2>1, <2>2, <2>3 DEF DecisionInv, DecidedWhenDiagnosed, DecisionStays, CardFollows
  <1>5. CASE ConcludeRemediation
    <2>1. UNCHANGED <<job, incident, review, muted>> /\ agent["remediation"].pc = "reported"
      BY <1>5 DEF ConcludeRemediation
    <2>2. agent["remediation"].result \in RemediationResults
      BY <1>a, <2>1 DEF WorkInv, ResultsOf
    <2>3. /\ agent'["diagnosis"] = agent["diagnosis"]
          /\ Silence \/ Outcome("unknown") \/ Outcome("failed")
      <3>1. CASE agent["remediation"].result = "degraded"
        BY <1>5, <1>a, <3>1 DEF ConcludeRemediation
      <3>2. CASE agent["remediation"].result = "repaired" /\ GateOpens("agent")
        BY <1>5, <1>a, <3>2 DEF ConcludeRemediation
      <3>3. CASE agent["remediation"].result = "repaired" /\ ~GateOpens("agent")
        BY <1>5, <1>a, <3>3 DEF ConcludeRemediation
      <3>4. CASE agent["remediation"].result \in {"observing", "failed", "rejected"}
        BY <1>5, <1>a, <3>4 DEF ConcludeRemediation
      <3> QED
        BY <2>2, <3>1, <3>2, <3>3, <3>4 DEF RemediationResults
    <2> QED
      BY <1>a, <2>1, <2>3, OutcomeDecides, DiagnosisKept
  <1>6. CASE WorkerDies
    <2>1. /\ UNCHANGED <<job, incident, cardVars>>
          /\ agent'["diagnosis"] = IF agent["diagnosis"].pc = "idle" THEN agent["diagnosis"] ELSE NoRun
      BY <1>a, <1>6 DEF WorkerDies
    <2>2. DecisionStays
      BY <2>1, CardStays
    <2>3. CASE agent["diagnosis"].pc = "idle"
      BY <1>a, <2>1, <2>2, <2>3, DiagnosisKept
    <2>4. CASE agent["diagnosis"].pc # "idle"
      <3>1. job["diagnosis"].status \notin {"sent", "failed"}
        BY <2>4 DEF DecisionInv
      <3> QED
        BY <1>a, <2>1, <2>2, <2>4, <3>1, DiagnosisLeft
    <2> QED
      BY <2>3, <2>4
  <1>7. ASSUME NEW p \in PlanIds, ChoosePlan(p)
        PROVE  DecisionInv'
    <2>1. /\ UNCHANGED <<agent, incident, cardVars>>
          /\ job' = [job EXCEPT !["remediation"].status = "queued"]
      BY <1>7 DEF ChoosePlan
    <2>2. job' \in [Jobs -> JobType] /\ job'["diagnosis"] = job["diagnosis"]
      BY <1>a, <2>1, JobFields DEF JobStatuses
    <2> QED
      BY <1>a, <2>1, <2>2, CardStays, DiagnosisKept
  <1> QED
    BY <1>1, <1>2, <1>3, <1>4, <1>5, <1>6, <1>7, <1>8

LEMMA DecisionStarts == RepairInit => DecisionInv
  <1>1. \A j \in Jobs : [status |-> IF j = "diagnosis" THEN "queued" ELSE "absent", tries |-> 0] \in JobType
    BY DEF JobType, JobStatuses
  <1>2. "diagnosis" \in Jobs /\ NoRun.pc = "idle"
    BY DEF Jobs, NoRun
  <1> QED
    BY <1>1, <1>2 DEF RepairInit, DecisionInv, DecidedWhenDiagnosed, CardFollows

LEMMA DecisionKept == WorkInv /\ DecisionInv /\ [RepairNext]_repairVars => DecisionInv'
  <1> SUFFICES ASSUME WorkInv, DecisionInv, [RepairNext]_repairVars PROVE DecisionInv'
    OBVIOUS
  <1>1. ASSUME UNCHANGED <<job, agent>>, DecisionStays
        PROVE  DecisionInv'
    BY <1>1 DEF DecisionInv, DecidedWhenDiagnosed, DecisionStays, CardFollows
  <1>2. CASE SendFirst \/ AskOperator \/ Mute \/ Unmute \/ OfferPlans
    <2>1. UNCHANGED <<job, agent, incident, review, decision>>
      BY <1>2 DEF SendFirst, AskOperator, Mute, Unmute, OfferPlans
    <2>2. /\ first = "sent" => first' = "sent"
          /\ (first' \in {first, "queued", "sent"} /\ muted' = muted) \/ Mute \/ Unmute
      BY <1>2 DEF SendFirst, AskOperator, Mute, Unmute, OfferPlans, Dormant
    <2>3. CardFollows
      BY DEF DecisionInv
    <2>4. CardFollows'
      <3>1. CASE first' \in {first, "queued", "sent"} /\ muted' = muted
        BY <2>1, <2>3, <3>1 DEF CardFollows
      <3>2. CASE Mute
        BY <2>1, <2>3, <3>2 DEF CardFollows, Mute
      <3>3. CASE Unmute
        BY <2>1, <2>3, <3>3 DEF CardFollows, Unmute, Dormant
      <3> QED
        BY <2>2, <3>1, <3>2, <3>3
    <2>5. DecisionStays
      BY <2>1, <2>2, <2>4 DEF DecisionStays
    <2> QED
      BY <1>1, <2>1, <2>5
  <1>3. CASE \/ DeclareFinished \/ VerifierCloses \/ UNCHANGED repairVars
             \/ \E p \in PlanIds : ReportProgress(p)
             \/ \E finding \in Findings : RecordVerification(finding)
             \/ \E r \in Resolvers : AskToClose(r)
    <2>1. UNCHANGED <<job, agent, incident, cardVars>>
      BY <1>3 DEF DeclareFinished, VerifierCloses, ReportProgress, RecordVerification,
         AskToClose, repairVars, cardVars
    <2> QED
      BY <1>1, <2>1, CardStays
  <1> QED
    BY <1>2, <1>3, JobDecides, ClosingDecides DEF RepairNext

\* By the time the diagnosis is over a withheld card is decided upon, or was brought out
\* by plans, by a question or at the end of a mute, whatever closes the incident or kills
\* the worker meanwhile; and a decision to show it brings it out
\* (record_agent_job_result, schedule_health_outcome, set_incident_notifications_muted).
THEOREM WithheldCardIsDecided == RepairSpec => []DecidedWhenDiagnosed
  <1>1. DecisionInv => DecidedWhenDiagnosed
    BY DEF DecisionInv
  <1> QED
    BY DecisionStarts, WorkStarts, DecisionKept, WorkKept, <1>1, PTL DEF RepairSpec

(***************************************************************************)
(* TelegramInteractions                                                    *)
(***************************************************************************)
PollerType == [pc : {"idle", "elected", "next", "complete"} \cup ApplyingPcs,
               at : Nat, upto : Nat, row : Nat]
UpdateTypes ==
    /\ Len(script) \in Nat
    /\ offset \in Nat
    /\ poller \in [Pollers -> PollerType]
    /\ handled \in [Updates -> Nat] /\ posted \in [Updates -> Nat]

\* An update is settled if it was applied, or excused.
IsSettled(u) == handled[u] = 1 \/ u \in excused
Applies(p, u) == poller[p].at = u /\ poller[p].pc \in ApplyingPcs

\* A claimed update is settled or is being applied by one poller, who found it
\* unapplied; one that may be applied again changed nothing, or its reply failed.
UpdateIsOwned(u) ==
    /\ handled[u] <= 1
    /\ u \in claimed => IsSettled(u) \/ \E p \in Pollers : Applies(p, u)
    /\ \A p, q \in Pollers : Applies(p, u) /\ Applies(q, u) => p = q
    /\ \A p \in Pollers : Applies(p, u) => u \in claimed /\ handled[u] = 0
    /\ posted[u] > 1 => u \in unanswered
    /\ u \notin claimed => handled[u] = 0 /\ (posted[u] = 0 \/ u \in unanswered)
    /\ \A p \in Pollers : Applies(p, u) /\ poller[p].pc # "reply" => posted[u] = 0 \/ u \in unanswered

\* A poller works on an update all predecessors of which are settled.
PollerIsInOrder(p) ==
    poller[p].pc \notin {"idle", "elected"} =>
        /\ poller[p].at \in 1..poller[p].upto /\ poller[p].upto <= Len(script)
        /\ \A u \in 1..poller[p].at - 1 : IsSettled(u)
        /\ poller[p].pc = "complete" => IsSettled(poller[p].at)

UpdateInv ==
    /\ UpdateTypes
    /\ offset \in 1..Len(script) + 1
    /\ \A u \in 1..offset - 1 : IsSettled(u)
    /\ \A u \in Updates : UpdateIsOwned(u)
    /\ \A p \in Pollers : PollerIsInOrder(p)

\* At most the newest diagnosis is queued, and whoever inserts the next one found none.
DiagnosisInv ==
    /\ diagnosis \in Seq(DiagnosisStatuses)
    /\ poller \in [Pollers -> PollerType]
    /\ \A g \in DOMAIN diagnosis : diagnosis[g] = "queued" => g = Len(diagnosis)
    /\ \A p \in Pollers : poller[p].pc = "insert" =>
          /\ poller[p].row <= Len(diagnosis) + 1
          /\ poller[p].row = Len(diagnosis) + 1 =>
                \A g \in DOMAIN diagnosis : diagnosis[g] # "queued"

LEMMA PollerUpdates ==
    ASSUME NEW x \in PollerType, NEW pc \in {"idle", "elected", "next", "complete"} \cup ApplyingPcs
    PROVE  /\ [x EXCEPT !.pc = pc] \in PollerType
           /\ [x EXCEPT !.pc = pc].pc = pc
           /\ [x EXCEPT !.pc = pc].at = x.at
           /\ [x EXCEPT !.pc = pc].upto = x.upto
           /\ [x EXCEPT !.pc = pc].row = x.row
  BY DEF PollerType

\* What a step that only moves a poller through its handler leaves alone.
LEMMA GoesMoves ==
    ASSUME poller \in [Pollers -> PollerType], NEW p \in Pollers,
           NEW pc \in {"idle", "elected", "next", "complete"} \cup ApplyingPcs, Goes(p, pc)
    PROVE  /\ poller' \in [Pollers -> PollerType]
           /\ poller'[p].pc = pc /\ poller'[p].at = poller[p].at
           /\ poller'[p].upto = poller[p].upto /\ poller'[p].row = poller[p].row
           /\ \A q \in Pollers \ {p} : poller'[q] = poller[q]
  <1>1. poller[p] \in PollerType
    OBVIOUS
  <1>2. poller' = [poller EXCEPT ![p] = [poller[p] EXCEPT !.pc = pc]]
    BY DEF Goes
  <1> QED
    BY <1>1, <1>2, PollerUpdates

LEMMA WaitingIsTyped == Waiting \in PollerType /\ Waiting.pc = "idle"
  BY DEF Waiting, PollerType

\* What a poller's step leaves alone, as far as the updates are concerned.
OnlyPoller(p) ==
    /\ UNCHANGED <<script, posted, unanswered>>
    /\ poller' \in [Pollers -> PollerType]
    /\ \A q \in Pollers \ {p} : poller'[q] = poller[q]

\* The kinds of step a handler takes: to the next call, to its end, or out of it.
MovesOn(p) ==
    /\ OnlyPoller(p) /\ UNCHANGED <<offset, claimed, handled, excused>>
    /\ poller[p].pc \in ApplyingPcs /\ poller'[p].pc \in ApplyingPcs
    /\ poller[p].pc # "reply"
    /\ poller'[p].at = poller[p].at /\ poller'[p].upto = poller[p].upto
Finishes(p) ==
    /\ OnlyPoller(p) /\ UNCHANGED <<offset, claimed, excused>>
    /\ poller[p].pc \in ApplyingPcs /\ poller'[p].pc = "complete"
    /\ poller'[p].at = poller[p].at /\ poller'[p].upto = poller[p].upto
    /\ handled' = [handled EXCEPT ![poller[p].at] = @ + 1]
GivesUp(p) ==
    /\ UNCHANGED <<script, offset, posted, handled, excused>>
    /\ poller[p].pc \in ApplyingPcs
    /\ claimed' = claimed \ {poller[p].at}
    /\ poller' = [poller EXCEPT ![p] = Waiting]
    /\ unanswered' = unanswered \/ unanswered' = unanswered \cup {poller[p].at}
    /\ poller[p].pc = "reply" => poller[p].at \in unanswered'

\* The update a handler is about.
LEMMA AppliedUpdate ==
    ASSUME UpdateInv, NEW p \in Pollers, poller[p].pc \in ApplyingPcs
    PROVE  /\ poller[p].at \in Updates /\ Applies(p, poller[p].at)
           /\ poller[p].at \in claimed /\ handled[poller[p].at] = 0
           /\ \A q \in Pollers : Applies(q, poller[p].at) => q = p
           /\ poller[p].pc # "reply" => posted[poller[p].at] = 0 \/ poller[p].at \in unanswered
  <1>1. poller[p] \in PollerType /\ PollerIsInOrder(p) /\ Len(script) \in Nat
    BY DEF UpdateInv, UpdateTypes
  <1>2. poller[p].at \in 1..poller[p].upto /\ poller[p].upto <= Len(script)
    BY <1>1 DEF PollerIsInOrder, ApplyingPcs
  <1>3. poller[p].upto \in Nat
    BY <1>1 DEF PollerType
  <1>4. poller[p].at \in Updates /\ Applies(p, poller[p].at)
    BY <1>1, <1>2, <1>3 DEF Updates, Applies
  <1> QED
    BY <1>4 DEF UpdateInv, UpdateIsOwned

LEMMA QuietUpdates ==
    ASSUME UpdateInv,
           UNCHANGED <<script, offset, claimed, poller, handled, posted, excused, unanswered>>
    PROVE  UpdateInv'
  BY DEF UpdateInv, UpdateTypes, Updates, IsSettled, Applies, UpdateIsOwned, PollerIsInOrder

LEMMA MovingOn ==
    ASSUME UpdateInv, NEW p \in Pollers, MovesOn(p)
    PROVE  UpdateInv'
  <1> USE DEF MovesOn, OnlyPoller
  <1>1. UpdateTypes'
    BY DEF UpdateInv, UpdateTypes, Updates
  <1>2. ASSUME NEW u \in Updates PROVE UpdateIsOwned(u)'
    <2>1. UpdateIsOwned(u)
      BY DEF UpdateInv
    <2>2. \A q \in Pollers : Applies(q, u)' <=> Applies(q, u)
      BY DEF Applies
    <2>3. IsSettled(u)' <=> IsSettled(u)
      BY DEF IsSettled
    <2>4. \A q \in Pollers : Applies(q, u)' /\ poller'[q].pc # "reply" =>
             Applies(q, u) /\ poller[q].pc # "reply"
      BY <2>2
    <2> QED
      BY <2>1, <2>2, <2>3, <2>4 DEF UpdateIsOwned
  <1>3. ASSUME NEW q \in Pollers PROVE PollerIsInOrder(q)'
    <2>1. PollerIsInOrder(q)
      BY DEF UpdateInv
    <2> QED
      BY <2>1 DEF PollerIsInOrder, IsSettled, ApplyingPcs
  <1> QED
    BY <1>1, <1>2, <1>3 DEF UpdateInv, Updates, IsSettled

LEMMA Finishing ==
    ASSUME UpdateInv, NEW p \in Pollers, Finishes(p)
    PROVE  UpdateInv'
  <1> USE DEF Finishes, OnlyPoller
  <1> DEFINE w == poller[p].at
  <1>1. w \in Updates /\ Applies(p, w) /\ handled[w] = 0 /\ handled'[w] = 1
    BY AppliedUpdate DEF UpdateInv, UpdateTypes
  <1>2. UpdateTypes'
    BY <1>1 DEF UpdateInv, UpdateTypes, Updates
  <1>3. \A u \in Updates : u # w => handled'[u] = handled[u]
    BY DEF UpdateInv, UpdateTypes
  <1>4. \A u \in Updates : IsSettled(u) => IsSettled(u)'
    BY <1>1, <1>3 DEF IsSettled
  <1>5. \A q \in Pollers, u \in Updates : Applies(q, u)' <=> Applies(q, u) /\ q # p
    BY DEF Applies, ApplyingPcs
  <1>6. ASSUME NEW u \in Updates PROVE UpdateIsOwned(u)'
    <2>1. UpdateIsOwned(u)
      BY DEF UpdateInv
    <2>2. \A q \in Pollers : Applies(q, u)' => poller'[q] = poller[q]
      BY <1>5
    <2>3. CASE u = w
      <3>1. \A q \in Pollers : ~Applies(q, u)'
        BY <2>1, <2>3, <1>1, <1>5 DEF UpdateIsOwned
      <3>2. IsSettled(u)'
        BY <2>3, <1>1 DEF IsSettled
      <3>3. u \in claimed
        BY <2>1, <2>3, <1>1 DEF UpdateIsOwned
      <3> QED
        BY <2>1, <2>3, <3>1, <3>2, <3>3, <1>1 DEF UpdateIsOwned
    <2>4. CASE u # w
      <3>1. \A q \in Pollers : Applies(q, u)' <=> Applies(q, u)
        BY <1>5, <2>4 DEF Applies
      <3> QED
        BY <2>1, <2>2, <2>4, <3>1, <1>3, <1>4 DEF UpdateIsOwned
    <2> QED
      BY <2>3, <2>4
  <1>7. ASSUME NEW q \in Pollers PROVE PollerIsInOrder(q)'
    <2>1. PollerIsInOrder(q) /\ poller[q] \in PollerType
      BY DEF UpdateInv, UpdateTypes
    <2>2. poller[q].pc \notin {"idle", "elected"} =>
             \A u \in 1..poller[q].at : u \in Updates
      BY <2>1 DEF PollerIsInOrder, Updates, UpdateInv, UpdateTypes, PollerType
    <2>3. CASE q = p
      BY <2>1, <2>2, <2>3, <1>1, <1>4 DEF PollerIsInOrder, IsSettled, ApplyingPcs
    <2>4. CASE q # p
      BY <2>1, <2>2, <2>4, <1>4 DEF PollerIsInOrder, Updates, UpdateInv, UpdateTypes, PollerType
    <2> QED
      BY <2>3, <2>4
  <1> QED
    BY <1>2, <1>4, <1>6, <1>7 DEF UpdateInv, Updates, UpdateTypes

LEMMA GivingUp ==
    ASSUME UpdateInv, NEW p \in Pollers, GivesUp(p)
    PROVE  UpdateInv'
  <1> USE DEF GivesUp
  <1> DEFINE w == poller[p].at
  <1>1. /\ w \in Updates /\ Applies(p, w) /\ w \in claimed /\ handled[w] = 0
        /\ \A q \in Pollers : Applies(q, w) => q = p
        /\ poller[p].pc # "reply" => posted[w] = 0 \/ w \in unanswered
    BY AppliedUpdate
  <1>2. poller \in [Pollers -> PollerType] /\ poller' \in [Pollers -> PollerType]
    BY WaitingIsTyped DEF UpdateInv, UpdateTypes
  <1>3. poller'[p].pc = "idle" /\ \A q \in Pollers \ {p} : poller'[q] = poller[q]
    BY <1>2, WaitingIsTyped
  <1>4. UpdateTypes'
    BY <1>2 DEF UpdateInv, UpdateTypes, Updates
  <1>5. unanswered \subseteq unanswered' /\ (posted[w] = 0 \/ w \in unanswered')
    BY <1>1
  <1>6. \A q \in Pollers, u \in Updates : Applies(q, u)' <=> Applies(q, u) /\ q # p
    BY <1>3 DEF Applies, ApplyingPcs
  <1>7. ASSUME NEW u \in Updates PROVE UpdateIsOwned(u)'
    <2>1. UpdateIsOwned(u)
      BY DEF UpdateInv
    <2>2. CASE u = w
      <3>1. \A q \in Pollers : ~Applies(q, u)'
        BY <2>2, <1>1, <1>6
      <3> QED
        BY <2>1, <2>2, <3>1, <1>1, <1>5 DEF UpdateIsOwned
    <2>3. CASE u # w
      <3>1. \A q \in Pollers : Applies(q, u)' <=> Applies(q, u)
        BY <1>6, <2>3 DEF Applies
      <3>2. \A q \in Pollers : Applies(q, u)' => poller'[q] = poller[q]
        BY <1>6, <1>3
      <3>3. u \in claimed' <=> u \in claimed
        BY <2>3
      <3> QED
        BY <2>1, <3>1, <3>2, <3>3, <1>5 DEF UpdateIsOwned, IsSettled
    <2> QED
      BY <2>2, <2>3
  <1>8. ASSUME NEW q \in Pollers PROVE PollerIsInOrder(q)'
    <2>1. PollerIsInOrder(q)
      BY DEF UpdateInv
    <2> QED
      BY <2>1, <1>3 DEF PollerIsInOrder, IsSettled
  <1> QED
    BY <1>4, <1>7, <1>8 DEF UpdateInv, Updates, IsSettled

\* PostOwner: the one step that changes the owner's policy.
LEMMA Posting ==
    ASSUME UpdateInv, NEW p \in Pollers, PostOwner(p)
    PROVE  UpdateInv'
  <1> DEFINE w == poller[p].at
  <1>1. /\ poller[p].pc = "post" /\ Goes(p, "reply")
        /\ UNCHANGED <<script, offset, claimed, handled, excused, unanswered>>
        /\ posted' = [posted EXCEPT ![w] = IF @ < 2 THEN @ + 1 ELSE @]
    BY DEF PostOwner, queueVars
  <1>2. /\ poller' \in [Pollers -> PollerType]
        /\ poller'[p].pc = "reply" /\ poller'[p].at = w /\ poller'[p].upto = poller[p].upto
        /\ \A q \in Pollers \ {p} : poller'[q] = poller[q]
    BY <1>1, GoesMoves DEF UpdateInv, UpdateTypes, ApplyingPcs
  <1>3. /\ w \in Updates /\ Applies(p, w) /\ w \in claimed
        /\ \A q \in Pollers : Applies(q, w) => q = p
        /\ posted[w] = 0 \/ w \in unanswered
    BY <1>1, AppliedUpdate DEF ApplyingPcs
  <1>4. /\ posted' \in [Updates -> Nat] /\ \A u \in Updates \ {w} : posted'[u] = posted[u]
        /\ posted'[w] <= 1 \/ w \in unanswered
    BY <1>1, <1>3 DEF UpdateInv, UpdateTypes
  <1>5. UpdateTypes'
    BY <1>1, <1>2, <1>4 DEF UpdateInv, UpdateTypes, Updates
  <1>6. \A q \in Pollers, u \in Updates : Applies(q, u)' <=> Applies(q, u)
    BY <1>1, <1>2 DEF Applies, ApplyingPcs
  <1>7. ASSUME NEW u \in Updates PROVE UpdateIsOwned(u)'
    <2>1. UpdateIsOwned(u)
      BY DEF UpdateInv
    <2>2. CASE u = w
      <3>1. \A q \in Pollers : Applies(q, u)' => poller'[q].pc = "reply"
        BY <2>2, <1>2, <1>3, <1>6
      <3>2. posted'[u] > 1 => u \in unanswered
        BY <2>2, <1>3, <1>4
      <3> QED
        BY <2>1, <2>2, <3>1, <3>2, <1>1, <1>3, <1>6 DEF UpdateIsOwned, IsSettled
    <2>3. CASE u # w
      <3>1. \A q \in Pollers : Applies(q, u)' => poller'[q] = poller[q]
        BY <1>2, <1>6, <2>3 DEF Applies
      <3> QED
        BY <2>1, <2>3, <3>1, <1>1, <1>4, <1>6 DEF UpdateIsOwned, IsSettled
    <2> QED
      BY <2>2, <2>3
  <1>8. ASSUME NEW q \in Pollers PROVE PollerIsInOrder(q)'
    <2>1. PollerIsInOrder(q)
      BY DEF UpdateInv
    <2> QED
      BY <2>1, <1>1, <1>2 DEF PollerIsInOrder, IsSettled
  <1> QED
    BY <1>1, <1>5, <1>7, <1>8 DEF UpdateInv, Updates, IsSettled

\* What the poll itself does with the poller.
LEMMA FetchMoves ==
    ASSUME UpdateInv, NEW p \in Pollers, Fetch(p)
    PROVE  /\ poller' \in [Pollers -> PollerType]
           /\ \A q \in Pollers \ {p} : poller'[q] = poller[q]
           /\ \/ poller'[p].pc = "idle"
              \/ /\ poller'[p].pc = "next" /\ poller'[p].at = offset
                 /\ poller'[p].upto \in offset..Len(script)
  <1>1. poller \in [Pollers -> PollerType] /\ Len(script) \in Nat /\ offset \in Nat
    BY DEF UpdateInv, UpdateTypes
  <1>2. PICK upto \in offset - 1..Len(script) :
           poller' = [poller EXCEPT ![p] =
                        IF upto < offset THEN Waiting
                        ELSE [pc |-> "next", at |-> offset, upto |-> upto, row |-> 0]]
    BY DEF Fetch
  <1>3. CASE upto < offset
    BY <1>1, <1>2, <1>3, WaitingIsTyped
  <1>4. CASE ~(upto < offset)
    <2>1. upto \in offset..Len(script)
      BY <1>1, <1>4
    <2>2. [pc |-> "next", at |-> offset, upto |-> upto, row |-> 0] \in PollerType
      BY <1>1, <2>1 DEF PollerType
    <2> QED
      BY <1>1, <1>2, <1>4, <2>1, <2>2
  <1> QED
    BY <1>3, <1>4

LEMMA Electing ==
    ASSUME UpdateInv, NEW p \in Pollers, Elect(p) \/ Fetch(p)
    PROVE  UpdateInv'
  <1>1. UNCHANGED <<script, offset, claimed, handled, posted, excused, unanswered>>
    BY DEF Elect, Fetch, queueVars, historyVars
  <1>2. poller \in [Pollers -> PollerType] /\ Len(script) \in Nat /\ offset \in Nat
        /\ poller[p].pc \in {"idle", "elected"}
    BY DEF UpdateInv, UpdateTypes, Elect, Fetch
  <1>3. /\ poller' \in [Pollers -> PollerType]
        /\ \A q \in Pollers \ {p} : poller'[q] = poller[q]
        /\ \/ poller'[p].pc \in {"idle", "elected"}
           \/ /\ poller'[p].pc = "next" /\ poller'[p].at = offset
              /\ poller'[p].upto \in offset..Len(script)
    <2>1. CASE Elect(p)
      BY <2>1, <1>2, GoesMoves DEF Elect
    <2>2. CASE Fetch(p)
      BY <2>2, FetchMoves
    <2> QED
      BY <2>1, <2>2
  <1>4. UpdateTypes'
    BY <1>1, <1>3 DEF UpdateInv, UpdateTypes, Updates
  <1>5. \A q \in Pollers, u \in Updates : /\ Applies(q, u)' <=> Applies(q, u)
                                          /\ Applies(q, u) => poller'[q] = poller[q]
    BY <1>1, <1>2, <1>3 DEF Applies, ApplyingPcs
  <1>6. ASSUME NEW u \in Updates PROVE UpdateIsOwned(u)'
    <2>1. UpdateIsOwned(u)
      BY DEF UpdateInv
    <2> QED
      BY <2>1, <1>1, <1>5 DEF UpdateIsOwned, IsSettled
  <1>7. ASSUME NEW q \in Pollers PROVE PollerIsInOrder(q)'
    <2>1. PollerIsInOrder(q)
      BY DEF UpdateInv
    <2>2. CASE q = p
      <3>1. \A u \in 1..offset - 1 : IsSettled(u)'
        BY <1>1 DEF UpdateInv, IsSettled
      <3>2. offset \in 1..Len(script) + 1
        BY DEF UpdateInv
      <3> QED
        BY <2>2, <3>1, <3>2, <1>1, <1>2, <1>3 DEF PollerIsInOrder
    <2>3. CASE q # p
      BY <2>1, <2>3, <1>1, <1>3 DEF PollerIsInOrder, IsSettled
    <2> QED
      BY <2>2, <2>3
  <1> QED
    BY <1>1, <1>4, <1>6, <1>7 DEF UpdateInv, Updates, IsSettled

\* What a poller that fetched is about.
LEMMA FetchedUpdate ==
    ASSUME UpdateInv, NEW p \in Pollers, poller[p].pc \notin {"idle", "elected"}
    PROVE  /\ poller[p].at \in Updates /\ poller[p].at \in 1..poller[p].upto
           /\ poller[p].upto \in Updates
           /\ \A u \in 1..poller[p].at - 1 : IsSettled(u)
  <1>1. poller[p] \in PollerType /\ PollerIsInOrder(p) /\ Len(script) \in Nat
    BY DEF UpdateInv, UpdateTypes
  <1> QED
    BY <1>1 DEF PollerIsInOrder, PollerType, Updates

LEMMA Claiming ==
    ASSUME UpdateInv, NEW p \in Pollers, ClaimUpdate(p)
    PROVE  UpdateInv'
  <1> DEFINE w == poller[p].at
             pc == IF w \in claimed THEN "complete" ELSE "apply"
             busy == \E q \in Pollers \ {p} : poller[q].at = w /\ poller[q].pc \in ApplyingPcs
  <1>1. /\ poller[p].pc = "next" /\ Goes(p, pc)
        /\ UNCHANGED <<script, offset, handled, posted, unanswered>>
        /\ claimed' = claimed \cup {w}
        /\ excused' = IF w \in claimed /\ busy THEN excused \cup {w} ELSE excused
    BY DEF ClaimUpdate
  <1>2. /\ poller' \in [Pollers -> PollerType]
        /\ poller'[p].pc = pc /\ poller'[p].at = w /\ poller'[p].upto = poller[p].upto
        /\ \A q \in Pollers \ {p} : poller'[q] = poller[q]
    BY <1>1, GoesMoves DEF UpdateInv, UpdateTypes, ApplyingPcs
  <1>3. /\ w \in Updates /\ w \in 1..poller[p].upto /\ poller[p].upto \in Updates
        /\ \A u \in 1..w - 1 : IsSettled(u)
    BY <1>1, FetchedUpdate
  <1>4. UpdateTypes'
    BY <1>1, <1>2 DEF UpdateInv, UpdateTypes, Updates
  <1>5. \A u : IsSettled(u) => IsSettled(u)'
    BY <1>1 DEF IsSettled
  <1>6. w \in claimed => handled'[w] = 1 \/ w \in excused'
    <2>1. ASSUME w \in claimed, ~IsSettled(w) PROVE busy
      <3>1. PICK q \in Pollers : Applies(q, w)
        BY <2>1, <1>3 DEF UpdateInv, UpdateIsOwned
      <3>2. q # p
        BY <3>1, <1>1 DEF Applies, ApplyingPcs
      <3> QED
        BY <3>1, <3>2 DEF Applies
    <2>2. ASSUME w \in claimed, ~IsSettled(w) PROVE w \in excused'
      BY <2>1, <2>2, <1>1
    <2>3. IsSettled(w) => handled'[w] = 1 \/ w \in excused'
      BY <1>1 DEF IsSettled
    <2> QED
      BY <2>2, <2>3
  <1>7. /\ \A q \in Pollers \ {p}, u \in Updates :
              (Applies(q, u)' <=> Applies(q, u)) /\ poller'[q] = poller[q]
        /\ \A u \in Updates : Applies(p, u)' <=> u = w /\ w \notin claimed
        /\ \A u \in Updates : ~Applies(p, u)
    BY <1>1, <1>2 DEF Applies, ApplyingPcs
  <1>8. ASSUME NEW u \in Updates PROVE UpdateIsOwned(u)'
    <2>1. UpdateIsOwned(u)
      BY DEF UpdateInv
    <2>2. CASE u = w /\ w \notin claimed
      <3>1. \A q \in Pollers : Applies(q, u)' <=> q = p
        BY <2>1, <2>2, <1>7 DEF UpdateIsOwned
      <3> QED
        BY <2>1, <2>2, <3>1, <1>1 DEF UpdateIsOwned
    <2>3. CASE u = w /\ w \in claimed
      <3>1. \A q \in Pollers : Applies(q, u)' => Applies(q, u) /\ poller'[q] = poller[q]
        BY <2>3, <1>7
      <3>2. IsSettled(u)' /\ u \in claimed' /\ u \in claimed
        BY <2>3, <1>1, <1>6 DEF IsSettled
      <3>3. UNCHANGED <<handled, posted, unanswered>>
        BY <1>1
      <3> QED
        BY <2>1, <3>1, <3>2, <3>3 DEF UpdateIsOwned
    <2>4. CASE u # w
      <3>1. \A q \in Pollers : /\ Applies(q, u)' <=> Applies(q, u)
                               /\ Applies(q, u) => poller'[q] = poller[q]
        BY <2>4, <1>7
      <3>2. u \in claimed' <=> u \in claimed
        BY <2>4, <1>1
      <3> QED
        BY <2>1, <3>1, <3>2, <1>1, <1>5 DEF UpdateIsOwned
    <2> QED
      BY <2>2, <2>3, <2>4
  <1>9. ASSUME NEW q \in Pollers PROVE PollerIsInOrder(q)'
    <2>1. PollerIsInOrder(q)
      BY DEF UpdateInv
    <2>2. CASE q = p
      <3>1. poller[p].upto <= Len(script)
        BY <2>1, <2>2, <1>1 DEF PollerIsInOrder
      <3>2. \A u \in 1..w - 1 : IsSettled(u)'
        BY <1>3, <1>5
      <3>3. poller'[p].pc = "complete" => w \in claimed
        BY <1>2
      <3> QED
        BY <2>2, <3>1, <3>2, <3>3, <1>1, <1>2, <1>3, <1>6 DEF PollerIsInOrder, IsSettled
    <2>3. CASE q # p
      BY <2>1, <2>3, <1>1, <1>2, <1>5 DEF PollerIsInOrder
    <2> QED
      BY <2>2, <2>3
  <1> QED
    BY <1>1, <1>4, <1>5, <1>8, <1>9 DEF UpdateInv, Updates

LEMMA NextUpdate ==
    ASSUME NEW x \in PollerType
    PROVE  /\ [x EXCEPT !.pc = "next", !.at = @ + 1] \in PollerType
           /\ [x EXCEPT !.pc = "next", !.at = @ + 1].pc = "next"
           /\ [x EXCEPT !.pc = "next", !.at = @ + 1].at = x.at + 1
           /\ [x EXCEPT !.pc = "next", !.at = @ + 1].upto = x.upto
  <1>1. PICK at \in Nat : at = x.at + 1
    BY DEF PollerType
  <1>2. [x EXCEPT !.pc = "next", !.at = at] \in PollerType
    BY DEF PollerType
  <1> QED
    BY <1>1, <1>2 DEF PollerType

LEMMA CompleteMoves ==
    ASSUME UpdateInv, NEW p \in Pollers, CompleteUpdate(p)
    PROVE  /\ poller' \in [Pollers -> PollerType] /\ poller'[p] = AfterUpdate(p)
           /\ \A q \in Pollers \ {p} : poller'[q] = poller[q]
           /\ \/ AfterUpdate(p).pc = "idle"
              \/ /\ AfterUpdate(p).pc = "next" /\ AfterUpdate(p).at = poller[p].at + 1
                 /\ AfterUpdate(p).upto = poller[p].upto /\ poller[p].at # poller[p].upto
  <1> DEFINE x == [poller[p] EXCEPT !.pc = "next", !.at = @ + 1]
  <1>1. poller \in [Pollers -> PollerType] /\ poller' = [poller EXCEPT ![p] = AfterUpdate(p)]
    BY DEF UpdateInv, UpdateTypes, CompleteUpdate
  <1>2. x \in PollerType /\ x.pc = "next" /\ x.at = poller[p].at + 1 /\ x.upto = poller[p].upto
    BY <1>1, NextUpdate
  <1>3. AfterUpdate(p) = IF poller[p].at = poller[p].upto THEN Waiting ELSE x
    BY DEF AfterUpdate
  <1> HIDE DEF x
  <1> QED
    BY <1>1, <1>2, <1>3, WaitingIsTyped

LEMMA Completing ==
    ASSUME UpdateInv, NEW p \in Pollers, CompleteUpdate(p)
    PROVE  UpdateInv'
  <1> DEFINE w == poller[p].at
  <1>1. /\ poller[p].pc = "complete"
        /\ UNCHANGED <<script, claimed, handled, posted, excused, unanswered>>
        /\ offset' = IF w + 1 > offset THEN w + 1 ELSE offset
        /\ poller' = [poller EXCEPT ![p] = AfterUpdate(p)]
    BY DEF CompleteUpdate, historyVars
  <1>2. /\ w \in Updates /\ w \in 1..poller[p].upto /\ poller[p].upto \in Updates
        /\ \A u \in 1..w : IsSettled(u)
    <2>1. w \in Updates /\ w \in 1..poller[p].upto /\ poller[p].upto \in Updates
      BY <1>1, FetchedUpdate
    <2>2. \A u \in 1..w - 1 : IsSettled(u)
      BY <1>1, FetchedUpdate
    <2>3. IsSettled(w)
      BY <1>1 DEF UpdateInv, PollerIsInOrder
    <2>4. \A u \in 1..w : u \in 1..w - 1 \/ u = w
      BY <2>1 DEF Updates
    <2> QED
      BY <2>1, <2>2, <2>3, <2>4
  <1>3. poller \in [Pollers -> PollerType] /\ poller[p] \in PollerType
        /\ Len(script) \in Nat /\ offset \in 1..Len(script) + 1
    BY DEF UpdateInv, UpdateTypes
  <1>4. \/ AfterUpdate(p).pc = "idle"
        \/ /\ AfterUpdate(p).pc = "next" /\ AfterUpdate(p).at = w + 1
           /\ AfterUpdate(p).upto = poller[p].upto /\ w # poller[p].upto
    BY CompleteMoves
  <1>5. /\ poller' \in [Pollers -> PollerType] /\ poller'[p] = AfterUpdate(p)
        /\ \A q \in Pollers \ {p} : poller'[q] = poller[q]
    BY CompleteMoves
  <1>6. UpdateTypes' /\ offset' \in 1..Len(script) + 1
    BY <1>1, <1>2, <1>3, <1>5 DEF UpdateInv, UpdateTypes, Updates
  <1>7. \A u \in 1..offset' - 1 : IsSettled(u)'
    BY <1>1, <1>2, <1>3 DEF UpdateInv, IsSettled, Updates
  <1>8. \A q \in Pollers, u \in Updates : /\ Applies(q, u)' <=> Applies(q, u)
                                          /\ Applies(q, u) => poller'[q] = poller[q]
    BY <1>1, <1>4, <1>5 DEF Applies, ApplyingPcs
  <1>9. ASSUME NEW u \in Updates PROVE UpdateIsOwned(u)'
    <2>1. UpdateIsOwned(u)
      BY DEF UpdateInv
    <2> QED
      BY <2>1, <1>1, <1>8 DEF UpdateIsOwned, IsSettled
  <1>10. ASSUME NEW q \in Pollers PROVE PollerIsInOrder(q)'
    <2>1. PollerIsInOrder(q)
      BY DEF UpdateInv
    <2>2. CASE q = p
      <3>1. \A u \in 1..w : IsSettled(u)'
        BY <1>1, <1>2 DEF IsSettled
      <3>2. CASE AfterUpdate(p).pc = "idle"
        BY <2>2, <3>2, <1>5 DEF PollerIsInOrder
      <3>3. CASE AfterUpdate(p).pc # "idle"
        <4>1. poller'[p].pc = "next" /\ poller'[p].at = w + 1 /\ poller'[p].upto = poller[p].upto
          BY <3>3, <1>4, <1>5
        <4>2. w + 1 \in 1..poller[p].upto /\ poller[p].upto <= Len(script) /\ (w + 1) - 1 = w
          BY <3>3, <1>2, <1>3, <1>4 DEF Updates
        <4> QED
          BY <2>2, <3>1, <4>1, <4>2, <1>1 DEF PollerIsInOrder
      <3> QED
        BY <3>2, <3>3
    <2>3. CASE q # p
      BY <2>1, <2>3, <1>1, <1>5 DEF PollerIsInOrder, IsSettled
    <2> QED
      BY <2>2, <2>3
  <1> QED
    BY <1>1, <1>6, <1>7, <1>9, <1>10 DEF UpdateInv, Updates

LEMMA Dying ==
    ASSUME UpdateInv, NEW p \in Pollers, PollerDies(p)
    PROVE  UpdateInv'
  <1> DEFINE w == poller[p].at
  <1>1. /\ UNCHANGED <<script, offset, claimed, handled, posted, unanswered>>
        /\ poller' = [poller EXCEPT ![p] = Waiting]
        /\ excused' = IF poller[p].pc \in ApplyingPcs THEN excused \cup {w} ELSE excused
    BY DEF PollerDies, queueVars
  <1>2. /\ poller' \in [Pollers -> PollerType] /\ poller'[p].pc = "idle"
        /\ \A q \in Pollers \ {p} : poller'[q] = poller[q]
    BY <1>1, WaitingIsTyped DEF UpdateInv, UpdateTypes
  <1>3. UpdateTypes'
    BY <1>1, <1>2 DEF UpdateInv, UpdateTypes, Updates
  <1>4. \A u : /\ IsSettled(u) => IsSettled(u)'
               /\ Applies(p, u) => IsSettled(u)'
    BY <1>1 DEF IsSettled, Applies
  <1>5. \A q \in Pollers, u \in Updates : /\ Applies(q, u)' <=> Applies(q, u) /\ q # p
                                          /\ Applies(q, u)' => poller'[q] = poller[q]
    BY <1>2 DEF Applies, ApplyingPcs
  <1>6. ASSUME NEW u \in Updates PROVE UpdateIsOwned(u)'
    <2>1. UpdateIsOwned(u)
      BY DEF UpdateInv
    <2>2. u \in claimed => IsSettled(u)' \/ \E q \in Pollers : Applies(q, u)'
      BY <2>1, <1>4, <1>5 DEF UpdateIsOwned
    <2> QED
      BY <2>1, <2>2, <1>1, <1>5 DEF UpdateIsOwned
  <1>7. ASSUME NEW q \in Pollers PROVE PollerIsInOrder(q)'
    <2>1. PollerIsInOrder(q)
      BY DEF UpdateInv
    <2> QED
      BY <2>1, <1>1, <1>2, <1>4 DEF PollerIsInOrder
  <1> QED
    BY <1>1, <1>3, <1>4, <1>6, <1>7 DEF UpdateInv, Updates

\* Handled and Raises are the ends of a handler.
LEMMA HandlerEnds ==
    ASSUME UpdateInv, NEW p \in Pollers, poller[p].pc \in ApplyingPcs,
           UNCHANGED <<script, offset, posted, excused>>
    PROVE  /\ Handled(p) /\ UNCHANGED <<claimed, unanswered>> => Finishes(p)
           /\ Raises(p) /\ UNCHANGED <<handled, unanswered>> /\ poller[p].pc # "reply" => GivesUp(p)
  <1>1. ASSUME Handled(p), UNCHANGED <<claimed, unanswered>> PROVE Finishes(p)
    BY <1>1, GoesMoves DEF Handled, Finishes, OnlyPoller, UpdateInv, UpdateTypes
  <1>2. ASSUME Raises(p), UNCHANGED <<handled, unanswered>>, poller[p].pc # "reply" PROVE GivesUp(p)
    BY <1>2 DEF Raises, GivesUp
  <1> QED
    BY <1>1, <1>2

LEMMA HandlerGoesOn ==
    ASSUME UpdateInv, NEW p \in Pollers, NEW pc \in ApplyingPcs, Goes(p, pc),
           poller[p].pc \in ApplyingPcs \ {"reply"},
           UNCHANGED <<script, offset, claimed, handled, posted, excused, unanswered>>
    PROVE  MovesOn(p)
  <1>1. poller \in [Pollers -> PollerType]
    BY DEF UpdateInv, UpdateTypes
  <1> QED
    BY <1>1, GoesMoves DEF MovesOn, OnlyPoller

LEMMA InsertUpdates ==
    ASSUME NEW x \in PollerType, NEW row \in Nat
    PROVE  /\ [x EXCEPT !.pc = "insert", !.row = row] \in PollerType
           /\ [x EXCEPT !.pc = "insert", !.row = row].pc = "insert"
           /\ [x EXCEPT !.pc = "insert", !.row = row].at = x.at
           /\ [x EXCEPT !.pc = "insert", !.row = row].upto = x.upto
           /\ [x EXCEPT !.pc = "insert", !.row = row].row = row
  BY DEF PollerType, ApplyingPcs

LEMMA InsertMoves ==
    ASSUME poller \in [Pollers -> PollerType], Len(diagnosis) \in Nat, NEW p \in Pollers,
           poller' = [poller EXCEPT ![p] = [@ EXCEPT !.pc = "insert", !.row = Len(diagnosis) + 1]]
    PROVE  /\ poller' \in [Pollers -> PollerType]
           /\ poller'[p].pc = "insert" /\ poller'[p].at = poller[p].at
           /\ poller'[p].upto = poller[p].upto /\ poller'[p].row = Len(diagnosis) + 1
           /\ \A q \in Pollers \ {p} : poller'[q] = poller[q]
  <1>1. PICK row \in Nat : row = Len(diagnosis) + 1
    OBVIOUS
  <1> DEFINE x == [poller[p] EXCEPT !.pc = "insert", !.row = row]
  <1>2. poller' = [poller EXCEPT ![p] = x]
    BY <1>1
  <1>3. x \in PollerType /\ x.pc = "insert" /\ x.at = poller[p].at /\ x.upto = poller[p].upto /\ x.row = row
    BY InsertUpdates
  <1> HIDE DEF x
  <1> QED
    BY <1>1, <1>2, <1>3

\* Every step of a handler is one of these.
LEMMA HandlerMoves ==
    ASSUME UpdateInv, Len(diagnosis) \in Nat, NEW p \in Pollers,
           \/ ApplyChoice(p) \/ RecordChoice(p) \/ MarkCard(p)
           \/ ReadJob(p) \/ InsertJob(p) \/ ApplyOwner(p) \/ ReplyOwner(p)
    PROVE  MovesOn(p) \/ Finishes(p) \/ GivesUp(p)
  <1>1. CASE ApplyChoice(p)
    <2>1. /\ poller[p].pc = "apply" /\ UNCHANGED <<script, offset, excused, posted, unanswered>>
          /\ \/ Handled(p) /\ UNCHANGED claimed
             \/ (Goes(p, "record") \/ Goes(p, "fallback")) /\ UNCHANGED <<claimed, handled>>
             \/ Raises(p) /\ UNCHANGED handled
      BY <1>1 DEF ApplyChoice, CallHerder, queueVars, Raises
    <2> QED
      BY <2>1, HandlerEnds, HandlerGoesOn DEF ApplyingPcs
  <1>2. CASE RecordChoice(p)
    <2>1. /\ poller[p].pc \in {"record", "fallback"} /\ Goes(p, "mark")
          /\ UNCHANGED <<script, offset, claimed, handled, posted, excused, unanswered>>
      BY <1>2 DEF RecordChoice, queueVars, historyVars
    <2> QED
      BY <2>1, HandlerGoesOn DEF ApplyingPcs
  <1>3. CASE MarkCard(p)
    <2>1. /\ poller[p].pc = "mark" /\ UNCHANGED <<script, offset, excused, posted, unanswered>>
          /\ \/ Handled(p) /\ UNCHANGED claimed
             \/ Raises(p) /\ UNCHANGED handled
      BY <1>3 DEF MarkCard, queueVars, Raises
    <2> QED
      BY <2>1, HandlerEnds DEF ApplyingPcs
  <1>4. CASE ReadJob(p)
    <2>1. /\ poller[p].pc = "apply"
          /\ UNCHANGED <<script, offset, claimed, excused, posted, unanswered>>
      BY <1>4 DEF ReadJob, queueVars
    <2>2. CASE Handled(p)
      BY <2>1, <2>2, HandlerEnds DEF ApplyingPcs
    <2>3. CASE ~Handled(p)
      <3>1. /\ poller' = [poller EXCEPT ![p] = [@ EXCEPT !.pc = "insert", !.row = Len(diagnosis) + 1]]
            /\ UNCHANGED handled
        BY <1>4, <2>3 DEF ReadJob
      <3>2. /\ poller' \in [Pollers -> PollerType]
            /\ poller'[p].pc = "insert" /\ poller'[p].at = poller[p].at
            /\ poller'[p].upto = poller[p].upto
            /\ \A q \in Pollers \ {p} : poller'[q] = poller[q]
        BY <3>1, InsertMoves DEF UpdateInv, UpdateTypes
      <3> QED
        BY <2>1, <3>1, <3>2 DEF MovesOn, OnlyPoller, ApplyingPcs
    <2> QED
      BY <2>2, <2>3
  <1>5. CASE InsertJob(p)
    <2>1. /\ poller[p].pc = "insert" /\ UNCHANGED <<script, offset, excused, posted, unanswered>>
          /\ \/ Handled(p) /\ UNCHANGED claimed
             \/ Raises(p) /\ UNCHANGED handled
      BY <1>5 DEF InsertJob, queueVars, Raises
    <2> QED
      BY <2>1, HandlerEnds DEF ApplyingPcs
  <1>6. CASE ApplyOwner(p)
    <2>1. /\ poller[p].pc = "apply" /\ (Goes(p, "post") \/ Goes(p, "reply"))
          /\ UNCHANGED <<script, offset, claimed, handled, posted, excused, unanswered>>
      BY <1>6 DEF ApplyOwner, queueVars, historyVars
    <2> QED
      BY <2>1, HandlerGoesOn DEF ApplyingPcs
  <1>7. CASE ReplyOwner(p)
    <2>1. /\ poller[p].pc = "reply" /\ UNCHANGED <<script, offset, excused, posted>>
          /\ \/ Handled(p) /\ UNCHANGED <<claimed, unanswered>>
             \/ /\ Raises(p) /\ UNCHANGED handled
                /\ unanswered' = unanswered \cup {poller[p].at}
      BY <1>7 DEF ReplyOwner, queueVars, Raises
    <2>2. CASE Handled(p) /\ UNCHANGED <<claimed, unanswered>>
      BY <2>1, <2>2, HandlerEnds DEF ApplyingPcs
    <2>3. CASE Raises(p) /\ UNCHANGED handled /\ unanswered' = unanswered \cup {poller[p].at}
      BY <2>1, <2>3 DEF GivesUp, Raises, ApplyingPcs
    <2> QED
      BY <2>1, <2>2, <2>3
  <1> QED
    BY <1>1, <1>2, <1>3, <1>4, <1>5, <1>6, <1>7

LEMMA UpdatesKept ==
    ASSUME UpdateInv, Len(diagnosis) \in Nat, [TelegramNext]_telegramVars
    PROVE  UpdateInv'
  <1>1. CASE LeaseExpires \/ AnsweredElsewhere \/ ReportChoice \/ JobEnds \/ IncidentCloses \/ ConsoleTurns
    BY <1>1, QuietUpdates
       DEF LeaseExpires, AnsweredElsewhere, ReportChoice, JobEnds, IncidentCloses, ConsoleTurns,
           queueVars, historyVars
  <1>2. CASE UNCHANGED telegramVars
    BY <1>2, QuietUpdates DEF telegramVars
  <1>3. ASSUME NEW p \in Pollers,
               \/ ApplyChoice(p) \/ RecordChoice(p) \/ MarkCard(p)
               \/ ReadJob(p) \/ InsertJob(p) \/ ApplyOwner(p) \/ ReplyOwner(p)
        PROVE  UpdateInv'
    BY <1>3, HandlerMoves, MovingOn, Finishing, GivingUp
  <1> QED
    BY <1>1, <1>2, <1>3, Electing, Claiming, Completing, Dying, Posting DEF TelegramNext

\* The stored answer is the accepted one, or nobody vouched for it, and the card shows it.
LEMMA AnswersKept ==
    ASSUME OneAnswerEverywhere, [TelegramNext]_telegramVars
    PROVE  OneAnswerEverywhere'
  <1> USE DEF OneAnswerEverywhere
  <1>1. CASE UNCHANGED choiceVars
    BY <1>1 DEF choiceVars
  <1>2. CASE AnsweredElsewhere
    BY <1>2 DEF AnsweredElsewhere
  <1>3. CASE ReportChoice
    BY <1>3 DEF ReportChoice
  <1>4. ASSUME NEW p \in Pollers, ApplyChoice(p) PROVE OneAnswerEverywhere'
    BY <1>4 DEF ApplyChoice, CallHerder, AcceptedAfter
  <1>5. ASSUME NEW p \in Pollers, RecordChoice(p) PROVE OneAnswerEverywhere'
    BY <1>5 DEF RecordChoice, CanonicalAnswer
  <1>6. ASSUME NEW p \in Pollers, MarkCard(p) PROVE OneAnswerEverywhere'
    BY <1>6 DEF MarkCard
  <1>7. ASSUME NEW p \in Pollers,
               \/ Elect(p) \/ Fetch(p) \/ ClaimUpdate(p) \/ CompleteUpdate(p) \/ PollerDies(p)
               \/ ReadJob(p) \/ InsertJob(p) \/ ApplyOwner(p) \/ PostOwner(p) \/ ReplyOwner(p)
        PROVE  UNCHANGED choiceVars
    BY <1>7 DEF Elect, Fetch, ClaimUpdate, CompleteUpdate, PollerDies, ReadJob, InsertJob,
                ApplyOwner, PostOwner, ReplyOwner
  <1>8. CASE LeaseExpires \/ JobEnds \/ IncidentCloses \/ ConsoleTurns \/ UNCHANGED telegramVars
    BY <1>1, <1>8 DEF LeaseExpires, JobEnds, IncidentCloses, ConsoleTurns, telegramVars, choiceVars
  <1> QED
    BY <1>1, <1>2, <1>3, <1>4, <1>5, <1>6, <1>7, <1>8 DEF TelegramNext

LEMMA DiagnosesKept ==
    ASSUME UpdateInv, DiagnosisInv, [TelegramNext]_telegramVars
    PROVE  DiagnosisInv'
  <1> DEFINE n == Len(diagnosis)
  <1>1. diagnosis \in Seq(DiagnosisStatuses) /\ n \in Nat /\ DOMAIN diagnosis = 1..n
    BY DEF DiagnosisInv
  \* A step that starts no insertion and queues nothing.
  <1>2. ASSUME poller' \in [Pollers -> PollerType],
               \A p \in Pollers : poller'[p].pc = "insert" => poller'[p] = poller[p],
               diagnosis' \in Seq(DiagnosisStatuses), Len(diagnosis') = n,
               \A g \in 1..n : diagnosis'[g] = "queued" => diagnosis[g] = "queued"
        PROVE  DiagnosisInv'
    <2>1. DOMAIN diagnosis' = 1..n
      BY <1>1, <1>2
    <2> QED
      BY <1>1, <1>2, <2>1 DEF DiagnosisInv
  <1>3. ASSUME NEW p \in Pollers, NEW pc \in {"idle", "elected", "next", "complete"} \cup (ApplyingPcs \ {"insert"}),
               Goes(p, pc)
        PROVE  /\ poller' \in [Pollers -> PollerType]
               /\ \A q \in Pollers : poller'[q].pc = "insert" => poller'[q] = poller[q]
    BY <1>3, GoesMoves DEF DiagnosisInv
  <1>4. ASSUME NEW p \in Pollers, poller' = [poller EXCEPT ![p] = Waiting]
        PROVE  /\ poller' \in [Pollers -> PollerType]
               /\ \A q \in Pollers : poller'[q].pc = "insert" => poller'[q] = poller[q]
    BY <1>4, WaitingIsTyped DEF DiagnosisInv
  <1>5. ASSUME NEW p \in Pollers, UNCHANGED diagnosis,
               \/ \E pc \in {"idle", "elected", "next", "complete"} \cup (ApplyingPcs \ {"insert"}) : Goes(p, pc)
               \/ poller' = [poller EXCEPT ![p] = Waiting]
        PROVE  DiagnosisInv'
    BY <1>1, <1>2, <1>3, <1>4, <1>5
  <1>6. ASSUME NEW p \in Pollers,
               \/ Elect(p) \/ ClaimUpdate(p) \/ PollerDies(p)
               \/ ApplyChoice(p) \/ RecordChoice(p) \/ MarkCard(p)
               \/ ApplyOwner(p) \/ PostOwner(p) \/ ReplyOwner(p)
        PROVE  DiagnosisInv'
    BY <1>5, <1>6 DEF Elect, ClaimUpdate, PollerDies, ApplyChoice, RecordChoice, MarkCard,
                      ApplyOwner, PostOwner, ReplyOwner, CallHerder, Handled, Raises, ApplyingPcs
  <1>7. ASSUME NEW p \in Pollers, Fetch(p) \/ CompleteUpdate(p)
        PROVE  DiagnosisInv'
    <2>1. /\ UNCHANGED diagnosis /\ \A q \in Pollers \ {p} : poller'[q] = poller[q]
          /\ poller'[p].pc \in {"idle", "next"}
          /\ poller' \in [Pollers -> PollerType]
      BY <1>7, FetchMoves, CompleteMoves DEF Fetch, CompleteUpdate
    <2> QED
      BY <1>1, <1>2, <2>1
  <1>8. ASSUME NEW p \in Pollers, ReadJob(p) PROVE DiagnosisInv'
    <2>1. CASE Handled(p)
      BY <1>5, <1>8, <2>1 DEF ReadJob, Handled
    <2>2. CASE ~Handled(p)
      <3>1. /\ poller' = [poller EXCEPT ![p] = [@ EXCEPT !.pc = "insert", !.row = Len(diagnosis) + 1]]
            /\ LaunchWanted /\ UNCHANGED diagnosis
        BY <1>8, <2>2 DEF ReadJob
      <3>2. /\ poller' \in [Pollers -> PollerType] /\ poller'[p].row = n + 1
            /\ \A q \in Pollers \ {p} : poller'[q] = poller[q]
        BY <1>1, <3>1, InsertMoves DEF DiagnosisInv
      <3>3. \A g \in 1..n : diagnosis[g] # "queued"
        <4>1. ASSUME NEW g \in 1..n, diagnosis[g] = "queued" PROVE FALSE
          <5>1. g = n
            BY <1>1, <4>1 DEF DiagnosisInv
          <5>2. diagnosis # <<>>
            BY <1>1, <4>1
          <5> QED
            BY <3>1, <4>1, <5>1, <5>2 DEF LaunchWanted, Restartable
        <4> QED
          BY <4>1
      <3> QED
        BY <1>1, <3>1, <3>2, <3>3 DEF DiagnosisInv
    <2> QED
      BY <2>1, <2>2
  <1>9. ASSUME NEW p \in Pollers, InsertJob(p) PROVE DiagnosisInv'
    <2>1. /\ poller[p].pc = "insert" /\ diagnosis' = JobsWith(poller[p].row)
          /\ Handled(p) \/ Raises(p)
      BY <1>9 DEF InsertJob
    <2>2. /\ poller' \in [Pollers -> PollerType]
          /\ \A q \in Pollers : poller'[q].pc = "insert" => poller'[q] = poller[q]
      BY <2>1, <1>3, <1>4 DEF Handled, Raises
    <2>3. CASE poller[p].row <= n
      BY <2>1, <2>2, <2>3, <1>1, <1>2 DEF JobsWith
    <2>4. CASE ~(poller[p].row <= n)
      <3>1. /\ poller[p].row = n + 1 /\ \A g \in 1..n : diagnosis[g] # "queued"
            /\ diagnosis' = Append(diagnosis, "queued")
        <4>1. poller[p].row \in Nat /\ poller[p].row <= n + 1
          BY <2>1 DEF DiagnosisInv, PollerType
        <4>2. poller[p].row = n + 1
          BY <2>4, <4>1, <1>1
        <4>3. \A g \in 1..n : diagnosis[g] # "queued"
          BY <2>1, <4>2, <1>1 DEF DiagnosisInv
        <4> QED
          BY <2>1, <2>4, <4>2, <4>3 DEF JobsWith
      <3>2. /\ diagnosis' \in Seq(DiagnosisStatuses) /\ Len(diagnosis') = n + 1
            /\ \A g \in 1..n : diagnosis'[g] = diagnosis[g]
        BY <3>1, <1>1 DEF DiagnosisStatuses
      <3>3. DOMAIN diagnosis' = 1..n + 1
        BY <3>2
      <3>4. \A g \in DOMAIN diagnosis' : diagnosis'[g] = "queued" => g = Len(diagnosis')
        BY <3>1, <3>2, <3>3, <1>1
      <3>5. ASSUME NEW q \in Pollers, poller'[q].pc = "insert"
            PROVE  poller'[q].row <= n + 1
        BY <2>2, <3>5, <1>1 DEF DiagnosisInv
      <3>6. \A q \in Pollers : poller'[q] \in PollerType
        BY <2>2
      <3> QED
        BY <2>2, <3>2, <3>4, <3>5, <3>6, <1>1 DEF DiagnosisInv, PollerType
    <2> QED
      BY <2>3, <2>4
  <1>10. CASE JobEnds
    <2>1. PICK status \in DiagnosisStatuses \ {"queued"} :
             diagnosis' = [diagnosis EXCEPT ![n] = status] /\ UNCHANGED poller
      BY <1>10 DEF JobEnds
    <2>2. diagnosis' = [g \in 1..n |-> IF g = n THEN status ELSE diagnosis[g]]
      BY <2>1, <1>1
    <2>3. diagnosis' \in Seq(DiagnosisStatuses) /\ Len(diagnosis') = n
      <3>1. status \in DiagnosisStatuses
        BY <2>1
      <3>2. \A g \in 1..n : diagnosis[g] \in DiagnosisStatuses
        BY <1>1
      <3>3. \A g \in 1..n : diagnosis'[g] \in DiagnosisStatuses
        BY <2>2, <3>1, <3>2
      <3> HIDE DEF n
      <3> QED
        BY <2>2, <3>3, <1>1
    <2>4. \A g \in 1..n : diagnosis'[g] = "queued" => diagnosis[g] = "queued"
      BY <2>1, <2>2
    <2> QED
      BY <2>1, <2>3, <2>4, <1>2 DEF DiagnosisInv
  <1>11. CASE IncidentCloses
    <2>1. /\ diagnosis' = [g \in 1..n |-> IF diagnosis[g] = "queued" THEN "cancelled" ELSE diagnosis[g]]
          /\ UNCHANGED poller
      BY <1>11, <1>1 DEF IncidentCloses
    <2>2. diagnosis' \in Seq(DiagnosisStatuses) /\ Len(diagnosis') = n
      BY <2>1, <1>1 DEF DiagnosisStatuses
    <2>3. \A g \in 1..n : diagnosis'[g] = "queued" => diagnosis[g] = "queued"
      BY <2>1
    <2> QED
      BY <2>1, <2>2, <2>3, <1>2 DEF DiagnosisInv
  <1>12. CASE LeaseExpires \/ AnsweredElsewhere \/ ReportChoice \/ ConsoleTurns \/ UNCHANGED telegramVars
    BY <1>1, <1>2, <1>12
       DEF LeaseExpires, AnsweredElsewhere, ReportChoice, ConsoleTurns, telegramVars, DiagnosisInv
  <1> QED
    BY <1>6, <1>7, <1>8, <1>9, <1>10, <1>11, <1>12 DEF TelegramNext

TelegramInv == UpdateInv /\ DiagnosisInv /\ OneAnswerEverywhere

LEMMA TelegramStarts == TelegramInit => TelegramInv
  <1> SUFFICES ASSUME TelegramInit PROVE TelegramInv
    OBVIOUS
  <1> USE DEF TelegramInit
  <1>1. Len(script) \in Nat
    BY TelegramAssumption
  <1>2. poller \in [Pollers -> PollerType] /\ \A p \in Pollers : poller[p].pc = "idle"
    BY WaitingIsTyped
  <1>3. UpdateTypes
    BY <1>1, <1>2 DEF UpdateTypes
  <1>4. \A u \in Updates : UpdateIsOwned(u)
    BY <1>2 DEF UpdateIsOwned, Applies, ApplyingPcs, Updates
  <1>5. UpdateInv
    BY <1>1, <1>2, <1>3, <1>4 DEF UpdateInv, PollerIsInOrder
  <1>6. DiagnosisInv
    BY <1>2 DEF DiagnosisInv
  <1> QED
    BY <1>5, <1>6 DEF TelegramInv, OneAnswerEverywhere

LEMMA OneIsQueued == DiagnosisInv => OneDiagnosis
  <1> SUFFICES ASSUME DiagnosisInv PROVE OneDiagnosis
    OBVIOUS
  <1> DEFINE queued == {g \in DOMAIN diagnosis : diagnosis[g] = "queued"}
  <1>1. queued \subseteq {Len(diagnosis)}
    BY DEF DiagnosisInv
  <1>2. IsFiniteSet({Len(diagnosis)}) /\ Cardinality({Len(diagnosis)}) = 1
    BY FS_Singleton
  <1>3. Cardinality(queued) <= 1
    BY <1>1, <1>2, FS_Subset
  <1> QED
    BY <1>3 DEF OneDiagnosis

LEMMA TelegramKept == TelegramInv /\ [TelegramNext]_telegramVars => TelegramInv'
  <1>1. DiagnosisInv => Len(diagnosis) \in Nat
    BY DEF DiagnosisInv
  <1> QED
    BY <1>1, UpdatesKept, DiagnosesKept, AnswersKept DEF TelegramInv

LEMMA TelegramShows == TelegramInv => TelegramIsExact
  <1> SUFFICES ASSUME TelegramInv PROVE TelegramIsExact
    OBVIOUS
  <1>1. UpdatesAreAccountedFor
    BY DEF TelegramInv, UpdateInv, UpdatesAreAccountedFor, UpdateIsOwned, IsSettled
  <1>2. OwnerActsOnce
    BY DEF TelegramInv, UpdateInv, OwnerActsOnce, UpdateIsOwned
  <1> QED
    BY <1>1, <1>2, OneIsQueued DEF TelegramInv, TelegramIsExact

\* An update of Telegram is applied once or lost with its poller; the card shows no answer
\* but the stored one, which is Agent Herder's unless a resolver reported it or Herder named
\* none of the options; one diagnosis is under way; and a command of the owner is applied
\* again only after its reply failed (poll_once, telegram_interactions.py).
THEOREM UpdatesAreExact == TelegramSpec => []TelegramIsExact
  BY TelegramStarts, TelegramKept, TelegramShows, PTL DEF TelegramSpec
-----------------------------------------------------------------------------
(***************************************************************************)
(* The bounds of AgentJobs                                                 *)
(***************************************************************************)
\* Sessions are continued in order, each under the delivery that asked for it.
JobBounds ==
    /\ \A a \in Submissions : submission[a].continues \in 0..Len(session)
    /\ \A r \in Runs : run[r].session \in 0..Len(session)
    /\ \A s \in Sessions :
          /\ session[s].continues \in 0..s - 1
          /\ session[s].continues = submission[session[s].creator[1]].continues
    /\ turns \in 0..MaxTurns /\ forewarned \subseteq Runs

LEMMA JobsAreTyped ==
    ASSUME JobInv
    PROVE  /\ Len(session) \in Nat /\ Sessions = 1..Len(session)
           /\ \A s \in Sessions : session[s] \in SessionType /\ session[s].creator[1] \in Submissions
           /\ \A r \in Runs : run[r] \in HelperType
           /\ \A a \in Submissions : submission[a] \in SubmissionType
  <1>1. Len(session) \in Nat /\ Sessions = 1..Len(session)
    BY DEF JobInv, JobTypes, Sessions
  <1>2. \A s \in Sessions : session[s] \in SessionType
    BY DEF JobInv, JobTypes, Sessions
  <1>3. \A s \in Sessions : session[s].creator[1] \in Submissions
    BY <1>2, RunTypes DEF SessionType
  <1> QED
    BY <1>1, <1>2, <1>3 DEF JobInv, JobTypes

\* Every delivery creates at most one session.
LEMMA FewSessions ==
    ASSUME JobInv, JobBounds
    PROVE  Len(session) <= MaxSubmissions
  <1> DEFINE f == [s \in Sessions |-> session[s].creator[1]]
  <1>1. f \in [Sessions -> Submissions]
    BY JobsAreTyped
  <1>2. /\ IsFiniteSet(Sessions) /\ Cardinality(Sessions) = Len(session)
        /\ IsFiniteSet(Submissions) /\ Cardinality(Submissions) = MaxSubmissions
    <2>1. \A n \in Nat : IsFiniteSet(1..n) /\ Cardinality(1..n) = n
      BY FS_Interval
    <2>2. Len(session) \in Nat /\ MaxSubmissions \in Nat /\ Sessions = 1..Len(session)
      BY JobsAreTyped, AgentJobsAssumption
    <2> QED
      BY <2>1, <2>2 DEF Submissions
  <1>3. \A s, t \in Sessions : f[s] = f[t] => s = t
    BY DEF JobInv, JobBounds, OneExecutor
  <1>4. ~(MaxSubmissions < Len(session))
    <2> HIDE DEF f
    <2> QED
      BY <1>1, <1>2, <1>3, FS_PigeonHole
  <1> QED
    BY <1>4, JobsAreTyped, AgentJobsAssumption

LEMMA JobsStayTyped ==
    ASSUME JobInv, JobBounds
    PROVE  AgentTypeOK
  <1>1. Len(session) <= MaxSubmissions /\ MaxSubmissions \in Nat
    BY FewSessions, AgentJobsAssumption
  <1>2. submission \in [Submissions ->
           [status : {"absent", "post", "poll", "direct"} \cup Receipts, continues : 0..Len(session)]]
    BY DEF JobInv, JobTypes, SubmissionType, JobBounds
  <1>3. run \in [Runs -> [pc : Unreceived \cup Receipts, session : 0..Len(session),
                          created : BOOLEAN, called : BOOLEAN]]
    BY DEF JobInv, JobTypes, HelperType, JobBounds
  <1>4. ASSUME NEW s \in Sessions
        PROVE  session[s] \in [operation : 0..2 * MaxSubmissions, continues : 0..s - 1, creator : Runs,
                               ended : {"no", "idle", "failed"}, armed : BOOLEAN,
                               stoppers : SUBSET Runs, forbidden : BOOLEAN]
    <2>1. session[s] \in SessionType /\ s \in 1..Len(session) /\ Len(session) \in Nat
      BY JobsAreTyped
    <2>2. session[s].continues \in 0..s - 1 /\ session[s].operation = session[s].continues
      BY DEF JobBounds, JobInv, SessionIsOwned
    <2>3. session[s].operation \in 0..2 * MaxSubmissions
      BY <1>1, <2>1, <2>2
    <2> QED
      BY <2>1, <2>2, <2>3 DEF SessionType
  <1> QED
    BY <1>2, <1>3, <1>4 DEF AgentTypeOK, JobInv, JobTypes, JobBounds

LEMMA JobBoundsStart == AgentInit => JobBounds
  <1> SUFFICES ASSUME AgentInit PROVE JobBounds
    OBVIOUS
  <1>1. Len(session) = 0 /\ Sessions = {}
    BY DEF AgentInit, Sessions
  <1> QED
    BY <1>1, AgentJobsAssumption DEF AgentInit, JobBounds, NoHelper

\* Sessions only come to those there are.
JobsGrow ==
    /\ Len(session) <= Len(session')
    /\ \A s \in Sessions : /\ session'[s].continues = session[s].continues
                           /\ session'[s].creator = session[s].creator
LEMMA BoundsStay ==
    ASSUME JobInv, JobInv', JobBounds, JobsGrow, UNCHANGED <<turns, forewarned>>,
           \A a \in Submissions :
              \/ submission'[a].continues = submission[a].continues
              \/ /\ submission[a].status \in {"absent", "post"}
                 /\ submission'[a].continues \in 0..Len(session),
           \A r \in Runs : run'[r].session \in 0..Len(session'),
           \A s \in Sessions' \ Sessions :
              /\ session'[s].continues \in 0..s - 1
              /\ session'[s].continues = submission'[session'[s].creator[1]].continues
    PROVE  JobBounds'
  <1>a. Len(session) \in Nat /\ Len(session') \in Nat /\ Sessions = 1..Len(session)
    BY JobsAreTyped DEF JobInv, JobTypes
  <1>1. ASSUME NEW s \in Sessions
        PROVE  submission'[session[s].creator[1]].continues = submission[session[s].creator[1]].continues
    <2>1. session[s].creator \in Runs /\ session[s].creator[1] \in Submissions
      BY JobsAreTyped DEF SessionType
    <2>2. run[session[s].creator].called
      BY DEF JobInv, SessionIsOwned
    <2>3. submission[session[s].creator[1]].status \notin {"absent", "post"}
      BY <2>1, <2>2 DEF JobInv, RunIsLawful
    <2> QED
      BY <2>1, <2>3
  <1>2. \A a \in Submissions : submission'[a].continues \in 0..Len(session')
    BY <1>a DEF JobBounds, JobsGrow
  <1>3. ASSUME NEW s \in Sessions'
        PROVE  /\ session'[s].continues \in 0..s - 1
               /\ session'[s].continues = submission'[session'[s].creator[1]].continues
    BY <1>1 DEF JobBounds, JobsGrow
  <1> QED
    BY <1>2, <1>3 DEF JobBounds

LEMMA SessionsStand ==
    ASSUME JobInv, JobBounds, UNCHANGED session
    PROVE  /\ JobsGrow /\ Sessions' \ Sessions = {}
           /\ Len(session') = Len(session) /\ Len(session) \in Nat
  BY JobsAreTyped DEF JobsGrow, Sessions

LEMMA WorkerStaysBounded ==
    ASSUME JobInv, JobInv', JobBounds, NEW a \in Submissions, Submit(a) \/ PostJob(a) \/ Collect(a)
    PROVE  JobBounds'
  <1>a. /\ UNCHANGED <<session, turns, forewarned>> /\ JobsGrow /\ Sessions' \ Sessions = {}
        /\ Len(session) \in Nat /\ Sessions = 1..Len(session)
        /\ \A r \in Runs : run[r].session \in 0..Len(session')
    BY SessionsStand, JobsAreTyped DEF Submit, PostJob, Collect, JobBounds
  <1>b. \A b \in Submissions : submission[b] \in SubmissionType
    BY JobsAreTyped
  <1>1. CASE Submit(a)
    <2>1. PICK s \in {0} \cup Sessions :
             submission' = [submission EXCEPT ![a] = [status |-> "post", continues |-> s]]
      BY <1>1 DEF Submit
    <2>2. s \in 0..Len(session) /\ submission[a].status = "absent"
      BY <1>a, <1>1 DEF Submit
    <2>3. \A b \in Submissions :
              \/ submission'[b].continues = submission[b].continues
              \/ b = a /\ submission'[b].continues = s
      BY <2>1 DEF JobInv, JobTypes
    <2>4. run' = run
      BY <1>1 DEF Submit
    <2> QED
      BY <1>a, <2>2, <2>3, <2>4, BoundsStay
  <1>2. ASSUME NEW status, Becomes(a, status)
        PROVE  \A b \in Submissions : submission'[b].continues = submission[b].continues
    BY <1>2, <1>b DEF Becomes, SubmissionType, JobInv, JobTypes
  <1>3. CASE Collect(a)
    <2>1. \A b \in Submissions : submission'[b].continues = submission[b].continues
      BY <1>2, <1>3 DEF Collect
    <2>2. run' = run
      BY <1>3 DEF Collect
    <2> QED
      BY <1>a, <2>1, <2>2, BoundsStay
  <1>4. CASE PostJob(a)
    <2>1. \A b \in Submissions : submission'[b].continues = submission[b].continues
      BY <1>2, <1>4 DEF PostJob
    <2>2. [NoHelper EXCEPT !.pc = "check"].session = 0
      BY DEF NoHelper
    <2>3. \A r \in Runs : run'[r].session \in 0..Len(session')
      BY <1>a, <1>4, <2>2 DEF PostJob
    <2> QED
      BY <1>a, <2>1, <2>3, BoundsStay
  <1> QED
    BY <1>1, <1>3, <1>4

LEMMA MovesStay ==
    ASSUME JobInv, JobBounds, NEW r \in Runs, NEW pc, Moves(r, pc)
    PROVE  \A q \in Runs : run'[q].session = run[q].session
  BY JobsAreTyped DEF Moves, HelperType, JobInv, JobTypes

LEMMA RunStaysBounded ==
    ASSUME JobInv, JobInv', JobBounds, NEW r \in Runs,
           \/ RunRaises(r) \/ CheckOwner(r) \/ CheckSources(r) \/ CheckAgain(r)
           \/ ObserveSession(r) \/ ObservationRaises(r)
    PROVE  JobBounds'
  <1>1. UNCHANGED <<submission, session, turns, forewarned>>
    BY DEF RunRaises, CheckOwner, CheckSources, CheckAgain, ObserveSession, ObservationRaises, Quiet
  <1>2. \A q \in Runs : run'[q].session = run[q].session
    BY MovesStay
    DEF RunRaises, CheckOwner, CheckSources, CheckAgain, ObserveSession, ObservationRaises, ReadOwner
  <1> QED
    BY <1>1, <1>2, SessionsStand, BoundsStay DEF JobBounds

LEMMA CallStaysBounded ==
    ASSUME JobInv, JobInv', JobBounds, NEW r \in Runs, Call(r)
    PROVE  JobBounds'
  <1>a. /\ UNCHANGED <<submission, turns, forewarned>> /\ r[1] \in Submissions
        /\ Len(session) \in Nat /\ Sessions = 1..Len(session)
        /\ \A q \in Runs : run[q].session \in 0..Len(session)
        /\ submission[r[1]].continues \in 0..Len(session)
    BY JobsAreTyped, RunTypes DEF Call, Quiet, JobBounds
  <1>1. CASE UNCHANGED session
    <2>1. \A q \in Runs : run'[q].session \in 0..Len(session)
      <3>1. \/ \E s \in Admitted(r) :
                  run' = [run EXCEPT ![r] = [pc |-> "arm", session |-> s, created |-> FALSE, called |-> TRUE]]
            \/ run' = [run EXCEPT ![r] = [run[r] EXCEPT !.pc = "raised", !.called = TRUE]]
        <4>1. Append(session, Created(r)) # session
          BY <1>a DEF JobInv, JobTypes
        <4> QED
          BY <1>1, <4>1 DEF Call
      <3>2. CASE \E s \in Admitted(r) :
                  run' = [run EXCEPT ![r] = [pc |-> "arm", session |-> s, created |-> FALSE, called |-> TRUE]]
        BY <1>a, <3>2 DEF Admitted, JobInv, JobTypes
      <3>3. CASE run' = [run EXCEPT ![r] = [run[r] EXCEPT !.pc = "raised", !.called = TRUE]]
        <4>1. run[r] \in HelperType
          BY JobsAreTyped
        <4>2. [run[r] EXCEPT !.pc = "raised", !.called = TRUE].session = run[r].session
          BY <4>1 DEF HelperType
        <4> QED
          BY <1>a, <3>3, <4>2 DEF JobInv, JobTypes
      <3> QED
        BY <3>1, <3>2, <3>3
    <2> QED
      BY <1>a, <1>1, <2>1, SessionsStand, BoundsStay
  <1>2. CASE session' = Append(session, Created(r))
    <2>1. /\ Len(session') = Len(session) + 1 /\ session'[Len(session) + 1] = Created(r)
          /\ \A s \in Sessions : session'[s] = session[s]
      BY <1>a, <1>2 DEF JobInv, JobTypes
    <2>2. Sessions' \ Sessions = {Len(session) + 1}
      BY <1>a, <2>1, JobsAreTyped DEF JobInv, JobTypes, Sessions
    <2>3. Created(r).continues = submission[r[1]].continues /\ Created(r).creator = r
      BY DEF Created
    <2>4. \A q \in Runs : run'[q].session \in 0..Len(session')
      <3>1. \/ \E s \in Sessions \cup {Len(session) + 1}, created \in BOOLEAN :
                  run' = [run EXCEPT ![r] = [pc |-> "arm", session |-> s, created |-> created, called |-> TRUE]]
            \/ run' = [run EXCEPT ![r] = [run[r] EXCEPT !.pc = "raised", !.called = TRUE]]
        BY DEF Call, Admitted
      <3>2. CASE \E s \in Sessions \cup {Len(session) + 1}, created \in BOOLEAN :
                  run' = [run EXCEPT ![r] = [pc |-> "arm", session |-> s, created |-> created, called |-> TRUE]]
        BY <1>a, <2>1, <3>2 DEF JobInv, JobTypes
      <3>3. CASE run' = [run EXCEPT ![r] = [run[r] EXCEPT !.pc = "raised", !.called = TRUE]]
        <4>1. run[r] \in HelperType
          BY JobsAreTyped
        <4>2. [run[r] EXCEPT !.pc = "raised", !.called = TRUE].session = run[r].session
          BY <4>1 DEF HelperType
        <4> QED
          BY <1>a, <2>1, <3>3, <4>2 DEF JobInv, JobTypes
      <3> QED
        BY <3>1, <3>2, <3>3
    <2>5. JobsGrow
      BY <1>a, <2>1 DEF JobsGrow
    <2>6. \A s \in Sessions' \ Sessions :
             /\ session'[s].continues \in 0..s - 1
             /\ session'[s].continues = submission'[session'[s].creator[1]].continues
      BY <1>a, <2>1, <2>2, <2>3
    <2> QED
      BY <1>a, <2>4, <2>5, <2>6, BoundsStay
  <1> QED
    BY <1>1, <1>2 DEF Call

LEMMA SessionStaysBounded ==
    ASSUME JobInv, JobInv', JobBounds,
           \/ \E r \in Runs : Arm(r) \/ StopSession(r)
           \/ \E s \in Sessions : SessionEnds(s)
    PROVE  JobBounds'
  <1>a. /\ UNCHANGED <<submission, turns, forewarned>>
    BY DEF Arm, StopSession, SessionEnds, Quiet
  <1>b. \A s \in Sessions : session[s] \in SessionType
    BY JobsAreTyped
  <1>c. PICK s \in Sessions, x \in SessionType :
           /\ session' = [session EXCEPT ![s] = x]
           /\ x.continues = session[s].continues /\ x.creator = session[s].creator
    <2>1. ASSUME NEW r \in Runs, Arm(r)
          PROVE  \E armed \in BOOLEAN :
                    session' = [session EXCEPT ![run[r].session] =
                                  [session[run[r].session] EXCEPT !.armed = armed]]
      <3>1. run[r].session \in Sessions
        BY <2>1 DEF Arm, JobInv, RunIsLawful
      <3>2. session[run[r].session].armed \in BOOLEAN
        BY <1>b, <3>1 DEF SessionType
      <3> QED
        BY <2>1, <3>2 DEF Arm
    <2>2. ASSUME NEW s \in Sessions, NEW armed \in BOOLEAN
          PROVE  LET x == [session[s] EXCEPT !.armed = armed]
                 IN  /\ x \in SessionType
                     /\ x.continues = session[s].continues /\ x.creator = session[s].creator
      BY <1>b DEF SessionType
    <2>3. CASE \E r \in Runs : Arm(r)
      <3>1. PICK r \in Runs : Arm(r)
        BY <2>3
      <3>2. run[r].session \in Sessions
        BY <3>1 DEF Arm, JobInv, RunIsLawful
      <3>3. PICK armed \in BOOLEAN :
               session' = [session EXCEPT ![run[r].session] =
                             [session[run[r].session] EXCEPT !.armed = armed]]
        BY <2>1, <3>1
      <3> QED
        BY <2>2, <3>2, <3>3
    <2>4. CASE \E r \in Runs : StopSession(r)
      <3>1. PICK r \in Runs : StopSession(r)
        BY <2>4
      <3>2. run[r].session \in Sessions
        BY <3>1 DEF StopSession, JobInv, RunIsLawful
      <3> DEFINE s == run[r].session
                 x == [session[s] EXCEPT !.stoppers = @ \cup {r},
                                         !.ended = IF @ = "no" THEN "failed" ELSE @]
      <3>3. x \in SessionType /\ x.continues = session[s].continues /\ x.creator = session[s].creator
        <4>1. session[s] \in SessionType
          BY <1>b, <3>2
        <4>2. /\ session[s].stoppers \cup {r} \in SUBSET Runs
              /\ (IF session[s].ended = "no" THEN "failed" ELSE session[s].ended) \in {"no", "idle", "failed"}
          BY <4>1 DEF SessionType
        <4> HIDE DEF s
        <4> QED
          BY <4>1, <4>2 DEF SessionType
      <3>4. session' = [session EXCEPT ![s] = x]
        <4>1. session' = [session EXCEPT ![s].stoppers = @ \cup {r},
                                         ![s].ended = IF @ = "no" THEN "failed" ELSE @]
          BY <3>1 DEF StopSession
        <4> QED
          BY <1>b, <3>2, <3>3, <4>1 DEF SessionType, JobInv, JobTypes
      <3> HIDE DEF x
      <3> QED
        BY <3>2, <3>3, <3>4
    <2>5. CASE \E s \in Sessions : SessionEnds(s)
      <3>1. PICK s \in Sessions, ended \in {"idle", "failed"} :
               session' = [session EXCEPT ![s] = [session[s] EXCEPT !.ended = ended]]
        BY <2>5 DEF SessionEnds
      <3> DEFINE x == [session[s] EXCEPT !.ended = ended]
      <3>2. x \in SessionType /\ x.continues = session[s].continues /\ x.creator = session[s].creator
        BY <1>b DEF SessionType
      <3>3. session' = [session EXCEPT ![s] = x]
        BY <3>1
      <3> HIDE DEF x
      <3> QED
        BY <3>2, <3>3
    <2> QED
      BY <2>3, <2>4, <2>5
  <1>1. Sessions' = Sessions /\ Len(session') = Len(session) /\ Len(session) \in Nat
    BY <1>c, JobsAreTyped DEF Sessions, JobInv, JobTypes
  <1>2. \A t \in Sessions : /\ session'[t].continues = session[t].continues
                            /\ session'[t].creator = session[t].creator
    BY <1>c DEF Sessions
  <1>3. \A q \in Runs : run'[q].session = run[q].session
    <2>1. \/ run' = run \/ \E r \in Runs, pc \in {"observe", "stop", "held"} : Moves(r, pc)
      BY DEF Arm, StopSession, SessionEnds, Unarmed
    <2> QED
      BY <2>1, MovesStay
  <1> QED
    BY <1>a, <1>1, <1>2, <1>3, BoundsStay DEF JobsGrow, JobBounds

LEMMA JobBoundsKept == JobInv /\ JobInv' /\ JobBounds /\ [AgentNext]_agentVars => JobBounds'
  <1> SUFFICES ASSUME JobInv, JobInv', JobBounds, [AgentNext]_agentVars PROVE JobBounds'
    OBVIOUS
  <1>1. CASE UNCHANGED agentVars
    BY <1>1, SessionsStand DEF agentVars, JobBounds, Sessions
  <1>2. CASE OwnerTurns
    <2>1. UNCHANGED <<submission, run, session>> /\ turns < MaxTurns /\ turns' = turns + 1
          /\ forewarned' \subseteq Runs
      BY <1>2 DEF OwnerTurns
    <2>2. turns' \in 0..MaxTurns
      BY <2>1, AgentJobsAssumption DEF JobBounds
    <2> QED
      BY <2>1, <2>2 DEF JobBounds, Sessions
  <1> QED
    BY <1>1, <1>2, WorkerStaysBounded, RunStaysBounded, CallStaysBounded, SessionStaysBounded DEF AgentNext

(***************************************************************************)
(* The bounds of HealthPlans                                               *)
(***************************************************************************)
\* The message shows a list that was attached; a delivery that does not exist has nothing,
\* and an edit that was made had a payload.
CardIsWhole(c) ==
    /\ card[c].status = "absent" => card[c] = Fresh("absent")
    /\ card[c].status = "superseded" => card[c].payload # Unbuilt
PlanBounds ==
    /\ Latest <= MaxAttached /\ shown \in 0..Latest
    /\ selection \in Plans \cup {NoPlan}
    /\ custom \in BOOLEAN /\ deferred \in BOOLEAN
    /\ \A c \in Cards : CardIsWhole(c)

LEMMA PlansStayTyped ==
    ASSUME PlanInv, ReachInv, PlanBounds
    PROVE  HealthPlansTypeOK
  <1>a. Latest \in Nat /\ MaxAttached \in Nat /\ Unbuilt = MaxAttached + 1
    BY PlansAssumption DEF ReachInv, Latest, Unbuilt
  <1>1. ASSUME NEW c \in Cards
        PROVE  card[c] \in [status : CardStatuses, payload : 0..Unbuilt, proof : BOOLEAN]
    <2>1. card[c] \in CardType /\ card[c].payload \in 0..Latest \cup {Unbuilt}
      BY DEF ReachInv, CardIsInOrder
    <2> QED
      BY <1>a, <2>1 DEF CardType, PlanBounds
  <1>2. card \in [Cards -> [status : CardStatuses, payload : 0..Unbuilt, proof : BOOLEAN]]
    BY <1>1 DEF ReachInv
  <1>3. \A c \in Cards :
           /\ card[c].status = "absent" => card[c] = Fresh("absent")
           /\ card[c].status \in {"sending", "sent", "superseded"} => card[c].payload # Unbuilt
    BY DEF PlanBounds, CardIsWhole, ReachInv, CardIsInOrder
  <1>4. selection \in Plans \cup {NoPlan} /\ remediation \subseteq Plans
    BY DEF PlanBounds, PlanInv, OneRemediation
  <1>5. shown \in 0..MaxAttached
    BY <1>a DEF PlanBounds
  <1>6. attached \in Seq(Bundles) /\ Len(attached) <= MaxAttached
    BY DEF ReachInv, PlanBounds, Latest
  <1> QED
    BY <1>2, <1>3, <1>4, <1>5, <1>6 DEF HealthPlansTypeOK, PlanInv, ProcessType, PlanBounds

LEMMA PlanBoundsStart == PlansInit => PlanBounds
  <1> SUFFICES ASSUME PlansInit PROVE PlanBounds
    OBVIOUS
  <1>1. Latest = 0 /\ shown = 0 /\ MaxAttached \in Nat
    BY PlansAssumption DEF PlansInit, Latest
  <1>2. ASSUME NEW c \in Cards
        PROVE  CardIsWhole(c)
    <2>1. card[c] = Fresh("queued") \/ card[c] = Fresh("absent")
      BY DEF PlansInit
    <2>2. Fresh("queued").status = "queued" /\ Fresh("absent").status = "absent"
      BY DEF Fresh
    <2> QED
      BY <2>1, <2>2 DEF CardIsWhole
  <1>3. selection = NoPlan /\ custom \in BOOLEAN /\ deferred \in BOOLEAN
    BY DEF PlansInit
  <1> HIDE DEF PlansInit
  <1> QED
    BY <1>1, <1>2, <1>3 DEF PlanBounds

LEMMA PlanBoundsKept ==
    PlanInv /\ ReachInv /\ PlanBounds /\ [PlansNext]_plansVars => PlanBounds'
  <1> SUFFICES ASSUME PlanInv, ReachInv, PlanBounds, [PlansNext]_plansVars PROVE PlanBounds'
    OBVIOUS
  <1>a. Latest \in Nat /\ MaxAttached \in Nat /\ card \in [Cards -> CardType]
    BY PlansAssumption DEF ReachInv, Latest
  <1>b. \A status \in CardStatuses : Fresh(status).status = status
    BY FreshCards
  <1>c. {"queued", "absent", "cancelled", "failed"} \subseteq CardStatuses
    BY DEF CardStatuses, Active
  <1>d. \A c \in Cards : card[c].payload \in 0..Latest \cup {Unbuilt} /\ CardIsWhole(c)
    BY DEF ReachInv, CardIsInOrder, PlanBounds
  <1>1. ASSUME UNCHANGED attached, shown' \in 0..Latest, UNCHANGED custom, deferred' \in BOOLEAN,
               UNCHANGED selection, \A c \in Cards : CardIsWhole(c)'
        PROVE  PlanBounds'
    BY <1>1 DEF PlanBounds, Latest
  <1>2. ASSUME NEW c \in Cards, NEW x, card' = [card EXCEPT ![c] = x],
               x.status = "absent" => x = Fresh("absent"),
               x.status = "superseded" => x.payload # Unbuilt
        PROVE  \A d \in Cards : CardIsWhole(d)'
    BY <1>2, <1>a, <1>d DEF CardIsWhole, Fresh, Unbuilt
  <1>3. ASSUME NEW p \in Processes, NEW b \in Bundles, AttachPlans(p, b)
        PROVE  PlanBounds'
    <2>1. attached' = Append(attached, b) /\ Latest < MaxAttached /\ UNCHANGED <<shown, selection, custom>>
      BY <1>3 DEF AttachPlans
    <2>2. Latest' = Latest + 1
      BY <2>1 DEF ReachInv, Latest
    <2>3. deferred' \in BOOLEAN
      BY <1>3 DEF AttachPlans, LeftBehind
    <2>4. ASSUME NEW c \in Cards
          PROVE  CardIsWhole(c)'
      <3>1. card'[c] = card[c] \/ card'[c] = Fresh("cancelled") \/ card'[c] = Fresh("queued")
        BY <1>3, <1>a, ConsolidatedCards DEF AttachPlans, GivenUp
      <3> QED
        BY <1>b, <1>c, <1>d, <3>1 DEF CardIsWhole, Fresh, Unbuilt
    <2> QED
      BY <1>a, <2>1, <2>2, <2>3, <2>4 DEF PlanBounds
  <1>4. ASSUME NEW p \in Processes, SelectPlan(p)
        PROVE  PlanBounds'
    <2>1. process[p].plan \in Plans
      BY <1>4 DEF SelectPlan, PlanInv
    <2>2. UNCHANGED <<attached, card, shown, custom, deferred>> /\ selection' \in Plans \cup {NoPlan}
      BY <1>4, <2>1 DEF SelectPlan, PlanBounds
    <2> QED
      BY <2>2 DEF PlanBounds, Latest, CardIsWhole, Fresh, Unbuilt
  <1>5. CASE UNCHANGED <<attached, card, shown, selection, custom, deferred>>
    BY <1>5 DEF PlanBounds, Latest, CardIsWhole, Fresh, Unbuilt
  <1>6. ASSUME NEW c \in Cards,
               ClaimCard(c) \/ BuildPayload(c) \/ Reserve(c) \/ CardIsUncertain(c)
        PROVE  PlanBounds'
    <2>1. PICK x \in CardType :
             card' = [card EXCEPT ![c] = x] /\ x.status \in {"claimed", "sending", "uncertain"}
      <3>1. card[c] \in CardType /\ {"claimed", "sending", "uncertain"} \subseteq CardStatuses
        BY <1>a DEF CardStatuses, Active
      <3>2. ASSUME NEW status \in {"claimed", "sending", "uncertain"},
                   card' = [card EXCEPT ![c].status = status]
            PROVE  \E x \in CardType :
                      card' = [card EXCEPT ![c] = x] /\ x.status \in {"claimed", "sending", "uncertain"}
        <4> DEFINE x == [card[c] EXCEPT !.status = status]
        <4>1. x \in CardType /\ x.status = status
          BY <3>1 DEF CardType
        <4>2. card' = [card EXCEPT ![c] = x]
          BY <3>2
        <4> HIDE DEF x
        <4> QED
          BY <4>1, <4>2
      <3>3. CASE BuildPayload(c)
        <4> DEFINE x == [card[c] EXCEPT !.payload = Latest]
        <4>1. x \in CardType /\ x.status = "claimed"
          BY <1>a, <3>1, <3>3 DEF CardType, BuildPayload
        <4>2. card' = [card EXCEPT ![c] = x]
          BY <3>3 DEF BuildPayload
        <4> HIDE DEF x
        <4> QED
          BY <4>1, <4>2
      <3> QED
        BY <1>6, <3>2, <3>3 DEF ClaimCard, Reserve, CardIsUncertain
    <2>2. \A d \in Cards : CardIsWhole(d)'
      BY <1>2, <2>1
    <2>3. UNCHANGED <<attached, custom, selection>> /\ deferred' \in BOOLEAN
      BY <1>6 DEF ClaimCard, BuildPayload, Reserve, CardIsUncertain, PlanBounds
    <2>4. shown' \in 0..Latest
      <3>1. shown' = shown \/ (card[c].status = "sending" /\ shown' = card[c].payload)
        BY <1>6 DEF ClaimCard, BuildPayload, Reserve, CardIsUncertain
      <3>2. card[c].status = "sending" => card[c].payload # Unbuilt
        BY DEF ReachInv, CardIsInOrder
      <3> QED
        BY <1>d, <3>1, <3>2 DEF PlanBounds
    <2> QED
      BY <1>1, <2>2, <2>3, <2>4
  <1>7. ASSUME NEW c \in Cards, CardIsShown(c)
        PROVE  PlanBounds'
    <2>1. PICK proof \in BOOLEAN :
             card' = [card EXCEPT ![c].status = IF c \in Creators THEN "sent" ELSE "superseded",
                                  ![c].proof = proof]
      BY <1>7 DEF CardIsShown
    <2> DEFINE x == [card[c] EXCEPT !.status = IF c \in Creators THEN "sent" ELSE "superseded",
                                    !.proof = proof]
    <2>2. x.payload = card[c].payload /\ x.status \in {"sent", "superseded"}
      BY <1>a DEF CardType
    <2>3. /\ card' = [card EXCEPT ![c] = x] /\ UNCHANGED <<attached, deferred, custom, selection>>
          /\ card[c].status = "sending" /\ shown' = card[c].payload
      BY <1>7, <2>1 DEF CardIsShown
    <2>4. card[c].payload # Unbuilt
      BY <2>3 DEF ReachInv, CardIsInOrder
    <2> HIDE DEF x
    <2>5. \A d \in Cards : CardIsWhole(d)'
      BY <1>2, <2>2, <2>3, <2>4
    <2>6. shown' \in 0..Latest
      BY <1>d, <2>3, <2>4
    <2> QED
      BY <1>1, <2>3, <2>5, <2>6 DEF PlanBounds
  <1>8. ASSUME NEW c \in Cards, CardIsRefused(c)
        PROVE  PlanBounds'
    <2>1. PICK status \in {"queued", "failed"} : card' = [card EXCEPT ![c] = Fresh(status)]
      BY <1>8 DEF CardIsRefused
    <2>2. \A d \in Cards : CardIsWhole(d)'
      BY <1>2, <1>b, <1>c, <2>1
    <2> QED
      BY <1>1, <1>8, <2>2 DEF CardIsRefused, PlanBounds
  <1>9. CASE Withdraw
    <2>1. \A c \in Cards : card'[c] = card[c] \/ card'[c] = Fresh("cancelled")
      BY <1>9, <1>a DEF Withdraw, Waited, Without
    <2>2. \A d \in Cards : CardIsWhole(d)'
      BY <1>b, <1>c, <1>d, <2>1 DEF CardIsWhole, Fresh, Unbuilt
    <2> QED
      BY <1>1, <1>9, <2>2 DEF Withdraw, PlanBounds
  <1> QED
    BY <1>3, <1>4, <1>5, <1>6, <1>7, <1>8, <1>9 DEF PlansNext, plansVars, AskForPlan, CheckPlan

(***************************************************************************)
(* The bounds of HealthRepair                                              *)
(***************************************************************************)
CardFields ==
    /\ announced \in BOOLEAN /\ review \in BOOLEAN /\ muted \in BOOLEAN
    /\ decision \in {"none", "show", "hide"}
    /\ first \in {"withheld", "queued", "sent", "cancelled"}
CaseFields ==
    /\ incident \in {"open", "resolved"} /\ closers \subseteq Resolvers \cup Measurements
    /\ finished \in BOOLEAN /\ offered \in BOOLEAN
    /\ selected \in PlanIds \cup {NoSelection} /\ progress \subseteq PlanIds
    /\ deaths \in 0..MaxDeaths

\* The remediation exists, and is run, only for a plan that was selected.
RemediationHasPlan ==
    selected = NoSelection =>
        /\ job["remediation"].status = "absent"
        /\ agent["remediation"].pc = "idle" /\ closing["agent"].pc = "idle"

\* A resolver rests or names a verification that there is.
ClosingIsWhole(r) ==
    /\ closing[r].pc = "idle" => closing[r] = Resting
    /\ closing[r].pc = "asked" => closing[r].verified \in Verifications

RepairBounds ==
    /\ CardFields /\ CaseFields /\ RemediationHasPlan
    /\ \A r \in Resolvers : ClosingIsWhole(r)
    /\ \A j \in Jobs : job[j].tries <= MaxTries

RepairSafe == RepairInv /\ WorkInv /\ DecisionInv

LEMMA RepairStaysTyped ==
    ASSUME RepairSafe, RepairBounds
    PROVE  HealthRepairTypeOK
  <1>a. /\ Len(verified) \in Nat /\ MaxVerifications \in Nat /\ Len(verified) <= MaxVerifications
        /\ Verifications = 1..Len(verified)
    BY RepairAssumption DEF RepairSafe, RepairInv, RepairTypes, Verifications
  <1>1. ASSUME NEW r \in Resolvers
        PROVE  /\ closing[r] \in [pc : {"idle", "asked", "proven", "recorded", "closed"},
                                  verified : 0..MaxVerifications]
               /\ closing[r] # Resting => closing[r].verified \in 1..Len(verified)
    <2>1. closing[r] \in ClosingType /\ IsJustified(r) /\ ClosingIsWhole(r)
      BY DEF RepairSafe, RepairInv, RepairTypes, RepairBounds
    <2>2. closing[r].pc \in {"idle", "asked", "proven", "recorded", "closed"}
      BY <2>1 DEF ClosingType
    <2>3. closing[r] # Resting => closing[r].verified \in Verifications
      BY <2>1, <2>2 DEF IsJustified, ClosingIsWhole
    <2>4. closing[r].verified \in 0..MaxVerifications
      BY <1>a, <2>3 DEF Resting
    <2> QED
      BY <1>a, <2>1, <2>3, <2>4 DEF ClosingType
  <1>2. closing \in [Resolvers -> [pc : {"idle", "asked", "proven", "recorded", "closed"},
                                   verified : 0..MaxVerifications]]
    BY <1>1 DEF RepairSafe, RepairInv, RepairTypes
  <1>3. job \in [Jobs -> [status : JobStatuses, tries : 0..MaxTries]]
    BY RepairAssumption DEF RepairSafe, DecisionInv, JobType, RepairBounds
  <1>4. agent \in [Jobs -> [pc : {"idle", "launched", "judged", "reported", "closing", "done"},
                            result : DiagnosisResults \cup {"none"}]]
    BY DEF RepairSafe, WorkInv, RunType
  <1>5. verified \in Seq(Findings) /\ recorded \in [1..MaxVerifications -> Resolvers \cup {Nobody}]
    BY DEF RepairSafe, RepairInv, RepairTypes
  <1> QED
    BY <1>a, <1>1, <1>2, <1>3, <1>4, <1>5 DEF HealthRepairTypeOK, RepairBounds, CardFields, CaseFields

LEMMA RepairBoundsStart == RepairInit => RepairBounds
  <1> SUFFICES ASSUME RepairInit PROVE RepairBounds
    OBVIOUS
  <1>0. CardFields
    BY DEF RepairInit, CardFields
  <1>1. CaseFields
    <2>1. MaxDeaths \in Nat
      BY RepairAssumption
    <2>2. /\ incident = "open" /\ closers = {} /\ finished = FALSE /\ offered = FALSE /\ selected = NoSelection
          /\ progress = {} /\ deaths = 0
      BY DEF RepairInit
    <2>3. deaths \in 0..MaxDeaths
      BY <2>1, <2>2
    <2> HIDE DEF RepairInit
    <2> QED
      BY <2>2, <2>3 DEF CaseFields
  <1>2. RemediationHasPlan
    BY DEF RepairInit, RemediationHasPlan, Jobs, NoRun, Resting, Resolvers
  <1>3. \A r \in Resolvers : ClosingIsWhole(r)
    BY DEF RepairInit, ClosingIsWhole, Resting
  <1>4. \A j \in Jobs : job[j].tries <= MaxTries
    BY RepairAssumption DEF RepairInit
  <1> QED
    BY <1>0, <1>1, <1>2, <1>3, <1>4 DEF RepairBounds

LEMMA OutcomeFields ==
    ASSUME CardFields, UNCHANGED <<review, muted>>, NEW status, Outcome(status) \/ Silence
    PROVE  CardFields'
  BY DEF CardFields, Outcome, ReviewPending, Silence, FailsOpen, FirstAfter

LEMMA CardFieldsKept ==
    ASSUME RepairSafe, CardFields, RepairNext
    PROVE  CardFields'
  <1>6. CASE UNCHANGED <<announced, cardVars>>
    BY <1>6 DEF CardFields, cardVars
  <1>1. CASE \/ DeclareFinished \/ VerifierCloses \/ WorkerDies
             \/ \E p \in PlanIds : ChoosePlan(p) \/ ReportProgress(p)
             \/ \E finding \in Findings : RecordVerification(finding)
             \/ \E r \in Resolvers : AskToClose(r) \/ RecordResolution(r)
             \/ \E j \in Jobs : Launch(j) \/ Progresses(j) \/ CompleteJob(j)
    BY <1>1, <1>6 DEF DeclareFinished, VerifierCloses, WorkerDies, ChoosePlan, ReportProgress,
       RecordVerification, AskToClose, RecordResolution, Launch, Progresses, CompleteJob
  <1>7. CASE \/ SendFirst \/ AskOperator \/ Mute \/ Unmute \/ OfferPlans
             \/ SourceRecovers \/ SourceCheckCloses \/ \E r \in Resolvers : Transition(r)
    BY <1>7 DEF CardFields, SendFirst, AskOperator, Mute, Unmute, SourceRecovers, SourceCheckCloses,
       Transition, Resolved, Dormant, OfferPlans
  <1>2. CASE \/ \E r \in Resolvers : Announce(r)
             \/ \E j \in Jobs : Interrupted(j) \/ Blocked(j)
    BY <1>2, OutcomeFields DEF Announce, Interrupted, Blocked
  <1>3. ASSUME NEW j \in Jobs, Judge(j)
        PROVE  CardFields'
    <2>1. UNCHANGED <<announced, review, muted>>
      BY <1>3 DEF Judge
    <2>2. \/ UNCHANGED <<decision, first>>
          \/ \E d \in {"show", "hide"} : decision' = d /\ first' = FirstAfter(d)
      BY <1>3 DEF Judge
    <2> QED
      BY <2>1, <2>2 DEF CardFields, FirstAfter
  <1>4. CASE ConcludeDiagnosis
    <2>1. agent["diagnosis"].result \in DiagnosisResults /\ UNCHANGED <<review, muted>>
      BY <1>4 DEF ConcludeDiagnosis, RepairSafe, WorkInv, ResultsOf, Jobs
    <2>2. \E status : Outcome(status) \/ Silence
      BY <1>4, <2>1 DEF ConcludeDiagnosis, DiagnosisOutcome, DiagnosisResults
    <2> QED
      BY <2>1, <2>2, OutcomeFields
  <1>5. CASE ConcludeRemediation
    <2>1. agent["remediation"].result \in RemediationResults /\ UNCHANGED <<review, muted>>
      BY <1>5 DEF ConcludeRemediation, RepairSafe, WorkInv, ResultsOf, Jobs
    <2>2. \E status : Outcome(status) \/ Silence
      <3>1. CASE agent["remediation"].result = "degraded"
        BY <1>5, <3>1 DEF ConcludeRemediation
      <3>2. CASE agent["remediation"].result = "repaired" /\ GateOpens("agent")
        BY <1>5, <3>2 DEF ConcludeRemediation
      <3>3. CASE agent["remediation"].result = "repaired" /\ ~GateOpens("agent")
        BY <1>5, <3>3 DEF ConcludeRemediation
      <3>4. CASE agent["remediation"].result \in {"observing", "failed", "rejected"}
        BY <1>5, <3>4 DEF ConcludeRemediation
      <3> QED
        BY <2>1, <3>1, <3>2, <3>3, <3>4 DEF RemediationResults
    <2> QED
      BY <2>1, <2>2, OutcomeFields
  <1> QED
    BY <1>1, <1>2, <1>3, <1>4, <1>5, <1>7 DEF RepairNext

LEMMA CaseFieldsKept ==
    ASSUME CaseFields, RemediationHasPlan, RepairNext
    PROVE  CaseFields'
  <1>1. CASE UNCHANGED <<incident, closers, finished, offered, selected, progress, deaths>>
    BY <1>1 DEF CaseFields
  <1>2. CASE OfferPlans \/ DeclareFinished
    BY <1>2 DEF CaseFields, OfferPlans, DeclareFinished, proofVars
  <1>7. CASE SourceRecovers \/ SourceCheckCloses \/ \E r \in Resolvers : Transition(r)
    <2>1. /\ incident' = "resolved" /\ UNCHANGED <<finished, offered, selected, progress, deaths>>
          /\ \E by \in Resolvers \cup Measurements : closers' = closers \cup {by}
      BY <1>7 DEF SourceRecovers, SourceCheckCloses, Transition, Resolved, Measurements, proofVars
    <2> QED
      BY <2>1 DEF CaseFields
  <1>3. CASE \E p \in PlanIds : ChoosePlan(p) \/ ReportProgress(p)
    BY <1>3 DEF CaseFields, ChoosePlan, ReportProgress
  <1>4. CASE WorkerDies
    BY <1>4, RepairAssumption DEF CaseFields, WorkerDies, proofVars
  <1>5. ASSUME NEW j \in Jobs, Progresses(j)
        PROVE  CaseFields'
    <2>1. UNCHANGED <<incident, closers, finished, offered, selected, deaths>>
      BY <1>5 DEF Progresses
    <2>2. PlanOf(j) \in PlanIds
      <3>1. j = "remediation" => selected # NoSelection
        BY <1>5 DEF Progresses, RemediationHasPlan
      <3> QED
        BY <3>1 DEF PlanOf, PlanIds, CaseFields
    <2>3. progress' = progress \/ progress' = progress \cup {PlanOf(j)}
      BY <1>5 DEF Progresses
    <2> QED
      BY <2>1, <2>2, <2>3 DEF CaseFields
  <1>6. CASE \/ SendFirst \/ AskOperator \/ Mute \/ Unmute
             \/ VerifierCloses \/ ConcludeDiagnosis \/ ConcludeRemediation
             \/ \E finding \in Findings : RecordVerification(finding)
             \/ \E r \in Resolvers : AskToClose(r) \/ RecordResolution(r) \/ Announce(r)
             \/ \E j \in Jobs : Launch(j) \/ Judge(j) \/ CompleteJob(j) \/ Interrupted(j) \/ Blocked(j)
    BY <1>1, <1>6 DEF SendFirst, AskOperator, Mute, Unmute, VerifierCloses, ConcludeDiagnosis, ConcludeRemediation,
       RecordVerification, AskToClose, RecordResolution, Announce, Launch, Judge, CompleteJob,
       Interrupted, Blocked, proofVars
  <1> QED
    BY <1>2, <1>3, <1>4, <1>5, <1>6, <1>7 DEF RepairNext

LEMMA RemediationKeepsPlan ==
    ASSUME RepairSafe, RemediationHasPlan, RepairNext
    PROVE  RemediationHasPlan'
  <1>a. /\ "remediation" \in Jobs /\ "diagnosis" \in Jobs /\ NoRun.pc = "idle"
        /\ job \in [Jobs -> JobType] /\ agent \in [Jobs -> RunType]
        /\ "agent" \in Resolvers /\ Resting.pc = "idle" /\ closing \in [Resolvers -> ClosingType]
    BY DEF Jobs, NoRun, RepairSafe, DecisionInv, WorkInv, Resolvers, Resting, RepairInv, RepairTypes
  <1>1. CASE \/ SendFirst \/ AskOperator \/ Mute \/ Unmute \/ OfferPlans \/ DeclareFinished
             \/ \E p \in PlanIds : ReportProgress(p)
    BY <1>1 DEF RemediationHasPlan, SendFirst, AskOperator, Mute, Unmute, OfferPlans,
       DeclareFinished, ReportProgress, proofVars
  <1>2. CASE \E p \in PlanIds : ChoosePlan(p)
    BY <1>2 DEF RemediationHasPlan, ChoosePlan, PlanIds, NoSelection
  <1>3. CASE selected # NoSelection /\ selected' = selected
    BY <1>3 DEF RemediationHasPlan
  <1> SUFFICES ASSUME selected = NoSelection, selected' = selected PROVE RemediationHasPlan'
    <2>1. selected' = selected \/ \E p \in PlanIds : ChoosePlan(p)
      BY DEF RepairNext, SendFirst, AskOperator, Mute, Unmute, SourceRecovers, SourceCheckCloses,
         OfferPlans, DeclareFinished, VerifierCloses, ReportProgress,
         RecordVerification, AskToClose, RecordResolution, Transition, Announce, Launch, Judge,
         Progresses, CompleteJob, Interrupted, Blocked, ConcludeDiagnosis, ConcludeRemediation,
         WorkerDies, proofVars
    <2> QED
      BY <1>2, <1>3, <2>1
  <1>b. /\ job["remediation"].status = "absent" /\ agent["remediation"].pc = "idle"
        /\ closing["agent"].pc = "idle"
    BY DEF RemediationHasPlan
  <1>c. ASSUME job'["remediation"] = job["remediation"] \/ job'["remediation"].status = "absent",
               agent'["remediation"] = agent["remediation"],
               closing'["agent"] = closing["agent"] \/ closing'["agent"] = Resting
        PROVE  RemediationHasPlan'
    BY <1>a, <1>b, <1>c DEF RemediationHasPlan
  <1>4. ASSUME NEW j \in Jobs,
               \/ Launch(j) \/ Judge(j) \/ Progresses(j) \/ CompleteJob(j)
               \/ Interrupted(j) \/ Blocked(j)
        PROVE  RemediationHasPlan'
    <2>1. j = "diagnosis"
      BY <1>b, <1>4 DEF Launch, Judge, Progresses, CompleteJob, Interrupted, Blocked, Jobs
    <2>2. \A k \in Jobs \ {j} : job'[k] = job[k] /\ agent'[k] = agent[k]
      BY <1>a, <1>4 DEF Launch, Judge, Progresses, CompleteJob, Interrupted, Blocked
    <2>3. UNCHANGED closing
      BY <1>4 DEF Launch, Judge, Progresses, CompleteJob, Interrupted, Blocked
    <2> QED
      BY <1>a, <1>c, <2>1, <2>2, <2>3
  <1>d. ASSUME NEW by, Resolved(by)
        PROVE  job'["remediation"] = job["remediation"]
    <2>1. job'["remediation"] = [job["remediation"] EXCEPT !.status = job["remediation"].status]
      BY <1>a, <1>b, <1>d DEF Resolved
    <2> QED
      BY <1>a, <2>1 DEF JobType
  <1>5. ASSUME NEW r \in Resolvers,
               AskToClose(r) \/ RecordResolution(r) \/ Transition(r) \/ Announce(r)
        PROVE  RemediationHasPlan'
    <2>1. r # "agent"
      BY <1>a, <1>b, <1>5 DEF AskToClose, RecordResolution, Transition, Announce
    <2>2. UNCHANGED agent
      BY <1>5, <2>1 DEF AskToClose, RecordResolution, Transition, Announce, Accepted, Refused
    <2>3. closing'["agent"] = closing["agent"]
      BY <1>a, <1>5, <2>1 DEF AskToClose, RecordResolution, Transition, Announce, Proven
    <2>4. UNCHANGED job \/ Resolved(r)
      BY <1>5 DEF AskToClose, RecordResolution, Transition, Announce
    <2> QED
      BY <1>c, <1>d, <2>2, <2>3, <2>4
  <1>8. CASE SourceRecovers \/ SourceCheckCloses
    BY <1>c, <1>d, <1>8 DEF SourceRecovers, SourceCheckCloses
  <1>6. CASE VerifierCloses \/ \E finding \in Findings : RecordVerification(finding)
    <2>1. UNCHANGED <<job, agent>>
      BY <1>6 DEF VerifierCloses, RecordVerification
    <2>2. closing'["agent"] = closing["agent"]
      BY <1>a, <1>6 DEF VerifierCloses, RecordVerification, Proven
    <2> QED
      BY <1>c, <2>1, <2>2
  <1>7. CASE ConcludeDiagnosis \/ ConcludeRemediation \/ WorkerDies
    <2>1. ~ConcludeRemediation
      BY <1>b DEF ConcludeRemediation
    <2>2. UNCHANGED job
      BY <1>7, <2>1 DEF ConcludeDiagnosis, WorkerDies
    <2>3. agent'["remediation"] = agent["remediation"]
      BY <1>a, <1>b, <1>7, <2>1 DEF ConcludeDiagnosis, WorkerDies
    <2>4. closing'["agent"] = closing["agent"] \/ closing'["agent"] = Resting
      BY <1>a, <1>7, <2>1 DEF ConcludeDiagnosis, WorkerDies
    <2> QED
      BY <1>c, <2>2, <2>3, <2>4
  <1> QED
    BY <1>1, <1>2, <1>4, <1>5, <1>6, <1>7, <1>8 DEF RepairNext

LEMMA TriesKept ==
    ASSUME RepairSafe, \A j \in Jobs : job[j].tries <= MaxTries, RepairNext
    PROVE  \A j \in Jobs : job'[j].tries <= MaxTries
  <1>a. job \in [Jobs -> JobType] /\ \A j \in Jobs : job[j] \in JobType
    BY DEF RepairSafe, DecisionInv
  <1>1. ASSUME NEW j \in Jobs, Launch(j)
        PROVE  \A k \in Jobs : job'[k].tries <= MaxTries
    <2>1. job' = [job EXCEPT ![j] = [status |-> "sending", tries |-> job[j].tries + 1]]
      BY <1>1 DEF Launch
    <2>2. job[j].tries \in Nat /\ MaxTries \in Nat /\ job[j].tries < MaxTries
      BY <1>1, <1>a, RepairAssumption DEF JobType, Launch
    <2> QED
      BY <1>a, <2>1, <2>2
  <1>2. \/ UNCHANGED job \/ \E j \in Jobs : Launch(j)
        \/ \E j \in Jobs : \E status : job' = [job EXCEPT ![j].status = status]
        \/ \E by : Resolved(by)
    <2>1. "remediation" \in Jobs
      BY DEF Jobs
    <2>2. ASSUME NEW j \in Jobs, CompleteJob(j) \/ Interrupted(j) \/ Blocked(j)
          PROVE  \E status : job' = [job EXCEPT ![j].status = status]
      BY <2>2 DEF CompleteJob, Interrupted, Blocked
    <2> QED
      BY <2>1, <2>2 DEF RepairNext, SendFirst, AskOperator, Mute, Unmute, SourceRecovers,
         SourceCheckCloses, Transition, OfferPlans, DeclareFinished, VerifierCloses, ChoosePlan,
         ReportProgress, RecordVerification, AskToClose, RecordResolution, Announce, Judge,
         Progresses, ConcludeDiagnosis, ConcludeRemediation, WorkerDies
  <1>3. ASSUME NEW j \in Jobs, NEW status, job' = [job EXCEPT ![j].status = status]
        PROVE  \A k \in Jobs : job'[k].tries <= MaxTries
    BY <1>3, <1>a DEF JobType
  <1>4. ASSUME NEW by, Resolved(by)
        PROVE  \A k \in Jobs : job'[k].tries <= MaxTries
    BY <1>4, <1>a DEF Resolved, JobType
  <1> QED
    BY <1>1, <1>2, <1>3, <1>4

\* A resolver moves on with the verification it names, rests, or asks with the latest one.
LEMMA ClosingsStayWhole ==
    ASSUME RepairSafe, \A r \in Resolvers : ClosingIsWhole(r), RepairNext
    PROVE  \A r \in Resolvers : ClosingIsWhole(r)'
  <1>a. /\ closing \in [Resolvers -> ClosingType] /\ Resting.pc = "idle"
        /\ verified \in Seq(Findings) /\ Len(verified) \in Nat
        /\ "agent" \in Resolvers /\ "verifier" \in Resolvers
    BY DEF RepairSafe, RepairInv, RepairTypes, Resting, Resolvers
  <1>1. ASSUME NEW r \in Resolvers, NEW x, closing' = [closing EXCEPT ![r] = x],
               UNCHANGED verified, x = Resting \/ x.pc \in {"proven", "recorded", "closed"}
        PROVE  \A q \in Resolvers : ClosingIsWhole(q)'
    BY <1>1, <1>a DEF ClosingIsWhole, Verifications, Resting
  <1>2. CASE UNCHANGED <<closing, verified>>
    BY <1>2 DEF ClosingIsWhole, Verifications, Resting
  <1>3. ASSUME NEW r \in Resolvers, Proven(r), UNCHANGED verified
        PROVE  \A q \in Resolvers : ClosingIsWhole(q)'
    BY <1>1, <1>3 DEF Proven
  <1>4. ASSUME NEW r \in Resolvers, NEW pc \in {"recorded", "closed"},
               closing' = [closing EXCEPT ![r].pc = pc], UNCHANGED verified
        PROVE  \A q \in Resolvers : ClosingIsWhole(q)'
    <2> DEFINE x == [closing[r] EXCEPT !.pc = pc]
    <2>1. x.pc = pc
      BY <1>a DEF ClosingType
    <2>2. closing' = [closing EXCEPT ![r] = x]
      BY <1>4
    <2> HIDE DEF x
    <2> QED
      BY <1>1, <1>4, <2>1, <2>2
  <1>5. ASSUME NEW finding \in Findings, RecordVerification(finding)
        PROVE  \A q \in Resolvers : ClosingIsWhole(q)'
    <2>1. /\ Len(verified') = Len(verified) + 1
          /\ closing' = [closing EXCEPT !["verifier"] =
                            IF finding = "degraded" THEN Resting
                            ELSE [pc |-> "asked", verified |-> Len(verified) + 1]]
      BY <1>5, <1>a DEF RecordVerification
    <2>2. Verifications \subseteq Verifications' /\ Len(verified) + 1 \in Verifications'
      BY <1>a, <2>1 DEF Verifications
    <2>3. ASSUME NEW q \in Resolvers
          PROVE  ClosingIsWhole(q)'
      <3>1. CASE q = "verifier"
        BY <1>a, <2>1, <2>2, <3>1 DEF ClosingIsWhole, Resting
      <3>2. CASE q # "verifier"
        BY <1>a, <2>1, <2>2, <3>2 DEF ClosingIsWhole, Resting
      <3> QED
        BY <3>1, <3>2
    <2> QED
      BY <2>3
  <1>6. CASE VerifierCloses
    BY <1>1, <1>3, <1>6, <1>a DEF VerifierCloses, proofVars
  <1>7. ASSUME NEW r \in Resolvers,
               AskToClose(r) \/ RecordResolution(r) \/ Transition(r) \/ Announce(r)
        PROVE  \A q \in Resolvers : ClosingIsWhole(q)'
    <2>1. UNCHANGED verified
      BY <1>7 DEF AskToClose, RecordResolution, Transition, Announce, proofVars
    <2>2. CASE AskToClose(r)
      BY <1>3, <2>1, <2>2 DEF AskToClose
    <2>3. CASE RecordResolution(r) \/ Announce(r)
      BY <1>1, <1>4, <2>1, <2>3 DEF RecordResolution, Announce
    <2>4. CASE Transition(r)
      <3>1. \/ closing' = [closing EXCEPT ![r] = Resting]
            \/ closing' = [closing EXCEPT ![r] = [closing[r] EXCEPT !.pc = "closed"]]
        BY <2>4 DEF Transition
      <3>2. closing' = [closing EXCEPT ![r] = Resting] \/ closing' = [closing EXCEPT ![r].pc = "closed"]
        BY <3>1
      <3> QED
        BY <1>1, <1>4, <2>1, <3>2
    <2> QED
      BY <1>7, <2>2, <2>3, <2>4
  <1>8. CASE ConcludeRemediation
    <2>1. agent["remediation"].result \in RemediationResults /\ UNCHANGED verified
      BY <1>8 DEF ConcludeRemediation, RepairSafe, WorkInv, ResultsOf, Jobs, proofVars
    <2>2. UNCHANGED closing \/ Proven("agent")
      <3>1. CASE agent["remediation"].result = "repaired" /\ GateOpens("agent")
        BY <1>8, <3>1 DEF ConcludeRemediation
      <3>2. CASE agent["remediation"].result = "repaired" /\ ~GateOpens("agent")
        BY <1>8, <3>2 DEF ConcludeRemediation
      <3>3. CASE agent["remediation"].result \in {"degraded", "observing", "failed", "rejected"}
        BY <1>8, <3>3 DEF ConcludeRemediation
      <3> QED
        BY <2>1, <3>1, <3>2, <3>3 DEF RemediationResults
    <2> QED
      BY <1>2, <1>3, <1>a, <2>1, <2>2
  <1>9. CASE WorkerDies
    BY <1>1, <1>9, <1>a DEF WorkerDies, proofVars
  <1>10. CASE \/ SendFirst \/ AskOperator \/ Mute \/ Unmute \/ SourceRecovers \/ SourceCheckCloses
              \/ OfferPlans \/ DeclareFinished \/ ConcludeDiagnosis
              \/ \E p \in PlanIds : ChoosePlan(p) \/ ReportProgress(p)
              \/ \E j \in Jobs : Launch(j) \/ Judge(j) \/ Progresses(j) \/ CompleteJob(j)
                                  \/ Interrupted(j) \/ Blocked(j)
    BY <1>2, <1>10 DEF SendFirst, AskOperator, Mute, Unmute, SourceRecovers, SourceCheckCloses,
       OfferPlans, DeclareFinished, ConcludeDiagnosis, ChoosePlan,
       ReportProgress, Launch, Judge, Progresses, CompleteJob, Interrupted, Blocked, proofVars
  <1> QED
    BY <1>5, <1>6, <1>7, <1>8, <1>9, <1>10 DEF RepairNext

LEMMA RepairBoundsKept == RepairSafe /\ RepairBounds /\ [RepairNext]_repairVars => RepairBounds'
  <1> SUFFICES ASSUME RepairSafe, RepairBounds, [RepairNext]_repairVars PROVE RepairBounds'
    OBVIOUS
  <1>1. CASE UNCHANGED repairVars
    BY <1>1 DEF repairVars, RepairBounds, CardFields, CaseFields, RemediationHasPlan, ClosingIsWhole,
       Verifications, Resting
  <1>2. CASE RepairNext
    BY <1>2, CardFieldsKept, CaseFieldsKept, RemediationKeepsPlan, ClosingsStayWhole, TriesKept
    DEF RepairBounds
  <1> QED
    BY <1>1, <1>2

(***************************************************************************)
(* The bounds of TelegramInteractions                                      *)
(***************************************************************************)
PollerIsBounded(p) ==
    /\ poller[p].at \in 0..Len(script) + 1 /\ poller[p].upto \in 0..Len(script)
    /\ poller[p].row \in 0..MaxJobs + 1
ChoiceFields == {receipt, accepted, marked} \subseteq Choices \cup {NoChoice} /\ unvouched \in BOOLEAN
UpdateSets == claimed \subseteq Updates /\ excused \subseteq Updates /\ unanswered \subseteq Updates
PollFields ==
    /\ script \in Scripts
    /\ lease \in [holder : Pollers \cup {NoHolder}, expired : BOOLEAN]
    /\ pollerDeaths \in 0..MaxPollerDeaths
PolicyFields == forbidden \in BOOLEAN /\ closed \in BOOLEAN

FallbackTaps == \A p \in Pollers : poller[p].pc = "fallback" => Tap(p) \in Choices

TelegramBounds ==
    /\ ChoiceFields /\ UpdateSets /\ PollFields /\ PolicyFields /\ FallbackTaps
    /\ \A p \in Pollers : PollerIsBounded(p)
    /\ Len(diagnosis) <= MaxJobs

\* The update a poller is at.
LEMMA PollersAreTyped ==
    ASSUME TelegramInv
    PROVE  /\ Len(script) \in Nat /\ Updates = 1..Len(script)
           /\ poller \in [Pollers -> PollerType] /\ \A p \in Pollers : poller[p] \in PollerType
           /\ \A p \in Pollers : poller[p].pc \notin {"idle", "elected"} => poller[p].at \in Updates
           /\ diagnosis \in Seq(DiagnosisStatuses) /\ Len(diagnosis) \in Nat
  <1>1. /\ Len(script) \in Nat /\ Updates = 1..Len(script)
        /\ poller \in [Pollers -> PollerType] /\ \A p \in Pollers : poller[p] \in PollerType
    BY DEF TelegramInv, UpdateInv, UpdateTypes, Updates
  <1>2. ASSUME NEW p \in Pollers, poller[p].pc \notin {"idle", "elected"}
        PROVE  poller[p].at \in Updates
    <2>1. poller[p].at \in 1..poller[p].upto /\ poller[p].upto <= Len(script)
      BY <1>2 DEF TelegramInv, UpdateInv, PollerIsInOrder
    <2> QED
      BY <1>1, <2>1 DEF PollerType
  <1> QED
    BY <1>1, <1>2 DEF TelegramInv, DiagnosisInv

LEMMA TelegramStaysTyped ==
    ASSUME TelegramInv, TelegramBounds
    PROVE  TelegramTypeOK
  <1>1. poller \in [Pollers -> [pc : {"idle", "elected", "next", "complete"} \cup ApplyingPcs,
                                at : 0..Len(script) + 1, upto : 0..Len(script), row : 0..MaxJobs + 1]]
    BY PollersAreTyped DEF PollerType, TelegramBounds, PollerIsBounded
  <1>2. offset \in 1..Len(script) + 1 /\ handled \in [Updates -> Nat] /\ posted \in [Updates -> Nat]
    BY DEF TelegramInv, UpdateInv, UpdateTypes
  <1>3. \A p \in Pollers : poller[p].pc \in ApplyingPcs \cup {"complete"} => poller[p].at \in Updates
    BY PollersAreTyped DEF ApplyingPcs
  <1> QED
    BY <1>1, <1>2, <1>3, PollersAreTyped
    DEF TelegramTypeOK, TelegramBounds, ChoiceFields, UpdateSets, PollFields, PolicyFields

LEMMA TelegramBoundsStart == TelegramInit => TelegramBounds
  <1> SUFFICES ASSUME TelegramInit PROVE TelegramBounds
    OBVIOUS
  <1>a. Len(script) \in Nat /\ MaxJobs \in Nat /\ MaxPollerDeaths \in Nat
    BY TelegramAssumption DEF TelegramInit
  <1>1. ChoiceFields /\ UpdateSets
    BY DEF TelegramInit, ChoiceFields, UpdateSets
  <1>2. PollFields
    BY <1>a DEF TelegramInit, PollFields
  <1>3. PolicyFields
    BY DEF TelegramInit, PolicyFields
  <1>4. \A p \in Pollers : PollerIsBounded(p)
    BY <1>a DEF TelegramInit, PollerIsBounded, Waiting
  <1>5. Len(diagnosis) <= MaxJobs
    BY <1>a DEF TelegramInit
  <1>6. FallbackTaps
    BY DEF TelegramInit, FallbackTaps, Waiting
  <1> QED
    BY <1>1, <1>2, <1>3, <1>4, <1>5, <1>6 DEF TelegramBounds

\* Only the handler of a choice comes to the tapped option.
LEMMA FallbacksStay ==
    ASSUME TelegramInv, TelegramBounds, TelegramNext
    PROVE  FallbackTaps'
  <1>a. UNCHANGED script
    BY DEF TelegramNext, LeaseExpires, AnsweredElsewhere, ReportChoice, JobEnds, IncidentCloses,
       ConsoleTurns, Elect, Fetch, ClaimUpdate, CompleteUpdate, PollerDies, ApplyChoice, RecordChoice,
       MarkCard, ReadJob, InsertJob, ApplyOwner, PostOwner, ReplyOwner, CallHerder, Raises, queueVars
  <1>b. poller \in [Pollers -> PollerType] /\ FallbackTaps
    BY PollersAreTyped DEF TelegramBounds
  <1>1. ASSUME NEW p \in Pollers, NEW x, poller' = [poller EXCEPT ![p] = x], x.pc # "fallback"
        PROVE  FallbackTaps'
    BY <1>1, <1>a, <1>b DEF FallbackTaps, Tap
  <1>2. ASSUME NEW p \in Pollers, NEW pc, Goes(p, pc), pc # "fallback"
        PROVE  FallbackTaps'
    BY <1>2, <1>a, <1>b DEF FallbackTaps, Tap, Goes, PollerType
  <1>3. ASSUME NEW p \in Pollers, poller' = [poller EXCEPT ![p] = Waiting]
        PROVE  FallbackTaps'
    BY <1>1, <1>3, WaitingIsTyped
  <1>4. CASE UNCHANGED poller
    BY <1>4, <1>a, <1>b DEF FallbackTaps, Tap
  <1>5. ASSUME NEW p \in Pollers, ApplyChoice(p)
        PROVE  FallbackTaps'
    <2>1. CASE Goes(p, "fallback")
      BY <1>5, <1>a, <1>b, <2>1 DEF ApplyChoice, FallbackTaps, Tap, Goes, PollerType
    <2>2. CASE Goes(p, "record") \/ Goes(p, "complete")
      BY <1>2, <2>2
    <2>3. CASE poller' = [poller EXCEPT ![p] = Waiting]
      BY <1>3, <2>3
    <2> QED
      BY <1>5, <2>1, <2>2, <2>3 DEF ApplyChoice, CallHerder, Handled, Raises
  <1>6. ASSUME NEW p \in Pollers, Fetch(p)
        PROVE  FallbackTaps'
    <2>1. PICK upto : poller' = [poller EXCEPT ![p] =
                                   IF upto < offset THEN Waiting
                                   ELSE [pc |-> "next", at |-> offset, upto |-> upto, row |-> 0]]
      BY <1>6 DEF Fetch
    <2> DEFINE x == IF upto < offset THEN Waiting
                    ELSE [pc |-> "next", at |-> offset, upto |-> upto, row |-> 0]
    <2>2. x.pc # "fallback"
      BY WaitingIsTyped
    <2>3. poller' = [poller EXCEPT ![p] = x]
      BY <2>1
    <2> HIDE DEF x
    <2> QED
      BY <1>1, <2>2, <2>3
  <1>7. ASSUME NEW p \in Pollers, CompleteUpdate(p)
        PROVE  FallbackTaps'
    <2>1. AfterUpdate(p).pc # "fallback"
      BY <1>b, WaitingIsTyped DEF AfterUpdate, PollerType
    <2> QED
      BY <1>1, <1>7, <2>1 DEF CompleteUpdate
  <1>8. ASSUME NEW p \in Pollers, ReadJob(p)
        PROVE  FallbackTaps'
    <2> DEFINE x == [poller[p] EXCEPT !.pc = "insert", !.row = Len(diagnosis) + 1]
    <2>1. x.pc # "fallback"
      BY <1>b DEF PollerType
    <2>2. Goes(p, "complete") \/ poller' = [poller EXCEPT ![p] = x]
      BY <1>8 DEF ReadJob, Handled
    <2> HIDE DEF x
    <2> QED
      BY <1>1, <1>2, <2>1, <2>2
  <1>9. CASE LeaseExpires \/ AnsweredElsewhere \/ ReportChoice \/ JobEnds \/ IncidentCloses \/ ConsoleTurns
    BY <1>4, <1>9 DEF LeaseExpires, AnsweredElsewhere, ReportChoice, JobEnds, IncidentCloses, ConsoleTurns
  <1>10. ASSUME NEW p \in Pollers,
                \/ Elect(p) \/ ClaimUpdate(p) \/ PollerDies(p) \/ RecordChoice(p)
                \/ MarkCard(p) \/ InsertJob(p) \/ ApplyOwner(p) \/ PostOwner(p) \/ ReplyOwner(p)
         PROVE  FallbackTaps'
    <2>1. \/ \E pc \in {"elected", "apply", "complete", "mark", "post", "reply"} : Goes(p, pc)
          \/ poller' = [poller EXCEPT ![p] = Waiting]
      BY <1>10 DEF Elect, ClaimUpdate, PollerDies, RecordChoice, MarkCard, InsertJob,
         ApplyOwner, PostOwner, ReplyOwner, Handled, Raises
    <2> QED
      BY <1>2, <1>3, <2>1
  <1> QED
    BY <1>5, <1>6, <1>7, <1>8, <1>9, <1>10 DEF TelegramNext

\* A poller goes on, rests, fetches a batch, goes to the next update or reads the job.
LEMMA PollersStayBounded ==
    ASSUME TelegramInv, TelegramBounds, TelegramNext
    PROVE  \A p \in Pollers : PollerIsBounded(p)'
  <1>a. UNCHANGED script
    BY DEF TelegramNext, LeaseExpires, AnsweredElsewhere, ReportChoice, JobEnds, IncidentCloses,
       ConsoleTurns, Elect, Fetch, ClaimUpdate, CompleteUpdate, PollerDies, ApplyChoice, RecordChoice,
       MarkCard, ReadJob, InsertJob, ApplyOwner, PostOwner, ReplyOwner, CallHerder, Raises, queueVars
  <1>b. /\ Len(script) \in Nat /\ MaxJobs \in Nat /\ poller \in [Pollers -> PollerType]
        /\ \A p \in Pollers : poller[p] \in PollerType /\ PollerIsBounded(p)
    BY PollersAreTyped, TelegramAssumption DEF TelegramBounds
  <1>1. ASSUME NEW p \in Pollers, NEW x, poller' = [poller EXCEPT ![p] = x],
               x.at \in 0..Len(script) + 1, x.upto \in 0..Len(script), x.row \in 0..MaxJobs + 1
        PROVE  \A q \in Pollers : PollerIsBounded(q)'
    BY <1>1, <1>a, <1>b DEF PollerIsBounded
  <1>2. ASSUME NEW p \in Pollers, NEW pc, Goes(p, pc)
        PROVE  \A q \in Pollers : PollerIsBounded(q)'
    BY <1>2, <1>a, <1>b DEF PollerIsBounded, Goes, PollerType
  <1>3. ASSUME NEW p \in Pollers, poller' = [poller EXCEPT ![p] = Waiting]
        PROVE  \A q \in Pollers : PollerIsBounded(q)'
    <2>1. /\ Waiting.at \in 0..Len(script) + 1 /\ Waiting.upto \in 0..Len(script)
          /\ Waiting.row \in 0..MaxJobs + 1
      BY <1>b DEF Waiting
    <2> HIDE DEF Waiting
    <2> QED
      BY <1>1, <1>3, <2>1
  <1>4. CASE UNCHANGED poller
    BY <1>4, <1>a, <1>b DEF PollerIsBounded
  <1>5. ASSUME NEW p \in Pollers, Fetch(p)
        PROVE  \A q \in Pollers : PollerIsBounded(q)'
    <2>1. PICK upto \in offset - 1..Len(script) :
             poller' = [poller EXCEPT ![p] =
                          IF upto < offset THEN Waiting
                          ELSE [pc |-> "next", at |-> offset, upto |-> upto, row |-> 0]]
      BY <1>5 DEF Fetch
    <2>2. offset \in 1..Len(script) + 1
      BY DEF TelegramInv, UpdateInv
    <2>3. CASE upto < offset
      BY <1>3, <2>1, <2>3
    <2>4. CASE ~(upto < offset)
      <3> DEFINE x == [pc |-> "next", at |-> offset, upto |-> upto, row |-> 0]
      <3>1. x.at \in 0..Len(script) + 1 /\ x.upto \in 0..Len(script) /\ x.row \in 0..MaxJobs + 1
        BY <1>b, <2>2, <2>4
      <3>2. poller' = [poller EXCEPT ![p] = x]
        BY <2>1, <2>4
      <3> HIDE DEF x
      <3> QED
        BY <1>1, <3>1, <3>2
    <2> QED
      BY <2>3, <2>4
  <1>6. ASSUME NEW p \in Pollers, CompleteUpdate(p)
        PROVE  \A q \in Pollers : PollerIsBounded(q)'
    <2>1. poller' = [poller EXCEPT ![p] = AfterUpdate(p)] /\ poller[p].pc = "complete"
      BY <1>6 DEF CompleteUpdate
    <2>2. CASE AfterUpdate(p) = Waiting
      BY <1>3, <2>1, <2>2
    <2>3. CASE AfterUpdate(p) # Waiting
      <3>1. AfterUpdate(p) = [poller[p] EXCEPT !.pc = "next", !.at = poller[p].at + 1]
        BY <1>b, <2>3 DEF AfterUpdate
      <3>2. poller[p].at \in 1..Len(script)
        BY <2>1, PollersAreTyped
      <3>3. /\ AfterUpdate(p).at = poller[p].at + 1 /\ AfterUpdate(p).upto = poller[p].upto
            /\ AfterUpdate(p).row = poller[p].row
        BY <1>b, <3>1 DEF PollerType
      <3>4. AfterUpdate(p).at \in 0..Len(script) + 1
        BY <1>b, <3>2, <3>3
      <3> QED
        BY <1>1, <1>b, <2>1, <3>3, <3>4 DEF PollerIsBounded
    <2> QED
      BY <2>2, <2>3
  <1>7. ASSUME NEW p \in Pollers, ReadJob(p)
        PROVE  \A q \in Pollers : PollerIsBounded(q)'
    <2>1. CASE Handled(p)
      BY <1>2, <2>1 DEF Handled
    <2>2. CASE /\ Len(diagnosis) < MaxJobs
               /\ poller' = [poller EXCEPT ![p] = [poller[p] EXCEPT !.pc = "insert", !.row = Len(diagnosis) + 1]]
      <3> DEFINE x == [poller[p] EXCEPT !.pc = "insert", !.row = Len(diagnosis) + 1]
      <3>1. x.at = poller[p].at /\ x.upto = poller[p].upto /\ x.row = Len(diagnosis) + 1
        BY <1>b DEF PollerType
      <3>2. x.row \in 0..MaxJobs + 1
        BY <1>b, <2>2, <3>1, PollersAreTyped
      <3>3. poller' = [poller EXCEPT ![p] = x]
        BY <2>2
      <3> HIDE DEF x
      <3> QED
        BY <1>1, <1>b, <3>1, <3>2, <3>3 DEF PollerIsBounded
    <2> QED
      BY <1>7, <2>1, <2>2 DEF ReadJob
  <1>8. CASE LeaseExpires \/ AnsweredElsewhere \/ ReportChoice \/ JobEnds \/ IncidentCloses \/ ConsoleTurns
    BY <1>4, <1>8 DEF LeaseExpires, AnsweredElsewhere, ReportChoice, JobEnds, IncidentCloses, ConsoleTurns
  <1>9. ASSUME NEW p \in Pollers,
               \/ Elect(p) \/ ClaimUpdate(p) \/ PollerDies(p) \/ ApplyChoice(p) \/ RecordChoice(p)
               \/ MarkCard(p) \/ InsertJob(p) \/ ApplyOwner(p) \/ PostOwner(p) \/ ReplyOwner(p)
        PROVE  \A q \in Pollers : PollerIsBounded(q)'
    <2>1. (\E pc : Goes(p, pc)) \/ poller' = [poller EXCEPT ![p] = Waiting]
      BY <1>9 DEF Elect, ClaimUpdate, PollerDies, ApplyChoice, RecordChoice, MarkCard, InsertJob,
         ApplyOwner, PostOwner, ReplyOwner, CallHerder, Handled, Raises
    <2> QED
      BY <1>2, <1>3, <2>1
  <1> QED
    BY <1>5, <1>6, <1>7, <1>8, <1>9 DEF TelegramNext

LEMMA SetsStayBounded ==
    ASSUME TelegramInv, TelegramBounds, TelegramNext
    PROVE  UpdateSets'
  <1>a. UpdateSets /\ UNCHANGED script
    BY DEF TelegramBounds, TelegramNext, LeaseExpires, AnsweredElsewhere, ReportChoice, JobEnds,
       IncidentCloses, ConsoleTurns, Elect, Fetch, ClaimUpdate, CompleteUpdate, PollerDies, ApplyChoice,
       RecordChoice, MarkCard, ReadJob, InsertJob, ApplyOwner, PostOwner, ReplyOwner, CallHerder, Raises, queueVars
  <1>1. CASE UNCHANGED <<claimed, excused, unanswered>>
    BY <1>1, <1>a DEF UpdateSets, Updates
  <1>2. ASSUME NEW p \in Pollers, ClaimUpdate(p)
        PROVE  UpdateSets'
    <2>1. poller[p].at \in Updates
      BY <1>2, PollersAreTyped DEF ClaimUpdate
    <2> QED
      BY <1>2, <1>a, <2>1 DEF ClaimUpdate, UpdateSets, Updates
  <1>3. ASSUME NEW p \in Pollers, PollerDies(p)
        PROVE  UpdateSets'
    <2>1. poller[p].pc \in ApplyingPcs => poller[p].at \in Updates
      BY PollersAreTyped DEF ApplyingPcs
    <2> QED
      BY <1>3, <1>a, <2>1 DEF PollerDies, UpdateSets, Updates, queueVars
  <1>4. ASSUME NEW p \in Pollers, ReplyOwner(p)
        PROVE  UpdateSets'
    <2>1. poller[p].at \in Updates
      BY <1>4, PollersAreTyped DEF ReplyOwner
    <2> QED
      BY <1>4, <1>a, <2>1 DEF ReplyOwner, UpdateSets, Updates, queueVars, Raises
  <1>5. ASSUME NEW p \in Pollers, ApplyChoice(p) \/ MarkCard(p) \/ InsertJob(p)
        PROVE  UpdateSets'
    BY <1>5, <1>a DEF ApplyChoice, CallHerder, MarkCard, InsertJob, UpdateSets, Updates, queueVars, Raises
  <1>6. CASE LeaseExpires \/ AnsweredElsewhere \/ ReportChoice \/ JobEnds \/ IncidentCloses \/ ConsoleTurns
    BY <1>1, <1>6 DEF LeaseExpires, AnsweredElsewhere, ReportChoice, JobEnds, IncidentCloses,
       ConsoleTurns, queueVars, historyVars
  <1>7. ASSUME NEW p \in Pollers,
               \/ Elect(p) \/ Fetch(p) \/ CompleteUpdate(p) \/ RecordChoice(p) \/ ReadJob(p)
               \/ ApplyOwner(p) \/ PostOwner(p)
        PROVE  UpdateSets'
    BY <1>1, <1>7 DEF Elect, Fetch, CompleteUpdate, RecordChoice, ReadJob, ApplyOwner, PostOwner,
       queueVars, historyVars
  <1> QED
    BY <1>2, <1>3, <1>4, <1>5, <1>6, <1>7 DEF TelegramNext

LEMMA ChoicesStay ==
    ASSUME ChoiceFields, FallbackTaps, TelegramNext
    PROVE  ChoiceFields'
  <1>1. CASE UNCHANGED choiceVars
    BY <1>1 DEF ChoiceFields, choiceVars
  <1>2. CASE AnsweredElsewhere \/ ReportChoice
    BY <1>2 DEF ChoiceFields, AnsweredElsewhere, ReportChoice
  <1>3. ASSUME NEW p \in Pollers, ApplyChoice(p)
        PROVE  ChoiceFields'
    <2>1. UNCHANGED <<receipt, marked, unvouched>> /\ Tap(p) \in Choices
          /\ accepted' \in {accepted, NoChoice, Tap(p)}
      BY <1>3 DEF ApplyChoice, CallHerder, AcceptedAfter
    <2> QED
      BY <2>1 DEF ChoiceFields
  <1>4. ASSUME NEW p \in Pollers, RecordChoice(p) \/ MarkCard(p)
        PROVE  ChoiceFields'
    <2>1. poller[p].pc = "fallback" => Tap(p) \in Choices
      BY DEF FallbackTaps
    <2> QED
      BY <1>4, <2>1 DEF RecordChoice, MarkCard, CanonicalAnswer, ChoiceFields
  <1>5. CASE LeaseExpires \/ JobEnds \/ IncidentCloses \/ ConsoleTurns
    BY <1>1, <1>5 DEF LeaseExpires, JobEnds, IncidentCloses, ConsoleTurns
  <1>6. ASSUME NEW p \in Pollers,
               \/ Elect(p) \/ Fetch(p) \/ ClaimUpdate(p) \/ CompleteUpdate(p) \/ PollerDies(p)
               \/ ReadJob(p) \/ InsertJob(p) \/ ApplyOwner(p) \/ PostOwner(p) \/ ReplyOwner(p)
        PROVE  ChoiceFields'
    BY <1>1, <1>6 DEF Elect, Fetch, ClaimUpdate, CompleteUpdate, PollerDies, ReadJob, InsertJob,
       ApplyOwner, PostOwner, ReplyOwner
  <1> QED
    BY <1>2, <1>3, <1>4, <1>5, <1>6 DEF TelegramNext

LEMMA PollFieldsStay ==
    ASSUME PollFields, TelegramNext
    PROVE  PollFields'
  <1>1. CASE UNCHANGED <<script, lease, pollerDeaths>>
    BY <1>1 DEF PollFields
  <1>2. CASE LeaseExpires
    BY <1>2 DEF PollFields, LeaseExpires
  <1>3. ASSUME NEW p \in Pollers, Elect(p)
        PROVE  PollFields'
    BY <1>3 DEF PollFields, Elect
  <1>4. ASSUME NEW p \in Pollers, PollerDies(p)
        PROVE  PollFields'
    BY <1>4, TelegramAssumption DEF PollFields, PollerDies, queueVars
  <1>5. CASE AnsweredElsewhere \/ ReportChoice \/ JobEnds \/ IncidentCloses \/ ConsoleTurns
    BY <1>1, <1>5 DEF AnsweredElsewhere, ReportChoice, JobEnds, IncidentCloses, ConsoleTurns, queueVars
  <1>6. ASSUME NEW p \in Pollers,
               \/ Fetch(p) \/ ClaimUpdate(p) \/ CompleteUpdate(p) \/ ApplyChoice(p) \/ RecordChoice(p)
               \/ MarkCard(p) \/ ReadJob(p) \/ InsertJob(p) \/ ApplyOwner(p) \/ PostOwner(p) \/ ReplyOwner(p)
        PROVE  PollFields'
    BY <1>1, <1>6 DEF Fetch, ClaimUpdate, CompleteUpdate, ApplyChoice, RecordChoice, MarkCard, ReadJob,
       InsertJob, ApplyOwner, PostOwner, ReplyOwner, CallHerder, Raises, queueVars
  <1> QED
    BY <1>2, <1>3, <1>4, <1>5, <1>6 DEF TelegramNext

LEMMA PolicyStays ==
    ASSUME PolicyFields, TelegramNext
    PROVE  PolicyFields'
  <1>1. CASE UNCHANGED <<forbidden, closed>>
    BY <1>1 DEF PolicyFields
  <1>2. CASE IncidentCloses \/ ConsoleTurns
    BY <1>2 DEF PolicyFields, IncidentCloses, ConsoleTurns
  <1>3. ASSUME NEW p \in Pollers, PostOwner(p)
        PROVE  PolicyFields'
    BY <1>3 DEF PolicyFields, PostOwner, Wants
  <1>4. CASE LeaseExpires \/ AnsweredElsewhere \/ ReportChoice \/ JobEnds
    BY <1>1, <1>4 DEF LeaseExpires, AnsweredElsewhere, ReportChoice, JobEnds
  <1>5. ASSUME NEW p \in Pollers,
               \/ Elect(p) \/ Fetch(p) \/ ClaimUpdate(p) \/ CompleteUpdate(p) \/ PollerDies(p)
               \/ ApplyChoice(p) \/ RecordChoice(p) \/ MarkCard(p)
               \/ ReadJob(p) \/ InsertJob(p) \/ ApplyOwner(p) \/ ReplyOwner(p)
        PROVE  PolicyFields'
    BY <1>1, <1>5 DEF Elect, Fetch, ClaimUpdate, CompleteUpdate, PollerDies, ApplyChoice, RecordChoice,
       MarkCard, ReadJob, InsertJob, ApplyOwner, ReplyOwner
  <1> QED
    BY <1>2, <1>3, <1>4, <1>5 DEF TelegramNext

LEMMA JobsStayFew ==
    ASSUME TelegramInv, Len(diagnosis) <= MaxJobs, TelegramNext
    PROVE  Len(diagnosis') <= MaxJobs
  <1>a. diagnosis \in Seq(DiagnosisStatuses) /\ Len(diagnosis) \in Nat /\ MaxJobs \in Nat
    BY PollersAreTyped, TelegramAssumption
  <1>1. ASSUME NEW p \in Pollers, InsertJob(p)
        PROVE  Len(diagnosis') <= MaxJobs
    <2>1. CASE poller[p].row <= Len(diagnosis)
      BY <1>1, <2>1 DEF InsertJob, JobsWith
    <2>2. CASE ~(poller[p].row <= Len(diagnosis))
      <3>1. diagnosis' = Append(diagnosis, "queued") /\ Len(diagnosis) < MaxJobs
        BY <1>1, <2>2 DEF InsertJob, JobsWith
      <3>2. Len(diagnosis') = Len(diagnosis) + 1
        BY <1>a, <3>1
      <3> QED
        BY <1>a, <3>1, <3>2
    <2> QED
      BY <2>1, <2>2
  <1>2. CASE JobEnds
    <2>1. Len(diagnosis') = Len(diagnosis)
      BY <1>2, <1>a DEF JobEnds
    <2> QED
      BY <2>1
  <1>3. CASE IncidentCloses
    <2>1. Len(diagnosis') = Len(diagnosis)
      <3>1. DOMAIN diagnosis = 1..Len(diagnosis) /\ DOMAIN diagnosis' = DOMAIN diagnosis
        BY <1>3, <1>a DEF IncidentCloses
      <3>2. diagnosis' \in Seq(DiagnosisStatuses)
        <4>1. diagnosis' \in [1..Len(diagnosis) -> DiagnosisStatuses]
          BY <1>3, <1>a, <3>1 DEF IncidentCloses, DiagnosisStatuses
        <4> QED
          BY <1>a, <4>1
      <3> QED
        BY <1>a, <3>1, <3>2
    <2> QED
      BY <2>1
  <1>4. CASE LeaseExpires \/ AnsweredElsewhere \/ ReportChoice \/ ConsoleTurns
    BY <1>4 DEF LeaseExpires, AnsweredElsewhere, ReportChoice, ConsoleTurns
  <1>5. ASSUME NEW p \in Pollers,
               \/ Elect(p) \/ Fetch(p) \/ ClaimUpdate(p) \/ CompleteUpdate(p) \/ PollerDies(p)
               \/ ApplyChoice(p) \/ RecordChoice(p) \/ MarkCard(p)
               \/ ReadJob(p) \/ ApplyOwner(p) \/ PostOwner(p) \/ ReplyOwner(p)
        PROVE  Len(diagnosis') <= MaxJobs
    BY <1>5 DEF Elect, Fetch, ClaimUpdate, CompleteUpdate, PollerDies, ApplyChoice, RecordChoice,
       MarkCard, ReadJob, ApplyOwner, PostOwner, ReplyOwner
  <1> QED
    BY <1>1, <1>2, <1>3, <1>4, <1>5 DEF TelegramNext

LEMMA TelegramBoundsKept == TelegramInv /\ TelegramBounds /\ [TelegramNext]_telegramVars => TelegramBounds'
  <1> SUFFICES ASSUME TelegramInv, TelegramBounds, [TelegramNext]_telegramVars PROVE TelegramBounds'
    OBVIOUS
  <1>1. CASE UNCHANGED telegramVars
    BY <1>1 DEF telegramVars, TelegramBounds, ChoiceFields, UpdateSets, PollFields, PolicyFields,
       PollerIsBounded, Updates, FallbackTaps, Tap
  <1>2. CASE TelegramNext
    BY <1>2, PollersStayBounded, FallbacksStay, SetsStayBounded, ChoicesStay, PollFieldsStay, PolicyStays, JobsStayFew
    DEF TelegramBounds
  <1> QED
    BY <1>1, <1>2

-----------------------------------------------------------------------------
(***************************************************************************)
(* The composition                                                         *)
(***************************************************************************)
OperationsInv ==
    /\ JobInv /\ JobBounds
    /\ PlanInv /\ ReachInv /\ PlanBounds
    /\ RepairSafe /\ RepairBounds
    /\ TelegramInv /\ TelegramBounds

\* A step of the composition is one of each part, or leaves it alone.
LEMMA OperationsParts ==
    ASSUME [OperationsNext]_<<part, plansVars, repairVars, telegramVars, agentVars>>
    PROVE  /\ [PlansNext]_plansVars /\ [RepairNext]_repairVars
           /\ [TelegramNext]_telegramVars /\ [AgentNext]_agentVars
  BY DEF OperationsNext, RepairStep, TelegramStep

LEMMA OperationsStart == OperationsInit => OperationsInv
  BY JobStarts, JobBoundsStart, PlanStarts, ReachStarts, PlanBoundsStart, RepairStarts, WorkStarts,
     DecisionStarts, RepairBoundsStart, TelegramStarts, TelegramBoundsStart
  DEF OperationsInit, OperationsInv, RepairSafe

LEMMA OperationsKept ==
    OperationsInv /\ [OperationsNext]_<<part, plansVars, repairVars, telegramVars, agentVars>>
       => OperationsInv'
  <1> SUFFICES ASSUME OperationsInv, [OperationsNext]_<<part, plansVars, repairVars, telegramVars, agentVars>>
               PROVE  OperationsInv'
    OBVIOUS
  <1>1. JobInv' /\ JobBounds'
    BY OperationsParts, JobKept, JobBoundsKept DEF OperationsInv
  <1>2. PlanInv' /\ ReachInv' /\ PlanBounds'
    BY OperationsParts, PlanKept, ReachKept, PlanBoundsKept DEF OperationsInv
  <1>3. RepairSafe' /\ RepairBounds'
    BY OperationsParts, RepairKept, WorkKept, DecisionKept, RepairBoundsKept DEF OperationsInv, RepairSafe
  <1>4. TelegramInv' /\ TelegramBounds'
    BY OperationsParts, TelegramKept, TelegramBoundsKept DEF OperationsInv
  <1> QED
    BY <1>1, <1>2, <1>3, <1>4 DEF OperationsInv

\* Whatever a behaviour is about, every part of the operations keeps its types: no counter,
\* list, payload or position of a poller leaves its bounds, and no delivery creates two
\* sessions of the executor.
THEOREM OperationsAreTyped == OperationsSpec => []OperationsTypeOK
  <1>1. OperationsInv => OperationsTypeOK
    BY JobsStayTyped, PlansStayTyped, RepairStaysTyped, TelegramStaysTyped
    DEF OperationsInv, OperationsTypeOK
  <1> QED
    BY OperationsStart, OperationsKept, <1>1, PTL DEF OperationsSpec

\* The composition that is model-checked keeps what its parts promise: one plan is executed
\* and shown on one card, what the workflow closes is proven, a withheld card is decided upon
\* or was sent, an update is applied once and an operation has one executor.
THEOREM OperationsAreSafe ==
    OperationsSpec =>
        [](/\ OneRemediation /\ OneCardShowsThePlans /\ ClosedIsProven /\ DecidedWhenDiagnosed
           /\ TelegramIsExact /\ AgentJobsAreExact)
  <1>1. OperationsInv => /\ OneRemediation /\ OneCardShowsThePlans /\ ClosedIsProven
                         /\ DecidedWhenDiagnosed /\ TelegramIsExact /\ AgentJobsAreExact
    BY ReachShows, TelegramShows, JobIsExact
    DEF OperationsInv, PlanInv, RepairSafe, RepairInv, DecisionInv
  <1> QED
    BY OperationsStart, OperationsKept, <1>1, PTL DEF OperationsSpec

\* The two runs of a delivery, the Hub's and the fallback's, create at most one session
\* between them, however often a call is repeated (gptadmin_agent.py, agent_job_helper.py).
THEOREM OneSessionPerDelivery ==
    AgentSpec => [](\A s, t \in Sessions : session[s].creator[1] = session[t].creator[1] => s = t)
  <1>1. JobInv /\ JobBounds =>
           \A s, t \in Sessions : session[s].creator[1] = session[t].creator[1] => s = t
    BY DEF JobInv, JobBounds, OneExecutor
  <1> QED
    BY JobStarts, JobKept, JobBoundsStart, JobBoundsKept, <1>1, PTL DEF AgentSpec
=============================================================================
