-------------------------- MODULE ScaleLoopProofs --------------------------
(***************************************************************************)
(* What holds of the scaling loop for every set of deployments, requests   *)
(* and loads, every limit and every choice of faults.                      *)
(***************************************************************************)
EXTENDS ScaleLoop, TLAPS

\* Which call and which reply each control point of the handler can see, and
\* whether production has moved by then.
HandlerInv ==
    /\ pc = "idle" => call = None /\ reply = None
    /\ pc # "idle" => req # None
    /\ pc = "simulating" => call \in {None, SimulateCall(req.dep, req.n)}
    /\ pc = "patching"   => call = None
    /\ pc = "committing" => call \in {None, CommitCall(req.dep)}
    /\ pc \in {"refusing", "undoing"} => call \in {None, RollbackCall(req.dep)}
    /\ call # None => reply = None
    /\ pc = "simulating" /\ reply # None /\ reply.type = "simulation" => req.n > 0
    /\ pc = "patching" => /\ req.n > 0
                          /\ reply \in [type : {"simulation"}, cpu : Loads]
                          /\ reply.cpu <= Limit * req.n
    /\ pc \in {"simulating", "patching", "refusing"} => ~touched
    /\ pc = "committing" => touched

Inv == TypeOK /\ HandlerInv
----------------------------------------------------------------------------
\* A call keeps the twin well formed, whoever sent it and whenever it runs.
LEMMA ServeTwinType ==
    ASSUME TwinTypeOK, NEW c \in OperatorCall \union FeederCall, Serve(c)
    PROVE  TwinTypeOK'
<1>1. CASE c.op = "simulate"
  <2>1. c.dep \in Deployments /\ c.n \in Int /\ SimulateScale(c.dep, c.n)
    BY <1>1, RequestsAssumption DEF Serve, OperatorCall, FeederCall
  <2>. QED  BY <2>1, NoneAssumption DEF TwinTypeOK, SimulateScale, Simulatable, Known
<1>2. CASE c.op = "commit"
  <2>1. c.dep \in Deployments /\ CommitScale(c.dep)
    BY <1>2 DEF Serve, OperatorCall, FeederCall
  <2>. QED  BY <2>1 DEF TwinTypeOK, CommitScale
<1>3. CASE c.op = "rollback"
  <2>1. c.dep \in Deployments /\ RollbackScale(c.dep)
    BY <1>3 DEF Serve, OperatorCall, FeederCall
  <2>. QED  BY <2>1 DEF TwinTypeOK, RollbackScale
<1>4. CASE c.op = "ingest"
  <2>1. c.snap \in Snapshot /\ Ingest(c.snap)
    BY <1>4 DEF Serve, OperatorCall, FeederCall
  <2>. QED  BY <2>1, NoneAssumption DEF TwinTypeOK, Ingest, Known, Snapshot
<1>. QED  BY <1>1, <1>2, <1>3, <1>4 DEF Serve

\* The twin answers a simulation with the load of its newest sample.
LEMMA AnswerType ==
    ASSUME TwinTypeOK, NEW c \in OperatorCall
    PROVE  AnswerTo(c) \in Reply
BY NoneAssumption DEF TwinTypeOK, OperatorCall, AnswerTo, SimulateAnswer, Simulatable,
       Known, Reply, NullReply, DoneReply, SimulationReply

LEMMA InitInv == Init => Inv
<1>. SUFFICES ASSUME Init PROVE Inv
  OBVIOUS
<1>1. TwinTypeOK
  BY DEF Init, TwinInit, TwinTypeOK
<1>2. OperatorTypeOK /\ HandlerInv
  BY DEF Init, OperatorInit, OperatorTypeOK, HandlerInv, WaitsOnTwin, Answers
<1>3. accepted \in [Deployments -> SUBSET Nat]
  BY CountsAssumption DEF Init, Holds
<1>4. k8s \in [Deployments -> Nat \union {None}]
  BY CountsAssumption DEF Init
<1>. QED  BY <1>1, <1>2, <1>3, <1>4 DEF Init, Inv, TypeOK
----------------------------------------------------------------------------
(***************************************************************************)
(* One lemma per action, in the order of Next.                             *)
(***************************************************************************)
LEMMA TakeRequestInv ==
    ASSUME Inv, NEW d \in Deployments, NEW n \in Requests, TakeRequest(d, n)
    PROVE  Inv'
<1>1. TwinTypeOK'
  BY DEF Inv, TypeOK, TakeRequest, TwinTypeOK, twinVars
<1>2. OperatorTypeOK'
  <2>1. req' \in Request /\ call' \in OperatorCall /\ pc' = "simulating"
    BY DEF TakeRequest, Receive, Request, OperatorCall, SimulateCall
  <2>. QED
    BY <2>1, RequestAssumption DEF Inv, TypeOK, OperatorTypeOK, TakeRequest, Receive,
       WaitsOnTwin, Answers
<1>3. HandlerInv'
  BY RequestAssumption, NoneAssumption DEF Request, Inv, HandlerInv, TakeRequest, Receive, SimulateCall,
     TypeOK, OperatorTypeOK
<1>. QED  BY <1>1, <1>2, <1>3 DEF Inv, TypeOK, TakeRequest

LEMMA TakeReplyInv ==
    ASSUME Inv, TakeReply
    PROVE  Inv'
<1>1. TwinTypeOK'
  BY DEF Inv, TypeOK, TakeReply, TwinTypeOK, twinVars
<1>. SUFFICES OperatorTypeOK' /\ HandlerInv'
  BY <1>1 DEF Inv, TypeOK, TakeReply, loopVars
<1>. USE DEF OperatorTypeOK, HandlerInv, WaitsOnTwin, Answers, loopVars
<1>2. OperatorTypeOK /\ HandlerInv /\ UNCHANGED loopVars
  BY DEF Inv, TypeOK, TakeReply
<1>3. CASE OnNull
  BY <1>2, <1>3 DEF OnNull, Respond
<1>4. CASE OnExceeds
  <2>1. req \in Request /\ RollbackCall(req.dep) \in OperatorCall
    BY <1>2, <1>4 DEF OnExceeds, RollbackCall, OperatorCall, Request
  <2>. QED  BY <1>2, <1>4, <2>1, NoneAssumption DEF OnExceeds, CallTwin
<1>5. CASE OnMet
  <2>1. req \in Request /\ req.n \in Int
    BY <1>2, <1>5, RequestsAssumption DEF OnMet, Request
  <2>2. reply \in [type : {"simulation"}, cpu : Loads] /\ reply.cpu \in Int
    <3>1. reply \in Reply /\ reply.type = "simulation"
      BY <1>2, <1>5 DEF OnMet
    <3>2. reply \in [type : {"simulation"}, cpu : Loads]
      BY <3>1 DEF Reply
    <3>3. reply.cpu \in Loads
      BY <3>2
    <3>4. reply.cpu \in Nat
      BY <3>3, LoadsAssumption
    <3>. QED  BY <3>2, <3>4
  <2>3. reply.cpu <= Limit * req.n
    BY <1>5, <2>1, <2>2, LimitAssumption DEF OnMet, Exceeds
  <2>. QED  BY <1>2, <1>5, <2>2, <2>3 DEF OnMet
<1>6. CASE OnDone
  BY <1>2, <1>6 DEF OnDone, Respond, LastAnswer
<1>. QED  BY <1>3, <1>4, <1>5, <1>6 DEF TakeReply

\* Neither what becomes of an abandoned call nor a restart disturbs the rest.
LEMMA AbandonedInLate ==
    ASSUME Inv, AbandonOwnCall
    PROVE  late' \subseteq OperatorCall \union FeederCall
BY DEF Inv, TypeOK, OperatorTypeOK, AbandonOwnCall, Abandon

LEMMA GiveUpInv ==
    ASSUME Inv, GiveUp
    PROVE  Inv'
<1>1. TwinTypeOK' /\ late' \subseteq OperatorCall \union FeederCall
  BY AbandonedInLate DEF Inv, TypeOK, GiveUp, TwinTypeOK, twinVars
<1>. SUFFICES OperatorTypeOK' /\ HandlerInv'
  BY <1>1 DEF Inv, TypeOK, GiveUp
<1>2. OperatorTypeOK /\ HandlerInv /\ touched' = touched /\ OnTwinError
  BY DEF Inv, TypeOK, GiveUp
<1>. QED
  BY <1>2 DEF OnTwinError, Respond, LastAnswer, OperatorTypeOK, HandlerInv,
     WaitsOnTwin, Answers

LEMMA CrashInv ==
    ASSUME Inv, Crash
    PROVE  Inv'
<1>1. TwinTypeOK' /\ late' \subseteq OperatorCall \union FeederCall
  BY AbandonedInLate DEF Inv, TypeOK, Crash, TwinTypeOK, twinVars
<1>. SUFFICES OperatorTypeOK' /\ HandlerInv'
  BY <1>1 DEF Inv, TypeOK, Crash
<1>2. OperatorTypeOK /\ HandlerInv /\ touched' = touched /\ Restart
  BY DEF Inv, TypeOK, Crash
<1>. QED
  BY <1>2 DEF Restart, OperatorTypeOK, HandlerInv, Answers

LEMMA TwinServesInv ==
    ASSUME Inv, TwinServes
    PROVE  Inv'
<1>1. call \in OperatorCall /\ TwinTypeOK /\ Serve(call)
  BY DEF Inv, TypeOK, OperatorTypeOK, TwinServes
<1>2. TwinTypeOK' /\ reply' \in Reply
  BY <1>1, ServeTwinType, AnswerType DEF TwinServes
<1>3. pc # "idle" /\ pc # "patching" /\ req \in Request
  BY <1>1, NoneAssumption DEF Inv, TypeOK, OperatorTypeOK, HandlerInv
<1>4. pc = "simulating" /\ reply'.type = "simulation" => req.n > 0
  <2>. SUFFICES ASSUME pc = "simulating", reply'.type = "simulation"
                PROVE  req.n > 0
    OBVIOUS
  <2>1. call = SimulateCall(req.dep, req.n)
    BY <1>1, NoneAssumption DEF Inv, HandlerInv
  <2>2. reply' = SimulateAnswer(req.dep, req.n)
    BY <2>1 DEF TwinServes, AnswerTo, SimulateCall
  <2>. QED  BY <2>2 DEF SimulateAnswer, NullReply, Simulatable
<1>5. dirty' \subseteq Deployments
  BY <1>1 DEF Inv, TypeOK, TwinServes, DirtyAfter, OperatorCall
<1>6. OperatorTypeOK'
  BY <1>2 DEF Inv, TypeOK, OperatorTypeOK, TwinServes
<1>7. HandlerInv'
  BY <1>2, <1>3, <1>4 DEF Inv, HandlerInv, TwinServes
<1>. QED  BY <1>2, <1>5, <1>6, <1>7 DEF Inv, TypeOK, TwinServes

LEMMA TwinServesLateInv ==
    ASSUME Inv, NEW c \in late, TwinServesLate(c)
    PROVE  Inv'
<1>1. c \in OperatorCall \union FeederCall /\ TwinTypeOK /\ Serve(c)
  BY DEF Inv, TypeOK, TwinServesLate
<1>2. TwinTypeOK'
  BY <1>1, ServeTwinType
<1>3. dirty' \subseteq Deployments
  BY <1>1 DEF Inv, TypeOK, TwinServesLate, DirtyAfter, OperatorCall, FeederCall
<1>4. OperatorTypeOK' /\ HandlerInv'
  BY DEF Inv, TypeOK, OperatorTypeOK, HandlerInv, TwinServesLate, operatorVars
<1>. QED  BY <1>2, <1>3, <1>4 DEF Inv, TypeOK, TwinServesLate

LEMMA RetentionInv ==
    ASSUME Inv, Retention
    PROVE  Inv'
<1>1. TwinTypeOK'
  BY DEF Inv, TypeOK, TwinTypeOK, Retention, RunRetention
<1>2. OperatorTypeOK' /\ HandlerInv'
  BY DEF Inv, TypeOK, OperatorTypeOK, HandlerInv, Retention, operatorVars, loopVars
<1>. QED  BY <1>1, <1>2 DEF Inv, TypeOK, Retention, loopVars

\* The PATCH leaves the twin alone and sets a count that is a Nat.
LEMMA ScaleType ==
    ASSUME Inv, NEW d \in Deployments, NEW v \in Nat \union {None}, Scale(d, v)
    PROVE  /\ k8s' \in [Deployments -> Nat \union {None}]
           /\ accepted' \in [Deployments -> SUBSET Nat]
BY DEF Inv, TypeOK, Scale

LEMMA PatchingNat ==
    ASSUME Inv, pc = "patching"
    PROVE  req \in Request /\ req.dep \in Deployments /\ req.n \in Nat
<1>1. req \in Request
  BY DEF Inv, TypeOK, OperatorTypeOK
<1>2. req.dep \in Deployments /\ req.n \in Requests
  BY <1>1 DEF Request
<1>3. req.n \in Int /\ req.n > 0
  BY <1>2, RequestsAssumption DEF Inv, HandlerInv
<1>. QED  BY <1>1, <1>2, <1>3

LEMMA PatchOkInv ==
    ASSUME Inv, PatchOk
    PROVE  Inv'
<1>1. pc = "patching" /\ CallTwin("committing", CommitCall(req.dep))
  BY DEF PatchOk, OnPatched
<1>2. req \in Request /\ CommitCall(req.dep) \in OperatorCall
  BY <1>1, PatchingNat DEF CommitCall, OperatorCall
<1>3. k8s' \in [Deployments -> Nat \union {None}] /\ accepted' \in [Deployments -> SUBSET Nat]
  BY <1>1, PatchingNat, ScaleType DEF PatchOk
<1>4. TwinTypeOK'
  BY DEF Inv, TypeOK, PatchOk, TwinTypeOK, twinVars
<1>5. OperatorTypeOK'
  BY <1>1, <1>2, RequestAssumption DEF Inv, TypeOK, OperatorTypeOK, CallTwin, WaitsOnTwin
<1>6. HandlerInv'
  BY <1>1, <1>2, RequestAssumption DEF CallTwin, HandlerInv, PatchOk
<1>. QED  BY <1>3, <1>4, <1>5, <1>6 DEF Inv, TypeOK, PatchOk

LEMMA PatchErrorOperator ==
    ASSUME Inv, OnPatchError
    PROVE  OperatorTypeOK' /\ HandlerInv'
<1>1. pc = "patching" /\ CallTwin("undoing", RollbackCall(req.dep))
  BY DEF OnPatchError
<1>2. req \in Request /\ RollbackCall(req.dep) \in OperatorCall
  BY <1>1, PatchingNat DEF RollbackCall, OperatorCall
<1>3. OperatorTypeOK'
  BY <1>1, <1>2, RequestAssumption DEF Inv, TypeOK, OperatorTypeOK, CallTwin, WaitsOnTwin
<1>4. HandlerInv'
  BY <1>1, <1>2, RequestAssumption DEF CallTwin, HandlerInv
<1>. QED  BY <1>3, <1>4

LEMMA PatchRejectedInv ==
    ASSUME Inv, PatchRejected
    PROVE  Inv'
<1>1. TwinTypeOK'
  BY DEF Inv, TypeOK, PatchRejected, TwinTypeOK, twinVars
<1>. QED
  BY <1>1, PatchErrorOperator DEF Inv, TypeOK, PatchRejected, loopVars

LEMMA PatchUnansweredInv ==
    ASSUME Inv, PatchUnanswered
    PROVE  Inv'
<1>1. TwinTypeOK'
  BY DEF Inv, TypeOK, PatchUnanswered, TwinTypeOK, twinVars
<1>2. k8s' \in [Deployments -> Nat \union {None}] /\ accepted' \in [Deployments -> SUBSET Nat]
  BY PatchingNat, ScaleType DEF PatchUnanswered, OnPatchError
<1>. QED
  BY <1>1, <1>2, PatchErrorOperator DEF Inv, TypeOK, PatchUnanswered

LEMMA ScaledByOthersInv ==
    ASSUME Inv, NEW d \in Deployments, NEW v \in Counts \union {None}, ScaledByOthers(d, v)
    PROVE  Inv'
<1>1. k8s' \in [Deployments -> Nat \union {None}] /\ accepted' \in [Deployments -> SUBSET Nat]
  BY ScaleType, CountsAssumption DEF ScaledByOthers
<1>2. TwinTypeOK'
  BY DEF Inv, TypeOK, ScaledByOthers, TwinTypeOK, twinVars
<1>3. OperatorTypeOK' /\ HandlerInv'
  BY DEF Inv, TypeOK, OperatorTypeOK, HandlerInv, ScaledByOthers, operatorVars
<1>. QED  BY <1>1, <1>2, <1>3 DEF Inv, TypeOK, ScaledByOthers

LEMMA FeederSnapshotInv ==
    ASSUME Inv, NEW cpu \in [Deployments -> Loads], FeederSnapshot(cpu)
    PROVE  Inv'
<1>1. feed' \in Snapshot
  BY DEF Inv, TypeOK, FeederSnapshot, Snapshot
<1>2. TwinTypeOK'
  BY DEF Inv, TypeOK, FeederSnapshot, TwinTypeOK, twinVars
<1>3. OperatorTypeOK' /\ HandlerInv'
  BY DEF Inv, TypeOK, OperatorTypeOK, HandlerInv, FeederSnapshot, operatorVars
<1>. QED  BY <1>1, <1>2, <1>3 DEF Inv, TypeOK, FeederSnapshot

LEMMA FeederDeliversInv ==
    ASSUME Inv, FeederDelivers
    PROVE  Inv'
<1>1. IngestCall(feed) \in FeederCall /\ Serve(IngestCall(feed)) /\ TwinTypeOK
  BY DEF Inv, TypeOK, FeederDelivers, IngestCall, FeederCall, Serve
<1>2. TwinTypeOK'
  BY <1>1, ServeTwinType
<1>3. OperatorTypeOK' /\ HandlerInv'
  BY DEF Inv, TypeOK, OperatorTypeOK, HandlerInv, FeederDelivers, operatorVars
<1>. QED  BY <1>2, <1>3 DEF Inv, TypeOK, FeederDelivers

LEMMA FeederGivesUpInv ==
    ASSUME Inv, FeederGivesUp
    PROVE  Inv'
<1>1. late' \subseteq OperatorCall \union FeederCall
  BY DEF Inv, TypeOK, FeederGivesUp, Abandon, IngestCall, FeederCall
<1>2. TwinTypeOK'
  BY DEF Inv, TypeOK, FeederGivesUp, TwinTypeOK, twinVars
<1>3. OperatorTypeOK' /\ HandlerInv'
  BY DEF Inv, TypeOK, OperatorTypeOK, HandlerInv, FeederGivesUp, operatorVars
<1>. QED  BY <1>1, <1>2, <1>3 DEF Inv, TypeOK, FeederGivesUp

LEMMA TickInv ==
    ASSUME Inv, Tick
    PROVE  Inv'
<1>1. TwinTypeOK' /\ OperatorTypeOK' /\ HandlerInv'
  BY DEF Inv, TypeOK, TwinTypeOK, OperatorTypeOK, HandlerInv, Tick, twinVars, operatorVars
<1>. QED  BY <1>1 DEF Inv, TypeOK, Tick
----------------------------------------------------------------------------
LEMMA StepInv == Inv /\ [Next]_vars => Inv'
<1>. SUFFICES ASSUME Inv, [Next]_vars PROVE Inv'
  OBVIOUS
<1>1. CASE UNCHANGED vars
  <2>1. TwinTypeOK' /\ OperatorTypeOK' /\ HandlerInv'
    BY <1>1 DEF Inv, TypeOK, TwinTypeOK, OperatorTypeOK, HandlerInv, vars, twinVars,
       operatorVars, loopVars
  <2>. QED  BY <1>1, <2>1 DEF Inv, TypeOK, vars, loopVars
<1>2. CASE Next
  BY <1>2, TakeRequestInv, TakeReplyInv, GiveUpInv, CrashInv, TwinServesInv,
     TwinServesLateInv, RetentionInv, PatchOkInv, PatchRejectedInv, PatchUnansweredInv,
     ScaledByOthersInv, FeederSnapshotInv, FeederDeliversInv, FeederGivesUpInv, TickInv
     DEF Next
<1>. QED  BY <1>1, <1>2

LEMMA AlwaysInv == Spec => []Inv
BY InitInv, StepInv, PTL DEF Spec

\* The state keeps its types in every behaviour: the count a PATCH sets, the calls
\* still queued and the replies under way are of the kinds the handlers expect.
THEOREM TypeCorrect == Spec => []TypeOK
<1>1. Inv => TypeOK
  BY DEF Inv
<1>. QED  BY <1>1, AlwaysInv, PTL

----------------------------------------------------------------------------
\* An open request has no answer yet, and an answer agrees with production.
AnswerInv ==
    /\ pc # "idle" => answer = "none"
    /\ AnswerMatchesCluster

LEMMA AnswerStep == Inv /\ AnswerInv /\ [Next]_vars => AnswerInv'
<1>. SUFFICES ASSUME Inv, AnswerInv, [Next]_vars PROVE AnswerInv'
  OBVIOUS
<1>. USE DEF AnswerInv, AnswerMatchesCluster
<1>1. HandlerInv
  BY DEF Inv
<1>2. ASSUME UNCHANGED <<pc, answer, touched>> PROVE AnswerInv'
  BY <1>2
<1>3. ASSUME NEW d \in Deployments, NEW n \in Requests, TakeRequest(d, n)
      PROVE  AnswerInv'
  BY <1>3 DEF TakeRequest, Receive
<1>4. CASE TakeReply
  <2>1. touched' = touched
    BY <1>4 DEF TakeReply, loopVars
  <2>2. CASE OnNull
    BY <1>1, <2>1, <2>2 DEF OnNull, Respond, HandlerInv
  <2>3. CASE OnExceeds
    BY <2>1, <2>3 DEF OnExceeds, CallTwin
  <2>4. CASE OnMet
    BY <2>1, <2>4 DEF OnMet
  <2>5. CASE OnDone
    BY <1>1, <2>1, <2>5 DEF OnDone, Respond, LastAnswer, HandlerInv
  <2>. QED  BY <1>4, <2>2, <2>3, <2>4, <2>5 DEF TakeReply
<1>5. CASE GiveUp
  BY <1>1, <1>5 DEF GiveUp, OnTwinError, Respond, LastAnswer, HandlerInv
<1>6. CASE Crash
  BY <1>6 DEF Crash, Restart
<1>7. CASE PatchOk \/ PatchRejected \/ PatchUnanswered
  <2>1. pc = "patching" /\ answer' = answer
    BY <1>7 DEF PatchOk, PatchRejected, PatchUnanswered, OnPatched, OnPatchError, CallTwin
  <2>. QED  BY <2>1
<1>8. CASE TwinServes \/ Retention \/ FeederDelivers \/ FeederGivesUp \/ Tick
  BY <1>2, <1>8 DEF TwinServes, Retention, FeederDelivers, FeederGivesUp, Tick,
     operatorVars, loopVars
<1>9. ASSUME NEW c \in late, TwinServesLate(c) PROVE AnswerInv'
  BY <1>2, <1>9 DEF TwinServesLate, operatorVars
<1>10. ASSUME NEW d \in Deployments, NEW v \in Counts \union {None}, ScaledByOthers(d, v)
       PROVE  AnswerInv'
  BY <1>2, <1>10 DEF ScaledByOthers, operatorVars
<1>11. ASSUME NEW cpu \in [Deployments -> Loads], FeederSnapshot(cpu) PROVE AnswerInv'
  BY <1>2, <1>11 DEF FeederSnapshot, operatorVars
<1>12. CASE UNCHANGED vars
  BY <1>2, <1>12 DEF vars, operatorVars, loopVars
<1>. QED
  BY <1>3, <1>4, <1>5, <1>6, <1>7, <1>8, <1>9, <1>10, <1>11, <1>12 DEF Next

\* 200 means the PATCH took effect; 404, 409 and the 502 of simulate_scale mean it
\* did not, under every fault (operator main.rs:46-88).
THEOREM AnswersAreTrue == Spec => []AnswerMatchesCluster
<1>1. Init => AnswerInv
  BY DEF Init, OperatorInit, AnswerInv, AnswerMatchesCluster
<1>2. AnswerInv => AnswerMatchesCluster
  BY DEF AnswerInv
<1>. QED  BY <1>1, <1>2, AnswerStep, AlwaysInv, PTL DEF Spec
----------------------------------------------------------------------------
(***************************************************************************)
(* Which abandoned calls may run late: rollbacks and snapshots, not        *)
(* simulations nor commits.                                                *)
(***************************************************************************)
NothingStagedLate == \A c \in late : c.op \in {"rollback", "ingest"}

Listed(s) == \A d \in Deployments : s.reps[d] # None => s.reps[d] \in accepted[d]

\* A late rollback takes away what the request staged, for a count the cluster has held.
StagedOrHeld ==
    /\ Known(req.dep)
    /\ staged[req.dep] = req.n \/ staged[req.dep] \in accepted[req.dep]

LateSourced ==
    /\ \A c \in late : c.op = "ingest" => Listed(c.snap)
    /\ TwinNeverInvents
    /\ \A d \in Deployments : Holds(d) \subseteq accepted[d]
    /\ feed # None => Listed(feed)
    /\ pc = "simulating" /\ reply # None /\ reply.type = "simulation" => StagedOrHeld
    /\ pc = "patching" => StagedOrHeld
    /\ pc = "committing" /\ call # None =>
         StagedOrHeld /\ staged[req.dep] \in accepted[req.dep]

LEMMA LateInit == Init => LateSourced
BY CountsAssumption, NoneAssumption DEF Init, TwinInit, OperatorInit, LateSourced,
   TwinNeverInvents, Known, Holds

LEMMA RequestType ==
    ASSUME Inv, pc # "idle"
    PROVE  req.dep \in Deployments
BY DEF Inv, TypeOK, OperatorTypeOK, HandlerInv, Request

\* The handler's own steps never touch a count; of its calls none is a snapshot.
LEMMA HandlerLate ==
    ASSUME Inv, LateSourced,
           \/ \E d \in Deployments, n \in Requests : TakeRequest(d, n)
           \/ TakeReply \/ GiveUp \/ Crash \/ PatchRejected
    PROVE  LateSourced'
<1>1. UNCHANGED <<replicas, staged, k8s, feed, accepted>>
  BY DEF TakeRequest, TakeReply, GiveUp, Crash, PatchRejected, twinVars, loopVars
<1>2. late' = late \/ (call # None /\ late' = late \union {call})
  BY DEF TakeRequest, TakeReply, GiveUp, Crash, PatchRejected, AbandonOwnCall, Abandon, loopVars
<1>3. call # None => call.op # "ingest"
  BY DEF Inv, TypeOK, OperatorTypeOK, OperatorCall
<1>4. \A c \in late' : c.op = "ingest" => c \in late
  BY <1>2, <1>3
<1>5. \/ pc' = "simulating" /\ reply' = None
      \/ pc' \in {"idle", "refusing", "undoing"}
      \/ OnMet
  BY DEF TakeRequest, Receive, TakeReply, GiveUp, Crash, PatchRejected, OnNull, OnExceeds,
     OnDone, OnTwinError, Restart, OnPatchError, CallTwin, Respond, Inv, HandlerInv
<1>6. OnMet => StagedOrHeld' /\ pc' = "patching"
  BY <1>1 DEF OnMet, LateSourced, StagedOrHeld, Known
<1>7. \A s : Listed(s) => Listed(s)'
  BY <1>1 DEF Listed
<1>. QED
  BY <1>1, <1>4, <1>5, <1>6, <1>7 DEF LateSourced, TwinNeverInvents, Known, Holds

LEMMA TwinServesTheCall ==
    ASSUME Inv, LateSourced, TwinServes
    PROVE  LateSourced'
<1>1. Serve(call) /\ call \in OperatorCall /\ call.dep \in Deployments
  BY DEF Inv, TypeOK, OperatorTypeOK, TwinServes, OperatorCall
<1>2. TwinTypeOK /\ HandlerInv
  BY DEF Inv, TypeOK
<1>3. /\ pc' = pc /\ req' = req /\ call' = None /\ UNCHANGED <<accepted, k8s, feed, late>>
      /\ pc \notin {"idle", "patching"} /\ reply' = AnswerTo(call)
  BY <1>1, <1>2, NoneAssumption DEF TwinServes, HandlerInv
<1>4. /\ \A d \in Deployments : replicas'[d] # None => replicas'[d] \in accepted[d]
      /\ pc = "simulating" /\ reply'.type = "simulation" => StagedOrHeld'
  <2>1. CASE pc = "simulating"
    <3>1. call = SimulateCall(req.dep, req.n) /\ req.dep \in Deployments
      BY <1>1, <1>2, <2>1, NoneAssumption DEF HandlerInv, SimulateCall
    <3>2. SimulateScale(req.dep, req.n) /\ reply' = SimulateAnswer(req.dep, req.n)
      BY <1>1, <1>3, <3>1 DEF Serve, AnswerTo, SimulateCall
    <3>3. replicas' = replicas
      BY <3>2 DEF SimulateScale
    <3>4. ASSUME reply'.type = "simulation" PROVE StagedOrHeld'
      <4>1. Simulatable(req.dep, req.n)
        BY <3>2, <3>4 DEF SimulateAnswer, NullReply
      <4>2. staged'[req.dep] = req.n
        BY <1>2, <3>1, <3>2, <4>1 DEF SimulateScale, TwinTypeOK
      <4>. QED  BY <1>3, <3>3, <4>1, <4>2 DEF StagedOrHeld, Known, Simulatable
    <3>. QED  BY <3>3, <3>4 DEF LateSourced, TwinNeverInvents, Known
  <2>2. CASE pc = "committing"
    <3>1. call = CommitCall(req.dep) /\ req.dep \in Deployments
      BY <1>1, <1>2, <2>2, NoneAssumption DEF HandlerInv, CommitCall
    <3>2. CommitScale(req.dep)
      BY <1>1, <3>1 DEF Serve, CommitCall
    <3>3. staged[req.dep] \in accepted[req.dep]
      BY <1>1, <2>2, NoneAssumption DEF LateSourced
    <3>. QED
      BY <1>2, <2>2, <3>1, <3>2, <3>3
         DEF CommitScale, TwinTypeOK, LateSourced, TwinNeverInvents, Known
  <2>3. CASE pc \in {"refusing", "undoing"}
    <3>1. call = RollbackCall(req.dep)
      BY <1>1, <1>2, <2>3, NoneAssumption DEF HandlerInv
    <3>2. replicas' = replicas
      BY <1>1, <3>1 DEF Serve, RollbackCall, RollbackScale
    <3>. QED  BY <2>3, <3>2 DEF LateSourced, TwinNeverInvents, Known
  <2>. QED
    BY <1>3, <2>1, <2>2, <2>3 DEF Inv, TypeOK, OperatorTypeOK, WaitsOnTwin
<1>5. \A s : Listed(s) => Listed(s)'
  BY <1>3 DEF Listed
<1>. QED
  BY <1>3, <1>4, <1>5 DEF LateSourced, TwinNeverInvents, Known, Holds

\* A snapshot, of whatever age, shows what the cluster has held, and stages as much for a
\* deployment it creates.
LEMMA IngestLate ==
    ASSUME Inv, LateSourced, NEW s \in Snapshot, Listed(s), Ingest(s),
           UNCHANGED <<operatorVars, k8s, accepted>>,
           feed' \in {None, feed}, late' \subseteq late
    PROVE  LateSourced'
<1>1. TwinTypeOK
  BY DEF Inv, TypeOK
<1>2. \A d \in Deployments :
        /\ Known(d) => replicas'[d] # None /\ staged'[d] = staged[d]
        /\ replicas'[d] # None => replicas'[d] \in accepted[d]
  BY <1>1 DEF Ingest, Known, LateSourced, TwinNeverInvents, Listed
<1>3. pc # "idle" => req.dep \in Deployments
  BY RequestType
<1>4. pc # "idle" /\ StagedOrHeld => StagedOrHeld' /\ staged'[req.dep] = staged[req.dep]
  BY <1>2, <1>3 DEF StagedOrHeld, Known, operatorVars
<1>5. \A x : Listed(x) => Listed(x)'
  BY DEF Listed
<1>. QED
  BY <1>2, <1>4, <1>5 DEF LateSourced, TwinNeverInvents, Known, Holds, operatorVars

\* A late rollback stages a count the twin shows, hence one the cluster has held.
LEMMA RollbackLate ==
    ASSUME Inv, LateSourced, NEW e \in Deployments, RollbackScale(e),
           UNCHANGED <<operatorVars, k8s, accepted, feed>>, late' \subseteq late
    PROVE  LateSourced'
<1>1. TwinTypeOK
  BY DEF Inv, TypeOK
<1>2. replicas' = replicas
  BY DEF RollbackScale
<1>3. \A d \in Deployments :
        staged'[d] = staged[d] \/ (Known(d) => staged'[d] \in accepted[d])
  BY <1>1 DEF RollbackScale, TwinTypeOK, LateSourced, TwinNeverInvents
<1>4. pc # "idle" => req.dep \in Deployments
  BY RequestType
<1>5. pc # "idle" /\ StagedOrHeld =>
        /\ StagedOrHeld'
        /\ staged[req.dep] \in accepted[req.dep] => staged'[req.dep] \in accepted[req.dep]
  BY <1>2, <1>3, <1>4 DEF StagedOrHeld, Known, operatorVars
<1>6. \A x : Listed(x) => Listed(x)'
  BY DEF Listed
<1>. QED
  BY <1>2, <1>5, <1>6 DEF LateSourced, TwinNeverInvents, Known, Holds, operatorVars

LEMMA TwinServesLateLate ==
    ASSUME Inv, LateSourced, NothingStagedLate, NEW c \in late, TwinServesLate(c)
    PROVE  LateSourced'
<1>1. c \in OperatorCall \union FeederCall /\ c.op \in {"rollback", "ingest"} /\ Serve(c)
  BY DEF Inv, TypeOK, NothingStagedLate, TwinServesLate
<1>2. UNCHANGED <<operatorVars, k8s, accepted, feed>> /\ late' \subseteq late
  BY DEF TwinServesLate
<1>3. CASE c.op = "rollback"
  <2>1. c.dep \in Deployments /\ RollbackScale(c.dep)
    BY <1>1, <1>3 DEF OperatorCall, FeederCall, Serve
  <2>. QED  BY <1>2, <2>1, RollbackLate
<1>4. CASE c.op = "ingest"
  <2>1. c.snap \in Snapshot /\ Ingest(c.snap) /\ Listed(c.snap)
    BY <1>1, <1>4 DEF OperatorCall, FeederCall, Serve, LateSourced
  <2>. QED  BY <1>2, <2>1, IngestLate
<1>. QED  BY <1>1, <1>3, <1>4

LEMMA PatchLate ==
    ASSUME Inv, LateSourced, PatchOk \/ PatchUnanswered
    PROVE  LateSourced'
<1>1. /\ pc = "patching" /\ pc' \in {"committing", "undoing"}
      /\ req' = req /\ reply' = None
      /\ UNCHANGED <<replicas, staged, feed, late>>
  BY DEF PatchOk, PatchUnanswered, OnPatched, OnPatchError, CallTwin, twinVars
<1>2. req.dep \in Deployments /\ req.n \in Nat /\ Scale(req.dep, req.n)
  BY <1>1, PatchingNat DEF PatchOk, PatchUnanswered
<1>3. k8s \in [Deployments -> Nat \union {None}] /\ accepted \in [Deployments -> SUBSET Nat]
  BY DEF Inv, TypeOK
<1>4. req.n \in accepted'[req.dep] /\ \A d \in Deployments : accepted[d] \subseteq accepted'[d]
  BY <1>2, <1>3, NoneAssumption DEF Scale
<1>5. \A d \in Deployments : Holds(d)' \subseteq accepted'[d]
  BY <1>2, <1>3, <1>4 DEF Scale, Holds, LateSourced
<1>6. StagedOrHeld' /\ staged[req.dep] \in accepted'[req.dep]
  BY <1>1, <1>2, <1>4 DEF LateSourced, StagedOrHeld, Known
<1>7. \A s : Listed(s) => Listed(s)'
  BY <1>4 DEF Listed
<1>. QED
  BY <1>1, <1>4, <1>5, <1>6, <1>7 DEF LateSourced, TwinNeverInvents, Known

LEMMA OthersLate ==
    ASSUME Inv, LateSourced, NEW d \in Deployments, NEW v \in Counts \union {None},
           ScaledByOthers(d, v)
    PROVE  LateSourced'
<1>1. k8s \in [Deployments -> Nat \union {None}] /\ accepted \in [Deployments -> SUBSET Nat]
  BY DEF Inv, TypeOK
<1>2. UNCHANGED <<replicas, staged, pc, req, call, reply, feed, late>> /\ Scale(d, v)
  BY DEF ScaledByOthers, twinVars, operatorVars
<1>3. \A e \in Deployments : accepted[e] \subseteq accepted'[e]
  BY <1>1, <1>2 DEF Scale
<1>4. \A e \in Deployments : Holds(e)' \subseteq accepted'[e]
  BY <1>1, <1>2 DEF Scale, Holds, LateSourced
<1>5. pc # "idle" => req.dep \in Deployments
  BY RequestType
<1>6. pc # "idle" /\ StagedOrHeld => StagedOrHeld'
  BY <1>2, <1>3, <1>5 DEF StagedOrHeld, Known
<1>7. \A s : Listed(s) => Listed(s)'
  BY <1>3 DEF Listed
<1>. QED
  BY <1>2, <1>3, <1>4, <1>5, <1>6, <1>7 DEF LateSourced, TwinNeverInvents, Known

LEMMA FeederLate ==
    ASSUME Inv, LateSourced, FeederDelivers \/ FeederGivesUp
    PROVE  LateSourced'
<1>1. feed \in Snapshot /\ Listed(feed) /\ feed' = None
  BY DEF Inv, TypeOK, FeederDelivers, FeederGivesUp, LateSourced
<1>2. CASE FeederDelivers
  <2>1. Ingest(feed) /\ UNCHANGED <<operatorVars, k8s, accepted>> /\ late' = late
    BY <1>2 DEF FeederDelivers
  <2>. QED  BY <1>1, <2>1, IngestLate
<1>3. CASE FeederGivesUp
  <2>1. UNCHANGED <<replicas, staged, operatorVars, k8s, accepted>>
    BY <1>3 DEF FeederGivesUp, twinVars
  <2>2. late' \subseteq late \union {IngestCall(feed)}
    BY <1>3 DEF FeederGivesUp, Abandon
  <2>3. \A c \in late' : c.op = "ingest" => Listed(c.snap)
    BY <1>1, <2>2 DEF LateSourced, IngestCall
  <2>. QED
    BY <1>1, <2>1, <2>3
       DEF LateSourced, Listed, TwinNeverInvents, Known, Holds, StagedOrHeld, operatorVars
<1>. QED  BY <1>2, <1>3

LEMMA LateStep == Inv /\ LateSourced /\ NothingStagedLate /\ [Next]_vars => LateSourced'
<1>. SUFFICES ASSUME Inv, LateSourced, NothingStagedLate, [Next]_vars PROVE LateSourced'
  OBVIOUS
<1>1. CASE Retention \/ Tick \/ UNCHANGED vars
  <2>1. UNCHANGED <<replicas, staged, operatorVars, k8s, feed, late, accepted>>
    BY <1>1 DEF Retention, RunRetention, Tick, vars, twinVars, loopVars
  <2>. QED
    BY <2>1 DEF LateSourced, Listed, TwinNeverInvents, Known, Holds, StagedOrHeld, operatorVars
<1>2. ASSUME NEW cpu \in [Deployments -> Loads], FeederSnapshot(cpu)
      PROVE  LateSourced'
  <2>1. feed'.reps = k8s /\ UNCHANGED <<replicas, staged, k8s, accepted, late, operatorVars>>
    BY <1>2 DEF FeederSnapshot, twinVars
  <2>2. \A d \in Deployments : k8s[d] # None => k8s[d] \in accepted[d]
    BY DEF LateSourced, Holds
  <2>. QED
    BY <2>1, <2>2
       DEF LateSourced, Listed, TwinNeverInvents, Known, Holds, StagedOrHeld, operatorVars
<1>. QED
  BY <1>1, <1>2, HandlerLate, TwinServesTheCall, TwinServesLateLate, PatchLate, OthersLate,
     FeederLate DEF Next

\* Rollbacks and snapshots the callers gave up may run at any later moment: as long as no
\* simulation and no commit does, the twin shows no count the cluster has not held
\* (twin.gcl:3, 338-342, 627-644).
THEOREM HarmlessWhenLate == Spec /\ []NothingStagedLate => []TwinNeverInvents
<1>1. LateSourced => TwinNeverInvents
  BY DEF LateSourced
<1>. QED  BY <1>1, LateInit, LateStep, AlwaysInv, PTL DEF Spec
----------------------------------------------------------------------------
(***************************************************************************)
(* In this part no abandoned call runs late: a call of the twin that fails *)
(* has been executed or never will be.                                     *)
(***************************************************************************)

LEMMA SourceInit == Init => CountsHaveSource
BY CountsAssumption, NoneAssumption DEF Init, TwinInit, OperatorInit, CountsHaveSource,
   TwinNeverInvents, Known, Holds

LEMMA AbandonNothing ==
    ASSUME "late" \notin Faults, CountsHaveSource
    PROVE  /\ AbandonOwnCall => late' = {}
           /\ \A c : Abandon(c) => late' = {}
BY DEF AbandonOwnCall, Abandon, CountsHaveSource

LEMMA TwinServesSource ==
    ASSUME Inv, CountsHaveSource, TwinServes
    PROVE  CountsHaveSource'
<1>1. Serve(call) /\ call \in OperatorCall /\ call.dep \in Deployments
  BY DEF Inv, TypeOK, OperatorTypeOK, TwinServes, OperatorCall
<1>2. TwinTypeOK /\ HandlerInv
  BY DEF Inv, TypeOK
<1>3. /\ pc' = pc /\ req' = req /\ call' = None /\ UNCHANGED <<accepted, k8s, feed, late>>
      /\ pc \notin {"idle", "patching"} /\ reply' = AnswerTo(call)
  BY <1>1, <1>2, NoneAssumption DEF TwinServes, HandlerInv
<1>4. /\ \A d \in Deployments : replicas'[d] # None => replicas'[d] \in accepted[d]
      /\ pc = "simulating" /\ reply'.type = "simulation" => StagedForRequest'
  <2>1. CASE pc = "simulating"
    <3>1. call = SimulateCall(req.dep, req.n) /\ req.dep \in Deployments
      BY <1>1, <1>2, <2>1, NoneAssumption DEF HandlerInv, SimulateCall
    <3>2. SimulateScale(req.dep, req.n) /\ reply' = SimulateAnswer(req.dep, req.n)
      BY <1>1, <1>3, <3>1 DEF Serve, AnswerTo, SimulateCall
    <3>3. replicas' = replicas
      BY <3>2 DEF SimulateScale
    <3>4. ASSUME reply'.type = "simulation" PROVE StagedForRequest'
      <4>1. Simulatable(req.dep, req.n)
        BY <3>2, <3>4 DEF SimulateAnswer, NullReply
      <4>2. staged'[req.dep] = req.n
        BY <1>2, <3>1, <3>2, <4>1 DEF SimulateScale, TwinTypeOK
      <4>. QED  BY <1>3, <3>3, <4>1, <4>2 DEF StagedForRequest, Known, Simulatable
    <3>. QED  BY <3>3, <3>4 DEF CountsHaveSource, TwinNeverInvents, Known
  <2>2. CASE pc = "committing"
    <3>1. call = CommitCall(req.dep) /\ req.dep \in Deployments
      BY <1>1, <1>2, <2>2, NoneAssumption DEF HandlerInv, CommitCall
    <3>2. CommitScale(req.dep)
      BY <1>1, <3>1 DEF Serve, CommitCall
    <3>3. staged[req.dep] \in accepted[req.dep]
      BY <1>1, <2>2, NoneAssumption DEF CountsHaveSource, StagedForRequest
    <3>. QED
      BY <1>2, <2>2, <3>1, <3>2, <3>3
         DEF CommitScale, TwinTypeOK, CountsHaveSource, TwinNeverInvents, Known
  <2>3. CASE pc \in {"refusing", "undoing"}
    <3>1. call = RollbackCall(req.dep)
      BY <1>1, <1>2, <2>3, NoneAssumption DEF HandlerInv
    <3>2. replicas' = replicas
      BY <1>1, <3>1 DEF Serve, RollbackCall, RollbackScale
    <3>. QED  BY <2>3, <3>2 DEF CountsHaveSource, TwinNeverInvents, Known
  <2>. QED
    BY <1>3, <2>1, <2>2, <2>3 DEF Inv, TypeOK, OperatorTypeOK, WaitsOnTwin
<1>. QED
  BY <1>3, <1>4 DEF CountsHaveSource, TwinNeverInvents, Known, Holds

\* The feeder overwrites the count of a deployment and never what is staged for a
\* known one: the open request keeps its staged count.
LEMMA FeederDeliversSource ==
    ASSUME Inv, CountsHaveSource, FeederDelivers
    PROVE  CountsHaveSource'
<1>1. TwinTypeOK /\ feed \in Snapshot /\ Ingest(feed)
  BY DEF Inv, TypeOK, FeederDelivers
<1>2. \A d \in Deployments :
        /\ Known(d) => replicas'[d] # None /\ staged'[d] = staged[d]
        /\ replicas'[d] # None => replicas'[d] \in accepted[d]
  BY <1>1 DEF Ingest, Known, CountsHaveSource, TwinNeverInvents, FeederDelivers
<1>3. UNCHANGED <<operatorVars, k8s, late, accepted>> /\ feed' = None
  BY DEF FeederDelivers
<1>4. req # None => req.dep \in Deployments
  BY DEF Inv, TypeOK, OperatorTypeOK, Request
<1>5. StagedForRequest /\ req # None => StagedForRequest'
  BY <1>2, <1>3, <1>4 DEF StagedForRequest, Known, operatorVars
<1>6. pc # "idle" => req # None
  BY DEF Inv, HandlerInv
<1>. QED
  BY <1>2, <1>3, <1>5, <1>6 DEF CountsHaveSource, TwinNeverInvents, Known, Holds, operatorVars

\* A PATCH that takes effect makes the staged count one the cluster has held.
LEMMA PatchSource ==
    ASSUME Inv, CountsHaveSource, PatchOk \/ PatchUnanswered
    PROVE  CountsHaveSource'
<1>1. /\ pc = "patching" /\ pc' \in {"committing", "undoing"}
      /\ req' = req /\ reply' = None
      /\ UNCHANGED <<replicas, staged, feed, late>>
  BY DEF PatchOk, PatchUnanswered, OnPatched, OnPatchError, CallTwin, twinVars
<1>2. req.dep \in Deployments /\ req.n \in Nat /\ Scale(req.dep, req.n)
  BY <1>1, PatchingNat DEF PatchOk, PatchUnanswered
<1>3. k8s \in [Deployments -> Nat \union {None}] /\ accepted \in [Deployments -> SUBSET Nat]
  BY DEF Inv, TypeOK
<1>4. req.n \in accepted'[req.dep] /\ \A d \in Deployments : accepted[d] \subseteq accepted'[d]
  BY <1>2, <1>3, NoneAssumption DEF Scale
<1>5. \A d \in Deployments : Holds(d)' \subseteq accepted'[d]
  BY <1>2, <1>3, <1>4 DEF Scale, Holds, CountsHaveSource
<1>6. StagedForRequest'
  BY <1>1 DEF CountsHaveSource, StagedForRequest, Known
<1>. QED
  BY <1>1, <1>4, <1>5, <1>6 DEF CountsHaveSource, TwinNeverInvents, Known

LEMMA OthersSource ==
    ASSUME Inv, CountsHaveSource, NEW d \in Deployments, NEW v \in Counts \union {None},
           ScaledByOthers(d, v)
    PROVE  CountsHaveSource'
<1>1. k8s \in [Deployments -> Nat \union {None}] /\ accepted \in [Deployments -> SUBSET Nat]
  BY DEF Inv, TypeOK
<1>2. UNCHANGED <<replicas, staged, pc, req, call, reply, feed, late>> /\ Scale(d, v)
  BY DEF ScaledByOthers, twinVars, operatorVars
<1>3. \A e \in Deployments : accepted[e] \subseteq accepted'[e]
  BY <1>1, <1>2 DEF Scale
<1>4. \A e \in Deployments : Holds(e)' \subseteq accepted'[e]
  BY <1>1, <1>2 DEF Scale, Holds, CountsHaveSource
<1>5. StagedForRequest' <=> StagedForRequest
  BY <1>2 DEF StagedForRequest, Known
<1>6. pc = "committing" /\ call # None => req.dep \in Deployments
  BY DEF Inv, TypeOK, OperatorTypeOK, HandlerInv, Request
<1>. QED
  BY <1>2, <1>3, <1>4, <1>5, <1>6 DEF CountsHaveSource, TwinNeverInvents, Known

\* The handler's own steps pass the request on and never touch a count.
LEMMA HandlerSource ==
    ASSUME Inv, CountsHaveSource, "late" \notin Faults,
           \/ \E d \in Deployments, n \in Requests : TakeRequest(d, n)
           \/ TakeReply \/ GiveUp \/ Crash \/ PatchRejected
    PROVE  CountsHaveSource'
<1>1. UNCHANGED <<replicas, staged, k8s, feed, accepted>> /\ late' = {}
  BY AbandonNothing DEF TakeRequest, TakeReply, GiveUp, Crash, PatchRejected, twinVars,
     loopVars, CountsHaveSource
<1>2. \/ pc' = "simulating" /\ reply' = None
      \/ pc' \in {"idle", "refusing", "undoing"}
      \/ OnMet
  BY DEF TakeRequest, Receive, TakeReply, GiveUp, Crash, PatchRejected, OnNull, OnExceeds,
     OnDone, OnTwinError, Restart, OnPatchError, CallTwin, Respond, Inv, HandlerInv
<1>3. OnMet => StagedForRequest' /\ pc' = "patching"
  BY <1>1 DEF OnMet, CountsHaveSource, StagedForRequest, Known
<1>. QED
  BY <1>1, <1>2, <1>3 DEF CountsHaveSource, TwinNeverInvents, Known, Holds

LEMMA SnapshotSource ==
    ASSUME Inv, CountsHaveSource, NEW cpu \in [Deployments -> Loads], FeederSnapshot(cpu)
    PROVE  CountsHaveSource'
<1>1. feed'.reps = k8s /\ UNCHANGED <<replicas, staged, k8s, accepted, late, operatorVars>>
  BY DEF FeederSnapshot, twinVars
<1>2. \A d \in Deployments : k8s[d] # None => k8s[d] \in accepted[d]
  BY DEF CountsHaveSource, Holds
<1>. QED
  BY <1>1, <1>2
     DEF CountsHaveSource, TwinNeverInvents, Known, Holds, StagedForRequest, operatorVars

LEMMA SourceStep ==
    ASSUME "late" \notin Faults
    PROVE  Inv /\ CountsHaveSource /\ [Next]_vars => CountsHaveSource'
<1>. SUFFICES ASSUME Inv, CountsHaveSource, [Next]_vars PROVE CountsHaveSource'
  OBVIOUS
<1>1. ASSUME UNCHANGED <<replicas, staged, operatorVars, k8s, feed, late, accepted>>
      PROVE  CountsHaveSource'
  BY <1>1 DEF CountsHaveSource, TwinNeverInvents, Known, Holds, StagedForRequest, operatorVars
<1>2. CASE Retention \/ Tick \/ UNCHANGED vars
  BY <1>1, <1>2 DEF Retention, RunRetention, Tick, vars, twinVars, loopVars
<1>3. CASE FeederGivesUp
  <2>1. late' = late
    BY <1>3, AbandonNothing DEF FeederGivesUp, CountsHaveSource
  <2>2. UNCHANGED <<replicas, staged, operatorVars, k8s, accepted>> /\ feed' = None
    BY <1>3 DEF FeederGivesUp, twinVars
  <2>. QED
    BY <2>1, <2>2
       DEF CountsHaveSource, TwinNeverInvents, Known, Holds, StagedForRequest, operatorVars
<1>4. ASSUME NEW c \in late PROVE FALSE
  BY <1>4 DEF CountsHaveSource
<1>. QED
  BY <1>2, <1>3, <1>4, HandlerSource, TwinServesSource, PatchSource, OthersSource,
     SnapshotSource, FeederDeliversSource DEF Next

\* As long as no abandoned call runs late, what a commit copies is what its own request
\* staged and the cluster took, though the feeder writes the same deployment in between,
\* and a snapshot on its way lists counts the cluster has held (twin.gcl:340, 632).
THEOREM CountsAreSourced ==
    ASSUME "late" \notin Faults
    PROVE  Spec => []CountsHaveSource
BY SourceInit, SourceStep, AlwaysInv, PTL DEF Spec

\* As long as no abandoned call runs late, the twin never shows a replica count the
\* cluster has not held (twin.gcl:3), whatever else fails.
THEOREM TwinFollows ==
    ASSUME "late" \notin Faults
    PROVE  Spec => []TwinNeverInvents
<1>1. CountsHaveSource => TwinNeverInvents
  BY DEF CountsHaveSource
<1>. QED  BY <1>1, SourceInit, SourceStep, AlwaysInv, PTL DEF Spec

\* Under the same condition every PATCH that takes effect was simulated, checked and
\* staged for exactly the count it sets (operator main.rs:40-87).
THEOREM PatchesAreStaged ==
    ASSUME "late" \notin Faults
    PROVE  Spec => PatchIsStaged
<1>1. Inv /\ CountsHaveSource /\ [Next]_vars =>
        [touched' /\ ~touched => /\ req.n > 0
                                 /\ staged[req.dep] = req.n
                                 /\ reply.cpu <= Limit * req.n]_vars
  <2>. SUFFICES ASSUME Inv, CountsHaveSource, Next, touched' # touched, touched'
                PROVE  pc = "patching"
    BY DEF Inv, HandlerInv, CountsHaveSource, StagedForRequest
  <2>. QED
    BY DEF Next, TakeRequest, TakeReply, GiveUp, Crash, TwinServes, TwinServesLate,
       Retention, PatchOk, PatchRejected, PatchUnanswered, ScaledByOthers, FeederSnapshot,
       FeederDelivers, FeederGivesUp, Tick, OnPatched, OnPatchError, loopVars
<1>. QED  BY <1>1, SourceInit, SourceStep, AlwaysInv, PTL DEF Spec, PatchIsStaged
----------------------------------------------------------------------------
\* Once the twin has replied to the commit or the rollback of a request, nothing is
\* staged for its deployment.
SettledInv == pc \in DOMAIN LastAnswer /\ reply # None => req.dep \notin dirty

LEMMA SettledStep == Inv /\ CountsHaveSource /\ SettledInv /\ [Next]_vars => SettledInv'
<1>. SUFFICES ASSUME Inv, CountsHaveSource, SettledInv, [Next]_vars PROVE SettledInv'
  OBVIOUS
<1>. USE DEF SettledInv, LastAnswer
<1>1. ASSUME UNCHANGED <<pc, req, reply, dirty>> PROVE SettledInv'
  BY <1>1
<1>2. ASSUME pc' \in {"idle", "simulating", "patching"} \/ reply' = None PROVE SettledInv'
  BY <1>2
<1>3. ASSUME NEW d \in Deployments, NEW n \in Requests, TakeRequest(d, n)
      PROVE  SettledInv'
  BY <1>2, <1>3 DEF TakeRequest, Receive
<1>4. CASE TakeReply
  BY <1>2, <1>4 DEF TakeReply, OnNull, OnExceeds, OnMet, OnDone, Respond, CallTwin
<1>5. CASE GiveUp \/ Crash
  BY <1>2, <1>5 DEF GiveUp, Crash, OnTwinError, Respond, Restart
<1>6. CASE TwinServes
  <2>. SUFFICES ASSUME pc \in DOMAIN LastAnswer PROVE req.dep \notin dirty'
    BY <1>6 DEF TwinServes
  <2>1. call \in {CommitCall(req.dep), RollbackCall(req.dep)}
    BY <1>6 DEF TwinServes, Inv, HandlerInv
  <2>2. dirty' = dirty \ {req.dep}
    BY <1>6, <2>1 DEF TwinServes, DirtyAfter, CommitCall, RollbackCall
  <2>. QED  BY <2>2
<1>7. ASSUME NEW c \in late, TwinServesLate(c) PROVE SettledInv'
  BY <1>7 DEF CountsHaveSource
<1>8. CASE PatchOk \/ PatchRejected \/ PatchUnanswered
  BY <1>2, <1>8 DEF PatchOk, PatchRejected, PatchUnanswered, OnPatched, OnPatchError, CallTwin
<1>9. CASE Retention \/ FeederDelivers \/ FeederGivesUp \/ Tick \/ UNCHANGED vars
  BY <1>1, <1>9 DEF Retention, FeederDelivers, FeederGivesUp, Tick, vars, operatorVars, loopVars
<1>10. ASSUME NEW d \in Deployments, NEW v \in Counts \union {None}, ScaledByOthers(d, v)
       PROVE  SettledInv'
  BY <1>1, <1>10 DEF ScaledByOthers, operatorVars
<1>11. ASSUME NEW cpu \in [Deployments -> Loads], FeederSnapshot(cpu) PROVE SettledInv'
  BY <1>1, <1>11 DEF FeederSnapshot, operatorVars
<1>. QED
  BY <1>3, <1>4, <1>5, <1>6, <1>7, <1>8, <1>9, <1>10, <1>11 DEF Next

\* Under the same condition a request that ends with the twin's reply to its commit or
\* rollback leaves nothing staged (operator main.rs:65-88).
THEOREM RepliesDoSettle ==
    ASSUME "late" \notin Faults
    PROVE  Spec => RepliesSettle
<1>1. Init => SettledInv
  BY DEF Init, OperatorInit, SettledInv
<1>2. Init => AnswerInv
  BY DEF Init, OperatorInit, AnswerInv, AnswerMatchesCluster
<1>3. Inv /\ AnswerInv /\ SettledInv /\ [Next]_vars =>
        [reply # None /\ answer' \in {"applied", "refused", "failed"} =>
           req.dep \notin dirty']_vars
  <2>. SUFFICES ASSUME Inv, AnswerInv, SettledInv, Next,
                       reply # None, answer' \in {"applied", "refused", "failed"}
                PROVE  pc \in DOMAIN LastAnswer /\ dirty' = dirty
    BY DEF SettledInv
  <2>1. pc # "idle" /\ answer' # answer
    BY DEF Inv, HandlerInv, AnswerInv
  <2>2. TakeReply \/ GiveUp \/ Crash
    BY <2>1 DEF Next, TakeRequest, Receive, TwinServes, TwinServesLate, Retention, PatchOk,
       PatchRejected, PatchUnanswered, OnPatched, OnPatchError, CallTwin, ScaledByOthers,
       FeederSnapshot, FeederDelivers, FeederGivesUp, Tick, operatorVars, loopVars
  <2>3. pc \in DOMAIN LastAnswer
    BY <2>1, <2>2 DEF TakeReply, OnNull, OnExceeds, OnMet, OnDone, CallTwin, GiveUp,
       OnTwinError, Crash, Restart, Respond
  <2>4. dirty' = dirty
    BY <2>2 DEF TakeReply, GiveUp, Crash, loopVars
  <2>. QED  BY <2>3, <2>4
<1>. QED
  BY <1>1, <1>2, <1>3, SettledStep, AnswerStep, SourceInit, SourceStep, AlwaysInv, PTL
     DEF Spec, RepliesSettle
----------------------------------------------------------------------------
(***************************************************************************)
(* Nothing stays staged as long as each call of the twin is answered: only *)
(* timeouts and restarts orphan what simulate_scale staged.                *)
(***************************************************************************)
OnlyOwnStaged ==
    /\ late = {}
    /\ NoOrphanStaging
    /\ pc # "idle" => dirty \subseteq {req.dep}
    /\ pc = "simulating" /\ call # None => dirty = {}
    /\ pc = "simulating" /\ reply # None /\ reply.type = "null" => dirty = {}
    /\ pc \in DOMAIN LastAnswer /\ reply # None => dirty = {}

LEMMA ServedStaging ==
    ASSUME Inv, OnlyOwnStaged, TwinServes
    PROVE  OnlyOwnStaged'
<1>1. /\ UNCHANGED <<pc, req, late>> /\ call # None /\ call' = None /\ reply' = AnswerTo(call)
      /\ dirty' = DirtyAfter(call) /\ pc # "idle" /\ pc # "patching"
  BY DEF TwinServes, Inv, HandlerInv
<1>2. CASE pc = "simulating"
  <2>1. call = SimulateCall(req.dep, req.n) /\ dirty = {}
    BY <1>1, <1>2 DEF Inv, HandlerInv, OnlyOwnStaged
  <2>2. /\ reply' = SimulateAnswer(req.dep, req.n)
        /\ dirty' = IF Simulatable(req.dep, req.n) THEN {req.dep} ELSE {}
    BY <1>1, <2>1 DEF AnswerTo, DirtyAfter, SimulateCall
  <2>3. reply'.type = "null" => dirty' = {}
    BY <2>2 DEF SimulateAnswer, SimulationReply
  <2>. QED
    BY <1>1, <1>2, <2>2, <2>3 DEF OnlyOwnStaged, NoOrphanStaging, LastAnswer
<1>3. CASE pc # "simulating"
  <2>1. call \in {CommitCall(req.dep), RollbackCall(req.dep)}
    BY <1>1, <1>3 DEF Inv, TypeOK, OperatorTypeOK, WaitsOnTwin, HandlerInv
  <2>2. dirty' = dirty \ {req.dep}
    BY <1>1, <2>1 DEF DirtyAfter, CommitCall, RollbackCall
  <2>3. dirty' = {}
    BY <1>1, <2>2 DEF OnlyOwnStaged
  <2>. QED  BY <1>1, <1>3, <2>3 DEF OnlyOwnStaged, NoOrphanStaging
<1>. QED  BY <1>2, <1>3

LEMMA StagingStep ==
    ASSUME "timeout" \notin Faults, "crash" \notin Faults
    PROVE  Inv /\ OnlyOwnStaged /\ [Next]_vars => OnlyOwnStaged'
<1>. SUFFICES ASSUME Inv, OnlyOwnStaged, [Next]_vars PROVE OnlyOwnStaged'
  OBVIOUS
<1>. USE DEF OnlyOwnStaged, NoOrphanStaging, LastAnswer
<1>1. ASSUME UNCHANGED <<operatorVars, late, dirty>> PROVE OnlyOwnStaged'
  BY <1>1 DEF operatorVars
<1>2. ASSUME NEW d \in Deployments, NEW n \in Requests, TakeRequest(d, n)
      PROVE  OnlyOwnStaged'
  BY <1>2 DEF TakeRequest, Receive, Inv, HandlerInv
<1>3. CASE TakeReply
  <2>1. UNCHANGED <<late, dirty>>
    BY <1>3 DEF TakeReply, loopVars
  <2>2. CASE OnNull
    BY <2>1, <2>2 DEF OnNull, Respond
  <2>3. CASE OnExceeds
    BY <2>1, <2>3 DEF OnExceeds, CallTwin
  <2>4. CASE OnMet
    BY <2>1, <2>4 DEF OnMet
  <2>5. CASE OnDone
    BY <2>1, <2>5 DEF OnDone, Respond
  <2>. QED  BY <1>3, <2>2, <2>3, <2>4, <2>5 DEF TakeReply
<1>4. CASE PatchOk \/ PatchRejected \/ PatchUnanswered
  <2>1. UNCHANGED <<req, late, dirty>> /\ pc = "patching"
    BY <1>4 DEF PatchOk, PatchRejected, PatchUnanswered, OnPatched, OnPatchError, CallTwin,
       loopVars
  <2>2. pc' \in {"committing", "undoing"} /\ reply' = None
    BY <1>4 DEF PatchOk, PatchRejected, PatchUnanswered, OnPatched, OnPatchError, CallTwin
  <2>. QED  BY <2>1, <2>2
<1>5. ASSUME NEW d \in Deployments, NEW v \in Counts \union {None}, ScaledByOthers(d, v)
      PROVE  OnlyOwnStaged'
  BY <1>1, <1>5 DEF ScaledByOthers
<1>6. ASSUME NEW cpu \in [Deployments -> Loads], FeederSnapshot(cpu) PROVE OnlyOwnStaged'
  BY <1>1, <1>6 DEF FeederSnapshot
<1>7. CASE Retention \/ FeederDelivers \/ Tick \/ UNCHANGED vars
  BY <1>1, <1>7 DEF Retention, FeederDelivers, Tick, vars, loopVars
<1>8. ~GiveUp /\ ~Crash /\ ~FeederGivesUp /\ \A c \in late : FALSE
  BY DEF GiveUp, Crash, FeederGivesUp
<1>. QED
  BY <1>2, <1>3, <1>4, <1>5, <1>6, <1>7, <1>8, ServedStaging DEF Next

\* "The operator either commits or rolls back" (twin.gcl:2-3) as long as no call of the twin
\* times out and the operator is not restarted, whatever becomes of PATCHes and whoever else
\* scales the cluster.
THEOREM NothingOrphaned ==
    ASSUME "timeout" \notin Faults, "crash" \notin Faults
    PROVE  Spec => []NoOrphanStaging
<1>1. Init => OnlyOwnStaged
  BY DEF Init, OperatorInit, OnlyOwnStaged, NoOrphanStaging, LastAnswer
<1>2. OnlyOwnStaged => NoOrphanStaging
  BY DEF OnlyOwnStaged
<1>. QED  BY <1>1, <1>2, StagingStep, AlwaysInv, PTL DEF Spec
----------------------------------------------------------------------------
(***************************************************************************)
(* The refinement: every step of the loop is a step of ScaleGate or leaves *)
(* the request and the cluster as they were.                               *)
(***************************************************************************)
LEMMA GateInit == Init => Gate!Init
<1>. SUFFICES ASSUME Init PROVE Gate!Init
  OBVIOUS
<1>1. k8s \in [Deployments -> Nat \union {None}]
  BY CountsAssumption DEF Init
<1>2. Stage[pc] = "idle"
  BY DEF Init, OperatorInit, Stage
<1>. QED  BY <1>1, <1>2 DEF Init, OperatorInit, Gate!Init

LEMMA GateStep == Inv /\ AnswerInv /\ [Next]_vars => [Gate!Next]_Gate!vars
<1>. SUFFICES ASSUME Inv, AnswerInv, [Next]_vars PROVE Gate!Next \/ UNCHANGED Gate!vars
  OBVIOUS
<1>. USE DEF Stage
<1>1. HandlerInv /\ OperatorTypeOK
  BY DEF Inv, TypeOK
<1>2. ASSUME UNCHANGED <<k8s, pc, req, touched, answer>> PROVE UNCHANGED Gate!vars
  BY <1>2 DEF Gate!vars
<1>3. CASE TwinServes \/ Retention \/ FeederDelivers \/ FeederGivesUp \/ Tick \/ UNCHANGED vars
  BY <1>2, <1>3 DEF TwinServes, Retention, FeederDelivers, FeederGivesUp, Tick,
     vars, operatorVars, loopVars
<1>4. ASSUME \/ \E c \in late : TwinServesLate(c)
             \/ \E cpu \in [Deployments -> Loads] : FeederSnapshot(cpu)
      PROVE  UNCHANGED Gate!vars
  BY <1>2, <1>4 DEF TwinServesLate, FeederSnapshot, operatorVars
<1>5. ASSUME NEW d \in Deployments, NEW n \in Requests, TakeRequest(d, n)
      PROVE  Gate!Next
  <2>1. Gate!Ask(d, n)
    BY <1>5 DEF TakeRequest, Receive, Gate!Ask
  <2>. QED  BY <2>1 DEF Gate!Next
<1>6. CASE TakeReply
  <2>1. UNCHANGED <<k8s, touched>>
    BY <1>6 DEF TakeReply, loopVars
  <2>2. CASE OnNull
    BY <2>1, <2>2 DEF OnNull, Respond, Gate!Next, Gate!Answer, Gate!AnswersAt
  <2>3. CASE OnExceeds
    BY <1>1, <2>1, <2>3 DEF OnExceeds, CallTwin, HandlerInv, Gate!Next, Gate!Decide
  <2>4. CASE OnMet
    BY <1>1, <2>1, <2>4 DEF OnMet, HandlerInv, Gate!Next, Gate!Decide
  <2>5. CASE OnDone
    BY <2>1, <2>5
       DEF OnDone, Respond, LastAnswer, Gate!Next, Gate!Answer, Gate!AnswersAt
  <2>. QED  BY <1>6, <2>2, <2>3, <2>4, <2>5 DEF TakeReply
<1>7. CASE GiveUp
  BY <1>7 DEF GiveUp, OnTwinError, Respond, LastAnswer, Gate!Next, Gate!Answer,
     Gate!AnswersAt
<1>8. CASE Crash
  BY <1>1, <1>8 DEF Crash, Restart, OperatorTypeOK, WaitsOnTwin, Gate!Next, Gate!Abort
<1>9. CASE PatchOk
  BY <1>9 DEF PatchOk, OnPatched, CallTwin, Scale, Gate!Next, Gate!Act
<1>10. CASE PatchUnanswered
  BY <1>10 DEF PatchUnanswered, OnPatchError, CallTwin, Scale, Gate!Next, Gate!Act
<1>11. CASE PatchRejected
  BY <1>11 DEF PatchRejected, OnPatchError, CallTwin, loopVars, Gate!Next, Gate!Act
<1>12. ASSUME NEW d \in Deployments, NEW v \in Counts \union {None}, ScaledByOthers(d, v)
       PROVE  Gate!Next
  <2>1. k8s' \in [Deployments -> Nat \union {None}]
    BY <1>12, ScaleType, CountsAssumption DEF ScaledByOthers
  <2>. QED  BY <1>12, <2>1 DEF ScaledByOthers, operatorVars, Gate!Next, Gate!Others
<1>. QED
  BY <1>3, <1>4, <1>5, <1>6, <1>7, <1>8, <1>9, <1>10, <1>11, <1>12 DEF Next

\* The operator keeps its promise to the client under every fault: approval before
\* actuation, one change at most per request and to the count asked for, and no
\* answer that contradicts the cluster (README.md:12, operator main.rs:40-88).
THEOREM LoopImplementsGate == Spec => ImplementsScaleGate
<1>1. Init => AnswerInv
  BY DEF Init, OperatorInit, AnswerInv, AnswerMatchesCluster
<1>. QED
  BY <1>1, GateInit, GateStep, AnswerStep, AlwaysInv, PTL DEF Spec, ImplementsScaleGate, Gate!Spec
=============================================================================
