------------------------------ MODULE Operator ------------------------------
(***************************************************************************)
(* The operator (src/crates/operator/src/main.rs): a single-threaded HTTP  *)
(* server that turns POST /simulate into a call of the twin, a check of    *)
(* the predicted cpu per pod, a PATCH of the deployment and a last call    *)
(* that commits or rolls back what the twin staged.                        *)
(*                                                                         *)
(* pc is where handle_simulate is: it waits for the twin in "simulating",  *)
(* "committing", "refusing" and "undoing", for the apiserver in            *)
(* "patching".  The handler's steps are actions; what the twin, the        *)
(* apiserver and the network do with its calls is in ScaleLoop.            *)
(***************************************************************************)
EXTENDS TwinScale

CONSTANT Limit      \* CPU_LIMIT_PER_POD, in the unit of Loads

Request == [dep : Deployments, n : Requests]

ASSUME LimitAssumption == Limit \in Nat
ASSUME RequestAssumption == None \notin Request

VARIABLES
    pc,             \* where the handler is
    req,            \* the body of the last request: dep, n
    call,           \* the call the twin has not executed yet, or None
    reply,          \* the reply on its way to the operator, or None
    answer          \* the answer to the last request, "none" before it

operatorVars == <<pc, req, call, reply, answer>>

WaitsOnTwin == {"simulating", "committing", "refusing", "undoing"}
Answers == {"none",
            "applied",      \* 200
            "unknown",      \* 404: the twin cannot simulate it
            "refused",      \* 409: requirement not met
            "failed",       \* 502: kubectl scale failed
            "error"}        \* 502: no usable reply from simulate_scale

OperatorTypeOK ==
    /\ pc \in WaitsOnTwin \union {"idle", "patching"}
    /\ req \in Request \union {None}
    /\ req = None => pc = "idle"
    /\ call \in OperatorCall \union {None}
    /\ reply \in Reply \union {None}
    /\ answer \in Answers

OperatorInit ==
    /\ pc = "idle"
    /\ req = None
    /\ call = None
    /\ reply = None
    /\ answer = "none"
----------------------------------------------------------------------------
\* The next request is read: the body names a deployment and a count.
Receive(d, n) ==
    /\ pc = "idle"
    /\ pc' = "simulating"
    /\ req' = [dep |-> d, n |-> n]
    /\ call' = SimulateCall(d, n)
    /\ answer' = "none"
    /\ UNCHANGED reply

\* The handler goes on with another call of the twin.
CallTwin(state, c) ==
    /\ pc' = state
    /\ call' = c
    /\ reply' = None
    /\ UNCHANGED <<req, answer>>

Respond(status) ==
    /\ pc' = "idle"
    /\ answer' = status
    /\ call' = None
    /\ reply' = None
    /\ UNCHANGED req

\* simulate_scale returned null.
OnNull ==
    /\ pc = "simulating"
    /\ reply # None /\ reply.type = "null"
    /\ Respond("unknown")

\* cpu_per_pod_predicted > cpu_limit, without the division.
Exceeds(r) == r.cpu > Limit * req.n

\* Mutant: the refusal does not roll the twin back.
OnExceedsKeepsStaged ==
    /\ pc = "simulating"
    /\ reply # None /\ reply.type = "simulation"
    /\ Exceeds(reply)
    /\ Respond("refused")

OnExceeds ==
    /\ pc = "simulating"
    /\ reply # None /\ reply.type = "simulation"
    /\ Exceeds(reply)
    /\ CallTwin("refusing", RollbackCall(req.dep))

\* The requirement holds: PATCH the deployment.
OnMet ==
    /\ pc = "simulating"
    /\ reply # None /\ reply.type = "simulation"
    /\ ~Exceeds(reply)
    /\ pc' = "patching"
    /\ UNCHANGED <<req, call, reply, answer>>

\* Mutants: after a failed PATCH the twin is told to commit; the PATCH is retried.
OnPatchErrorCommits == pc = "patching" /\ CallTwin("undoing", CommitCall(req.dep))
OnPatchErrorRetries == pc = "patching" /\ UNCHANGED operatorVars

\* patch_scale returned Ok, or Err.
OnPatched    == pc = "patching" /\ CallTwin("committing", CommitCall(req.dep))
OnPatchError == pc = "patching" /\ CallTwin("undoing", RollbackCall(req.dep))

\* Mutant: a failed PATCH is answered like an unmet requirement.
LastAnswerConflated ==
    [committing |-> "applied", refusing |-> "refused", undoing |-> "refused"]

\* The last answer, whatever the commit or the rollback returned.
LastAnswer == [committing |-> "applied", refusing |-> "refused", undoing |-> "failed"]

OnDone ==
    /\ pc \in DOMAIN LastAnswer
    /\ reply # None
    /\ Respond(LastAnswer[pc])

\* Mutant: the timeout is set on simulate_scale only.
OnTwinErrorFirstOnly == pc = "simulating" /\ Respond("error")

\* The twin's call fails: ten seconds passed, the connection broke, or the body
\* does not decode.  A failed simulate_scale ends the request at once; the
\* result of the other calls is dropped by "let _".
OnTwinError ==
    \/ pc = "simulating" /\ Respond("error")
    \/ pc \in DOMAIN LastAnswer /\ Respond(LastAnswer[pc])

\* The process dies and Kubernetes restarts it: nothing is persisted.
Restart ==
    /\ pc # "idle"
    /\ pc' = "idle"
    /\ answer' = "none"
    /\ call' = None
    /\ reply' = None
    /\ UNCHANGED req
=============================================================================
