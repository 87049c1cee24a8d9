------------------------------ MODULE ScaleLoop ------------------------------
(***************************************************************************)
(* The scaling loop: the operator and the feeder, the twin they both       *)
(* write, the cluster they both reach through the apiserver, and whoever   *)
(* else scales that cluster.                                               *)
(*                                                                         *)
(* The operator and the feeder hold one call each at the twin, with a ten  *)
(* second timeout.  A call given up is lost, or is still in the twin's     *)
(* queue and runs later ("late").  Calls of the apiserver have no timeout  *)
(* (src/crates/k8s/src/lib.rs).  Nothing orders the feeder against the     *)
(* operator, nor either against the cluster.                               *)
(***************************************************************************)
EXTENDS Operator, FiniteSets

CONSTANTS
    Counts,         \* the spec.replicas others may set
    Faults,         \* what may go wrong in this instance
    MaxLate,        \* bound: abandoned calls still queued at the twin
    MaxClock        \* bound: the clock stops here

ASSUME CountsAssumption == Counts \subseteq Nat
ASSUME FaultsAssumption ==
    Faults \subseteq {"timeout",    \* a call of the twin fails
                      "late",       \* a failed call still runs, later
                      "patch",      \* the apiserver errs, or its reply is lost
                      "crash"}      \* the operator dies
ASSUME BoundsAssumption == MaxLate \in Nat /\ MaxClock \in Nat

VARIABLES
    k8s,            \* spec.replicas in the cluster, None when there is no d
    feed,           \* the snapshot the feeder is posting, or None
    late,           \* abandoned calls the twin will still execute
    clock,          \* seconds, as far as samples and retention see them
    \* history, read by the properties and by no guard
    accepted,       \* every count the cluster has held
    touched,        \* the last request's PATCH reached the cluster
    dirty           \* deployments staged by simulate_scale, neither committed
                    \* nor rolled back since

loopVars == <<k8s, feed, late, clock, accepted, touched, dirty>>
vars == <<twinVars, operatorVars, loopVars>>

Holds(d) == {k8s[d]} \ {None}

Init ==
    /\ TwinInit
    /\ OperatorInit
    /\ k8s \in [Deployments -> Counts \union {None}]
    /\ feed = None
    /\ late = {}
    /\ clock = 0
    /\ accepted = [d \in Deployments |-> Holds(d)]
    /\ touched = FALSE
    /\ dirty = {}

TypeOK ==
    /\ TwinTypeOK
    /\ OperatorTypeOK
    /\ k8s \in [Deployments -> Nat \union {None}]
    /\ feed \in Snapshot \union {None}
    /\ late \subseteq OperatorCall \union FeederCall
    /\ clock \in Nat
    /\ accepted \in [Deployments -> SUBSET Nat]
    /\ touched \in BOOLEAN
    /\ dirty \subseteq Deployments
----------------------------------------------------------------------------
\* What a call executed by the twin does to the deployments left staged.
DirtyAfter(c) ==
    IF c.op = "simulate" /\ Simulatable(c.dep, c.n) THEN dirty \union {c.dep}
    ELSE IF c.op \in {"commit", "rollback"} THEN dirty \ {c.dep}
    ELSE dirty

\* An abandoned call is lost, or stays in the twin's queue.
Abandon(c) ==
    \/ UNCHANGED late
    \/ /\ "late" \in Faults
       /\ Cardinality(late) < MaxLate
       /\ late' = late \union {c}

AbandonOwnCall ==
    IF call = None THEN UNCHANGED late ELSE Abandon(call)
----------------------------------------------------------------------------
\* The operator's own steps.
TakeRequest(d, n) ==
    /\ Receive(d, n)
    /\ touched' = FALSE
    /\ UNCHANGED <<twinVars, k8s, feed, late, clock, accepted, dirty>>

TakeReply ==
    /\ OnNull \/ OnExceeds \/ OnMet \/ OnDone
    /\ UNCHANGED <<twinVars, loopVars>>

GiveUp ==
    /\ "timeout" \in Faults
    /\ OnTwinError
    /\ AbandonOwnCall
    /\ UNCHANGED <<twinVars, k8s, feed, clock, accepted, touched, dirty>>

Crash ==
    /\ "crash" \in Faults
    /\ Restart
    /\ AbandonOwnCall
    /\ UNCHANGED <<twinVars, k8s, feed, clock, accepted, touched, dirty>>
----------------------------------------------------------------------------
\* The twin executes the operator's call, or one nobody waits for any more.
TwinServes ==
    /\ call # None
    /\ Serve(call)
    /\ reply' = AnswerTo(call)
    /\ call' = None
    /\ dirty' = DirtyAfter(call)
    /\ UNCHANGED <<pc, req, answer, k8s, feed, late, clock, accepted, touched>>

TwinServesLate(c) ==
    /\ Serve(c)
    /\ late' = late \ {c}
    /\ dirty' = DirtyAfter(c)
    /\ UNCHANGED <<operatorVars, k8s, feed, clock, accepted, touched>>

\* The scheduled retention task, every 30 minutes.
Retention ==
    /\ RunRetention(clock)
    /\ UNCHANGED <<operatorVars, loopVars>>
----------------------------------------------------------------------------
\* The cluster takes a count for d.
Scale(d, v) ==
    /\ k8s' = [k8s EXCEPT ![d] = v]
    /\ accepted' = [accepted EXCEPT ![d] = @ \union ({v} \ {None})]

\* The PATCH succeeds.  A deployment that is gone answers 404.
PatchOk ==
    /\ OnPatched
    /\ k8s[req.dep] # None
    /\ Scale(req.dep, req.n)
    /\ touched' = TRUE
    /\ UNCHANGED <<twinVars, feed, late, clock, dirty>>

\* The PATCH does not take effect and the operator is told so.
PatchRejected ==
    /\ OnPatchError
    /\ k8s[req.dep] = None \/ "patch" \in Faults
    /\ UNCHANGED <<twinVars, loopVars>>

\* The PATCH takes effect and its reply is lost: ureq returns an error.
PatchUnanswered ==
    /\ "patch" \in Faults
    /\ OnPatchError
    /\ k8s[req.dep] # None
    /\ Scale(req.dep, req.n)
    /\ touched' = TRUE
    /\ UNCHANGED <<twinVars, feed, late, clock, dirty>>

\* kubectl, an autoscaler or a rollout creates, scales or deletes d.
ScaledByOthers(d, v) ==
    /\ v # k8s[d]
    /\ Scale(d, v)
    /\ UNCHANGED <<twinVars, operatorVars, feed, late, clock, touched, dirty>>
----------------------------------------------------------------------------
\* The feeder lists the cluster and stamps the snapshot.  A Prometheus query
\* that fails reads as no usage, so any load may come with any listing.
FeederSnapshot(cpu) ==
    /\ feed = None
    /\ feed' = [t |-> clock, reps |-> k8s, cpu |-> cpu]
    /\ UNCHANGED <<twinVars, operatorVars, k8s, late, clock, accepted, touched, dirty>>

FeederDelivers ==
    /\ feed # None
    /\ Ingest(feed)
    /\ feed' = None
    /\ UNCHANGED <<operatorVars, k8s, late, clock, accepted, touched, dirty>>

\* The POST fails; the feeder logs it and takes a new snapshot at the next tick.
FeederGivesUp ==
    /\ "timeout" \in Faults
    /\ feed # None
    /\ feed' = None
    /\ Abandon(IngestCall(feed))
    /\ UNCHANGED <<twinVars, operatorVars, k8s, clock, accepted, touched, dirty>>

Tick ==
    /\ clock < MaxClock
    /\ clock' = clock + 1
    /\ UNCHANGED <<twinVars, operatorVars, k8s, feed, late, accepted, touched, dirty>>
----------------------------------------------------------------------------
Next ==
    \/ \E d \in Deployments, n \in Requests : TakeRequest(d, n)
    \/ TakeReply
    \/ GiveUp
    \/ Crash
    \/ TwinServes
    \/ \E c \in late : TwinServesLate(c)
    \/ Retention
    \/ PatchOk
    \/ PatchRejected
    \/ PatchUnanswered
    \/ \E d \in Deployments, v \in Counts \union {None} : ScaledByOthers(d, v)
    \/ \E cpu \in [Deployments -> Loads] : FeederSnapshot(cpu)
    \/ FeederDelivers
    \/ FeederGivesUp
    \/ Tick

Spec == Init /\ [][Next]_vars

\* The handler runs on, its calls of the twin end in a reply or a timeout and
\* the apiserver answers a PATCH.  The twin itself may never answer.
OperatorFairness ==
    /\ WF_vars(TakeReply)
    /\ WF_vars(GiveUp)
    /\ WF_vars(PatchOk \/ PatchRejected \/ PatchUnanswered)

\* The feeder ticks for ever, and its POSTs do not all fail.
FeederFairness ==
    /\ WF_vars(\E cpu \in [Deployments -> Loads] : FeederSnapshot(cpu))
    /\ SF_vars(FeederDelivers)

FairSpec == Spec /\ OperatorFairness /\ FeederFairness
----------------------------------------------------------------------------
\* The requirement is checked before production moves: whenever a PATCH takes
\* effect, the count it sets is the valid one the twin has staged for that
\* deployment, and the load the twin answered with fits on it.  The operator
\* reads the request body once and its count travels three ways (simulate, check,
\* PATCH) while the feeder writes the same deployment (operator main.rs:40-87).
PatchIsStaged ==
    [][touched' /\ ~touched =>
         /\ req.n > 0
         /\ staged[req.dep] = req.n
         /\ reply.cpu <= Limit * req.n]_vars

\* The replica count the twin shows is one the cluster has held, although the
\* operator writes what it staged and the feeder what it listed, in any order:
\* "commits (after changing k8s) or rolls back" (twin.gcl:3).
TwinNeverInvents ==
    \A d \in Deployments : Known(d) => replicas[d] \in accepted[d]

\* The twin has req.n staged for the deployment of the open request.
StagedForRequest == Known(req.dep) /\ staged[req.dep] = req.n

\* Why the twin does not invent counts: whatever the interleaving, the count that
\* a commit will copy is still the one the request staged, though the feeder writes
\* the deployment in between, and the cluster has taken it; and every listing on
\* its way holds counts the cluster has held (main.rs:80-87, twin.gcl:338-342).
CountsHaveSource ==
    /\ late = {}
    /\ TwinNeverInvents
    /\ \A d \in Deployments : Holds(d) \subseteq accepted[d]
    /\ feed # None =>
         \A d \in Deployments : feed.reps[d] # None => feed.reps[d] \in accepted[d]
    /\ pc = "simulating" /\ reply # None /\ reply.type = "simulation" => StagedForRequest
    /\ pc = "patching" => StagedForRequest
    /\ pc = "committing" /\ call # None =>
         StagedForRequest /\ req.n \in accepted[req.dep]

\* An answer tells the truth about production: 200 means the PATCH took effect,
\* 404, 409 and the 502 of simulate_scale mean that it did not (main.rs:46-88).
AnswerMatchesCluster ==
    /\ answer = "applied" => touched
    /\ answer \in {"unknown", "refused", "error"} => ~touched

\* A request that was staged and ends because the twin replied to its last call
\* leaves nothing staged: that call was the commit or the rollback its answer tells
\* of, and nobody stages the deployment between the two (main.rs:65-88).
RepliesSettle ==
    [][reply # None /\ answer' \in {"applied", "refused", "failed"} =>
         req.dep \notin dirty']_vars

\* Every staged change is settled by the time the operator takes the next
\* request: "the operator either commits or rolls back" (twin.gcl:2-3).
NoOrphanStaging == pc = "idle" => dirty = {}

\* Every request is answered, even if the twin never replies again: each of its
\* calls ends by the timeout (main.rs:24) and none is retried.
RequestsAnswered == pc # "idle" ~> pc = "idle"

\* Stale listings and staged counts wear off: once a deployment is left at v and
\* no request or abandoned call is around, the twin comes to show v and keeps it.
TwinConverges ==
    \A d \in Deployments, v \in Counts :
        <>[](k8s[d] = v /\ pc = "idle" /\ late = {}) => <>[](replicas[d] = v)

\* The stage of the request as a client sees it.
Stage == [idle |-> "idle", simulating |-> "asked", patching |-> "approved",
          refusing |-> "denied", committing |-> "done", undoing |-> "unsure"]

Gate == INSTANCE ScaleGate WITH
    cluster <- k8s, stage <- Stage[pc], ask <- req, changed <- touched

\* The scaling loop implements the promise of the operator under every fault.
ImplementsScaleGate == Gate!Spec
=============================================================================
