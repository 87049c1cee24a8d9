----------------------------- MODULE TwinScale -----------------------------
(***************************************************************************)
(* The deployments of the digital twin (src/greycat/server/twin.gcl) and   *)
(* the exposed functions that touch them: ingest by the feeder, simulate,  *)
(* commit and rollback by the operator, and the retention task.            *)
(*                                                                         *)
(* A deployment node keeps a replica count, a staged replica count and a   *)
(* series of metrics.  Nothing here reads a sample other than the newest   *)
(* (last_of), setAt of an older sample leaves the newest in place and      *)
(* retention removes from the oldest on, so the series is its newest       *)
(* sample, or None when it is empty.  A GreyCat call is one transaction,   *)
(* so each function is one action.                                         *)
(***************************************************************************)
EXTENDS Integers

CONSTANTS
    Deployments,    \* the (namespace, name) pairs of deployments
    Requests,       \* the replica counts a client may ask for, valid or not
    Loads,          \* the cpu usage Prometheus may report for a deployment
    KeepFor,        \* how long retention keeps a sample (7 days in the code)
    None            \* null

ASSUME RequestsAssumption == Requests \subseteq Int
ASSUME LoadsAssumption    == Loads \subseteq Nat
ASSUME KeepForAssumption  == KeepFor \in Nat

VARIABLES
    replicas,       \* d->replicas, None while the twin has no node for d
    staged,         \* d->staged_replicas
    sample          \* the newest sample of d->metrics

twinVars == <<replicas, staged, sample>>

\* What the feeder posts.  reps[d] is None when the listing held no d.
Snapshot == [t    : Nat,
             reps : [Deployments -> Nat \union {None}],
             cpu  : [Deployments -> Loads]]

TwinTypeOK ==
    /\ replicas \in [Deployments -> Nat \union {None}]
    /\ staged   \in [Deployments -> Nat \union {None}]
    /\ sample   \in [Deployments -> [t : Nat, cpu : Loads] \union {None}]
    /\ \A d \in Deployments : replicas[d] = None <=> staged[d] = None

TwinInit ==
    /\ replicas = [d \in Deployments |-> None]
    /\ staged   = [d \in Deployments |-> None]
    /\ sample   = [d \in Deployments |-> None]

Known(d) == replicas[d] # None
----------------------------------------------------------------------------
\* The calls of the operator and the feeder, as they travel to the twin.
SimulateCall(d, n) == [op |-> "simulate", dep |-> d, n |-> n]
CommitCall(d)      == [op |-> "commit",   dep |-> d]
RollbackCall(d)    == [op |-> "rollback", dep |-> d]
IngestCall(s)      == [op |-> "ingest",   snap |-> s]

OperatorCall ==
         [op : {"simulate"}, dep : Deployments, n : Requests]
  \union [op : {"commit", "rollback"}, dep : Deployments]
FeederCall == [op : {"ingest"}, snap : Snapshot]

NullReply          == [type |-> "null"]
DoneReply          == [type |-> "done"]
SimulationReply(c) == [type |-> "simulation", cpu |-> c]

Reply == [type : {"null", "done"}] \union [type : {"simulation"}, cpu : Loads]

\* null is no count, sample, snapshot, call or reply.
ASSUME NoneAssumption ==
    /\ None \notin Int
    /\ None \notin [t : Nat, cpu : Loads]
    /\ None \notin Snapshot
    /\ None \notin OperatorCall
    /\ None \notin Reply
----------------------------------------------------------------------------
\* Mutant: simulate_scale without its check of the asked count.
SimulatableForAnyCount(d, n) ==
    /\ Known(d)
    /\ replicas[d] > 0
    /\ sample[d] # None

\* The guards of simulate_scale: its two early "return null".
Simulatable(d, n) ==
    /\ Known(d)
    /\ replicas[d] > 0
    /\ n > 0
    /\ sample[d] # None

SimulateScale(d, n) ==
    /\ staged' = IF Simulatable(d, n) THEN [staged EXCEPT ![d] = n] ELSE staged
    /\ UNCHANGED <<replicas, sample>>

\* cpu_per_pod_predicted is the reply's cpu over the requested count.
SimulateAnswer(d, n) ==
    IF Simulatable(d, n) THEN SimulationReply(sample[d].cpu) ELSE NullReply

\* On an unknown deployment both functions return false: None stays None.
CommitScale(d) ==
    /\ replicas' = [replicas EXCEPT ![d] = staged[d]]
    /\ UNCHANGED <<staged, sample>>

RollbackScale(d) ==
    /\ staged' = [staged EXCEPT ![d] = replicas[d]]
    /\ UNCHANGED <<replicas, sample>>

\* Mutant: the node is created without its staged count.
IngestWithoutStaged(s) ==
    /\ replicas' = [d \in Deployments |->
                      IF s.reps[d] # None THEN s.reps[d] ELSE replicas[d]]
    /\ UNCHANGED <<staged, sample>>

\* Mutant: ingest refreshes the staged count of a known deployment too.
IngestRestages(s) ==
    LET listed == {d \in Deployments : s.reps[d] # None} IN
    /\ replicas' = [d \in Deployments |-> IF d \in listed THEN s.reps[d] ELSE replicas[d]]
    /\ staged'   = [d \in Deployments |-> IF d \in listed THEN s.reps[d] ELSE staged[d]]
    /\ sample'   = [d \in Deployments |->
                      IF d \in listed THEN [t |-> s.t, cpu |-> s.cpu[d]] ELSE sample[d]]

\* Mutant: create-once, like ensure_pod: a known deployment keeps its count.
IngestOnce(s) ==
    LET new == {d \in Deployments : s.reps[d] # None /\ ~Known(d)} IN
    /\ replicas' = [d \in Deployments |-> IF d \in new THEN s.reps[d] ELSE replicas[d]]
    /\ staged'   = [d \in Deployments |-> IF d \in new THEN s.reps[d] ELSE staged[d]]
    /\ sample'   = [d \in Deployments |->
                      IF s.reps[d] = None THEN sample[d]
                      ELSE [t |-> s.t, cpu |-> s.cpu[d]]]

\* A deployment missing from the snapshot is left alone; a new one starts with
\* its count staged; a known one has its count overwritten whatever the age of
\* the snapshot, and its staged count kept.
Ingest(s) ==
    LET listed == {d \in Deployments : s.reps[d] # None}
        older(d) == Known(d) /\ sample[d] # None /\ s.t < sample[d].t
    IN
    /\ replicas' = [d \in Deployments |->
                      IF d \in listed THEN s.reps[d] ELSE replicas[d]]
    /\ staged'   = [d \in Deployments |->
                      IF d \in listed /\ ~Known(d) THEN s.reps[d] ELSE staged[d]]
    /\ sample'   = [d \in Deployments |->
                      IF d \in listed /\ ~older(d)
                      THEN [t |-> s.t, cpu |-> s.cpu[d]] ELSE sample[d]]

\* run_retention: every sample strictly older than the cutoff goes.
RunRetention(now) ==
    /\ sample' = [d \in Deployments |->
                    IF sample[d] # None /\ sample[d].t < now - KeepFor
                    THEN None ELSE sample[d]]
    /\ UNCHANGED <<replicas, staged>>

\* The dispatch of POST /twin::<fn>, and what the caller gets back.
Serve(c) ==
    \/ c.op = "simulate" /\ SimulateScale(c.dep, c.n)
    \/ c.op = "commit"   /\ CommitScale(c.dep)
    \/ c.op = "rollback" /\ RollbackScale(c.dep)
    \/ c.op = "ingest"   /\ Ingest(c.snap)

AnswerTo(c) ==
    IF c.op = "simulate" THEN SimulateAnswer(c.dep, c.n) ELSE DoneReply
=============================================================================
