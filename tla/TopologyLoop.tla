---------------------------- MODULE TopologyLoop ----------------------------
(***************************************************************************)
(* The feeder (src/crates/feeder/src/main.rs), the cluster it lists kind   *)
(* by kind while pods start and end, and the twin it posts to.             *)
(*                                                                         *)
(* A loop of the feeder is four queries to Prometheus, which read as no    *)
(* usage when they fail, four listings, each of which ends the loop when   *)
(* it fails, and a post with a ten second timeout.  The snapshot is        *)
(* stamped when all lists are in.  The meter reads one watt per pod and    *)
(* the kubelet one core per container, so that a sum counts them; time is  *)
(* counted in intervals of the feeder.                                     *)
(***************************************************************************)
EXTENDS TwinGraph, Functions, Sequences

CONSTANTS
    OwnerOf,        \* the deployment whose ReplicaSet owns a pod, or None
    Clusters,       \* clusters to start from: [placed, exist, selects]
    Readings,       \* what the queries may read of a container and of a pod
    Faults,
    Slow,           \* bound: intervals the lists of one snapshot may take
    MaxLate,        \* bound: abandoned snapshots still queued at the twin
    MaxChanges,     \* bound: changes of the cluster
    MaxClock        \* bound: the clock stops here, and no loop begins then

ASSUME OwnerAssumption == OwnerOf \in [Pods -> Deployments \union {None}]

Partial(S, T) == UNION {[A -> T] : A \in SUBSET S}

Placing   == Partial(Pods, Nodes \union {None})
Selecting == Partial(Services, Deployments \union {None})

\* Pods refer to a node and an owner that exist when they are made.
Consistent(pl, ex) ==
    \A p \in DOMAIN pl :
        pl[p] \in ex \union {None} /\ OwnerOf[p] \in ex \union {None}

ASSUME ClustersAssumption ==
    /\ Clusters \subseteq [placed : Placing, exist : SUBSET (Deployments \union Nodes),
                           selects : Selecting]
    /\ \A c \in Clusters : Consistent(c.placed, c.exist)
\* A query that fails reads 0.
ASSUME ReadingsAssumption == Readings \subseteq [cpu : {0, 1}, watts : {0, 1}]
ASSUME FaultsAssumption ==
    Faults \subseteq {"list",       \* the apiserver does not answer
                      "post",       \* a post fails
                      "late"}       \* a failed post still runs, later
ASSUME BoundsAssumption ==
    /\ Slow \in Nat /\ MaxLate \in Nat /\ MaxChanges \in Nat /\ MaxClock \in Nat

VARIABLES
    placed,         \* running pods -> node, None while unscheduled
    exist,          \* deployments and nodes of the cluster
    selects,        \* services of the cluster -> selector app
    step,           \* the list the feeder reads next, 0 while it sleeps
    got,            \* what this loop has read so far
    last,           \* when this loop began
    slept,          \* when the feeder went to sleep
    feed,           \* the snapshot being posted, or None
    late,           \* abandoned snapshots the twin will still execute
    clock,
    \* history
    changes,        \* changes of the cluster so far
    missing,        \* what was deleted, or selected before it existed
    endedAt         \* when a pod that has ended did so

clusterVars == <<placed, exist, selects>>
feederVars  == <<step, got, last, slept, feed>>
history     == <<changes, missing, endedAt>>
vars == <<twinVars, clusterVars, feederVars, late, clock, history>>

Selected(sel) == {sel[s] : s \in DOMAIN sel} \ {None}

Nothing == [usage |-> NoUsage, pods |-> Empty, nodes |-> {}, services |-> Empty,
            deployments |-> {}]

Init ==
    /\ TwinInit
    /\ \E c \in Clusters : placed = c.placed /\ exist = c.exist /\ selects = c.selects
    /\ step = 0 /\ got = Nothing /\ last = 0 /\ slept = 0 /\ feed = None
    /\ late = {}
    /\ clock = 0
    /\ changes = 0 /\ missing = Selected(selects) \ exist /\ endedAt = Empty
----------------------------------------------------------------------------
(***************************************************************************)
(* The cluster.                                                            *)
(***************************************************************************)
Change ==
    /\ changes < MaxChanges
    /\ changes' = changes + 1
    /\ UNCHANGED <<twinVars, feederVars, late, clock>>

\* A pod is created, still without a node, or anew under its old name.
PodCreated(p) ==
    /\ p \notin DOMAIN placed
    /\ OwnerOf[p] \in exist \union {None}
    /\ placed' = SetAt(placed, p, None)
    /\ endedAt' = [x \in DOMAIN endedAt \ {p} |-> endedAt[x]]
    /\ Change /\ UNCHANGED <<exist, selects, missing>>

PodScheduled(p, k) ==
    /\ p \in DOMAIN placed /\ placed[p] = None
    /\ k \in exist
    /\ placed' = [placed EXCEPT ![p] = k]
    /\ Change /\ UNCHANGED <<exist, selects, missing, endedAt>>

PodEnds(p) ==
    /\ p \in DOMAIN placed
    /\ placed' = [x \in DOMAIN placed \ {p} |-> placed[x]]
    /\ endedAt' = SetAt(endedAt, p, clock)
    /\ Change /\ UNCHANGED <<exist, selects, missing>>

Created(x) ==
    /\ x \notin exist
    /\ exist' = exist \union {x}
    /\ Change /\ UNCHANGED <<placed, selects, missing, endedAt>>

\* Pods of a deployment may outlive it for a while, those of a node too.
Deleted(x) ==
    /\ x \in exist
    /\ exist' = exist \ {x}
    /\ missing' = missing \union {x}
    /\ Change /\ UNCHANGED <<placed, selects, endedAt>>

ServiceApplied(s, d) ==
    /\ s \notin DOMAIN selects
    /\ selects' = SetAt(selects, s, d)
    /\ missing' = missing \union ({d} \ (exist \union {None}))
    /\ Change /\ UNCHANGED <<placed, exist, endedAt>>

Cluster ==
    \/ \E p \in Pods : PodCreated(p) \/ PodEnds(p) \/ \E k \in Nodes : PodScheduled(p, k)
    \/ \E x \in Deployments \union Nodes : Created(x) \/ Deleted(x)
    \/ \E s \in Services, d \in Deployments \union {None} : ServiceApplied(s, d)
----------------------------------------------------------------------------
(***************************************************************************)
(* The feeder's loop.                                                      *)
(***************************************************************************)
\* Mutant: deployments are listed first.
ListsDeploymentsFirst == <<"deployments", "pods", "nodes", "services">>

Lists == <<"pods", "nodes", "services", "deployments">>

Elapsed == clock - last

\* Mutant: the interval always begins at the start of the process.
WakeKeepingLast ==
    /\ step = 0 /\ feed = None
    /\ clock > slept /\ clock < MaxClock
    /\ step' = 1
    /\ \E r \in Readings :
         got' = [Nothing EXCEPT !.usage = [cpu |-> r.cpu, joules |-> r.watts * Elapsed]]
    /\ UNCHANGED <<twinVars, clusterVars, last, slept, feed, late, clock, history>>

\* The queries, with what they read of a container and of a pod.
Wake ==
    /\ step = 0 /\ feed = None
    /\ clock > slept /\ clock < MaxClock
    /\ step' = 1
    /\ last' = clock
    /\ \E r \in Readings :
         got' = [Nothing EXCEPT !.usage = [cpu |-> r.cpu, joules |-> r.watts * Elapsed]]
    /\ UNCHANGED <<twinVars, clusterVars, slept, feed, late, clock, history>>

Listing(kind) ==
    CASE kind = "pods"        -> [got EXCEPT !.pods = placed]
      [] kind = "nodes"       -> [got EXCEPT !.nodes = exist \intersect Nodes]
      [] kind = "services"    -> [got EXCEPT !.services = selects]
      [] kind = "deployments" -> [got EXCEPT !.deployments = exist \intersect Deployments]

ListRead ==
    /\ step \in DOMAIN Lists
    /\ got' = Listing(Lists[step])
    /\ step' = step + 1
    /\ UNCHANGED <<twinVars, clusterVars, last, slept, feed, late, clock, history>>

\* Back to sleep, with or without a snapshot.
Sleep ==
    /\ step' = 0 /\ got' = Nothing
    /\ slept' = clock
    /\ UNCHANGED last

ListFails ==
    /\ "list" \in Faults
    /\ step \in DOMAIN Lists
    /\ Sleep
    /\ UNCHANGED <<twinVars, clusterVars, feed, late, clock, history>>

\* snapshot: usages are summed from containers to pods, and from the listed pods to
\* their listed owners and nodes, and to their namespaces.
Total(f) == [cpu    |-> SumFunction([x \in DOMAIN f |-> f[x].cpu]),
             joules |-> SumFunction([x \in DOMAIN f |-> f[x].joules])]

ContainerUsage(u) == [cpu |-> u.cpu, joules |-> 0]

PodUsage(u, p) ==
    Addition([cpu |-> 0, joules |-> u.joules],
             Total([c \in {x \in Containers : PodOf[x] = p} |-> ContainerUsage(u)]))

UsageOf(u, S) == Total([p \in S |-> PodUsage(u, p)])

\* The payload of ingest: entities by name.
Named(part, S, T) == DOMAIN part \subseteq S /\ \A x \in DOMAIN part : part[x] \in T

IsSnapshot(s) ==
    /\ s.t \in 1..MaxClock
    /\ Named(s.nodes, Nodes, Res) /\ Named(s.namespaces, Namespaces, Res)
    /\ Named(s.deployments, Deployments, Res) /\ Named(s.containers, Containers, Res)
    /\ s.services \in Selecting
    /\ Named(s.pods, Pods, [knode : Nodes \union {None}, metrics : Res,
                            deployment : Deployments \union {None}])

\* The snapshot made at t of what a loop has read.
Aggregate(g, t) ==
    LET listed == DOMAIN g.pods IN
    [t           |-> t,
     nodes       |-> [k \in g.nodes |-> UsageOf(g.usage, {p \in listed : g.pods[p] = k})],
     namespaces  |-> [n \in NamespacesOf(listed) |->
                        UsageOf(g.usage, {p \in listed : NsOf[p] = n})],
     deployments |-> [d \in g.deployments |->
                        UsageOf(g.usage, {p \in listed : OwnerOf[p] = d})],
     services    |-> g.services,
     pods        |-> [p \in listed |-> [knode |-> g.pods[p], deployment |-> OwnerOf[p],
                                        metrics |-> PodUsage(g.usage, p)]],
     containers  |-> [c \in {x \in Containers : PodOf[x] \in listed} |->
                        ContainerUsage(g.usage)]]

Stamp ==
    /\ step > Len(Lists)
    /\ feed = None
    /\ feed' = Aggregate(got, clock)
    /\ step' = 0 /\ got' = Nothing
    /\ UNCHANGED <<twinVars, clusterVars, last, slept, late, clock, history>>

Delivered ==
    /\ feed # None
    /\ Ingest(feed)
    /\ feed' = None
    /\ Sleep
    /\ UNCHANGED <<clusterVars, late, clock, history>>

\* An abandoned call is lost, or stays in the twin's queue.
Abandon(s) ==
    \/ UNCHANGED late
    \/ /\ "late" \in Faults
       /\ Cardinality(late) < MaxLate
       /\ late' = late \union {s}

PostFails ==
    /\ "post" \in Faults
    /\ feed # None
    /\ Abandon(feed)
    /\ feed' = None
    /\ Sleep
    /\ UNCHANGED <<twinVars, clusterVars, clock, history>>

TwinServesLate(s) ==
    /\ Ingest(s)
    /\ late' = late \ {s}
    /\ UNCHANGED <<clusterVars, feederVars, clock, history>>

\* A push of the attributor, and one of the fitter, which knows the twin's routes.
RoutesPushed(r, s) ==
    /\ IngestRoutes(r, s)
    /\ UNCHANGED <<clusterVars, feederVars, late, clock, history>>

ModelPushed(s, rs) ==
    /\ rs \subseteq routes
    /\ IngestRouteModel(s, rs)
    /\ UNCHANGED <<clusterVars, feederVars, late, clock, history>>

Retention ==
    /\ RunRetention(clock)
    /\ UNCHANGED <<clusterVars, feederVars, late, clock, history>>

Tick ==
    /\ clock < MaxClock
    /\ step # 0 \/ feed # None => clock - last < Slow
    /\ clock' = clock + 1
    /\ UNCHANGED <<twinVars, clusterVars, feederVars, late, history>>

Next ==
    \/ Cluster
    \/ Wake \/ ListRead \/ ListFails \/ Stamp \/ Delivered \/ PostFails
    \/ \E s \in late : TwinServesLate(s)
    \/ \E s \in Services, r \in Routes : RoutesPushed(r, s)
    \/ \E s \in Services, rs \in SUBSET Routes : ModelPushed(s, rs)
    \/ Retention
    \/ Tick

Spec == Init /\ [][Next]_vars
----------------------------------------------------------------------------
SampleAt(series, t) == IF t \in DOMAIN series THEN series[t] ELSE NoUsage
PodAt(t, p) == SampleAt(pods[p].metrics, t)
PodsAt(t, S) == Total([p \in S \intersect DOMAIN pods |-> PodAt(t, p)])

IsSeries(f) == DOMAIN f \subseteq 1..MaxClock /\ f \in [DOMAIN f -> Res]

IsIndex(index, S) == DOMAIN index \subseteq S /\ \A x \in DOMAIN index : IsSeries(index[x])

Got == [usage : Res, pods : Placing, nodes : SUBSET Nodes, services : Selecting,
        deployments : SUBSET Deployments]

\* The types of the twin's indexes,
TwinTypeOK ==
    /\ IsIndex(knodes, Nodes) /\ IsIndex(namespaces, Namespaces)
    /\ IsIndex(deployments, Deployments) /\ IsIndex(containers, Containers)
    /\ DOMAIN pods \subseteq Pods
    /\ \A p \in DOMAIN pods : /\ pods[p].knode \in Nodes \union {None}
                              /\ pods[p].deployment \in Deployments \union {None}
                              /\ IsSeries(pods[p].metrics)
    /\ services \in Selecting
    /\ routes \subseteq Routes /\ priced \subseteq (DOMAIN services) \X Routes

\* of the cluster and of what is known of its past,
ClusterTypeOK ==
    /\ placed \in Placing /\ selects \in Selecting
    /\ exist \subseteq Deployments \union Nodes
    /\ Consistent(placed, exist \union missing)
    /\ Selected(selects) \subseteq exist \union missing
    /\ changes \in 0..MaxChanges
    /\ DOMAIN endedAt \subseteq Pods \ DOMAIN placed
    /\ \A p \in DOMAIN endedAt : endedAt[p] \in 0..clock

\* and of the feeder and its snapshots.
FeederTypeOK ==
    /\ step \in 0..(Len(Lists) + 1) /\ got \in Got
    /\ feed # None => step = 0 /\ IsSnapshot(feed)
    /\ \A s \in late : IsSnapshot(s)
    /\ last \in 0..clock /\ slept \in 0..clock /\ clock \in 0..MaxClock
    /\ step # 0 => last > 0
    /\ step # 0 \/ feed # None => clock - last <= Slow

TypeOK == TwinTypeOK /\ ClusterTypeOK /\ FeederTypeOK

\* Whatever changes between two listings, an edge of the graph hangs in the air only at
\* something the cluster deleted, or that a service selected before it existed: pods
\* are listed first, so what they refer to is in the later lists (main.rs:116-119).
EdgesResolve ==
    \A e \in GraphEdges : \A end \in {e[1], e[2]} :
        end \in GraphNodes \/ end[2] \in missing

\* "pods linger in the twin after deletion; hide the ones whose last sample is older
\* than the namespace's" (twin.gcl:762): the graph stops showing a pod that ended within
\* 90 seconds of its namespace's samples and the time a snapshot takes, however late
\* the snapshots that listed it are delivered.
GhostsFade ==
    \A p \in DOMAIN endedAt :
        Shown(p) => LastSeconds(namespaces[NsOf[p]]) - endedAt[p] < FreshFor + Slow

\* The metrics of a second agree at every level, after retention and late deliveries
\* too: a pod is the sum of its containers, a deployment and a namespace are the sum
\* of their pods, and no pod counts for two nodes.
TotalsAddUp ==
    \A t \in 1..clock :
        /\ \A n \in DOMAIN namespaces :
             SampleAt(namespaces[n], t) = PodsAt(t, {p \in Pods : NsOf[p] = n})
        /\ \A d \in DOMAIN deployments : t \in DOMAIN deployments[d] =>
             deployments[d][t] = PodsAt(t, {p \in Pods : OwnerOf[p] = d})
        /\ \A p \in DOMAIN pods :
             PodAt(t, p).cpu = Total([c \in {x \in DOMAIN containers : PodOf[x] = p} |->
                                        SampleAt(containers[c], t)]).cpu
        /\ Total([k \in DOMAIN knodes |-> SampleAt(knodes[k], t)]).joules
             <= PodsAt(t, Pods).joules

\* No watt second is in the twin twice: whatever loops fail, are abandoned and yet
\* delivered, a pod of one watt is charged at most the time that has passed.
EnergyCountedOnce ==
    \A p \in DOMAIN pods :
        Total(pods[p].metrics).joules <= clock

\* Retention ends the ghosts that freshness cannot: once it has run, no pod is shown
\* that ended longer ago than samples are kept, also in a namespace that lost all its
\* pods and goes without samples.
RetentionEndsGhosts ==
    [][Retention =>
         \A p \in DOMAIN endedAt : Shown(p)' => endedAt[p] + Slow >= clock - KeepFor]_vars

\* "A feeder posts the full cluster picture ... every tick" (README.md:27): a pod is
\* drawn on the node the snapshot has it on.
PodsDrawnWhereListed ==
    [][Delivered =>
         \A p \in DOMAIN feed.pods : pods'[p].knode = feed.pods[p].knode]_vars
=============================================================================
