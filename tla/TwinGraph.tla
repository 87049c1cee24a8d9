------------------------------ MODULE TwinGraph ------------------------------
(***************************************************************************)
(* The topology the twin (src/greycat/server/twin.gcl) keeps of a cluster: *)
(* the whole of ingest, which only adds and overwrites, retention, which   *)
(* only removes samples, and the graph that Grafana draws of both.         *)
(*                                                                         *)
(* A nodeIndex is a function from the entities it knows, a nodeTime one    *)
(* from the seconds it has samples at.  Of the seven metrics cpu and       *)
(* joules are kept: usages are all summed alike.  Of replica counts and    *)
(* predictions see TwinScale and PredictionLoop, of rates TwinRoutes.      *)
(***************************************************************************)
EXTENDS Integers, FiniteSets, FiniteSetsExt

CONSTANTS
    Pods, Containers, Deployments, Services, Nodes, Namespaces, Routes,
    NsOf,           \* the namespace of a pod, a deployment, a service or a route
    PodOf,          \* the pod of a container
    FreshFor,       \* how far a shown pod may lag its namespace (90 seconds)
    KeepFor,        \* how long retention keeps a sample (7 days)
    None            \* "": no node yet, no owner, no selector

ASSUME NsOfAssumption ==
    NsOf \in [Pods \union Deployments \union Services \union Routes -> Namespaces]
ASSUME FiniteAssumption ==
    /\ IsFiniteSet(Pods) /\ IsFiniteSet(Containers) /\ IsFiniteSet(Nodes)
ASSUME PodOfAssumption == PodOf \in [Containers -> Pods]
ASSUME FreshForAssumption == FreshFor \in Nat /\ KeepFor \in Nat /\ FreshFor <= KeepFor

VARIABLES
    knodes, namespaces, deployments, containers,    \* name -> metrics
    pods,           \* name -> [knode, deployment, metrics]
    services,       \* name -> deployment
    routes,         \* names of routes
    priced          \* pairs of a service and a route its newest model prices

twinVars == <<knodes, namespaces, deployments, containers, pods, services, routes, priced>>

Empty == << >>

TwinInit ==
    /\ knodes = Empty /\ namespaces = Empty /\ deployments = Empty /\ containers = Empty
    /\ pods = Empty /\ services = Empty /\ routes = {} /\ priced = {}
----------------------------------------------------------------------------
\* Res, and its addition.
Res == [cpu : Nat, joules : Nat]
NoUsage == [cpu |-> 0, joules |-> 0]
Addition(a, b) == [cpu |-> a.cpu + b.cpu, joules |-> a.joules + b.joules]

Known(index, x) == x \in DOMAIN index

\* The entries of new, and of old where new has none.
Over(new, old) ==
    [x \in DOMAIN new \union DOMAIN old |-> IF x \in DOMAIN new THEN new[x] ELSE old[x]]

\* setAt, on the series of x or on a new one.
SetAt(series, t, v) == [x \in DOMAIN series \union {t} |-> IF x = t THEN v ELSE series[x]]
SeriesOf(index, x) == IF Known(index, x) THEN index[x] ELSE Empty

\* ensure and setAt for every entity of a part of the snapshot.
Upsert(index, part, t) ==
    Over([x \in DOMAIN part |-> SetAt(SeriesOf(index, x), t, part[x])], index)

EnsureNs(index, S) == Over(index, [n \in S |-> Empty])

NamespacesOf(S) == {NsOf[x] : x \in S}

\* Mutant: a known pod's place is kept and so are its metrics.
EnsurePodOnce(p, in, t) ==
    IF Known(pods, p) THEN pods[p]
    ELSE [knode |-> in.knode, deployment |-> in.deployment,
          metrics |-> SetAt(Empty, t, in.metrics)]

\* Mutant: node and owner are swapped.
EnsurePodSwapped(p, in, t) ==
    [knode |-> in.deployment, deployment |-> in.knode, metrics |-> SetAt(Empty, t, in.metrics)]

\* Create-once: a known pod keeps the node and the owner it was first listed with.
EnsurePod(p, in, t) ==
    LET pod == IF Known(pods, p) THEN pods[p]
               ELSE [knode |-> in.knode, deployment |-> in.deployment, metrics |-> Empty]
    IN  [knode |-> pod.knode, deployment |-> pod.deployment,
         metrics |-> SetAt(pod.metrics, t, in.metrics)]

\* ingest: the snapshot's parts in turn, each namespace made when first met.
Ingest(s) ==
    /\ knodes' = Upsert(knodes, s.nodes, s.t)
    /\ namespaces' = EnsureNs(Upsert(namespaces, s.namespaces, s.t),
                              NamespacesOf(DOMAIN s.deployments \union DOMAIN s.services
                                             \union DOMAIN s.pods))
    /\ deployments' = Upsert(deployments, s.deployments, s.t)
    /\ services' = Over(s.services, services)
    /\ pods' = Over([p \in DOMAIN s.pods |-> EnsurePod(p, s.pods[p], s.t)], pods)
    /\ containers' = Upsert(containers,
                            [c \in {x \in DOMAIN s.containers : Known(pods', PodOf[x])}
                               |-> s.containers[c]], s.t)
    /\ UNCHANGED <<routes, priced>>

\* ingest_routes of one route and one service, as far as the graph sees it.
IngestRoutes(r, s) ==
    /\ namespaces' = EnsureNs(namespaces, {NsOf[r]})
    /\ routes' = routes \union {r}
    /\ services' = Over(services, [x \in {s} |-> None])
    /\ UNCHANGED <<knodes, deployments, containers, pods, priced>>

\* ingest_route_model with the routes that have a positive coefficient.
IngestRouteModel(s, rs) ==
    /\ priced' = IF Known(services, s)
                 THEN {x \in priced : x[1] # s} \union ({s} \X rs) ELSE priced
    /\ UNCHANGED <<knodes, namespaces, deployments, containers, pods, services, routes>>

Prune(series, cutoff) == [t \in {x \in DOMAIN series : x >= cutoff} |-> series[t]]

Pruned(index, cutoff) == [x \in DOMAIN index |-> Prune(index[x], cutoff)]

\* Mutant: pods are not visited.
PodsKept(cutoff) == pods

PrunedPods(cutoff) ==
    [p \in DOMAIN pods |-> [knode |-> pods[p].knode, deployment |-> pods[p].deployment,
                            metrics |-> Prune(pods[p].metrics, cutoff)]]

\* When models were fitted is not kept: the last one of any service may be past the cutoff.
RunRetention(now) ==
    LET cutoff == now - KeepFor IN
    /\ knodes' = Pruned(knodes, cutoff) /\ namespaces' = Pruned(namespaces, cutoff)
    /\ deployments' = Pruned(deployments, cutoff) /\ containers' = Pruned(containers, cutoff)
    /\ pods' = PrunedPods(cutoff)
    /\ \E S \in SUBSET Services : priced' = {x \in priced : x[1] \notin S}
    /\ UNCHANGED <<services, routes>>
----------------------------------------------------------------------------
(***************************************************************************)
(* The graph.  A node's id carries its kind: <<"deploy", d>>.              *)
(***************************************************************************)
LastSeconds(series) == IF series = Empty THEN 0 ELSE Max(DOMAIN series)

\* Mutant: freshness off by one.
FreshAtLimit(ns_last, series) ==
    series # Empty /\ ns_last - LastSeconds(series) <= FreshFor

Fresh(ns_last, series) == series # Empty /\ ns_last - LastSeconds(series) < FreshFor

Shown(p) ==
    /\ Known(pods, p)
    /\ Fresh(LastSeconds(namespaces[NsOf[p]]), pods[p].metrics)

ShownPods == {p \in Pods : Shown(p)}

Ids(kind, S) == {<<kind, x>> : x \in S}

GraphNodes ==
    Ids("node", DOMAIN knodes) \union Ids("ns", DOMAIN namespaces)
      \union Ids("deploy", DOMAIN deployments) \union Ids("pod", ShownPods)
      \union Ids("route", routes)

\* <<source, target>>
GraphEdges ==
    {<< <<"ns", NsOf[d]>>, <<"deploy", d>> >> : d \in DOMAIN deployments}
      \union {<< <<"deploy", pods[p].deployment>>, <<"pod", p>> >> :
                p \in {x \in ShownPods : pods[x].deployment # None}}
      \union {<< <<"pod", p>>, <<"node", pods[p].knode>> >> :
                p \in {x \in ShownPods : pods[x].knode # None}}
      \union {<< <<"route", x[2]>>, <<"deploy", services[x[1]]>> >> :
                x \in {y \in priced : /\ y[2] \in routes
                                      /\ NsOf[y[1]] = NsOf[y[2]]
                                      /\ services[y[1]] # None}}
=============================================================================
