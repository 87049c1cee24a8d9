------------------------ MODULE TopologyLoopProofs ------------------------
(***************************************************************************)
(* What holds of the feeder, the cluster it lists and the twin's topology  *)
(* for all sets of pods, containers, deployments, services and nodes, all  *)
(* clusters to start from, all changes and any choice of faults.           *)
(***************************************************************************)
EXTENDS TopologyLoop, SetLemmas

----------------------------------------------------------------------------
(***************************************************************************)
(* Functions, series and indexes.                                          *)
(***************************************************************************)
LEMMA PartialIs ==
    ASSUME NEW S, NEW T, NEW f
    PROVE  f \in Partial(S, T) <=> DOMAIN f \subseteq S /\ f \in [DOMAIN f -> T]
BY DEF Partial

LEMMA EmptyPartial ==
    ASSUME NEW S, NEW T
    PROVE  Empty \in Partial(S, T) /\ DOMAIN Empty = {}
<1>1. DOMAIN Empty = {} /\ Empty \in [DOMAIN Empty -> T]
  BY DEF Empty
<1>. QED  BY <1>1, PartialIs

LEMMA SetAtPartial ==
    ASSUME NEW S, NEW T, NEW f \in Partial(S, T), NEW t \in S, NEW v \in T
    PROVE  SetAt(f, t, v) \in Partial(S, T)
<1>1. DOMAIN f \subseteq S /\ f \in [DOMAIN f -> T]
  BY PartialIs
<1>2. /\ DOMAIN SetAt(f, t, v) \subseteq S
      /\ SetAt(f, t, v) \in [DOMAIN SetAt(f, t, v) -> T]
  BY <1>1 DEF SetAt
<1>. QED  BY <1>2, PartialIs

LEMMA OverPartial ==
    ASSUME NEW S, NEW T, NEW f \in Partial(S, T), NEW g \in Partial(S, T)
    PROVE  Over(f, g) \in Partial(S, T)
<1>1. DOMAIN f \subseteq S /\ f \in [DOMAIN f -> T] /\ DOMAIN g \subseteq S /\ g \in [DOMAIN g -> T]
  BY PartialIs
<1>2. DOMAIN Over(f, g) \subseteq S /\ Over(f, g) \in [DOMAIN Over(f, g) -> T]
  BY <1>1 DEF Over
<1>. QED  BY <1>2, PartialIs

LEMMA EmptySeries == IsSeries(Empty)
BY DEF IsSeries, Empty

LEMMA SetAtSeries ==
    ASSUME NEW f, IsSeries(f), NEW t \in 1..MaxClock, NEW v \in Res
    PROVE  IsSeries(SetAt(f, t, v))
BY DEF IsSeries, SetAt

LEMMA PruneSeries ==
    ASSUME NEW f, IsSeries(f), NEW c
    PROVE  IsSeries(Prune(f, c))
BY DEF IsSeries, Prune

LEMMA UpsertIndex ==
    ASSUME NEW S, NEW index, IsIndex(index, S), NEW part, Named(part, S, Res),
           NEW t \in 1..MaxClock
    PROVE  IsIndex(Upsert(index, part, t), S)
<1>1. ASSUME NEW x \in DOMAIN part PROVE IsSeries(SetAt(SeriesOf(index, x), t, part[x]))
  <2>1. IsSeries(SeriesOf(index, x))
    BY EmptySeries DEF SeriesOf, Known, IsIndex
  <2>2. part[x] \in Res
    BY DEF Named
  <2>. QED  BY <2>1, <2>2, SetAtSeries
<1>. DEFINE new == [x \in DOMAIN part |-> SetAt(SeriesOf(index, x), t, part[x])]
<1>2. DOMAIN new \subseteq S /\ \A x \in DOMAIN new : IsSeries(new[x])
  BY <1>1 DEF Named
<1>3. Upsert(index, part, t) = Over(new, index)
  BY DEF Upsert
<1>. HIDE DEF new
<1>. QED  BY <1>2, <1>3 DEF IsIndex, Over

LEMMA EnsureNsIndex ==
    ASSUME NEW index, IsIndex(index, Namespaces), NEW S \in SUBSET Namespaces
    PROVE  IsIndex(EnsureNs(index, S), Namespaces)
BY EmptySeries DEF EnsureNs, Over, IsIndex

LEMMA PrunedIndex ==
    ASSUME NEW S, NEW index, IsIndex(index, S), NEW c
    PROVE  IsIndex(Pruned(index, c), S)
BY PruneSeries DEF Pruned, IsIndex

\* last_seconds of a series that is not empty is the newest second it has.
LEMMA LastSecondsIs ==
    ASSUME NEW f, IsSeries(f)
    PROVE  /\ LastSeconds(f) \in Nat
           /\ f # Empty => LastSeconds(f) \in DOMAIN f
<1>1. CASE f = Empty
  BY <1>1 DEF LastSeconds
<1>2. CASE f # Empty
  <2>1. DOMAIN f # {}
    <3>1. ASSUME DOMAIN f = {} PROVE f = Empty
      BY <3>1 DEF IsSeries, Empty
    <3>. QED  BY <1>2, <3>1
  <2>2. DOMAIN f \in SUBSET Nat /\ MaxClock \in Nat /\ \A x \in DOMAIN f : x <= MaxClock
    BY BoundsAssumption DEF IsSeries
  <2>3. Max(DOMAIN f) \in DOMAIN f
    BY <2>1, <2>2, MaxExists
  <2>. QED  BY <1>2, <2>2, <2>3 DEF LastSeconds
<1>. QED  BY <1>1, <1>2
----------------------------------------------------------------------------
(***************************************************************************)
(* Usages and the snapshots that sum them up.                              *)
(***************************************************************************)
LEMMA TotalRes ==
    ASSUME NEW f, IsFiniteSet(DOMAIN f), \A x \in DOMAIN f : f[x] \in Res
    PROVE  Total(f) \in Res
<1>. DEFINE cpu == [x \in DOMAIN f |-> f[x].cpu]
            joules == [x \in DOMAIN f |-> f[x].joules]
<1>1. /\ DOMAIN cpu = DOMAIN f /\ \A x \in DOMAIN f : cpu[x] \in Nat
      /\ DOMAIN joules = DOMAIN f /\ \A x \in DOMAIN f : joules[x] \in Nat
  BY DEF Res
<1>2. Total(f) = [cpu |-> SumFunction(cpu), joules |-> SumFunction(joules)]
  BY DEF Total
<1>. HIDE DEF cpu, joules
<1>3. SumFunction(cpu) \in Nat /\ SumFunction(joules) \in Nat
  BY <1>1, SumNat DEF SumFunction
<1>. QED  BY <1>2, <1>3 DEF Res

LEMMA PodUsageRes ==
    ASSUME NEW u \in Res, NEW p
    PROVE  PodUsage(u, p) \in Res /\ ContainerUsage(u) \in Res
<1>1. ContainerUsage(u) \in Res
  BY DEF ContainerUsage, Res
<1>. DEFINE own == {x \in Containers : PodOf[x] = p}
            f == [c \in own |-> ContainerUsage(u)]
<1>2. IsFiniteSet(own)
  BY FiniteAssumption, FS_Subset
<1>3. DOMAIN f = own /\ \A c \in own : f[c] \in Res
  BY <1>1
<1>4. PodUsage(u, p) = Addition([cpu |-> 0, joules |-> u.joules], Total(f))
  BY DEF PodUsage
<1>. HIDE DEF f, own
<1>5. Total(f) \in Res
  BY <1>2, <1>3, TotalRes
<1>. QED  BY <1>1, <1>4, <1>5 DEF Addition, Res

LEMMA UsageOfRes ==
    ASSUME NEW u \in Res, NEW S, IsFiniteSet(S)
    PROVE  UsageOf(u, S) \in Res
<1>. DEFINE f == [p \in S |-> PodUsage(u, p)]
<1>1. DOMAIN f = S /\ \A p \in S : f[p] \in Res
  BY PodUsageRes
<1>2. UsageOf(u, S) = Total(f)
  BY DEF UsageOf
<1>. HIDE DEF f
<1>. QED  BY <1>1, <1>2, TotalRes

\* What the feeder posts is a payload of ingest.
LEMMA AggregateIsSnapshot ==
    ASSUME NEW g \in Got, NEW t \in 1..MaxClock
    PROVE  IsSnapshot(Aggregate(g, t))
<1>1. /\ g.usage \in Res /\ g.nodes \subseteq Nodes /\ g.deployments \subseteq Deployments
      /\ g.services \in Selecting /\ g.pods \in Placing
  BY DEF Got
<1>. DEFINE listed == DOMAIN g.pods
            s == Aggregate(g, t)
<1>2. listed \subseteq Pods /\ \A p \in listed : g.pods[p] \in Nodes \union {None}
  BY <1>1, PartialIs DEF Placing
<1>3. ASSUME NEW S \in SUBSET listed PROVE UsageOf(g.usage, S) \in Res
  <2>1. IsFiniteSet(S)
    BY <1>2, FiniteAssumption, FS_Subset
  <2>. QED  BY <1>1, <2>1, UsageOfRes
<1>4. Named(s.nodes, Nodes, Res)
  BY <1>1, <1>3 DEF Named, Aggregate
<1>5. Named(s.namespaces, Namespaces, Res)
  <2>1. NamespacesOf(listed) \subseteq Namespaces
    BY <1>2, NsOfAssumption DEF NamespacesOf
  <2>. QED  BY <1>3, <2>1 DEF Named, Aggregate
<1>6. Named(s.deployments, Deployments, Res)
  BY <1>1, <1>3 DEF Named, Aggregate
<1>7. Named(s.containers, Containers, Res)
  BY <1>1, PodUsageRes DEF Named, Aggregate
<1>8. Named(s.pods, Pods, [knode : Nodes \union {None}, metrics : Res,
                           deployment : Deployments \union {None}])
  <2>1. \A p \in listed : /\ PodUsage(g.usage, p) \in Res
                          /\ OwnerOf[p] \in Deployments \union {None}
    BY <1>1, <1>2, PodUsageRes, OwnerAssumption
  <2>2. /\ DOMAIN s.pods = listed
        /\ \A p \in listed : s.pods[p] = [knode |-> g.pods[p], deployment |-> OwnerOf[p],
                                          metrics |-> PodUsage(g.usage, p)]
    BY DEF Aggregate
  <2>. HIDE DEF s
  <2>3. ASSUME NEW p \in listed
        PROVE  s.pods[p] \in [knode : Nodes \union {None}, metrics : Res,
                              deployment : Deployments \union {None}]
    <3>1. /\ g.pods[p] \in Nodes \union {None} /\ OwnerOf[p] \in Deployments \union {None}
          /\ PodUsage(g.usage, p) \in Res
      BY <1>2, <2>1
    <3>2. [knode |-> g.pods[p], deployment |-> OwnerOf[p], metrics |-> PodUsage(g.usage, p)]
            \in [knode : Nodes \union {None}, metrics : Res,
                 deployment : Deployments \union {None}]
      BY <3>1
    <3>. QED  BY <2>2, <3>2
  <2>. QED  BY <1>2, <2>2, <2>3 DEF Named
<1>9. s.t = t /\ s.services = g.services
  BY DEF Aggregate
<1>. QED  BY <1>1, <1>4, <1>5, <1>6, <1>7, <1>8, <1>9 DEF IsSnapshot

----------------------------------------------------------------------------
(***************************************************************************)
(* Types of the twin.                                                      *)
(***************************************************************************)
\* An entity the twin knows has its series.
LEMMA PodOfTwin ==
    ASSUME TwinTypeOK, NEW p \in DOMAIN pods
    PROVE  /\ p \in Pods /\ pods[p].knode \in Nodes \union {None}
           /\ pods[p].deployment \in Deployments \union {None}
           /\ IsSeries(pods[p].metrics)
BY DEF TwinTypeOK

LEMMA EnsurePodType ==
    ASSUME TwinTypeOK, NEW p, NEW in, NEW t \in 1..MaxClock,
           in.knode \in Nodes \union {None}, in.deployment \in Deployments \union {None},
           in.metrics \in Res
    PROVE  /\ EnsurePod(p, in, t).knode \in Nodes \union {None}
           /\ EnsurePod(p, in, t).deployment \in Deployments \union {None}
           /\ IsSeries(EnsurePod(p, in, t).metrics)
<1>1. CASE Known(pods, p)
  <2>1. EnsurePod(p, in, t) = [knode |-> pods[p].knode, deployment |-> pods[p].deployment,
                               metrics |-> SetAt(pods[p].metrics, t, in.metrics)]
    BY <1>1 DEF EnsurePod
  <2>2. IsSeries(SetAt(pods[p].metrics, t, in.metrics))
    BY <1>1, PodOfTwin, SetAtSeries DEF Known
  <2>. QED  BY <1>1, <2>1, <2>2, PodOfTwin DEF Known
<1>2. CASE ~Known(pods, p)
  <2>1. EnsurePod(p, in, t) = [knode |-> in.knode, deployment |-> in.deployment,
                               metrics |-> SetAt(Empty, t, in.metrics)]
    BY <1>2 DEF EnsurePod
  <2>2. IsSeries(SetAt(Empty, t, in.metrics))
    BY EmptySeries, SetAtSeries
  <2>. QED  BY <2>1, <2>2
<1>. QED  BY <1>1, <1>2

LEMMA IngestType ==
    ASSUME TwinTypeOK, NEW s, IsSnapshot(s), Ingest(s)
    PROVE  TwinTypeOK'
<1>1. /\ s.t \in 1..MaxClock
      /\ Named(s.nodes, Nodes, Res) /\ Named(s.namespaces, Namespaces, Res)
      /\ Named(s.deployments, Deployments, Res) /\ Named(s.containers, Containers, Res)
      /\ s.services \in Selecting
      /\ DOMAIN s.pods \subseteq Pods
      /\ \A p \in DOMAIN s.pods : /\ s.pods[p].knode \in Nodes \union {None}
                                  /\ s.pods[p].deployment \in Deployments \union {None}
                                  /\ s.pods[p].metrics \in Res
  BY DEF IsSnapshot, Named
<1>2. IsIndex(knodes', Nodes) /\ IsIndex(deployments', Deployments)
  BY <1>1, UpsertIndex DEF Ingest, TwinTypeOK
<1>3. IsIndex(namespaces', Namespaces)
  <2>. DEFINE met == DOMAIN s.deployments \union DOMAIN s.services \union DOMAIN s.pods
  <2>1. met \subseteq Deployments \union Services \union Pods
    BY <1>1, PartialIs DEF Named, Selecting
  <2>2. NamespacesOf(met) \subseteq Namespaces
    BY <2>1, NsOfAssumption DEF NamespacesOf
  <2>3. IsIndex(Upsert(namespaces, s.namespaces, s.t), Namespaces)
    BY <1>1, UpsertIndex DEF TwinTypeOK
  <2>4. namespaces' = EnsureNs(Upsert(namespaces, s.namespaces, s.t), NamespacesOf(met))
    BY DEF Ingest
  <2>. HIDE DEF met
  <2>. QED  BY <2>2, <2>3, <2>4, EnsureNsIndex
<1>4. IsIndex(containers', Containers)
  <2>. DEFINE part == [c \in {x \in DOMAIN s.containers : Known(pods', PodOf[x])}
                         |-> s.containers[c]]
  <2>1. Named(part, Containers, Res)
    BY <1>1 DEF Named
  <2>2. containers' = Upsert(containers, part, s.t)
    BY DEF Ingest
  <2>. HIDE DEF part
  <2>. QED  BY <1>1, <2>1, <2>2, UpsertIndex DEF TwinTypeOK
<1>5. /\ DOMAIN pods' \subseteq Pods
      /\ \A p \in DOMAIN pods' : /\ pods'[p].knode \in Nodes \union {None}
                                 /\ pods'[p].deployment \in Deployments \union {None}
                                 /\ IsSeries(pods'[p].metrics)
  <2>1. ASSUME NEW p \in DOMAIN s.pods
        PROVE  /\ EnsurePod(p, s.pods[p], s.t).knode \in Nodes \union {None}
               /\ EnsurePod(p, s.pods[p], s.t).deployment \in Deployments \union {None}
               /\ IsSeries(EnsurePod(p, s.pods[p], s.t).metrics)
    BY <1>1, EnsurePodType
  <2>2. /\ DOMAIN pods' = DOMAIN s.pods \union DOMAIN pods
        /\ \A p \in DOMAIN s.pods : pods'[p] = EnsurePod(p, s.pods[p], s.t)
        /\ \A p \in DOMAIN pods \ DOMAIN s.pods : pods'[p] = pods[p]
    BY DEF Ingest, Over
  <2>. QED  BY <1>1, <2>1, <2>2, PodOfTwin DEF TwinTypeOK
<1>6. services' \in Selecting /\ DOMAIN services \subseteq DOMAIN services'
  <2>1. services' \in Selecting
    BY <1>1, OverPartial DEF Ingest, Selecting, TwinTypeOK
  <2>. QED  BY <2>1 DEF Ingest, Over
<1>7. routes' \subseteq Routes /\ priced' \subseteq (DOMAIN services') \X Routes
  <2>1. routes' = routes /\ priced' = priced
    BY DEF Ingest
  <2>2. routes \subseteq Routes /\ priced \subseteq (DOMAIN services) \X Routes
    BY DEF TwinTypeOK
  <2>. QED  BY <1>6, <2>1, <2>2
<1>. QED  BY <1>2, <1>3, <1>4, <1>5, <1>6, <1>7 DEF TwinTypeOK

LEMMA IngestRoutesType ==
    ASSUME TwinTypeOK, NEW r \in Routes, NEW s \in Services, IngestRoutes(r, s)
    PROVE  TwinTypeOK'
<1>1. IsIndex(namespaces', Namespaces)
  <2>1. {NsOf[r]} \in SUBSET Namespaces
    BY NsOfAssumption
  <2>. QED  BY <2>1, EnsureNsIndex DEF IngestRoutes, TwinTypeOK
<1>2. services' \in Selecting /\ DOMAIN services \subseteq DOMAIN services'
  <2>. DEFINE f == [x \in {s} |-> None]
  <2>1. f \in Selecting
    <3>1. DOMAIN f \subseteq Services /\ f \in [DOMAIN f -> Deployments \union {None}]
      OBVIOUS
    <3>. HIDE DEF f
    <3>. QED  BY <3>1, PartialIs DEF Selecting
  <2>2. services' = Over(services, f)
    BY DEF IngestRoutes
  <2>. HIDE DEF f
  <2>3. services' \in Selecting
    BY <2>1, <2>2, OverPartial DEF Selecting, TwinTypeOK
  <2>. QED  BY <2>2, <2>3 DEF Over
<1>3. routes' \subseteq Routes /\ priced' \subseteq (DOMAIN services') \X Routes
  <2>1. routes' = routes \union {r} /\ priced' = priced
    BY DEF IngestRoutes
  <2>2. routes \subseteq Routes /\ priced \subseteq (DOMAIN services) \X Routes
    BY DEF TwinTypeOK
  <2>. QED  BY <1>2, <2>1, <2>2
<1>4. UNCHANGED <<knodes, deployments, containers, pods>>
  BY DEF IngestRoutes
<1>. QED  BY <1>1, <1>2, <1>3, <1>4 DEF TwinTypeOK

LEMMA IngestRouteModelType ==
    ASSUME TwinTypeOK, NEW s, NEW rs \in SUBSET Routes, IngestRouteModel(s, rs)
    PROVE  TwinTypeOK'
<1>1. priced' \subseteq (DOMAIN services) \X Routes
  BY DEF IngestRouteModel, TwinTypeOK, Known
<1>. QED  BY <1>1 DEF IngestRouteModel, TwinTypeOK

LEMMA RunRetentionType ==
    ASSUME TwinTypeOK, NEW now, RunRetention(now)
    PROVE  TwinTypeOK'
<1>1. /\ IsIndex(knodes', Nodes) /\ IsIndex(namespaces', Namespaces)
      /\ IsIndex(deployments', Deployments) /\ IsIndex(containers', Containers)
  BY PrunedIndex DEF RunRetention, TwinTypeOK
<1>2. /\ DOMAIN pods' = DOMAIN pods
      /\ \A p \in DOMAIN pods : /\ pods'[p].knode = pods[p].knode
                                /\ pods'[p].deployment = pods[p].deployment
                                /\ pods'[p].metrics = Prune(pods[p].metrics, now - KeepFor)
  BY DEF RunRetention, PrunedPods
<1>3. \A p \in DOMAIN pods : IsSeries(Prune(pods[p].metrics, now - KeepFor))
  BY PodOfTwin, PruneSeries
<1>4. priced' \subseteq priced /\ UNCHANGED <<services, routes>>
  BY DEF RunRetention
<1>. QED  BY <1>1, <1>2, <1>3, <1>4 DEF TwinTypeOK

----------------------------------------------------------------------------
(***************************************************************************)
(* Types of the cluster and of the feeder.                                 *)
(***************************************************************************)
LEMMA PlacedIs ==
    ASSUME ClusterTypeOK
    PROVE  /\ DOMAIN placed \subseteq Pods
           /\ \A p \in DOMAIN placed :
                /\ placed[p] \in Nodes \union {None}
                /\ placed[p] \in exist \union missing \union {None}
                /\ OwnerOf[p] \in exist \union missing \union {None}
BY PartialIs DEF ClusterTypeOK, Placing, Consistent

\* A change of the cluster, by what it leaves of the twin and the feeder.
LEMMA ClusterChanges ==
    ASSUME Cluster
    PROVE  /\ changes < MaxChanges /\ changes' = changes + 1
           /\ UNCHANGED <<twinVars, feederVars, late, clock>>
BY DEF Cluster, PodCreated, PodScheduled, PodEnds, Created, Deleted, ServiceApplied, Change

LEMMA ClusterType ==
    ASSUME ClusterTypeOK, clock \in Nat, Cluster
    PROVE  ClusterTypeOK'
<1>1. changes' \in 0..MaxChanges /\ clock' = clock
  BY ClusterChanges, BoundsAssumption DEF ClusterTypeOK
<1>2. /\ DOMAIN endedAt \subseteq Pods \ DOMAIN placed
      /\ \A p \in DOMAIN endedAt : endedAt[p] \in 0..clock
      /\ placed \in Placing /\ selects \in Selecting /\ exist \subseteq Deployments \union Nodes
      /\ Selected(selects) \subseteq exist \union missing
  BY DEF ClusterTypeOK
<1>3. ASSUME NEW p \in Pods, PodCreated(p) PROVE ClusterTypeOK'
  <2>1. placed' \in Placing
    BY <1>2, <1>3, SetAtPartial DEF PodCreated, Placing
  <2>2. DOMAIN placed' = DOMAIN placed \union {p}
        /\ \A x \in DOMAIN placed' : placed'[x] = IF x = p THEN None ELSE placed[x]
    BY <1>3 DEF PodCreated, SetAt
  <2>3. UNCHANGED <<exist, selects, missing>> /\ OwnerOf[p] \in exist \union {None}
        /\ endedAt' = [x \in DOMAIN endedAt \ {p} |-> endedAt[x]]
    BY <1>3 DEF PodCreated
  <2>4. Consistent(placed', exist' \union missing')
    BY <2>2, <2>3, PlacedIs DEF Consistent
  <2>5. /\ DOMAIN endedAt' \subseteq Pods \ DOMAIN placed'
        /\ \A x \in DOMAIN endedAt' : endedAt'[x] \in 0..clock'
    BY <1>1, <1>2, <2>2, <2>3
  <2>. QED  BY <1>1, <1>2, <2>1, <2>3, <2>4, <2>5 DEF ClusterTypeOK
<1>4. ASSUME NEW p \in Pods, PodEnds(p) PROVE ClusterTypeOK'
  <2>1. /\ placed' = [x \in DOMAIN placed \ {p} |-> placed[x]]
        /\ endedAt' = SetAt(endedAt, p, clock)
        /\ UNCHANGED <<exist, selects, missing>>
    BY <1>4 DEF PodEnds
  <2>2. placed' \in Placing
    <3>1. DOMAIN placed' \subseteq Pods /\ placed' \in [DOMAIN placed' -> Nodes \union {None}]
      BY <2>1, PlacedIs
    <3>. QED  BY <3>1, PartialIs DEF Placing
  <2>3. Consistent(placed', exist' \union missing')
    BY <2>1, PlacedIs DEF Consistent
  <2>4. /\ DOMAIN endedAt' = DOMAIN endedAt \union {p}
        /\ \A x \in DOMAIN endedAt' : endedAt'[x] = IF x = p THEN clock ELSE endedAt[x]
    BY <2>1 DEF SetAt
  <2>5. /\ DOMAIN endedAt' \subseteq Pods \ DOMAIN placed'
        /\ \A x \in DOMAIN endedAt' : endedAt'[x] \in 0..clock'
    BY <1>1, <1>2, <2>1, <2>4
  <2>. QED  BY <1>1, <1>2, <2>1, <2>2, <2>3, <2>5 DEF ClusterTypeOK
<1>5. ASSUME NEW p \in Pods, NEW k \in Nodes, PodScheduled(p, k) PROVE ClusterTypeOK'
  <2>1. /\ p \in DOMAIN placed /\ k \in exist
        /\ placed' = [placed EXCEPT ![p] = k]
        /\ UNCHANGED <<exist, selects, missing, endedAt>>
    BY <1>5 DEF PodScheduled
  <2>2. /\ DOMAIN placed' = DOMAIN placed
        /\ \A x \in DOMAIN placed' : placed'[x] = IF x = p THEN k ELSE placed[x]
    BY <2>1
  <2>3. placed' \in Placing
    <3>1. DOMAIN placed' \subseteq Pods /\ placed' \in [DOMAIN placed' -> Nodes \union {None}]
      BY <2>1, PlacedIs
    <3>. QED  BY <3>1, PartialIs DEF Placing
  <2>4. Consistent(placed', exist' \union missing')
    BY <2>1, <2>2, PlacedIs DEF Consistent
  <2>. QED  BY <1>1, <1>2, <2>1, <2>2, <2>3, <2>4 DEF ClusterTypeOK
<1>6. ASSUME NEW x \in Deployments \union Nodes, Created(x) PROVE ClusterTypeOK'
  <2>1. exist' = exist \union {x} /\ UNCHANGED <<placed, selects, missing, endedAt>>
    BY <1>6 DEF Created
  <2>2. Consistent(placed', exist' \union missing')
    BY <2>1, PlacedIs DEF Consistent
  <2>. QED  BY <1>1, <1>2, <2>1, <2>2 DEF ClusterTypeOK, Selected
<1>7. ASSUME NEW x \in Deployments \union Nodes, Deleted(x) PROVE ClusterTypeOK'
  <2>1. /\ exist' = exist \ {x} /\ missing' = missing \union {x}
        /\ UNCHANGED <<placed, selects, endedAt>>
    BY <1>7 DEF Deleted
  <2>2. Consistent(placed', exist' \union missing')
    BY <2>1, PlacedIs DEF Consistent
  <2>. QED  BY <1>1, <1>2, <2>1, <2>2 DEF ClusterTypeOK, Selected
<1>8. ASSUME NEW s \in Services, NEW d \in Deployments \union {None}, ServiceApplied(s, d)
      PROVE  ClusterTypeOK'
  <2>1. /\ selects' = SetAt(selects, s, d)
        /\ missing' = missing \union ({d} \ (exist \union {None}))
        /\ UNCHANGED <<placed, exist, endedAt>>
    BY <1>8 DEF ServiceApplied
  <2>2. selects' \in Selecting
    BY <1>2, <2>1, SetAtPartial DEF Selecting
  <2>3. Selected(selects') \subseteq exist' \union missing'
    BY <1>2, <2>1 DEF Selected, SetAt
  <2>4. Consistent(placed', exist' \union missing')
    BY <2>1, PlacedIs DEF Consistent
  <2>. QED  BY <1>1, <1>2, <2>1, <2>2, <2>3, <2>4 DEF ClusterTypeOK
<1>. QED  BY <1>3, <1>4, <1>5, <1>6, <1>7, <1>8 DEF Cluster

LEMMA StepsAre == DOMAIN Lists = 1..4 /\ Len(Lists) = 4
BY DEF Lists

\* What a list adds to the snapshot in the making.
LEMMA ListingType ==
    ASSUME ClusterTypeOK, got \in Got, NEW k \in 1..4
    PROVE  /\ Listing(Lists[k]) \in Got
           /\ Listing(Lists[k]) =
                [usage       |-> got.usage,
                 pods        |-> IF k = 1 THEN placed ELSE got.pods,
                 nodes       |-> IF k = 2 THEN exist \intersect Nodes ELSE got.nodes,
                 services    |-> IF k = 3 THEN selects ELSE got.services,
                 deployments |-> IF k = 4 THEN exist \intersect Deployments
                                 ELSE got.deployments]
<1>1. /\ got = [usage |-> got.usage, pods |-> got.pods, nodes |-> got.nodes,
                services |-> got.services, deployments |-> got.deployments]
      /\ got.usage \in Res /\ got.pods \in Placing /\ got.nodes \in SUBSET Nodes
      /\ got.services \in Selecting /\ got.deployments \in SUBSET Deployments
  BY DEF Got
<1>2. placed \in Placing /\ selects \in Selecting
  BY DEF ClusterTypeOK
<1>3. /\ k = 1 => Lists[k] = "pods"
      /\ k = 2 => Lists[k] = "nodes"
      /\ k = 3 => Lists[k] = "services"
      /\ k = 4 => Lists[k] = "deployments"
  BY DEF Lists
<1>4. CASE k = 1
  BY <1>1, <1>2, <1>3, <1>4 DEF Listing, Got
<1>5. CASE k = 2
  BY <1>1, <1>2, <1>3, <1>5 DEF Listing, Got
<1>6. CASE k = 3
  BY <1>1, <1>2, <1>3, <1>6 DEF Listing, Got
<1>7. CASE k = 4
  BY <1>1, <1>2, <1>3, <1>7 DEF Listing, Got
<1>. QED  BY <1>4, <1>5, <1>6, <1>7

LEMMA NothingIs ==
    /\ Nothing \in Got
    /\ \A u \in Res : /\ [Nothing EXCEPT !.usage = u] \in Got
                      /\ [Nothing EXCEPT !.usage = u].usage = u
                      /\ [Nothing EXCEPT !.usage = u].pods = Empty
<1>1. NoUsage \in Res
  BY DEF NoUsage, Res
<1>2. Empty \in Placing /\ Empty \in Selecting
  BY EmptyPartial DEF Placing, Selecting
<1>. QED  BY <1>1, <1>2 DEF Nothing, Got

\* What the queries read while the feeder wakes.
LEMMA WakeIs ==
    ASSUME FeederTypeOK, Wake
    PROVE  /\ got' \in Got /\ got'.pods = Empty
           /\ got'.usage \in Res /\ got'.usage.joules <= clock - last
<1>1. PICK r \in Readings :
        got' = [Nothing EXCEPT !.usage = [cpu |-> r.cpu, joules |-> r.watts * Elapsed]]
  BY DEF Wake
<1>2. r.cpu \in {0, 1} /\ r.watts \in {0, 1}
  BY ReadingsAssumption
<1>3. Elapsed \in Nat /\ Elapsed = clock - last
  BY DEF FeederTypeOK, Elapsed
<1>4. r.watts * Elapsed \in Nat /\ r.watts * Elapsed <= Elapsed
  <2>1. CASE r.watts = 0
    BY <1>3, <2>1
  <2>2. CASE r.watts = 1
    BY <1>3, <2>2
  <2>. QED  BY <1>2, <2>1, <2>2
<1>. DEFINE u == [cpu |-> r.cpu, joules |-> r.watts * Elapsed]
<1>5. u \in Res /\ u.joules <= clock - last
  BY <1>2, <1>3, <1>4 DEF Res
<1>6. got' = [Nothing EXCEPT !.usage = u]
  BY <1>1
<1>. HIDE DEF u
<1>. QED  BY <1>5, <1>6, NothingIs

LEMMA AbandonIs ==
    ASSUME NEW s, Abandon(s)
    PROVE  late' \subseteq late \union {s}
BY DEF Abandon

LEMMA InitType == Init => TypeOK
<1>. SUFFICES ASSUME Init PROVE TypeOK
  OBVIOUS
<1>1. TwinTypeOK
  <2>1. Empty \in Selecting /\ DOMAIN Empty = {}
    BY EmptyPartial DEF Selecting
  <2>. QED  BY <2>1 DEF Init, TwinInit, TwinTypeOK, IsIndex
<1>2. ClusterTypeOK
  <2>1. PICK c \in Clusters : placed = c.placed /\ exist = c.exist /\ selects = c.selects
    BY DEF Init
  <2>2. /\ placed \in Placing /\ selects \in Selecting
        /\ exist \subseteq Deployments \union Nodes
        /\ Consistent(placed, exist)
    BY <2>1, ClustersAssumption
  <2>3. Selected(selects) \subseteq exist \union missing
    BY DEF Init
  <2>4. changes \in 0..MaxChanges
    BY BoundsAssumption DEF Init
  <2>5. DOMAIN endedAt = {}
    BY DEF Init, Empty
  <2>6. Consistent(placed, exist \union missing)
    BY <2>2 DEF Consistent
  <2>. QED  BY <2>2, <2>3, <2>4, <2>5, <2>6 DEF ClusterTypeOK
<1>3. FeederTypeOK
  <2>1. 0 \in 0..MaxClock /\ 0 \in 0..0 /\ 0 \in 0..(Len(Lists) + 1)
    BY BoundsAssumption, StepsAre
  <2>. QED  BY <2>1, NothingIs DEF Init, FeederTypeOK
<1>. QED  BY <1>1, <1>2, <1>3 DEF TypeOK

\* Steps that change neither what the feeder reads and posts nor the clock.
LEMMA FeederTypeStays ==
    ASSUME FeederTypeOK, UNCHANGED <<feederVars, clock>>, late' \subseteq late
    PROVE  FeederTypeOK'
BY DEF FeederTypeOK, feederVars

LEMMA ClusterTypeStays ==
    ASSUME ClusterTypeOK, UNCHANGED <<clusterVars, history, clock>>
    PROVE  ClusterTypeOK'
BY DEF ClusterTypeOK, clusterVars, history

LEMMA TwinTypeStays ==
    ASSUME TwinTypeOK, UNCHANGED twinVars
    PROVE  TwinTypeOK'
BY DEF TwinTypeOK, twinVars

LEMMA FeederStepType ==
    ASSUME TypeOK, Wake \/ ListRead \/ ListFails \/ Stamp \/ Delivered \/ PostFails
    PROVE  FeederTypeOK'
<1>1. /\ step \in 0..5 /\ Len(Lists) + 1 = 5 /\ DOMAIN Lists = 1..4 /\ Len(Lists) = 4
      /\ last \in 0..clock /\ slept \in 0..clock /\ clock \in 0..MaxClock
      /\ last \in Nat /\ slept \in Nat /\ clock \in Nat
      /\ Slow \in Nat
  BY StepsAre, BoundsAssumption DEF TypeOK, FeederTypeOK
<1>2. /\ got \in Got /\ (feed # None => step = 0 /\ IsSnapshot(feed))
      /\ \A s \in late : IsSnapshot(s)
      /\ step # 0 => last > 0
      /\ step # 0 \/ feed # None => clock - last <= Slow
  BY DEF TypeOK, FeederTypeOK
<1>3. CASE Wake
  <2>1. got' \in Got
    BY <1>3, WakeIs DEF TypeOK
  <2>2. /\ step = 0 /\ feed = None /\ clock > slept /\ step' = 1 /\ last' = clock
        /\ UNCHANGED <<slept, feed, late, clock>>
    BY <1>3 DEF Wake
  <2>. QED  BY <1>1, <1>2, <2>1, <2>2 DEF FeederTypeOK
<1>4. CASE ListRead
  <2>1. step \in 1..4 /\ got' = Listing(Lists[step]) /\ step' = step + 1
        /\ UNCHANGED <<last, slept, feed, late, clock>>
    BY <1>1, <1>4 DEF ListRead
  <2>2. got' \in Got
    BY <1>2, <2>1, ListingType DEF TypeOK
  <2>3. step' \in 0..5 /\ step # 0 /\ feed = None
    BY <1>1, <1>2, <2>1
  <2>. QED  BY <1>1, <1>2, <2>1, <2>2, <2>3 DEF FeederTypeOK
<1>5. CASE ListFails
  <2>1. step' = 0 /\ got' = Nothing /\ slept' = clock /\ UNCHANGED <<last, feed, late, clock>>
        /\ step \in 1..4
    BY <1>1, <1>5 DEF ListFails, Sleep
  <2>. QED  BY <1>1, <1>2, <2>1, NothingIs DEF FeederTypeOK
<1>6. CASE Stamp
  <2>1. /\ step > 4 /\ feed = None /\ feed' = Aggregate(got, clock) /\ step' = 0
        /\ got' = Nothing /\ UNCHANGED <<last, slept, late, clock>>
    BY <1>1, <1>6 DEF Stamp
  <2>2. clock \in 1..MaxClock
    BY <1>1, <1>2, <2>1, BoundsAssumption
  <2>3. IsSnapshot(feed')
    BY <1>2, <2>1, <2>2, AggregateIsSnapshot
  <2>. QED  BY <1>1, <1>2, <2>1, <2>3, NothingIs DEF FeederTypeOK
<1>7. CASE Delivered
  <2>1. feed' = None /\ step' = 0 /\ got' = Nothing /\ slept' = clock
        /\ UNCHANGED <<last, late, clock>>
    BY <1>7 DEF Delivered, Sleep
  <2>. QED  BY <1>1, <1>2, <2>1, NothingIs DEF FeederTypeOK
<1>8. CASE PostFails
  <2>1. feed' = None /\ step' = 0 /\ got' = Nothing /\ slept' = clock
        /\ UNCHANGED <<last, clock>>
    BY <1>8 DEF PostFails, Sleep
  <2>2. \A s \in late' : IsSnapshot(s)
    BY <1>2, <1>8, AbandonIs DEF PostFails
  <2>. QED  BY <1>1, <1>2, <2>1, <2>2, NothingIs DEF FeederTypeOK
<1>. QED  BY <1>3, <1>4, <1>5, <1>6, <1>7, <1>8

LEMMA NextType ==
    ASSUME TypeOK, [Next]_vars
    PROVE  TypeOK'
<1>. USE DEF TypeOK
<1>1. CASE Cluster
  <2>1. clock \in Nat
    BY BoundsAssumption DEF FeederTypeOK
  <2>2. UNCHANGED <<twinVars, feederVars, late, clock>>
    BY <1>1, ClusterChanges
  <2>3. ClusterTypeOK'
    BY <1>1, <2>1, ClusterType
  <2>4. TwinTypeOK'
    BY <2>2, TwinTypeStays
  <2>5. FeederTypeOK'
    BY <2>2, FeederTypeStays
  <2>. QED  BY <2>3, <2>4, <2>5
<1>2. CASE Wake \/ ListRead \/ ListFails \/ Stamp \/ Delivered \/ PostFails
  <2>1. UNCHANGED <<clusterVars, history, clock>>
    BY <1>2 DEF Wake, ListRead, ListFails, Stamp, Delivered, PostFails
  <2>2. ClusterTypeOK'
    BY <2>1, ClusterTypeStays
  <2>3. TwinTypeOK'
    <3>1. CASE Delivered
      <4>1. IsSnapshot(feed) /\ Ingest(feed)
        BY <3>1 DEF Delivered, FeederTypeOK
      <4>. QED  BY <4>1, IngestType
    <3>2. CASE ~Delivered
      <4>1. UNCHANGED twinVars
        BY <1>2, <3>2 DEF Wake, ListRead, ListFails, Stamp, PostFails
      <4>. QED  BY <4>1, TwinTypeStays
    <3>. QED  BY <3>1, <3>2
  <2>4. FeederTypeOK'
    BY <1>2, FeederStepType
  <2>. QED  BY <2>2, <2>3, <2>4
<1>3. ASSUME NEW s \in late, TwinServesLate(s) PROVE TypeOK'
  <2>1. IsSnapshot(s) /\ Ingest(s) /\ UNCHANGED <<clusterVars, feederVars, clock, history>>
        /\ late' \subseteq late
    BY <1>3 DEF TwinServesLate, FeederTypeOK
  <2>. QED  BY <2>1, IngestType, ClusterTypeStays, FeederTypeStays
<1>4. ASSUME NEW s \in Services, NEW r \in Routes, RoutesPushed(r, s) PROVE TypeOK'
  <2>1. IngestRoutes(r, s) /\ UNCHANGED <<clusterVars, feederVars, late, clock, history>>
    BY <1>4 DEF RoutesPushed
  <2>. QED  BY <2>1, IngestRoutesType, ClusterTypeStays, FeederTypeStays
<1>5. ASSUME NEW s \in Services, NEW rs \in SUBSET Routes, ModelPushed(s, rs) PROVE TypeOK'
  <2>1. IngestRouteModel(s, rs) /\ UNCHANGED <<clusterVars, feederVars, late, clock, history>>
    BY <1>5 DEF ModelPushed
  <2>. QED  BY <2>1, IngestRouteModelType, ClusterTypeStays, FeederTypeStays
<1>6. CASE Retention
  <2>1. RunRetention(clock) /\ UNCHANGED <<clusterVars, feederVars, late, clock, history>>
    BY <1>6 DEF Retention
  <2>. QED  BY <2>1, RunRetentionType, ClusterTypeStays, FeederTypeStays
<1>7. CASE Tick
  <2>1. /\ clock' = clock + 1 /\ clock < MaxClock
        /\ step # 0 \/ feed # None => clock - last < Slow
        /\ UNCHANGED <<twinVars, clusterVars, feederVars, late, history>>
    BY <1>7 DEF Tick
  <2>2. clock \in Nat /\ MaxClock \in Nat /\ Slow \in Nat /\ last \in Nat /\ slept \in Nat
        /\ last <= clock /\ slept <= clock
    BY BoundsAssumption DEF FeederTypeOK
  <2>3. ClusterTypeOK'
    <3>1. \A p \in DOMAIN endedAt : endedAt[p] \in 0..clock'
      BY <2>1, <2>2 DEF ClusterTypeOK
    <3>. QED  BY <2>1, <3>1 DEF ClusterTypeOK, clusterVars, history
  <2>4. FeederTypeOK'
    BY <2>1, <2>2 DEF FeederTypeOK, feederVars
  <2>. QED  BY <2>1, <2>3, <2>4, TwinTypeStays
<1>8. CASE UNCHANGED vars
  BY <1>8, TwinTypeStays, ClusterTypeStays, FeederTypeStays DEF vars
<1>. QED  BY <1>1, <1>2, <1>3, <1>4, <1>5, <1>6, <1>7, <1>8 DEF Next

\* The indexes of the twin, the cluster, the feeder's lists and its snapshots are well
\* formed, whatever changes between two lists and whatever fails.
THEOREM TypeCorrect == Spec => []TypeOK
<1>1. Init => TypeOK
  BY InitType
<1>2. TypeOK /\ [Next]_vars => TypeOK'
  BY NextType
<1>. QED  BY <1>1, <1>2, PTL DEF Spec

----------------------------------------------------------------------------
(***************************************************************************)
(* Edges.                                                                  *)
(***************************************************************************)
\* The snapshots that may still be ingested.
Out == late \union ({feed} \ {None})

\* x is in S, or the cluster deleted it, or a service selected it before it existed.
Resolved(x, S) == x \in S \union missing \union {None}

EndsResolve(s) ==
    /\ \A p \in DOMAIN s.pods : /\ Resolved(s.pods[p].deployment, DOMAIN s.deployments)
                                /\ Resolved(s.pods[p].knode, DOMAIN s.nodes)
    /\ \A x \in DOMAIN s.services : Resolved(s.services[x], DOMAIN s.deployments)

\* What has been listed refers to what exists, until that has been listed too.
GotResolves ==
    /\ step > 1 => \A p \in DOMAIN got.pods :
                     Resolved(OwnerOf[p], exist) /\ Resolved(got.pods[p], exist)
    /\ step > 2 => \A p \in DOMAIN got.pods : Resolved(got.pods[p], got.nodes)
    /\ step > 3 => \A x \in DOMAIN got.services : Resolved(got.services[x], exist)
    /\ step > 4 => /\ \A p \in DOMAIN got.pods : Resolved(OwnerOf[p], got.deployments)
                   /\ \A x \in DOMAIN got.services : Resolved(got.services[x], got.deployments)

TwinResolves ==
    /\ \A p \in DOMAIN pods : /\ NsOf[p] \in DOMAIN namespaces
                              /\ Resolved(pods[p].deployment, DOMAIN deployments)
                              /\ Resolved(pods[p].knode, DOMAIN knodes)
    /\ \A d \in DOMAIN deployments : NsOf[d] \in DOMAIN namespaces
    /\ \A x \in DOMAIN services : Resolved(services[x], DOMAIN deployments)

ResolveInv == TwinResolves /\ GotResolves /\ \A s \in Out : EndsResolve(s)

\* Nothing that was ever there is forgotten without being missed.
LEMMA MissingGrows ==
    ASSUME [Next]_vars
    PROVE  missing \subseteq missing' /\ exist \union missing \subseteq exist' \union missing'
<1>1. CASE Cluster
  BY <1>1 DEF Cluster, PodCreated, PodScheduled, PodEnds, Created, Deleted, ServiceApplied
<1>2. CASE UNCHANGED <<clusterVars, history>>
  BY <1>2 DEF clusterVars, history
<1>3. Cluster \/ UNCHANGED <<clusterVars, history>>
  BY DEF Next, vars, Wake, ListRead, ListFails, Stamp, Delivered, PostFails, TwinServesLate,
         RoutesPushed, ModelPushed, Retention, Tick
<1>. QED  BY <1>1, <1>2, <1>3

LEMMA StaysResolved ==
    ASSUME [Next]_vars, NEW x, NEW S, NEW T, S \subseteq T, Resolved(x, S)
    PROVE  Resolved(x, T)'
BY MissingGrows DEF Resolved

\* What existed when it was listed is in the list, or missed.
LEMMA StaysResolvedInExist ==
    ASSUME [Next]_vars, NEW x, Resolved(x, exist)
    PROVE  Resolved(x, exist)'
BY MissingGrows DEF Resolved

LEMMA EndsStayResolved ==
    ASSUME [Next]_vars, NEW s, EndsResolve(s)
    PROVE  EndsResolve(s)'
BY StaysResolved DEF EndsResolve

LEMMA UpsertIs ==
    ASSUME NEW index, NEW part, NEW t
    PROVE  /\ DOMAIN Upsert(index, part, t) = DOMAIN part \union DOMAIN index
           /\ \A x \in DOMAIN part : Upsert(index, part, t)[x] = SetAt(SeriesOf(index, x), t, part[x])
           /\ \A x \in DOMAIN index \ DOMAIN part : Upsert(index, part, t)[x] = index[x]
BY DEF Upsert, Over

LEMMA EnsureNsIs ==
    ASSUME NEW index, NEW S
    PROVE  /\ DOMAIN EnsureNs(index, S) = DOMAIN index \union S
           /\ \A x \in DOMAIN index : EnsureNs(index, S)[x] = index[x]
           /\ \A x \in S \ DOMAIN index : EnsureNs(index, S)[x] = Empty
BY DEF EnsureNs, Over

\* What ingest makes of the indexes: it forgets none of their entities.
LEMMA IngestIs ==
    ASSUME NEW s, Ingest(s)
    PROVE  /\ DOMAIN knodes' = DOMAIN s.nodes \union DOMAIN knodes
           /\ DOMAIN deployments' = DOMAIN s.deployments \union DOMAIN deployments
           /\ DOMAIN pods' = DOMAIN s.pods \union DOMAIN pods
           /\ DOMAIN namespaces' = DOMAIN s.namespaces \union DOMAIN namespaces
                \union NamespacesOf(DOMAIN s.deployments \union DOMAIN s.services
                                      \union DOMAIN s.pods)
           /\ \A p \in DOMAIN s.pods : pods'[p] = EnsurePod(p, s.pods[p], s.t)
           /\ \A p \in DOMAIN pods \ DOMAIN s.pods : pods'[p] = pods[p]
           /\ DOMAIN services' = DOMAIN s.services \union DOMAIN services
           /\ \A x \in DOMAIN s.services : services'[x] = s.services[x]
           /\ \A x \in DOMAIN services \ DOMAIN s.services : services'[x] = services[x]
<1>1. /\ DOMAIN knodes' = DOMAIN s.nodes \union DOMAIN knodes
      /\ DOMAIN deployments' = DOMAIN s.deployments \union DOMAIN deployments
  BY UpsertIs DEF Ingest
<1>2. DOMAIN namespaces' = DOMAIN s.namespaces \union DOMAIN namespaces
        \union NamespacesOf(DOMAIN s.deployments \union DOMAIN s.services \union DOMAIN s.pods)
  <2>. DEFINE u == Upsert(namespaces, s.namespaces, s.t)
              S == NamespacesOf(DOMAIN s.deployments \union DOMAIN s.services
                                  \union DOMAIN s.pods)
  <2>1. namespaces' = EnsureNs(u, S)
    BY DEF Ingest
  <2>2. DOMAIN u = DOMAIN s.namespaces \union DOMAIN namespaces
    BY UpsertIs
  <2>. HIDE DEF u, S
  <2>3. DOMAIN EnsureNs(u, S) = DOMAIN u \union S
    BY EnsureNsIs
  <2>. QED  BY <2>1, <2>2, <2>3 DEF S
<1>3. /\ DOMAIN pods' = DOMAIN s.pods \union DOMAIN pods
      /\ \A p \in DOMAIN s.pods : pods'[p] = EnsurePod(p, s.pods[p], s.t)
      /\ \A p \in DOMAIN pods \ DOMAIN s.pods : pods'[p] = pods[p]
  BY DEF Ingest, Over
<1>4. /\ DOMAIN services' = DOMAIN s.services \union DOMAIN services
      /\ \A x \in DOMAIN s.services : services'[x] = s.services[x]
      /\ \A x \in DOMAIN services \ DOMAIN s.services : services'[x] = services[x]
  BY DEF Ingest, Over
<1>. QED  BY <1>1, <1>2, <1>3, <1>4

LEMMA EnsurePodIs ==
    ASSUME NEW p, NEW in, NEW t
    PROVE  /\ EnsurePod(p, in, t).knode = IF p \in DOMAIN pods THEN pods[p].knode ELSE in.knode
           /\ EnsurePod(p, in, t).deployment =
                IF p \in DOMAIN pods THEN pods[p].deployment ELSE in.deployment
           /\ EnsurePod(p, in, t).metrics =
                SetAt(IF p \in DOMAIN pods THEN pods[p].metrics ELSE Empty, t, in.metrics)
BY DEF EnsurePod, Known

LEMMA IngestPod ==
    ASSUME NEW s, Ingest(s), NEW p \in DOMAIN pods'
    PROVE  /\ p \in DOMAIN pods \/ p \in DOMAIN s.pods
           /\ pods'[p].knode = IF p \in DOMAIN pods THEN pods[p].knode ELSE s.pods[p].knode
           /\ pods'[p].deployment =
                IF p \in DOMAIN pods THEN pods[p].deployment ELSE s.pods[p].deployment
           /\ pods'[p].metrics =
                IF p \in DOMAIN s.pods
                THEN SetAt(IF p \in DOMAIN pods THEN pods[p].metrics ELSE Empty,
                           s.t, s.pods[p].metrics)
                ELSE pods[p].metrics
<1>1. p \in DOMAIN pods \/ p \in DOMAIN s.pods
  BY IngestIs
<1>2. CASE p \in DOMAIN s.pods
  <2>1. pods'[p] = EnsurePod(p, s.pods[p], s.t)
    BY <1>2, IngestIs
  <2>. DEFINE e == EnsurePod(p, s.pods[p], s.t)
  <2>2. /\ e.knode = IF p \in DOMAIN pods THEN pods[p].knode ELSE s.pods[p].knode
        /\ e.deployment = IF p \in DOMAIN pods THEN pods[p].deployment ELSE s.pods[p].deployment
        /\ e.metrics = SetAt(IF p \in DOMAIN pods THEN pods[p].metrics ELSE Empty,
                             s.t, s.pods[p].metrics)
    BY EnsurePodIs
  <2>. HIDE DEF e
  <2>3. pods'[p] = e
    BY <2>1 DEF e
  <2>. QED  BY <1>1, <1>2, <2>2, <2>3
<1>3. CASE p \notin DOMAIN s.pods
  <2>1. pods'[p] = pods[p] /\ p \in DOMAIN pods
    BY <1>1, <1>3, IngestIs
  <2>. QED  BY <1>3, <2>1
<1>. QED  BY <1>2, <1>3

LEMMA InNamespace ==
    ASSUME NEW S, NEW x \in S
    PROVE  NsOf[x] \in NamespacesOf(S)
BY DEF NamespacesOf

LEMMA IngestResolves ==
    ASSUME TwinTypeOK, [Next]_vars, TwinResolves, NEW s, EndsResolve(s), Ingest(s)
    PROVE  TwinResolves'
<1>0. /\ DOMAIN s.deployments \union DOMAIN deployments \subseteq DOMAIN deployments'
      /\ DOMAIN s.nodes \union DOMAIN knodes \subseteq DOMAIN knodes'
      /\ DOMAIN namespaces \subseteq DOMAIN namespaces' /\ missing \subseteq missing'
  BY IngestIs, MissingGrows
<1>1. ASSUME NEW p \in DOMAIN pods'
      PROVE  /\ NsOf[p] \in DOMAIN namespaces'
             /\ Resolved(pods[p].deployment, DOMAIN deployments)'
             /\ Resolved(pods[p].knode, DOMAIN knodes)'
  <2>1. CASE p \in DOMAIN pods
    <3>1. pods'[p].knode = pods[p].knode /\ pods'[p].deployment = pods[p].deployment
      BY <2>1, IngestPod
    <3>2. /\ NsOf[p] \in DOMAIN namespaces
          /\ Resolved(pods[p].deployment, DOMAIN deployments)
          /\ Resolved(pods[p].knode, DOMAIN knodes)
      BY <2>1 DEF TwinResolves
    <3>. QED  BY <1>0, <3>1, <3>2 DEF Resolved
  <2>2. CASE p \notin DOMAIN pods
    <3>1. p \in DOMAIN s.pods
      BY <2>2, IngestIs
    <3>2. pods'[p].knode = s.pods[p].knode /\ pods'[p].deployment = s.pods[p].deployment
      BY <2>2, IngestPod
    <3>3. /\ Resolved(s.pods[p].deployment, DOMAIN s.deployments)
          /\ Resolved(s.pods[p].knode, DOMAIN s.nodes)
      BY <3>1 DEF EndsResolve
    <3>4. NsOf[p] \in DOMAIN namespaces'
      <4>1. NsOf[p] \in NamespacesOf(DOMAIN s.deployments \union DOMAIN s.services
                                        \union DOMAIN s.pods)
        BY <3>1, InNamespace
      <4>. QED  BY <4>1, IngestIs
    <3>. QED  BY <1>0, <3>2, <3>3, <3>4 DEF Resolved
  <2>. QED  BY <2>1, <2>2
<1>2. ASSUME NEW d \in DOMAIN deployments' PROVE NsOf[d] \in DOMAIN namespaces'
  BY IngestIs DEF TwinResolves, NamespacesOf
<1>3. ASSUME NEW x \in DOMAIN services' PROVE Resolved(services[x], DOMAIN deployments)'
  <2>1. CASE x \in DOMAIN s.services
    <3>1. services'[x] = s.services[x] /\ Resolved(s.services[x], DOMAIN s.deployments)
      BY <2>1, IngestIs DEF EndsResolve
    <3>. QED  BY <1>0, <3>1 DEF Resolved
  <2>2. CASE x \notin DOMAIN s.services
    <3>1. services'[x] = services[x] /\ Resolved(services[x], DOMAIN deployments)
      BY <2>2, IngestIs DEF TwinResolves
    <3>. QED  BY <1>0, <3>1 DEF Resolved
  <2>. QED  BY <2>1, <2>2
<1>. QED  BY <1>1, <1>2, <1>3 DEF TwinResolves

\* A list that is read later than another has what the other refers to.
LEMMA ListsResolve ==
    ASSUME TypeOK, [Next]_vars, GotResolves, ListRead
    PROVE  GotResolves'
<1>. DEFINE k == step
<1>1. k \in 1..4 /\ step' = k + 1 /\ got' = Listing(Lists[k])
  BY StepsAre DEF ListRead
<1>2. /\ got'.pods = IF k = 1 THEN placed ELSE got.pods
      /\ got'.nodes = IF k = 2 THEN exist \intersect Nodes ELSE got.nodes
      /\ got'.services = IF k = 3 THEN selects ELSE got.services
      /\ got'.deployments = IF k = 4 THEN exist \intersect Deployments ELSE got.deployments
  <2>1. got' = [usage       |-> got.usage,
                pods        |-> IF k = 1 THEN placed ELSE got.pods,
                nodes       |-> IF k = 2 THEN exist \intersect Nodes ELSE got.nodes,
                services    |-> IF k = 3 THEN selects ELSE got.services,
                deployments |-> IF k = 4 THEN exist \intersect Deployments
                                ELSE got.deployments]
    BY <1>1, ListingType DEF TypeOK, FeederTypeOK
  <2>. QED  BY <2>1
<1>3. UNCHANGED <<exist, missing>>
  BY DEF ListRead, clusterVars, history
<1>4. /\ DOMAIN got.pods \subseteq Pods
      /\ \A p \in DOMAIN got.pods : got.pods[p] \in Nodes \union {None}
      /\ DOMAIN got.services \subseteq Services
      /\ \A x \in DOMAIN got.services : got.services[x] \in Deployments \union {None}
  BY PartialIs DEF TypeOK, FeederTypeOK, Got, Placing, Selecting
<1>5. \A p \in Pods : OwnerOf[p] \in Deployments \union {None}
  BY OwnerAssumption
<1>6. CASE k = 1
  <2>1. got'.pods = placed /\ step' = 2
    BY <1>1, <1>2, <1>6
  <2>2. \A p \in DOMAIN placed : Resolved(OwnerOf[p], exist) /\ Resolved(placed[p], exist)
    BY PlacedIs DEF TypeOK, Resolved
  <2>. QED  BY <1>3, <2>1, <2>2 DEF GotResolves, Resolved
<1>7. CASE k = 2
  <2>1. step' = 3 /\ got'.pods = got.pods /\ got'.nodes = exist \intersect Nodes
    BY <1>1, <1>2, <1>7
  <2>2. \A p \in DOMAIN got.pods : Resolved(OwnerOf[p], exist) /\ Resolved(got.pods[p], exist)
    BY <1>7 DEF GotResolves
  <2>. QED  BY <1>3, <1>4, <2>1, <2>2 DEF GotResolves, Resolved
<1>8. CASE k = 3
  <2>1. step' = 4 /\ got'.pods = got.pods /\ got'.nodes = got.nodes /\ got'.services = selects
    BY <1>1, <1>2, <1>8
  <2>2. /\ \A p \in DOMAIN got.pods : Resolved(OwnerOf[p], exist) /\ Resolved(got.pods[p], exist)
        /\ \A p \in DOMAIN got.pods : Resolved(got.pods[p], got.nodes)
    BY <1>8 DEF GotResolves
  <2>3. \A x \in DOMAIN selects : Resolved(selects[x], exist)
    BY DEF TypeOK, ClusterTypeOK, Selected, Resolved
  <2>. QED  BY <1>3, <2>1, <2>2, <2>3 DEF GotResolves, Resolved
<1>9. CASE k = 4
  <2>1. /\ step' = 5 /\ got'.pods = got.pods /\ got'.nodes = got.nodes
        /\ got'.services = got.services /\ got'.deployments = exist \intersect Deployments
    BY <1>1, <1>2, <1>9
  <2>2. /\ \A p \in DOMAIN got.pods : Resolved(OwnerOf[p], exist) /\ Resolved(got.pods[p], exist)
        /\ \A p \in DOMAIN got.pods : Resolved(got.pods[p], got.nodes)
        /\ \A x \in DOMAIN got.services : Resolved(got.services[x], exist)
    BY <1>9 DEF GotResolves
  <2>. QED  BY <1>3, <1>4, <1>5, <2>1, <2>2 DEF GotResolves, Resolved
<1>. QED  BY <1>1, <1>6, <1>7, <1>8, <1>9

LEMMA GotStaysResolved ==
    ASSUME [Next]_vars, GotResolves, UNCHANGED <<step, got>>
    PROVE  GotResolves'
<1>1. step' > 1 => \A p \in DOMAIN got'.pods :
                     Resolved(OwnerOf[p], exist)' /\ Resolved(got.pods[p], exist)'
  BY StaysResolvedInExist DEF GotResolves
<1>2. step' > 2 => \A p \in DOMAIN got'.pods : Resolved(got.pods[p], got.nodes)'
  BY StaysResolved DEF GotResolves
<1>3. step' > 3 => \A x \in DOMAIN got'.services : Resolved(got.services[x], exist)'
  BY StaysResolvedInExist DEF GotResolves
<1>4. step' > 4 =>
        /\ \A p \in DOMAIN got'.pods : Resolved(OwnerOf[p], got.deployments)'
        /\ \A x \in DOMAIN got'.services : Resolved(got.services[x], got.deployments)'
  BY StaysResolved DEF GotResolves
<1>. QED  BY <1>1, <1>2, <1>3, <1>4 DEF GotResolves

\* The twin as it is and the snapshots on their way stay resolved.
LEMMA TwinStaysResolved ==
    ASSUME [Next]_vars, TwinResolves, UNCHANGED <<knodes, namespaces, deployments, pods, services>>
    PROVE  TwinResolves'
BY MissingGrows DEF TwinResolves, Resolved

LEMMA RoutesResolve ==
    ASSUME [Next]_vars, TwinResolves, NEW r, NEW s, IngestRoutes(r, s)
    PROVE  TwinResolves'
<1>1. DOMAIN namespaces \subseteq DOMAIN namespaces'
  BY DEF IngestRoutes, EnsureNs, Over
<1>2. \A x \in DOMAIN services' :
        \/ x \in DOMAIN services /\ services'[x] = services[x]
        \/ services'[x] = None
  BY DEF IngestRoutes, Over
<1>3. UNCHANGED <<knodes, deployments, pods>>
  BY DEF IngestRoutes
<1>. QED  BY <1>1, <1>2, <1>3, MissingGrows DEF TwinResolves, Resolved

LEMMA RetentionResolves ==
    ASSUME [Next]_vars, TwinResolves, NEW now, RunRetention(now)
    PROVE  TwinResolves'
<1>1. /\ DOMAIN namespaces' = DOMAIN namespaces /\ DOMAIN knodes' = DOMAIN knodes
      /\ DOMAIN deployments' = DOMAIN deployments
  BY DEF RunRetention, Pruned
<1>2. /\ DOMAIN pods' = DOMAIN pods
      /\ \A p \in DOMAIN pods : /\ pods'[p].knode = pods[p].knode
                                /\ pods'[p].deployment = pods[p].deployment
  BY DEF RunRetention, PrunedPods
<1>3. services' = services
  BY DEF RunRetention
<1>. QED  BY <1>1, <1>2, <1>3, MissingGrows DEF TwinResolves, Resolved

\* The snapshot has an end for every edge.
LEMMA AggregateResolves ==
    ASSUME TypeOK, GotResolves, step > 4, NEW t
    PROVE  EndsResolve(Aggregate(got, t))
<1>1. /\ \A p \in DOMAIN got.pods : /\ Resolved(got.pods[p], got.nodes)
                                    /\ Resolved(OwnerOf[p], got.deployments)
      /\ \A x \in DOMAIN got.services : Resolved(got.services[x], got.deployments)
  <2>1. step > 2 /\ step > 4
    BY StepsAre DEF TypeOK, FeederTypeOK
  <2>. QED  BY <2>1 DEF GotResolves
<1>2. /\ DOMAIN Aggregate(got, t).pods = DOMAIN got.pods
      /\ \A p \in DOMAIN got.pods : /\ Aggregate(got, t).pods[p].knode = got.pods[p]
                                    /\ Aggregate(got, t).pods[p].deployment = OwnerOf[p]
      /\ DOMAIN Aggregate(got, t).nodes = got.nodes
      /\ DOMAIN Aggregate(got, t).deployments = got.deployments
      /\ Aggregate(got, t).services = got.services
  BY DEF Aggregate
<1>. HIDE DEF Aggregate
<1>. QED  BY <1>1, <1>2 DEF EndsResolve

\* The steps as the twin and its snapshots see them.
LEMMA TwinSteps ==
    ASSUME [Next]_vars
    PROVE  \/ \E s \in Out : Ingest(s) /\ Out' \subseteq Out
           \/ /\ UNCHANGED twinVars
              /\ Out' \subseteq Out
           \/ Stamp
           \/ \E r \in Routes, s \in Services : RoutesPushed(r, s)
           \/ \E s \in Services, rs \in SUBSET Routes : ModelPushed(s, rs)
           \/ Retention
<1>1. CASE Cluster
  BY <1>1, ClusterChanges DEF feederVars, Out
<1>2. CASE Wake \/ ListRead \/ ListFails
  BY <1>2 DEF Wake, ListRead, ListFails, Out
<1>3. CASE Delivered
  BY <1>3 DEF Delivered, Out
<1>4. CASE PostFails
  <2>1. Out' \subseteq Out /\ UNCHANGED twinVars
    BY <1>4, AbandonIs DEF PostFails, Out
  <2>. QED  BY <2>1
<1>5. CASE \E s \in late : TwinServesLate(s)
  BY <1>5 DEF TwinServesLate, Out, feederVars
<1>6. CASE Tick \/ UNCHANGED vars
  BY <1>6 DEF Tick, vars, feederVars, Out
<1>. QED  BY <1>1, <1>2, <1>3, <1>4, <1>5, <1>6 DEF Next

LEMMA NextResolves ==
    ASSUME TypeOK, [Next]_vars, ResolveInv
    PROVE  ResolveInv'
<1>1. TwinResolves /\ GotResolves /\ \A s \in Out : EndsResolve(s)
  BY DEF ResolveInv
<1>2. TwinResolves'
  <2>1. ASSUME NEW s \in Out, Ingest(s) PROVE TwinResolves'
    BY <1>1, <2>1, IngestResolves DEF TypeOK
  <2>2. CASE UNCHANGED twinVars
    BY <1>1, <2>2, TwinStaysResolved DEF twinVars
  <2>3. CASE Stamp
    BY <1>1, <2>3, TwinStaysResolved DEF Stamp, twinVars
  <2>4. ASSUME NEW r, NEW s, RoutesPushed(r, s) PROVE TwinResolves'
    BY <1>1, <2>4, RoutesResolve DEF RoutesPushed
  <2>5. ASSUME NEW s, NEW rs, ModelPushed(s, rs) PROVE TwinResolves'
    BY <1>1, <2>5, TwinStaysResolved DEF ModelPushed, IngestRouteModel
  <2>6. CASE Retention
    BY <1>1, <2>6, RetentionResolves DEF Retention
  <2>. QED  BY <2>1, <2>2, <2>3, <2>4, <2>5, <2>6, TwinSteps
<1>3. GotResolves'
  <2>1. CASE UNCHANGED <<step, got>>
    BY <1>1, <2>1, GotStaysResolved
  <2>2. CASE ListRead
    BY <1>1, <2>2, ListsResolve
  <2>3. CASE Wake
    <3>1. step' = 1
      BY <2>3 DEF Wake
    <3>. QED  BY <3>1 DEF GotResolves
  <2>4. CASE ListFails \/ Stamp \/ Delivered \/ PostFails
    <3>1. step' = 0
      BY <2>4 DEF ListFails, Stamp, Delivered, PostFails, Sleep
    <3>. QED  BY <3>1 DEF GotResolves
  <2>5. \/ UNCHANGED <<step, got>>
        \/ ListRead \/ Wake \/ ListFails \/ Stamp \/ Delivered \/ PostFails
    BY ClusterChanges
       DEF Next, vars, feederVars, TwinServesLate, RoutesPushed, ModelPushed, Retention, Tick
  <2>. QED  BY <2>1, <2>2, <2>3, <2>4, <2>5
<1>4. ASSUME NEW s \in Out' PROVE EndsResolve(s)'
  <2>1. CASE s \in Out
    BY <1>1, <2>1, EndsStayResolved
  <2>2. CASE Stamp /\ s \notin Out
    <3>1. s = Aggregate(got, clock) /\ step > 4
      BY <2>2, StepsAre DEF Stamp, Out
    <3>2. EndsResolve(s)
      BY <1>1, <3>1, AggregateResolves
    <3>. QED  BY <3>2, EndsStayResolved
  <2>3. Out' \subseteq Out \/ Stamp
    <3>1. ASSUME NEW r, NEW x, RoutesPushed(r, x) PROVE Out' \subseteq Out
      BY <3>1 DEF RoutesPushed, feederVars, Out
    <3>2. ASSUME NEW x, NEW rs, ModelPushed(x, rs) PROVE Out' \subseteq Out
      BY <3>2 DEF ModelPushed, feederVars, Out
    <3>3. CASE Retention
      BY <3>3 DEF Retention, feederVars, Out
    <3>. QED  BY <3>1, <3>2, <3>3, TwinSteps
  <2>. QED  BY <2>1, <2>2, <2>3
<1>. QED  BY <1>2, <1>3, <1>4 DEF ResolveInv

LEMMA InitResolves == Init => ResolveInv
BY DEF Init, TwinInit, ResolveInv, TwinResolves, GotResolves, Out, Empty

LEMMA EdgesHaveEnds ==
    ASSUME TypeOK, ResolveInv
    PROVE  EdgesResolve
<1>. SUFFICES ASSUME NEW e \in GraphEdges
              PROVE  \A end \in {e[1], e[2]} : end \in GraphNodes \/ end[2] \in missing
  BY DEF EdgesResolve
<1>1. TwinResolves
  BY DEF ResolveInv
<1>2. /\ \A n \in DOMAIN namespaces : <<"ns", n>> \in GraphNodes
      /\ \A d \in DOMAIN deployments : <<"deploy", d>> \in GraphNodes
      /\ \A p \in ShownPods : <<"pod", p>> \in GraphNodes
      /\ \A k \in DOMAIN knodes : <<"node", k>> \in GraphNodes
      /\ \A r \in routes : <<"route", r>> \in GraphNodes
  BY DEF GraphNodes, Ids
<1>3. \A p \in ShownPods : p \in DOMAIN pods
  BY DEF ShownPods, Shown, Known
<1>4. CASE \E d \in DOMAIN deployments : e = << <<"ns", NsOf[d]>>, <<"deploy", d>> >>
  BY <1>1, <1>2, <1>4 DEF TwinResolves
<1>5. CASE \E p \in ShownPods : /\ pods[p].deployment # None
                                /\ e = << <<"deploy", pods[p].deployment>>, <<"pod", p>> >>
  BY <1>1, <1>2, <1>3, <1>5 DEF TwinResolves, Resolved
<1>6. CASE \E p \in ShownPods : /\ pods[p].knode # None
                                /\ e = << <<"pod", p>>, <<"node", pods[p].knode>> >>
  BY <1>1, <1>2, <1>3, <1>6 DEF TwinResolves, Resolved
<1>7. CASE \E x \in priced : /\ x[2] \in routes /\ services[x[1]] # None
                             /\ e = << <<"route", x[2]>>, <<"deploy", services[x[1]]>> >>
  <2>1. \A x \in priced : x[1] \in DOMAIN services
    BY DEF TypeOK, TwinTypeOK
  <2>. QED  BY <1>1, <1>2, <1>7, <2>1 DEF TwinResolves, Resolved
<1>. QED  BY <1>4, <1>5, <1>6, <1>7 DEF GraphEdges

\* Although the feeder lists kind by kind while the cluster changes, an edge of the
\* graph lacks an end only where the cluster deleted it, or a service selected it before
\* it existed: what refers is listed before what it refers to (feeder main.rs:116-119).
THEOREM EdgesAreResolved == Spec => []EdgesResolve
<1>1. Init => TypeOK /\ ResolveInv
  BY InitType, InitResolves
<1>2. TypeOK /\ ResolveInv /\ [Next]_vars => TypeOK' /\ ResolveInv'
  BY NextType, NextResolves
<1>3. TypeOK /\ ResolveInv => EdgesResolve
  BY EdgesHaveEnds
<1>. QED  BY <1>1, <1>2, <1>3, PTL DEF Spec

----------------------------------------------------------------------------
(***************************************************************************)
(* Ghosts.                                                                 *)
(***************************************************************************)
\* The seconds of the samples of a pod, in the twin or on their way.
Seconds(p) ==
    {t \in 1..MaxClock : \/ p \in DOMAIN pods /\ t \in DOMAIN pods[p].metrics
                         \/ \E s \in Out : s.t = t /\ p \in DOMAIN s.pods}

\* A sample of a pod that has ended is no later than its end and one snapshot; and a loop
\* has listed a pod that has ended since only if it began before the end.
EndedInv ==
    /\ \A p \in Pods : \A t \in Seconds(p) :
         t <= clock /\ (p \in DOMAIN endedAt => t <= endedAt[p] + Slow)
    /\ \A p \in DOMAIN endedAt : p \in DOMAIN got.pods => last <= endedAt[p]

LEMMA RoutesLeavePods ==
    ASSUME (\E r \in Routes, s \in Services : RoutesPushed(r, s))
             \/ (\E s \in Services, rs \in SUBSET Routes : ModelPushed(s, rs))
    PROVE  Out' = Out /\ pods' = pods
BY DEF RoutesPushed, ModelPushed, IngestRoutes, IngestRouteModel, feederVars, Out

LEMMA StampIs ==
    ASSUME Stamp
    PROVE  /\ step > 4 /\ feed = None
           /\ Out' \subseteq Out \union {Aggregate(got, clock)}
           /\ UNCHANGED <<twinVars, clusterVars, last, slept, late, clock, history>>
           /\ feed' = Aggregate(got, clock) /\ step' = 0 /\ got' = Nothing
BY StepsAre DEF Stamp, Out

\* A pod gets a sample when a snapshot with it is stamped.
LEMMA SecondsStep ==
    ASSUME TypeOK, [Next]_vars, NEW p \in Pods, NEW t \in Seconds(p)'
    PROVE  \/ t \in Seconds(p)
           \/ Stamp /\ t = clock /\ p \in DOMAIN got.pods
<1>1. /\ t \in 1..MaxClock
      /\ \/ p \in DOMAIN pods' /\ t \in DOMAIN pods'[p].metrics
         \/ \E s \in Out' : s.t = t /\ p \in DOMAIN s.pods
  BY DEF Seconds
<1>2. ASSUME NEW s \in Out, Ingest(s), Out' \subseteq Out PROVE t \in Seconds(p)
  <2>1. CASE p \in DOMAIN pods' /\ t \in DOMAIN pods'[p].metrics
    <3>1. p \in DOMAIN pods \/ p \in DOMAIN s.pods
      BY <1>2, <2>1, IngestPod
    <3>2. CASE p \in DOMAIN s.pods
      <4>1. pods'[p].metrics = SetAt(IF p \in DOMAIN pods THEN pods[p].metrics ELSE Empty,
                                     s.t, s.pods[p].metrics)
        BY <1>2, <2>1, <3>2, IngestPod
      <4>2. t = s.t \/ (p \in DOMAIN pods /\ t \in DOMAIN pods[p].metrics)
        BY <2>1, <4>1 DEF SetAt, Empty
      <4>. QED  BY <1>1, <3>2, <4>2 DEF Seconds
    <3>3. CASE p \notin DOMAIN s.pods
      <4>1. pods'[p].metrics = pods[p].metrics /\ p \in DOMAIN pods
        BY <1>2, <2>1, <3>1, <3>3, IngestPod
      <4>. QED  BY <1>1, <2>1, <4>1 DEF Seconds
    <3>. QED  BY <3>2, <3>3
  <2>2. CASE \E x \in Out' : x.t = t /\ p \in DOMAIN x.pods
    BY <1>1, <1>2, <2>2 DEF Seconds
  <2>. QED  BY <1>1, <2>1, <2>2
<1>3. CASE pods' = pods /\ Out' \subseteq Out
  BY <1>1, <1>3 DEF Seconds
<1>4. CASE Stamp
  <2>1. pods' = pods /\ Out' \subseteq Out \union {Aggregate(got, clock)}
    BY <1>4, StampIs DEF twinVars
  <2>2. /\ Aggregate(got, clock).t = clock
        /\ DOMAIN Aggregate(got, clock).pods = DOMAIN got.pods
    BY DEF Aggregate
  <2>. HIDE DEF Aggregate
  <2>. QED  BY <1>1, <1>4, <2>1, <2>2 DEF Seconds
<1>5. CASE Retention
  <2>1. /\ DOMAIN pods' = DOMAIN pods
        /\ p \in DOMAIN pods => DOMAIN pods'[p].metrics \subseteq DOMAIN pods[p].metrics
    BY <1>5 DEF Retention, RunRetention, PrunedPods, Prune
  <2>2. Out' = Out
    BY <1>5 DEF Retention, feederVars, Out
  <2>. QED  BY <1>1, <2>1, <2>2 DEF Seconds
<1>. QED  BY <1>2, <1>3, <1>4, <1>5, TwinSteps, RoutesLeavePods DEF twinVars

LEMMA EndedStep ==
    ASSUME [Next]_vars, NEW p \in DOMAIN endedAt'
    PROVE  \/ /\ p \in DOMAIN endedAt /\ endedAt'[p] = endedAt[p]
           \/ /\ p \in DOMAIN placed /\ endedAt'[p] = clock
              /\ UNCHANGED <<twinVars, feederVars, late, clock>>
<1>1. ASSUME NEW x \in Pods, PodCreated(x)
      PROVE  p \in DOMAIN endedAt /\ endedAt'[p] = endedAt[p]
  BY <1>1 DEF PodCreated
<1>2. ASSUME NEW x \in Pods, PodEnds(x)
      PROVE  \/ p \in DOMAIN endedAt /\ endedAt'[p] = endedAt[p]
             \/ /\ p \in DOMAIN placed /\ endedAt'[p] = clock
                /\ UNCHANGED <<twinVars, feederVars, late, clock>>
  BY <1>2 DEF PodEnds, SetAt, Change
<1>3. CASE UNCHANGED endedAt
  BY <1>3
<1>4. \/ \E x \in Pods : PodCreated(x) \/ PodEnds(x)
      \/ UNCHANGED endedAt
  BY DEF Next, vars, history, Cluster, PodScheduled, Created, Deleted, ServiceApplied, Wake,
         ListRead, ListFails, Stamp, Delivered, PostFails, TwinServesLate, RoutesPushed,
         ModelPushed, Retention, Tick
<1>. QED  BY <1>1, <1>2, <1>3, <1>4

\* The pods a loop has listed ran when it listed them.
LEMMA ListedStep ==
    ASSUME TypeOK, [Next]_vars, NEW p \in DOMAIN got'.pods
    PROVE  \/ p \in DOMAIN got.pods /\ last' = last
           \/ p \in DOMAIN placed /\ UNCHANGED <<clusterVars, history>>
<1>1. CASE UNCHANGED <<got, last>>
  BY <1>1
<1>2. CASE ListRead
  <2>1. PICK k \in 1..4 : k = step
    BY <1>2, StepsAre DEF ListRead
  <2>2. got' = Listing(Lists[k])
    BY <1>2, <2>1 DEF ListRead
  <2>3. Listing(Lists[k]) =
                [usage       |-> got.usage,
                 pods        |-> IF k = 1 THEN placed ELSE got.pods,
                 nodes       |-> IF k = 2 THEN exist \intersect Nodes ELSE got.nodes,
                 services    |-> IF k = 3 THEN selects ELSE got.services,
                 deployments |-> IF k = 4 THEN exist \intersect Deployments
                                 ELSE got.deployments]
    BY ListingType DEF TypeOK, FeederTypeOK
  <2>4. got'.pods = IF k = 1 THEN placed ELSE got.pods
    BY <2>2, <2>3
  <2>5. last' = last /\ UNCHANGED <<clusterVars, history>>
    BY <1>2 DEF ListRead
  <2>. QED  BY <2>4, <2>5
<1>3. CASE Wake
  <2>1. got'.pods = Empty
    BY <1>3, WakeIs DEF TypeOK
  <2>. QED  BY <2>1 DEF Empty
<1>4. CASE ListFails \/ Stamp \/ Delivered \/ PostFails
  <2>1. got' = Nothing
    BY <1>4 DEF ListFails, Stamp, Delivered, PostFails, Sleep
  <2>. QED  BY <2>1 DEF Nothing, Empty
<1>5. \/ UNCHANGED <<got, last>>
      \/ ListRead \/ Wake \/ ListFails \/ Stamp \/ Delivered \/ PostFails
  BY ClusterChanges
     DEF Next, vars, feederVars, TwinServesLate, RoutesPushed, ModelPushed, Retention, Tick
<1>. QED  BY <1>1, <1>2, <1>3, <1>4, <1>5

LEMMA ClockStep ==
    ASSUME TypeOK, [Next]_vars
    PROVE  clock \in Nat /\ clock' \in Nat /\ clock <= clock'
<1>1. clock \in Nat
  BY BoundsAssumption DEF TypeOK, FeederTypeOK
<1>2. clock' = clock \/ clock' = clock + 1
  BY ClusterChanges
     DEF Next, vars, Wake, ListRead, ListFails, Stamp, Delivered, PostFails, TwinServesLate,
         RoutesPushed, ModelPushed, Retention, Tick
<1>. QED  BY <1>1, <1>2

LEMMA NextEnded ==
    ASSUME TypeOK, [Next]_vars, EndedInv
    PROVE  EndedInv'
<1>1. /\ clock \in Nat /\ clock' \in Nat /\ clock <= clock' /\ Slow \in Nat
      /\ last \in Nat /\ last <= clock
  BY ClockStep, BoundsAssumption DEF TypeOK, FeederTypeOK
<1>2. \A p \in DOMAIN endedAt : /\ endedAt[p] \in Nat /\ endedAt[p] <= clock
                                /\ p \in Pods /\ p \notin DOMAIN placed
  BY <1>1 DEF TypeOK, ClusterTypeOK
<1>3. ASSUME NEW p \in Pods, NEW t \in Seconds(p)'
      PROVE  t <= clock' /\ (p \in DOMAIN endedAt' => t <= endedAt'[p] + Slow)
  <2>1. t \in Nat
    BY DEF Seconds
  <2>2. CASE t \in Seconds(p)
    <3>1. t <= clock /\ (p \in DOMAIN endedAt => t <= endedAt[p] + Slow)
      BY <2>2 DEF EndedInv
    <3>2. ASSUME p \in DOMAIN endedAt' PROVE t <= endedAt'[p] + Slow
      <4>1. CASE p \in DOMAIN endedAt /\ endedAt'[p] = endedAt[p]
        BY <3>1, <4>1
      <4>2. CASE endedAt'[p] = clock
        BY <1>1, <2>1, <3>1, <4>2
      <4>. QED  BY <3>2, <4>1, <4>2, EndedStep
    <3>. QED  BY <1>1, <2>1, <3>1, <3>2
  <2>3. CASE Stamp /\ t = clock /\ p \in DOMAIN got.pods
    <3>1. UNCHANGED <<endedAt, clock>> /\ step # 0
      BY <2>3, StampIs DEF history
    <3>2. clock - last <= Slow
      BY <3>1 DEF TypeOK, FeederTypeOK
    <3>3. ASSUME p \in DOMAIN endedAt PROVE clock <= endedAt[p] + Slow
      <4>1. last <= endedAt[p] /\ endedAt[p] \in Nat
        BY <1>2, <2>3, <3>3 DEF EndedInv
      <4>. QED  BY <1>1, <3>2, <4>1
    <3>. QED  BY <1>1, <2>3, <3>1, <3>3
  <2>. QED  BY <2>2, <2>3, SecondsStep
<1>4. ASSUME NEW p \in DOMAIN endedAt', p \in DOMAIN got'.pods PROVE last' <= endedAt'[p]
  <2>1. CASE p \in DOMAIN endedAt /\ endedAt'[p] = endedAt[p]
    <3>1. p \in DOMAIN got.pods /\ last' = last
      BY <1>2, <1>4, <2>1, ListedStep
    <3>. QED  BY <2>1, <3>1 DEF EndedInv
  <2>2. CASE endedAt'[p] = clock /\ UNCHANGED <<twinVars, feederVars, late, clock>>
    BY <1>1, <2>2 DEF feederVars
  <2>. QED  BY <2>1, <2>2, EndedStep
<1>. QED  BY <1>3, <1>4 DEF EndedInv

LEMMA InitEnded == Init => EndedInv
BY DEF Init, TwinInit, EndedInv, Seconds, Out, Empty

\* The samples of a pod that has ended end with it.
LEMMA EndedSamples ==
    ASSUME TypeOK, EndedInv, NEW p \in DOMAIN endedAt, p \in DOMAIN pods,
           NEW t \in DOMAIN pods[p].metrics
    PROVE  t <= endedAt[p] + Slow /\ t \in Nat /\ endedAt[p] \in Nat /\ Slow \in Nat
<1>1. p \in Pods /\ endedAt[p] \in 0..clock /\ clock \in 0..MaxClock
  BY DEF TypeOK, ClusterTypeOK, FeederTypeOK
<1>2. t \in 1..MaxClock
  BY DEF TypeOK, TwinTypeOK, IsSeries
<1>3. t \in Seconds(p)
  BY <1>2 DEF Seconds
<1>. QED  BY <1>1, <1>2, <1>3, BoundsAssumption DEF EndedInv

LEMMA GhostsAreOld ==
    ASSUME TypeOK, ResolveInv, EndedInv
    PROVE  GhostsFade
<1>. SUFFICES ASSUME NEW p \in DOMAIN endedAt, Shown(p)
              PROVE  LastSeconds(namespaces[NsOf[p]]) - endedAt[p] < FreshFor + Slow
  BY DEF GhostsFade
<1>. DEFINE ns == LastSeconds(namespaces[NsOf[p]])
            own == LastSeconds(pods[p].metrics)
<1>1. p \in DOMAIN pods /\ pods[p].metrics # Empty /\ ns - own < FreshFor
  BY DEF Shown, Known, Fresh
<1>2. own \in DOMAIN pods[p].metrics
  BY <1>1, PodOfTwin, LastSecondsIs DEF TypeOK
<1>3. own <= endedAt[p] + Slow /\ own \in Nat /\ endedAt[p] \in Nat /\ Slow \in Nat
  BY <1>1, <1>2, EndedSamples
<1>4. ns \in Nat
  <2>1. NsOf[p] \in DOMAIN namespaces
    BY <1>1 DEF ResolveInv, TwinResolves
  <2>. QED  BY <2>1, LastSecondsIs DEF TypeOK, TwinTypeOK, IsIndex
<1>5. FreshFor \in Nat
  BY FreshForAssumption
<1>. HIDE DEF ns, own
<1>6. ns - endedAt[p] < FreshFor + Slow
  BY <1>1, <1>3, <1>4, <1>5
<1>. QED  BY <1>6 DEF ns

\* A pod that has ended leaves the graph as soon as its namespace has samples that are
\* later than its end by freshness and the time of one snapshot, whatever was stamped or
\* delivered after the end (twin.gcl:762).
THEOREM GhostsFadeAway == Spec => []GhostsFade
<1>1. Init => TypeOK /\ ResolveInv /\ EndedInv
  BY InitType, InitResolves, InitEnded
<1>2. TypeOK /\ ResolveInv /\ EndedInv /\ [Next]_vars => (TypeOK /\ ResolveInv /\ EndedInv)'
  BY NextType, NextResolves, NextEnded
<1>3. TypeOK /\ ResolveInv /\ EndedInv => GhostsFade
  BY GhostsAreOld
<1>. QED  BY <1>1, <1>2, <1>3, PTL DEF Spec

LEMMA RetentionStep ==
    ASSUME TypeOK, TypeOK', EndedInv, Retention, NEW p \in DOMAIN endedAt, Shown(p)'
    PROVE  endedAt[p] + Slow >= clock - KeepFor
<1>1. p \in DOMAIN pods' /\ pods'[p].metrics # Empty /\ IsSeries(pods'[p].metrics)
  BY DEF Shown, Known, Fresh, TypeOK, TwinTypeOK
<1>2. LastSeconds(pods'[p].metrics) \in DOMAIN pods'[p].metrics
  BY <1>1, LastSecondsIs
<1>3. PICK t : t \in DOMAIN pods'[p].metrics
  BY <1>2
<1>4. p \in DOMAIN pods /\ t \in DOMAIN pods[p].metrics /\ t >= clock - KeepFor
  BY <1>1, <1>3 DEF Retention, RunRetention, PrunedPods, Prune
<1>5. t <= endedAt[p] + Slow /\ t \in Nat /\ endedAt[p] \in Nat /\ Slow \in Nat
  BY <1>4, EndedSamples
<1>6. clock \in Int /\ KeepFor \in Int
  BY FreshForAssumption DEF TypeOK, FeederTypeOK
<1>. QED  BY <1>4, <1>5, <1>6

\* Once retention has run the graph shows no pod that ended longer ago than samples are
\* kept and one snapshot takes, even if its namespace gets no samples any more
\* (twin.gcl:976-1011).
THEOREM RetentionEndsAllGhosts == Spec => RetentionEndsGhosts
<1>1. Init => TypeOK /\ EndedInv
  BY InitType, InitEnded
<1>2. TypeOK /\ EndedInv /\ [Next]_vars => (TypeOK /\ EndedInv)'
  BY NextType, NextEnded
<1>3. TypeOK /\ TypeOK' /\ EndedInv /\ [Next]_vars
        => [Retention =>
              \A p \in DOMAIN endedAt : Shown(p)' => endedAt[p] + Slow >= clock - KeepFor]_vars
  BY RetentionStep
<1>. QED  BY <1>1, <1>2, <1>3, PTL DEF Spec, RetentionEndsGhosts

----------------------------------------------------------------------------
(***************************************************************************)
(* Energy.                                                                 *)
(***************************************************************************)
\* Some bound f on what the samples of each second say, in the twin and on their way,
\* adds up, with what the feeder has read since, to no more than the time it read over.
Bounds(f) ==
    /\ \A p \in DOMAIN pods : \A t \in DOMAIN pods[p].metrics :
         pods[p].metrics[t].joules <= f[t]
    /\ \A s \in Out : \A p \in DOMAIN s.pods : s.pods[p].metrics.joules <= f[s.t]

Pending == IF step # 0 THEN got.usage.joules ELSE 0

EnergyInv ==
    \E f \in [1..MaxClock -> Nat] :
        Bounds(f) /\ SumFunctionOnSet(f, 1..MaxClock) + Pending <= last

LEMMA SecondsAre ==
    /\ MaxClock \in Nat /\ IsFiniteSet(1..MaxClock)
    /\ \A f \in [1..MaxClock -> Nat] : SumFunctionOnSet(f, 1..MaxClock) \in Nat
<1>1. MaxClock \in Nat
  BY BoundsAssumption
<1>2. IsFiniteSet(1..MaxClock)
  BY <1>1, FS_Interval
<1>3. ASSUME NEW f \in [1..MaxClock -> Nat] PROVE SumFunctionOnSet(f, 1..MaxClock) \in Nat
  BY <1>2, SumNat
<1>. QED  BY <1>1, <1>2, <1>3

\* A pod of a snapshot is charged what the meter read, its containers nothing.
LEMMA PodJoules ==
    ASSUME NEW u \in Res, NEW p
    PROVE  PodUsage(u, p).joules = u.joules
<1>. DEFINE own == {x \in Containers : PodOf[x] = p}
            z == [c \in own |-> 0]
            f == [c \in own |-> ContainerUsage(u)]
<1>1. IsFiniteSet(own)
  BY FiniteAssumption, FS_Subset
<1>2. Total(f).joules = SumFunctionOnSet(z, own)
  <2>1. [x \in DOMAIN f |-> f[x].joules] = z
    BY DEF ContainerUsage
  <2>2. Total(f).joules = SumFunction([x \in DOMAIN f |-> f[x].joules])
    BY DEF Total
  <2>3. DOMAIN z = own
    OBVIOUS
  <2>. HIDE DEF f, z
  <2>. QED  BY <2>1, <2>2, <2>3 DEF SumFunction
<1>3. /\ 0 * Cardinality(own) <= SumFunctionOnSet(z, own)
      /\ SumFunctionOnSet(z, own) <= 0 * Cardinality(own)
  <2>1. \A x \in own : z[x] = 0
    OBVIOUS
  <2>. HIDE DEF z, own
  <2>. QED  BY <1>1, <2>1, SumAtLeast, SumAtMost
<1>4. SumFunctionOnSet(z, own) \in Int /\ Cardinality(own) \in Int
  <2>1. \A x \in own : z[x] \in Int
    OBVIOUS
  <2>. HIDE DEF z, own
  <2>. QED  BY <1>1, <2>1, SumOut, FS_CardinalityType
<1>5. Total(f).joules = 0
  <2>. HIDE DEF own, z, f
  <2>. QED  BY <1>2, <1>3, <1>4
<1>6. PodUsage(u, p) = Addition([cpu |-> 0, joules |-> u.joules], Total(f))
  BY DEF PodUsage
<1>7. PodUsage(u, p).joules = u.joules + Total(f).joules
  <2>. HIDE DEF f, own
  <2>. QED  BY <1>6 DEF Addition
<1>8. u.joules \in Nat
  BY DEF Res
<1>. HIDE DEF f, own
<1>. QED  BY <1>5, <1>7, <1>8

\* The samples of a second are overwritten by those of a snapshot of the same second.
LEMMA IngestBounds ==
    ASSUME TypeOK, NEW f, Bounds(f), NEW s \in Out, Ingest(s), Out' \subseteq Out
    PROVE  Bounds(f)'
<1>1. ASSUME NEW p \in DOMAIN pods', NEW t \in DOMAIN pods'[p].metrics
      PROVE  pods'[p].metrics[t].joules <= f[t]
  <2>1. CASE p \in DOMAIN s.pods
    <3>1. pods'[p].metrics = SetAt(IF p \in DOMAIN pods THEN pods[p].metrics ELSE Empty,
                                   s.t, s.pods[p].metrics)
      BY <2>1, IngestPod
    <3>2. CASE t = s.t
      <4>1. pods'[p].metrics[t] = s.pods[p].metrics
        BY <3>1, <3>2 DEF SetAt
      <4>. QED  BY <2>1, <3>2, <4>1 DEF Bounds
    <3>3. CASE t # s.t
      <4>1. /\ p \in DOMAIN pods /\ t \in DOMAIN pods[p].metrics
            /\ pods'[p].metrics[t] = pods[p].metrics[t]
        BY <3>1, <3>3 DEF SetAt, Empty
      <4>. QED  BY <4>1 DEF Bounds
    <3>. QED  BY <3>2, <3>3
  <2>2. CASE p \notin DOMAIN s.pods
    <3>1. p \in DOMAIN pods /\ pods'[p].metrics = pods[p].metrics
      BY <2>2, IngestPod
    <3>. QED  BY <3>1 DEF Bounds
  <2>. QED  BY <2>1, <2>2
<1>2. ASSUME NEW x \in Out', NEW p \in DOMAIN x.pods PROVE x.pods[p].metrics.joules <= f[x.t]
  BY <1>2 DEF Bounds
<1>. QED  BY <1>1, <1>2 DEF Bounds

\* Other steps, but for the stamp of a snapshot, add no sample.
LEMMA BoundsStay ==
    ASSUME TypeOK, [Next]_vars, ~Stamp, NEW f, Bounds(f)
    PROVE  Bounds(f)'
<1>1. ASSUME NEW s \in Out, Ingest(s), Out' \subseteq Out PROVE Bounds(f)'
  BY <1>1, IngestBounds
<1>2. CASE pods' = pods /\ Out' \subseteq Out
  BY <1>2 DEF Bounds
<1>3. CASE Retention
  <2>1. Out' = Out
    BY <1>3 DEF Retention, feederVars, Out
  <2>2. /\ DOMAIN pods' = DOMAIN pods
        /\ \A p \in DOMAIN pods : \A t \in DOMAIN pods'[p].metrics :
             t \in DOMAIN pods[p].metrics /\ pods'[p].metrics[t] = pods[p].metrics[t]
    BY <1>3 DEF Retention, RunRetention, PrunedPods, Prune
  <2>. QED  BY <2>1, <2>2 DEF Bounds
<1>. QED  BY <1>1, <1>2, <1>3, TwinSteps, RoutesLeavePods DEF twinVars

\* A snapshot takes over what was read for it.
LEMMA StampBounds ==
    ASSUME TypeOK, Stamp, NEW f \in [1..MaxClock -> Nat], Bounds(f)
    PROVE  \E e \in [1..MaxClock -> Nat] :
             /\ Bounds(e)'
             /\ SumFunctionOnSet(e, 1..MaxClock) = SumFunctionOnSet(f, 1..MaxClock) + Pending
<1>. DEFINE a == Aggregate(got, clock)
<1>1. /\ step > 4 /\ Out' \subseteq Out \union {a} /\ pods' = pods
      /\ step # 0
  BY StampIs DEF twinVars
<1>2. clock \in 1..MaxClock /\ got.usage \in Res /\ got.usage.joules \in Nat
  BY <1>1 DEF TypeOK, FeederTypeOK, Got, Res
<1>3. PICK e \in [1..MaxClock -> Nat] :
        \A t \in 1..MaxClock : e[t] = IF t = clock THEN f[t] + got.usage.joules ELSE f[t]
  <2>1. [f EXCEPT ![clock] = @ + got.usage.joules] \in [1..MaxClock -> Nat]
    BY <1>2
  <2>. QED  BY <1>2, <2>1
<1>4. \A t \in 1..MaxClock : f[t] \in Nat /\ f[t] <= e[t]
  BY <1>2, <1>3
<1>5. SumFunctionOnSet(e, 1..MaxClock) = SumFunctionOnSet(f, 1..MaxClock) + Pending
  <2>. DEFINE S == 1..MaxClock
  <2>1. PICK c \in S, d \in Int : c = clock /\ d = got.usage.joules
    BY <1>2
  <2>2. IsFiniteSet(S) /\ \A t \in S : f[t] \in Int /\ e[t] = IF t = c THEN f[t] + d ELSE f[t]
    BY <1>3, <2>1, SecondsAre
  <2>. HIDE DEF S
  <2>3. SumFunctionOnSet(e, S) = SumFunctionOnSet(f, S) + d
    BY <2>2, SumAdd
  <2>. QED  BY <1>1, <2>1, <2>3 DEF Pending, S
<1>6. ASSUME NEW p \in DOMAIN pods', NEW t \in DOMAIN pods'[p].metrics
      PROVE  pods'[p].metrics[t].joules <= e[t]
  <2>1. p \in DOMAIN pods /\ t \in DOMAIN pods[p].metrics /\ pods' = pods
    BY <1>1
  <2>2. t \in 1..MaxClock /\ pods[p].metrics[t] \in Res
    BY <2>1, PodOfTwin DEF TypeOK, IsSeries
  <2>3. pods[p].metrics[t].joules <= f[t] /\ pods[p].metrics[t].joules \in Nat
    BY <2>1, <2>2 DEF Bounds, Res
  <2>4. e[t] \in Nat
    BY <1>3, <2>2
  <2>. QED  BY <1>4, <2>1, <2>2, <2>3, <2>4
<1>7. ASSUME NEW s \in Out', NEW p \in DOMAIN s.pods
      PROVE  s.pods[p].metrics.joules <= e[s.t]
  <2>1. CASE s \in Out
    <3>1. IsSnapshot(s)
      BY <2>1 DEF TypeOK, FeederTypeOK, Out
    <3>2. s.t \in 1..MaxClock /\ s.pods[p].metrics \in Res
      BY <3>1 DEF IsSnapshot, Named
    <3>3. s.pods[p].metrics.joules <= f[s.t] /\ s.pods[p].metrics.joules \in Nat
      BY <2>1, <3>2 DEF Bounds, Res
    <3>4. e[s.t] \in Nat
      BY <1>3, <3>2
    <3>. QED  BY <1>4, <3>2, <3>3, <3>4
  <2>2. CASE s = a
    <3>1. a.t = clock /\ p \in DOMAIN got.pods /\ a.pods[p].metrics = PodUsage(got.usage, p)
      BY <2>2 DEF Aggregate
    <3>2. a.pods[p].metrics.joules = got.usage.joules
      BY <1>2, <3>1, PodJoules
    <3>3. e[clock] = f[clock] + got.usage.joules /\ f[clock] \in Nat
      BY <1>2, <1>3
    <3>. HIDE DEF a
    <3>. QED  BY <1>2, <2>2, <3>1, <3>2, <3>3
  <2>. HIDE DEF a
  <2>. QED  BY <1>1, <2>1, <2>2
<1>8. Bounds(e)'
  BY <1>6, <1>7 DEF Bounds
<1>. QED  BY <1>5, <1>8

\* How what has been read and is not yet stamped relates to the time of reading.
LEMMA PendingStep ==
    ASSUME TypeOK, [Next]_vars, ~Stamp
    PROVE  Pending' + last <= Pending + last'
<1>1. /\ got \in Got /\ got.usage \in Res /\ got.usage.joules \in Nat
      /\ last \in Nat /\ clock \in Nat /\ step \in 0..5 /\ Pending \in Nat
  BY StepsAre DEF TypeOK, FeederTypeOK, Got, Res, Pending
<1>2. CASE UNCHANGED <<step, got, last>>
  BY <1>1, <1>2 DEF Pending
<1>3. CASE Wake
  <2>1. /\ got'.usage \in Res /\ got'.usage.joules <= clock - last
        /\ step' = 1 /\ step = 0 /\ last' = clock
    BY <1>3, WakeIs DEF TypeOK, Wake
  <2>2. Pending' = got'.usage.joules /\ Pending' \in Nat /\ Pending = 0
    BY <2>1 DEF Pending, Res
  <2>. QED  BY <1>1, <2>1, <2>2
<1>4. CASE ListRead
  <2>1. PICK k \in 1..4 : k = step
    BY <1>4, StepsAre DEF ListRead
  <2>2. got' = Listing(Lists[k]) /\ last' = last /\ step' = k + 1
    BY <1>4, <2>1 DEF ListRead
  <2>3. Listing(Lists[k]) =
                [usage       |-> got.usage,
                 pods        |-> IF k = 1 THEN placed ELSE got.pods,
                 nodes       |-> IF k = 2 THEN exist \intersect Nodes ELSE got.nodes,
                 services    |-> IF k = 3 THEN selects ELSE got.services,
                 deployments |-> IF k = 4 THEN exist \intersect Deployments
                                 ELSE got.deployments]
    BY ListingType DEF TypeOK, FeederTypeOK
  <2>4. got'.usage = got.usage
    BY <2>2, <2>3
  <2>5. Pending' = Pending
    BY <2>1, <2>2, <2>4 DEF Pending
  <2>. QED  BY <1>1, <2>2, <2>5
<1>5. CASE ListFails \/ Delivered \/ PostFails
  <2>1. step' = 0 /\ last' = last
    BY <1>5 DEF ListFails, Delivered, PostFails, Sleep
  <2>. QED  BY <1>1, <2>1 DEF Pending
<1>6. \/ UNCHANGED <<step, got, last>>
      \/ ListRead \/ Wake \/ ListFails \/ Delivered \/ PostFails
  BY ClusterChanges
     DEF Next, vars, feederVars, TwinServesLate, RoutesPushed, ModelPushed, Retention, Tick
<1>. QED  BY <1>2, <1>3, <1>4, <1>5, <1>6

LEMMA NextEnergy ==
    ASSUME TypeOK, TypeOK', [Next]_vars, EnergyInv
    PROVE  EnergyInv'
<1>1. PICK f \in [1..MaxClock -> Nat] :
        Bounds(f) /\ SumFunctionOnSet(f, 1..MaxClock) + Pending <= last
  BY DEF EnergyInv
<1>2. /\ SumFunctionOnSet(f, 1..MaxClock) \in Nat /\ last \in Nat /\ last' \in Nat
      /\ Pending \in Nat /\ Pending' \in Nat
  <2>1. SumFunctionOnSet(f, 1..MaxClock) \in Nat
    BY SecondsAre
  <2>2. last \in Nat /\ last' \in Nat
    BY DEF TypeOK, FeederTypeOK
  <2>3. got.usage \in Res /\ got'.usage \in Res
    BY DEF TypeOK, FeederTypeOK, Got
  <2>4. Pending \in Nat /\ Pending' \in Nat
    BY <2>3 DEF Res, Pending
  <2>. QED  BY <2>1, <2>2, <2>4
<1>3. CASE Stamp
  <2>1. PICK e \in [1..MaxClock -> Nat] :
          /\ Bounds(e)'
          /\ SumFunctionOnSet(e, 1..MaxClock) = SumFunctionOnSet(f, 1..MaxClock) + Pending
    BY <1>1, <1>3, StampBounds
  <2>2. Pending' = 0 /\ last' = last
    BY <1>3, StampIs DEF Pending
  <2>3. SumFunctionOnSet(e, 1..MaxClock) + Pending' <= last'
    BY <1>1, <1>2, <2>1, <2>2
  <2>. QED  BY <2>1, <2>3 DEF EnergyInv
<1>4. CASE ~Stamp
  <2>1. Bounds(f)'
    BY <1>1, <1>4, BoundsStay
  <2>2. Pending' + last <= Pending + last'
    BY <1>4, PendingStep
  <2>3. PICK sum \in Nat, a \in Nat, b \in Nat, l \in Nat, m \in Nat :
          /\ sum = SumFunctionOnSet(f, 1..MaxClock)
          /\ a = Pending /\ b = Pending' /\ l = last /\ m = last'
    BY <1>2
  <2>4. sum + b <= m
    <3>1. sum + a <= l /\ b + l <= a + m
      BY <1>1, <2>2, <2>3
    <3>. QED  BY <3>1
  <2>. QED  BY <2>1, <2>3, <2>4 DEF EnergyInv
<1>. QED  BY <1>3, <1>4

LEMMA InitEnergy == Init => EnergyInv
<1>. SUFFICES ASSUME Init PROVE EnergyInv
  OBVIOUS
<1>. DEFINE z == [t \in 1..MaxClock |-> 0]
<1>1. z \in [1..MaxClock -> Nat] /\ \A t \in 1..MaxClock : z[t] \in Int /\ z[t] <= 0
  OBVIOUS
<1>2. Bounds(z)
  BY DEF Init, TwinInit, Bounds, Out, Empty
<1>. HIDE DEF z
<1>3. SumFunctionOnSet(z, 1..MaxClock) <= 0 * Cardinality(1..MaxClock)
  BY <1>1, SecondsAre, SumAtMost
<1>4. Cardinality(1..MaxClock) \in Int
  BY SecondsAre, FS_CardinalityType
<1>5. SumFunctionOnSet(z, 1..MaxClock) + Pending <= last
  BY <1>1, <1>3, <1>4, SecondsAre DEF Init, Pending
<1>. QED  BY <1>1, <1>2, <1>5 DEF EnergyInv

LEMMA EnergyBounded ==
    ASSUME TypeOK, EnergyInv
    PROVE  EnergyCountedOnce
<1>. SUFFICES ASSUME NEW p \in DOMAIN pods PROVE Total(pods[p].metrics).joules <= clock
  BY DEF EnergyCountedOnce
<1>1. PICK f \in [1..MaxClock -> Nat] :
        Bounds(f) /\ SumFunctionOnSet(f, 1..MaxClock) + Pending <= last
  BY DEF EnergyInv
<1>. DEFINE m == pods[p].metrics
            S == DOMAIN m
            j == [t \in DOMAIN m |-> m[t].joules]
<1>2. S \subseteq 1..MaxClock /\ \A t \in S : m[t] \in Res
  BY PodOfTwin DEF TypeOK, IsSeries
<1>3. \A t \in S : j[t] \in Nat /\ j[t] <= f[t]
  BY <1>1, <1>2 DEF Bounds, Res
<1>4. DOMAIN j = S /\ Total(m).joules = SumFunction(j)
  BY DEF Total
<1>. HIDE DEF m, S, j
<1>5. SumFunctionOnSet(j, S) <= SumFunctionOnSet(f, 1..MaxClock)
  BY <1>2, <1>3, SecondsAre, SumMonotone
<1>6. SumFunctionOnSet(j, S) \in Nat
  <2>1. IsFiniteSet(S)
    BY <1>2, SecondsAre, FS_Subset
  <2>. QED  BY <1>3, <2>1, SumNat
<1>7. Total(m).joules <= clock
  <2>1. /\ SumFunctionOnSet(f, 1..MaxClock) \in Nat /\ Pending \in Nat
        /\ last \in Nat /\ clock \in Nat /\ last <= clock
    BY SecondsAre DEF TypeOK, FeederTypeOK, Got, Res, Pending
  <2>2. Total(m).joules = SumFunctionOnSet(j, S)
    BY <1>4 DEF SumFunction
  <2>. QED  BY <1>1, <1>5, <1>6, <2>1, <2>2
<1>. QED  BY <1>7 DEF m

\* Whatever is posted late, twice or not at all, all that the twin ever charged a pod
\* of one watt is at most the time that has passed: each interval is read once and is
\* charged to the second of one snapshot only (feeder main.rs:38-47, twin.gcl:326-365).
THEOREM EnergyIsCountedOnce == Spec => []EnergyCountedOnce
<1>1. Init => TypeOK /\ EnergyInv
  BY InitType, InitEnergy
<1>2. TypeOK /\ EnergyInv /\ [Next]_vars => (TypeOK /\ EnergyInv)'
  BY NextType, NextEnergy
<1>3. TypeOK /\ EnergyInv => EnergyCountedOnce
  BY EnergyBounded
<1>. QED  BY <1>1, <1>2, <1>3, PTL DEF Spec

----------------------------------------------------------------------------
(***************************************************************************)
(* Seconds: what a step changes of one second of the twin.                 *)
(***************************************************************************)
\* The series of the pods, as an index like the others.
MetricsOf(ps) == [p \in DOMAIN ps |-> ps[p].metrics]

Lacks(index, t) == \A x \in DOMAIN index : t \notin DOMAIN index[x]

\* At t, new has what index has.
SameAt(index, new, t) ==
    /\ DOMAIN index \subseteq DOMAIN new
    /\ \A x \in DOMAIN new :
         /\ t \in DOMAIN new[x] <=> x \in DOMAIN index /\ t \in DOMAIN index[x]
         /\ t \in DOMAIN new[x] => new[x][t] = index[x][t]

\* At t, index has the samples of part and no others.
HoldsPart(index, part, t) ==
    /\ DOMAIN part \subseteq DOMAIN index
    /\ \A x \in DOMAIN index : /\ t \in DOMAIN index[x] <=> x \in DOMAIN part
                               /\ t \in DOMAIN index[x] => index[x][t] = part[x]

TwinLacks(t) ==
    /\ Lacks(knodes, t) /\ Lacks(namespaces, t) /\ Lacks(deployments, t)
    /\ Lacks(containers, t) /\ Lacks(MetricsOf(pods), t)

TwinSame(t) ==
    /\ SameAt(knodes, knodes', t) /\ SameAt(namespaces, namespaces', t)
    /\ SameAt(deployments, deployments', t) /\ SameAt(containers, containers', t)
    /\ SameAt(MetricsOf(pods), MetricsOf(pods'), t)

\* The twin has the samples of s, and at its second no others.
Holds(s) ==
    /\ HoldsPart(knodes, s.nodes, s.t) /\ HoldsPart(namespaces, s.namespaces, s.t)
    /\ HoldsPart(deployments, s.deployments, s.t) /\ HoldsPart(containers, s.containers, s.t)
    /\ HoldsPart(MetricsOf(pods), MetricsOf(s.pods), s.t)

LEMMA SameItself ==
    ASSUME NEW index, NEW t
    PROVE  SameAt(index, index, t)
BY DEF SameAt

LEMMA SameUpsert ==
    ASSUME NEW index, NEW part, NEW t0, NEW t, t # t0
    PROVE  SameAt(index, Upsert(index, part, t0), t)
<1>. DEFINE new == Upsert(index, part, t0)
<1>1. /\ DOMAIN new = DOMAIN part \union DOMAIN index
      /\ \A x \in DOMAIN part : new[x] = SetAt(SeriesOf(index, x), t0, part[x])
      /\ \A x \in DOMAIN index \ DOMAIN part : new[x] = index[x]
  BY DEF Upsert, Over
<1>. HIDE DEF new
<1>2. ASSUME NEW x \in DOMAIN part
      PROVE  /\ t \in DOMAIN new[x] <=> x \in DOMAIN index /\ t \in DOMAIN index[x]
             /\ t \in DOMAIN new[x] => new[x][t] = index[x][t]
  <2>1. CASE x \in DOMAIN index
    <3>1. new[x] = SetAt(index[x], t0, part[x])
      BY <1>1, <2>1 DEF SeriesOf, Known
    <3>. QED  BY <2>1, <3>1 DEF SetAt
  <2>2. CASE x \notin DOMAIN index
    <3>1. new[x] = SetAt(Empty, t0, part[x])
      BY <1>1, <2>2 DEF SeriesOf, Known
    <3>. QED  BY <2>2, <3>1 DEF SetAt, Empty
  <2>. QED  BY <2>1, <2>2
<1>3. SameAt(index, new, t)
  BY <1>1, <1>2 DEF SameAt
<1>. QED  BY <1>3 DEF new

LEMMA SameEnsureNs ==
    ASSUME NEW index, NEW S, NEW t
    PROVE  SameAt(index, EnsureNs(index, S), t)
<1>1. DOMAIN Empty = {}
  BY DEF Empty
<1>. HIDE DEF Empty
<1>. QED  BY <1>1 DEF EnsureNs, Over, SameAt

LEMMA SameTwice ==
    ASSUME NEW i, NEW j, NEW k, NEW t, SameAt(i, j, t), SameAt(j, k, t)
    PROVE  SameAt(i, k, t)
BY DEF SameAt

LEMMA PrunedAt ==
    ASSUME NEW index, NEW cutoff, NEW t
    PROVE  /\ t >= cutoff => SameAt(index, Pruned(index, cutoff), t)
           /\ ~(t >= cutoff) => Lacks(Pruned(index, cutoff), t)
BY DEF SameAt, Lacks, Pruned, Prune

LEMMA SameLacks ==
    ASSUME NEW i, NEW j, NEW t, SameAt(i, j, t), Lacks(i, t)
    PROVE  Lacks(j, t)
BY DEF SameAt, Lacks

LEMMA SameHolds ==
    ASSUME NEW i, NEW j, NEW t, NEW part, SameAt(i, j, t), HoldsPart(i, part, t)
    PROVE  HoldsPart(j, part, t)
BY DEF SameAt, HoldsPart

\* The samples of a second nothing was known of are those of the snapshot.
LEMMA UpsertHolds ==
    ASSUME NEW index, NEW part, NEW t, Lacks(index, t)
    PROVE  HoldsPart(Upsert(index, part, t), part, t)
<1>. DEFINE new == Upsert(index, part, t)
<1>1. /\ DOMAIN new = DOMAIN part \union DOMAIN index
      /\ \A x \in DOMAIN part : new[x] = SetAt(SeriesOf(index, x), t, part[x])
      /\ \A x \in DOMAIN index \ DOMAIN part : new[x] = index[x]
  BY DEF Upsert, Over
<1>. HIDE DEF new
<1>2. ASSUME NEW x \in DOMAIN new
      PROVE  /\ t \in DOMAIN new[x] <=> x \in DOMAIN part
             /\ t \in DOMAIN new[x] => new[x][t] = part[x]
  <2>1. CASE x \in DOMAIN part
    <3>1. new[x] = SetAt(SeriesOf(index, x), t, part[x])
      BY <1>1, <2>1
    <3>. QED  BY <2>1, <3>1 DEF SetAt
  <2>2. CASE x \notin DOMAIN part
    BY <1>1, <2>2 DEF Lacks
  <2>. QED  BY <2>1, <2>2
<1>3. HoldsPart(new, part, t)
  BY <1>1, <1>2 DEF HoldsPart
<1>. QED  BY <1>3 DEF new

\* Ingest treats the pods' series as those of the other entities.
LEMMA IngestMetrics ==
    ASSUME NEW s, Ingest(s)
    PROVE  MetricsOf(pods') = Upsert(MetricsOf(pods), MetricsOf(s.pods), s.t)
<1>. DEFINE u == Upsert(MetricsOf(pods), MetricsOf(s.pods), s.t)
            m == MetricsOf(pods')
<1>1. /\ DOMAIN MetricsOf(pods) = DOMAIN pods /\ DOMAIN MetricsOf(s.pods) = DOMAIN s.pods
      /\ \A p \in DOMAIN pods : MetricsOf(pods)[p] = pods[p].metrics
      /\ \A p \in DOMAIN s.pods : MetricsOf(s.pods)[p] = s.pods[p].metrics
      /\ DOMAIN m = DOMAIN pods' /\ \A p \in DOMAIN pods' : m[p] = pods'[p].metrics
      /\ m = [p \in DOMAIN m |-> m[p]] /\ u = [p \in DOMAIN u |-> u[p]]
  BY DEF MetricsOf, Upsert, Over
<1>2. /\ DOMAIN u = DOMAIN s.pods \union DOMAIN pods
      /\ \A p \in DOMAIN s.pods :
           u[p] = SetAt(SeriesOf(MetricsOf(pods), p), s.t, s.pods[p].metrics)
      /\ \A p \in DOMAIN pods \ DOMAIN s.pods : u[p] = pods[p].metrics
  BY <1>1 DEF Upsert, Over
<1>3. DOMAIN m = DOMAIN u
  BY <1>1, <1>2, IngestIs
<1>4. \A p \in DOMAIN pods \union DOMAIN s.pods :
        SeriesOf(MetricsOf(pods), p) = IF p \in DOMAIN pods THEN pods[p].metrics ELSE Empty
  BY <1>1 DEF SeriesOf, Known
<1>. HIDE DEF m, u
<1>5. \A p \in DOMAIN m : m[p] = u[p]
  BY <1>1, <1>2, <1>3, <1>4, IngestPod
<1>6. m = u
  BY <1>1, <1>3, <1>5
<1>. QED  BY <1>6 DEF m, u

LEMMA IngestSame ==
    ASSUME NEW s, Ingest(s), NEW t, t # s.t
    PROVE  TwinSame(t)
<1>1. /\ SameAt(knodes, knodes', t) /\ SameAt(deployments, deployments', t)
      /\ SameAt(containers, containers', t)
  BY SameUpsert DEF Ingest
<1>2. SameAt(namespaces, namespaces', t)
  <2>. DEFINE u == Upsert(namespaces, s.namespaces, s.t)
              S == NamespacesOf(DOMAIN s.deployments \union DOMAIN s.services
                                  \union DOMAIN s.pods)
  <2>1. namespaces' = EnsureNs(u, S)
    BY DEF Ingest
  <2>2. SameAt(namespaces, u, t)
    BY SameUpsert
  <2>. HIDE DEF u, S
  <2>. QED  BY <2>1, <2>2, SameEnsureNs, SameTwice
<1>3. SameAt(MetricsOf(pods), MetricsOf(pods'), t)
  BY IngestMetrics, SameUpsert
<1>. QED  BY <1>1, <1>2, <1>3 DEF TwinSame

LEMMA UnchangedSame ==
    ASSUME NEW t, UNCHANGED <<knodes, deployments, containers, pods>>,
           SameAt(namespaces, namespaces', t)
    PROVE  TwinSame(t)
BY SameItself DEF TwinSame

LEMMA PushesSame ==
    ASSUME NEW t,
           (\E r \in Routes, s \in Services : RoutesPushed(r, s))
             \/ (\E s \in Services, rs \in SUBSET Routes : ModelPushed(s, rs))
    PROVE  TwinSame(t)
<1>1. ASSUME NEW r, NEW s, RoutesPushed(r, s) PROVE TwinSame(t)
  <2>1. namespaces' = EnsureNs(namespaces, {NsOf[r]})
        /\ UNCHANGED <<knodes, deployments, containers, pods>>
    BY <1>1 DEF RoutesPushed, IngestRoutes
  <2>. QED  BY <2>1, SameEnsureNs, UnchangedSame
<1>2. ASSUME NEW s, NEW rs, ModelPushed(s, rs) PROVE TwinSame(t)
  <2>1. UNCHANGED <<knodes, namespaces, deployments, containers, pods>>
    BY <1>2 DEF ModelPushed, IngestRouteModel
  <2>. QED  BY <2>1, SameItself, UnchangedSame
<1>. QED  BY <1>1, <1>2

LEMMA RetentionSame ==
    ASSUME NEW t, Retention
    PROVE  TwinSame(t) \/ TwinLacks(t)'
<1>. DEFINE cutoff == clock - KeepFor
<1>1. /\ knodes' = Pruned(knodes, cutoff) /\ namespaces' = Pruned(namespaces, cutoff)
      /\ deployments' = Pruned(deployments, cutoff)
      /\ containers' = Pruned(containers, cutoff)
      /\ pods' = PrunedPods(cutoff)
  BY DEF Retention, RunRetention
<1>. HIDE DEF cutoff
<1>2. MetricsOf(pods') = Pruned(MetricsOf(pods), cutoff)
  BY <1>1 DEF MetricsOf, PrunedPods, Pruned
<1>3. CASE t >= cutoff
  BY <1>1, <1>2, <1>3, PrunedAt DEF TwinSame
<1>4. CASE ~(t >= cutoff)
  <2>1. /\ Lacks(knodes', t) /\ Lacks(namespaces', t) /\ Lacks(deployments', t)
        /\ Lacks(containers', t) /\ Lacks(MetricsOf(pods'), t)
    BY <1>1, <1>2, <1>4, PrunedAt
  <2>. QED  BY <2>1 DEF TwinLacks
<1>. QED  BY <1>3, <1>4

\* Only a snapshot of that second changes what the twin has of a second, and retention,
\* which removes it.
LEMMA SecondStep ==
    ASSUME [Next]_vars, NEW t
    PROVE  \/ TwinSame(t)
           \/ TwinLacks(t)'
           \/ \E s \in Out : s.t = t /\ Ingest(s) /\ Out' \subseteq Out
<1>1. ASSUME NEW s \in Out, Ingest(s), Out' \subseteq Out, s.t # t PROVE TwinSame(t)
  BY <1>1, IngestSame
<1>2. CASE UNCHANGED twinVars \/ Stamp
  <2>1. UNCHANGED twinVars
    BY <1>2, StampIs
  <2>. QED  BY <2>1, SameItself, UnchangedSame DEF twinVars
<1>. QED  BY <1>1, <1>2, PushesSame, RetentionSame, TwinSteps

----------------------------------------------------------------------------
(***************************************************************************)
(* Stamps: no second is ever written twice.                                *)
(***************************************************************************)
\* Abandoned snapshots are of different seconds, none after the last sleep, and of these
\* and of all seconds after the last sleep the twin has nothing.
StampInv ==
    /\ \A s \in late : /\ s.t <= slept /\ TwinLacks(s.t)
                       /\ \A r \in late : r.t = s.t => r = s
    /\ feed # None => slept < feed.t /\ feed.t <= clock
    /\ step # 0 => slept < last
    /\ \A t \in 1..MaxClock : t > slept => TwinLacks(t)

\* What is ingested next is of a second the twin has nothing of.
LEMMA OutIsNew ==
    ASSUME TypeOK, StampInv, NEW s \in Out
    PROVE  s.t \in 1..MaxClock /\ s.t <= clock /\ TwinLacks(s.t)
<1>1. s.t \in 1..MaxClock /\ slept \in Nat /\ clock \in Nat /\ slept <= clock
  BY DEF TypeOK, FeederTypeOK, IsSnapshot, Out
<1>2. CASE s \in late
  BY <1>1, <1>2 DEF StampInv
<1>3. CASE feed # None /\ s = feed
  BY <1>1, <1>3 DEF StampInv
<1>. QED  BY <1>2, <1>3 DEF Out

LEMMA SameStaysAway ==
    ASSUME NEW t, TwinLacks(t), TwinSame(t)
    PROVE  TwinLacks(t)'
BY SameLacks DEF TwinLacks, TwinSame

LEMMA IngestStaysAway ==
    ASSUME NEW s, Ingest(s), NEW t, t # s.t, TwinLacks(t)
    PROVE  TwinLacks(t)'
BY IngestSame, SameStaysAway

LEMMA NextStamps ==
    ASSUME TypeOK, TypeOK', [Next]_vars, StampInv
    PROVE  StampInv'
<1>1. /\ clock \in Nat /\ clock' \in Nat /\ clock <= clock' /\ slept \in Nat /\ last \in Nat
      /\ slept <= clock /\ last <= clock /\ MaxClock \in Nat
      /\ \A s \in Out : s.t \in 1..MaxClock
      /\ feed # None => step = 0
  <2>1. \A s \in Out : IsSnapshot(s)
    BY DEF TypeOK, FeederTypeOK, Out
  <2>2. \A s \in Out : s.t \in 1..MaxClock
    BY <2>1 DEF IsSnapshot
  <2>. QED  BY <2>2, ClockStep, BoundsAssumption DEF TypeOK, FeederTypeOK
<1>2. /\ \A s \in late : /\ s.t <= slept /\ TwinLacks(s.t)
                         /\ \A r \in late : r.t = s.t => r = s
      /\ feed # None => slept < feed.t /\ feed.t <= clock
      /\ step # 0 => slept < last
      /\ \A t \in 1..MaxClock : t > slept => TwinLacks(t)
  BY DEF StampInv
<1>3. CASE Delivered
  <2>1. /\ feed # None /\ Ingest(feed) /\ feed' = None /\ step' = 0 /\ slept' = clock
        /\ UNCHANGED <<late, clock>> /\ feed \in Out
    BY <1>3 DEF Delivered, Sleep, Out
  <2>2. \A s \in late : s.t <= slept' /\ TwinLacks(s.t)'
    <3>1. ASSUME NEW s \in late PROVE s.t <= slept' /\ TwinLacks(s.t)'
      <4>1. s.t \in Nat /\ feed.t \in Nat /\ s.t <= slept /\ TwinLacks(s.t) /\ slept < feed.t
        BY <1>1, <1>2, <2>1 DEF Out
      <4>2. s.t # feed.t /\ s.t <= slept'
        BY <1>1, <2>1, <4>1
      <4>. QED  BY <2>1, <4>1, <4>2, IngestStaysAway
    <3>. QED  BY <3>1
  <2>3. ASSUME NEW t \in 1..MaxClock, t > slept' PROVE TwinLacks(t)'
    <3>1. t > slept /\ t # feed.t
      BY <1>1, <1>2, <2>1, <2>3
    <3>. QED  BY <1>2, <2>1, <3>1, IngestStaysAway
  <2>. QED  BY <1>2, <2>1, <2>2, <2>3 DEF StampInv
<1>4. ASSUME NEW s \in late, TwinServesLate(s) PROVE StampInv'
  <2>1. Ingest(s) /\ late' = late \ {s} /\ UNCHANGED <<step, last, slept, feed, clock>>
    BY <1>4 DEF TwinServesLate, feederVars
  <2>2. \A r \in late' : TwinLacks(r.t)'
    <3>1. ASSUME NEW r \in late' PROVE TwinLacks(r.t)'
      <4>1. r.t # s.t /\ TwinLacks(r.t)
        BY <1>2, <2>1
      <4>. QED  BY <2>1, <4>1, IngestStaysAway
    <3>. QED  BY <3>1
  <2>3. ASSUME NEW t \in 1..MaxClock, t > slept PROVE TwinLacks(t)'
    <3>1. t # s.t /\ TwinLacks(t)
      BY <1>1, <1>2, <2>3 DEF Out
    <3>. QED  BY <2>1, <3>1, IngestStaysAway
  <2>. QED  BY <1>2, <2>1, <2>2, <2>3 DEF StampInv
<1>5. ASSUME ~Delivered, ~ \E s \in late : TwinServesLate(s) PROVE StampInv'
  <2>1. ASSUME NEW t, TwinLacks(t) PROVE TwinLacks(t)'
    <3>1. ASSUME TwinSame(t) PROVE TwinLacks(t)'
      BY <2>1, <3>1, SameStaysAway
    <3>2. UNCHANGED twinVars => TwinSame(t)
      BY SameItself, UnchangedSame DEF twinVars
    <3>3. \/ UNCHANGED twinVars
          \/ \E r \in Routes, s \in Services : RoutesPushed(r, s)
          \/ \E s \in Services, rs \in SUBSET Routes : ModelPushed(s, rs)
          \/ Retention
      BY <1>5, ClusterChanges
         DEF Next, vars, Wake, ListRead, ListFails, Stamp, PostFails, Tick
    <3>. QED  BY <3>1, <3>2, <3>3, PushesSame, RetentionSame
  <2>2. ASSUME slept <= slept', slept' \in Nat,
               \A s \in late' : s \in late \/ (s = feed /\ feed # None /\ slept' = clock),
               feed' # None => slept' < feed'.t /\ feed'.t <= clock',
               step' # 0 => slept' < last'
        PROVE  StampInv'
    <3>1. ASSUME NEW s \in late'
          PROVE  /\ s.t <= slept' /\ TwinLacks(s.t)'
                 /\ \A r \in late' : r.t = s.t => r = s
      <4>1. \A r \in late' : r \in Out /\ r.t \in Nat /\ (r.t <= slept => r \in late)
        BY <1>1, <1>2, <2>2 DEF Out
      <4>2. s.t <= slept' /\ TwinLacks(s.t)
        <5>1. CASE s \in late
          BY <1>1, <1>2, <2>2, <4>1, <5>1
        <5>2. CASE s = feed /\ feed # None /\ slept' = clock
          BY <1>1, <1>2, <4>1, <5>2
        <5>. QED  BY <2>2, <5>1, <5>2
      <4>3. ASSUME NEW r \in late', r.t = s.t PROVE r = s
        BY <1>2, <2>2, <4>1, <4>3
      <4>. QED  BY <2>1, <4>2, <4>3
    <3>2. ASSUME NEW t \in 1..MaxClock, t > slept' PROVE TwinLacks(t)'
      <4>1. t > slept
        BY <1>1, <2>2, <3>2
      <4>. QED  BY <1>2, <2>1, <4>1
    <3>. QED  BY <2>2, <3>1, <3>2 DEF StampInv
  <2>3. CASE UNCHANGED feederVars /\ late' = late
    <3>1. UNCHANGED <<step, last, slept, feed>>
      BY <2>3 DEF feederVars
    <3>2. feed' # None => slept' < feed'.t /\ feed'.t <= clock'
      <4>1. CASE feed # None
        <5>1. feed.t \in Nat
          BY <1>1, <4>1 DEF Out
        <5>. QED  BY <1>1, <1>2, <3>1, <4>1, <5>1
      <4>. QED  BY <3>1, <4>1
    <3>. QED  BY <1>1, <1>2, <2>2, <2>3, <3>1, <3>2
  <2>4. CASE Wake
    <3>1. clock > slept /\ last' = clock /\ UNCHANGED <<slept, feed, late, clock>>
          /\ feed = None
      BY <2>4 DEF Wake
    <3>. QED  BY <1>1, <2>2, <3>1
  <2>5. CASE ListRead
    <3>1. step # 0 /\ UNCHANGED <<last, slept, feed, late, clock>> /\ feed = None
      BY <1>1, <2>5, StepsAre DEF ListRead
    <3>. QED  BY <1>1, <1>2, <2>2, <3>1
  <2>6. CASE ListFails
    <3>1. step # 0 /\ step' = 0 /\ slept' = clock /\ UNCHANGED <<last, feed, late, clock>>
          /\ feed = None
      BY <1>1, <2>6, StepsAre DEF ListFails, Sleep
    <3>. QED  BY <1>1, <1>2, <2>2, <3>1
  <2>7. CASE Stamp
    <3>1. /\ step > 4 /\ step # 0 /\ step' = 0 /\ UNCHANGED <<last, slept, late, clock>>
          /\ feed'.t = clock
      BY <2>7, StampIs DEF Aggregate
    <3>2. slept < clock
      BY <1>1, <1>2, <3>1
    <3>. QED  BY <1>1, <1>2, <2>2, <3>1, <3>2
  <2>8. CASE PostFails
    <3>1. /\ feed # None /\ feed' = None /\ step' = 0 /\ slept' = clock
          /\ late' \subseteq late \union {feed} /\ clock' = clock
      BY <2>8, AbandonIs DEF PostFails, Sleep
    <3>. QED  BY <1>1, <1>2, <2>2, <3>1
  <2>9. \/ UNCHANGED feederVars /\ late' = late
        \/ Wake \/ ListRead \/ ListFails \/ Stamp \/ PostFails
    BY <1>5, ClusterChanges DEF Next, vars, RoutesPushed, ModelPushed, Retention, Tick
  <2>. QED  BY <2>3, <2>4, <2>5, <2>6, <2>7, <2>8, <2>9
<1>. QED  BY <1>3, <1>4, <1>5

LEMMA InitStamps == Init => StampInv
BY DEF Init, TwinInit, StampInv, TwinLacks, Lacks, MetricsOf, Empty

----------------------------------------------------------------------------
(***************************************************************************)
(* Totals: what the twin has of a second is one whole snapshot or nothing. *)
(***************************************************************************)
WholeInv ==
    /\ \A t \in 1..MaxClock : \E g \in Got : Holds(Aggregate(g, t))
    /\ \A s \in Out : \E g \in Got : s = Aggregate(g, s.t)

LEMMA LacksHolds ==
    ASSUME NEW index, NEW part, NEW t, Lacks(index, t), DOMAIN part = {}
    PROVE  HoldsPart(index, part, t)
BY DEF Lacks, HoldsPart

\* A snapshot of nothing has no parts.
LEMMA NothingParts ==
    ASSUME NEW t
    PROVE  LET a == Aggregate(Nothing, t) IN
           /\ a.t = t
           /\ DOMAIN a.nodes = {} /\ DOMAIN a.namespaces = {} /\ DOMAIN a.deployments = {}
           /\ DOMAIN a.containers = {} /\ DOMAIN MetricsOf(a.pods) = {}
<1>1. DOMAIN Nothing.pods = {} /\ Nothing.nodes = {} /\ Nothing.deployments = {}
  BY DEF Nothing, Empty
<1>2. NamespacesOf(DOMAIN Nothing.pods) = {}
  BY <1>1 DEF NamespacesOf
<1>. QED  BY <1>1, <1>2 DEF Aggregate, MetricsOf

LEMMA LackedSecond ==
    ASSUME NEW t, TwinLacks(t)'
    PROVE  Holds(Aggregate(Nothing, t))'
<1>1. PICK a : a = Aggregate(Nothing, t)
  OBVIOUS
<1>2. /\ a.t = t
      /\ DOMAIN a.nodes = {} /\ DOMAIN a.namespaces = {} /\ DOMAIN a.deployments = {}
      /\ DOMAIN a.containers = {} /\ DOMAIN MetricsOf(a.pods) = {}
  BY <1>1, NothingParts
<1>3. /\ Lacks(knodes', t) /\ Lacks(namespaces', t) /\ Lacks(deployments', t)
      /\ Lacks(containers', t) /\ Lacks(MetricsOf(pods'), t)
  BY DEF TwinLacks
<1>4. Holds(a)'
  BY <1>2, <1>3, LacksHolds DEF Holds
<1>. QED  BY <1>1, <1>4

LEMMA SameSecond ==
    ASSUME NEW s, TwinSame(s.t), Holds(s)
    PROVE  Holds(s)'
BY SameHolds DEF TwinSame, Holds

\* Every container a snapshot counts is of a pod it lists, so that the twin takes it.
LEMMA IngestHolds ==
    ASSUME NEW g \in Got, NEW t, NEW s, s = Aggregate(g, t), TwinLacks(t), Ingest(s)
    PROVE  Holds(s)'
<1>1. s.t = t
  BY DEF Aggregate
<1>2. /\ HoldsPart(knodes', s.nodes, t) /\ HoldsPart(deployments', s.deployments, t)
  BY <1>1, UpsertHolds DEF Ingest, TwinLacks
<1>3. HoldsPart(namespaces', s.namespaces, t)
  <2>. DEFINE u == Upsert(namespaces, s.namespaces, t)
              S == NamespacesOf(DOMAIN s.deployments \union DOMAIN s.services
                                  \union DOMAIN s.pods)
  <2>1. namespaces' = EnsureNs(u, S)
    BY <1>1 DEF Ingest
  <2>2. HoldsPart(u, s.namespaces, t)
    BY UpsertHolds DEF TwinLacks
  <2>. HIDE DEF u, S
  <2>. QED  BY <2>1, <2>2, SameEnsureNs, SameHolds
<1>4. HoldsPart(containers', s.containers, t)
  <2>1. /\ s.containers = [c \in {x \in Containers : PodOf[x] \in DOMAIN g.pods}
                             |-> ContainerUsage(g.usage)]
        /\ DOMAIN s.pods = DOMAIN g.pods
    BY DEF Aggregate
  <2>2. \A c \in DOMAIN s.containers : Known(pods', PodOf[c])
    BY <2>1, IngestIs DEF Known
  <2>3. [c \in {x \in DOMAIN s.containers : Known(pods', PodOf[x])} |-> s.containers[c]]
          = s.containers
    BY <2>1, <2>2
  <2>4. containers' = Upsert(containers, s.containers, t)
    BY <1>1, <2>3 DEF Ingest
  <2>. QED  BY <2>4, UpsertHolds DEF TwinLacks
<1>5. HoldsPart(MetricsOf(pods'), MetricsOf(s.pods), t)
  <2>1. MetricsOf(pods') = Upsert(MetricsOf(pods), MetricsOf(s.pods), t)
    BY <1>1, IngestMetrics
  <2>. QED  BY <2>1, UpsertHolds DEF TwinLacks
<1>. QED  BY <1>1, <1>2, <1>3, <1>4, <1>5 DEF Holds

LEMMA OutStep ==
    ASSUME [Next]_vars
    PROVE  Out' \subseteq Out \/ Stamp
<1>1. CASE Retention
  BY <1>1 DEF Retention, feederVars, Out
<1>. QED  BY <1>1, TwinSteps, RoutesLeavePods

LEMMA NextWhole ==
    ASSUME TypeOK, [Next]_vars, StampInv, WholeInv
    PROVE  WholeInv'
<1>1. ASSUME NEW t \in 1..MaxClock PROVE (\E g \in Got : Holds(Aggregate(g, t)))'
  <2>1. CASE TwinSame(t)
    <3>1. PICK g \in Got : Holds(Aggregate(g, t))
      BY DEF WholeInv
    <3>2. PICK s : s = Aggregate(g, t)
      OBVIOUS
    <3>3. s.t = t
      BY <3>2 DEF Aggregate
    <3>4. Holds(s)'
      BY <2>1, <3>1, <3>2, <3>3, SameSecond
    <3>. QED  BY <3>2, <3>4
  <2>2. CASE TwinLacks(t)'
    BY <2>2, LackedSecond, NothingIs
  <2>3. ASSUME NEW s \in Out, s.t = t, Ingest(s)
        PROVE  (\E g \in Got : Holds(Aggregate(g, t)))'
    <3>1. PICK g \in Got : s = Aggregate(g, t)
      BY <2>3 DEF WholeInv
    <3>2. TwinLacks(t)
      BY <2>3, OutIsNew
    <3>3. Holds(s)'
      BY <2>3, <3>1, <3>2, IngestHolds
    <3>. QED  BY <3>1, <3>3
  <2>. QED  BY <2>1, <2>2, <2>3, SecondStep
<1>2. ASSUME NEW s \in Out' PROVE \E g \in Got : s = Aggregate(g, s.t)
  <2>1. CASE s \in Out
    BY <2>1 DEF WholeInv
  <2>2. CASE s = Aggregate(got, clock)
    <3>1. got \in Got
      BY DEF TypeOK, FeederTypeOK
    <3>2. s.t = clock
      BY <2>2 DEF Aggregate
    <3>. QED  BY <2>2, <3>1, <3>2
  <2>. QED  BY <2>1, <2>2, OutStep, StampIs
<1>. QED  BY <1>1, <1>2 DEF WholeInv

LEMMA InitWhole == Init => WholeInv
<1>. SUFFICES ASSUME Init PROVE WholeInv
  OBVIOUS
<1>1. Out = {}
  BY DEF Init, Out
<1>2. ASSUME NEW t \in 1..MaxClock PROVE Holds(Aggregate(Nothing, t))
  <2>1. PICK a : a = Aggregate(Nothing, t)
    OBVIOUS
  <2>2. /\ a.t = t
        /\ DOMAIN a.nodes = {} /\ DOMAIN a.namespaces = {} /\ DOMAIN a.deployments = {}
        /\ DOMAIN a.containers = {} /\ DOMAIN MetricsOf(a.pods) = {}
    BY <2>1, NothingParts
  <2>3. /\ Lacks(knodes, t) /\ Lacks(namespaces, t) /\ Lacks(deployments, t)
        /\ Lacks(containers, t) /\ Lacks(MetricsOf(pods), t)
    BY DEF Init, TwinInit, Lacks, MetricsOf, Empty
  <2>4. Holds(a)
    BY <2>2, <2>3, LacksHolds DEF Holds
  <2>. QED  BY <2>1, <2>4
<1>. QED  BY <1>1, <1>2, NothingIs DEF WholeInv

\* Entities without usage do not count.
LEMMA TotalZeros ==
    ASSUME NEW f, NEW e, IsFiniteSet(DOMAIN f), DOMAIN e \subseteq DOMAIN f,
           \A x \in DOMAIN e : e[x] \in Res /\ f[x] = e[x],
           \A x \in DOMAIN f \ DOMAIN e : f[x] = NoUsage
    PROVE  Total(f) = Total(e)
<1>. DEFINE fc == [x \in DOMAIN f |-> f[x].cpu]
            fj == [x \in DOMAIN f |-> f[x].joules]
            ec == [x \in DOMAIN e |-> e[x].cpu]
            ej == [x \in DOMAIN e |-> e[x].joules]
<1>1. /\ Total(f) = [cpu |-> SumFunction(fc), joules |-> SumFunction(fj)]
      /\ Total(e) = [cpu |-> SumFunction(ec), joules |-> SumFunction(ej)]
  BY DEF Total
<1>2. /\ DOMAIN fc = DOMAIN f /\ DOMAIN fj = DOMAIN f
      /\ DOMAIN ec = DOMAIN e /\ DOMAIN ej = DOMAIN e
      /\ \A x \in DOMAIN e : /\ ec[x] \in Int /\ fc[x] = ec[x]
                             /\ ej[x] \in Int /\ fj[x] = ej[x]
      /\ \A x \in DOMAIN f \ DOMAIN e : fc[x] = 0 /\ fj[x] = 0
  BY DEF Res, NoUsage
<1>. HIDE DEF fc, fj, ec, ej
<1>3. SumFunction(fc) = SumFunction(ec) /\ SumFunction(fj) = SumFunction(ej)
  BY <1>2, SumZeros DEF SumFunction
<1>. QED  BY <1>1, <1>3

LEMMA GotIs ==
    ASSUME NEW g \in Got
    PROVE  g.usage \in Res /\ DOMAIN g.pods \subseteq Pods
BY PartialIs DEF Got, Placing

\* The sample of a pod the snapshot lists is what the snapshot says of it, and the other
\* pods have none.
LEMMA HeldPods ==
    ASSUME NEW t, NEW g \in Got, Holds(Aggregate(g, t))
    PROVE  /\ DOMAIN g.pods \subseteq DOMAIN pods
           /\ \A p \in DOMAIN pods :
                PodAt(t, p) = IF p \in DOMAIN g.pods THEN PodUsage(g.usage, p) ELSE NoUsage
<1>1. PICK a : a = Aggregate(g, t)
  OBVIOUS
<1>2. /\ a.t = t /\ DOMAIN a.pods = DOMAIN g.pods
      /\ \A p \in DOMAIN g.pods : a.pods[p].metrics = PodUsage(g.usage, p)
  BY <1>1 DEF Aggregate
<1>3. HoldsPart(MetricsOf(pods), MetricsOf(a.pods), t)
  BY <1>1, <1>2 DEF Holds
<1>4. /\ DOMAIN MetricsOf(pods) = DOMAIN pods /\ DOMAIN MetricsOf(a.pods) = DOMAIN g.pods
      /\ \A p \in DOMAIN pods : MetricsOf(pods)[p] = pods[p].metrics
      /\ \A p \in DOMAIN g.pods : MetricsOf(a.pods)[p] = PodUsage(g.usage, p)
  BY <1>2 DEF MetricsOf
<1>5. /\ DOMAIN g.pods \subseteq DOMAIN pods
      /\ \A p \in DOMAIN pods :
           /\ t \in DOMAIN pods[p].metrics <=> p \in DOMAIN g.pods
           /\ t \in DOMAIN pods[p].metrics => pods[p].metrics[t] = PodUsage(g.usage, p)
  BY <1>3, <1>4 DEF HoldsPart
<1>. QED  BY <1>5 DEF PodAt, SampleAt

LEMMA HeldPodsAt ==
    ASSUME TypeOK, NEW t, NEW g \in Got, Holds(Aggregate(g, t)), NEW S
    PROVE  PodsAt(t, S) = UsageOf(g.usage, S \intersect DOMAIN g.pods)
<1>. DEFINE f == [p \in S \intersect DOMAIN pods |-> PodAt(t, p)]
            e == [p \in S \intersect DOMAIN g.pods |-> PodUsage(g.usage, p)]
<1>1. PodsAt(t, S) = Total(f) /\ UsageOf(g.usage, S \intersect DOMAIN g.pods) = Total(e)
  BY DEF PodsAt, UsageOf
<1>2. /\ DOMAIN f = S \intersect DOMAIN pods /\ DOMAIN e = S \intersect DOMAIN g.pods
      /\ DOMAIN e \subseteq DOMAIN f
      /\ \A p \in DOMAIN e : e[p] \in Res /\ f[p] = e[p]
      /\ \A p \in DOMAIN f \ DOMAIN e : f[p] = NoUsage
  BY HeldPods, GotIs, PodUsageRes
<1>3. IsFiniteSet(DOMAIN f)
  <2>1. DOMAIN pods \subseteq Pods
    BY DEF TypeOK, TwinTypeOK
  <2>. QED  BY <1>2, <2>1, FiniteAssumption, FS_Subset
<1>. HIDE DEF f, e
<1>. QED  BY <1>1, <1>2, <1>3, TotalZeros

LEMMA UsageOfNone ==
    ASSUME NEW u
    PROVE  UsageOf(u, {}) = NoUsage
<1>. DEFINE f == [p \in {} |-> PodUsage(u, p)]
            c == [x \in DOMAIN f |-> f[x].cpu]
            j == [x \in DOMAIN f |-> f[x].joules]
<1>1. UsageOf(u, {}) = [cpu |-> SumFunction(c), joules |-> SumFunction(j)]
  BY DEF UsageOf, Total
<1>2. DOMAIN c = {} /\ DOMAIN j = {}
  OBVIOUS
<1>. HIDE DEF c, j
<1>3. SumFunction(c) = 0 /\ SumFunction(j) = 0
  BY <1>2, SumEmpty DEF SumFunction
<1>. QED  BY <1>1, <1>3 DEF NoUsage

\* A namespace is the sum of its pods,
LEMMA HeldNamespaces ==
    ASSUME TypeOK, NEW t, NEW g \in Got, Holds(Aggregate(g, t)),
           NEW n \in DOMAIN namespaces
    PROVE  SampleAt(namespaces[n], t) = PodsAt(t, {p \in Pods : NsOf[p] = n})
<1>1. PICK a : a = Aggregate(g, t)
  OBVIOUS
<1>. DEFINE L == DOMAIN g.pods
            own == {p \in L : NsOf[p] = n}
<1>2. /\ a.t = t /\ DOMAIN a.namespaces = NamespacesOf(L)
      /\ n \in NamespacesOf(L) => a.namespaces[n] = UsageOf(g.usage, own)
  BY <1>1 DEF Aggregate
<1>3. /\ t \in DOMAIN namespaces[n] <=> n \in NamespacesOf(L)
      /\ t \in DOMAIN namespaces[n] => namespaces[n][t] = a.namespaces[n]
  BY <1>1, <1>2 DEF Holds, HoldsPart
<1>4. {p \in Pods : NsOf[p] = n} \intersect L = own
  BY GotIs
<1>5. PodsAt(t, {p \in Pods : NsOf[p] = n}) = UsageOf(g.usage, own)
  BY <1>4, HeldPodsAt
<1>6. CASE n \in NamespacesOf(L)
  BY <1>2, <1>3, <1>5, <1>6 DEF SampleAt
<1>7. CASE n \notin NamespacesOf(L)
  <2>1. own = {}
    BY <1>7 DEF NamespacesOf
  <2>2. UsageOf(g.usage, own) = NoUsage
    BY <2>1, UsageOfNone
  <2>. QED  BY <1>3, <1>5, <1>7, <2>2 DEF SampleAt
<1>. QED  BY <1>6, <1>7

\* and so is a deployment,
LEMMA HeldDeployments ==
    ASSUME TypeOK, NEW t, NEW g \in Got, Holds(Aggregate(g, t)),
           NEW d \in DOMAIN deployments, t \in DOMAIN deployments[d]
    PROVE  deployments[d][t] = PodsAt(t, {p \in Pods : OwnerOf[p] = d})
<1>1. PICK a : a = Aggregate(g, t)
  OBVIOUS
<1>. DEFINE L == DOMAIN g.pods
            own == {p \in L : OwnerOf[p] = d}
<1>2. /\ a.t = t /\ DOMAIN a.deployments = g.deployments
      /\ d \in g.deployments => a.deployments[d] = UsageOf(g.usage, own)
  BY <1>1 DEF Aggregate
<1>3. d \in g.deployments /\ deployments[d][t] = a.deployments[d]
  BY <1>1, <1>2 DEF Holds, HoldsPart
<1>4. {p \in Pods : OwnerOf[p] = d} \intersect L = own
  BY GotIs
<1>5. PodsAt(t, {p \in Pods : OwnerOf[p] = d}) = UsageOf(g.usage, own)
  BY <1>4, HeldPodsAt
<1>. QED  BY <1>2, <1>3, <1>5

\* a pod is the sum of its containers,
LEMMA HeldContainers ==
    ASSUME TypeOK, NEW t, NEW g \in Got, Holds(Aggregate(g, t)), NEW p \in DOMAIN pods
    PROVE  PodAt(t, p).cpu = Total([c \in {x \in DOMAIN containers : PodOf[x] = p} |->
                                      SampleAt(containers[c], t)]).cpu
<1>1. PICK a : a = Aggregate(g, t)
  OBVIOUS
<1>. DEFINE L == DOMAIN g.pods
            u == g.usage
            known == {x \in DOMAIN containers : PodOf[x] = p}
            f == [c \in known |-> SampleAt(containers[c], t)]
            own == {x \in Containers : PodOf[x] = p}
            e == [c \in own |-> ContainerUsage(u)]
            z == [c \in {} |-> ContainerUsage(u)]
<1>2. /\ a.t = t /\ DOMAIN a.containers = {x \in Containers : PodOf[x] \in L}
      /\ \A c \in DOMAIN a.containers : a.containers[c] = ContainerUsage(u)
  BY <1>1 DEF Aggregate
<1>3. HoldsPart(containers, a.containers, t)
  BY <1>1, <1>2 DEF Holds
<1>4. DOMAIN containers \subseteq Containers /\ IsFiniteSet(known) /\ u \in Res
  <2>1. DOMAIN containers \subseteq Containers
    BY DEF TypeOK, TwinTypeOK, IsIndex
  <2>. QED  BY <2>1, GotIs, FiniteAssumption, FS_Subset
<1>5. CASE p \in L
  <2>1. own = known /\ \A c \in own : f[c] = ContainerUsage(u)
    <3>1. own \subseteq DOMAIN a.containers
      BY <1>2, <1>5
    <3>2. own = known
      BY <1>3, <1>4, <3>1 DEF HoldsPart
    <3>3. \A c \in own : SampleAt(containers[c], t) = ContainerUsage(u)
      BY <1>2, <1>3, <3>1 DEF HoldsPart, SampleAt
    <3>. QED  BY <3>2, <3>3
  <2>2. f = e
    BY <2>1
  <2>3. PodAt(t, p) = PodUsage(u, p)
    BY <1>5, HeldPods
  <2>4. PodUsage(u, p) = Addition([cpu |-> 0, joules |-> u.joules], Total(e))
    BY DEF PodUsage
  <2>5. Total(e) \in Res
    <3>1. \A c \in own : ContainerUsage(u) \in Res
      BY <1>4, PodUsageRes
    <3>2. DOMAIN e = own /\ \A c \in DOMAIN e : e[c] \in Res
      BY <3>1
    <3>3. IsFiniteSet(own)
      BY FiniteAssumption, FS_Subset
    <3>. HIDE DEF e, own
    <3>. QED  BY <3>2, <3>3, TotalRes
  <2>. HIDE DEF e, f
  <2>6. PodUsage(u, p).cpu = Total(e).cpu
    BY <2>4, <2>5 DEF Addition, Res
  <2>7. PodAt(t, p).cpu = Total(f).cpu
    BY <2>2, <2>3, <2>6
  <2>. QED  BY <2>7 DEF f
<1>6. CASE p \notin L
  <2>1. \A c \in known : f[c] = NoUsage
    <3>1. ASSUME NEW c \in known PROVE t \notin DOMAIN containers[c]
      BY <1>2, <1>3, <1>6 DEF HoldsPart
    <3>. QED  BY <3>1 DEF SampleAt
  <2>2. PodAt(t, p) = NoUsage
    BY <1>6, HeldPods
  <2>3. DOMAIN f = known /\ DOMAIN z = {}
    OBVIOUS
  <2>4. Total(z) = NoUsage
    <3>. DEFINE c == [x \in DOMAIN z |-> z[x].cpu]
                j == [x \in DOMAIN z |-> z[x].joules]
    <3>1. Total(z) = [cpu |-> SumFunction(c), joules |-> SumFunction(j)]
      BY DEF Total
    <3>2. DOMAIN c = {} /\ DOMAIN j = {}
      OBVIOUS
    <3>. HIDE DEF c, j
    <3>3. SumFunction(c) = 0 /\ SumFunction(j) = 0
      BY <3>2, SumEmpty DEF SumFunction
    <3>. QED  BY <3>1, <3>3 DEF NoUsage
  <2>. HIDE DEF f, z, known
  <2>5. Total(f) = Total(z)
    BY <1>4, <2>1, <2>3, TotalZeros
  <2>6. PodAt(t, p).cpu = Total(f).cpu
    BY <2>2, <2>4, <2>5
  <2>. QED  BY <2>6 DEF f, known
<1>. QED  BY <1>5, <1>6

\* and no pod counts for two nodes.
LEMMA HeldNodes ==
    ASSUME TypeOK, NEW t, NEW g \in Got, Holds(Aggregate(g, t))
    PROVE  Total([k \in DOMAIN knodes |-> SampleAt(knodes[k], t)]).joules
             <= PodsAt(t, Pods).joules
<1>1. PICK a : a = Aggregate(g, t)
  OBVIOUS
<1>. DEFINE L == DOMAIN g.pods
            u == g.usage
            K == DOMAIN knodes
            f == [k \in K |-> SampleAt(knodes[k], t)]
            w == [p \in L |-> PodUsage(u, p).joules]
            Of(k) == {p \in L : g.pods[p] = k}
            v == [k \in K |-> f[k].joules]
            H == {k \in K : t \in DOMAIN knodes[k]}
<1>2. /\ a.t = t /\ DOMAIN a.nodes = g.nodes
      /\ \A k \in g.nodes : a.nodes[k] = UsageOf(u, Of(k))
  BY <1>1 DEF Aggregate
<1>3. \A k \in K : f[k] = IF k \in H THEN UsageOf(u, Of(k)) ELSE NoUsage
  BY <1>1, <1>2 DEF Holds, HoldsPart, SampleAt
<1>4. IsFiniteSet(K) /\ IsFiniteSet(L) /\ L \subseteq Pods /\ u \in Res /\ H \in SUBSET K
  <2>1. K \subseteq Nodes
    BY DEF TypeOK, TwinTypeOK, IsIndex
  <2>. QED  BY <2>1, GotIs, FiniteAssumption, FS_Subset
<1>5. \A p \in L : w[p] \in Nat
  BY <1>4, PodUsageRes DEF Res
<1>6. ASSUME NEW S \in SUBSET L
      PROVE  UsageOf(u, S).joules = SumFunctionOnSet(w, S)
  <2>. DEFINE e == [p \in S |-> PodUsage(u, p)]
              j == [p \in DOMAIN e |-> e[p].joules]
  <2>1. UsageOf(u, S).joules = SumFunction(j)
    BY DEF UsageOf, Total
  <2>2. DOMAIN j = S /\ \A p \in S : j[p] = w[p]
    OBVIOUS
  <2>3. IsFiniteSet(S)
    BY <1>4, FS_Subset
  <2>. HIDE DEF j, w
  <2>. QED  BY <2>1, <2>2, <2>3, SumCongruent DEF SumFunction
<1>7. /\ \A k \in H : v[k] = SumFunctionOnSet(w, Of(k))
      /\ \A k \in K \ H : v[k] = 0
  <2>1. \A k \in K : Of(k) \in SUBSET L
    OBVIOUS
  <2>2. \A k \in K : v[k] = f[k].joules
    OBVIOUS
  <2>. HIDE DEF w, Of, f, v
  <2>. QED  BY <1>3, <1>4, <1>6, <2>1, <2>2 DEF NoUsage
<1>8. SumFunctionOnSet(v, H) <= SumFunctionOnSet(w, L)
  <2>. DEFINE h == g.pods
  <2>1. \A k \in H : v[k] = SumFunctionOnSet(w, {p \in L : h[p] = k})
    BY <1>7
  <2>2. IsFiniteSet(H)
    BY <1>4, FS_Subset
  <2>3. IsFiniteSet(L) /\ \A p \in L : w[p] \in Nat
    BY <1>4, <1>5
  <2>. HIDE DEF w, v, H, h, L
  <2>. QED  BY <2>1, <2>2, <2>3, SumParts
<1>9. SumFunctionOnSet(v, K) = SumFunctionOnSet(v, H)
  <2>1. \A k \in H : v[k] \in Int
    <3>1. \A k \in H : Of(k) \in SUBSET L
      OBVIOUS
    <3>2. ASSUME NEW S \in SUBSET L PROVE SumFunctionOnSet(w, S) \in Int
      <4>1. IsFiniteSet(S) /\ \A p \in S : w[p] \in Int
        BY <1>4, <1>5, FS_Subset
      <4>. HIDE DEF w
      <4>. QED  BY <4>1, SumOut
    <3>. HIDE DEF v, w, H, Of
    <3>. QED  BY <1>7, <3>1, <3>2
  <2>. HIDE DEF v, H, K
  <2>. QED  BY <1>4, <1>7, <2>1, SumZeros
<1>10. Total(f).joules = SumFunctionOnSet(v, K)
  <2>1. DOMAIN f = K /\ v = [k \in DOMAIN f |-> f[k].joules] /\ DOMAIN v = K
    OBVIOUS
  <2>. HIDE DEF f, v
  <2>. QED  BY <2>1 DEF Total, SumFunction
<1>11. PodsAt(t, Pods).joules = SumFunctionOnSet(w, L)
  <2>1. Pods \intersect L = L
    BY <1>4
  <2>2. PodsAt(t, Pods) = UsageOf(u, L)
    BY <2>1, HeldPodsAt
  <2>. HIDE DEF w
  <2>. QED  BY <1>6, <2>2
<1>12. Total(f).joules <= PodsAt(t, Pods).joules
  <2>. HIDE DEF f, v, w, H, K, L
  <2>. QED  BY <1>8, <1>9, <1>10, <1>11
<1>. QED  BY <1>12

LEMMA WholeTotals ==
    ASSUME TypeOK, WholeInv
    PROVE  TotalsAddUp
<1>. SUFFICES ASSUME NEW t \in 1..clock
              PROVE  /\ \A n \in DOMAIN namespaces :
                          SampleAt(namespaces[n], t) = PodsAt(t, {p \in Pods : NsOf[p] = n})
                     /\ \A d \in DOMAIN deployments : t \in DOMAIN deployments[d] =>
                          deployments[d][t] = PodsAt(t, {p \in Pods : OwnerOf[p] = d})
                     /\ \A p \in DOMAIN pods :
                          PodAt(t, p).cpu
                            = Total([c \in {x \in DOMAIN containers : PodOf[x] = p} |->
                                       SampleAt(containers[c], t)]).cpu
                     /\ Total([k \in DOMAIN knodes |-> SampleAt(knodes[k], t)]).joules
                          <= PodsAt(t, Pods).joules
  BY DEF TotalsAddUp
<1>1. t \in 1..MaxClock
  <2>1. clock \in Nat /\ MaxClock \in Nat /\ clock <= MaxClock
    BY BoundsAssumption DEF TypeOK, FeederTypeOK
  <2>. QED  BY <2>1
<1>2. PICK g \in Got : Holds(Aggregate(g, t))
  BY <1>1 DEF WholeInv
<1>3. \A n \in DOMAIN namespaces :
        SampleAt(namespaces[n], t) = PodsAt(t, {p \in Pods : NsOf[p] = n})
  BY <1>2, HeldNamespaces
<1>4. \A d \in DOMAIN deployments : t \in DOMAIN deployments[d] =>
        deployments[d][t] = PodsAt(t, {p \in Pods : OwnerOf[p] = d})
  BY <1>2, HeldDeployments
<1>5. \A p \in DOMAIN pods :
        PodAt(t, p).cpu = Total([c \in {x \in DOMAIN containers : PodOf[x] = p} |->
                                   SampleAt(containers[c], t)]).cpu
  BY <1>2, HeldContainers
<1>6. Total([k \in DOMAIN knodes |-> SampleAt(knodes[k], t)]).joules
        <= PodsAt(t, Pods).joules
  BY <1>2, HeldNodes
<1>. QED  BY <1>3, <1>4, <1>5, <1>6

\* Whatever is abandoned and delivered late, what the twin has of a second is one whole
\* snapshot or nothing, so that the levels of the topology agree: a pod is the sum of its
\* containers, a deployment and a namespace are the sum of their pods, and nodes have no
\* more than the pods (feeder main.rs:122-206, twin.gcl:326-365).
THEOREM TotalsAgree == Spec => []TotalsAddUp
<1>1. Init => TypeOK /\ StampInv /\ WholeInv
  BY InitType, InitStamps, InitWhole
<1>2. TypeOK /\ StampInv /\ WholeInv /\ [Next]_vars => (TypeOK /\ StampInv /\ WholeInv)'
  BY NextType, NextStamps, NextWhole
<1>3. TypeOK /\ WholeInv => TotalsAddUp
  BY WholeTotals
<1>. QED  BY <1>1, <1>2, <1>3, PTL DEF Spec
----------------------------------------------------------------------------
(***************************************************************************)
(* Places.  The twin keeps the node it first heard of (EnsurePod).         *)
(***************************************************************************)
\* Pod p only ever runs on home[p], also when it is made anew under its name.
OneNode(home) == \A p \in DOMAIN placed : placed[p] \in {home[p], None}

\* No snapshot is made while one of its pods is Pending.
ListedOnceScheduled == \A s \in Out : \A p \in DOMAIN s.pods : s.pods[p].knode # None

PlaceInv(home) ==
    /\ \A p \in DOMAIN pods : pods[p].knode = home[p]
    /\ \A p \in DOMAIN got.pods : got.pods[p] \in {home[p], None}
    /\ \A s \in Out : \A p \in DOMAIN s.pods : s.pods[p].knode \in {home[p], None}

LEMMA InitPlaces ==
    ASSUME NEW home, Init
    PROVE  PlaceInv(home)
<1>1. got.pods = Empty /\ pods = Empty /\ Out = {}
  BY DEF Init, TwinInit, Nothing, Out
<1>2. DOMAIN Empty = {}
  BY DEF Empty
<1>. QED  BY <1>1, <1>2 DEF PlaceInv

LEMMA NextPlaces ==
    ASSUME TypeOK, [Next]_vars, NEW home, OneNode(home), ListedOnceScheduled, PlaceInv(home)
    PROVE  PlaceInv(home)'
<1>1. /\ \A p \in DOMAIN pods : pods[p].knode = home[p]
      /\ \A p \in DOMAIN got.pods : got.pods[p] \in {home[p], None}
      /\ \A s \in Out : \A p \in DOMAIN s.pods : s.pods[p].knode = home[p]
  BY DEF PlaceInv, ListedOnceScheduled
<1>2. \A p \in DOMAIN pods' : pods'[p].knode = home[p]
  <2>1. ASSUME NEW s \in Out, Ingest(s), NEW p \in DOMAIN pods' PROVE pods'[p].knode = home[p]
    BY <1>1, <2>1, IngestPod
  <2>2. CASE UNCHANGED pods
    BY <1>1, <2>2
  <2>3. CASE Retention
    BY <1>1, <2>3 DEF Retention, RunRetention, PrunedPods
  <2>4. (\E s \in Out : Ingest(s)) \/ UNCHANGED pods \/ Retention
    BY TwinSteps DEF twinVars, Stamp, RoutesPushed, IngestRoutes, ModelPushed, IngestRouteModel
  <2>. QED  BY <2>1, <2>2, <2>3, <2>4
<1>3. \A p \in DOMAIN got'.pods : got'.pods[p] \in {home[p], None}
  <2>1. CASE UNCHANGED got
    BY <1>1, <2>1
  <2>2. CASE ListRead
    <3>1. got' = Listing(Lists[step]) /\ step \in 1..4
      BY <2>2, StepsAre DEF ListRead
    <3>2. got'.pods = placed \/ got'.pods = got.pods
      BY <3>1, ListingType DEF TypeOK, FeederTypeOK
    <3>. QED  BY <1>1, <3>2 DEF OneNode
  <2>3. CASE got'.pods = Empty
    BY <2>3 DEF Empty
  <2>4. UNCHANGED got \/ ListRead \/ got'.pods = Empty
    <3>1. Wake => got'.pods = Empty
      BY WakeIs DEF TypeOK
    <3>2. ListFails \/ Stamp \/ Delivered \/ PostFails => got'.pods = Empty
      BY DEF ListFails, Stamp, Delivered, PostFails, Sleep, Nothing
    <3>. QED
      BY <3>1, <3>2, ClusterChanges
         DEF Next, vars, feederVars, TwinServesLate, RoutesPushed, ModelPushed, Retention, Tick
  <2>. QED  BY <2>1, <2>2, <2>3, <2>4
<1>4. ASSUME NEW s \in Out', NEW p \in DOMAIN s.pods PROVE s.pods[p].knode \in {home[p], None}
  <2>1. CASE s \in Out
    BY <1>1, <1>4, <2>1
  <2>2. CASE Stamp /\ s \notin Out
    <3>1. s = Aggregate(got, clock)
      BY <2>2 DEF Stamp, Out
    <3>2. DOMAIN s.pods = DOMAIN got.pods /\ \A q \in DOMAIN got.pods : s.pods[q].knode = got.pods[q]
      BY <3>1 DEF Aggregate
    <3>. QED  BY <1>1, <1>4, <3>2
  <2>3. Out' \subseteq Out \/ Stamp
    BY TwinSteps DEF RoutesPushed, ModelPushed, Retention, feederVars, Out
  <2>. QED  BY <2>1, <2>2, <2>3
<1>. QED  BY <1>2, <1>3, <1>4 DEF PlaceInv

\* "The full cluster picture" (README.md:27): the graph draws every pod on the node its
\* snapshot has it on as long as no pod changes its node and none is listed while Pending.
\* Nothing else that happens between two lists, no late snapshot and no retention moves
\* a pod to a wrong node.
THEOREM PodsKeepTheirNode ==
    ASSUME NEW home
    PROVE  Spec /\ []OneNode(home) /\ []ListedOnceScheduled => PodsDrawnWhereListed
<1>1. Init => TypeOK /\ PlaceInv(home)
  BY InitType, InitPlaces
<1>2. TypeOK /\ PlaceInv(home) /\ OneNode(home) /\ ListedOnceScheduled /\ [Next]_vars
        => (TypeOK /\ PlaceInv(home))'
  BY NextType, NextPlaces
<1>3. TypeOK /\ PlaceInv(home) /\ PlaceInv(home)' /\ ListedOnceScheduled /\ [Next]_vars
        => [Delivered => \A p \in DOMAIN feed.pods : pods'[p].knode = feed.pods[p].knode]_vars
  <2>. SUFFICES ASSUME PlaceInv(home), PlaceInv(home)', ListedOnceScheduled, Delivered,
                       NEW p \in DOMAIN feed.pods
                PROVE  pods'[p].knode = feed.pods[p].knode
    OBVIOUS
  <2>1. feed \in Out /\ Ingest(feed)
    BY DEF Delivered, Out
  <2>2. p \in DOMAIN pods'
    BY <2>1, IngestIs
  <2>3. feed.pods[p].knode \in {home[p], None} /\ feed.pods[p].knode # None
    BY <2>1 DEF PlaceInv, ListedOnceScheduled
  <2>. QED  BY <2>2, <2>3 DEF PlaceInv
<1>. QED  BY <1>1, <1>2, <1>3, PTL DEF Spec, PodsDrawnWhereListed
=============================================================================
