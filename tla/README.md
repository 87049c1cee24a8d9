# wattopus in TLA+

Formal models of wattopus, the energy attribution system of this repository
(paths below are relative to `src/`). The models are written from the code, not
from its documentation; where the two differ, a run shows it.

## The system

Small Rust processes around one GreyCat process, the digital twin. Every process
is single-threaded except the attributor and the fitter, nothing but the twin
persists anything, and all of them talk HTTP with timeouts of 10 s (fitter: 30 s),
apart from three clients that have none: the apiserver's, the span exporter's, and
the demo servers' calls to each other.

| component | state it keeps | operations |
|---|---|---|
| twin (`greycat/server/twin.gcl`) | deployments with replica count, staged count, samples, predictions; pods, containers, nodes, services; routes with rates, services with watts and power models | `ingest`, `simulate_scale`, `commit_scale`, `rollback_scale`, `staged`, `ingest_routes`, `route_history`, `ingest_route_model`, `route_models`, `simulate_load`, `deployments`, `latest`, `ingest_prediction`, `last_prediction`, `graph_nodes`, `graph_edges`, `export_history`, `run_retention` |
| operator (`crates/operator`) | the request being handled | `POST /simulate`: simulate in the twin, check the predicted cpu per pod, PATCH the deployment, commit or roll back |
| feeder (`crates/feeder`) | the time of the last tick | every 30 s: list the cluster, query Prometheus, aggregate, post a snapshot |
| attributor (`crates/attributor`) | span buffer, metrics, the tick's locals | OTLP thread; every 15 s: bill the pods' watts to routes, publish, push rates to the twin; scrape thread |
| fitter (`crates/fitter`) | published models | every 5 min: regress service watts on route rates, push accepted models to the twin |
| predictor (`crates/predictor`) | a window of samples per deployment | every 30 s: read the newest sample of each deployment, classify, push a prediction |
| k8s client (`crates/k8s`) | none | `get`, `list`, `patch_scale` |
| demo app (`crates/app`) | queues, the orders of each replica of the store | a load generator and servers of three roles that call each other; the store has two replicas |
| span exporter (`crates/otlp`) | the spans of a process that ended and are not sent | root, child, propagation, export by a thread |
| mockpower | the readings of its last tick | each second: watts from cpu usage |
| manifests (`deploy/`) | none | Kubernetes, Prometheus, Tempo, Grafana, collector |

How they interact: the feeder, the attributor, the fitter and the predictor only
*write* series of the twin and read what others wrote; the operator writes the
staged and the committed replica count of a deployment, which the feeder
overwrites with what the cluster reports. Nothing orders these writers: the twin
executes one call at a time, and the timestamps a snapshot carries are those of its
sender. Spans reach the attributor through a collector that repeats a delivery it
got no acknowledgement for.

### What is hard, and what makes each component correct

* **Scaling loop** (twin, operator, feeder, cluster): a request spans three calls to
  two services, each of which may fail, be lost, or take effect without a reply;
  the feeder writes the same deployment at any point; the operator may die between
  any two calls. Correct means: production only takes what was simulated and
  checked, the twin never shows a count the cluster did not have, whatever is
  staged gets settled, answers tell the truth, requests end, the twin converges.
* **Attribution**: spans arrive while a tick runs, reads fail in the middle of one,
  traces straddle ticks, models and policies redistribute watts. Correct means that
  joules are conserved, that a scrape shows one tick, and that every span received
  is billed once.
* **Route models** (attributor, twin, fitter): rates, watts and models are written
  at different paces and a rejected fit leaves the old model. Correct means aligned
  samples, and models that are used only while the fitter stands by them.
* **Prediction**: polling loses samples, restarts lose windows. Correct means at
  most one prediction per sample time, about a sample that was written, and a
  verdict that follows from the window.
* **Topology and graph** (feeder, twin, cluster): the feeder reads four lists one after
  the other, stamps the result after them, and its posts may run late; upserts never
  delete, and freshness is relative to the namespace. Correct means no dangling edge,
  no dead pod shown for ever, sums that agree at every level, no joule twice.
* **Demo app and spans**: requests that were given up are still served, calls have no
  timeout, the exporter is one thread behind an unbounded queue, and replicas of the store
  number their orders each by themselves. Correct means that traces are trees of the calls,
  a replica does not mix up its orders and nobody waits for ever.
* **Least squares**: dependent rates, a ridge that hides them, a single degree of freedom.
  Correct means the best coefficients or no model.

`PROJECT.json` lists the hazards one by one at the lines where they bite, with the
properties that guard them, or why none does yet.

## Modules

| module | models | lines of code it stands for |
|---|---|---|
| `TwinScale` | the deployments of the twin and the four calls that touch them, retention | `twin.gcl` 266-365, 581-644, 976-1011 |
| `Operator` | `handle_simulate`, one action per reply, error or timeout | `operator/src/main.rs` |
| `ScaleLoop` | both of them composed with the feeder, the apiserver, whoever else scales the cluster, and abandoned calls that run late | plus `feeder/src/main.rs` 105-289, `k8s/src/lib.rs` 55-71 |
| `ScaleGate` | abstract: what the operator promises its client | `README.md` 12 |
| `EnergyLedger` | abstract: what the attributor promises those who scrape it | `README.md` 26 |
| `ScaleLoopProofs`, `AttributorProofs`, `RouteLoopProofs`, `PredictionLoopProofs`, `LeastSquaresProofs`, `TopologyLoopProofs`, `TracedAppProofs` | theorems about the module each is named for | |
| `PredictionRegister` | abstract: what the predictor promises those who read its predictions | `README.md` 27 |
| `SetLemmas` | what these cite of sets, maxima and sums | |
| `Attribution` | spans, pods and models to watts of routes: pure operators | `attributor/src/lib.rs` |
| `Attributor` | the attributor's three threads, its tick and its failing reads | `attributor/src/main.rs` |
| `TwinRoutes` | series of routes and services, power models, `route_history`, `simulate_load`, their retention | `twin.gcl` 366-563, 929-1005 |
| `Fitter` | a round of the fitter, one action per step between two calls | `fitter/src/main.rs`, `fitter/src/lib.rs` 13-17 |
| `RouteLoop` | both of them composed with the attributor's pushes, retention and abandoned calls that run late | plus `attributor/src/main.rs` 90-97, 369-391 |
| `LeastSquares` | `fit` and `solve`, a column of the elimination and a row of the back substitution a step, in exact arithmetic | `fitter/src/lib.rs` |
| `PredictionLoop` | the predictor, and the sample and prediction series of the twin | `predictor/src/main.rs`, `twin.gcl` 691-740 |
| `TwinGraph` | the topology of the twin: all of `ingest`, retention, freshness, the graph | `twin.gcl` 230-365, 762-1011, `ingest/src/lib.rs` 12-35 |
| `TopologyLoop` | it composed with the feeder, the cluster it lists, and posts that run late | plus `feeder/src/main.rs`, `k8s/src/lib.rs` 51-54 |
| `TracedApp` | the demo application with its tracer | `app/src/main.rs`, `otlp/src/lib.rs` |
| `MC...` | values of the constants for TLC, one per checked module | |

### How state and actions correspond to the code

`TwinScale`. `replicas`, `staged` and `sample` are the fields of a `Deployment`
node. A GreyCat call is one transaction, hence one action. `sample` is the newest
sample of the series: nothing in this part reads another one. The check
`cpu_per_pod_predicted > cpu_limit` is done without its division, so the rounding of
floats is not modelled. The `staged` call only reads.

`Operator`. `pc` is the point `handle_simulate` waits at; `call` is the request on
its way to the twin and `reply` what comes back. Each `let _ = twin(...)` of the code
is a state in which a reply and an error lead to the same answer.

`ScaleLoop`. `TwinServes` executes the operator's call. `GiveUp` is its timeout; the
call it abandons is lost or, under the fault `"late"`, joins `late` and runs at any
later time: ureq closes its socket, which takes nothing back from a request the
twin has accepted. `late` is a set, so two abandoned calls that are equal run
once. The PATCH of a broken connection took effect before the error or never
(`PatchUnanswered`, `PatchRejected`). `FeederSnapshot` is the listing: from there to
`FeederDelivers` everything else may move. `accepted`, `touched` and `dirty` are
history: no guard reads them.

`Attribution`. A service and a pod name are sequences of the parts between dashes,
which is what the prefix test of `lib.rs:193` tells apart. Power is counted in a unit
that every division divides exactly (`ExactAssumption`; 60 to a pod in the checked
instances): the float rounding of the code is abstracted. Among several root spans of a
trace the code takes the last; the checked batches have one. A label may be a route, a
bucket or idle, and whatever falls on the same name is added up, as `entry` does.

A *scenario* of `Attributor` is a record of bounds and inputs (spans, readings, models,
faults, ticks); `Init` picks one, so that one run covers a single tick over every
input and two ticks under every fault, without their product.

`Attributor`. One action per step between two points where other threads or
services can act: take, three reads, publish (everything under the metrics lock),
push. A read that fails is an empty map, as in the code. `energy`, `power` and
`podPower` are what a scrape shows; of the other gauges, each is a copy of the
same attribution.

`LeastSquares`. `m` is the augmented matrix, `col` the column of the elimination, then the
row of the back substitution. All numbers stay integers over one positive denominator,
`scale`: where the code divides a row by the pivot, the rows below are multiplied by it, and
an entry left is that of the code times `scale`. So that the integers stay small, the rows
are divided by the denominator they had before (`Divisor`), if that leaves no remainder,
and a coefficient by its pivot (`Substitute`) under the same condition. Of an elimination
the first never leaves one, but nothing depends on that. The sign of a pivot is in the
numerators. `solve`'s test for zero is exact, and its ratio of pivots is a parameter
(`Check`). Watts and rates are whole numbers of `1/One`, hence the intercept's column is
`One` and a ridge is a whole number of `1/One^2`: the fitter's 1e-9 (`main.rs` 133) is a
ridge of 10 at `One = 10^5`, and its ratio 1e-8 (`lib.rs` 125) is `Conditioning = 10^8`.
`CollinearRefused` says of which dependences `d` the ridge is too small to make up for
(`Negligible`): at these values those with `2^k * max |d[i]|` below ten times the number of
samples, as in `rejects_collinear_design` (`tests/solver.rs` 33), where 8 is below 400; with
the 60 samples a fit needs at least, all 1:1 dependences of up to nine routes.

`TwinRoutes`. A `nodeTime` is a function from the seconds it has samples at;
`ResolveAt` is GreyCat's `resolveAt`, the value at `t` or else the closest before,
which is modelled from how `route_history` uses it. Of a service's models only the
newest has a reader, so one is kept, together with the samples it was fitted
from: that is what its quality depends on, while its coefficients are floats.
`simulate_load` is the rates it evaluates the model at. `watts_billed` is left out:
nothing reads it back.

`Fitter`. `todo` are the designs not fitted yet; `post` is the model on its way;
`fresh` becomes `published` at the end of the round, as in `main.rs`. What `fit` says of
numbers is the business of `LeastSquares`: here, with at least two samples more than
routes, either verdict is possible (`Accept`, `Dismiss`), and with fewer only the second.

`RouteLoop`. `Measure` is the tick of the attributor that makes a push of the
rates and watts it measured, `PushDone` and `PushFails` are its outcomes. A tick
takes longer than a second and the clock only goes on, hence one push per second.
`pushes` is history.

`PredictionLoop`. One deployment: the predictor keeps a window for each and nothing
relates two. `cpu` stands for the joules as well, which are predicted by the same
function. A prediction is a fraction `sum / of`, and the test against sigma and the
mean is done on integers without the square root. `WINDOW=0`, which the predictor
would read from its environment, is excluded. `feed` is the sample the feeder is
posting; `measured` and `failures` are history.

`TwinGraph`. One variable per index. `Ingest` takes the parts of a snapshot in the
code's order, which matters where one part makes what a later one finds (namespaces,
pods before their containers). Two of the seven metrics stand for the others: they are
summed alike, and `joules` is the one that pods have and containers have not. An id of
the graph is a pair of kind and name. Of a power model only which routes it prices is
kept. What of a service's models retention removes is left open, as they carry their
own times.

`TopologyLoop`. Between the feeder's `Wake` and its `Stamp` there is one action per
list, so the cluster may change between any two. `placed`, `exist` and `selects` are
the cluster: a pod is made without a node and with an owner that exists. A query that
fails is an empty map, hence reads zero; a list that fails ends the loop. The interval
of energy is taken at `Wake`, as in the code, not at the stamp. `missing`, `endedAt`
and `changes` are history (`changes` is also the bound).

`TracedApp`. One action per accept, call, answer and end of a span. A request goes by
the path of calls that made it, which a span takes as its id. A call fails because it
does not reach its server or because the server dies with it (`CallReset`); either
reads as null. A timed out request stays in the gateway's queue. `Servers` are processes and
`Role` is what each was started as: every request and call opens a connection of its own, so
it goes to any server of the role (`Callees`), and each store has its own `items`. `saver`,
the store that saved for a request, is history: no answer names it.

## Runs

| run | question | result |
|---|---|---|
| `scale_safety` | with lost calls, unanswered PATCHes and restarts, is every PATCH one that was staged and checked, does the twin only show counts the cluster held, and does a request whose last call was replied to leave nothing staged? is each request answered if the twin never does, and does the twin converge? | `TypeOK`, `TwinNeverInvents`, `CountsHaveSource`, `PatchIsStaged`, `RepliesSettle`, `RequestsAnswered`, `TwinConverges` hold |
| `scale_late` | do answers and the promise `ScaleGate` survive every fault, late calls included? | `AnswerMatchesCluster`, `ImplementsScaleGate` hold |
| `scale_orphan` | is everything staged settled by the next request when a call may time out? | `NoOrphanStaging` violated: a `simulate_scale` that timed out stays staged |
| `attribution` | are joules conserved for all modes, policies, models, labels and failing reads, and over ticks with redeliveries and restarts? does a scrape show one tick, are spans billed once, is a tick one posting of the ledger? | `TypeOK`, `EnergyConserved`, `ScrapeConsistent`, `SpansBilledOnce`, `ImplementsLedger` hold |
| `attribution_children` | "spans inherit their trace root's route" | `ChildrenFollowRoot` violated when the root comes in a later tick |
| `route_loop` | when calls fail or run late, the fitter restarts and retention runs: is a sample of a fit one tick of the attributor, does `simulate_load` use the newest rates, does the twin hold what the fitter shows? | `TypeOK`, `SamplesAligned`, `HoldsCurrentRates`, `PublishedInTwin` hold while no route stops |
| `route_stale` | `SamplesAligned` when a route may stop | violated: its last rate is repeated next to new watts |
| `prediction` | under all faults, is the window a stretch of history, each prediction grounded in it, and no verdict revised but by a restart? are the predictions a register of what was measured? does a sample that stays the newest get its prediction? | `TypeOK`, `WindowIsHistory`, `PredictionsGrounded`, `VerdictsStand`, `ImplementsRegister`, `NewestPredicted` hold |
| `topology_loop` | while the cluster changes between the lists and posts fail or run late: do edges end at nodes, do pods that ended leave the graph, do all levels add up, is energy counted once? | `TypeOK`, `EdgesResolve`, `GhostsFade`, `TotalsAddUp`, `EnergyCountedOnce`, `RetentionEndsGhosts` hold |
| `topology_placement` | is a pod drawn on the node the snapshot has it on? | `PodsDrawnWhereListed` violated: a pod first listed while Pending never gets its node |
| `traced_app` | with two replicas of the store, requests given up, calls that fail and a server that dies: do traces have the shape of the calls, does a replica keep the orders it saved, does every wait end? | `TypeOK`, `TracesWhole`, `OrdersKept`, `EveryCallEnds` hold |
| `least_squares` | are the coefficients of least cost, are dependent rates refused, with a small ridge as without one, is r2 a fraction? | `TypeOK`, `FitIsBest`, `CollinearRefused`, `R2InUnit` hold |

Each violated run is a finding of `PROJECT.json`, which quotes the line that says
otherwise. More observations follow from the same models and have no run of their own:

* `commit_scale` copies whatever is staged at that moment (`twin.gcl` 632). With `"late"`
  added to the faults of `scale_safety`, TLC finds a `simulate_scale` abandoned by an earlier
  request that runs between the PATCH and the commit of the next one: `TwinNeverInvents`
  fails, the twin shows a count the cluster never had until the next snapshot. Abandoned
  commits alone do the same; rollbacks and snapshots do no harm (`HarmlessWhenLate`).
* A pod belongs to every traced service that is a dash prefix of its name
  (`attributor/src/lib.rs` 193). With services `app` and `app-store`, both claim
  `app-store-x`, its watts are charged twice and `EnergyConserved` fails; the names of
  the checked instance, and of the deployed demo, are not nested.
* A namespace that lost all its pods gets no more samples, so its ghosts stay in the
  graph until retention (`RetentionEndsGhosts`), seven days. The energy of a loop whose
  list or post failed is lost, as the interval was restarted already.
* `solve` refuses pivots below 1e-12 or 1e-8 of the largest, whatever the unit: rates
  that are independent and small are refused like dependent ones. The converse holds as
  long as `FIT_RIDGE` is small against 1e-8 times the samples (`Negligible`): with a larger
  one dependent rates do get a model, which divides the watts between them by the penalty.
* The store of the demo is deployed with two replicas (`deploy/apps/rust-demo.yaml` 74), and
  each numbers its own orders (`app/src/main.rs` 207). Without any fault, two checkouts that
  different replicas serve are confirmed with the same order id, and a catalog or a report
  shows the orders of one replica. Nothing in the repository says otherwise, so
  `OrdersKept` is stated for each replica; one replica confirms an id once.
* The result of a rollback is dropped, so the "twin restored" of the operator's answers
  (`operator/src/main.rs` 73, 84) may be false when that call fails.
* An error of `patch_scale` may be a lost reply, so `"applied": false` may be about a
  cluster that did change.
* A rejected fit leaves the earlier model in the twin, and the attributor goes on pricing
  with it; `simulate_load` holds a route that stopped at its last rate.
* `run_retention` prunes samples but not predictions, although `project.gcl` 9 speaks of
  the ever-growing series.

### Bounds, and why they are enough

* Scaling: one deployment, as no call relates two; others' counts 0 and 1 (and no
  deployment), requests 1 and 2 (0 where validity is the question), loads 0 and 2
  against a limit of 1, so that a request of 2 fits and one of 1 does not, and
  the requested count differs from any count others set. `MaxLate = 1`: one late call
  is enough to break `TwinNeverInvents` and the promise holds with it; `MaxClock = 1` with
  `KeepFor = 0` makes retention empty a series and a snapshot older than the newest
  sample possible. No symmetry is used, so
  the liveness properties are checked on the same graph as the invariants.
* Attribution: two services that share two traces, a pod nobody traces, readings
  that lack a pod or show one at zero, models that explain both services, one
  through a negative coefficient, and none. One tick suffices for conservation in
  all configurations, two for what an earlier tick, a redelivery or a restart can
  leave behind. A scenario ends with its `ticks` and `copies`, hence
  `CHECK_DEADLOCK FALSE` there.
* Routes: a fit needs two samples more than routes, so a clock that ends at 4 accepts a
  fit of one route and leaves a tick after it; designs of two routes are checked while
  they wait in `todo`. One route may change its rate, which tells the newest from an
  older one, the other may start at any tick, which is what `design` fills with zeros
  (`Traffic`). `KeepFor = 2` lets retention remove samples that a fit still uses. One
  service: services share rows only through the set of routes of a design.
* Predictions: with the usages 19 and 20 a window `19, 19, 20` is a step, `20, 20, 19` lies
  exactly on the limit of a twentieth of the mean, and `19, 20, 19` within it; a window
  of 3 is the smallest with a verdict, and a clock that ends at 4 makes four samples,
  which overflow it. A late sample that becomes the newest behind `lastSeen` after retention,
  which the code skips, lies outside these bounds: the theorems about windows and verdicts
  cover it, `NewestPredicted` is not checked there.
* Topology: one namespace, as nothing relates two; a pod of two containers that a
  deployment owns and one that nothing owns. `FreshFor`, `KeepFor` and `Slow` are one
  interval of the feeder instead of 90 seconds, 7 days and a few seconds: the limits are
  reached one interval after a sample and passed after two, and a late snapshot can
  come after retention within the four intervals of `MaxClock`. Loops begin in the first
  three of them; in the fourth, posts, late calls and retention go on, which is what it
  takes for a ghost to outlive its samples. Two changes of the
  cluster suffice for a pod to be made and placed, or for a pod and its deployment to
  go between two lists. Queries succeed in `topology_loop`, as its sums hold of any
  readings, and may fail in `topology_placement`.
* Demo app: one gateway, one compute server and two stores, as deployed. Two requests, so
  that one that was given up meets a later one, and two confirmed orders are of one store or of
  both; one crash, of any server at any point. The system stops after
  `MaxRequests`, hence `CHECK_DEADLOCK FALSE`.
* Least squares: all designs of one route and 2 to 4 samples, and of two routes with 4
  samples, which leave one degree of freedom or more, fewer samples, and ragged ones; two
  wattages and three rates (four for one route), in halves (`One = 2`). `Ridges` are none,
  one that is negligible, so that dependent designs are regular and only the test of the
  pivots refuses them, and one that is not, with which they are fitted. `Conditioning` is 3
  instead of 1e8: on integers this small a ratio of 1e8 never occurs, with 3 both verdicts
  do, and TLC's integers suffice. A computation ends, hence `CHECK_DEADLOCK FALSE`.

### Fairness

`RequestsAnswered` needs: the handler runs on (`TakeReply`), a call of the twin ends
by its timeout (`GiveUp`: `timeout(Duration::from_secs(10))`), and the apiserver
answers a PATCH one way or another, which is an assumption: the client has no timeout.
Nothing is assumed of the twin. `TwinConverges` needs the feeder's loop
(weak fairness of `FeederSnapshot`) and that its posts do not all fail (strong
fairness of `FeederDelivers`).

`NewestPredicted` needs the predictor's loop (`Poll`), that a read of the newest sample
succeeds if it is tried again and again (strong fairness of `LatestRead`; the code
retries at each poll), and that a post ends, by a reply or its timeout. A prediction
whose post failed is not posted again (the sample counts as seen), which the property
exempts.

`EveryCallEnds` needs each server's thread to run (weak fairness of `Serve`) and a broken
connection to be noticed by the load (`LoadReset`; a server notices within `Serve`). Nothing is
assumed of the load's timeout, of the exporter or of the collector.

## Proofs

Each component has a module of proofs beside it. The theorems hold for every value of the
constants the modules' named assumptions allow: all names, all numbers of them, all bounds,
clocks and windows, and every choice of faults.

| module | theorem | states | assuming |
|---|---|---|---|
| `ScaleLoopProofs` | `TypeCorrect` | `TypeOK` | |
| | `AnswersAreTrue` | `AnswerMatchesCluster` | |
| | `CountsAreSourced` | `CountsHaveSource` | `"late" \notin Faults` |
| | `TwinFollows` | `TwinNeverInvents` | `"late" \notin Faults` |
| | `PatchesAreStaged` | `PatchIsStaged` | `"late" \notin Faults` |
| | `RepliesDoSettle` | `RepliesSettle` | `"late" \notin Faults` |
| | `LoopImplementsGate` | `ImplementsScaleGate` | |
| | `HarmlessWhenLate` | `TwinNeverInvents` | `[]NothingStagedLate`: what runs late is a rollback or a snapshot |
| | `NothingOrphaned` | `NoOrphanStaging` | `"timeout", "crash" \notin Faults` |
| `AttributorProofs` | `TypeCorrect` | `TypeOK` | |
| | `SpansAreBilledOnce` | `SpansBilledOnce` | |
| | `EnergyIsConserved` | `EnergyConserved` | `OneClaimant` |
| | `ScrapesAreConsistent` | `ScrapeConsistent` | `OneClaimant` |
| | `AttributorImplementsLedger` | `ImplementsLedger` | `OneClaimant` |
| | `ChildrenFollowWhenTogether` | `ChildrenFollowRoot` | `OneRoot`, `[]RootsAlong`: a tick that takes a span takes the root of its trace |
| `RouteLoopProofs` | `TypeCorrect` | `TypeOK` | |
| | `SeriesAreMeasured` | `SeriesInv`: the twin's series are what was measured | |
| | `FitsAreAligned` | `SamplesAligned` | `"quiet" \notin Faults` |
| | `LoadsAreCurrent` | `HoldsCurrentRates` | `"quiet" \notin Faults` |
| | `PublishedIsHeld` | `PublishedInTwin` | |
| `PredictionLoopProofs` | `TypeCorrect` | `TypeOK` | |
| | `WindowFollowsFeeder` | `WindowIsHistory` | |
| | `PredictionsAreGrounded` | `PredictionsGrounded` | |
| | `VerdictsAreFinal` | `VerdictsStand` | |
| | `PredictorImplementsRegister` | `ImplementsRegister` | |
| `LeastSquaresProofs` | `TypeCorrect` | `TypeOK` | |
| | `FitsCostLeast` | `LeastCost`: no intercept and coefficients whatever, over any denominator, cost less than those of a fit | |
| | `FitsAreBest` | `FitIsBest` | |
| | `FitsAreOfIndependentRates` | `Fitted => Independent`: no integer combination of the columns for which the ridge is negligible is zero on all samples | |
| | `CollinearIsRefused` | `CollinearRefused` | |
| | `R2IsInUnit` | `R2InUnit` | |
| `TopologyLoopProofs` | `TypeCorrect` | `TypeOK` | |
| | `EdgesAreResolved` | `EdgesResolve` | |
| | `GhostsFadeAway` | `GhostsFade` | |
| | `RetentionEndsAllGhosts` | `RetentionEndsGhosts` | |
| | `EnergyIsCountedOnce` | `EnergyCountedOnce` | |
| | `TotalsAgree` | `TotalsAddUp` | |
| | `PodsKeepTheirNode` | `PodsDrawnWhereListed` | `[]OneNode(home)`, `[]ListedOnceScheduled`: a pod has one node, and has it when a snapshot lists it |
| `TracedAppProofs` | `TypeCorrect` | `TypeOK` | |
| | `TracesAreWhole` | `TracesWhole` | |
| | `OrdersAreKept` | `OrdersKept` | |

`SetLemmas` holds what several of them cite: a set of seconds with a bound has
a maximum, sums over finite sets take their parts in any order, add up by rows as by
columns, are the same over renamed indices (`SumRenamed`), and lie between the least and the
greatest element times their number. No backend
applies an induction theorem of the library to an operator, so these lemmas go by a least
counterexample: the sizes of the sets a lemma fails for have a minimum (`MinExists`), and
that set less one element is a smaller one (`SubsetInduction`, which takes the good sets as
a set). The folds of the community modules are functions, so that this reaches them.

### The inductive invariants

**Scaling.** `TypeOK` is not inductive: a reply is read at the request it belongs to. `Inv`
adds `HandlerInv`, which relates `pc`, `call` and `reply` (the call on its way is the one the
handler waits for; a simulation in `reply` is of a valid count). `AnswerInv` adds what
was done to the cluster at each `pc`; it gives `AnswersAreTrue` and, with the
refinement mapping `Stage`, every step of `ScaleGate`. `TwinNeverInvents` is not
inductive either: a commit copies the staged count, so `CountsHaveSource` follows that
count from the simulation through the PATCH, and every listing from the cluster to
the twin; `CountsAreSourced` states it by itself. It fails with late calls (see the
observations), which is why four theorems exclude them. `SettledInv` ties the staged
deployments to the reply in hand and gives, with `AnswerInv`, `RepliesDoSettle`.
`HarmlessWhenLate` lets some calls run late. A late rollback takes away what the
request in hand staged, hence `LateSourced` says only that the staged count is the requested
one or one the cluster has held; either does for a commit after the PATCH. It cannot be
weakened further: with late commits alone, or late simulations alone, TLC finds the twin
inventing. `OnlyOwnStaged` says that nothing is staged but by the request in hand, and by
it only between its simulation and its last reply; `NothingOrphaned` follows for all other
faults, and each of the two it excludes leaves the twin staged (`scale_orphan`).

**Attribution.** `TypeInv` adds to the types that a tick under way knows its seconds, that a
sleeping loop holds no batch, and that spans nobody exports were not sent; it is enough for
`SpansBilledOnce`, as each action moves the copies of a span from one place to another.
Conservation rests on lemmas about the operators of `Attribution`, from the inside out:
shares in proportion add up to what is shared (`ShareOut`), each policy's bill to the
service's watts (`FittedBillIs`, `BusyBillIs`), the labels of all bills to the watts of the
claimed pods (`SumSwap`, `ClaimedSum`), the buckets to the watts of the others (`FreeSum`).
`TakenIsABatch` uses `SpansBilledOnce`: a tick never takes more copies than were sent. Two
hypotheses are about numbers and names. `ExactAssumption` says that the unit of power divides
whatever a tick divides; the code divides floats, and the model leaves their rounding out. TLC
evaluates it over all batches, readings and models of the checked scenarios.
`OneClaimant` says that no pod belongs to two services; without it the watts of the pod are
charged twice (see the observations), and TLC evaluates it for the checked instances.
That these are the sums of one tick and not of a mixture is the refinement
`AttributorImplementsLedger`: a `Publish` is a `Post`, a `Crash` is a `Restart`, and all
else, the half done tick included, is nothing a scrape can see.
`ChildrenFollowRoot` is violated by `attribution_children`. `ChildrenFollowWhenTogether` shows
that a tick that takes a span without its root is needed for that. `FollowInv` is the property
for all roots, sent or not; only a `Publish` bills, and with `RootsAlong` the root is in its
batch (`RouteOfRoot`), also when spans are delivered again after a crash.

**Route models.** `SeriesInv` says that pushes, on their way or late, are the measurement of
their second, that the series hold only such, and that the twin has all of a second or
nothing; it needs no hypothesis. `SamplesInv` follows a sample from the history read
(`todo`) through the model on its way and the late ones to the twin. It needs that a route
once requested is requested at every later tick (`OnlyStarts`), which is what the fault
`"quiet"` breaks, in `route_stale` as in the code. `PublishedInv` covers the models of the round
under way (`fresh`) and that the twin has seen the services of the designs, without which
it would take no model.

**Predictions.** `WindowInv` says that each sample on its way, in the twin or in the window is
one that was measured, and that the window is no newer than `lastSeen`. `GroundedInv` and
`VerdictsInv` speak of all predictions that are in the twin or may still get there
(`PredictionsOut`), the one in hand and the abandoned ones: while the predictor lives there
is one for a second, and none for a later one than it has seen. That a mean lies between the
window's extremes is `SumAtLeast` and `SumAtMost`.
`FollowsInv` is what the register asks of the same predictions: each is the measurement of its
second or the mean of at least three up to it. Its sum goes over positions of the window, the
register's over seconds; `SumRenamed` carries it over, as the samples of a window go up in time
and so are all different (`Increasing`, `WindowTimes`). It survives retention because it speaks
of `measured`, never of what is left in the twin. In `PredictorImplementsRegister` a write of a
prediction is a `Persist` or a `Settle` where it is new or may be revised, and by `VerdictsInv`
a stutter where it is neither; `Restart` is the first step after which verdicts may change.

**Least squares.** What is computed is related to what was asked by `SolutionsInv`: a vector
makes every row of the matrix zero exactly if it makes every normal equation zero (a right
hand side is a column like the others, and a solution is a vector with -1 in its place, or
minus its denominator). A step keeps this because each row below becomes a combination of
the old one and the pivot row, and the old one can be had back, as the pivot is not zero
(`EliminatesBy`, `EliminatedSolutions`); that the division leaves no remainder or is not
done is all that is used of `Divisor`. `TriangularInv` says that columns already eliminated
are zero below a diagonal that is not, and `SolvedInv` that the rows already substituted are
solved by the coefficients so far. Together: a fit solves the normal equations (`FitSolves`).
The rest is about these. What any other coefficients cost exceeds the cost of a solution by
squares and by a cross term that the normal equations make zero (`CrossTermIsZero`,
`SolutionIsBest`); other denominators are brought to a common one (`WidenedCost`). And
r2 compares the fit with one of the candidates: the average of the watts for all samples,
which the ridge does not penalise, costs exactly the variation (`ConstantCost`).

That dependent rates get no model is an invariant of its own, `RidgeInv`, as the ridge makes
the matrix regular. Applied to a null vector `d` of the design, the normal equations leave
only what the ridge adds, at most `ridge * |d[i]|` (`RidgeBound`). A pivot is the largest
entry of its column, so a column eliminated at most doubles that (`GrowthInv`, which says it
of every vector and every bound). In the row of the last column where `d` is not zero, what
is left is that element times the pivot, so this pivot is at most `2^k` times the ridge's
part; the intercept's is at least the number of samples (`FirstInv`). If `d` is `Negligible`
their ratio is below the accepted one, and `Check` refuses; without a ridge the pivot would
be zero, and `Singular` does.

**Topology.** `ResolveInv` relates the lists read so far in a loop to the cluster and to what
has been missing since, list by list. `EndedInv` bounds the seconds of a pod that has
ended, in the twin and on their way, by its end and the time of a snapshot. `EnergyInv` has
an existential: some bound on what each second says of a pod sums up, with what was read
since, to no more than the time read over. `StampInv` says that abandoned snapshots
are of different seconds, and that the twin has nothing of them, nor of any second after the
last sleep; so no second is written twice, and by `WholeInv` what the twin has of a second
is one whole snapshot, of some answers of the four lists, or nothing. The metrics are zero
or one per container and pod (`ReadingsAssumption`), as the model has them.
`PlaceInv` places every pod of the twin at home, and every listed one there or nowhere. The
twin keeps the node it first heard of, so it is inductive only if no snapshot lists a
pod that is Pending and if a pod that is made anew under its name gets its node again; under
these two conditions `PodsKeepTheirNode` states what `topology_placement` refutes.

**Demo app.** A request is identified with its place in the tree of calls. `TreeInv` says that
queues and handlers hold such places, `CallsInv` that a handler makes each call once, so that
what is alive below it belongs to a call it has made, and nothing is alive below a request
nobody has accepted: this makes "a request is in one place" inductive although loads and
callers give requests up. `WorkInv` adds for handlers no failure has touched that the
spans of all calls that came back are there.
`OrdersAreKept` has to follow an order back to the replica that saved it. `SavedOnce`: once a
store has saved for a request of the load, nothing that could make one save for it again is
alive, so `saver` does not change, and with it what is said of a store that lives (`Stand`).
`OrderInv`: a handler of a checkout that has an order has it from that store, where it is at
the price the answer carries (`Kept`), the save on its way carries the price its caller has
(`Priced`), and a store that lives has told no two requests of one order (`Distinct`,
over the handlers and the load, `Told`): the id it gives next is of no order it has. It
needs `WaitInv`, that a handler which waits has made a call.

### Only model-checked

* Liveness (`RequestsAnswered`, `TwinConverges`, `NewestPredicted`, `EveryCallEnds`) is out of
  the prover's reach, as is `ENABLED`.
* That the `Divisor` of an elimination always is the denominator the rows had before: an
  identity of determinants, which keeps the integers of the runs small and which no theorem
  here needs.
* The properties of the violated runs are not invariants. Each has a theorem under the
  conditions that exclude the violation: `NothingOrphaned`, `ChildrenFollowWhenTogether`,
  `FitsAreAligned`, `PodsKeepTheirNode`.

## Plan

The components with behaviour of their own are modelled. What could still be composed:

1. `PricingLoop`: `Attributor`'s use of the models of `RouteLoop`: a tick prices with
   models of one moment while the fitter replaces them.
2. `TracedApp`'s spans as the input of `Attributor`, instead of arbitrary ones.

## Not modelled

* mockpower: a map replaced each second. What it makes its readers see, any reading and
  none, is what `Attributor` and `TopologyLoop` enumerate.
* When the load sends and at which rates (`Rng`, phases), and what `burn` computes.
* Manifests, Grafana, Prometheus, Tempo and the collector are external. The collector's
  repeated deliveries are `Deliver` in `Attributor`.
* JSON and OTLP decoding, metrics text, TLS, environment parsing, quantities and logging
  are data and wording.
* Backup and `export_history` are file writes of GreyCat; `schema/check-twin.sh` is a test.
* The rounding of floats, everywhere.
