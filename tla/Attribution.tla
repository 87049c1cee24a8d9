---------------------------- MODULE Attribution ----------------------------
(***************************************************************************)
(* How the attributor turns a batch of spans and the watts of the pods     *)
(* into the watts of routes (src/crates/attributor/src/lib.rs).  Pure      *)
(* operators: the attributor applies them once a tick.                     *)
(*                                                                         *)
(* Names that the code compares by prefix are sequences of their dash      *)
(* separated parts: a pod belongs to service "app-store" when it is called *)
(* that or starts with "app-store-".  Power is a Nat in a unit fine enough *)
(* for every division below to be exact (Exact): the code divides floats,  *)
(* and their rounding is not modelled.                                     *)
(***************************************************************************)
EXTENDS Integers, Sequences, SequencesExt

CONSTANTS
    Services,       \* service.name of spans, as sequences of parts
    Routes,         \* http.route of spans, or the name of a span without one
    Categories,     \* buckets of part-of labels: "_observability", ...
    RateUnit        \* one request per second, in the unit of rates

ASSUME NamesAssumption ==
    /\ IsFiniteSet(Services) /\ IsFiniteSet(Routes) /\ IsFiniteSet(Categories)
    /\ RateUnit \in Nat

Labels == Routes \union Categories \union {"_idle", "_unattributed"}

Positive(x) == IF x > 0 THEN x ELSE 0
----------------------------------------------------------------------------
(***************************************************************************)
(* Spans: [trace, root, service, route, busy].  A batch maps each span to  *)
(* the number of copies received of it.                                    *)
(***************************************************************************)
Received(batch) == {s \in DOMAIN batch : batch[s] > 0}

RootsOf(batch, trace) == {s \in Received(batch) : s.root /\ s.trace = trace}

\* A span takes the route of its trace's root when the batch holds that root.
BilledRoute(batch, span) ==
    IF RootsOf(batch, span.trace) = {} THEN span.route
    ELSE (CHOOSE s \in RootsOf(batch, span.trace) : TRUE).route

\* Busy time per service and route.
Weights(batch) ==
    [svc \in Services |-> [r \in Routes |->
        SumFunction([s \in {x \in Received(batch) :
                             x.service = svc /\ BilledRoute(batch, x) = r} |->
                        batch[s] * s.busy])]]

\* Root spans per second; a route without a root span has no entry in the map.
RouteRates(batch, elapsed) ==
    LET roots(r) == {s \in Received(batch) : s.root /\ s.route = r} IN
    [r \in {x \in Routes : roots(x) # {}} |->
        (RateUnit * SumFunctionOnSet(batch, roots(r))) \div elapsed]
----------------------------------------------------------------------------
Matches(svc, pod) == IsPrefix(svc, pod.name)

Traced(weights) == {svc \in Services : SumFunction(weights[svc]) > 0}

Claims(svc, watts) == {pod \in DOMAIN watts : Matches(svc, pod)}

\* Services without a pod only count as unresolved.
Resolved(weights, watts) == {svc \in Traced(weights) : Claims(svc, watts) # {}}

ServiceWatts(svc, watts) == SumFunctionOnSet(watts, Claims(svc, watts))

\* Mutant: pods of every traced service are taken for unclaimed.
UnclaimedByName(weights, watts) ==
    {pod \in DOMAIN watts : pod.name \notin Traced(weights)}

Unclaimed(weights, watts) ==
    DOMAIN watts \ UNION {Claims(svc, watts) : svc \in Resolved(weights, watts)}
----------------------------------------------------------------------------
(***************************************************************************)
(* How one service's watts W are split: a bill maps routes to watts and    *)
(* keeps the idle watts apart.  fit is [models, rates, policy]; models     *)
(* maps services to [intercept, coefs].                                    *)
(***************************************************************************)
NoFit == [models |-> << >>, rates |-> << >>, policy |-> "idle"]

BusyBill(W, busy) ==
    [routes |-> [r \in Routes |-> (W * busy[r]) \div SumFunction(busy)], idle |-> 0]

\* Mutant: a negative coefficient counts.
RawUnclamped(fit, model) ==
    [r \in Routes |->
        IF r \in DOMAIN model.coefs /\ r \in DOMAIN fit.rates
        THEN model.coefs[r] * fit.rates[r] ELSE 0]

\* A negative coefficient counts for nothing, a route without a rate neither.
Raw(fit, model) ==
    [r \in Routes |->
        IF r \in DOMAIN model.coefs /\ r \in DOMAIN fit.rates
        THEN Positive(model.coefs[r]) * fit.rates[r] ELSE 0]

Explained(fit, model) == SumFunction(Raw(fit, model)) + Positive(model.intercept)

\* The model's shares, scaled to W.
Scaled(W, fit, model) == [r \in Routes |-> (W * Raw(fit, model)[r]) \div Explained(fit, model)]
Idle(W, fit, model)   == (W * Positive(model.intercept)) \div Explained(fit, model)
Used(fit, model)      == {r \in Routes : Raw(fit, model)[r] > 0}

\* The policy says who pays for the idle part.
FittedBill(W, fit, model) ==
    LET scaled == Scaled(W, fit, model)
        idle   == Idle(W, fit, model)
        used   == Used(fit, model)
        routed == SumFunction(scaled)
    IN
    CASE fit.policy = "equal" /\ used # {} ->
           [routes |-> [r \in Routes |->
              IF r \in used THEN scaled[r] + idle \div Cardinality(used) ELSE 0],
            idle |-> 0]
      [] fit.policy = "proportional" /\ routed > 0 ->
           [routes |-> [r \in Routes |-> scaled[r] + (idle * scaled[r]) \div routed],
            idle |-> 0]
      [] OTHER -> [routes |-> scaled, idle |-> idle]

\* Otherwise the busy time decides: no model, or one that explains no watt.
UsesModel(fit, svc) ==
    svc \in DOMAIN fit.models /\ Explained(fit, fit.models[svc]) > 0

Bill(svc, weights, watts, fit) ==
    IF UsesModel(fit, svc)
    THEN FittedBill(ServiceWatts(svc, watts), fit, fit.models[svc])
    ELSE BusyBill(ServiceWatts(svc, watts), weights[svc])
----------------------------------------------------------------------------
\* What a bill charges to a label.  A route may have the name of a bucket.
Charged(bill, l) ==
    (IF l \in Routes THEN bill.routes[l] ELSE 0) + (IF l = "_idle" THEN bill.idle ELSE 0)

Bucket(cats, pod) == IF pod \in DOMAIN cats THEN cats[pod] ELSE "_unattributed"

\* route_watts of attribute_with.  cats maps labelled pods to their buckets.
RouteWatts(weights, watts, cats, fit) ==
    LET bills == [svc \in Resolved(weights, watts) |-> Bill(svc, weights, watts, fit)] IN
    [l \in Labels |->
        SumFunction([svc \in DOMAIN bills |-> Charged(bills[svc], l)])
          + SumFunctionOnSet(watts, {pod \in Unclaimed(weights, watts) : Bucket(cats, pod) = l})]
----------------------------------------------------------------------------
\* No division of the bill of W watts leaves a remainder.
ExactFit(W, fit, model) ==
    LET scaled == Scaled(W, fit, model)
        routed == SumFunction(scaled)
    IN /\ \A r \in Routes : (W * Raw(fit, model)[r]) % Explained(fit, model) = 0
       /\ (W * Positive(model.intercept)) % Explained(fit, model) = 0
       /\ fit.policy = "equal" /\ Used(fit, model) # {} =>
             Idle(W, fit, model) % Cardinality(Used(fit, model)) = 0
       /\ fit.policy = "proportional" /\ routed > 0 =>
             \A r \in Routes : (Idle(W, fit, model) * scaled[r]) % routed = 0

ExactBusy(W, busy) == \A r \in Routes : (W * busy[r]) % SumFunction(busy) = 0

Exact(svc, weights, watts, fit) ==
    IF UsesModel(fit, svc)
    THEN ExactFit(ServiceWatts(svc, watts), fit, fit.models[svc])
    ELSE ExactBusy(ServiceWatts(svc, watts), weights[svc])
=============================================================================
