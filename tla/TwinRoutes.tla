----------------------------- MODULE TwinRoutes -----------------------------
(***************************************************************************)
(* The routes and services of one namespace of the twin                    *)
(* (src/greycat/server/twin.gcl): the attributor writes rates and watts,   *)
(* the fitter reads them as rows and writes power models, simulate_load    *)
(* evaluates the models at the current rates.                              *)
(*                                                                         *)
(* A series is a function from the seconds it has samples at.  Of a        *)
(* service's models nothing reads another than the newest, so that one is  *)
(* kept.  What a fit computes is kept as the samples it was computed from; *)
(* watts_billed is written and never read back.                            *)
(***************************************************************************)
EXTENDS Integers, FiniteSetsExt

CONSTANTS
    RouteNames,     \* http.route of root spans
    Services,       \* service.name of spans
    Rates,          \* root spans per second of a route that has any
    Watts,          \* power of a service's pods
    KeepFor,        \* how long retention keeps a sample (7 days in the code)
    None            \* null

ASSUME RatesAssumption   == Rates \subseteq Nat \ {0}
ASSUME WattsAssumption   == Watts \subseteq Nat
ASSUME KeepForAssumption == KeepFor \in Nat

VARIABLES
    rps,            \* rates of each route, by second
    power,          \* watts of each service, None until its first sample
    model           \* newest power_model of each service, or None

twinVars == <<rps, power, model>>

Empty == << >>

\* Partial functions: what a push says of some routes and services.
Partial(S, T) == UNION {[P -> T] : P \in SUBSET S}

\* A sample of a fit, the design of one, and what the fitter posts.
Sample == [t : Nat, watts : Watts, rates : Partial(RouteNames, Rates \union {0})]
Draft  == [routes : SUBSET RouteNames, samples : SUBSET Sample]
Model  == [service : Services, at : Nat, routes : SUBSET RouteNames, samples : SUBSET Sample]

TwinInit ==
    /\ rps   = [r \in RouteNames |-> Empty]
    /\ power = [s \in Services |-> None]
    /\ model = [s \in Services |-> None]
----------------------------------------------------------------------------
\* nodeTime of GreyCat.
SetAt(series, t, v) ==
    [x \in DOMAIN series \union {t} |-> IF x = t THEN v ELSE series[x]]

UpTo(series, t) == {x \in DOMAIN series : x <= t}

\* The value at t or else at the closest earlier time, None before the first.
ResolveAt(series, t) ==
    IF UpTo(series, t) = {} THEN None ELSE series[Max(UpTo(series, t))]

\* Mutant: old samples are set to zero instead of removed.
PruneToZero(series, cutoff) ==
    [x \in DOMAIN series |-> IF x < cutoff THEN 0 ELSE series[x]]

Prune(series, cutoff) == [x \in {y \in DOMAIN series : y >= cutoff} |-> series[x]]
----------------------------------------------------------------------------
\* Mutant: two pipelines: the watts are stamped a second later than the rates.
IngestRoutesDrift(p) ==
    /\ rps' = [r \in RouteNames |->
                 IF r \in DOMAIN p.rates THEN SetAt(rps[r], p.t, p.rates[r]) ELSE rps[r]]
    /\ power' = [s \in Services |->
                   IF s \notin DOMAIN p.watts THEN power[s]
                   ELSE SetAt(IF power[s] = None THEN Empty ELSE power[s],
                              p.t + 1, p.watts[s])]
    /\ UNCHANGED model

\* Routes without a root span and services without a pod are not in the push:
\* their series get no sample.
IngestRoutes(p) ==
    /\ rps' = [r \in RouteNames |->
                 IF r \in DOMAIN p.rates THEN SetAt(rps[r], p.t, p.rates[r]) ELSE rps[r]]
    /\ power' = [s \in Services |->
                   IF s \notin DOMAIN p.watts THEN power[s]
                   ELSE SetAt(IF power[s] = None THEN Empty ELSE power[s],
                              p.t, p.watts[s])]
    /\ UNCHANGED model

\* One row per service, time of a power sample and route with an earlier sample.
RouteHistory(from, to) ==
    LET rows(s) == {[t |-> t, service |-> s, watts |-> power[s][t],
                     route |-> r, rps |-> ResolveAt(rps[r], t)] :
                       t \in {x \in DOMAIN power[s] : from <= x /\ x <= to}, r \in RouteNames}
    IN
    {row \in UNION {rows(s) : s \in {x \in Services : power[x] # None}} : row.rps # None}

\* A model of an unknown service is dropped; an older one changes no reader's view.
IngestRouteModel(m) ==
    /\ model' = IF power[m.service] # None
                   /\ (model[m.service] # None => model[m.service].at <= m.at)
                THEN [model EXCEPT ![m.service] = m] ELSE model
    /\ UNCHANGED <<rps, power>>

\* What the attributor prices with.
RouteModels == {s \in Services : model[s] # None}

RunRetention(now) ==
    LET cutoff == now - KeepFor IN
    /\ rps' = [r \in RouteNames |-> Prune(rps[r], cutoff)]
    /\ power' = [s \in Services |->
                   IF power[s] = None THEN None ELSE Prune(power[s], cutoff)]
    /\ model' = [s \in Services |->
                   IF model[s] # None /\ model[s].at < cutoff THEN None ELSE model[s]]
----------------------------------------------------------------------------
\* Mutant: the first sample of the series, not the last.
CurrentRpsFirst(r) == IF rps[r] = Empty THEN 0 ELSE rps[r][Min(DOMAIN rps[r])]

\* The newest rate of a route, zero without a sample.
CurrentRps(r) == IF rps[r] = Empty THEN 0 ELSE rps[r][Max(DOMAIN rps[r])]

\* simulate_load: the rates it evaluates each service's model at, the simulated
\* route's replaced.
SimulateLoad(route, rate) ==
    [s \in RouteModels |->
        [r \in model[s].routes |-> IF r = route THEN rate ELSE CurrentRps(r)]]
=============================================================================
