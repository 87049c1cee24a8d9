----------------------------- MODULE RouteLoop -----------------------------
(***************************************************************************)
(* The loop that prices routes: the attributor pushes rates and watts to   *)
(* the twin (src/crates/attributor/src/main.rs), the fitter turns their    *)
(* history into models, and the attributor prices with these.  The two     *)
(* processes and the retention task are not ordered; their calls may fail, *)
(* and an abandoned one may be executed later.                             *)
(***************************************************************************)
EXTENDS Fitter

CONSTANTS
    Traffic,        \* the rates a tick may measure
    Faults,
    MaxLate,        \* bound: abandoned calls still queued at the twin
    MaxClock        \* bound: the clock stops here

ASSUME TrafficAssumption == Traffic \subseteq Partial(RouteNames, Rates)
ASSUME FaultsAssumption ==
    Faults \subseteq {"quiet",      \* a route may stop being requested
                      "timeout",    \* a call of the twin fails
                      "late",       \* a failed call still runs, later
                      "crash"}      \* the fitter dies
ASSUME BoundsAssumption == MaxLate \in Nat /\ MaxClock \in Nat \ {0}

Second == 1..MaxClock

\* What the attributor posts.
Push == [t : Second, rates : Partial(RouteNames, Rates), watts : Partial(Services, Watts)]

\* null is no object of the twin.
ASSUME NoneAssumption ==
    /\ None \notin Rates
    /\ None \notin Partial(Second, Watts)
    /\ None \notin Push
    /\ None \notin Model

VARIABLES
    clock,          \* seconds
    push,           \* what the attributor is posting, or None
    late,           \* abandoned calls the twin will still execute
    pushes          \* history: what was pushed at each second

loopVars == <<clock, push, late, pushes>>
vars == <<twinVars, fitterVars, loopVars>>

Init ==
    /\ TwinInit
    /\ FitterInit
    /\ clock = 1
    /\ push = None
    /\ late = {}
    /\ pushes = Empty
----------------------------------------------------------------------------
RoutesCall(p) == [op |-> "routes", body |-> p]
ModelCall(m)  == [op |-> "model",  body |-> m]

Call == [op : {"routes"}, body : Push] \union [op : {"model"}, body : Model]

Serve(c) ==
    \/ c.op = "routes" /\ IngestRoutes(c.body)
    \/ c.op = "model"  /\ IngestRouteModel(c.body)

\* An abandoned call is lost, or stays in the twin's queue.
Abandon(c) ==
    \/ UNCHANGED late
    \/ "late" \in Faults /\ Cardinality(late) < MaxLate /\ late' = late \union {c}

TwinServesLate(c) ==
    /\ Serve(c)
    /\ late' = late \ {c}
    /\ UNCHANGED <<fitterVars, clock, push, pushes>>
----------------------------------------------------------------------------
\* Routes requested at the last tick.
Active == IF pushes = Empty THEN {} ELSE DOMAIN pushes[Max(DOMAIN pushes)].rates

\* A tick of the attributor: any traffic, any watts.
Measure(rates, watts) ==
    /\ push = None
    /\ \A t \in DOMAIN pushes : t < clock
    /\ "quiet" \in Faults \/ Active \subseteq DOMAIN rates
    /\ push' = [t |-> clock, rates |-> rates, watts |-> watts]
    /\ pushes' = SetAt(pushes, clock, push')
    /\ UNCHANGED <<twinVars, fitterVars, clock, late>>

PushDone ==
    /\ push # None
    /\ IngestRoutes(push)
    /\ push' = None
    /\ UNCHANGED <<fitterVars, clock, late, pushes>>

\* The failure is logged; the next tick pushes its own rates.
PushFails ==
    /\ "timeout" \in Faults
    /\ push # None
    /\ push' = None
    /\ Abandon(RoutesCall(push))
    /\ UNCHANGED <<twinVars, fitterVars, clock, pushes>>
----------------------------------------------------------------------------
\* A round of the fitter.
FitterBegins ==
    /\ Begin(clock)
    /\ UNCHANGED <<twinVars, loopVars>>

HistoryRead ==
    /\ OnHistory(RouteHistory(now - Window, now))
    /\ UNCHANGED <<twinVars, loopVars>>

HistoryFails ==
    /\ "timeout" \in Faults
    /\ OnHistoryError
    /\ UNCHANGED <<twinVars, loopVars>>

FitterDecides ==
    /\ \E s \in Services : Dismiss(s) \/ Accept(s)
    /\ UNCHANGED <<twinVars, loopVars>>

ModelPosted ==
    /\ OnPosted
    /\ IngestRouteModel(post)
    /\ UNCHANGED loopVars

ModelPostFails ==
    /\ "timeout" \in Faults
    /\ OnPostError
    /\ Abandon(ModelCall(post))
    /\ UNCHANGED <<twinVars, clock, push, pushes>>

FitterPublishes ==
    /\ Publish
    /\ UNCHANGED <<twinVars, loopVars>>

Crash ==
    /\ "crash" \in Faults
    /\ pc # "asleep" \/ published # {}
    /\ FitterRestart
    /\ IF post = None THEN UNCHANGED late ELSE Abandon(ModelCall(post))
    /\ UNCHANGED <<twinVars, clock, push, pushes>>
----------------------------------------------------------------------------
Retention ==
    /\ RunRetention(clock)
    /\ UNCHANGED <<fitterVars, loopVars>>

Tick ==
    /\ clock < MaxClock
    /\ clock' = clock + 1
    /\ UNCHANGED <<twinVars, fitterVars, push, late, pushes>>

Next ==
    \/ \E rates \in Traffic, watts \in Partial(Services, Watts) :
         Measure(rates, watts)
    \/ PushDone
    \/ PushFails
    \/ \E c \in late : TwinServesLate(c)
    \/ FitterBegins
    \/ HistoryRead
    \/ HistoryFails
    \/ FitterDecides
    \/ ModelPosted
    \/ ModelPostFails
    \/ FitterPublishes
    \/ Crash
    \/ Retention
    \/ Tick

Spec == Init /\ [][Next]_vars
----------------------------------------------------------------------------
Samples(s) ==
    (IF s \in DOMAIN todo THEN todo[s].samples ELSE {})
    \union (IF model[s] # None THEN model[s].samples ELSE {})

Rate(p, r) == IF r \in DOMAIN p.rates THEN p.rates[r] ELSE 0

\* The types of the twin's series, of the fitter and of the calls.
TwinTypeOK ==
    /\ rps   \in [RouteNames -> Partial(Second, Rates)]
    /\ power \in [Services -> Partial(Second, Watts) \union {None}]
    /\ model \in [Services -> Model \union {None}]
    /\ \A s \in RouteModels : model[s].service = s

FitterTypeOK ==
    /\ pc \in {"asleep", "reading", "fitting", "posting"}
    /\ now \in 0..MaxClock
    /\ todo \in [DOMAIN todo -> Draft] /\ DOMAIN todo \subseteq Services
    /\ todo # Empty => pc \in {"fitting", "posting"}
    /\ post \in Model \union {None}
    /\ post # None <=> pc = "posting"
    /\ fresh \union published \subseteq Model

TypeOK ==
    /\ TwinTypeOK
    /\ FitterTypeOK
    /\ clock \in Second
    /\ push \in Push \union {None}
    /\ late \subseteq Call
    /\ pushes \in [DOMAIN pushes -> Push] /\ DOMAIN pushes \subseteq 1..clock

OfOneTick(s, x) ==
    /\ x.t \in DOMAIN pushes
    /\ s \in DOMAIN pushes[x.t].watts /\ x.watts = pushes[x.t].watts[s]
    /\ \A r \in DOMAIN x.rates : x.rates[r] = Rate(pushes[x.t], r)

\* What a model was fitted from was true at one moment: the watts of each sample and
\* the rates next to them are those of one tick of the attributor, zero for routes
\* nobody requested, in whatever order pushes, history, retention and posts ran ("the
\* fit needs aligned (X, y) pairs and two pipelines would drift", twin.gcl:366-367).
SamplesAligned == \A s \in Services : \A x \in Samples(s) : OfOneTick(s, x)

\* The newest second the twin knows of.
Times == (UNION {DOMAIN rps[r] : r \in RouteNames})
         \union (UNION {DOMAIN power[s] : s \in {z \in Services : power[z] # None}})

\* For any simulated route, simulate_load "holds every other route at its current rate" (twin.gcl:511):
\* the one of the newest tick the twin has seen.
HoldsCurrentRates ==
    \A route \in RouteNames \union {None} : \A s \in RouteModels : \A r \in model[s].routes \ {route} :
        Times # {} =>
            SimulateLoad(route, 0)[s][r] = Rate(pushes[Max(Times)], r)

\* The twin holds a model of the service at least as new, or retention is due for it.
Held(m) ==
    \/ model[m.service] # None /\ model[m.service].at >= m.at
    \/ m.at < clock - KeepFor

\* A model shown on the fitter's /metrics is priced with: the twin holds it, or a newer
\* one, until retention removes it, though the post and the publication are steps apart
\* and the post may fail (fitter main.rs:213-220).
PublishedInTwin == \A m \in published : Held(m)
=============================================================================
