------------------------------- MODULE Fitter -------------------------------
(***************************************************************************)
(* The fitter (src/crates/fitter/src/main.rs): it reads the rows of the    *)
(* last window from the twin, builds one design per service, fits each,    *)
(* posts the models it accepts and then publishes them on /metrics.        *)
(*                                                                         *)
(* Whether a fit is degenerate or explains too little depends on floats:   *)
(* with enough samples, either verdict is possible.                        *)
(***************************************************************************)
EXTENDS TwinRoutes

CONSTANTS
    Window,         \* FIT_WINDOW
    MinSamples      \* FIT_MIN_SAMPLES

ASSUME WindowAssumption     == Window \in Nat
ASSUME MinSamplesAssumption == MinSamples \in Nat

VARIABLES
    pc,             \* "asleep", "reading", "fitting", "posting"
    now,            \* when the round began
    todo,           \* designs of the services not fitted yet
    post,           \* the model being posted, or None
    fresh,          \* models the twin has taken in this round
    published       \* the models on /metrics

fitterVars == <<pc, now, todo, post, fresh, published>>

FitterInit ==
    /\ pc = "asleep"
    /\ now = 0
    /\ todo = Empty
    /\ post = None
    /\ fresh = {}
    /\ published = {}
----------------------------------------------------------------------------
\* One design per service: the routes of all rows, and a sample per time with
\* the rate of every route, zero where there is no row.
Design(rows) ==
    LET routes == {x.route : x \in rows} IN
    [s \in {x.service : x \in rows} |->
        [routes  |-> routes,
         samples |->
           {[t |-> x.t, watts |-> x.watts,
             rates |-> [r \in routes |->
                LET at == {y \in rows : y.service = s /\ y.t = x.t /\ y.route = r} IN
                IF at = {} THEN 0 ELSE (CHOOSE y \in at : TRUE).rps]] :
            x \in {y \in rows : y.service = s}}]]

\* fit returns None unless it has two samples more than routes.
Determined(d) == Cardinality(d.samples) >= Cardinality(d.routes) + 2

Fitted(s) ==
    [service |-> s, at |-> now, routes |-> todo[s].routes, samples |-> todo[s].samples]

Without(s) == [x \in DOMAIN todo \ {s} |-> todo[x]]
----------------------------------------------------------------------------
Begin(time) ==
    /\ pc = "asleep"
    /\ pc' = "reading"
    /\ now' = time
    /\ UNCHANGED <<todo, post, fresh, published>>

\* No row ends the round and leaves the published models as they are.
OnHistory(rows) ==
    /\ pc = "reading"
    /\ pc' = IF rows = {} THEN "asleep" ELSE "fitting"
    /\ todo' = IF rows = {} THEN Empty ELSE Design(rows)
    /\ fresh' = {}
    /\ UNCHANGED <<now, post, published>>

OnHistoryError ==
    /\ pc = "reading"
    /\ pc' = "asleep"
    /\ UNCHANGED <<now, todo, post, fresh, published>>

\* Too few samples, a degenerate design, or r2 below the minimum: no model is posted,
\* and the twin keeps the one it has.
Dismiss(s) ==
    /\ pc = "fitting" /\ s \in DOMAIN todo
    /\ todo' = Without(s)
    /\ UNCHANGED <<pc, now, post, fresh, published>>

Accept(s) ==
    /\ pc = "fitting" /\ s \in DOMAIN todo
    /\ Cardinality(todo[s].samples) >= MinSamples
    /\ Determined(todo[s])
    /\ pc' = "posting"
    /\ post' = Fitted(s)
    /\ todo' = Without(s)
    /\ UNCHANGED <<now, fresh, published>>

OnPosted ==
    /\ pc = "posting"
    /\ pc' = "fitting"
    /\ fresh' = fresh \union {post}
    /\ post' = None
    /\ UNCHANGED <<now, todo, published>>

\* Mutant: a model the twin did not take is published all the same.
OnPostErrorKeeps == OnPosted

OnPostError ==
    /\ pc = "posting"
    /\ pc' = "fitting"
    /\ post' = None
    /\ UNCHANGED <<now, todo, fresh, published>>

\* The round is over: /metrics shows this round's models only.
Publish ==
    /\ pc = "fitting" /\ todo = Empty
    /\ pc' = "asleep"
    /\ published' = fresh
    /\ UNCHANGED <<now, todo, post, fresh>>

\* The process is restarted: everything was in memory.
FitterRestart ==
    /\ pc' = "asleep"
    /\ todo' = Empty /\ post' = None /\ fresh' = {} /\ published' = {}
    /\ UNCHANGED now
=============================================================================
