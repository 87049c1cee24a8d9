-------------------------- MODULE RouteLoopProofs --------------------------
(***************************************************************************)
(* What holds of the route loop for every set of routes and services, all  *)
(* rates and watts, every retention, window and choice of faults.          *)
(***************************************************************************)
EXTENDS RouteLoop, SetLemmas

----------------------------------------------------------------------------
(***************************************************************************)
(* Series.                                                                 *)
(***************************************************************************)
LEMMA PartialIs ==
    ASSUME NEW S, NEW T, NEW f
    PROVE  f \in Partial(S, T) <=> DOMAIN f \subseteq S /\ f \in [DOMAIN f -> T]
BY DEF Partial

LEMMA EmptyPartial ==
    ASSUME NEW S, NEW T
    PROVE  Empty \in Partial(S, T) /\ DOMAIN Empty = {}
<1>1. DOMAIN Empty = {} /\ Empty \in [DOMAIN Empty -> T]
  BY DEF Empty
<1>. QED  BY <1>1, PartialIs

LEMMA SetAtPartial ==
    ASSUME NEW S, NEW T, NEW f \in Partial(S, T), NEW t \in S, NEW v \in T
    PROVE  SetAt(f, t, v) \in Partial(S, T)
<1>1. DOMAIN f \subseteq S /\ f \in [DOMAIN f -> T]
  BY PartialIs
<1>2. /\ DOMAIN SetAt(f, t, v) \subseteq S
      /\ SetAt(f, t, v) \in [DOMAIN SetAt(f, t, v) -> T]
  BY <1>1 DEF SetAt
<1>. QED  BY <1>2, PartialIs

LEMMA PrunePartial ==
    ASSUME NEW S, NEW T, NEW f \in Partial(S, T), NEW c
    PROVE  Prune(f, c) \in Partial(S, T)
<1>1. DOMAIN f \subseteq S /\ f \in [DOMAIN f -> T]
  BY PartialIs
<1>2. /\ DOMAIN Prune(f, c) \subseteq S
      /\ Prune(f, c) \in [DOMAIN Prune(f, c) -> T]
  BY <1>1 DEF Prune
<1>. QED  BY <1>2, PartialIs

\* Every call of the attributor keeps the twin well formed, late or not.
LEMMA IngestRoutesType ==
    ASSUME TwinTypeOK, NEW p \in Push, IngestRoutes(p)
    PROVE  TwinTypeOK'
<1>1. /\ p.t \in Second
      /\ p.rates \in Partial(RouteNames, Rates)
      /\ p.watts \in Partial(Services, Watts)
  BY DEF Push
<1>2. rps' \in [RouteNames -> Partial(Second, Rates)]
  <2>1. ASSUME NEW r \in RouteNames, r \in DOMAIN p.rates
        PROVE  SetAt(rps[r], p.t, p.rates[r]) \in Partial(Second, Rates)
    BY <1>1, <2>1, PartialIs, SetAtPartial DEF TwinTypeOK
  <2>. QED  BY <2>1 DEF IngestRoutes, TwinTypeOK
<1>3. power' \in [Services -> Partial(Second, Watts) \union {None}]
  <2>1. ASSUME NEW s \in Services, s \in DOMAIN p.watts
        PROVE  SetAt(IF power[s] = None THEN Empty ELSE power[s], p.t, p.watts[s])
                 \in Partial(Second, Watts)
    <3>1. (IF power[s] = None THEN Empty ELSE power[s]) \in Partial(Second, Watts)
      BY EmptyPartial DEF TwinTypeOK
    <3>2. p.watts[s] \in Watts
      BY <1>1, <2>1, PartialIs
    <3>. QED  BY <1>1, <3>1, <3>2, SetAtPartial
  <2>. QED  BY <2>1 DEF IngestRoutes, TwinTypeOK
<1>. QED  BY <1>2, <1>3 DEF IngestRoutes, TwinTypeOK, RouteModels

LEMMA IngestRouteModelType ==
    ASSUME TwinTypeOK, NEW m \in Model, IngestRouteModel(m)
    PROVE  TwinTypeOK'
<1>1. m.service \in Services
  BY DEF Model
<1>. QED  BY <1>1 DEF IngestRouteModel, TwinTypeOK, RouteModels

LEMMA RunRetentionType ==
    ASSUME TwinTypeOK, NEW t, RunRetention(t)
    PROVE  TwinTypeOK'
<1>1. rps' \in [RouteNames -> Partial(Second, Rates)]
  BY PrunePartial DEF RunRetention, TwinTypeOK
<1>2. power' \in [Services -> Partial(Second, Watts) \union {None}]
  BY PrunePartial DEF RunRetention, TwinTypeOK
<1>3. /\ model' \in [Services -> Model \union {None}]
      /\ \A s \in RouteModels' : model'[s].service = s
  BY DEF RunRetention, TwinTypeOK, RouteModels
<1>. QED  BY <1>1, <1>2, <1>3 DEF TwinTypeOK

LEMMA ServeType ==
    ASSUME TwinTypeOK, NEW c \in Call, Serve(c)
    PROVE  TwinTypeOK'
<1>1. CASE c.op = "routes" /\ IngestRoutes(c.body)
  BY <1>1, IngestRoutesType DEF Call
<1>2. CASE c.op = "model" /\ IngestRouteModel(c.body)
  BY <1>2, IngestRouteModelType DEF Call
<1>. QED  BY <1>1, <1>2 DEF Serve
----------------------------------------------------------------------------
(***************************************************************************)
(* The rows of route_history and the designs made of them.                 *)
(***************************************************************************)
Row == [t : Second, service : Services, watts : Watts, route : RouteNames, rps : Rates]

\* resolveAt answers with a sample of the series, the one at t if there is one.
LEMMA ResolveAtIs ==
    ASSUME NEW T, NEW f \in Partial(Second, T), NEW t \in Nat
    PROVE  /\ t \in DOMAIN f => ResolveAt(f, t) = f[t]
           /\ UpTo(f, t) # {} => \E x \in DOMAIN f : x <= t /\ ResolveAt(f, t) = f[x]
<1>1. DOMAIN f \subseteq Second /\ f \in [DOMAIN f -> T]
  BY PartialIs
<1>2. UpTo(f, t) \in SUBSET Nat /\ \A x \in UpTo(f, t) : x <= t
  BY <1>1, BoundsAssumption DEF UpTo, Second
<1>3. ASSUME t \in DOMAIN f PROVE ResolveAt(f, t) = f[t]
  <2>1. t \in UpTo(f, t)
    BY <1>3 DEF UpTo
  <2>2. Max(UpTo(f, t)) = t
    BY <1>2, <2>1, MaxIs
  <2>. QED  BY <2>1, <2>2 DEF ResolveAt
<1>4. ASSUME UpTo(f, t) # {} PROVE \E x \in DOMAIN f : x <= t /\ ResolveAt(f, t) = f[x]
  <2>1. Max(UpTo(f, t)) \in UpTo(f, t)
    BY <1>2, <1>4, MaxExists
  <2>. QED  BY <1>4, <2>1 DEF ResolveAt, UpTo
<1>. QED  BY <1>3, <1>4

\* A row repeats a power sample, next to what resolveAt finds in a route's series.
LEMMA HistoryRow ==
    ASSUME NEW from, NEW to, NEW row \in RouteHistory(from, to)
    PROVE  /\ row.service \in Services /\ power[row.service] # None
           /\ row.t \in DOMAIN power[row.service] /\ from <= row.t /\ row.t <= to
           /\ row.watts = power[row.service][row.t]
           /\ row.route \in RouteNames
           /\ row.rps = ResolveAt(rps[row.route], row.t) /\ row.rps # None
           /\ row = [t |-> row.t, service |-> row.service, watts |-> row.watts,
                     route |-> row.route, rps |-> row.rps]
BY DEF RouteHistory

\* There is such a row for every route with a sample up to then.
LEMMA RowOfHistory ==
    ASSUME NEW from, NEW to, NEW s \in Services, power[s] # None,
           NEW t \in DOMAIN power[s], from <= t, t <= to,
           NEW r \in RouteNames, ResolveAt(rps[r], t) # None
    PROVE  \E row \in RouteHistory(from, to) : row.service = s /\ row.t = t /\ row.route = r
<1>. DEFINE row == [t |-> t, service |-> s, watts |-> power[s][t],
                    route |-> r, rps |-> ResolveAt(rps[r], t)]
<1>1. row \in RouteHistory(from, to)
  BY DEF RouteHistory
<1>. QED  BY <1>1

LEMMA HistoryType ==
    ASSUME TwinTypeOK, NEW from, NEW to
    PROVE  RouteHistory(from, to) \subseteq Row
<1>. SUFFICES ASSUME NEW row \in RouteHistory(from, to) PROVE row \in Row
  OBVIOUS
<1>1. /\ row.service \in Services /\ power[row.service] # None
      /\ row.t \in DOMAIN power[row.service]
      /\ row.watts = power[row.service][row.t]
      /\ row.route \in RouteNames
      /\ row.rps = ResolveAt(rps[row.route], row.t) /\ row.rps # None
      /\ row = [t |-> row.t, service |-> row.service, watts |-> row.watts,
                route |-> row.route, rps |-> row.rps]
  BY HistoryRow
<1>2. row.t \in Second /\ row.watts \in Watts
  <2>1. power[row.service] \in Partial(Second, Watts)
    BY <1>1 DEF TwinTypeOK
  <2>. QED  BY <1>1, <2>1, PartialIs
<1>3. row.rps \in Rates
  <2>1. rps[row.route] \in Partial(Second, Rates) /\ row.t \in Nat
    BY <1>1, <1>2, BoundsAssumption DEF TwinTypeOK, Second
  <2>2. UpTo(rps[row.route], row.t) # {}
    BY <1>1 DEF ResolveAt
  <2>3. \E x \in DOMAIN rps[row.route] : row.rps = rps[row.route][x]
    BY <1>1, <2>1, <2>2, ResolveAtIs
  <2>. QED  BY <2>1, <2>3, PartialIs
<1>. QED  BY <1>1, <1>2, <1>3 DEF Row

\* The designs of a set of rows are well formed.
LEMMA DesignType ==
    ASSUME NEW rows \in SUBSET Row
    PROVE  /\ Design(rows) \in [DOMAIN Design(rows) -> Draft]
           /\ DOMAIN Design(rows) \subseteq Services
<1>. DEFINE routes == {x.route : x \in rows}
            At(s, x, r) == {y \in rows : y.service = s /\ y.t = x.t /\ y.route = r}
            Rated(s, x) == [r \in routes |-> IF At(s, x, r) = {} THEN 0
                                             ELSE (CHOOSE y \in At(s, x, r) : TRUE).rps]
            Of(s) == {[t |-> x.t, watts |-> x.watts, rates |-> Rated(s, x)] :
                        x \in {y \in rows : y.service = s}}
<1>1. Design(rows) = [s \in {x.service : x \in rows} |->
                        [routes |-> routes, samples |-> Of(s)]]
  BY DEF Design
<1>2. DOMAIN Design(rows) = {x.service : x \in rows} /\ {x.service : x \in rows} \subseteq Services
  BY <1>1 DEF Row
<1>3. routes \subseteq RouteNames
  BY DEF Row
<1>4. ASSUME NEW s, NEW x \in rows PROVE Rated(s, x) \in Partial(RouteNames, Rates \union {0})
  <2>1. ASSUME NEW r \in routes, At(s, x, r) # {}
        PROVE  (CHOOSE y \in At(s, x, r) : TRUE).rps \in Rates
    <3>1. (CHOOSE y \in At(s, x, r) : TRUE) \in At(s, x, r)
      BY <2>1
    <3>. QED  BY <3>1 DEF Row
  <2>2. Rated(s, x) \in [routes -> Rates \union {0}]
    BY <2>1
  <2>. QED  BY <1>3, <2>2, PartialIs
<1>5. ASSUME NEW s PROVE Of(s) \subseteq Sample
  <2>. SUFFICES ASSUME NEW x \in rows
                PROVE  [t |-> x.t, watts |-> x.watts, rates |-> Rated(s, x)] \in Sample
    OBVIOUS
  <2>1. x.t \in Nat /\ x.watts \in Watts
    BY BoundsAssumption DEF Row, Second
  <2>2. Rated(s, x) \in Partial(RouteNames, Rates \union {0})
    BY <1>4
  <2>. HIDE DEF Rated
  <2>. QED  BY ONLY <2>1, <2>2 DEF Sample
<1>6. ASSUME NEW s PROVE [routes |-> routes, samples |-> Of(s)] \in Draft
  <2>. HIDE DEF Of, routes, Rated, At
  <2>1. Of(s) \in SUBSET Sample /\ routes \in SUBSET RouteNames
    BY ONLY <1>3, <1>5
  <2>. QED  BY <2>1 DEF Draft
<1>. HIDE DEF Of, routes
<1>. QED  BY <1>1, <1>2, <1>6
----------------------------------------------------------------------------
(***************************************************************************)
(* Types.                                                                  *)
(***************************************************************************)
LEMMA InitType == Init => TypeOK
<1>. SUFFICES ASSUME Init PROVE TypeOK
  OBVIOUS
<1>1. TwinTypeOK
  BY EmptyPartial DEF Init, TwinInit, TwinTypeOK, RouteModels
<1>2. FitterTypeOK
  BY EmptyPartial, BoundsAssumption DEF Init, FitterInit, FitterTypeOK, Empty
<1>3. pushes \in [DOMAIN pushes -> Push] /\ DOMAIN pushes \subseteq 1..clock
  BY EmptyPartial, PartialIs DEF Init
<1>. QED  BY <1>1, <1>2, <1>3, BoundsAssumption DEF Init, TypeOK, Second

\* An abandoned call is well formed.
LEMMA AbandonType ==
    ASSUME late \subseteq Call, NEW c \in Call, Abandon(c)
    PROVE  late' \subseteq Call
BY DEF Abandon

LEMMA MeasureType ==
    ASSUME TypeOK, NEW rates \in Traffic, NEW watts \in Partial(Services, Watts),
           Measure(rates, watts)
    PROVE  TypeOK'
<1>1. push' \in Push
  BY TrafficAssumption DEF TypeOK, Measure, Push
<1>2. /\ pushes' \in [DOMAIN pushes' -> Push]
      /\ DOMAIN pushes' \subseteq 1..clock
  BY <1>1, BoundsAssumption DEF TypeOK, Measure, SetAt, Second
<1>. QED
  BY <1>1, <1>2 DEF TypeOK, TwinTypeOK, FitterTypeOK, Measure, twinVars, fitterVars, RouteModels

LEMMA PushDoneType ==
    ASSUME TypeOK, PushDone
    PROVE  TypeOK'
<1>1. TwinTypeOK'
  BY IngestRoutesType DEF TypeOK, PushDone
<1>. QED  BY <1>1 DEF TypeOK, FitterTypeOK, PushDone, fitterVars

LEMMA PushFailsType ==
    ASSUME TypeOK, PushFails
    PROVE  TypeOK'
<1>1. RoutesCall(push) \in Call
  BY DEF TypeOK, PushFails, RoutesCall, Call
<1>2. late' \subseteq Call
  BY <1>1, AbandonType DEF TypeOK, PushFails
<1>. QED
  BY <1>2 DEF TypeOK, TwinTypeOK, FitterTypeOK, PushFails, twinVars, fitterVars, RouteModels

LEMMA TwinServesLateType ==
    ASSUME TypeOK, NEW c \in late, TwinServesLate(c)
    PROVE  TypeOK'
<1>1. TwinTypeOK'
  BY ServeType DEF TypeOK, TwinServesLate
<1>. QED  BY <1>1 DEF TypeOK, FitterTypeOK, TwinServesLate, fitterVars

LEMMA FitterStepType ==
    ASSUME TypeOK,
           UNCHANGED <<twinVars, clock, push, pushes>>,
           late' \subseteq Call, FitterTypeOK'
    PROVE  TypeOK'
BY DEF TypeOK, TwinTypeOK, twinVars, RouteModels

LEMMA FitterBeginsType ==
    ASSUME TypeOK, FitterBegins
    PROVE  TypeOK'
<1>1. FitterTypeOK'
  BY NoneAssumption, BoundsAssumption DEF TypeOK, FitterTypeOK, FitterBegins, Begin, Second
<1>. QED  BY <1>1, FitterStepType DEF TypeOK, FitterBegins, loopVars

LEMMA HistoryReadType ==
    ASSUME TypeOK, HistoryRead
    PROVE  TypeOK'
<1>. DEFINE rows == RouteHistory(now - Window, now)
<1>1. rows \subseteq Row
  BY HistoryType DEF TypeOK
<1>2. todo' \in [DOMAIN todo' -> Draft] /\ DOMAIN todo' \subseteq Services
  <2>1. Empty \in [DOMAIN Empty -> Draft] /\ DOMAIN Empty \subseteq Services
    BY EmptyPartial, PartialIs
  <2>2. todo' = IF rows = {} THEN Empty ELSE Design(rows)
    BY DEF HistoryRead, OnHistory
  <2>. HIDE DEF rows
  <2>3. CASE rows = {}
    BY <2>1, <2>2, <2>3
  <2>4. CASE rows # {}
    BY <1>1, <2>2, <2>4, DesignType
  <2>. QED  BY <2>3, <2>4
<1>. HIDE DEF rows
<1>3. /\ pc = "reading" /\ pc' = IF rows = {} THEN "asleep" ELSE "fitting"
      /\ todo' # Empty => rows # {}
      /\ fresh' = {} /\ UNCHANGED <<now, post, published>>
  BY DEF HistoryRead, OnHistory, rows
<1>4. FitterTypeOK'
  BY <1>2, <1>3 DEF TypeOK, FitterTypeOK
<1>. QED  BY <1>4, FitterStepType DEF TypeOK, HistoryRead, loopVars

LEMMA HistoryFailsType ==
    ASSUME TypeOK, HistoryFails
    PROVE  TypeOK'
<1>1. FitterTypeOK'
  BY DEF TypeOK, FitterTypeOK, HistoryFails, OnHistoryError
<1>. QED  BY <1>1, FitterStepType DEF TypeOK, HistoryFails, loopVars

LEMMA WithoutType ==
    ASSUME FitterTypeOK, NEW s
    PROVE  /\ Without(s) \in [DOMAIN Without(s) -> Draft]
           /\ DOMAIN Without(s) \subseteq Services
BY DEF FitterTypeOK, Without

LEMMA FittedType ==
    ASSUME FitterTypeOK, NEW s \in DOMAIN todo
    PROVE  Fitted(s) \in Model
<1>1. s \in Services /\ todo[s] \in Draft /\ now \in Nat
  BY BoundsAssumption DEF FitterTypeOK
<1>. QED  BY <1>1 DEF Fitted, Model, Draft

LEMMA FitterDecidesType ==
    ASSUME TypeOK, FitterDecides
    PROVE  TypeOK'
<1>1. PICK s \in Services : Dismiss(s) \/ Accept(s)
  BY DEF FitterDecides
<1>2. todo' \in [DOMAIN todo' -> Draft] /\ DOMAIN todo' \subseteq Services
  BY <1>1, WithoutType DEF TypeOK, Dismiss, Accept
<1>3. CASE Dismiss(s)
  BY <1>2, <1>3, FitterStepType
     DEF TypeOK, FitterTypeOK, Dismiss, FitterDecides, loopVars
<1>4. CASE Accept(s)
  <2>1. post' \in Model
    BY <1>4, FittedType DEF TypeOK, Accept
  <2>2. FitterTypeOK'
    BY <1>2, <1>4, <2>1, NoneAssumption DEF TypeOK, FitterTypeOK, Accept
  <2>. QED  BY <2>2, FitterStepType DEF TypeOK, FitterDecides, loopVars
<1>. QED  BY <1>1, <1>3, <1>4

LEMMA ModelPostedType ==
    ASSUME TypeOK, ModelPosted
    PROVE  TypeOK'
<1>1. post \in Model
  BY DEF TypeOK, FitterTypeOK, ModelPosted, OnPosted
<1>2. TwinTypeOK'
  BY <1>1, IngestRouteModelType DEF TypeOK, ModelPosted
<1>3. FitterTypeOK'
  BY <1>1 DEF TypeOK, FitterTypeOK, ModelPosted, OnPosted
<1>. QED  BY <1>2, <1>3 DEF TypeOK, ModelPosted, loopVars

LEMMA ModelPostFailsType ==
    ASSUME TypeOK, ModelPostFails
    PROVE  TypeOK'
<1>1. ModelCall(post) \in Call
  BY DEF TypeOK, FitterTypeOK, ModelPostFails, OnPostError, ModelCall, Call
<1>2. late' \subseteq Call
  BY <1>1, AbandonType DEF TypeOK, ModelPostFails
<1>3. FitterTypeOK'
  BY DEF TypeOK, FitterTypeOK, ModelPostFails, OnPostError
<1>. QED  BY <1>2, <1>3, FitterStepType DEF ModelPostFails

LEMMA FitterPublishesType ==
    ASSUME TypeOK, FitterPublishes
    PROVE  TypeOK'
<1>1. FitterTypeOK'
  BY DEF TypeOK, FitterTypeOK, FitterPublishes, Publish
<1>. QED  BY <1>1, FitterStepType DEF TypeOK, FitterPublishes, loopVars

LEMMA CrashType ==
    ASSUME TypeOK, Crash
    PROVE  TypeOK'
<1>1. late' \subseteq Call
  <2>1. CASE post = None
    BY <2>1 DEF TypeOK, Crash
  <2>2. CASE post # None
    <3>1. ModelCall(post) \in Call
      BY <2>2 DEF TypeOK, FitterTypeOK, ModelCall, Call
    <3>. QED  BY <2>2, <3>1, AbandonType DEF TypeOK, Crash
  <2>. QED  BY <2>1, <2>2
<1>2. FitterTypeOK'
  <2>1. Empty \in [DOMAIN Empty -> Draft] /\ DOMAIN Empty \subseteq Services
    BY EmptyPartial, PartialIs
  <2>. QED  BY <2>1 DEF TypeOK, FitterTypeOK, Crash, FitterRestart
<1>. QED  BY <1>1, <1>2, FitterStepType DEF Crash

LEMMA RetentionType ==
    ASSUME TypeOK, Retention
    PROVE  TypeOK'
<1>1. TwinTypeOK'
  BY RunRetentionType DEF TypeOK, Retention
<1>. QED  BY <1>1 DEF TypeOK, FitterTypeOK, Retention, fitterVars, loopVars

LEMMA TickType ==
    ASSUME TypeOK, Tick
    PROVE  TypeOK'
<1>1. clock' \in Second /\ 1..clock \subseteq 1..clock'
  BY BoundsAssumption DEF TypeOK, Tick, Second
<1>. QED
  BY <1>1 DEF TypeOK, TwinTypeOK, FitterTypeOK, Tick, twinVars, fitterVars, RouteModels

LEMMA NextType == TypeOK /\ [Next]_vars => TypeOK'
<1>. SUFFICES ASSUME TypeOK, [Next]_vars PROVE TypeOK'
  OBVIOUS
<1>1. ASSUME NEW rates \in Traffic, NEW watts \in Partial(Services, Watts),
             Measure(rates, watts)
      PROVE  TypeOK'
  BY <1>1, MeasureType
<1>2. ASSUME NEW c \in late, TwinServesLate(c) PROVE TypeOK'
  BY <1>2, TwinServesLateType
<1>3. CASE UNCHANGED vars
  BY <1>3 DEF TypeOK, TwinTypeOK, FitterTypeOK, vars, twinVars, fitterVars, loopVars, RouteModels
<1>. QED
  BY <1>1, <1>2, <1>3, PushDoneType, PushFailsType, FitterBeginsType, HistoryReadType,
     HistoryFailsType, FitterDecidesType, ModelPostedType, ModelPostFailsType,
     FitterPublishesType, CrashType, RetentionType, TickType DEF Next

\* TypeOK: series, designs, models and calls keep their types, whatever is measured,
\* lost, late, removed or restarted.
THEOREM TypeCorrect == Spec => []TypeOK
BY InitType, NextType, PTL DEF Spec
----------------------------------------------------------------------------
(***************************************************************************)
(* What the twin holds of a second is what was pushed for it.              *)
(***************************************************************************)
\* A push is the measurement of its second.
Measured(p) == p.t \in DOMAIN pushes /\ pushes[p.t] = p

PushesMeasured ==
    /\ push # None => Measured(push)
    /\ \A c \in late : c.op = "routes" => Measured(c.body)

RatesMeasured ==
    \A r \in RouteNames : \A t \in DOMAIN rps[r] :
        r \in DOMAIN pushes[t].rates /\ rps[r][t] = pushes[t].rates[r]

WattsMeasured ==
    \A s \in Services : power[s] # None =>
        \A t \in DOMAIN power[s] :
            s \in DOMAIN pushes[t].watts /\ power[s][t] = pushes[t].watts[s]

\* A push is taken in whole, and retention removes it whole.
SecondsWhole ==
    \A t \in Times : /\ t \in DOMAIN pushes
                     /\ \A r \in DOMAIN pushes[t].rates : t \in DOMAIN rps[r]

SeriesInv == PushesMeasured /\ RatesMeasured /\ WattsMeasured /\ SecondsWhole

\* A route that was requested at one tick is requested at every later one.
OnlyStarts ==
    \A t, u \in DOMAIN pushes : t <= u => DOMAIN pushes[t].rates \subseteq DOMAIN pushes[u].rates

\* Every sample on its way from the series to a model is of one tick.
Ticked(s, samples) == \A x \in samples : OfOneTick(s, x)

ModelsTicked == \A s \in RouteModels : Ticked(s, model[s].samples)
TodoTicked   == \A s \in DOMAIN todo : Ticked(s, todo[s].samples)
PostTicked   == post # None => Ticked(post.service, post.samples)
LateTicked   == \A c \in late : c.op = "model" => Ticked(c.body.service, c.body.samples)

SamplesInv == ModelsTicked /\ TodoTicked /\ PostTicked /\ LateTicked

\* What was measured is never changed.
PushesGrow == \A t \in DOMAIN pushes : t \in DOMAIN pushes' /\ pushes'[t] = pushes[t]

LEMMA TickedStable ==
    ASSUME PushesGrow, NEW s, NEW x, OfOneTick(s, x)
    PROVE  OfOneTick(s, x)'
BY DEF PushesGrow, OfOneTick, Rate

LEMMA MeasuredStable ==
    ASSUME PushesGrow, NEW p, Measured(p)
    PROVE  Measured(p)'
BY DEF PushesGrow, Measured

LEMMA MeasureGrows ==
    ASSUME TypeOK, NEW rates, NEW watts, Measure(rates, watts)
    PROVE  /\ PushesGrow /\ clock \notin DOMAIN pushes
           /\ DOMAIN pushes' = DOMAIN pushes \union {clock} /\ pushes'[clock] = push'
<1>1. clock \notin DOMAIN pushes
  BY BoundsAssumption DEF TypeOK, Measure, Second
<1>2. pushes' = SetAt(pushes, clock, push')
  BY DEF Measure
<1>3. DOMAIN pushes' = DOMAIN pushes \union {clock} /\ pushes'[clock] = push'
  BY <1>2 DEF SetAt
<1>4. \A t \in DOMAIN pushes : pushes'[t] = pushes[t]
  BY <1>1, <1>2 DEF SetAt
<1>. QED  BY <1>1, <1>3, <1>4 DEF PushesGrow

LEMMA NextGrows ==
    ASSUME TypeOK, [Next]_vars
    PROVE  PushesGrow
<1>1. ASSUME NEW rates, NEW watts, Measure(rates, watts) PROVE PushesGrow
  BY <1>1, MeasureGrows
<1>2. CASE UNCHANGED pushes
  BY <1>2 DEF PushesGrow
<1>. QED
  BY <1>1, <1>2 DEF Next, vars, loopVars, PushDone, PushFails, TwinServesLate, FitterBegins,
     HistoryRead, HistoryFails, FitterDecides, ModelPosted, ModelPostFails, FitterPublishes,
     Crash, Retention, Tick

\* Taking a push in writes the samples of its second and no other.
LEMMA IngestRoutesMeasured ==
    ASSUME TypeOK, SeriesInv, NEW p \in Push, Measured(p), IngestRoutes(p), pushes' = pushes
    PROVE  RatesMeasured' /\ WattsMeasured' /\ SecondsWhole'
<1>1. /\ DOMAIN p.rates \subseteq RouteNames /\ DOMAIN p.watts \subseteq Services
      /\ p.t \in DOMAIN pushes /\ pushes[p.t] = p
  BY PartialIs DEF Push, Measured
<1>2. ASSUME NEW r \in RouteNames
      PROVE  /\ r \in DOMAIN p.rates =>
                  /\ DOMAIN rps'[r] = DOMAIN rps[r] \union {p.t}
                  /\ rps'[r][p.t] = p.rates[r]
                  /\ \A t \in DOMAIN rps[r] \ {p.t} : rps'[r][t] = rps[r][t]
             /\ r \notin DOMAIN p.rates => rps'[r] = rps[r]
  <2>1. rps'[r] = IF r \in DOMAIN p.rates THEN SetAt(rps[r], p.t, p.rates[r]) ELSE rps[r]
    BY DEF IngestRoutes
  <2>. QED  BY <2>1 DEF SetAt
<1>3. ASSUME NEW s \in Services, power'[s] # None, NEW t \in DOMAIN power'[s]
      PROVE  \/ s \in DOMAIN p.watts /\ t = p.t /\ power'[s][t] = p.watts[s]
             \/ power[s] # None /\ t \in DOMAIN power[s] /\ power'[s][t] = power[s][t]
  <2>1. CASE s \in DOMAIN p.watts /\ power[s] = None
    <3>1. power'[s] = SetAt(Empty, p.t, p.watts[s]) /\ DOMAIN Empty = {}
      BY <2>1, EmptyPartial DEF IngestRoutes
    <3>. QED  BY <1>3, <2>1, <3>1 DEF SetAt
  <2>2. CASE s \in DOMAIN p.watts /\ power[s] # None
    <3>1. power'[s] = SetAt(power[s], p.t, p.watts[s])
      BY <2>2 DEF IngestRoutes
    <3>. QED  BY <1>3, <2>2, <3>1 DEF SetAt
  <2>3. CASE s \notin DOMAIN p.watts
    BY <1>3, <2>3 DEF IngestRoutes
  <2>. QED  BY <2>1, <2>2, <2>3
<1>4. RatesMeasured'
  <2>. SUFFICES ASSUME NEW r \in RouteNames, NEW t \in DOMAIN rps'[r]
                PROVE  r \in DOMAIN pushes[t].rates /\ rps'[r][t] = pushes[t].rates[r]
    BY DEF RatesMeasured
  <2>1. CASE r \in DOMAIN p.rates /\ t = p.t
    BY <1>1, <1>2, <2>1
  <2>2. CASE ~(r \in DOMAIN p.rates /\ t = p.t)
    <3>1. t \in DOMAIN rps[r] /\ rps'[r][t] = rps[r][t]
      BY <1>2, <2>2
    <3>. QED  BY <3>1 DEF SeriesInv, RatesMeasured
  <2>. QED  BY <2>1, <2>2
<1>5. WattsMeasured'
  <2>. SUFFICES ASSUME NEW s \in Services, power'[s] # None, NEW t \in DOMAIN power'[s]
                PROVE  s \in DOMAIN pushes[t].watts /\ power'[s][t] = pushes[t].watts[s]
    BY DEF WattsMeasured
  <2>1. CASE s \in DOMAIN p.watts /\ t = p.t /\ power'[s][t] = p.watts[s]
    BY <1>1, <2>1
  <2>2. CASE power[s] # None /\ t \in DOMAIN power[s] /\ power'[s][t] = power[s][t]
    BY <2>2 DEF SeriesInv, WattsMeasured
  <2>. QED  BY <1>3, <2>1, <2>2
<1>6. SecondsWhole'
  <2>1. \A r \in RouteNames : DOMAIN rps[r] \subseteq DOMAIN rps'[r]
    BY <1>2
  <2>2. \A r \in DOMAIN p.rates : p.t \in DOMAIN rps'[r]
    BY <1>1, <1>2
  <2>3. ASSUME NEW t \in Times' PROVE t \in Times \/ t = p.t
    <3>1. ASSUME NEW r \in RouteNames, t \in DOMAIN rps'[r]
          PROVE  t \in DOMAIN rps[r] \/ t = p.t
      BY <1>2, <3>1
    <3>2. ASSUME NEW s \in Services, power'[s] # None, t \in DOMAIN power'[s]
          PROVE  (power[s] # None /\ t \in DOMAIN power[s]) \/ t = p.t
      BY <1>3, <3>2
    <3>. QED  BY <3>1, <3>2 DEF Times
  <2>. SUFFICES ASSUME NEW t \in Times'
                PROVE  t \in DOMAIN pushes /\ \A r \in DOMAIN pushes[t].rates : t \in DOMAIN rps'[r]
    BY DEF SecondsWhole
  <2>4. CASE t = p.t
    BY <1>1, <2>2, <2>4
  <2>5. CASE t \in Times
    <3>1. t \in DOMAIN pushes /\ \A r \in DOMAIN pushes[t].rates : t \in DOMAIN rps[r]
      BY <2>5 DEF SeriesInv, SecondsWhole
    <3>2. DOMAIN pushes[t].rates \subseteq RouteNames
      BY <3>1, PartialIs DEF TypeOK, Push
    <3>. QED  BY <2>1, <3>1, <3>2
  <2>. QED  BY <2>3, <2>4, <2>5
<1>. QED  BY <1>4, <1>5, <1>6

\* Retention removes the same seconds from every series.
LEMMA RunRetentionMeasured ==
    ASSUME TypeOK, SeriesInv, NEW now0 \in Int, RunRetention(now0), pushes' = pushes
    PROVE  RatesMeasured' /\ WattsMeasured' /\ SecondsWhole'
<1>. DEFINE cutoff == now0 - KeepFor
<1>1. \A r \in RouteNames : rps'[r] = Prune(rps[r], cutoff)
  BY DEF RunRetention
<1>2. \A s \in Services : power'[s] = IF power[s] = None THEN None ELSE Prune(power[s], cutoff)
  BY DEF RunRetention
<1>. HIDE DEF cutoff
<1>3. RatesMeasured'
  <2>. SUFFICES ASSUME NEW r \in RouteNames, NEW t \in DOMAIN rps'[r]
                PROVE  r \in DOMAIN pushes[t].rates /\ rps'[r][t] = pushes[t].rates[r]
    BY DEF RatesMeasured
  <2>1. t \in DOMAIN rps[r] /\ rps'[r][t] = rps[r][t]
    BY <1>1 DEF Prune
  <2>. QED  BY <2>1 DEF SeriesInv, RatesMeasured
<1>4. WattsMeasured'
  <2>. SUFFICES ASSUME NEW s \in Services, power'[s] # None, NEW t \in DOMAIN power'[s]
                PROVE  s \in DOMAIN pushes[t].watts /\ power'[s][t] = pushes[t].watts[s]
    BY DEF WattsMeasured
  <2>1. power[s] # None /\ power'[s] = Prune(power[s], cutoff)
    BY <1>2
  <2>2. t \in DOMAIN power[s] /\ power'[s][t] = power[s][t]
    BY <2>1 DEF Prune
  <2>. QED  BY <2>1, <2>2 DEF SeriesInv, WattsMeasured
<1>5. \A t \in Times' : t \in Times /\ t >= cutoff
  <2>1. ASSUME NEW r \in RouteNames, NEW t \in DOMAIN rps'[r]
        PROVE  t \in DOMAIN rps[r] /\ t >= cutoff
    BY <1>1 DEF Prune
  <2>2. ASSUME NEW s \in Services, power'[s] # None, NEW t \in DOMAIN power'[s]
        PROVE  power[s] # None /\ t \in DOMAIN power[s] /\ t >= cutoff
    BY <1>2, <2>2 DEF Prune
  <2>. QED  BY <2>1, <2>2 DEF Times
<1>6. SecondsWhole'
  <2>. SUFFICES ASSUME NEW t \in Times'
                PROVE  t \in DOMAIN pushes /\ \A r \in DOMAIN pushes[t].rates : t \in DOMAIN rps'[r]
    BY DEF SecondsWhole
  <2>1. t \in DOMAIN pushes /\ \A r \in DOMAIN pushes[t].rates : t \in DOMAIN rps[r]
    BY <1>5 DEF SeriesInv, SecondsWhole
  <2>2. DOMAIN pushes[t].rates \subseteq RouteNames
    BY <2>1, PartialIs DEF TypeOK, Push
  <2>. QED  BY <1>1, <1>5, <2>1, <2>2 DEF Prune
<1>. QED  BY <1>3, <1>4, <1>6

\* A step that leaves the series alone leaves them measured.
LEMMA SeriesStable ==
    ASSUME TypeOK, SeriesInv, PushesGrow, UNCHANGED <<rps, power>>
    PROVE  RatesMeasured' /\ WattsMeasured' /\ SecondsWhole'
<1>1. Times' = Times
  BY DEF Times
<1>2. \A t \in Times : t \in DOMAIN pushes
  BY DEF SeriesInv, SecondsWhole
<1>3. RatesMeasured'
  <2>1. ASSUME NEW r \in RouteNames, NEW t \in DOMAIN rps[r] PROVE t \in DOMAIN pushes
    BY <1>2 DEF Times
  <2>. QED  BY <2>1 DEF SeriesInv, RatesMeasured, PushesGrow
<1>4. WattsMeasured'
  <2>1. ASSUME NEW s \in Services, power[s] # None, NEW t \in DOMAIN power[s]
        PROVE  t \in DOMAIN pushes
    BY <1>2, <2>1 DEF Times
  <2>. QED  BY <2>1 DEF SeriesInv, WattsMeasured, PushesGrow
<1>5. SecondsWhole'
  BY <1>1 DEF SeriesInv, SecondsWhole, PushesGrow
<1>. QED  BY <1>3, <1>4, <1>5

\* Neither does one that drops pushes on their way, or moves them to the twin's queue.
LEMMA PushesStable ==
    ASSUME SeriesInv, PushesGrow, push' \in {push, None},
           \A c \in late' : c \in late \/ c.op = "model" \/ (push # None /\ c.body = push)
    PROVE  PushesMeasured'
<1>1. push # None => push.t \in DOMAIN pushes' /\ pushes'[push.t] = push
  BY DEF PushesGrow, SeriesInv, PushesMeasured, Measured
<1>2. \A c \in late : c.op = "routes" => Measured(c.body)'
  BY MeasuredStable DEF SeriesInv, PushesMeasured
<1>. QED  BY <1>1, <1>2 DEF PushesMeasured, Measured

\* Only a post of the fitter joins the queue.
LEMMA AbandonModel ==
    ASSUME NEW m, Abandon(ModelCall(m)) \/ UNCHANGED late
    PROVE  \A c \in late' : c \in late \/ c.op = "model"
BY DEF Abandon, ModelCall

LEMMA SeriesStep ==
    ASSUME TypeOK, SeriesInv, [Next]_vars
    PROVE  SeriesInv'
<1>1. PushesGrow
  BY NextGrows
<1>2. ASSUME UNCHANGED <<rps, power, push>>,
             \A c \in late' : c \in late \/ c.op = "model"
      PROVE  SeriesInv'
  BY <1>1, <1>2, SeriesStable, PushesStable DEF SeriesInv
<1>3. ASSUME NEW rates \in Traffic, NEW watts \in Partial(Services, Watts), Measure(rates, watts)
      PROVE  SeriesInv'
  <2>1. RatesMeasured' /\ WattsMeasured' /\ SecondsWhole'
    BY <1>1, <1>3, SeriesStable DEF Measure, twinVars
  <2>2. push'.t = clock
    BY <1>3 DEF Measure
  <2>3. Measured(push)'
    BY <1>3, <2>2, MeasureGrows DEF Measured
  <2>4. \A c \in late : c.op = "routes" => Measured(c.body)'
    BY <1>1, MeasuredStable DEF SeriesInv, PushesMeasured
  <2>5. PushesMeasured'
    BY <1>3, <2>3, <2>4 DEF PushesMeasured, Measure, Measured
  <2>. QED  BY <2>1, <2>5 DEF SeriesInv
<1>4. CASE PushDone
  <2>1. push \in Push /\ Measured(push)
    BY <1>4 DEF PushDone, TypeOK, SeriesInv, PushesMeasured
  <2>2. RatesMeasured' /\ WattsMeasured' /\ SecondsWhole'
    BY <1>4, <2>1, IngestRoutesMeasured DEF PushDone
  <2>3. PushesMeasured'
    BY <1>1, <1>4, PushesStable DEF PushDone
  <2>. QED  BY <2>2, <2>3 DEF SeriesInv
<1>5. CASE PushFails
  <2>1. PushesMeasured'
    BY <1>1, <1>5, PushesStable DEF PushFails, Abandon, RoutesCall
  <2>. QED  BY <1>1, <1>5, <2>1, SeriesStable DEF SeriesInv, PushFails, twinVars
<1>6. ASSUME NEW c \in late, TwinServesLate(c) PROVE SeriesInv'
  <2>1. PushesMeasured'
    BY <1>1, <1>6, PushesStable DEF TwinServesLate
  <2>2. CASE c.op = "routes" /\ IngestRoutes(c.body)
    <3>1. c.body \in Push /\ Measured(c.body)
      BY <2>2 DEF TypeOK, Call, SeriesInv, PushesMeasured
    <3>2. RatesMeasured' /\ WattsMeasured' /\ SecondsWhole'
      BY <1>6, <2>2, <3>1, IngestRoutesMeasured DEF TwinServesLate
    <3>. QED  BY <2>1, <3>2 DEF SeriesInv
  <2>3. CASE c.op = "model" /\ IngestRouteModel(c.body)
    BY <1>1, <2>1, <2>3, SeriesStable DEF SeriesInv, IngestRouteModel
  <2>. QED  BY <1>6, <2>2, <2>3 DEF TwinServesLate, Serve
<1>7. CASE FitterBegins \/ HistoryRead \/ HistoryFails \/ FitterDecides \/ FitterPublishes
  BY <1>2, <1>7 DEF FitterBegins, HistoryRead, HistoryFails, FitterDecides, FitterPublishes,
     twinVars, loopVars
<1>8. CASE ModelPosted
  BY <1>2, <1>8 DEF ModelPosted, IngestRouteModel, loopVars
<1>9. CASE ModelPostFails \/ Crash
  <2>1. \A c \in late' : c \in late \/ c.op = "model"
    BY <1>9, AbandonModel DEF ModelPostFails, Crash
  <2>. QED  BY <1>2, <1>9, <2>1 DEF ModelPostFails, Crash, twinVars
<1>10. CASE Retention
  <2>1. clock \in Int
    BY BoundsAssumption DEF TypeOK, Second
  <2>2. RatesMeasured' /\ WattsMeasured' /\ SecondsWhole'
    BY <1>10, <2>1, RunRetentionMeasured DEF Retention, loopVars
  <2>3. PushesMeasured'
    BY <1>1, <1>10, PushesStable DEF Retention, loopVars
  <2>. QED  BY <2>2, <2>3 DEF SeriesInv
<1>11. CASE Tick \/ UNCHANGED vars
  BY <1>2, <1>11 DEF Tick, vars, twinVars, loopVars
<1>. QED
  BY <1>3, <1>4, <1>5, <1>6, <1>7, <1>8, <1>9, <1>10, <1>11 DEF Next
----------------------------------------------------------------------------
(***************************************************************************)
(* Samples, while no route stops being requested.                          *)
(***************************************************************************)
\* The attributor measures the routes of the last tick again, and maybe more.
LEMMA OnlyStartsStep ==
    ASSUME "quiet" \notin Faults, TypeOK, OnlyStarts, [Next]_vars
    PROVE  OnlyStarts'
<1>1. ASSUME NEW rates \in Traffic, NEW watts \in Partial(Services, Watts), Measure(rates, watts)
      PROVE  OnlyStarts'
  <2>1. ASSUME NEW t \in DOMAIN pushes PROVE DOMAIN pushes[t].rates \subseteq DOMAIN rates
    <3>1. DOMAIN pushes \in SUBSET Nat /\ DOMAIN pushes # {} /\ clock \in Nat
          /\ \A u \in DOMAIN pushes : u <= clock
      BY BoundsAssumption DEF TypeOK, Second
    <3>2. Max(DOMAIN pushes) \in DOMAIN pushes /\ t <= Max(DOMAIN pushes)
      BY <3>1, MaxExists
    <3>3. pushes # Empty
      BY <3>1, EmptyPartial
    <3>4. DOMAIN pushes[Max(DOMAIN pushes)].rates \subseteq DOMAIN rates
      BY <1>1, <3>3 DEF Measure, Active
    <3>. QED  BY <3>2, <3>4 DEF OnlyStarts
  <2>2. /\ PushesGrow /\ DOMAIN pushes' = DOMAIN pushes \union {clock}
        /\ pushes'[clock] = push' /\ push'.rates = rates
        /\ \A u \in DOMAIN pushes : u < clock
    BY <1>1, MeasureGrows DEF Measure
  <2>. SUFFICES ASSUME NEW t \in DOMAIN pushes', NEW u \in DOMAIN pushes', t <= u
                PROVE  DOMAIN pushes'[t].rates \subseteq DOMAIN pushes'[u].rates
    BY DEF OnlyStarts
  <2>3. CASE u = clock
    BY <2>1, <2>2, <2>3 DEF PushesGrow
  <2>4. CASE u # clock
    <3>1. u \in DOMAIN pushes /\ t \in DOMAIN pushes
      BY <2>2, <2>4, BoundsAssumption DEF TypeOK, Second
    <3>. QED  BY <2>2, <3>1 DEF OnlyStarts, PushesGrow
  <2>. QED  BY <2>3, <2>4
<1>2. CASE UNCHANGED pushes
  BY <1>2 DEF OnlyStarts
<1>. QED
  BY <1>1, <1>2 DEF Next, vars, loopVars, PushDone, PushFails, TwinServesLate, FitterBegins,
     HistoryRead, HistoryFails, FitterDecides, ModelPosted, ModelPostFails, FitterPublishes,
     Crash, Retention, Tick

\* A row is one route of the tick of its second: what resolveAt finds is never older.
LEMMA RowTicked ==
    ASSUME TypeOK, SeriesInv, OnlyStarts, NEW from, NEW to, NEW row \in RouteHistory(from, to)
    PROVE  /\ row.service \in Services /\ row.t \in DOMAIN pushes
           /\ row.service \in DOMAIN pushes[row.t].watts
           /\ row.watts = pushes[row.t].watts[row.service]
           /\ row.route \in DOMAIN pushes[row.t].rates
           /\ row.rps = pushes[row.t].rates[row.route]
<1>1. /\ row.service \in Services /\ power[row.service] # None
      /\ row.t \in DOMAIN power[row.service]
      /\ row.watts = power[row.service][row.t]
      /\ row.route \in RouteNames
      /\ row.rps = ResolveAt(rps[row.route], row.t) /\ row.rps # None
  BY HistoryRow
<1>2. /\ row.t \in Times /\ row.t \in DOMAIN pushes /\ row.t \in Nat
      /\ rps[row.route] \in Partial(Second, Rates)
  <2>1. row.t \in Times
    BY <1>1 DEF Times
  <2>. QED  BY <1>1, <2>1, BoundsAssumption DEF SeriesInv, SecondsWhole, TypeOK, TwinTypeOK
<1>3. row.route \in DOMAIN pushes[row.t].rates
  <2>1. UpTo(rps[row.route], row.t) # {}
    BY <1>1 DEF ResolveAt
  <2>2. PICK x \in DOMAIN rps[row.route] : x <= row.t
    BY <1>2, <2>1, ResolveAtIs
  <2>3. x \in DOMAIN pushes /\ row.route \in DOMAIN pushes[x].rates
    BY <1>1 DEF Times, SeriesInv, SecondsWhole, RatesMeasured
  <2>. QED  BY <1>2, <2>2, <2>3 DEF OnlyStarts
<1>4. row.t \in DOMAIN rps[row.route]
  BY <1>2, <1>3 DEF SeriesInv, SecondsWhole
<1>5. row.rps = rps[row.route][row.t]
  BY <1>1, <1>2, <1>4, ResolveAtIs
<1>. QED  BY <1>1, <1>2, <1>3, <1>4, <1>5 DEF SeriesInv, WattsMeasured, RatesMeasured

\* A route without a row in a second that has rows was not requested in it.
LEMMA NoRowNoRequest ==
    ASSUME TypeOK, SeriesInv, OnlyStarts, NEW from, NEW to,
           NEW x \in RouteHistory(from, to), NEW r \in DOMAIN pushes[x.t].rates
    PROVE  \E y \in RouteHistory(from, to) : y.service = x.service /\ y.t = x.t /\ y.route = r
<1>1. /\ x.service \in Services /\ power[x.service] # None /\ x.t \in DOMAIN power[x.service]
      /\ from <= x.t /\ x.t <= to
  BY HistoryRow
<1>2. x.t \in Times /\ x.t \in DOMAIN pushes
  <2>1. x.t \in Times
    BY <1>1 DEF Times
  <2>. QED  BY <2>1 DEF SeriesInv, SecondsWhole
<1>3. r \in RouteNames /\ pushes[x.t].rates[r] \in Rates
  BY <1>2, PartialIs DEF TypeOK, Push
<1>4. /\ x.t \in DOMAIN rps[r] /\ rps[r][x.t] = pushes[x.t].rates[r]
      /\ rps[r] \in Partial(Second, Rates) /\ x.t \in Nat
  BY <1>2, <1>3, BoundsAssumption DEF SeriesInv, SecondsWhole, RatesMeasured, TypeOK, TwinTypeOK
<1>5. ResolveAt(rps[r], x.t) # None
  BY <1>3, <1>4, ResolveAtIs, NoneAssumption
<1>. QED  BY <1>1, <1>3, <1>5, RowOfHistory

\* So the designs of a round hold samples of one tick each.
LEMMA DesignTicked ==
    ASSUME TypeOK, SeriesInv, OnlyStarts, NEW from, NEW to
    PROVE  \A s \in DOMAIN Design(RouteHistory(from, to)) :
               Ticked(s, Design(RouteHistory(from, to))[s].samples)
<1>. DEFINE rows == RouteHistory(from, to)
            routes == {x.route : x \in rows}
            At(s, x, r) == {y \in rows : y.service = s /\ y.t = x.t /\ y.route = r}
            Rated(s, x) == [r \in routes |-> IF At(s, x, r) = {} THEN 0
                                             ELSE (CHOOSE y \in At(s, x, r) : TRUE).rps]
            Of(s) == {[t |-> x.t, watts |-> x.watts, rates |-> Rated(s, x)] :
                        x \in {y \in rows : y.service = s}}
<1>1. Design(rows) = [s \in {x.service : x \in rows} |->
                        [routes |-> routes, samples |-> Of(s)]]
  BY DEF Design
<1>2. ASSUME NEW x \in rows
      PROVE  OfOneTick(x.service, [t |-> x.t, watts |-> x.watts, rates |-> Rated(x.service, x)])
  <2>1. /\ x.t \in DOMAIN pushes
        /\ x.service \in DOMAIN pushes[x.t].watts /\ x.watts = pushes[x.t].watts[x.service]
    BY RowTicked
  <2>2. ASSUME NEW r \in routes
        PROVE  Rated(x.service, x)[r] = Rate(pushes[x.t], r)
    <3>1. CASE At(x.service, x, r) = {}
      <4>1. r \notin DOMAIN pushes[x.t].rates
        BY <3>1, NoRowNoRequest
      <4>. QED  BY <3>1, <4>1 DEF Rate
    <3>2. CASE At(x.service, x, r) # {}
      <4>. DEFINE y == CHOOSE z \in At(x.service, x, r) : TRUE
      <4>1. y \in rows /\ y.t = x.t /\ y.route = r
        BY <3>2
      <4>2. Rated(x.service, x)[r] = y.rps
        BY <3>2
      <4>. HIDE DEF y
      <4>3. r \in DOMAIN pushes[x.t].rates /\ y.rps = pushes[x.t].rates[r]
        BY <4>1, RowTicked
      <4>. QED  BY <4>2, <4>3 DEF Rate
    <3>. QED  BY <3>1, <3>2
  <2>3. DOMAIN Rated(x.service, x) = routes
    OBVIOUS
  <2>. HIDE DEF Rated, routes
  <2>. QED  BY <2>1, <2>2, <2>3 DEF OfOneTick
<1>3. ASSUME NEW s, NEW x \in Of(s) PROVE OfOneTick(s, x)
  <2>1. PICK y \in rows : y.service = s /\ x = [t |-> y.t, watts |-> y.watts, rates |-> Rated(s, y)]
    OBVIOUS
  <2>. HIDE DEF Rated
  <2>. QED  BY <1>2, <2>1
<1>. HIDE DEF rows, routes, Of
<1>4. \A s \in DOMAIN Design(rows) : Ticked(s, Design(rows)[s].samples)
  BY <1>1, <1>3 DEF Ticked
<1>. QED  BY <1>4 DEF rows

\* The twin takes a model with its samples.
LEMMA IngestModelTicked ==
    ASSUME TypeOK, NEW m \in Model, IngestRouteModel(m), PushesGrow,
           Ticked(m.service, m.samples), ModelsTicked
    PROVE  ModelsTicked'
<1>1. ASSUME NEW s \in Services, model'[s] # None, NEW x \in model'[s].samples
      PROVE  OfOneTick(s, x)
  <2>1. m.service \in Services
    BY DEF Model
  <2>2. model'[s] = model[s] \/ (s = m.service /\ model'[s] = m)
    BY <2>1 DEF IngestRouteModel, TypeOK, TwinTypeOK
  <2>. QED  BY <1>1, <2>2 DEF Ticked, ModelsTicked, RouteModels
<1>. QED  BY <1>1, TickedStable DEF ModelsTicked, Ticked, RouteModels

\* A call that is abandoned keeps its samples.
LEMMA AbandonTicked ==
    ASSUME NEW m, Abandon(ModelCall(m)) \/ UNCHANGED late, PushesGrow,
           Ticked(m.service, m.samples), LateTicked
    PROVE  LateTicked'
<1>1. ASSUME NEW c \in late', c.op = "model", NEW x \in c.body.samples
      PROVE  OfOneTick(c.body.service, x)
  <2>1. c \in late \/ c = ModelCall(m)
    BY <1>1 DEF Abandon
  <2>. QED  BY <1>1, <2>1 DEF LateTicked, Ticked, ModelCall
<1>. QED  BY <1>1, TickedStable DEF LateTicked, Ticked

\* A step that takes samples from nowhere else keeps them.
LEMMA SamplesStable ==
    ASSUME SamplesInv, PushesGrow
    PROVE  /\ UNCHANGED model => ModelsTicked'
           /\ UNCHANGED todo \/ (\E s : todo' = Without(s)) \/ todo' = Empty => TodoTicked'
           /\ UNCHANGED post \/ post' = None => PostTicked'
           /\ late' \subseteq late => LateTicked'
<1>1. ASSUME UNCHANGED model PROVE ModelsTicked'
  BY <1>1, TickedStable DEF SamplesInv, ModelsTicked, Ticked, RouteModels
<1>2. ASSUME UNCHANGED todo \/ (\E s : todo' = Without(s)) \/ todo' = Empty PROVE TodoTicked'
  <2>1. \A s \in DOMAIN todo' : s \in DOMAIN todo /\ todo'[s] = todo[s]
    BY <1>2, EmptyPartial DEF Without
  <2>. QED  BY <2>1, TickedStable DEF SamplesInv, TodoTicked, Ticked
<1>3. ASSUME UNCHANGED post \/ post' = None PROVE PostTicked'
  BY <1>3, TickedStable DEF SamplesInv, PostTicked, Ticked
<1>4. ASSUME late' \subseteq late PROVE LateTicked'
  BY <1>4, TickedStable DEF SamplesInv, LateTicked, Ticked
<1>. QED  BY <1>1, <1>2, <1>3, <1>4

LEMMA SamplesStep ==
    ASSUME TypeOK, SeriesInv, OnlyStarts, SamplesInv, [Next]_vars
    PROVE  SamplesInv'
<1>1. PushesGrow
  BY NextGrows
<1>2. CASE \/ \E rates \in Traffic, watts \in Partial(Services, Watts) : Measure(rates, watts)
           \/ PushDone \/ FitterBegins \/ HistoryFails \/ FitterPublishes \/ Tick \/ UNCHANGED vars
  <2>1. UNCHANGED <<model, todo, post, late>>
    BY <1>2 DEF Measure, PushDone, IngestRoutes, FitterBegins, Begin, HistoryFails,
       OnHistoryError, FitterPublishes, Publish, Tick, vars, twinVars, fitterVars, loopVars
  <2>. QED  BY <1>1, <2>1, SamplesStable DEF SamplesInv
<1>3. CASE PushFails
  <2>1. LateTicked'
    <3>1. \A c \in late' : c \in late \/ c.op = "routes"
      BY <1>3 DEF PushFails, Abandon, RoutesCall
    <3>. QED  BY <1>1, <3>1, TickedStable DEF SamplesInv, LateTicked, Ticked
  <2>. QED  BY <1>1, <1>3, <2>1, SamplesStable DEF SamplesInv, PushFails, twinVars, fitterVars
<1>4. ASSUME NEW c \in late, TwinServesLate(c) PROVE SamplesInv'
  <2>1. ModelsTicked'
    <3>1. CASE c.op = "routes" /\ IngestRoutes(c.body)
      BY <1>1, <3>1, SamplesStable DEF IngestRoutes
    <3>2. CASE c.op = "model" /\ IngestRouteModel(c.body)
      <4>1. c.body \in Model /\ Ticked(c.body.service, c.body.samples)
        BY <3>2 DEF TypeOK, Call, SamplesInv, LateTicked
      <4>. QED  BY <1>1, <3>2, <4>1, IngestModelTicked DEF SamplesInv
    <3>. QED  BY <1>4, <3>1, <3>2 DEF TwinServesLate, Serve
  <2>. QED  BY <1>1, <1>4, <2>1, SamplesStable DEF SamplesInv, TwinServesLate, fitterVars
<1>5. CASE HistoryRead
  <2>. DEFINE rows == RouteHistory(now - Window, now)
  <2>1. todo' = Empty \/ todo' = Design(rows)
    BY <1>5 DEF HistoryRead, OnHistory
  <2>2. \A s \in DOMAIN Design(rows) : Ticked(s, Design(rows)[s].samples)
    BY DesignTicked
  <2>. HIDE DEF rows
  <2>3. TodoTicked'
    <3>1. CASE todo' = Empty
      BY <1>1, <3>1, SamplesStable
    <3>2. CASE todo' = Design(rows)
      BY <1>1, <2>2, <3>2, TickedStable DEF TodoTicked, Ticked
    <3>. QED  BY <2>1, <3>1, <3>2
  <2>. QED
    BY <1>1, <1>5, <2>3, SamplesStable DEF SamplesInv, HistoryRead, OnHistory, twinVars, loopVars
<1>6. CASE FitterDecides
  <2>1. PICK s \in Services : Dismiss(s) \/ Accept(s)
    BY <1>6 DEF FitterDecides
  <2>2. PostTicked'
    <3>1. CASE Dismiss(s)
      BY <1>1, <3>1, SamplesStable DEF Dismiss
    <3>2. CASE Accept(s)
      <4>1. post'.service = s /\ post'.samples = todo[s].samples /\ s \in DOMAIN todo
        BY <3>2 DEF Accept, Fitted
      <4>. QED  BY <1>1, <4>1, TickedStable DEF SamplesInv, TodoTicked, PostTicked, Ticked
    <3>. QED  BY <2>1, <3>1, <3>2
  <2>3. todo' = Without(s)
    BY <2>1 DEF Dismiss, Accept
  <2>. QED
    BY <1>1, <1>6, <2>2, <2>3, SamplesStable DEF SamplesInv, FitterDecides, twinVars, loopVars
<1>7. CASE ModelPosted
  <2>1. post \in Model /\ Ticked(post.service, post.samples)
    BY <1>7 DEF ModelPosted, OnPosted, TypeOK, FitterTypeOK, SamplesInv, PostTicked
  <2>2. ModelsTicked'
    BY <1>1, <1>7, <2>1, IngestModelTicked DEF SamplesInv, ModelPosted
  <2>. QED
    BY <1>1, <1>7, <2>2, SamplesStable DEF SamplesInv, ModelPosted, OnPosted, loopVars
<1>8. CASE ModelPostFails
  <2>1. Ticked(post.service, post.samples)
    BY <1>8 DEF ModelPostFails, OnPostError, TypeOK, FitterTypeOK, SamplesInv, PostTicked
  <2>2. LateTicked'
    BY <1>1, <1>8, <2>1, AbandonTicked DEF SamplesInv, ModelPostFails
  <2>. QED
    BY <1>1, <1>8, <2>2, SamplesStable DEF SamplesInv, ModelPostFails, OnPostError, twinVars
<1>9. CASE Crash
  <2>1. LateTicked'
    <3>1. CASE post = None
      BY <1>1, <1>9, <3>1, SamplesStable DEF Crash
    <3>2. CASE post # None
      <4>1. Ticked(post.service, post.samples)
        BY <3>2 DEF SamplesInv, PostTicked
      <4>. QED  BY <1>1, <1>9, <3>2, <4>1, AbandonTicked DEF SamplesInv, Crash
    <3>. QED  BY <3>1, <3>2
  <2>. QED
    BY <1>1, <1>9, <2>1, SamplesStable DEF SamplesInv, Crash, FitterRestart, twinVars
<1>10. CASE Retention
  <2>1. ModelsTicked'
    <3>1. \A s \in Services : model'[s] # None => model'[s] = model[s]
      BY <1>10 DEF Retention, RunRetention
    <3>. QED  BY <1>1, <3>1, TickedStable DEF SamplesInv, ModelsTicked, Ticked, RouteModels
  <2>. QED
    BY <1>1, <1>10, <2>1, SamplesStable DEF SamplesInv, Retention, fitterVars, loopVars
<1>. QED
  BY <1>2, <1>3, <1>4, <1>5, <1>6, <1>7, <1>8, <1>9, <1>10 DEF Next

LEMMA InitMeasured == Init => SeriesInv /\ OnlyStarts /\ SamplesInv
<1>. SUFFICES ASSUME Init PROVE SeriesInv /\ OnlyStarts /\ SamplesInv
  OBVIOUS
<1>1. DOMAIN Empty = {}
  BY EmptyPartial
<1>2. /\ \A r \in RouteNames : rps[r] = Empty
      /\ \A s \in Services : power[s] = None /\ model[s] = None
      /\ push = None /\ late = {} /\ pushes = Empty /\ todo = Empty /\ post = None
  BY DEF Init, TwinInit, FitterInit
<1>3. Times = {}
  BY <1>1, <1>2 DEF Times
<1>4. SeriesInv
  BY <1>1, <1>2, <1>3
     DEF SeriesInv, PushesMeasured, RatesMeasured, WattsMeasured, SecondsWhole
<1>5. OnlyStarts
  BY <1>1, <1>2 DEF OnlyStarts
<1>6. SamplesInv
  BY <1>1, <1>2 DEF SamplesInv, ModelsTicked, TodoTicked, PostTicked, LateTicked, RouteModels
<1>. QED  BY <1>4, <1>5, <1>6

\* Under every fault, the rates and watts the twin holds of a second are what the
\* attributor measured in it.
THEOREM SeriesAreMeasured == Spec => []SeriesInv
<1>1. Init => SeriesInv
  BY InitMeasured
<1>2. TypeOK /\ SeriesInv /\ [Next]_vars => SeriesInv'
  BY SeriesStep
<1>. QED  BY <1>1, <1>2, TypeCorrect, PTL DEF Spec

\* SamplesAligned: while routes may start but not stop, a model is fitted from watts
\* and rates of the same tick, in whatever order the calls of the two processes and
\* retention are executed, fail or run late.
THEOREM FitsAreAligned ==
    ASSUME "quiet" \notin Faults
    PROVE  Spec => []SamplesAligned
<1>1. Init => OnlyStarts /\ SamplesInv
  BY InitMeasured
<1>2. TypeOK /\ SeriesInv /\ OnlyStarts /\ SamplesInv /\ [Next]_vars => OnlyStarts' /\ SamplesInv'
  BY OnlyStartsStep, SamplesStep
<1>3. SamplesInv => SamplesAligned
  BY DEF SamplesInv, ModelsTicked, TodoTicked, Ticked, SamplesAligned, Samples, RouteModels
<1>. QED  BY <1>1, <1>2, <1>3, TypeCorrect, SeriesAreMeasured, PTL DEF Spec
----------------------------------------------------------------------------
(***************************************************************************)
(* What simulate_load evaluates the models at.                             *)
(***************************************************************************)
\* A route's newest rate is that of the newest second the twin knows of, and a route
\* without a sample was not requested in it.
LEMMA CurrentIsNewest ==
    ASSUME TypeOK, SeriesInv, OnlyStarts, Times # {}, NEW r \in RouteNames
    PROVE  CurrentRps(r) = Rate(pushes[Max(Times)], r)
<1>. DEFINE t == Max(Times)
<1>1. Times \in SUBSET Nat /\ clock \in Nat /\ \A u \in Times : u <= clock
  <2>1. Times \subseteq DOMAIN pushes
    BY DEF SeriesInv, SecondsWhole
  <2>. QED  BY <2>1, BoundsAssumption DEF TypeOK, Second
<1>2. t \in Times /\ \A u \in Times : u <= t
  BY <1>1, MaxExists
<1>. HIDE DEF t
<1>3. t \in DOMAIN pushes /\ t \in Nat
  BY <1>1, <1>2 DEF SeriesInv, SecondsWhole
<1>4. \A u \in DOMAIN rps[r] : u \in Times
  BY DEF Times
<1>5. rps[r] \in [DOMAIN rps[r] -> Rates]
  BY PartialIs DEF TypeOK, TwinTypeOK
<1>6. CASE r \in DOMAIN pushes[t].rates
  <2>1. t \in DOMAIN rps[r] /\ rps[r][t] = pushes[t].rates[r]
    BY <1>2, <1>6 DEF SeriesInv, SecondsWhole, RatesMeasured
  <2>2. DOMAIN rps[r] \in SUBSET Nat /\ \A u \in DOMAIN rps[r] : u <= t
    BY <1>1, <1>2, <1>4
  <2>3. Max(DOMAIN rps[r]) = t
    BY <2>1, <2>2, MaxIs
  <2>4. rps[r] # Empty
    BY <2>1, EmptyPartial
  <2>. QED  BY <1>6, <2>1, <2>3, <2>4 DEF CurrentRps, Rate, t
<1>7. CASE r \notin DOMAIN pushes[t].rates
  <2>1. ASSUME NEW u \in DOMAIN rps[r] PROVE FALSE
    <3>1. u \in DOMAIN pushes /\ u <= t /\ r \in DOMAIN pushes[u].rates
      BY <1>2, <1>4 DEF SeriesInv, SecondsWhole, RatesMeasured
    <3>. QED  BY <1>3, <1>7, <3>1 DEF OnlyStarts
  <2>2. rps[r] = Empty
    BY <1>5, <2>1, EmptyFunction DEF Empty
  <2>. QED  BY <1>7, <2>2 DEF CurrentRps, Rate, t
<1>. QED  BY <1>6, <1>7

\* HoldsCurrentRates: while routes may start but not stop, simulate_load holds the other
\* routes at the rates of one tick, the newest the twin has seen.
THEOREM LoadsAreCurrent ==
    ASSUME "quiet" \notin Faults
    PROVE  Spec => []HoldsCurrentRates
<1>1. TypeOK /\ SeriesInv /\ OnlyStarts => HoldsCurrentRates
  <2>. SUFFICES ASSUME TypeOK, SeriesInv, OnlyStarts, Times # {},
                       NEW route \in RouteNames \union {None}, NEW s \in RouteModels,
                       NEW r \in model[s].routes \ {route}
                PROVE  SimulateLoad(route, 0)[s][r] = Rate(pushes[Max(Times)], r)
    BY DEF HoldsCurrentRates
  <2>1. r \in RouteNames
    BY DEF TypeOK, TwinTypeOK, RouteModels, Model
  <2>2. SimulateLoad(route, 0)[s][r] = CurrentRps(r)
    BY DEF SimulateLoad
  <2>. QED  BY <2>1, <2>2, CurrentIsNewest
<1>2. Init => OnlyStarts
  BY InitMeasured
<1>3. TypeOK /\ OnlyStarts /\ [Next]_vars => OnlyStarts'
  BY OnlyStartsStep
<1>. QED  BY <1>1, <1>2, <1>3, TypeCorrect, SeriesAreMeasured, PTL DEF Spec
----------------------------------------------------------------------------
(***************************************************************************)
(* What the fitter publishes, under every fault.                           *)
(***************************************************************************)
\* A service with a design, a model on its way or a model has been seen by the twin.
ServicesSeen ==
    /\ \A s \in DOMAIN todo : power[s] # None
    /\ post # None => power[post.service] # None

PublishedInv == ServicesSeen /\ \A m \in fresh \union published : Held(m)

\* A service the twin has seen stays seen: retention empties its series, and keeps it.
LEMMA SeenStays ==
    ASSUME TypeOK, [Next]_vars, NEW s \in Services, power[s] # None
    PROVE  power'[s] # None
<1>1. power[s] \in Partial(Second, Watts)
  BY DEF TypeOK, TwinTypeOK
<1>2. ASSUME NEW p \in Push, IngestRoutes(p) PROVE power'[s] # None
  <2>1. CASE s \in DOMAIN p.watts
    <3>1. p.t \in Second /\ p.watts[s] \in Watts
      BY <2>1, PartialIs DEF Push
    <3>2. power'[s] = SetAt(power[s], p.t, p.watts[s])
      BY <1>2, <2>1 DEF IngestRoutes
    <3>. QED  BY <1>1, <3>1, <3>2, SetAtPartial, NoneAssumption
  <2>2. CASE s \notin DOMAIN p.watts
    BY <1>2, <2>2 DEF IngestRoutes
  <2>. QED  BY <2>1, <2>2
<1>3. ASSUME NEW t, RunRetention(t) PROVE power'[s] # None
  <2>1. power'[s] = Prune(power[s], t - KeepFor)
    BY <1>3 DEF RunRetention
  <2>. QED  BY <1>1, <2>1, PrunePartial, NoneAssumption
<1>4. CASE UNCHANGED power
  BY <1>4
<1>5. CASE PushDone
  BY <1>2, <1>5 DEF PushDone, TypeOK
<1>6. ASSUME NEW c \in late, TwinServesLate(c) PROVE power'[s] # None
  BY <1>2, <1>4, <1>6 DEF TwinServesLate, Serve, TypeOK, Call, IngestRouteModel
<1>7. CASE Retention
  BY <1>3, <1>7 DEF Retention
<1>. QED
  BY <1>4, <1>5, <1>6, <1>7 DEF Next, vars, twinVars, Measure, PushFails, FitterBegins, HistoryRead,
     HistoryFails, FitterDecides, ModelPosted, IngestRouteModel, ModelPostFails,
     FitterPublishes, Crash, Tick

\* The newest model of a service only gives way to one as new, or to retention.
LEMMA HeldIngest ==
    ASSUME TypeOK, NEW n \in Model, IngestRouteModel(n), NEW m \in Model,
           UNCHANGED clock, Held(m)
    PROVE  Held(m)'
<1>1. n.service \in Services /\ n.at \in Nat /\ m.service \in Services /\ m.at \in Nat
  BY DEF Model
<1>2. n # None
  BY NoneAssumption
<1>3. CASE model' = model
  BY <1>3 DEF Held
<1>4. CASE /\ model' = [model EXCEPT ![n.service] = n]
           /\ model[n.service] # None => model[n.service].at <= n.at
  <2>1. CASE m.at < clock - KeepFor
    BY <2>1 DEF Held
  <2>2. CASE model[m.service] # None /\ model[m.service].at >= m.at
    <3>1. model[m.service].at \in Nat
      BY <1>1, <2>2 DEF TypeOK, TwinTypeOK, Model
    <3>2. model'[m.service] = IF m.service = n.service THEN n ELSE model[m.service]
      BY <1>1, <1>4 DEF TypeOK, TwinTypeOK
    <3>3. model'[m.service] # None /\ model'[m.service].at >= m.at
      BY <1>1, <1>2, <1>4, <2>2, <3>1, <3>2
    <3>. QED  BY <3>3 DEF Held
  <2>. QED  BY <2>1, <2>2 DEF Held
<1>. QED  BY <1>3, <1>4 DEF IngestRouteModel

LEMMA HeldStays ==
    ASSUME TypeOK, [Next]_vars, NEW m \in Model, Held(m)
    PROVE  Held(m)'
<1>1. m.service \in Services /\ m.at \in Nat /\ clock \in Nat
  BY BoundsAssumption DEF Model, TypeOK, Second
<1>2. CASE UNCHANGED <<model, clock>>
  BY <1>2 DEF Held
<1>3. ASSUME NEW c \in late, TwinServesLate(c) PROVE Held(m)'
  BY <1>2, <1>3, HeldIngest DEF TwinServesLate, Serve, TypeOK, Call, IngestRoutes
<1>4. CASE ModelPosted
  <2>1. post \in Model
    BY <1>4 DEF TypeOK, FitterTypeOK, ModelPosted, OnPosted
  <2>. QED  BY <1>4, <2>1, HeldIngest DEF ModelPosted, loopVars
<1>5. CASE Retention
  <2>1. model'[m.service] = IF model[m.service] # None /\ model[m.service].at < clock - KeepFor
                            THEN None ELSE model[m.service]
    BY <1>1, <1>5 DEF Retention, RunRetention
  <2>2. clock' = clock
    BY <1>5 DEF Retention, loopVars
  <2>3. model[m.service] # None => model[m.service].at \in Nat
    BY <1>1 DEF TypeOK, TwinTypeOK, Model
  <2>. QED  BY <1>1, <2>1, <2>2, <2>3, KeepForAssumption DEF Held
<1>6. CASE Tick
  BY <1>1, <1>6, KeepForAssumption DEF Tick, twinVars, Held
<1>. QED
  BY <1>2, <1>3, <1>4, <1>5, <1>6 DEF Next, vars, twinVars, loopVars, Measure, PushDone, IngestRoutes,
     PushFails, FitterBegins, HistoryRead, HistoryFails, FitterDecides, ModelPostFails,
     FitterPublishes, Crash

\* A post the twin takes in, of a service it has seen, is held.
LEMMA PostedIsHeld ==
    ASSUME TypeOK, ServicesSeen, ModelPosted, NEW m, m = post
    PROVE  Held(m)'
<1>1. /\ m \in Model /\ m # None /\ power[m.service] # None
      /\ m.service \in Services /\ m.at \in Nat
  BY NoneAssumption DEF TypeOK, FitterTypeOK, ModelPosted, OnPosted, ServicesSeen, Model
<1>2. IngestRouteModel(m)
  BY DEF ModelPosted
<1>3. CASE model[m.service] # None => model[m.service].at <= m.at
  <2>1. model'[m.service] = m
    BY <1>1, <1>2, <1>3 DEF IngestRouteModel, TypeOK, TwinTypeOK
  <2>. QED  BY <1>1, <2>1 DEF Held
<1>4. CASE ~(model[m.service] # None => model[m.service].at <= m.at)
  <2>1. model' = model
    BY <1>2, <1>4 DEF IngestRouteModel
  <2>2. model[m.service].at \in Nat
    BY <1>1, <1>4 DEF TypeOK, TwinTypeOK, Model
  <2>. QED  BY <1>1, <1>4, <2>1, <2>2 DEF Held
<1>. QED  BY <1>3, <1>4

LEMMA ServicesSeenStep ==
    ASSUME TypeOK, ServicesSeen, [Next]_vars
    PROVE  ServicesSeen'
<1>1. DOMAIN todo \subseteq Services /\ (post # None => post.service \in Services)
  BY DEF TypeOK, FitterTypeOK, Model
<1>2. ASSUME \A s \in DOMAIN todo' : s \in DOMAIN todo,
             post' = post \/ post' = None \/ \E s \in DOMAIN todo : post' = Fitted(s)
      PROVE  ServicesSeen'
  <2>1. \A s \in DOMAIN todo' : power'[s] # None
    BY <1>1, <1>2, SeenStays DEF ServicesSeen
  <2>2. post' # None => power'[post'.service] # None
    <3>1. CASE post' = post \/ post' = None
      BY <1>1, <3>1, SeenStays DEF ServicesSeen
    <3>2. ASSUME NEW s \in DOMAIN todo, post' = Fitted(s) PROVE power'[post'.service] # None
      <4>1. post'.service = s
        BY <3>2 DEF Fitted
      <4>. QED  BY <1>1, <4>1, SeenStays DEF ServicesSeen
    <3>. QED  BY <1>2, <3>1, <3>2
  <2>. QED  BY <2>1, <2>2 DEF ServicesSeen
<1>3. CASE HistoryRead
  <2>. DEFINE rows == RouteHistory(now - Window, now)
  <2>1. \A x \in rows : x.service \in Services /\ power[x.service] # None
    BY HistoryRow
  <2>2. todo' = Empty \/ todo' = Design(rows)
    BY <1>3 DEF HistoryRead, OnHistory
  <2>3. UNCHANGED <<power, post>>
    BY <1>3 DEF HistoryRead, OnHistory, twinVars
  <2>4. DOMAIN Design(rows) = {x.service : x \in rows}
    BY DEF Design
  <2>. HIDE DEF rows
  <2>. QED  BY <2>1, <2>2, <2>3, <2>4, EmptyPartial DEF ServicesSeen
<1>4. CASE FitterDecides
  <2>1. PICK s \in Services : Dismiss(s) \/ Accept(s)
    BY <1>4 DEF FitterDecides
  <2>2. todo' = Without(s) /\ (post' = post \/ (s \in DOMAIN todo /\ post' = Fitted(s)))
    BY <2>1 DEF Dismiss, Accept
  <2>. QED  BY <1>2, <2>2 DEF Without
<1>5. CASE Crash
  <2>1. DOMAIN todo' = {} /\ post' = None
    BY <1>5, EmptyPartial DEF Crash, FitterRestart
  <2>. QED  BY <1>2, <2>1
<1>6. CASE UNCHANGED todo /\ (post' = post \/ post' = None)
  BY <1>2, <1>6
<1>. QED
  BY <1>3, <1>4, <1>5, <1>6 DEF Next, vars, fitterVars, loopVars, Measure, PushDone, PushFails,
     TwinServesLate, FitterBegins, Begin, HistoryFails, OnHistoryError, ModelPosted, OnPosted,
     ModelPostFails, OnPostError, FitterPublishes, Publish, Retention, Tick

LEMMA PublishedStep ==
    ASSUME TypeOK, PublishedInv, [Next]_vars
    PROVE  PublishedInv'
<1>1. ServicesSeen'
  BY ServicesSeenStep DEF PublishedInv
<1>2. \A m \in fresh \union published : Held(m)'
  BY HeldStays DEF PublishedInv, TypeOK, FitterTypeOK
<1>3. CASE ModelPosted
  <2>1. fresh' = fresh \union {post} /\ published' = published
    BY <1>3 DEF ModelPosted, OnPosted
  <2>2. \A m \in {post} : Held(m)'
    BY <1>3, PostedIsHeld DEF PublishedInv
  <2>. QED  BY <1>1, <1>2, <2>1, <2>2 DEF PublishedInv
<1>4. CASE fresh' \union published' \subseteq fresh \union published
  BY <1>1, <1>2, <1>4 DEF PublishedInv
<1>. QED
  BY <1>3, <1>4 DEF Next, vars, fitterVars, loopVars, Measure, PushDone, PushFails, TwinServesLate,
     FitterBegins, Begin, HistoryRead, OnHistory, HistoryFails, OnHistoryError, FitterDecides,
     Dismiss, Accept, ModelPostFails, OnPostError, FitterPublishes, Publish, Crash,
     FitterRestart, Retention, Tick

\* PublishedInTwin: what the fitter shows on /metrics the twin prices with, or with a
\* newer model, until retention, under failed and late posts and restarts.
THEOREM PublishedIsHeld == Spec => []PublishedInTwin
<1>1. Init => PublishedInv
  BY EmptyPartial DEF Init, FitterInit, PublishedInv, ServicesSeen
<1>2. TypeOK /\ PublishedInv /\ [Next]_vars => PublishedInv'
  BY PublishedStep
<1>3. PublishedInv => PublishedInTwin
  BY DEF PublishedInv, PublishedInTwin
<1>. QED  BY <1>1, <1>2, <1>3, TypeCorrect, PTL DEF Spec
=============================================================================
