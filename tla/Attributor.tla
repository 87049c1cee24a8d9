----------------------------- MODULE Attributor -----------------------------
(***************************************************************************)
(* The attributor process (src/crates/attributor/src/main.rs).  One thread *)
(* receives spans over OTLP into a shared buffer; the main loop takes the  *)
(* buffer once a tick, asks the apiserver for labels, Prometheus for the   *)
(* watts of the pods and the twin for models, publishes the attribution    *)
(* under the metrics lock, and pushes it to the twin; a third thread       *)
(* serves what was published.  Spans keep arriving at every point of the   *)
(* tick, and each of the calls may fail: a failed read is an empty map.    *)
(***************************************************************************)
EXTENDS Attribution

CONSTANTS
    Spans,          \* the spans applications export
    Labellings,     \* what the apiserver may return: pod -> bucket
    Scenarios       \* what one execution may meet, and its bounds

(***************************************************************************)
(* A scenario: the spans exported and the bound on the deliveries of each, *)
(* the bound on ticks, what Prometheus (pod -> watts) and the twin         *)
(* (service -> model) may return, the seconds a tick may last, the values  *)
(* of INTERCEPT_POLICY and ATTRIBUTION_MODE, and the faults.               *)
(***************************************************************************)
ASSUME ScenariosAssumption ==
    \A s \in Scenarios :
        /\ s.spans \subseteq Spans
        /\ s.copies \in Nat /\ s.ticks \in Nat
        /\ s.elapsed \subseteq Nat \ {0}
        /\ s.policies \subseteq {"idle", "equal", "proportional"}
        /\ s.modes \subseteq {"busy", "fitted"}
        /\ s.faults \subseteq {"read",       \* a call of a tick fails
                               "resend",     \* the answer to a delivery is lost
                               "crash"}      \* the attributor is restarted
        /\ \A w \in s.readings : IsFiniteSet(DOMAIN w) /\ w \in [DOMAIN w -> Nat]
        /\ \A f \in s.models : \A svc \in DOMAIN f :
              /\ f[svc].intercept \in Int
              /\ \A r \in DOMAIN f[svc].coefs : f[svc].coefs[r] \in Int

\* parse drops a span that ends before it has lasted.
ASSUME SpansAssumption ==
    /\ IsFiniteSet(Spans)
    /\ \A s \in Spans : s.service \in Services /\ s.route \in Routes /\ s.busy \in Nat \ {0}

ASSUME LabellingsAssumption ==
    \A cats \in Labellings : \A pod \in DOMAIN cats : cats[pod] \in Categories

\* The batches a tick may take, and what it may make of one.
Batches(s) ==
    {b \in [Spans -> 0..s.copies] : \A x \in Spans \ s.spans : b[x] = 0}

Fits(s, b) ==
    {NoFit} \union {[models |-> f, rates |-> RouteRates(b, e), policy |-> p] :
                       f \in s.models \union {<< >>}, e \in s.elapsed, p \in s.policies}

\* No pod belongs to two services: "app" and "app-store" do not both export spans.
OneClaimant ==
    \A s \in Scenarios : \A w \in s.readings : \A pod \in DOMAIN w :
        \A a, b \in Services : Matches(a, pod) /\ Matches(b, pod) => a = b

\* The unit of power divides as the code's floats do.
ASSUME ExactAssumption ==
    \A s \in Scenarios : \A b \in Batches(s) : \A w \in s.readings, fit \in Fits(s, b) :
        \A svc \in Resolved(Weights(b), w) : Exact(svc, Weights(b), w, fit)

VARIABLES
    scenario,
    policy, mode,   \* the configuration of the process
    buffer,         \* copies of each span received since the last take
    stage,          \* where the main loop is
    batch,          \* what the running tick took
    cats, watts, models, elapsed,   \* what the running tick has read
    energy,         \* joules per label, a Prometheus counter
    power,          \* watts per label, for the configured family
    podPower,       \* watts per pod, published with the power
    \* history
    ticks,          \* ticks completed
    sent,           \* copies of each span received
    acked,          \* spans whose delivery was acknowledged
    billed,         \* copies of each span attributed, per route
    lost,           \* copies of each span that died with the process
    measured        \* joules metered over the published ticks

config   == <<scenario, policy, mode>>
readVars == <<cats, watts, models, elapsed>>
shown    == <<energy, power, podPower>>
history  == <<ticks, sent, acked, billed, lost, measured>>
vars == <<config, buffer, stage, batch, readVars, shown, history>>

Zero(S)    == [x \in S |-> 0]
Add(f, g)  == [x \in DOMAIN f |-> f[x] + g[x]]

Init ==
    /\ scenario \in Scenarios
    /\ policy \in scenario.policies /\ mode \in scenario.modes
    /\ buffer = Zero(Spans)
    /\ stage = "asleep"
    /\ batch = Zero(Spans)
    /\ cats = << >> /\ watts = << >> /\ models = << >> /\ elapsed = 1
    /\ energy = Zero(Labels)
    /\ power = Zero(Labels)
    /\ podPower = << >>
    /\ ticks = 0
    /\ sent = Zero(Spans)
    /\ acked = {}
    /\ billed = [s \in Spans |-> Zero(Routes)]
    /\ lost = Zero(Spans)
    /\ measured = 0
----------------------------------------------------------------------------
\* The OTLP thread.  The collector sends a batch again until it is acknowledged.
Deliver(S) ==
    /\ \A s \in S : s \notin acked /\ sent[s] < scenario.copies
    /\ buffer' = [s \in Spans |-> buffer[s] + (IF s \in S THEN 1 ELSE 0)]
    /\ sent'   = [s \in Spans |-> sent[s] + (IF s \in S THEN 1 ELSE 0)]
    /\ \/ acked' = acked \union S
       \/ "resend" \in scenario.faults /\ UNCHANGED acked
    /\ UNCHANGED <<config, stage, batch, readVars, shown, ticks, billed, lost, measured>>

\* Mutant: the buffer is copied, not taken.
TakeCopy ==
    /\ stage = "asleep" /\ ticks < scenario.ticks
    /\ stage' = "labelling"
    /\ batch' = buffer
    /\ elapsed' \in scenario.elapsed
    /\ UNCHANGED <<config, buffer, cats, watts, models, shown, history>>

\* The tick starts: mem::take under the buffer's lock.
Take ==
    /\ stage = "asleep" /\ ticks < scenario.ticks
    /\ stage' = "labelling"
    /\ batch' = buffer
    /\ buffer' = Zero(Spans)
    /\ elapsed' \in scenario.elapsed
    /\ UNCHANGED <<config, cats, watts, models, shown, history>>

\* One read of the tick: the answer, or an empty map when the call fails.
Reads(S) == S \union (IF "read" \in scenario.faults THEN {<< >>} ELSE {})

ReadLabels ==
    /\ stage = "labelling" /\ stage' = "metering"
    /\ cats' \in Reads(Labellings)
    /\ UNCHANGED <<config, buffer, batch, watts, models, elapsed, shown, history>>

ReadWatts ==
    /\ stage = "metering" /\ stage' = "fetching"
    /\ watts' \in Reads(scenario.readings)
    /\ UNCHANGED <<config, buffer, batch, cats, models, elapsed, shown, history>>

ReadModels ==
    /\ stage = "fetching" /\ stage' = "publishing"
    /\ models' \in Reads(scenario.models)
    /\ UNCHANGED <<config, buffer, batch, cats, watts, elapsed, shown, history>>

Fit == [models |-> models, rates |-> RouteRates(batch, elapsed), policy |-> policy]
Busy   == RouteWatts(Weights(batch), watts, cats, NoFit)
Fitted == RouteWatts(Weights(batch), watts, cats, Fit)
Billed == IF mode = "fitted" THEN Fitted ELSE Busy

Charge == energy' = [l \in Labels |-> energy[l] + Billed[l] * elapsed]

\* Mutant: a label that is not billed this tick keeps the power it had.
ShowWithoutClear ==
    power' = [l \in Labels |-> IF Billed[l] > 0 THEN Billed[l] ELSE power[l]]

\* Mutant: the energy is charged by the one policy, the power shown by the other.
ShowBusy == power' = Busy

Show == power' = Billed

\* Everything a scrape shows changes under one lock.
Publish ==
    /\ stage = "publishing" /\ stage' = "pushing"
    /\ Charge
    /\ Show
    /\ podPower' = watts
    /\ measured' = measured + SumFunction(watts) * elapsed
    /\ billed' = [s \in Spans |-> [billed[s] EXCEPT ![BilledRoute(batch, s)] = @ + batch[s]]]
    /\ UNCHANGED <<buffer, batch, readVars, config, ticks, sent, acked, lost>>

\* What the tick read and took are locals of the loop's body.
EndTick ==
    /\ batch' = Zero(Spans)
    /\ cats' = << >> /\ watts' = << >> /\ models' = << >> /\ elapsed' = 1

\* The push to the twin succeeds or is logged; either way the tick is over.
Push ==
    /\ stage = "pushing" /\ stage' = "asleep"
    /\ ticks' = ticks + 1
    /\ EndTick
    /\ UNCHANGED <<config, buffer, shown, sent, acked, billed, lost, measured>>

\* Buffer, running tick and counters die with the process.
Crash ==
    /\ "crash" \in scenario.faults
    /\ stage' = "asleep"
    /\ buffer' = Zero(Spans)
    /\ EndTick
    /\ lost' = Add(lost, Add(buffer, IF stage = "pushing" THEN Zero(Spans) ELSE batch))
    /\ energy' = Zero(Labels)
    /\ power' = Zero(Labels)
    /\ podPower' = << >>
    /\ measured' = 0
    /\ UNCHANGED <<config, ticks, sent, acked, billed>>

Next ==
    \/ \E S \in SUBSET scenario.spans \ {{}} : Deliver(S)
    \/ Take \/ ReadLabels \/ ReadWatts \/ ReadModels \/ Publish \/ Push
    \/ Crash

Spec == Init /\ [][Next]_vars
----------------------------------------------------------------------------
\* The types; amounts of power and energy are never negative.
TypeOK ==
    /\ policy \in scenario.policies /\ mode \in scenario.modes
    /\ stage \in {"asleep", "labelling", "metering", "fetching", "publishing", "pushing"}
    /\ buffer \in [Spans -> Nat] /\ batch \in [Spans -> Nat]
    /\ cats \in Labellings \union {<< >>}
    /\ watts \in scenario.readings \union {<< >>}
    /\ models \in scenario.models \union {<< >>}
    /\ elapsed \in scenario.elapsed \union {1}
    /\ energy \in [Labels -> Nat] /\ power \in [Labels -> Nat]
    /\ podPower \in scenario.readings \union {<< >>}
    /\ ticks \in 0..scenario.ticks
    /\ sent \in [Spans -> 0..scenario.copies] /\ acked \in SUBSET Spans
    /\ billed \in [Spans -> [Routes -> Nat]] /\ lost \in [Spans -> Nat]
    /\ measured \in Nat

\* "Attribution that conserves power" (README.md): over any run of ticks, whatever
\* traces, labels, models and failed reads they meet, the joules charged to routes,
\* buckets and idle add up to the joules the meter reported (lib.rs:163-285).
EnergyConserved == SumFunction(energy) = measured

\* One scrape shows one tick: the power per route adds up to the power per pod next
\* to it, so no route keeps the power of an earlier tick (main.rs:336-368).
ScrapeConsistent == SumFunction(power) = SumFunction(podPower)

\* A received span is in the buffer, in the running tick, attributed to one route, or
\* gone with a restart, and in only one of these, though the OTLP thread appends
\* while the loop takes (main.rs:279 and 320).
SpansBilledOnce ==
    \A s \in Spans :
        sent[s] = buffer[s] + (IF stage = "pushing" THEN 0 ELSE batch[s])
                            + SumFunction(billed[s]) + lost[s]

\* "spans inherit their trace root's route" (lib.rs:65): once the root has arrived, no
\* span of its trace is charged to another route.
ChildrenFollowRoot ==
    \A s, root \in Spans :
        root.root /\ root.trace = s.trace /\ sent[root] > 0 =>
            \A r \in Routes \ {root.route} : billed[s][r] = 0

\* What a scrape shows is the ledger; the seconds of a tick are what its energy counts for.
Ledger == INSTANCE EnergyLedger WITH
    Accounts <- Labels,
    Readings <- UNION {s.readings : s \in Scenarios},
    Seconds  <- UNION {s.elapsed : s \in Scenarios},
    Total    <- SumFunction,
    balance  <- energy, rate <- power, reading <- podPower, metered <- measured

\* The attributor implements it: through threads, failed reads, redeliveries and restarts,
\* what a scrape sees of a tick is one posting, all accounts over the same seconds
\* (main.rs:336-368).
ImplementsLedger == Ledger!Spec
=============================================================================
