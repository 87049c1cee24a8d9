---------------------------- MODULE MCAttributor ----------------------------
(***************************************************************************)
(* Instances of Attributor: a gateway that roots two traces and a store    *)
(* that has a child span in each, named "op" when its trace's root is not  *)
(* at hand; one pod each, and one pod nobody traces.  60 divides by every  *)
(* denominator these inputs produce.                                       *)
(***************************************************************************)
EXTENDS Attributor

gateway == <<"app", "gateway">>
store   == <<"app", "store">>

TwoServices == {gateway, store}

MCRoutes     == {"/a", "/b", "op"}
MCCategories == {"_observability"}

Pod(parts) == [ns |-> "wattopus", name |-> parts]
gatewayPod == Pod(<<"app", "gateway", "x1">>)
storePod   == Pod(<<"app", "store", "x2">>)
promPod    == Pod(<<"prometheus", "0">>)

Root(t, svc, r, b) == [trace |-> t, root |-> TRUE, service |-> svc, route |-> r, busy |-> b]
Child(t, svc, b)   == [trace |-> t, root |-> FALSE, service |-> svc, route |-> "op", busy |-> b]

a1 == Root("t1", gateway, "/a", 1)
a2 == Child("t1", store, 1)
b1 == Root("t2", gateway, "/b", 2)
b2 == Child("t2", store, 2)

MCSpans == {a1, a2, b1, b2}

AllPods == {gatewayPod, storePod, promPod}
\* A service may have lost its pod, or its pod may draw nothing.
AllReadings == {[p \in P |-> 60] : P \in {AllPods, {gatewayPod, promPod}, {storePod}}}
                 \union {[p \in AllPods |-> IF p = gatewayPod THEN 0 ELSE 60]}
TwoReadings == {[p \in AllPods |-> 60], [p \in {gatewayPod, promPod} |-> 60]}

Labelled == {[p \in {promPod, storePod} |-> "_observability"]}

\* One model explains both services, one the gateway through a negative
\* coefficient, one no watt at all.
Model(i, a, b) == [intercept |-> i, coefs |-> [r \in {"/a", "/b"} |-> IF r = "/a" THEN a ELSE b]]
OneModel == {[s \in {gateway, store} |-> Model(1, 1, 1)]}
AllModels == {[s \in {gateway, store} |-> Model(1, 1, 1)],
              [s \in {gateway} |-> Model(1, -1, 1)],
              [s \in {gateway, store} |-> Model(0, 1, 0)],
              [s \in {gateway} |-> Model(-1, 0, 0)]}

\* Every way to split the watts of one tick.
OneTick == [spans |-> MCSpans, copies |-> 1, ticks |-> 1, elapsed |-> {1, 2},
            readings |-> AllReadings, models |-> AllModels,
            policies |-> {"idle", "equal", "proportional"}, modes |-> {"busy", "fitted"},
            faults |-> {"read"}]
\* What an earlier tick, a redelivery or a restart leaves behind.
TwoTicks == [spans |-> {a1, a2}, copies |-> 2, ticks |-> 2, elapsed |-> {2},
             readings |-> TwoReadings, models |-> OneModel,
             policies |-> {"idle"}, modes |-> {"fitted"},
             faults |-> {"read", "resend", "crash"}]
\* A root that comes later than its child.
LateRoot == [spans |-> {a1, a2, b1}, copies |-> 1, ticks |-> 2, elapsed |-> {1},
             readings |-> TwoReadings, models |-> OneModel,
             policies |-> {"idle"}, modes |-> {"busy"}, faults |-> {}]

AllScenarios == {OneTick, TwoTicks}
LateRoots    == {LateRoot}

ASSUME OneClaimantAssumption == OneClaimant
=============================================================================
