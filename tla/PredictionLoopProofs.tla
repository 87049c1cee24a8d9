------------------------ MODULE PredictionLoopProofs ------------------------
(***************************************************************************)
(* What holds of the predictor and of the series it works on for every set *)
(* of usages, window, retention and choice of faults, and all clocks.      *)
(***************************************************************************)
EXTENDS PredictionLoop, SetLemmas

----------------------------------------------------------------------------
(***************************************************************************)
(* The operators.                                                          *)
(***************************************************************************)
LEMMA SetAtSeries ==
    ASSUME NEW T, NEW f, IsSeries(f, T), NEW t \in Second, NEW v \in T
    PROVE  IsSeries(SetAt(f, t, v), T)
BY DEF IsSeries, SetAt

\* The twin's "latest" answers with one of its samples, and none is newer.
LEMMA NewestIs ==
    ASSUME NEW T, NEW f, IsSeries(f, T), f # Empty
    PROVE  /\ Newest(f) \in DOMAIN f /\ Newest(f) \in Second /\ f[Newest(f)] \in T
           /\ \A t \in DOMAIN f : t <= Newest(f)
<1>1. DOMAIN f # {}
  <2>1. ASSUME DOMAIN f = {} PROVE f = Empty
    BY <2>1 DEF IsSeries, Empty
  <2>. QED  BY <2>1
<1>2. DOMAIN f \in SUBSET Nat /\ \A t \in DOMAIN f : t <= MaxClock
  BY BoundsAssumption DEF IsSeries, Second
<1>3. MaxClock \in Nat
  BY BoundsAssumption
<1>4. /\ Max(DOMAIN f) \in DOMAIN f
      /\ \A t \in DOMAIN f : t <= Max(DOMAIN f)
  BY <1>1, <1>2, <1>3, MaxExists
<1>. QED  BY <1>4 DEF Newest, IsSeries

\* The window takes the sample, and forgets at most its oldest one for it.
LEMMA RememberIs ==
    ASSUME NEW w \in Seq(Sample), Len(w) <= Window, NEW s \in Sample
    PROVE  /\ Remember(w, s) \in Seq(Sample)
           /\ Len(Remember(w, s)) \in 1..Window
           /\ Last(Remember(w, s)) = s
           /\ \E k \in {0, 1} :
                /\ Len(Remember(w, s)) = Len(w) + 1 - k
                /\ \A i \in 1..(Len(Remember(w, s)) - 1) : Remember(w, s)[i] = w[i + k]
<1>1. Window \in Nat \ {0}
  BY WindowAssumption
<1>2. CASE Len(w) >= Window
  <2>1. Len(w) = Window /\ w # << >>
    BY <1>1, <1>2
  <2>2. Tail(w) \in Seq(Sample) /\ Len(Tail(w)) = Len(w) - 1
    BY <2>1
  <2>3. \A i \in 1..(Len(w) - 1) : Tail(w)[i] = w[i + 1]
    BY <2>1
  <2>4. Remember(w, s) = Append(Tail(w), s)
    BY <1>2 DEF Remember
  <2>5. /\ Append(Tail(w), s) \in Seq(Sample)
        /\ Len(Append(Tail(w), s)) = Len(w)
        /\ Append(Tail(w), s)[Len(w)] = s
        /\ \A i \in 1..(Len(w) - 1) : Append(Tail(w), s)[i] = Tail(w)[i]
    BY <2>2
  <2>. QED  BY <1>1, <2>1, <2>3, <2>4, <2>5 DEF Last
<1>3. CASE ~(Len(w) >= Window)
  <2>1. Remember(w, s) = Append(w, s)
    BY <1>3 DEF Remember
  <2>2. /\ Append(w, s) \in Seq(Sample)
        /\ Len(Append(w, s)) = Len(w) + 1
        /\ Append(w, s)[Len(w) + 1] = s
        /\ \A i \in 1..Len(w) : Append(w, s)[i] = w[i]
    OBVIOUS
  <2>. QED  BY <1>1, <1>3, <2>1, <2>2 DEF Last
<1>. QED  BY <1>2, <1>3

\* classify predicts the newest value, or the mean of at least three, which lies
\* between the least and the greatest of them.
LEMMA ClassifyIs ==
    ASSUME NEW w \in Seq(Sample), Len(w) \in 1..Window,
           NEW p, p = Classify(Values(w))
    PROVE  /\ p \in Prediction
           /\ ~p.quiescent => p.sum = Last(w).cpu /\ p.of = 1
           /\ p.quiescent =>
                /\ p.of = Len(w) /\ Len(w) >= 3
                /\ \E i \in 1..Len(w) : p.of * w[i].cpu <= p.sum
                /\ \E i \in 1..Len(w) : p.of * w[i].cpu >= p.sum
<1>. DEFINE v == Values(w)
            n == Len(w)
<1>1. n \in Nat \ {0} /\ n <= Window /\ Window \in Nat
  BY WindowAssumption
<1>2. v \in [1..n -> Nat] /\ \A i \in 1..n : v[i] = w[i].cpu
  <2>1. DOMAIN w = 1..n /\ \A i \in 1..n : w[i] \in Sample
    OBVIOUS
  <2>2. \A i \in 1..n : w[i].cpu \in Nat
    BY <2>1, UsageAssumption DEF Sample
  <2>. QED  BY <2>1, <2>2 DEF Values
<1>3. v \in Seq(Nat) /\ Len(v) = n /\ DOMAIN v = 1..n
  BY <1>1, <1>2
<1>4. IsFiniteSet(1..n) /\ Cardinality(1..n) = n
  BY <1>1, FS_Interval
<1>5. Sum(v) = SumFunctionOnSet(v, 1..n)
  BY <1>3 DEF Sum, SumFunction
<1>. HIDE DEF v
<1>6. Sum(v) \in Nat /\ \A i \in 1..n : v[i] <= Sum(v)
  BY <1>2, <1>4, <1>5, SumNat
<1>7. PICK i \in 1..n : \A j \in 1..n : v[i] <= v[j]
  <2>. DEFINE S == {v[j] : j \in 1..n}
  <2>1. S \in SUBSET Nat /\ S # {}
    BY <1>1, <1>2
  <2>2. PICK x \in S : \A y \in S : x <= y
    <3>. HIDE DEF S
    <3>. QED  BY <2>1, MinExists
  <2>. QED  BY <2>2
<1>8. PICK k \in 1..n : \A j \in 1..n : v[j] <= v[k]
  <2>. DEFINE S == {v[j] : j \in 1..n}
  <2>1. S \in SUBSET Nat /\ S # {} /\ \A x \in S : x <= Sum(v)
    BY <1>1, <1>2, <1>6
  <2>2. Max(S) \in S /\ \A y \in S : y <= Max(S)
    <3>. HIDE DEF S
    <3>. QED  BY <1>6, <2>1, MaxExists
  <2>. QED  BY <2>2
<1>9. v[i] * n <= Sum(v)
  <2>1. v[i] \in Int /\ \A j \in 1..n : v[j] \in Int /\ v[i] <= v[j]
    BY <1>2, <1>7
  <2>. QED  BY <1>4, <1>5, <2>1, SumAtLeast
<1>10. Sum(v) <= v[k] * n
  <2>1. v[k] \in Int /\ \A j \in 1..n : v[j] \in Int /\ v[j] <= v[k]
    BY <1>2, <1>8
  <2>. QED  BY <1>4, <1>5, <2>1, SumAtMost
<1>11. n * w[i].cpu <= Sum(v) /\ n * w[k].cpu >= Sum(v)
  <2>1. v[i] * n = n * v[i] /\ v[k] * n = n * v[k]
    BY <1>1, <1>2
  <2>. QED  BY <1>2, <1>9, <1>10, <2>1
<1>12. CASE Len(v) >= 3 /\ Stable(v)
  <2>1. p = [sum |-> Sum(v), of |-> Len(v), quiescent |-> TRUE]
    BY <1>12 DEF Classify, v
  <2>. QED  BY <1>1, <1>3, <1>6, <1>11, <1>12, <2>1 DEF Prediction
<1>13. CASE ~(Len(v) >= 3 /\ Stable(v))
  <2>1. p = [sum |-> Last(v), of |-> 1, quiescent |-> FALSE]
    BY <1>13 DEF Classify, v
  <2>2. Last(v) = Last(w).cpu /\ Last(v) \in Nat
    BY <1>1, <1>2, <1>3 DEF Last
  <2>. QED  BY <1>1, <2>1, <2>2 DEF Prediction
<1>. QED  BY <1>12, <1>13
----------------------------------------------------------------------------
(***************************************************************************)
(* Types.                                                                  *)
(***************************************************************************)
\* A call of the predictor that fails stays one of its calls.
LEMMA AbandonType ==
    ASSUME NEW op, NEW c, [op |-> op, body |-> c] \in LateCalls, late \subseteq LateCalls,
           Abandon(op, c)
    PROVE  late' \subseteq LateCalls
BY DEF Abandon

LEMMA IngestPredictionType ==
    ASSUME TypeOK, NEW p \in PostedPrediction, IngestPrediction(p)
    PROVE  IsSeries(samples', Usage) /\ IsSeries(predictions', Prediction)
<1>1. p.t \in Second /\ p.prediction \in Prediction
  BY DEF PostedPrediction
<1>. QED  BY <1>1, SetAtSeries DEF IngestPrediction, TypeOK

LEMMA IngestSampleType ==
    ASSUME TypeOK, NEW s \in Sample, IngestSample(s)
    PROVE  IsSeries(samples', Usage) /\ IsSeries(predictions', Prediction)
<1>1. s.t \in Second /\ s.cpu \in Usage
  BY DEF Sample
<1>. QED  BY <1>1, SetAtSeries DEF IngestSample, TypeOK

\* The prediction of the newest sample, and the window it is made from.
LEMMA PredictIs ==
    ASSUME TypeOK, samples # Empty,
           NEW t, t = Newest(samples),
           NEW w, w = Remember(window, [t |-> t, cpu |-> samples[t]])
    PROVE  /\ t \in DOMAIN samples /\ t \in Second /\ [t |-> t, cpu |-> samples[t]] \in Sample
           /\ w \in Seq(Sample) /\ Len(w) \in 1..Window
           /\ Last(w) = [t |-> t, cpu |-> samples[t]]
           /\ Classify(Values(w)) \in Prediction
<1>1. t \in DOMAIN samples /\ t \in Second /\ samples[t] \in Usage
  BY NewestIs DEF TypeOK
<1>. DEFINE s == [t |-> t, cpu |-> samples[t]]
<1>2. s \in Sample
  BY <1>1 DEF Sample
<1>. HIDE DEF s
<1>3. w = Remember(window, s)
  BY DEF s
<1>4. w \in Seq(Sample) /\ Len(w) \in 1..Window /\ Last(w) = s
  BY <1>2, <1>3, RememberIs DEF TypeOK
<1>5. Classify(Values(w)) \in Prediction
  BY <1>4, ClassifyIs
<1>. QED  BY <1>1, <1>2, <1>4, <1>5 DEF s

LEMMA InitType == Init => TypeOK
<1>1. IsSeries(Empty, Usage) /\ IsSeries(Empty, Prediction) /\ DOMAIN Empty = {}
  BY DEF Empty, IsSeries
<1>2. 1 \in Second /\ 0 \in 0..MaxClock
  BY BoundsAssumption DEF Second
<1>3. << >> \in Seq(Sample) /\ Len(<< >>) <= Window
  BY WindowAssumption
<1>. QED  BY <1>1, <1>2, <1>3 DEF Init, TypeOK

LEMMA NextType ==
    ASSUME TypeOK, [Next]_vars
    PROVE  TypeOK'
<1>. USE DEF twinVars, predictorVars
<1>a. ~(None \in PostedPrediction) /\ ~(None \in Sample)
  BY NoneAssumption
<1>b. 0 \in 0..MaxClock /\ << >> \in Seq(Sample) /\ Len(<< >>) <= Window
  BY BoundsAssumption, WindowAssumption
<1>c. late \subseteq LateCalls
  BY DEF TypeOK, LateCalls
<1>1. CASE Poll
  BY <1>1 DEF Poll, TypeOK
<1>2. CASE LatestRead
  <2>1. CASE samples = Empty
    BY <1>2, <2>1 DEF LatestRead, Sleep, TypeOK
  <2>2. CASE samples # Empty /\ Seen(Newest(samples))
    BY <1>2, <2>2 DEF LatestRead, Sleep, TypeOK
  <2>3. CASE samples # Empty /\ ~Seen(Newest(samples))
    <3>. DEFINE t == Newest(samples)
                w == Remember(window, [t |-> t, cpu |-> samples[t]])
    <3>1. /\ t \in Second
          /\ w \in Seq(Sample) /\ Len(w) \in 1..Window
          /\ Classify(Values(w)) \in Prediction
      BY <2>3, PredictIs
    <3>2. /\ pc' = "posting" /\ lastSeen' = t /\ window' = w
          /\ post' = [t |-> t, prediction |-> Classify(Values(w))]
      BY <1>2, <2>3 DEF LatestRead, Predict
    <3>. HIDE DEF t, w
    <3>3. post' \in PostedPrediction /\ lastSeen' \in 0..MaxClock
      BY <3>1, <3>2 DEF PostedPrediction, Second
    <3>4. window' \in Seq(Sample) /\ Len(window') <= Window
      BY <3>1, <3>2, WindowAssumption
    <3>5. UNCHANGED <<twinVars, feed, late, clock, measured, failures>>
      BY <1>2 DEF LatestRead
    <3>. QED  BY <1>a, <3>2, <3>3, <3>4, <3>5 DEF TypeOK
  <2>. QED  BY <2>1, <2>2, <2>3
<1>3. CASE ReadFails
  BY <1>3 DEF ReadFails, Sleep, TypeOK
<1>4. CASE PredictionPosted
  <2>1. post \in PostedPrediction
    BY <1>4 DEF PredictionPosted, TypeOK
  <2>2. IsSeries(samples', Usage) /\ IsSeries(predictions', Prediction)
    BY <1>4, <2>1, IngestPredictionType DEF PredictionPosted
  <2>. QED  BY <1>4, <2>2 DEF PredictionPosted, Sleep, TypeOK
<1>5. CASE PredictionFails
  <2>1. post \in PostedPrediction
    BY <1>5 DEF PredictionFails, TypeOK
  <2>2. late' \subseteq LateCalls
    BY <1>5, <1>c, <2>1, AbandonType DEF PredictionFails, LateCalls
  <2>. QED  BY <1>5, <2>2 DEF PredictionFails, Sleep, TypeOK, LateCalls
<1>6. CASE Restart
  <2>1. late' \subseteq LateCalls
    <3>1. CASE post = None
      BY <1>6, <1>c, <3>1 DEF Restart
    <3>2. CASE post # None
      BY <1>6, <1>c, <3>2, AbandonType DEF Restart, TypeOK, LateCalls
    <3>. QED  BY <3>1, <3>2
  <2>. QED  BY <1>6, <1>b, <2>1 DEF Restart, TypeOK, LateCalls
<1>7. ASSUME NEW u \in Usage, FeederMeasures(u) PROVE TypeOK'
  <2>1. [t |-> clock, cpu |-> u] \in Sample
    BY DEF Sample, TypeOK
  <2>2. IsSeries(measured', Usage)
    BY <1>7, SetAtSeries DEF FeederMeasures, TypeOK
  <2>3. \A t \in DOMAIN measured' : t <= clock
    <3>1. clock \in Nat /\ \A t \in DOMAIN measured : t <= clock
      BY BoundsAssumption DEF TypeOK, Second
    <3>2. DOMAIN measured' = DOMAIN measured \union {clock}
      BY <1>7 DEF FeederMeasures, SetAt
    <3>. QED  BY <3>1, <3>2
  <2>. QED  BY <1>7, <2>1, <2>2, <2>3 DEF FeederMeasures, TypeOK
<1>8. CASE FeederDelivers
  <2>1. feed \in Sample
    BY <1>8 DEF FeederDelivers, TypeOK
  <2>2. IsSeries(samples', Usage) /\ IsSeries(predictions', Prediction)
    BY <1>8, <2>1, IngestSampleType DEF FeederDelivers
  <2>. QED  BY <1>8, <2>2 DEF FeederDelivers, TypeOK
<1>9. CASE FeederFails
  <2>1. late' \subseteq LateCalls
    BY <1>9, <1>c, AbandonType DEF FeederFails, TypeOK, LateCalls
  <2>. QED  BY <1>9, <2>1 DEF FeederFails, TypeOK, LateCalls
<1>10. ASSUME NEW c \in late, TwinServesLate(c) PROVE TypeOK'
  <2>1. IsSeries(samples', Usage) /\ IsSeries(predictions', Prediction)
    <3>1. CASE c.op = "sample"
      <4>1. c.body \in Sample
        BY <1>c, <3>1 DEF LateCalls
      <4>. QED  BY <1>10, <3>1, <4>1, IngestSampleType DEF TwinServesLate
    <3>2. CASE c.op # "sample"
      <4>1. c.body \in PostedPrediction
        BY <1>c, <3>2 DEF LateCalls
      <4>. QED  BY <1>10, <3>2, <4>1, IngestPredictionType DEF TwinServesLate
    <3>. QED  BY <3>1, <3>2
  <2>. QED  BY <1>10, <2>1 DEF TwinServesLate, TypeOK
<1>11. CASE Retention
  <2>1. IsSeries(samples', Usage)
    BY <1>11 DEF Retention, TypeOK, IsSeries
  <2>. QED  BY <1>11, <2>1 DEF Retention, TypeOK
<1>12. CASE Tick
  <2>1. clock' \in Second /\ \A t \in DOMAIN measured : t <= clock'
    BY <1>12, BoundsAssumption DEF Tick, TypeOK, Second, IsSeries
  <2>. QED  BY <1>12, <2>1 DEF Tick, TypeOK
<1>13. CASE UNCHANGED vars
  BY <1>13 DEF vars, TypeOK
<1>. QED  BY <1>1, <1>2, <1>3, <1>4, <1>5, <1>6, <1>7, <1>8, <1>9, <1>10, <1>11, <1>12, <1>13
          DEF Next

\* The series of the twin, the window and the state of the predictor, and all calls that
\* are under way are well formed, whatever fails.
THEOREM TypeCorrect == Spec => []TypeOK
<1>1. Init => TypeOK
  BY InitType
<1>2. TypeOK /\ [Next]_vars => TypeOK'
  BY NextType
<1>. QED  BY <1>1, <1>2, PTL DEF Spec

----------------------------------------------------------------------------
(***************************************************************************)
(* The feeder's history.                                                   *)
(***************************************************************************)
\* What is measured stays, and a step measures at most the present second.
LEMMA MeasuredStays ==
    ASSUME TypeOK, [Next]_vars
    PROVE  /\ DOMAIN measured \subseteq DOMAIN measured'
           /\ \A x \in DOMAIN measured : measured'[x] = measured[x]
<1>1. ASSUME NEW u \in Usage, FeederMeasures(u)
      PROVE  /\ DOMAIN measured \subseteq DOMAIN measured'
             /\ \A x \in DOMAIN measured : measured'[x] = measured[x]
  BY <1>1 DEF FeederMeasures, SetAt
<1>2. CASE UNCHANGED measured
  BY <1>2
<1>3. (\E u \in Usage : FeederMeasures(u)) \/ UNCHANGED measured
  BY DEF Next, vars, Poll, LatestRead, ReadFails, PredictionPosted, PredictionFails, Restart,
         FeederDelivers, FeederFails, TwinServesLate, Retention, Tick
<1>. QED  BY <1>1, <1>2, <1>3

\* Every sample that is in the twin, or may still get there.
SamplesOut ==
    {[t |-> t, cpu |-> samples[t]] : t \in DOMAIN samples}
        \union {c.body : c \in {x \in late : x.op = "sample"}}
        \union ({feed} \ {None})

Measured(s) == s.t \in DOMAIN measured /\ measured[s.t] = s.cpu

LEMMA IngestedSample ==
    ASSUME NEW x \in Sample, IngestSample(x), NEW t \in DOMAIN samples'
    PROVE  \/ t \in DOMAIN samples /\ samples'[t] = samples[t]
           \/ [t |-> t, cpu |-> samples'[t]] = x
<1>1. samples' = SetAt(samples, x.t, x.cpu)
  BY DEF IngestSample
<1>2. CASE t = x.t
  <2>1. x = [t |-> x.t, cpu |-> x.cpu]
    BY DEF Sample
  <2>2. samples'[t] = x.cpu
    BY <1>1, <1>2 DEF SetAt
  <2>. QED  BY <1>2, <2>1, <2>2
<1>3. CASE t # x.t
  BY <1>1, <1>3 DEF SetAt
<1>. QED  BY <1>2, <1>3

\* A sample that gets out was measured, now or before.
LEMMA SamplesStep ==
    ASSUME TypeOK, [Next]_vars, NEW s, s \in SamplesOut'
    PROVE  s \in SamplesOut \/ Measured(s)'
<1>. USE DEF twinVars, predictorVars
<1>1. CASE UNCHANGED <<samples, feed, late>>
  BY <1>1 DEF SamplesOut
<1>2. CASE UNCHANGED <<samples, feed>> /\ \E b : Abandon("prediction", b)
  BY <1>2 DEF SamplesOut, Abandon
<1>3. ASSUME NEW u \in Usage, FeederMeasures(u) PROVE s \in SamplesOut \/ Measured(s)'
  <2>1. s \in SamplesOut \/ s = [t |-> clock, cpu |-> u]
    BY <1>3 DEF FeederMeasures, SamplesOut
  <2>2. clock \in DOMAIN measured' /\ measured'[clock] = u
    BY <1>3 DEF FeederMeasures, SetAt
  <2>. QED  BY <2>1, <2>2 DEF Measured
<1>4. CASE FeederDelivers
  <2>1. feed \in Sample /\ IngestSample(feed) /\ feed' = None /\ late' = late
    BY <1>4 DEF FeederDelivers, TypeOK
  <2>2. ASSUME NEW t \in DOMAIN samples', s = [t |-> t, cpu |-> samples'[t]]
        PROVE  s \in SamplesOut
    BY <2>1, <2>2, IngestedSample, NoneAssumption DEF SamplesOut
  <2>. QED  BY <2>1, <2>2 DEF SamplesOut
<1>5. CASE FeederFails
  BY <1>5 DEF FeederFails, Abandon, SamplesOut
<1>6. ASSUME NEW c \in late, TwinServesLate(c) PROVE s \in SamplesOut
  <2>1. late' \subseteq late /\ feed' = feed
    BY <1>6 DEF TwinServesLate
  <2>2. CASE c.op = "sample"
    <3>1. c.body \in Sample /\ IngestSample(c.body)
      BY <1>6, <2>2 DEF TwinServesLate, TypeOK, LateCalls
    <3>2. ASSUME NEW t \in DOMAIN samples', s = [t |-> t, cpu |-> samples'[t]]
          PROVE  s \in SamplesOut
      <4>1. c.body \in SamplesOut
        BY <2>2 DEF SamplesOut
      <4>. QED  BY <3>1, <3>2, <4>1, IngestedSample DEF SamplesOut
    <3>. QED  BY <2>1, <3>2 DEF SamplesOut
  <2>3. CASE c.op # "sample"
    <3>1. samples' = samples
      BY <1>6, <2>3 DEF TwinServesLate, IngestPrediction
    <3>. QED  BY <2>1, <3>1 DEF SamplesOut
  <2>. QED  BY <2>2, <2>3
<1>7. CASE Retention
  <2>1. \A t \in DOMAIN samples' : t \in DOMAIN samples /\ samples'[t] = samples[t]
    BY <1>7 DEF Retention
  <2>2. feed' = feed /\ late' = late
    BY <1>7 DEF Retention
  <2>. QED  BY <2>1, <2>2 DEF SamplesOut
<1>8. \/ UNCHANGED <<samples, feed, late>>
      \/ UNCHANGED <<samples, feed>> /\ \E b : Abandon("prediction", b)
      \/ \E u \in Usage : FeederMeasures(u)
      \/ FeederDelivers \/ FeederFails
      \/ \E c \in late : TwinServesLate(c)
      \/ Retention
  BY DEF Next, vars, Poll, LatestRead, ReadFails, PredictionPosted, PredictionFails, Restart,
         Tick, IngestPrediction
<1>. QED  BY <1>1, <1>2, <1>3, <1>4, <1>5, <1>6, <1>7, <1>8

\* The samples that are out are measured, those in the window too, and lastSeen is as
\* late as any of them.
WindowInv ==
    /\ \A s \in SamplesOut : Measured(s)
    /\ \A i \in DOMAIN window : window[i].t <= lastSeen
    /\ WindowIsHistory

LEMMA MeasuredStep ==
    ASSUME TypeOK, [Next]_vars, WindowInv, NEW s, s \in SamplesOut'
    PROVE  Measured(s)'
<1>1. CASE s \in SamplesOut
  <2>1. Measured(s)
    BY <1>1 DEF WindowInv
  <2>. QED  BY <2>1, MeasuredStays DEF Measured
<1>. QED  BY <1>1, SamplesStep

\* Steps that leave the window alone.
LEMMA WindowStays ==
    ASSUME TypeOK, [Next]_vars, WindowInv, UNCHANGED <<window, lastSeen>>
    PROVE  WindowInv'
<1>1. \A s \in SamplesOut' : Measured(s)'
  BY MeasuredStep
<1>2. \A i \in DOMAIN window : /\ window[i].t \in DOMAIN measured'
                               /\ measured'[window[i].t] = window[i].cpu
  BY MeasuredStays DEF WindowInv, WindowIsHistory
<1>3. WindowIsHistory'
  BY <1>2 DEF WindowInv, WindowIsHistory
<1>4. \A i \in DOMAIN window' : window'[i].t <= lastSeen'
  BY DEF WindowInv
<1>. QED  BY <1>1, <1>3, <1>4 DEF WindowInv

\* The window the predictor takes a new sample into.
LEMMA WindowGrows ==
    ASSUME TypeOK, [Next]_vars, WindowInv, LatestRead,
           samples # Empty, ~Seen(Newest(samples))
    PROVE  WindowInv'
<1>. DEFINE t == Newest(samples)
            s == [t |-> t, cpu |-> samples[t]]
            w == Remember(window, s)
            n == Len(w)
<1>1. t \in DOMAIN samples /\ t \in Second /\ s \in Sample
  BY PredictIs
<1>2. t > lastSeen /\ lastSeen \in Nat /\ t \in Nat
  BY <1>1, BoundsAssumption DEF Seen, TypeOK, Second
<1>3. lastSeen' = t /\ window' = w
  BY DEF LatestRead, Predict
<1>4. t \in DOMAIN measured /\ measured[t] = samples[t]
  BY <1>1 DEF WindowInv, SamplesOut, Measured
<1>. HIDE DEF s, t, w
<1>5. window \in Seq(Sample) /\ Len(window) <= Window
  BY DEF TypeOK
<1>6. w \in Seq(Sample) /\ n \in Nat \ {0} /\ Last(w) = s
  BY <1>1, <1>5, RememberIs DEF w
<1>7. PICK k \in {0, 1} :
        n = Len(window) + 1 - k /\ \A i \in 1..(n - 1) : w[i] = window[i + k]
  BY <1>1, <1>5, RememberIs DEF w
<1>8. w[n] = s /\ DOMAIN w = 1..n /\ w # << >>
  BY <1>6 DEF Last
<1>9. s.t = t /\ s.cpu = samples[t]
  BY DEF s
<1>10. ASSUME NEW i \in 1..(n - 1)
       PROVE  /\ w[i].t \in DOMAIN measured /\ measured[w[i].t] = w[i].cpu
              /\ w[i].t <= lastSeen /\ w[i].t \in Nat
              /\ i > 1 => w[i - 1].t < w[i].t
  <2>1. i + k \in 1..Len(window) /\ w[i] = window[i + k]
    BY <1>5, <1>6, <1>7
  <2>2. i + k \in DOMAIN window /\ window[i + k] \in Sample
    BY <1>5, <2>1
  <2>3. /\ window[i + k].t \in DOMAIN measured
        /\ measured[window[i + k].t] = window[i + k].cpu
        /\ window[i + k].t <= lastSeen
        /\ i + k > 1 => window[(i + k) - 1].t < window[i + k].t
    BY <2>2 DEF WindowInv, WindowIsHistory
  <2>4. window[i + k].t \in Nat
    BY <2>2, BoundsAssumption DEF Sample, Second
  <2>5. ASSUME i > 1 PROVE w[i - 1].t < w[i].t
    <3>1. i - 1 \in 1..(n - 1) /\ (i - 1) + k = (i + k) - 1 /\ i + k > 1
      BY <1>6, <1>7, <2>5
    <3>2. w[i - 1] = window[(i + k) - 1]
      BY <1>7, <3>1
    <3>. QED  BY <2>1, <2>3, <3>1, <3>2
  <2>. QED  BY <2>1, <2>3, <2>4, <2>5
<1>11. ASSUME NEW i \in 1..n
       PROVE  /\ w[i].t \in DOMAIN measured /\ measured[w[i].t] = w[i].cpu
              /\ w[i].t <= t
              /\ i > 1 => w[i - 1].t < w[i].t
  <2>1. CASE i \in 1..(n - 1)
    <3>1. w[i].t <= lastSeen /\ w[i].t \in Nat
      BY <1>10, <2>1
    <3>2. w[i].t <= t
      BY <1>2, <3>1
    <3>. QED  BY <1>10, <2>1, <3>2
  <2>2. CASE i = n
    <3>1. ASSUME i > 1 PROVE w[i - 1].t < w[i].t
      <4>1. n - 1 \in 1..(n - 1)
        BY <1>6, <2>2, <3>1
      <4>2. w[n - 1].t <= lastSeen /\ w[n - 1].t \in Nat
        BY <1>10, <4>1
      <4>. QED  BY <1>2, <1>8, <1>9, <2>2, <4>2
    <3>. QED  BY <1>2, <1>4, <1>8, <1>9, <2>2, <3>1
  <2>. QED  BY <1>6, <2>1, <2>2
<1>12. measured' = measured
  BY DEF LatestRead
<1>13. \A x \in SamplesOut' : Measured(x)'
  BY MeasuredStep
<1>14. WindowIsHistory'
  BY <1>3, <1>6, <1>8, <1>9, <1>11, <1>12 DEF WindowIsHistory
<1>15. \A i \in DOMAIN window' : window'[i].t <= lastSeen'
  BY <1>3, <1>8, <1>11
<1>. QED  BY <1>13, <1>14, <1>15 DEF WindowInv

LEMMA InitWindow == Init => WindowInv
BY DEF Init, WindowInv, WindowIsHistory, SamplesOut, Empty

LEMMA NextWindow ==
    ASSUME TypeOK, [Next]_vars, WindowInv
    PROVE  WindowInv'
<1>1. CASE UNCHANGED <<window, lastSeen>>
  BY <1>1, WindowStays
<1>2. CASE LatestRead
  <2>1. CASE samples # Empty /\ ~Seen(Newest(samples))
    BY <1>2, <2>1, WindowGrows
  <2>2. CASE ~(samples # Empty /\ ~Seen(Newest(samples)))
    <3>1. UNCHANGED <<window, lastSeen>>
      BY <1>2, <2>2 DEF LatestRead, Sleep
    <3>. QED  BY <3>1, WindowStays
  <2>. QED  BY <2>1, <2>2
<1>3. CASE Restart
  <2>1. window' = << >> /\ lastSeen' = 0
    BY <1>3 DEF Restart
  <2>2. \A s \in SamplesOut' : Measured(s)'
    BY MeasuredStep
  <2>. QED  BY <2>1, <2>2 DEF WindowInv, WindowIsHistory
<1>4. UNCHANGED <<window, lastSeen>> \/ LatestRead \/ Restart
  BY DEF Next, vars, predictorVars, Poll, ReadFails, PredictionPosted, PredictionFails, Sleep,
         FeederMeasures, FeederDelivers, FeederFails, TwinServesLate, Retention, Tick
<1>. QED  BY <1>1, <1>2, <1>3, <1>4

\* The window is a stretch of what the feeder measured, each sample once and in order,
\* whatever is read late, delivered late or lost, and however often the predictor
\* restarts; its newest sample is the one it skips next time (predictor main.rs:109-118).
THEOREM WindowFollowsFeeder == Spec => []WindowIsHistory
<1>1. Init => TypeOK /\ WindowInv
  BY InitType, InitWindow
<1>2. TypeOK /\ WindowInv /\ [Next]_vars => TypeOK' /\ WindowInv'
  BY NextType, NextWindow
<1>3. WindowInv => WindowIsHistory
  BY DEF WindowInv
<1>. QED  BY <1>1, <1>2, <1>3, PTL DEF Spec

----------------------------------------------------------------------------
(***************************************************************************)
(* The predictions.                                                        *)
(***************************************************************************)
\* Every prediction that is in the twin, or may still get there.
PredictionsOut ==
    {[t |-> t, prediction |-> predictions[t]] : t \in DOMAIN predictions}
        \union {c.body : c \in {x \in late : x.op = "prediction"}}
        \union ({post} \ {None})

LEMMA PredictionsOutType ==
    ASSUME TypeOK, NEW b \in PredictionsOut
    PROVE  b \in PostedPrediction
<1>1. ASSUME NEW t \in DOMAIN predictions
      PROVE  [t |-> t, prediction |-> predictions[t]] \in PostedPrediction
  BY DEF TypeOK, IsSeries, PostedPrediction
<1>2. ASSUME NEW c \in late, c.op = "prediction" PROVE c.body \in PostedPrediction
  BY <1>2 DEF TypeOK, LateCalls
<1>3. post # None => post \in PostedPrediction
  BY DEF TypeOK
<1>. QED  BY <1>1, <1>2, <1>3 DEF PredictionsOut

LEMMA IngestedPrediction ==
    ASSUME NEW p \in PostedPrediction, IngestPrediction(p), NEW t \in DOMAIN predictions'
    PROVE  \/ t \in DOMAIN predictions /\ predictions'[t] = predictions[t]
           \/ [t |-> t, prediction |-> predictions'[t]] = p
<1>1. predictions' = SetAt(predictions, p.t, p.prediction)
  BY DEF IngestPrediction
<1>2. CASE t = p.t
  <2>1. p = [t |-> p.t, prediction |-> p.prediction]
    BY DEF PostedPrediction
  <2>2. predictions'[t] = p.prediction
    BY <1>1, <1>2 DEF SetAt
  <2>. QED  BY <1>2, <2>1, <2>2
<1>3. CASE t # p.t
  BY <1>1, <1>3 DEF SetAt
<1>. QED  BY <1>2, <1>3

\* The steps that write a prediction.
Writes(p) ==
    /\ p \in PredictionsOut
    /\ IngestPrediction(p)
    /\ post' \in {post, None} /\ late' \subseteq late
    /\ UNCHANGED <<lastSeen, failures>>

\* The predictor classifies the newest sample.
Classifies == LatestRead /\ samples # Empty /\ ~Seen(Newest(samples))

\* A step writes a prediction that is out, classifies a sample, or moves or loses what
\* is out.
LEMMA PredictorSteps ==
    ASSUME TypeOK, [Next]_vars
    PROVE  \/ \E p : Writes(p)
           \/ Classifies
           \/ /\ UNCHANGED predictions
              /\ PredictionsOut' \subseteq PredictionsOut
              /\ "crash" \notin failures' => "crash" \notin failures /\ lastSeen' = lastSeen
<1>. USE DEF twinVars, predictorVars
<1>1. CASE LatestRead
  <2>1. CASE Classifies
    BY <2>1
  <2>2. CASE ~Classifies
    BY <1>1, <2>2 DEF LatestRead, Sleep, Classifies, PredictionsOut
  <2>. QED  BY <2>1, <2>2
<1>2. CASE PredictionPosted
  <2>1. post \in PredictionsOut
    BY <1>2, NoneAssumption DEF PredictionPosted, TypeOK, PredictionsOut
  <2>2. Writes(post)
    BY <1>2, <2>1 DEF PredictionPosted, Sleep, Writes
  <2>. QED  BY <2>2
<1>3. ASSUME NEW c \in late, TwinServesLate(c), c.op # "sample" PROVE Writes(c.body)
  <2>1. c.op = "prediction"
    BY <1>3 DEF TypeOK, LateCalls
  <2>. QED  BY <1>3, <2>1 DEF TwinServesLate, Writes, PredictionsOut
<1>4. ASSUME NEW c \in late, TwinServesLate(c), c.op = "sample"
      PROVE  UNCHANGED <<predictions, post, lastSeen, failures>> /\ late' \subseteq late
  BY <1>4 DEF TwinServesLate, IngestSample
<1>5. CASE PredictionFails
  <2>1. post # None
    BY <1>5 DEF PredictionFails, TypeOK
  <2>. QED  BY <1>5, <2>1 DEF PredictionFails, Sleep, Abandon, PredictionsOut
<1>6. CASE Restart
  <2>1. CASE post = None
    BY <1>6, <2>1 DEF Restart, PredictionsOut
  <2>2. CASE post # None
    BY <1>6, <2>2 DEF Restart, Abandon, PredictionsOut
  <2>. QED  BY <2>1, <2>2
<1>7. CASE FeederFails
  BY <1>7 DEF FeederFails, Abandon, PredictionsOut
<1>8. CASE UNCHANGED <<predictions, post, lastSeen, failures>> /\ late' \subseteq late
  BY <1>8 DEF PredictionsOut
<1>9. ASSUME NEW u \in Usage, FeederMeasures(u)
      PROVE  UNCHANGED <<predictions, post, lastSeen, failures>> /\ late' \subseteq late
  BY <1>9 DEF FeederMeasures
<1>10. CASE Poll \/ ReadFails \/ FeederDelivers \/ Retention \/ Tick \/ UNCHANGED vars
  <2>1. CASE ReadFails
    BY <2>1 DEF ReadFails, Sleep, PredictionsOut
  <2>2. CASE Poll \/ FeederDelivers \/ Retention \/ Tick \/ UNCHANGED vars
    BY <1>8, <2>2 DEF Poll, FeederDelivers, IngestSample, Retention, Tick, vars
  <2>. QED  BY <1>10, <2>1, <2>2
<1>11. (\E c \in late : TwinServesLate(c))
         => \/ \E p : Writes(p)
            \/ UNCHANGED <<predictions, post, lastSeen, failures>> /\ late' \subseteq late
  BY <1>3, <1>4
<1>12. \/ LatestRead \/ PredictionPosted \/ PredictionFails \/ Restart \/ FeederFails
       \/ \E c \in late : TwinServesLate(c)
       \/ \E u \in Usage : FeederMeasures(u)
       \/ Poll \/ ReadFails \/ FeederDelivers \/ Retention \/ Tick \/ UNCHANGED vars
  BY DEF Next
<1>. QED  BY <1>1, <1>2, <1>5, <1>6, <1>7, <1>8, <1>9, <1>10, <1>11, <1>12

LEMMA WritesNothingNew ==
    ASSUME TypeOK, NEW p, Writes(p)
    PROVE  PredictionsOut' \subseteq PredictionsOut
<1>1. p \in PostedPrediction
  BY PredictionsOutType DEF Writes
<1>2. ASSUME NEW t \in DOMAIN predictions'
      PROVE  [t |-> t, prediction |-> predictions'[t]] \in PredictionsOut
  BY <1>1, IngestedPrediction DEF Writes, PredictionsOut
<1>3. {post'} \ {None} \subseteq PredictionsOut
  BY DEF Writes, PredictionsOut
<1>4. {c.body : c \in {x \in late' : x.op = "prediction"}} \subseteq PredictionsOut
  BY DEF Writes, PredictionsOut
<1>. QED  BY <1>2, <1>3, <1>4 DEF PredictionsOut

\* A prediction that gets out is the verdict on the newest sample.
LEMMA ClassifiesOne ==
    ASSUME TypeOK, WindowInv, Classifies, NEW b \in PredictionsOut'
    PROVE  \/ b \in PredictionsOut
           \/ /\ b = post' /\ b.t = lastSeen' /\ lastSeen' = Newest(samples)
              /\ b.prediction = Classify(Values(window'))
<1>1. /\ post' = [t |-> Newest(samples), prediction |-> Classify(Values(window'))]
      /\ lastSeen' = Newest(samples)
  BY DEF Classifies, LatestRead, Predict
<1>2. UNCHANGED <<predictions, late>>
  BY DEF Classifies, LatestRead, twinVars
<1>. QED  BY <1>1, <1>2 DEF PredictionsOut

GroundedInv == \A b \in PredictionsOut : Grounded(b.t, b.prediction)

\* What was measured stays enough for a prediction, however much is measured later.
LEMMA GroundedStays ==
    ASSUME TypeOK, TypeOK', [Next]_vars, NEW t, NEW p, Grounded(t, p)
    PROVE  Grounded(t, p)'
<1>1. /\ DOMAIN measured \subseteq DOMAIN measured'
      /\ \A x \in DOMAIN measured : measured'[x] = measured[x]
  BY MeasuredStays
<1>. DEFINE before == {x \in DOMAIN measured : x <= t}
            after == {x \in DOMAIN measured' : x <= t}
<1>2. before \subseteq after
  BY <1>1
<1>3. IsFiniteSet(after)
  <2>1. DOMAIN measured' \subseteq 1..MaxClock /\ MaxClock \in Nat
    BY BoundsAssumption DEF TypeOK, IsSeries, Second
  <2>2. IsFiniteSet(1..MaxClock)
    BY <2>1, FS_Interval
  <2>. QED  BY <2>1, <2>2, FS_Subset
<1>4. /\ Cardinality(before) <= Cardinality(after)
      /\ Cardinality(before) \in Nat /\ Cardinality(after) \in Nat
  BY <1>2, <1>3, FS_Subset, FS_CardinalityType
<1>5. t \in DOMAIN measured /\ t \in DOMAIN measured' /\ measured'[t] = measured[t]
  BY <1>1 DEF Grounded
<1>6. ASSUME p.quiescent
      PROVE  /\ \E x \in DOMAIN measured' : x <= t /\ p.of * measured'[x] <= p.sum
             /\ \E x \in DOMAIN measured' : x <= t /\ p.of * measured'[x] >= p.sum
             /\ Cardinality(after) >= 3
  <2>1. Cardinality(before) >= 3
    BY <1>6 DEF Grounded
  <2>2. Cardinality(after) >= 3
    <3>. HIDE DEF before, after
    <3>. QED  BY <1>4, <2>1
  <2>3. PICK x \in DOMAIN measured : x <= t /\ p.of * measured[x] <= p.sum
    BY <1>6 DEF Grounded
  <2>4. PICK y \in DOMAIN measured : y <= t /\ p.of * measured[y] >= p.sum
    BY <1>6 DEF Grounded
  <2>5. /\ x \in DOMAIN measured' /\ measured'[x] = measured[x]
        /\ y \in DOMAIN measured' /\ measured'[y] = measured[y]
    BY <1>1
  <2>. QED  BY <2>2, <2>3, <2>4, <2>5
<1>7. ~p.quiescent => p.sum = p.of * measured'[t]
  BY <1>5 DEF Grounded
<1>. QED  BY <1>5, <1>6, <1>7 DEF Grounded

\* The verdict on a window that follows the feeder is grounded in what was measured.
LEMMA VerdictGrounded ==
    ASSUME TypeOK', WindowInv', window' # << >>,
           NEW t, t = lastSeen', NEW p, p = Classify(Values(window'))
    PROVE  Grounded(t, p)'
<1>. DEFINE w == window'
            m == measured'
            n == Len(w)
<1>1. w \in Seq(Sample) /\ n \in 1..Window /\ n \in Nat
  BY WindowAssumption DEF TypeOK
<1>2. \A i \in 1..n : /\ w[i].t \in DOMAIN m /\ m[w[i].t] = w[i].cpu
                      /\ w[i].t <= t /\ w[i].t \in Nat
                      /\ i > 1 => w[i - 1].t < w[i].t
  <2>1. \A i \in 1..n : w[i] \in Sample
    BY <1>1
  <2>2. \A i \in 1..n : w[i].t \in Nat
    BY <2>1, BoundsAssumption DEF Sample, Second
  <2>. QED  BY <1>1, <2>2 DEF WindowInv, WindowIsHistory
<1>3. t = Last(w).t /\ Last(w) = w[n] /\ n \in 1..n
  BY <1>1 DEF WindowInv, WindowIsHistory, Last
<1>. DEFINE upto == {x \in DOMAIN m : x <= t}
<1>4. IsFiniteSet(upto)
  <2>1. DOMAIN measured' \subseteq 1..MaxClock /\ MaxClock \in Nat
    BY BoundsAssumption DEF TypeOK, IsSeries, Second
  <2>2. IsFiniteSet(1..MaxClock)
    BY <2>1, FS_Interval
  <2>. QED  BY <2>1, <2>2, FS_Subset
<1>. HIDE DEF w, m
<1>5. /\ ~p.quiescent => p.sum = Last(w).cpu /\ p.of = 1
      /\ p.quiescent =>
           /\ p.of = Len(w) /\ Len(w) >= 3
           /\ \E i \in 1..Len(w) : p.of * w[i].cpu <= p.sum
           /\ \E i \in 1..Len(w) : p.of * w[i].cpu >= p.sum
  <2>1. p = Classify(Values(w))
    BY DEF w
  <2>. QED  BY <1>1, <2>1, ClassifyIs
<1>6. t \in DOMAIN m /\ m[t] = Last(w).cpu
  BY <1>2, <1>3
<1>7. ~p.quiescent => p.sum = p.of * m[t]
  <2>1. m[t] \in Int
    <3>1. Last(w) \in Sample
      BY <1>1, <1>3
    <3>2. Last(w).cpu \in Nat
      BY <3>1, UsageAssumption DEF Sample
    <3>. QED  BY <1>6, <3>2
  <2>. QED  BY <1>5, <1>6, <2>1
<1>8. ASSUME p.quiescent
      PROVE  /\ \E x \in DOMAIN m : x <= t /\ p.of * m[x] <= p.sum
             /\ \E x \in DOMAIN m : x <= t /\ p.of * m[x] >= p.sum
  <2>1. PICK i \in 1..n : p.of * w[i].cpu <= p.sum
    BY <1>5, <1>8
  <2>2. PICK j \in 1..n : p.of * w[j].cpu >= p.sum
    BY <1>5, <1>8
  <2>3. /\ w[i].t \in DOMAIN m /\ m[w[i].t] = w[i].cpu /\ w[i].t <= t
        /\ w[j].t \in DOMAIN m /\ m[w[j].t] = w[j].cpu /\ w[j].t <= t
    BY <1>2
  <2>. QED  BY <2>1, <2>2, <2>3
<1>9. ASSUME p.quiescent PROVE Cardinality(upto) >= 3
  <2>1. n >= 3
    BY <1>5, <1>9
  <2>. DEFINE a == w[1].t
              b == w[2].t
              c == w[3].t
  <2>2. 1 \in 1..n /\ 2 \in 1..n /\ 3 \in 1..n
    BY <1>1, <2>1
  <2>3. a \in upto /\ b \in upto /\ c \in upto
    BY <1>2, <2>2
  <2>4. a < b /\ b < c /\ a \in Nat /\ b \in Nat /\ c \in Nat
    <3>1. w[2 - 1].t < w[2].t /\ w[3 - 1].t < w[3].t
      BY <1>2, <2>2
    <3>. QED  BY <1>2, <2>2, <3>1
  <2>. HIDE DEF a, b, c, upto
  <2>. QED  BY <1>4, <2>3, <2>4, ThreeElements
<1>. QED  BY <1>6, <1>7, <1>8, <1>9 DEF Grounded, m

LEMMA ClassifyGrounded ==
    ASSUME TypeOK, TypeOK', WindowInv, WindowInv', Classifies,
           NEW b, b.t = lastSeen', b.prediction = Classify(Values(window'))
    PROVE  Grounded(b.t, b.prediction)'
<1>. DEFINE t == Newest(samples)
            w == Remember(window, [t |-> t, cpu |-> samples[t]])
<1>1. samples # Empty /\ window' = w
  BY DEF Classifies, LatestRead, Predict
<1>2. Len(w) \in 1..Window
  BY <1>1, PredictIs
<1>3. window' # << >>
  BY <1>1, <1>2
<1>. QED  BY <1>3, VerdictGrounded

LEMMA NextGrounded ==
    ASSUME TypeOK, TypeOK', [Next]_vars, WindowInv, WindowInv', GroundedInv
    PROVE  GroundedInv'
<1>. SUFFICES ASSUME NEW b \in PredictionsOut' PROVE Grounded(b.t, b.prediction)'
  BY DEF GroundedInv
<1>1. CASE b \in PredictionsOut
  <2>1. Grounded(b.t, b.prediction)
    BY <1>1 DEF GroundedInv
  <2>. QED  BY <2>1, GroundedStays
<1>2. CASE b \notin PredictionsOut
  <2>1. Classifies
    BY <1>2, PredictorSteps, WritesNothingNew
  <2>2. b.t = lastSeen' /\ b.prediction = Classify(Values(window'))
    BY <1>2, <2>1, ClassifiesOne
  <2>. QED  BY <2>1, <2>2, ClassifyGrounded
<1>. QED  BY <1>1, <1>2

\* What the twin holds of the predictor for a second follows from what the feeder
\* measured until that second: the newest value, or a mean of at least three values that
\* lies between two of them; and that whatever fails, arrives late or is pruned
\* (README.md:27, predictor main.rs:40-56).
THEOREM PredictionsAreGrounded == Spec => []PredictionsGrounded
<1>1. Init => TypeOK /\ WindowInv /\ GroundedInv
  <2>1. Init => GroundedInv
    BY DEF Init, GroundedInv, PredictionsOut, Empty
  <2>. QED  BY <2>1, InitType, InitWindow
<1>2. TypeOK /\ WindowInv /\ GroundedInv /\ [Next]_vars => (TypeOK /\ WindowInv /\ GroundedInv)'
  <2>. SUFFICES ASSUME TypeOK, WindowInv, GroundedInv, [Next]_vars
                PROVE  TypeOK' /\ WindowInv' /\ GroundedInv'
    OBVIOUS
  <2>1. TypeOK'
    BY NextType
  <2>2. WindowInv'
    BY NextWindow
  <2>. QED  BY <2>1, <2>2, NextGrounded
<1>3. GroundedInv => PredictionsGrounded
  <2>. SUFFICES ASSUME GroundedInv, NEW t \in DOMAIN predictions
                PROVE  Grounded(t, predictions[t])
    BY DEF PredictionsGrounded
  <2>. DEFINE b == [t |-> t, prediction |-> predictions[t]]
  <2>1. b \in PredictionsOut
    BY DEF PredictionsOut
  <2>2. b.t = t /\ b.prediction = predictions[t]
    OBVIOUS
  <2>. HIDE DEF b
  <2>. QED  BY <2>1, <2>2 DEF GroundedInv
<1>. QED  BY <1>1, <1>2, <1>3, PTL DEF Spec

\* While the predictor lives it has at most one prediction for a second, and none for a
\* second after the one it has seen.
VerdictsInv ==
    "crash" \notin failures =>
        \A b \in PredictionsOut :
            /\ b.t <= lastSeen
            /\ \A c \in PredictionsOut : c.t = b.t => c.prediction = b.prediction

LEMMA NextVerdicts ==
    ASSUME TypeOK, [Next]_vars, WindowInv, VerdictsInv
    PROVE  VerdictsInv'
<1>. SUFFICES ASSUME "crash" \notin failures' PROVE VerdictsInv'
  BY DEF VerdictsInv
<1>1. CASE Classifies
  <2>1. "crash" \notin failures /\ lastSeen' = Newest(samples) /\ lastSeen' > lastSeen
    <3>1. Newest(samples) \in Nat /\ lastSeen \in Nat
      BY <1>1, NewestIs, BoundsAssumption DEF Classifies, TypeOK, Second
    <3>. QED  BY <1>1, <3>1 DEF Classifies, LatestRead, Predict, Seen
  <2>2. ASSUME NEW b \in PredictionsOut PROVE b.t < lastSeen' /\ b.t \in Nat
    <3>1. b.t \in Nat
      BY PredictionsOutType, BoundsAssumption DEF PostedPrediction, Second
    <3>2. b.t <= lastSeen
      BY <2>1 DEF VerdictsInv
    <3>3. lastSeen \in Nat /\ lastSeen' \in Nat
      BY <1>1, <2>1, NewestIs, BoundsAssumption DEF Classifies, TypeOK, Second
    <3>. QED  BY <2>1, <3>1, <3>2, <3>3
  <2>3. ASSUME NEW b \in PredictionsOut'
        PROVE  \/ b \in PredictionsOut
               \/ b.t = lastSeen' /\ b.prediction = Classify(Values(window'))
    BY <1>1, ClassifiesOne
  <2>4. lastSeen' \in Nat
    BY <1>1, <2>1, NewestIs, BoundsAssumption DEF Classifies, TypeOK, Second
  <2>5. ASSUME NEW b \in PredictionsOut', NEW c \in PredictionsOut', c.t = b.t
        PROVE  b.t <= lastSeen' /\ c.prediction = b.prediction
    <3>1. CASE b \in PredictionsOut /\ c \in PredictionsOut
      BY <2>1, <2>2, <2>4, <2>5, <3>1 DEF VerdictsInv
    <3>2. CASE b \notin PredictionsOut \/ c \notin PredictionsOut
      BY <2>2, <2>3, <2>4, <2>5, <3>2
    <3>. QED  BY <3>1, <3>2
  <2>. QED  BY <2>5 DEF VerdictsInv
<1>2. CASE ~Classifies
  <2>1. PredictionsOut' \subseteq PredictionsOut
    BY <1>2, PredictorSteps, WritesNothingNew
  <2>2. "crash" \notin failures /\ lastSeen' = lastSeen
    BY <1>2, PredictorSteps DEF Writes
  <2>. QED  BY <2>1, <2>2 DEF VerdictsInv
<1>. QED  BY <1>1, <1>2

LEMMA VerdictsStep ==
    ASSUME TypeOK, [Next]_vars, VerdictsInv, NEW t \in DOMAIN predictions
    PROVE  /\ t \in DOMAIN predictions'
           /\ "crash" \notin failures => predictions'[t] = predictions[t]
<1>1. CASE UNCHANGED predictions
  BY <1>1
<1>2. ASSUME NEW p, Writes(p)
      PROVE  /\ t \in DOMAIN predictions'
             /\ "crash" \notin failures => predictions'[t] = predictions[t]
  <2>1. p \in PostedPrediction
    BY <1>2, PredictionsOutType DEF Writes
  <2>2. predictions' = SetAt(predictions, p.t, p.prediction)
    BY <1>2 DEF Writes, IngestPrediction
  <2>3. CASE t # p.t
    BY <2>2, <2>3 DEF SetAt
  <2>4. CASE t = p.t
    <3>. DEFINE b == [t |-> t, prediction |-> predictions[t]]
    <3>1. b \in PredictionsOut
      BY DEF PredictionsOut
    <3>2. b.t = t /\ b.prediction = predictions[t]
      OBVIOUS
    <3>. HIDE DEF b
    <3>3. "crash" \notin failures => p.prediction = predictions[t]
      BY <1>2, <2>4, <3>1, <3>2 DEF VerdictsInv, Writes
    <3>. QED  BY <2>2, <2>4, <3>3 DEF SetAt
  <2>. QED  BY <2>3, <2>4
<1>3. CASE Classifies
  BY <1>3 DEF Classifies, LatestRead, twinVars
<1>. QED  BY <1>1, <1>2, <1>3, PredictorSteps

\* A prediction is never taken back, and as long as the predictor has not been restarted
\* never revised, although posts it gave up may still be served: each sample is
\* classified once (predictor main.rs:109-112).
THEOREM VerdictsAreFinal == Spec => VerdictsStand
<1>1. Init => TypeOK /\ WindowInv /\ VerdictsInv
  <2>1. Init => VerdictsInv
    BY DEF Init, VerdictsInv, PredictionsOut, Empty
  <2>. QED  BY <2>1, InitType, InitWindow
<1>2. TypeOK /\ WindowInv /\ VerdictsInv /\ [Next]_vars
        => (TypeOK /\ WindowInv /\ VerdictsInv)'
  BY NextType, NextWindow, NextVerdicts
<1>3. TypeOK /\ VerdictsInv /\ [Next]_vars
        => [\A t \in DOMAIN predictions :
              /\ t \in DOMAIN predictions'
              /\ "crash" \notin failures => predictions'[t] = predictions[t]]_vars
  BY VerdictsStep
<1>. QED  BY <1>1, <1>2, <1>3, PTL DEF Spec, VerdictsStand
----------------------------------------------------------------------------
(***************************************************************************)
(* The register that the predictor implements.                             *)
(***************************************************************************)
\* Steps that go up, go up altogether.
LEMMA Increasing ==
    ASSUME NEW n \in Nat, NEW f, \A i \in 1..n : f[i] \in Nat,
           \A i \in 1..n : i > 1 => f[i - 1] < f[i]
    PROVE  \A i, j \in 1..n : i < j => f[i] < f[j]
<1>. DEFINE Bad == {j \in 1..n : \E i \in 1..n : i < j /\ ~(f[i] < f[j])}
<1>1. SUFFICES ASSUME Bad # {} PROVE FALSE
  OBVIOUS
<1>2. PICK j \in Bad : \A k \in Bad : j <= k
  <2>1. Bad \in SUBSET Nat
    OBVIOUS
  <2>. HIDE DEF Bad
  <2>. QED  BY <1>1, <2>1, MinExists
<1>3. PICK i \in 1..n : i < j /\ ~(f[i] < f[j])
  OBVIOUS
<1>4. j \in 1..n /\ j - 1 \in 1..n /\ f[j - 1] < f[j] /\ i <= j - 1
  BY <1>3
<1>5. i = j - 1 \/ f[i] < f[j - 1]
  <2>1. j - 1 \notin Bad
    BY <1>2, <1>4
  <2>. QED  BY <1>4, <2>1
<1>. QED  BY <1>3, <1>4, <1>5

\* The samples of a window are of different times.
LEMMA WindowTimes ==
    ASSUME NEW w \in Seq(Sample), \A i \in 1..Len(w) : i > 1 => w[i - 1].t < w[i].t
    PROVE  Distinguishes([i \in 1..Len(w) |-> w[i].t], 1..Len(w))
<1>. DEFINE n == Len(w)
            h == [i \in 1..n |-> w[i].t]
<1>1. n \in Nat /\ \A i \in 1..n : w[i] \in Sample
  OBVIOUS
<1>2. \A i \in 1..n : h[i] \in Nat
  BY <1>1, BoundsAssumption DEF Sample, Second
<1>3. \A i \in 1..n : i > 1 => h[i - 1] < h[i]
  BY <1>1
<1>. HIDE DEF h
<1>4. \A i, j \in 1..n : i < j => h[i] < h[j]
  BY <1>1, <1>2, <1>3, Increasing
<1>5. Distinguishes(h, 1..n)
  BY <1>1, <1>2, <1>4 DEF Distinguishes
<1>. QED  BY <1>5 DEF h

\* The values that are classified are those measured at these times.
LEMMA WindowSum ==
    ASSUME NEW w \in Seq(Sample), NEW m, Len(w) >= 1, NEW t, t = w[Len(w)].t,
           \A i \in 1..Len(w) : /\ w[i].t \in DOMAIN m /\ m[w[i].t] = w[i].cpu
                                /\ w[i].t <= t
                                /\ i > 1 => w[i - 1].t < w[i].t
    PROVE  \E S \in SUBSET DOMAIN m :
             /\ t \in S /\ \A x \in S : x <= t
             /\ Sum(Values(w)) = SumFunction([x \in S |-> m[x]]) /\ Cardinality(S) = Len(w)
<1>1. Len(w) \in Nat /\ Len(w) \in 1..Len(w) /\ DOMAIN w = 1..Len(w)
  OBVIOUS
<1>2. \A i \in 1..Len(w) : w[i].cpu \in Int
  <2>1. \A i \in 1..Len(w) : w[i] \in Sample
    OBVIOUS
  <2>2. \A i \in 1..Len(w) : w[i].cpu \in Nat
    BY <2>1, UsageAssumption DEF Sample
  <2>. QED  BY <2>2
<1>3. IsFiniteSet(1..Len(w)) /\ Cardinality(1..Len(w)) = Len(w)
  BY ONLY <1>1, FS_Interval
<1>4. Distinguishes([i \in 1..Len(w) |-> w[i].t], 1..Len(w))
  <2>1. w \in Seq(Sample) /\ \A i \in 1..Len(w) : i > 1 => w[i - 1].t < w[i].t
    OBVIOUS
  <2>. QED  BY ONLY <2>1, WindowTimes
<1>. DEFINE n == Len(w)
            v == Values(w)
            h == [i \in 1..n |-> w[i].t]
            S == Images(1..n, h)
            e == [x \in S |-> m[x]]
<1>5. DOMAIN v = 1..n /\ \A i \in 1..n : v[i] = w[i].cpu
  BY <1>1 DEF Values
<1>6. S = {w[i].t : i \in 1..n}
  BY DEF Images
<1>7. S \in SUBSET DOMAIN m /\ t \in S /\ \A x \in S : x <= t
  <2>1. \A i \in 1..n : w[i].t \in DOMAIN m /\ w[i].t <= t
    OBVIOUS
  <2>. HIDE DEF S
  <2>. QED  BY <1>1, <1>6, <2>1
<1>8. DOMAIN e = S
  OBVIOUS
<1>9. Carries(e, h, v, 1..n)
  <2>1. \A i \in 1..n : h[i] = w[i].t /\ h[i] \in S /\ m[h[i]] = w[i].cpu
    BY <1>6
  <2>2. \A i \in 1..n : e[h[i]] = w[i].cpu
    BY <2>1
  <2>. QED  BY <1>2, <1>5, <2>2 DEF Carries
<1>. HIDE DEF v, h, e
<1>10. Cardinality(S) = n /\ SumFunctionOnSet(e, S) = SumFunctionOnSet(v, 1..n)
  BY <1>3, <1>4, <1>9, SumRenamed DEF h
<1>. HIDE DEF S
<1>11. Sum(v) = SumFunction(e)
  BY <1>5, <1>8, <1>10 DEF Sum, SumFunction
<1>12. Sum(v) = SumFunction([x \in S |-> m[x]])
  BY <1>11 DEF e
<1>. QED  BY <1>7, <1>10, <1>12 DEF v

\* p is the measurement of t, or the mean of several of which t's is the latest.
MeanOf(S) ==
    [sum |-> SumFunction([x \in S |-> measured[x]]), of |-> Cardinality(S), quiescent |-> TRUE]

Persistence(t) == [sum |-> measured[t], of |-> 1, quiescent |-> FALSE]

Follows(t, p) ==
    /\ t \in DOMAIN measured
    /\ \/ p = Persistence(t)
       \/ \E S \in SUBSET DOMAIN measured :
            /\ t \in S /\ \A x \in S : x <= t
            /\ Cardinality(S) >= 3 /\ p = MeanOf(S)

FollowsInv == \A b \in PredictionsOut : Follows(b.t, b.prediction)

LEMMA FollowsStays ==
    ASSUME TypeOK, [Next]_vars, NEW t, NEW p, Follows(t, p)
    PROVE  Follows(t, p)'
<1>1. /\ DOMAIN measured \subseteq DOMAIN measured'
      /\ \A x \in DOMAIN measured : measured'[x] = measured[x]
  BY MeasuredStays
<1>2. t \in DOMAIN measured'
  BY <1>1 DEF Follows
<1>3. CASE p = Persistence(t)
  <2>1. p = Persistence(t)'
    BY <1>1, <1>3 DEF Follows, Persistence
  <2>. QED  BY <1>2, <2>1 DEF Follows
<1>4. ASSUME NEW S \in SUBSET DOMAIN measured, t \in S, \A x \in S : x <= t,
             Cardinality(S) >= 3, p = MeanOf(S)
      PROVE  Follows(t, p)'
  <2>1. [x \in S |-> measured[x]] = [x \in S |-> measured'[x]]
    BY <1>1
  <2>2. p = MeanOf(S)'
    BY <1>4, <2>1 DEF MeanOf
  <2>. QED  BY <1>1, <1>2, <1>4, <2>2 DEF Follows
<1>. QED  BY <1>3, <1>4 DEF Follows

\* What is made of a window of measurements follows from them.
LEMMA VerdictFollows ==
    ASSUME TypeOK', WindowInv', window' # << >>,
           NEW t, t = lastSeen', NEW p, p = Classify(Values(window'))
    PROVE  Follows(t, p)'
<1>. DEFINE w == window'
            m == measured'
            n == Len(w)
            v == Values(w)
<1>1. w \in Seq(Sample) /\ n \in 1..Window /\ n \in Nat
  BY WindowAssumption DEF TypeOK
<1>2. \A i \in 1..n : /\ w[i].t \in DOMAIN m /\ m[w[i].t] = w[i].cpu
                      /\ w[i].t <= t
                      /\ i > 1 => w[i - 1].t < w[i].t
  BY <1>1 DEF WindowInv, WindowIsHistory
<1>3. t = w[n].t /\ Last(w) = w[n] /\ n \in 1..n
  BY <1>1 DEF WindowInv, WindowIsHistory, Last
<1>4. t \in DOMAIN m /\ m[t] = Last(w).cpu
  BY <1>2, <1>3
<1>5. PICK S \in SUBSET DOMAIN m :
        /\ t \in S /\ \A x \in S : x <= t
        /\ Sum(v) = SumFunction([x \in S |-> m[x]]) /\ Cardinality(S) = n
  <2>1. n >= 1
    BY <1>1
  <2>. HIDE DEF w, m
  <2>. QED  BY <1>1, <1>2, <1>3, <2>1, WindowSum
<1>6. Len(v) = n /\ Last(v) = Last(w).cpu
  <2>1. DOMAIN v = 1..n /\ \A i \in 1..n : v[i] = w[i].cpu
    BY <1>1 DEF Values
  <2>2. Len(v) = n
    BY <1>1, <2>1
  <2>. QED  BY <1>1, <1>3, <2>1, <2>2 DEF Last
<1>. HIDE DEF v
<1>7. CASE Len(v) >= 3 /\ Stable(v)
  <2>1. p = [sum |-> Sum(v), of |-> Len(v), quiescent |-> TRUE]
    BY <1>7 DEF Classify, v
  <2>2. p = MeanOf(S)'
    BY <1>5, <1>6, <2>1 DEF MeanOf
  <2>3. Cardinality(S) >= 3
    BY <1>5, <1>6, <1>7
  <2>. QED  BY <1>4, <1>5, <2>2, <2>3 DEF Follows
<1>8. CASE ~(Len(v) >= 3 /\ Stable(v))
  <2>1. p = [sum |-> Last(v), of |-> 1, quiescent |-> FALSE]
    BY <1>8 DEF Classify, v
  <2>. QED  BY <1>4, <1>6, <2>1 DEF Follows, Persistence
<1>. QED  BY <1>7, <1>8

LEMMA NextFollows ==
    ASSUME TypeOK, TypeOK', [Next]_vars, WindowInv, WindowInv', FollowsInv
    PROVE  FollowsInv'
<1>. SUFFICES ASSUME NEW b \in PredictionsOut' PROVE Follows(b.t, b.prediction)'
  BY DEF FollowsInv
<1>1. CASE b \in PredictionsOut
  <2>1. Follows(b.t, b.prediction)
    BY <1>1 DEF FollowsInv
  <2>. QED  BY <2>1, FollowsStays
<1>2. CASE b \notin PredictionsOut
  <2>1. Classifies
    BY <1>2, PredictorSteps, WritesNothingNew
  <2>2. b.t = lastSeen' /\ b.prediction = Classify(Values(window'))
    BY <1>2, <2>1, ClassifiesOne
  <2>3. window' # << >>
    <3>. DEFINE t == Newest(samples)
                w == Remember(window, [t |-> t, cpu |-> samples[t]])
    <3>1. samples # Empty /\ window' = w
      BY <2>1 DEF Classifies, LatestRead, Predict
    <3>2. Len(w) \in 1..Window
      BY <3>1, PredictIs
    <3>. QED  BY <3>1, <3>2
  <2>. QED  BY <2>2, <2>3, VerdictFollows
<1>. QED  BY <1>1, <1>2

----------------------------------------------------------------------------
(***************************************************************************)
(* The refinement: the feeder measures, a write of a prediction enters it  *)
(* or repeats it, and no other step does more than note a restart.         *)
(***************************************************************************)
LEMMA RegisterInit == Init => Register!Init
BY DEF Init, Empty, Register!Init

LEMMA MeasureMeasures ==
    ASSUME TypeOK, NEW u \in Usage, FeederMeasures(u)
    PROVE  Register!Next
<1>1. clock \in Second /\ \A x \in DOMAIN measured : x < clock
  <2>1. \A x \in DOMAIN measured : x <= clock /\ x # clock /\ x \in Nat
    BY BoundsAssumption DEF TypeOK, IsSeries, Second, FeederMeasures
  <2>2. clock \in Second /\ clock \in Nat
    BY BoundsAssumption DEF TypeOK, Second
  <2>. QED  BY <2>1, <2>2
<1>2. measured' = Register!Enter(measured, clock, u)
  BY DEF FeederMeasures, SetAt, Register!Enter
<1>3. UNCHANGED <<predictions, failures>>
  BY DEF FeederMeasures, twinVars
<1>4. Register!Measure(clock, u)
  BY <1>1, <1>2, <1>3 DEF Register!Measure
<1>. QED  BY <1>1, <1>4 DEF Register!Next

LEMMA WriteEnters ==
    ASSUME TypeOK, FollowsInv, VerdictsInv, NEW p, Writes(p), UNCHANGED measured
    PROVE  Register!Next \/ UNCHANGED Register!vars
<1>1. /\ Follows(p.t, p.prediction)
      /\ predictions' = Register!Enter(predictions, p.t, p.prediction)
      /\ UNCHANGED failures
  BY DEF FollowsInv, Writes, IngestPrediction, SetAt, Register!Enter
<1>2. CASE p.t \in DOMAIN predictions => "crash" \in failures
  <2>1. Register!Write(p.t, p.prediction)
    BY <1>1, <1>2 DEF Register!Write
  <2>2. CASE p.prediction = Persistence(p.t)
    <3>1. Register!Persist(p.t)
      BY <2>1, <2>2 DEF Register!Persist, Persistence
    <3>. QED  BY <1>1, <3>1 DEF Follows, Register!Next
  <2>3. ASSUME NEW S \in SUBSET DOMAIN measured, p.t \in S, \A x \in S : x <= p.t,
               Cardinality(S) >= 3, p.prediction = MeanOf(S)
        PROVE  Register!Next
    <3>1. Register!Settle(p.t, S)
      BY <2>1, <2>3 DEF Register!Settle, MeanOf
    <3>. QED  BY <1>1, <3>1 DEF Follows, Register!Next
  <2>. QED  BY <1>1, <2>2, <2>3 DEF Follows
<1>3. CASE p.t \in DOMAIN predictions /\ "crash" \notin failures
  <2>. DEFINE b == [t |-> p.t, prediction |-> predictions[p.t]]
  <2>1. b \in PredictionsOut
    BY <1>3 DEF PredictionsOut
  <2>2. b.t = p.t /\ b.prediction = predictions[p.t]
    OBVIOUS
  <2>. HIDE DEF b
  <2>3. p.prediction = predictions[p.t]
    BY <1>3, <2>1, <2>2 DEF VerdictsInv, Writes
  <2>4. predictions' = [x \in DOMAIN predictions |-> predictions[x]]
    BY <1>1, <1>3, <2>3 DEF Register!Enter
  <2>5. UNCHANGED predictions
    BY <2>4 DEF TypeOK, IsSeries
  <2>. QED  BY <1>1, <2>5 DEF Register!vars
<1>. QED  BY <1>2, <1>3

LEMMA RegisterStep ==
    ASSUME TypeOK, [Next]_vars, FollowsInv, VerdictsInv
    PROVE  [Register!Next]_Register!vars
<1>1. ASSUME NEW u \in Usage, FeederMeasures(u) PROVE Register!Next
  BY <1>1, MeasureMeasures
<1>2. (\E u \in Usage : FeederMeasures(u)) \/ UNCHANGED measured
  BY DEF Next, vars, Poll, LatestRead, ReadFails, PredictionPosted, PredictionFails, Restart,
         FeederDelivers, FeederFails, TwinServesLate, Retention, Tick
<1>3. CASE UNCHANGED measured
  <2>1. ASSUME NEW p, Writes(p) PROVE Register!Next \/ UNCHANGED Register!vars
    BY <1>3, <2>1, WriteEnters
  <2>2. CASE Classifies
    BY <1>3, <2>2 DEF Classifies, LatestRead, twinVars, Register!vars
  <2>3. CASE /\ UNCHANGED predictions
             /\ "crash" \notin failures' => "crash" \notin failures
    <3>1. CASE "crash" \in failures'
      <4>1. Register!Restart
        BY <1>3, <2>3, <3>1 DEF Register!Restart
      <4>. QED  BY <4>1 DEF Register!Next
    <3>2. CASE "crash" \notin failures'
      BY <1>3, <2>3, <3>2 DEF Register!vars
    <3>. QED  BY <3>1, <3>2
  <2>. QED  BY <2>1, <2>2, <2>3, PredictorSteps
<1>. QED  BY <1>1, <1>2, <1>3

\* What the twin has of predictions is a register: each of them was entered next to one
\* measurement, is that measurement or the mean of it and at least two earlier ones, and
\* stands until the predictor restarts, whatever is lost, late or pruned meanwhile
\* (README.md:27, predictor main.rs:40-56, 101-115).
THEOREM PredictorImplementsRegister == Spec => ImplementsRegister
<1>. DEFINE IInv == TypeOK /\ WindowInv /\ VerdictsInv /\ FollowsInv
<1>1. Init => IInv
  <2>1. Init => VerdictsInv /\ FollowsInv
    BY DEF Init, VerdictsInv, FollowsInv, PredictionsOut, Empty
  <2>. QED  BY <2>1, InitType, InitWindow
<1>2. IInv /\ [Next]_vars => IInv'
  <2>. SUFFICES ASSUME IInv, [Next]_vars PROVE IInv'
    OBVIOUS
  <2>1. TypeOK' /\ WindowInv' /\ VerdictsInv'
    BY NextType, NextWindow, NextVerdicts
  <2>2. FollowsInv'
    BY <2>1, NextFollows
  <2>. QED  BY <2>1, <2>2
<1>3. IInv /\ [Next]_vars => [Register!Next]_Register!vars
  BY RegisterStep
<1>. HIDE DEF IInv
<1>. QED  BY <1>1, <1>2, <1>3, RegisterInit, PTL DEF Spec, ImplementsRegister, Register!Spec
=============================================================================
