--------------------------- MODULE PredictionLoop ---------------------------
(***************************************************************************)
(* The predictor (src/crates/predictor/src/main.rs) and the twin's two     *)
(* series it works on: the samples the feeder writes and the predictions   *)
(* it writes back (src/greycat/server/twin.gcl).                           *)
(*                                                                         *)
(* One deployment: the predictor polls them in turn and keeps a window for *)
(* each, and nothing one of them goes through reaches another.  Energy is  *)
(* predicted like cpu and has no verdict of its own, so cpu stands for     *)
(* both.  The comparison with mean and sigma is exact, on integers.        *)
(***************************************************************************)
EXTENDS Integers, Sequences, SequencesExt

CONSTANTS
    Usage,          \* cpu usages
    Window,         \* WINDOW, samples the predictor remembers
    KeepFor,        \* how long retention keeps a sample (7 days in the code)
    Faults,
    MaxLate,        \* bound: abandoned calls still queued at the twin
    MaxClock,       \* bound: the clock stops here
    None            \* null

ASSUME UsageAssumption  == Usage \subseteq Nat
ASSUME WindowAssumption == Window \in Nat \ {0}
ASSUME FaultsAssumption ==
    Faults \subseteq {"read",       \* a read of the twin fails
                      "post",       \* a post fails
                      "late",       \* a failed post still runs, later
                      "crash"}      \* the predictor dies
ASSUME BoundsAssumption ==
    KeepFor \in Nat /\ MaxLate \in Nat /\ MaxClock \in Nat \ {0}

Second == 1..MaxClock

Sample == [t : Second, cpu : Usage]

\* The fraction sum / of, and the verdict.
Prediction == [sum : Nat, of : 1..Window, quiescent : BOOLEAN]

PostedPrediction == [t : Second, prediction : Prediction]

LateCalls == [op : {"sample"}, body : Sample]
             \union [op : {"prediction"}, body : PostedPrediction]

ASSUME NoneAssumption == None \notin Sample /\ None \notin PostedPrediction

VARIABLES
    samples,        \* d->metrics: cpu usage by second
    predictions,    \* d->predictions: [sum, of, quiescent] by second
    pc,             \* the predictor is "asleep", "reading" or "posting"
    lastSeen,       \* time of the newest sample in the window
    window,         \* samples, oldest first
    post,           \* the prediction being posted, or None
    feed,           \* the sample the feeder is posting, or None
    late,           \* abandoned posts the twin will still execute
    clock,          \* seconds
    \* history
    measured,       \* the usage the feeder stamped with each second
    failures        \* what has failed: "post" of a prediction, "crash"

twinVars      == <<samples, predictions>>
predictorVars == <<pc, lastSeen, window, post>>
vars == <<twinVars, predictorVars, feed, late, clock, measured, failures>>

Empty == << >>

Newest(series) == Max(DOMAIN series)

SetAt(series, t, v) ==
    [x \in DOMAIN series \union {t} |-> IF x = t THEN v ELSE series[x]]

Init ==
    /\ samples = Empty /\ predictions = Empty
    /\ pc = "asleep" /\ lastSeen = 0 /\ window = << >> /\ post = None
    /\ feed = None /\ late = {}
    /\ clock = 1
    /\ measured = Empty
    /\ failures = {}
----------------------------------------------------------------------------
(***************************************************************************)
(* classify: the newest of at least three values is quiescent when it lies *)
(* within sigma, or a twentieth of the mean, of the mean of the others;    *)
(* then the mean of all is predicted, else the newest.  A prediction is    *)
(* the fraction sum / of.                                                  *)
(***************************************************************************)
Values(w) == [i \in DOMAIN w |-> w[i].cpu]
Sum(seq)  == SumFunction(seq)
Distance(x, y) == IF x > y THEN x - y ELSE y - x

\* Stable with n values of sum S and sum of squares Q, all scaled by n.
Stable(seq) ==
    LET hist == Front(seq)
        n == Len(hist)
        S == Sum(hist)
        Q == Sum([i \in 1..n |-> hist[i] * hist[i]])
        off == Distance(n * Last(seq), S)
    IN
    off * off <= n * Q - S * S \/ 20 * off <= S

\* Mutant: the mean it compares with is what is predicted.
ClassifyHistory(seq) ==
    IF Len(seq) >= 3 /\ Stable(seq)
    THEN [sum |-> Sum(Front(seq)), of |-> Len(seq) - 1, quiescent |-> TRUE]
    ELSE [sum |-> Last(seq), of |-> 1, quiescent |-> FALSE]

\* Mutant: the newest sample is predicted to stay where it is stable.
ClassifySwapped(seq) ==
    IF Len(seq) >= 3 /\ Stable(seq) THEN [sum |-> Last(seq), of |-> 1, quiescent |-> TRUE]
    ELSE [sum |-> Sum(seq), of |-> Len(seq), quiescent |-> FALSE]

Classify(seq) ==
    IF Len(seq) >= 3 /\ Stable(seq)
    THEN [sum |-> Sum(seq), of |-> Len(seq), quiescent |-> TRUE]
    ELSE [sum |-> Last(seq), of |-> 1, quiescent |-> FALSE]
----------------------------------------------------------------------------
\* Mutant: one sample too many stays.
RememberOneMore(w, s) == IF Len(w) > Window THEN Append(Tail(w), s) ELSE Append(w, s)

\* The oldest sample goes when the window is full.
Remember(w, s) == IF Len(w) >= Window THEN Append(Tail(w), s) ELSE Append(w, s)

Poll ==
    /\ pc = "asleep" /\ pc' = "reading"
    /\ UNCHANGED <<twinVars, lastSeen, window, post, feed, late, clock, measured, failures>>

Sleep ==
    /\ pc' = "asleep" /\ post' = None
    /\ UNCHANGED <<lastSeen, window>>

\* Mutant: only an older sample is skipped, the same one is not.
SeenOlder(t) == t < lastSeen

\* Mutant: off by one.
SeenNext(t) == t <= lastSeen + 1

Seen(t) == t <= lastSeen

\* The prediction of a new sample is posted.
Predict(t) ==
    LET w == Remember(window, [t |-> t, cpu |-> samples[t]]) IN
    /\ pc' = "posting"
    /\ lastSeen' = t
    /\ window' = w
    /\ post' = [t |-> t, prediction |-> Classify(Values(w))]

\* No sample, or none since the last poll, ends the poll.
LatestRead ==
    /\ pc = "reading"
    /\ IF samples = Empty THEN Sleep
       ELSE IF Seen(Newest(samples)) THEN Sleep
       ELSE Predict(Newest(samples))
    /\ UNCHANGED <<twinVars, feed, late, clock, measured, failures>>

ReadFails ==
    /\ "read" \in Faults
    /\ pc = "reading"
    /\ Sleep
    /\ UNCHANGED <<twinVars, feed, late, clock, measured, failures>>

\* The deployment is known, it has samples.
IngestPrediction(p) ==
    /\ predictions' = SetAt(predictions, p.t, p.prediction)
    /\ UNCHANGED samples

PredictionPosted ==
    /\ pc = "posting"
    /\ IngestPrediction(post)
    /\ Sleep
    /\ UNCHANGED <<feed, late, clock, measured, failures>>

\* An abandoned call is lost, or stays in the twin's queue.
Abandon(op, c) ==
    \/ UNCHANGED late
    \/ /\ "late" \in Faults
       /\ Cardinality(late) < MaxLate
       /\ late' = late \union {[op |-> op, body |-> c]}

\* The failure is logged; the sample counts as seen.
PredictionFails ==
    /\ "post" \in Faults
    /\ pc = "posting"
    /\ Abandon("prediction", post)
    /\ Sleep
    /\ failures' = failures \union {"post"}
    /\ UNCHANGED <<twinVars, feed, clock, measured>>

\* The process is restarted: windows are in memory.
Restart ==
    /\ "crash" \in Faults
    /\ pc' = "asleep" /\ lastSeen' = 0 /\ window' = << >> /\ post' = None
    /\ IF post = None THEN UNCHANGED late ELSE Abandon("prediction", post)
    /\ failures' = failures \union {"crash"}
    /\ UNCHANGED <<twinVars, feed, clock, measured>>
----------------------------------------------------------------------------
IngestSample(s) ==
    /\ samples' = SetAt(samples, s.t, s.cpu)
    /\ UNCHANGED predictions

\* The feeder stamps a sample of any usage, one a tick.
FeederMeasures(u) ==
    /\ feed = None
    /\ clock \notin DOMAIN measured
    /\ feed' = [t |-> clock, cpu |-> u]
    /\ measured' = SetAt(measured, clock, u)
    /\ UNCHANGED <<twinVars, predictorVars, late, clock, failures>>

FeederDelivers ==
    /\ feed # None
    /\ IngestSample(feed)
    /\ feed' = None
    /\ UNCHANGED <<predictorVars, late, clock, measured, failures>>

FeederFails ==
    /\ "post" \in Faults
    /\ feed # None
    /\ Abandon("sample", feed)
    /\ feed' = None
    /\ UNCHANGED <<twinVars, predictorVars, clock, measured, failures>>

TwinServesLate(c) ==
    /\ IF c.op = "sample" THEN IngestSample(c.body) ELSE IngestPrediction(c.body)
    /\ late' = late \ {c}
    /\ UNCHANGED <<predictorVars, feed, clock, measured, failures>>

\* run_retention prunes the samples; it does not visit the predictions.
Retention ==
    /\ samples' = [t \in {x \in DOMAIN samples : x >= clock - KeepFor} |-> samples[t]]
    /\ UNCHANGED <<predictions, predictorVars, feed, late, clock, measured, failures>>

Tick ==
    /\ clock < MaxClock
    /\ clock' = clock + 1
    /\ UNCHANGED <<twinVars, predictorVars, feed, late, measured, failures>>

Next ==
    \/ Poll \/ LatestRead \/ ReadFails \/ PredictionPosted \/ PredictionFails
    \/ Restart
    \/ \E u \in Usage : FeederMeasures(u)
    \/ FeederDelivers \/ FeederFails
    \/ \E c \in late : TwinServesLate(c)
    \/ Retention
    \/ Tick

Spec == Init /\ [][Next]_vars

\* The predictor polls for ever, its calls end, and reads do not all fail.
FairSpec ==
    /\ Spec
    /\ WF_vars(Poll)
    /\ SF_vars(LatestRead)
    /\ WF_vars(PredictionPosted \/ PredictionFails)
----------------------------------------------------------------------------
\* A series keeps one value a second.
IsSeries(f, T) == DOMAIN f \subseteq Second /\ f \in [DOMAIN f -> T]

\* The types of the series, of the predictor and of the calls; the predictor holds a
\* prediction while it posts it, and nothing is measured in the future.
TypeOK ==
    /\ IsSeries(samples, Usage) /\ IsSeries(predictions, Prediction)
    /\ pc \in {"asleep", "reading", "posting"}
    /\ post \in PostedPrediction \union {None} /\ (post # None <=> pc = "posting")
    /\ lastSeen \in 0..MaxClock
    /\ window \in Seq(Sample) /\ Len(window) <= Window
    /\ feed \in Sample \union {None}
    /\ late \subseteq LateCalls
    /\ clock \in Second
    /\ IsSeries(measured, Usage) /\ \A t \in DOMAIN measured : t <= clock
    /\ failures \subseteq {"post", "crash"}

\* The window is a stretch of the feeder's history, oldest first and each sample once,
\* although polls and snapshots are not in step, samples arrive late or out of order
\* and the predictor restarts; its end is the sample that counts as seen.
WindowIsHistory ==
    /\ \A i \in DOMAIN window :
         /\ window[i].t \in DOMAIN measured /\ window[i].cpu = measured[window[i].t]
         /\ i > 1 => window[i - 1].t < window[i].t
    /\ lastSeen = IF window = << >> THEN 0 ELSE Last(window).t

\* What is predicted at second t follows from what was measured until then.
Grounded(t, p) ==
    /\ t \in DOMAIN measured
    /\ ~p.quiescent => p.sum = p.of * measured[t]
    /\ p.quiescent =>
         /\ \E x \in DOMAIN measured : x <= t /\ p.of * measured[x] <= p.sum
         /\ \E x \in DOMAIN measured : x <= t /\ p.of * measured[x] >= p.sum
         /\ Cardinality({x \in DOMAIN measured : x <= t}) >= 3

\* A prediction stands next to the sample it was made at (README.md:27, "next to the
\* data"): "predicts persistence" when the sample is unstable, and otherwise lies within
\* what was measured until then.
PredictionsGrounded == \A t \in DOMAIN predictions : Grounded(t, predictions[t])

\* Only a restart revises a verdict: each sample is classified once while the
\* predictor lives, and a late post writes what was posted (predictor main.rs:109-112).
VerdictsStand ==
    [][\A t \in DOMAIN predictions :
         /\ t \in DOMAIN predictions'
         /\ "crash" \notin failures => predictions'[t] = predictions[t]]_vars

\* The predictor never falls behind for good: time and again the newest sample has its
\* prediction, however polls and snapshots meet and though reads fail, unless a post
\* fails or the predictor dies: neither is made good before the next sample
\* (predictor main.rs:109-112).
NewestPredicted ==
    []<>(samples = Empty \/ Newest(samples) \in DOMAIN predictions \/ failures # {})

\* What the twin has of predictions is the register, next to what the feeder measured.
Register == INSTANCE PredictionRegister WITH
    Times     <- Second,
    Usages    <- Usage,
    Total     <- SumFunction,
    Size      <- Cardinality,
    register  <- predictions,
    restarted <- "crash" \in failures

\* The predictor implements it: although samples arrive late or never, posts fail, run late
\* or are repeated after a restart, and retention takes samples away, each prediction is
\* made, once, of the measurements before and at its time (predictor main.rs:40-56, 101-115).
ImplementsRegister == Register!Spec
=============================================================================
