------------------------- MODULE PredictionRegister -------------------------
(***************************************************************************)
(* What the predictor promises to those who read its predictions in the    *)
(* twin (src/README.md:27, "predictions ... next to the data"), whatever   *)
(* polls, losses and late calls there are.  A prediction belongs to one    *)
(* measurement.  It is that measurement, or, if things are said to be      *)
(* quiescent, the mean of it and at least two earlier ones; later ones     *)
(* play no part.  It is entered once and stands, until the predictor has   *)
(* been restarted.                                                         *)
(***************************************************************************)
EXTENDS Integers

CONSTANTS
    Times,
    Usages,         \* what may be measured
    Total(_),       \* the sum of a function's values
    Size(_)         \* the number of elements of a set

VARIABLES
    measured,       \* usage by time
    register,       \* predictions [sum, of, quiescent] by the time they are about
    restarted       \* whether predictions may be revised

vars == <<measured, register, restarted>>

Enter(f, t, v) == [x \in DOMAIN f \union {t} |-> IF x = t THEN v ELSE f[x]]

Init ==
    /\ measured = << >>
    /\ register = << >>
    /\ restarted = FALSE

\* Time only goes on.
Measure(t, u) ==
    /\ \A x \in DOMAIN measured : x < t
    /\ measured' = Enter(measured, t, u)
    /\ UNCHANGED <<register, restarted>>

Write(t, prediction) ==
    /\ UNCHANGED <<measured, restarted>>
    /\ t \in DOMAIN register => restarted
    /\ register' = Enter(register, t, prediction)

\* What is measured is expected to last.
Persist(t) == Write(t, [sum |-> measured[t], of |-> 1, quiescent |-> FALSE])

\* The mean of the measurements S is expected, of which t's is the latest.
Settle(t, S) ==
    /\ t \in S /\ \A x \in S : x <= t
    /\ Size(S) >= 3
    /\ Write(t, [sum |-> Total([x \in S |-> measured[x]]), of |-> Size(S), quiescent |-> TRUE])

Restart ==
    /\ restarted' = TRUE
    /\ UNCHANGED <<measured, register>>

Next ==
    \/ \E t \in Times, u \in Usages : Measure(t, u)
    \/ \E t \in DOMAIN measured : Persist(t) \/ \E S \in SUBSET DOMAIN measured : Settle(t, S)
    \/ Restart

Spec == Init /\ [][Next]_vars
=============================================================================
