---------------------------- MODULE LeastSquares ----------------------------
(***************************************************************************)
(* How the fitter fits (src/crates/fitter/src/lib.rs): watts against the   *)
(* rates of k routes, through the normal equations with a ridge on the     *)
(* rates, solved by elimination with partial pivoting, a column a step,    *)
(* and back substitution, a row a step.                                    *)
(*                                                                         *)
(* Arithmetic is exact.  All is kept in integers.  Watts and rates are     *)
(* whole numbers of 1/One, so the matrix and the ridge are whole numbers   *)
(* of 1/One^2: a ridge of 1e-9 is 10 where One is 10^5.  A number that the *)
(* elimination has is one of these over `scale`.  What the code divides by *)
(* multiplies the scale, unless the division has no remainder.             *)
(***************************************************************************)
EXTENDS Integers, Sequences, FiniteSetsExt, Functions

CONSTANTS
    Designs,        \* pairs of a number of routes and a sequence of samples
    Ridges,
    One,            \* 1, in the unit of watts and rates
    Conditioning    \* the largest ratio of two pivots that is accepted (1e8)

Sample == [watts : Nat, rps : Seq(Nat)]

ASSUME DesignsAssumption == Designs \subseteq Nat \X Seq(Sample)
ASSUME RidgesAssumption  == Ridges \subseteq Nat
ASSUME OneAssumption == One \in Nat \ {0}
ASSUME ConditioningAssumption == Conditioning \in Nat

VARIABLES
    k, samples, ridge,      \* the arguments of fit
    col,                    \* the column to eliminate next, then the row substituted last;
                            \* -1 before the first
    m,                      \* rows 0..k of the matrix, the right hand side in column k + 1
    scale,                  \* the denominator of the rows left, then of the coefficients
    pivots,                 \* magnitudes of the pivots so far, as fractions
    verdict,                \* "running", "regular" once eliminated, "none" or "fit"
    coefs                   \* the numerators of a fit's coefficients

args == <<k, samples, ridge>>
vars == <<args, col, m, scale, pivots, verdict, coefs>>

Init ==
    /\ \E d \in Designs : k = d[1] /\ samples = d[2]
    /\ ridge \in Ridges
    /\ col = -1
    /\ m = << >> /\ scale = 1 /\ pivots = {}
    /\ verdict = "running" /\ coefs = << >>

Abs(x) == IF x < 0 THEN -x ELSE x
Sign(x) == IF x < 0 THEN -1 ELSE 1
----------------------------------------------------------------------------
\* Column 0 of a design is the intercept.
X(s, i) == IF i = 0 THEN One ELSE s.rps[i]

\* The watts are the right hand side.
Entry(s, j) == IF j = k + 1 THEN s.watts ELSE X(s, j)

\* Mutant: the intercept is penalised too.
PenalisedAll(i) == ridge

Penalised(i) == IF i = 0 THEN 0 ELSE ridge

Gram ==
    [i \in 0..k |-> [j \in 0..(k + 1) |->
        SumFunction([n \in DOMAIN samples |-> X(samples[n], i) * Entry(samples[n], j)])
          + (IF i = j THEN Penalised(i) ELSE 0)]]

Ragged == \E n \in DOMAIN samples : Len(samples[n].rps) # k

\* One degree of freedom is left for the residuals.
Start ==
    /\ verdict = "running" /\ col = -1
    /\ IF Len(samples) < k + 2 \/ Ragged
       THEN verdict' = "none" /\ UNCHANGED <<col, m>>
       ELSE col' = 0 /\ m' = Gram /\ UNCHANGED verdict
    /\ UNCHANGED <<args, scale, pivots, coefs>>

\* The first of the rows left with the largest entry.
PivotRow ==
    Min({r \in col..k : \A o \in col..k : Abs(m[r][col]) >= Abs(m[o][col])})

Swapped(p) == [m EXCEPT ![col] = m[p], ![p] = m[col]]

Below == (col + 1)..k

\* Mutant: no pivot is too small.
AlwaysLarge(pivot) == FALSE

\* Below 1e-12 in the code: of exact values, zero.
TooSmall(pivot) == pivot = 0

Singular ==
    /\ verdict = "running" /\ col \in 0..k
    /\ TooSmall(m[PivotRow][col])
    /\ verdict' = "none"
    /\ UNCHANGED <<args, col, m, scale, pivots, coefs>>

\* The rows below, times the scale and the pivot.
Eliminated(a, pivot) ==
    [r \in Below |-> [j \in 0..(k + 1) |->
        Abs(pivot) * a[r][j] - Sign(pivot) * a[r][col] * a[col][j]]]

\* The scale that the rows had before divides them, unless numbers are not exact.
Divisor(rows) ==
    IF \A r \in DOMAIN rows : \A j \in 0..(k + 1) : rows[r][j] % scale = 0 THEN scale ELSE 1

Eliminate ==
    /\ verdict = "running" /\ col \in 0..k
    /\ ~TooSmall(m[PivotRow][col])
    /\ LET a == Swapped(PivotRow)
           pivot == a[col][col]
           rows == Eliminated(a, pivot)
           d == Divisor(rows)
       IN
       /\ m' = [r \in 0..k |->
                 IF r \in Below THEN [j \in 0..(k + 1) |-> rows[r][j] \div d] ELSE a[r]]
       /\ pivots' = pivots \union {<<Abs(pivot), scale>>}
       /\ scale' = (scale * Abs(pivot)) \div d
    /\ col' = col + 1
    /\ UNCHANGED <<args, verdict, coefs>>

\* Mutant: pivots are not compared.
NeverNear == FALSE

NearSingular ==
    \E p, q \in pivots : p[1] * q[2] * Conditioning < q[1] * p[2]

Check ==
    /\ verdict = "running" /\ col = k + 1
    /\ IF NearSingular
       THEN verdict' = "none" /\ UNCHANGED coefs
       ELSE verdict' = "regular" /\ coefs' = [r \in 0..k |-> 0]
    /\ UNCHANGED <<args, col, m, scale, pivots>>

\* What row r leaves for its own coefficient.
Rest(r) ==
    scale * m[r][k + 1] - SumFunction([c \in (r + 1)..k |-> m[r][c] * coefs[c]])

\* Back substitution, from the last row up.
Substitute ==
    /\ verdict = "regular" /\ col > 0
    /\ LET row == col - 1
           p == m[row][row]
           g == IF Rest(row) % Abs(p) = 0 THEN 1 ELSE Abs(p)
       IN
       /\ coefs' = [c \in 0..k |->
                     IF c = row THEN Sign(p) * ((g * Rest(row)) \div Abs(p)) ELSE g * coefs[c]]
       /\ scale' = g * scale
       /\ col' = row
    /\ UNCHANGED <<args, m, pivots, verdict>>

Finish ==
    /\ verdict = "regular" /\ col = 0
    /\ verdict' = "fit"
    /\ UNCHANGED <<args, col, m, scale, pivots, coefs>>

Next == Start \/ Singular \/ Eliminate \/ Check \/ Substitute \/ Finish

Spec == Init /\ [][Next]_vars
----------------------------------------------------------------------------
(***************************************************************************)
(* r2 = 1 - ss_res / ss_tot, with ss_res = Residual / scale^2 and          *)
(* ss_tot = Variation / Len(samples).                                      *)
(***************************************************************************)
Fitted == verdict = "fit"

Predicted(num, s) == SumFunction([i \in 0..k |-> num[i] * X(s, i)])

\* Mutant: predictions leave the intercept out.
ResidualWithoutIntercept(num, den) ==
    SumFunction([n \in DOMAIN samples |->
        LET e == den * samples[n].watts - Predicted([num EXCEPT ![0] = 0], samples[n]) IN e * e])

Residual(num, den) ==
    SumFunction([n \in DOMAIN samples |->
        LET e == den * samples[n].watts - Predicted(num, samples[n]) IN e * e])

Variation ==
    LET total == SumFunction([n \in DOMAIN samples |-> samples[n].watts])
        squares == SumFunction([n \in DOMAIN samples |-> samples[n].watts * samples[n].watts])
    IN Len(samples) * squares - total * total

Explains ==
    Variation > 0 =>
        LET res == Residual(coefs, scale) * Len(samples)
            tot == Variation * scale * scale
        IN 0 <= res /\ res <= tot
----------------------------------------------------------------------------
\* The types of the computation: each column is eliminated with a pivot and each row
\* substituted once.
TypeOK ==
    /\ col \in -1..(k + 1)
    /\ col >= 0 => m \in [0..k -> [0..(k + 1) -> Int]]
    /\ scale \in Nat \ {0}
    /\ \A p \in pivots : p[1] \in Nat \ {0} /\ p[2] \in Nat \ {0}
    /\ verdict \in {"running", "none", "regular", "fit"}
    /\ verdict \in {"regular", "fit"} => col >= 0 /\ coefs \in [0..k -> Int]

\* What fit minimises, times the square of the denominator.
Cost(num, den) ==
    SumFunction([n \in DOMAIN samples |->
        LET e == den * samples[n].watts - SumFunction([i \in 0..k |-> num[i] * X(samples[n], i)])
        IN e * e])
      + ridge * SumFunction([i \in 1..k |-> num[i] * num[i]])

Near(num) == {[num EXCEPT ![i] = @ + d] : i \in 0..k, d \in {-1, 1}}
Grid(den) == {[i \in 0..k |-> den * b[i]] : b \in [0..k -> -1..1]}

\* A fit is a least squares fit: the coefficients that come out of pivoting, elimination
\* and back substitution cost no more than any nearby ones and any of a grid, the ridge
\* counted on the rates only (lib.rs:41-47).
FitIsBest ==
    Fitted => \A num \in Near(coefs) \union Grid(scale) :
                Cost(coefs, scale) <= Cost(num, scale)

\* The samples do not tell the columns of d apart.
Vanishes(d) ==
    /\ \E i \in 0..k : d[i] # 0
    /\ \A n \in DOMAIN samples : SumFunction([i \in 0..k |-> d[i] * X(samples[n], i)]) = 0

\* The ridge is too small to make up for it: what it adds at most doubles with each column
\* eliminated, and the intercept's pivot is at least the number of samples.
Negligible(d) ==
    \A i \in 1..k : ridge * Abs(d[i]) * 2^k * Conditioning < Len(samples) * One * One

\* "rejecting is the whole point - a confident wrong split is worse than none"
\* (tests/solver.rs:32): rates that move together get no model, whatever rows the pivoting
\* exchanged, also when the ridge makes the matrix regular: then by its pivots
\* (lib.rs:125).  With the ridge and the ratio that the fitter runs with, 1e-9 and 1e-8, a
\* dependence is negligible when 2^k * max |d[i]| is less than ten times the samples.
CollinearRefused ==
    Fitted => \A d \in [0..k -> -2..2] : Negligible(d) => ~Vanishes(d)

\* With or without a ridge, what a fit leaves unexplained is at most the variation of the
\* watts: r2 lies in 0..1, so that FIT_MIN_R2 selects (main.rs:188).
R2InUnit == Fitted => Explains
=============================================================================
