------------------------- MODULE LeastSquaresProofs -------------------------
(***************************************************************************)
(* What holds of a fit for all designs: any number of routes and samples,  *)
(* all watts and rates, every ridge and every limit on the pivots.         *)
(*                                                                         *)
(* A vector has an element for each column of the matrix, the right hand   *)
(* side included: x solves a system over y if the rows applied to x and -y *)
(* give zero.                                                              *)
(***************************************************************************)
EXTENDS LeastSquares, SetLemmas

Columns == 0..(k + 1)
Vectors == [Columns -> Int]

\* The product of two vectors over S.
Dot(u, v, S) == SumFunctionOnSet([j \in S |-> u[j] * v[j]], S)

Null(a, z) == \A r \in 0..k : Dot(a[r], z, Columns) = 0

Vector(num, den) == [j \in Columns |-> IF j = k + 1 THEN -den ELSE num[j]]
----------------------------------------------------------------------------
(***************************************************************************)
(* The inductive invariant.                                                *)
(***************************************************************************)
\* A matrix is only made of samples that are enough and of one length.
StartedInv == col >= 0 => Len(samples) >= k + 2 /\ ~Ragged

\* Elimination keeps the solutions of the normal equations.
SolutionsInv == col >= 0 => \A z \in Vectors : Null(m, z) <=> Null(Gram, z)

\* Nothing is left below the pivots of the first n columns.
Triangular(n) ==
    \A c \in 0..k : c < n => m[c][c] # 0 /\ \A r \in (c + 1)..k : m[r][c] = 0

TriangularInv ==
    /\ verdict = "running" /\ col >= 0 => Triangular(col)
    /\ verdict \in {"regular", "fit"} => Triangular(k + 1)

\* The coefficients solve the rows substituted.
SolvedInv ==
    /\ verdict \in {"regular", "fit"} =>
         \A r \in 0..k : r >= col => Dot(m[r], Vector(coefs, scale), Columns) = 0
    /\ verdict = "fit" => col = 0

ArgsInv == k \in Nat /\ samples \in Seq(Sample) /\ ridge \in Nat

Inv ==
    /\ ArgsInv
    /\ TypeOK
    /\ StartedInv
    /\ SolutionsInv
    /\ TriangularInv
    /\ SolvedInv
----------------------------------------------------------------------------
(***************************************************************************)
(* Vectors.                                                                *)
(***************************************************************************)
LEMMA Products ==
    ASSUME NEW a \in Int, NEW b \in Int
    PROVE  a * b \in Int /\ (a # 0 /\ b # 0 => a * b # 0) /\ a * b = b * a
OBVIOUS

LEMMA Associates ==
    ASSUME NEW a \in Int, NEW b \in Int, NEW c \in Int
    PROVE  a * (b * c) = (a * b) * c
OBVIOUS

LEMMA DotIsInt ==
    ASSUME NEW S, IsFiniteSet(S), NEW u, NEW v, \A j \in S : u[j] \in Int /\ v[j] \in Int
    PROVE  /\ Dot(u, v, S) \in Int
           /\ \A j \in S : u[j] * v[j] \in Int
<1>1. \A j \in S : u[j] * v[j] \in Int
  BY Products
<1>. DEFINE f == [j \in S |-> u[j] * v[j]]
<1>2. \A j \in S : f[j] \in Int
  BY <1>1
<1>. HIDE DEF f
<1>3. SumFunctionOnSet(f, S) \in Int
  BY <1>2, SumOut
<1>. QED  BY <1>1, <1>3 DEF Dot, f

\* The sum of a combination of two functions.
LEMMA CombineSums ==
    ASSUME NEW S, IsFiniteSet(S), NEW u, NEW v, NEW w,
           NEW a \in Int, NEW b \in Int, NEW d \in Int,
           \A j \in S : /\ u[j] \in Int /\ v[j] \in Int /\ w[j] \in Int
                        /\ d * w[j] = a * u[j] + b * v[j]
    PROVE  d * SumFunctionOnSet(w, S)
             = a * SumFunctionOnSet(u, S) + b * SumFunctionOnSet(v, S)
<1>. DEFINE au == [j \in S |-> a * u[j]]
            bv == [j \in S |-> b * v[j]]
            dw == [j \in S |-> d * w[j]]
<1>1. \A j \in S : a * u[j] \in Int /\ b * v[j] \in Int
  BY Products
<1>2. \A j \in S : /\ u[j] \in Int /\ au[j] = a * u[j]
                   /\ v[j] \in Int /\ bv[j] = b * v[j]
                   /\ w[j] \in Int /\ dw[j] = d * w[j]
                   /\ au[j] \in Int /\ bv[j] \in Int /\ dw[j] = au[j] + bv[j]
  BY <1>1
<1>. HIDE DEF au, bv, dw
<1>3. SumFunctionOnSet(au, S) = a * SumFunctionOnSet(u, S)
  BY <1>2, SumTimes
<1>4. SumFunctionOnSet(bv, S) = b * SumFunctionOnSet(v, S)
  BY <1>2, SumTimes
<1>5. SumFunctionOnSet(dw, S) = d * SumFunctionOnSet(w, S)
  BY <1>2, SumTimes
<1>6. SumFunctionOnSet(dw, S) = SumFunctionOnSet(au, S) + SumFunctionOnSet(bv, S)
  BY <1>2, SumPlus
<1>. QED  BY <1>3, <1>4, <1>5, <1>6

LEMMA TermsCombine ==
    ASSUME NEW u \in Int, NEW v \in Int, NEW w \in Int, NEW z \in Int,
           NEW a \in Int, NEW b \in Int, NEW d \in Int, d * w = a * u + b * v
    PROVE  d * (w * z) = a * (u * z) + b * (v * z)
<1>1. d * (w * z) = (d * w) * z
  BY Associates
<1>2. a * u \in Int /\ b * v \in Int
  BY Products
<1>3. (a * u + b * v) * z = (a * u) * z + (b * v) * z
  <2>. DEFINE p == a * u
              q == b * v
  <2>. HIDE DEF p, q
  <2>1. z * (p + q) = z * p + z * q
    BY <1>2, Distributes DEF p, q
  <2>2. p \in Int /\ q \in Int
    BY <1>2 DEF p, q
  <2>. QED  BY <2>1, <2>2, Products DEF p, q
<1>4. (a * u) * z = a * (u * z) /\ (b * v) * z = b * (v * z)
  BY Associates
<1>. QED  BY <1>1, <1>3, <1>4

\* The product with a combination of two vectors.
LEMMA DotCombines ==
    ASSUME NEW S, IsFiniteSet(S), NEW u, NEW v, NEW w, NEW z,
           NEW a \in Int, NEW b \in Int, NEW d \in Int,
           \A j \in S : /\ u[j] \in Int /\ v[j] \in Int /\ w[j] \in Int /\ z[j] \in Int
                        /\ d * w[j] = a * u[j] + b * v[j]
    PROVE  d * Dot(w, z, S) = a * Dot(u, z, S) + b * Dot(v, z, S)
<1>. DEFINE uz == [j \in S |-> u[j] * z[j]]
            vz == [j \in S |-> v[j] * z[j]]
            wz == [j \in S |-> w[j] * z[j]]
<1>1. ASSUME NEW j \in S
      PROVE  /\ uz[j] \in Int /\ vz[j] \in Int /\ wz[j] \in Int
             /\ d * wz[j] = a * uz[j] + b * vz[j]
  <2>1. u[j] \in Int /\ v[j] \in Int /\ w[j] \in Int /\ z[j] \in Int
        /\ d * w[j] = a * u[j] + b * v[j]
    OBVIOUS
  <2>2. d * (w[j] * z[j]) = a * (u[j] * z[j]) + b * (v[j] * z[j])
    <3>1. PICK uj \in Int, vj \in Int, wj \in Int, zj \in Int :
            uj = u[j] /\ vj = v[j] /\ wj = w[j] /\ zj = z[j]
      BY <2>1
    <3>2. d * wj = a * uj + b * vj
      BY <2>1, <3>1
    <3>3. d * (wj * zj) = a * (uj * zj) + b * (vj * zj)
      BY ONLY <3>2, TermsCombine, a \in Int, b \in Int, d \in Int
    <3>. QED  BY <3>1, <3>3, Zenon
  <2>3. u[j] * z[j] \in Int /\ v[j] * z[j] \in Int /\ w[j] * z[j] \in Int
    BY <2>1, Products
  <2>. QED  BY <2>2, <2>3
<1>. HIDE DEF uz, vz, wz
<1>2. d * SumFunctionOnSet(wz, S)
        = a * SumFunctionOnSet(uz, S) + b * SumFunctionOnSet(vz, S)
  BY <1>1, CombineSums
<1>. QED  BY <1>2 DEF Dot, uz, vz, wz

LEMMA DotCommutes ==
    ASSUME NEW S, IsFiniteSet(S), NEW u, NEW v, \A j \in S : u[j] \in Int /\ v[j] \in Int
    PROVE  Dot(u, v, S) = Dot(v, u, S)
<1>1. [j \in S |-> u[j] * v[j]] = [j \in S |-> v[j] * u[j]]
  BY Products
<1>. QED  BY <1>1 DEF Dot

LEMMA DotCongruent ==
    ASSUME NEW S, NEW u, NEW v, NEW x, NEW y, \A j \in S : u[j] = x[j] /\ v[j] = y[j]
    PROVE  Dot(u, v, S) = Dot(x, y, S)
<1>1. [j \in S |-> u[j] * v[j]] = [j \in S |-> x[j] * y[j]]
  OBVIOUS
<1>. QED  BY <1>1 DEF Dot
----------------------------------------------------------------------------
(***************************************************************************)
(* The design.                                                             *)
(***************************************************************************)
LEMMA Ranges ==
    ASSUME k \in Nat
    PROVE  /\ IsFiniteSet(0..k) /\ IsFiniteSet(1..k) /\ IsFiniteSet(Columns)
           /\ 0..k \subseteq Columns /\ k + 1 \in Columns /\ Columns = 0..k \union {k + 1}
           /\ 0 \in 0..k /\ 0..k = 1..k \union {0} /\ k + 1 \notin 0..k
<1>1. IsFiniteSet(0..k) /\ IsFiniteSet(1..k) /\ IsFiniteSet(0..(k + 1))
  BY FS_Interval
<1>. QED  BY <1>1 DEF Columns

LEMMA SampleTypes ==
    ASSUME ArgsInv, ~Ragged
    PROVE  /\ IsFiniteSet(DOMAIN samples)
           /\ \A n \in DOMAIN samples :
                /\ samples[n].watts \in Nat
                /\ \A i \in 0..k : X(samples[n], i) \in Nat
                /\ \A j \in Columns : Entry(samples[n], j) \in Nat
<1>1. IsFiniteSet(DOMAIN samples)
  <2>1. DOMAIN samples = 1..Len(samples) /\ Len(samples) \in Nat
    BY DEF ArgsInv
  <2>. QED  BY <2>1, FS_Interval
<1>2. ASSUME NEW n \in DOMAIN samples
      PROVE  samples[n].watts \in Nat /\ \A i \in 0..k : X(samples[n], i) \in Nat
  <2>1. samples[n] \in Sample
    BY DEF ArgsInv
  <2>2. PICK s \in Sample : s = samples[n]
    BY <2>1
  <2>3. s.watts \in Nat /\ s.rps \in Seq(Nat) /\ Len(s.rps) = k
    BY <2>2 DEF Sample, Ragged
  <2>4. \A i \in 1..k : s.rps[i] \in Nat
    BY <2>3
  <2>5. \A i \in 0..k : X(s, i) \in Nat
    BY <2>4, OneAssumption DEF X, ArgsInv
  <2>. QED  BY <2>2, <2>3, <2>5
<1>3. ASSUME NEW n \in DOMAIN samples, NEW j \in Columns
      PROVE  Entry(samples[n], j) \in Nat
  <2>1. j = k + 1 \/ j \in 0..k
    BY Ranges DEF ArgsInv
  <2>. QED  BY <2>1, <1>2 DEF Entry
<1>. QED  BY <1>1, <1>2, <1>3

LEMMA PenalisedType ==
    ASSUME ArgsInv, NEW i
    PROVE  Penalised(i) \in Nat
BY DEF Penalised, ArgsInv

\* The sum of the products of two columns of the design.
Moment(i, j) ==
    SumFunctionOnSet([n \in DOMAIN samples |-> X(samples[n], i) * Entry(samples[n], j)], DOMAIN samples)

LEMMA GramIs ==
    ASSUME ArgsInv, ~Ragged
    PROVE  /\ Gram \in [0..k -> [Columns -> Int]]
           /\ \A i \in 0..k : \A j \in Columns :
                /\ Moment(i, j) \in Int
                /\ Gram[i][j] = Moment(i, j) + (IF i = j THEN Penalised(i) ELSE 0)
<1>1. ASSUME NEW i \in 0..k, NEW j \in Columns
      PROVE  /\ Moment(i, j) \in Int
             /\ Moment(i, j) + (IF i = j THEN Penalised(i) ELSE 0) \in Int
  <2>. DEFINE f == [n \in DOMAIN samples |-> X(samples[n], i) * Entry(samples[n], j)]
  <2>1. \A n \in DOMAIN samples : f[n] \in Int
    <3>1. \A n \in DOMAIN samples : X(samples[n], i) \in Int /\ Entry(samples[n], j) \in Int
      BY SampleTypes
    <3>. QED  BY <3>1, Products
  <2>. HIDE DEF f
  <2>2. SumFunctionOnSet(f, DOMAIN samples) \in Int
    BY <2>1, SampleTypes, SumOut
  <2>3. Moment(i, j) \in Int
    BY <2>2 DEF Moment, f
  <2>. QED  BY <2>3, PenalisedType
<1>2. Gram = [i \in 0..k |-> [j \in Columns |->
                Moment(i, j) + (IF i = j THEN Penalised(i) ELSE 0)]]
  BY DEF Gram, Moment, SumFunction, Columns
<1>. HIDE DEF Gram
<1>. QED  BY <1>1, <1>2

----------------------------------------------------------------------------
(***************************************************************************)
(* Elimination.                                                            *)
(***************************************************************************)
LEMMA Signs ==
    ASSUME NEW x \in Int
    PROVE  /\ Abs(x) \in Nat /\ Sign(x) \in Int /\ Sign(x) # 0
           /\ Abs(x) = 0 <=> x = 0
           /\ x * Sign(x) = Abs(x) /\ Sign(x) * x = Abs(x)
BY DEF Abs, Sign

LEMMA MatrixType ==
    ASSUME TypeOK, col >= 0
    PROVE  /\ m = [r \in 0..k |-> m[r]]
           /\ \A r \in 0..k : m[r] \in Vectors /\ \A j \in Columns : m[r][j] \in Int
BY DEF TypeOK, Vectors, Columns

\* There is a largest entry, and a first row that has it.
LEMMA PivotIsLeft ==
    ASSUME ArgsInv, TypeOK, col \in 0..k
    PROVE  PivotRow \in col..k /\ \A o \in col..k : Abs(m[PivotRow][col]) >= Abs(m[o][col])
<1>. DEFINE e == [r \in col..k |-> Abs(m[r][col])]
            Largest == {r \in col..k : \A o \in col..k : Abs(m[r][col]) >= Abs(m[o][col])}
<1>1. IsFiniteSet(col..k) /\ col..k # {} /\ col..k \subseteq Nat /\ k \in Nat /\ col \in Nat
  <2>1. k \in Nat /\ col \in Nat /\ col <= k
    BY DEF ArgsInv
  <2>2. IsFiniteSet(col..k)
    BY ONLY <2>1, FS_Interval
  <2>3. col \in col..k
    BY ONLY <2>1
  <2>4. col..k \subseteq Nat
    BY ONLY <2>1
  <2>. QED  BY <2>1, <2>2, <2>3, <2>4
<1>2. \A r \in col..k : m[r][col] \in Int
  BY <1>1, MatrixType, Ranges
<1>3. \A r \in col..k : e[r] \in Nat /\ e[r] = Abs(m[r][col])
  BY <1>2, Signs
<1>. HIDE DEF e
<1>4. PICK b \in Nat : \A r \in col..k : e[r] <= b
  BY <1>1, <1>3, SumNat
<1>. DEFINE S == {e[r] : r \in col..k}
<1>5. S \in SUBSET Nat /\ S # {} /\ \A x \in S : x <= b
  BY <1>1, <1>3, <1>4
<1>6. PICK x \in S : \A y \in S : y <= x
  <2>. HIDE DEF S
  <2>. QED  BY <1>5, MaxExists
<1>7. PICK r \in col..k : x = e[r]
  BY <1>6
<1>8. \A o \in col..k : e[r] >= e[o]
  BY <1>3, <1>6, <1>7
<1>9. r \in Largest
  BY <1>3, <1>8
<1>10. Largest \in SUBSET Nat /\ Largest # {}
  BY <1>1, <1>9
<1>11. PICK f \in Largest : \A y \in Largest : f <= y
  <2>. HIDE DEF Largest
  <2>. QED  BY <1>10, MinExists
<1>12. Min(Largest) \in Largest
  <2>. HIDE DEF Largest
  <2>. QED  BY <1>11 DEF Min
<1>. QED  BY <1>12 DEF PivotRow

LEMMA DivideExactly ==
    ASSUME NEW x \in Int, NEW d \in Nat \ {0}, x % d = 0
    PROVE  x \div d \in Int /\ d * (x \div d) = x
OBVIOUS

\* An exchange of rows keeps their solutions.
LEMMA SwappedIs ==
    ASSUME ArgsInv, TypeOK, col \in 0..k, NEW p \in col..k, NEW a, a = Swapped(p)
    PROVE  /\ a \in [0..k -> Vectors]
           /\ \A r \in 0..k : \A j \in Columns : a[r][j] \in Int
           /\ \A r \in 0..k : r < col => a[r] = m[r]
           /\ \A r \in 0..k : r >= col => \E o \in col..k : a[r] = m[o]
           /\ \A z : Null(a, z) <=> Null(m, z)
<1>1. k \in Nat /\ col \in Nat /\ col <= k /\ p \in Nat /\ col <= p /\ p <= k
  BY DEF ArgsInv
<1>2. m = [r \in 0..k |-> m[r]] /\ \A r \in 0..k : m[r] \in Vectors
  BY <1>1, MatrixType
<1>3. col \in 0..k /\ p \in 0..k
  BY <1>1
<1>4. \A r \in 0..k : a[r] = IF r = p THEN m[col] ELSE IF r = col THEN m[p] ELSE m[r]
  BY <1>2, <1>3 DEF Swapped
<1>5. a \in [0..k -> Vectors]
  <2>1. a = [r \in 0..k |-> a[r]]
    BY <1>2 DEF Swapped
  <2>2. \A r \in 0..k : a[r] \in Vectors
    BY <1>2, <1>3, <1>4
  <2>. QED  BY <2>1, <2>2
<1>6. \A r \in 0..k : \A j \in Columns : a[r][j] \in Int
  BY <1>5 DEF Vectors
<1>7. \A r \in 0..k : r < col => a[r] = m[r]
  BY <1>1, <1>4
<1>8. \A r \in 0..k : r >= col => \E o \in col..k : a[r] = m[o]
  <2>1. \A r \in 0..k : r >= col => r \in col..k
    BY <1>1
  <2>2. col \in col..k
    BY <1>1
  <2>. QED  BY <2>1, <2>2, <1>4
<1>9. \A z : Null(a, z) <=> Null(m, z)
  <2>1. \A r \in 0..k : \E o \in 0..k : a[r] = m[o]
    BY <1>3, <1>4
  <2>2. \A r \in 0..k : \E o \in 0..k : m[r] = a[o]
    BY <1>3, <1>4
  <2>. QED  BY <2>1, <2>2 DEF Null
<1>. QED  BY <1>5, <1>6, <1>7, <1>8, <1>9

LEMMA Rescaled ==
    ASSUME NEW s \in Nat \ {0}, NEW p \in Nat \ {0}, NEW d \in {s, 1}
    PROVE  (s * p) \div d \in Nat \ {0} /\ d * ((s * p) \div d) = s * p
<1>1. CASE d = s
  <2>1. s * p = p * s /\ s * p \in Nat
    OBVIOUS
  <2>2. (s * p) % s = 0 /\ (s * p) \div s = p
    BY Z3
  <2>. QED  BY <1>1, <2>2
<1>2. CASE d = 1
  <2>. DEFINE q == s * p
  <2>1. q \in Int /\ q # 0 /\ q >= 0
    OBVIOUS
  <2>. HIDE DEF q
  <2>2. q \div 1 = q
    BY <2>1
  <2>. QED  BY <2>1, <2>2, <1>2 DEF q
<1>. QED  BY <1>1, <1>2

\* The rows below, times d, are combinations of what they were and of the pivot's row.
Combined(a, d) ==
    \A r \in (col + 1)..k : \A j \in Columns :
        /\ m'[r][j] \in Int
        /\ d * m'[r][j] = Abs(a[col][col]) * a[r][j]
                            + (- (Sign(a[col][col]) * a[r][col])) * a[col][j]

EliminatesBy(a, d) ==
    /\ a[col][col] # 0 /\ a[col][col] \in Int
    /\ m' \in [0..k -> Vectors]
    /\ \A r \in 0..k : r <= col => m'[r] = a[r]
    /\ Combined(a, d)
    /\ scale' \in Nat \ {0} /\ d * scale' = scale * Abs(a[col][col])
    /\ pivots' = pivots \union {<<Abs(a[col][col]), scale>>}
    /\ \A r \in col..k : Abs(m[r][col]) <= Abs(a[col][col])

LEMMA EliminateIs ==
    ASSUME ArgsInv, TypeOK, Eliminate
    PROVE  \E p \in col..k : \E d \in Nat \ {0} : EliminatesBy(Swapped(p), d)
<1>. DEFINE p == PivotRow
            a == Swapped(p)
            rows == Eliminated(a, a[col][col])
            d == Divisor(rows)
<1>1. /\ col \in 0..k /\ m[p][col] # 0
      /\ m' = [r \in 0..k |->
                 IF r \in Below THEN [j \in Columns |-> rows[r][j] \div d] ELSE a[r]]
      /\ pivots' = pivots \union {<<Abs(a[col][col]), scale>>}
      /\ scale' = (scale * Abs(a[col][col])) \div d
  BY DEF Eliminate, TooSmall, Columns
<1>2. p \in col..k /\ \A o \in col..k : Abs(m[p][col]) >= Abs(m[o][col])
  BY <1>1, PivotIsLeft
<1>3. a \in [0..k -> Vectors] /\ \A r \in 0..k : \A j \in Columns : a[r][j] \in Int
  <2>. HIDE DEF p
  <2>. QED  BY <1>1, <1>2, SwappedIs
<1>4. a[col] = m[p]
  <2>1. k \in Nat /\ col \in Nat /\ col <= k /\ p \in Nat /\ col <= p /\ p <= k
    BY <1>1, <1>2 DEF ArgsInv
  <2>2. m = [r \in 0..k |-> m[r]] /\ col \in 0..k /\ p \in 0..k
    BY <2>1, MatrixType
  <2>. HIDE DEF p
  <2>. QED  BY <2>2 DEF Swapped
<1>5. /\ k \in Nat /\ col \in Nat /\ col <= k /\ col \in Columns
      /\ \A r \in Below : r \in 0..k /\ r > col
      /\ \A r \in 0..k : r <= col => r \notin Below
      /\ Below = (col + 1)..k
  BY <1>1 DEF ArgsInv, Below, Columns
<1>. HIDE DEF p, a
<1>6. a[col][col] # 0 /\ a[col][col] \in Int
  BY <1>1, <1>3, <1>4, <1>5
<1>7. ASSUME NEW r \in Below, NEW j \in Columns
      PROVE  /\ rows[r][j] \in Int
             /\ rows[r][j] = Abs(a[col][col]) * a[r][j]
                               + (- (Sign(a[col][col]) * a[r][col])) * a[col][j]
             /\ j \in 0..(k + 1)
  <2>1. rows[r][j] = Abs(a[col][col]) * a[r][j] - Sign(a[col][col]) * a[r][col] * a[col][j]
        /\ j \in 0..(k + 1)
    BY DEF Eliminated, Columns
  <2>4. /\ Abs(a[col][col]) \in Int /\ Sign(a[col][col]) \in Int
        /\ a[r][j] \in Int /\ a[r][col] \in Int /\ a[col][j] \in Int
    <3>1. Abs(a[col][col]) \in Int /\ Sign(a[col][col]) \in Int
      BY <1>6, Signs
    <3>2. r \in 0..k /\ col \in 0..k
      BY <1>1, <1>5
    <3>. QED  BY <3>1, <3>2, <1>3, <1>5
  <2>2. PICK u \in Int, v \in Int, w \in Int, x \in Int, y \in Int :
          u = Abs(a[col][col]) /\ v = a[r][j] /\ w = Sign(a[col][col]) /\ x = a[r][col] /\ y = a[col][j]
    BY ONLY <2>4
  <2>3. u * v - w * x * y = u * v + (- (w * x)) * y /\ u * v + (- (w * x)) * y \in Int
    OBVIOUS
  <2>. HIDE DEF rows
  <2>. QED  BY <2>1, <2>2, <2>3, Zenon
<1>8. d \in {scale, 1} /\ scale \in Nat \ {0}
  BY DEF Divisor, TypeOK
<1>9. \A r \in Below : \A j \in Columns : rows[r][j] % d = 0
  <2>1. DOMAIN rows = Below
    BY DEF Eliminated
  <2>2. CASE d = 1
    <3>. HIDE DEF rows, d
    <3>. QED  BY <2>2, <1>7
  <2>3. CASE d # 1
    <3>1. \A r \in DOMAIN rows : \A j \in Columns : rows[r][j] % scale = 0
      BY <2>3 DEF Divisor, Columns
    <3>2. d = scale
      BY <2>3, <1>8
    <3>. HIDE DEF rows, d
    <3>. QED  BY <3>1, <3>2, <2>1
  <2>. QED  BY <2>2, <2>3
<1>. HIDE DEF rows, d
<1>10. ASSUME NEW r \in Below, NEW j \in Columns
       PROVE  m'[r][j] \in Int /\ d * m'[r][j] = rows[r][j]
  <2>1. m'[r][j] = rows[r][j] \div d
    BY <1>1, <1>5
  <2>2. rows[r][j] \in Int /\ rows[r][j] % d = 0 /\ d \in Nat \ {0}
    BY <1>7, <1>8, <1>9
  <2>. QED  BY <2>1, <2>2, DivideExactly
<1>11. \A r \in 0..k : r <= col => m'[r] = a[r]
  BY <1>1, <1>5
<1>12. m' \in [0..k -> Vectors]
  <2>1. ASSUME NEW r \in Below
        PROVE  m'[r] \in Vectors
    <3>1. m'[r] = [j \in Columns |-> rows[r][j] \div d]
      BY <1>1, <1>5
    <3>2. \A j \in Columns : rows[r][j] \div d \in Int
      BY <3>1, <1>10
    <3>. QED  BY <3>1, <3>2 DEF Vectors
  <2>2. \A r \in 0..k : r \notin Below => m'[r] \in Vectors
    BY <1>1, <1>3
  <2>3. m' = [r \in 0..k |-> m'[r]]
    BY <1>1
  <2>. QED  BY <2>1, <2>2, <2>3
<1>13. scale' \in Nat \ {0} /\ d * scale' = scale * Abs(a[col][col])
  <2>1. Abs(a[col][col]) \in Nat \ {0}
    BY <1>6, Signs
  <2>. QED  BY <1>1, <1>8, <2>1, Rescaled
<1>14. Combined(a, d)
  BY <1>5, <1>7, <1>10 DEF Combined
<1>15. d \in Nat \ {0}
  BY <1>8
<1>16. \A r \in col..k : Abs(m[r][col]) <= Abs(a[col][col])
  <2>1. ASSUME NEW r \in col..k
        PROVE  Abs(m[r][col]) <= Abs(a[col][col])
    <3>1. Abs(a[col][col]) >= Abs(m[r][col])
      BY <1>2, <1>4
    <3>2. m[r][col] \in Int
      <4>1. r \in 0..k
        BY <1>5
      <4>. QED  BY <1>5, <4>1, MatrixType
    <3>3. Abs(m[r][col]) \in Nat /\ Abs(a[col][col]) \in Nat
      BY <1>6, <3>2, Signs
    <3>. QED  BY <3>1, <3>3
  <2>. QED  BY <2>1
<1>17. EliminatesBy(a, d)
  BY <1>1, <1>6, <1>11, <1>12, <1>13, <1>14, <1>16 DEF EliminatesBy
<1>. QED  BY <1>2, <1>15, <1>17 DEF a

LEMMA ZeroCombined ==
    ASSUME NEW d \in Int, d # 0, NEW w \in Int, NEW p \in Int, p # 0, NEW u \in Int, NEW b \in Int,
           d * w = p * u + b * 0
    PROVE  w = 0 <=> u = 0
<1>1. d * w = p * u
  OBVIOUS
<1>2. w = 0 => p * u = 0
  BY <1>1
<1>3. u = 0 => d * w = 0
  BY <1>1
<1>. QED  BY <1>2, <1>3, Products

\* Elimination keeps the solutions of the rows.
LEMMA EliminatedSolutions ==
    ASSUME ArgsInv, col \in 0..k, NEW a \in [0..k -> Vectors], NEW d \in Nat \ {0},
           EliminatesBy(a, d), NEW z \in Vectors
    PROVE  Null(m', z) <=> Null(a, z)
<1>. DEFINE pivot == a[col][col]
<1>1. /\ pivot \in Int /\ pivot # 0
      /\ \A r \in 0..k : r <= col => m'[r] = a[r]
      /\ Combined(a, d)
  BY DEF EliminatesBy
<1>2. IsFiniteSet(Columns) /\ k \in Nat /\ col \in Columns
  BY Ranges DEF ArgsInv
<1>3. \A r \in 0..k : \A j \in Columns : a[r][j] \in Int
  BY DEF Vectors
<1>4. \A j \in Columns : z[j] \in Int
  BY DEF Vectors
<1>5. ASSUME NEW r \in 0..k, r > col, Dot(a[col], z, Columns) = 0
      PROVE  Dot(m'[r], z, Columns) = 0 <=> Dot(a[r], z, Columns) = 0
  <2>1. r \in (col + 1)..k
    BY <1>5, <1>2
  <2>2. PICK b \in Int : b = - (Sign(pivot) * a[r][col])
    <3>1. Sign(pivot) \in Int /\ a[r][col] \in Int
      BY <1>1, <1>2, <1>3, Signs
    <3>2. Sign(pivot) * a[r][col] \in Int
      BY <3>1, Products
    <3>. QED  BY <3>2
  <2>3. PICK g \in Int : g = Abs(pivot) /\ g # 0
    <3>1. PICK q \in Int : q = pivot /\ q # 0
      BY <1>1
    <3>2. Abs(q) \in Nat /\ (Abs(q) = 0 <=> q = 0)
      BY <3>1, Signs
    <3>. QED  BY <3>1, <3>2
  <2>4. \A j \in Columns : /\ m'[r][j] \in Int
                           /\ d * m'[r][j] = g * a[r][j] + b * a[col][j]
    BY <1>1, <2>1, <2>2, <2>3 DEF Combined
  <2>5. PICK w : w = m'[r]
    OBVIOUS
  <2>6. \A j \in Columns : /\ a[r][j] \in Int /\ a[col][j] \in Int /\ w[j] \in Int /\ z[j] \in Int
                           /\ d * w[j] = g * a[r][j] + b * a[col][j]
    BY <1>3, <1>4, <2>4, <2>5
  <2>7. PICK ar, ac : ar = a[r] /\ ac = a[col]
    OBVIOUS
  <2>8. \A j \in Columns : /\ ar[j] \in Int /\ ac[j] \in Int /\ w[j] \in Int /\ z[j] \in Int
                           /\ d * w[j] = g * ar[j] + b * ac[j]
    BY <2>6, <2>7
  <2>9. d * Dot(w, z, Columns) = g * Dot(ar, z, Columns) + b * Dot(ac, z, Columns)
    BY ONLY <1>2, <2>8, DotCombines, g \in Int, b \in Int, d \in Nat \ {0}
  <2>10. Dot(w, z, Columns) \in Int /\ Dot(ar, z, Columns) \in Int
    BY <1>2, <2>8, DotIsInt
  <2>11. d * Dot(w, z, Columns) = g * Dot(ar, z, Columns) + b * 0
    BY <2>9, <1>5, <2>7
  <2>12. PICK x \in Int, y \in Int : x = Dot(w, z, Columns) /\ y = Dot(ar, z, Columns)
    BY <2>10
  <2>13. d * x = g * y + b * 0
    BY <2>11, <2>12, Zenon
  <2>14. x = 0 <=> y = 0
    BY ONLY <2>3, <2>13, ZeroCombined, d \in Nat \ {0}, x \in Int, y \in Int, b \in Int
  <2>. QED  BY <2>5, <2>7, <2>12, <2>14
<1>6. Dot(m'[col], z, Columns) = Dot(a[col], z, Columns)
  BY <1>1
<1>7. \A r \in 0..k : r <= col \/ r > col
  BY <1>2
<1>8. ASSUME Dot(a[col], z, Columns) = 0, NEW r \in 0..k
      PROVE  Dot(m'[r], z, Columns) = 0 <=> Dot(a[r], z, Columns) = 0
  BY <1>1, <1>5, <1>7, <1>8
<1>. QED  BY <1>6, <1>8 DEF Null

\* A column is cleared below its pivot, and what was cleared stays so.
LEMMA EliminatedTriangle ==
    ASSUME ArgsInv, TypeOK, col \in 0..k, Triangular(col), NEW p \in col..k, NEW a, a = Swapped(p),
           NEW d \in Nat \ {0}, EliminatesBy(a, d), NEW c \in 0..k, c < col + 1
    PROVE  m'[c][c] # 0 /\ \A r \in (c + 1)..k : m'[r][c] = 0
<1>. DEFINE pivot == a[col][col]
<1>1. /\ pivot \in Int /\ pivot # 0
      /\ \A r \in 0..k : r <= col => m'[r] = a[r]
      /\ Combined(a, d)
  BY DEF EliminatesBy
<1>2. k \in Nat /\ col \in Nat /\ col <= k /\ c \in Nat /\ c <= col /\ c \in Columns
  BY DEF ArgsInv, Columns
<1>3. /\ \A r \in 0..k : \A j \in Columns : a[r][j] \in Int
      /\ \A r \in 0..k : r < col => a[r] = m[r]
      /\ \A r \in 0..k : r >= col => \E o \in col..k : a[r] = m[o]
  BY SwappedIs, ZenonT(30)
<1>4. ASSUME NEW r \in (col + 1)..k, Abs(pivot) * a[r][c] = Sign(pivot) * a[r][col] * a[col][c]
      PROVE  m'[r][c] = 0
  <2>1. r \in 0..k
    BY <1>2
  <2>2. /\ m'[r][c] \in Int
        /\ d * m'[r][c] = Abs(pivot) * a[r][c] + (- (Sign(pivot) * a[r][col])) * a[col][c]
    BY <1>1, <1>2 DEF Combined
  <2>3. PICK g \in Int, s \in Int, x \in Int, y \in Int, z \in Int :
          g = Abs(pivot) /\ s = Sign(pivot) /\ x = a[r][c] /\ y = a[r][col] /\ z = a[col][c]
    <3>1. Abs(pivot) \in Int /\ Sign(pivot) \in Int
      BY <1>1, Signs
    <3>2. a[r][c] \in Int /\ a[r][col] \in Int /\ a[col][c] \in Int
      BY <1>2, <1>3, <2>1, Ranges
    <3>. QED  BY ONLY <3>1, <3>2
  <2>4. g * x = s * y * z
    BY <1>4, <2>3, Zenon
  <2>5. g * x + (- (s * y)) * z = 0
    BY ONLY <2>4, g \in Int, s \in Int, x \in Int, y \in Int, z \in Int
  <2>6. d * m'[r][c] = 0
    BY <2>2, <2>3, <2>5, Zenon
  <2>. QED  BY <2>2, <2>6, Products
<1>5. CASE c < col
  <2>1. /\ m[c][c] # 0 /\ m'[c] = m[c]
        /\ \A r \in (c + 1)..k : m[r][c] = 0
    BY <1>1, <1>2, <1>3, <1>5 DEF Triangular
  <2>2. ASSUME NEW r \in (c + 1)..k
        PROVE  a[r][c] = 0 /\ r \in 0..k
    <3>1. r \in 0..k /\ (r < col \/ r >= col)
      BY <1>2
    <3>2. \A o \in col..k : m[o][c] = 0
      BY <1>2, <1>5, <2>1
    <3>3. \A o \in col..k : a[r] = m[o] => a[r][c] = 0
      BY <3>2
    <3>. QED  BY <1>3, <2>1, <3>1, <3>3
  <2>3. ASSUME NEW r \in (c + 1)..k
        PROVE  m'[r][c] = 0
    <3>1. CASE r <= col
      BY <3>1, <1>1, <2>2
    <3>2. CASE r > col
      <4>1. r \in (col + 1)..k /\ r \in 0..k
        BY <1>2, <3>2
      <4>2. col \in (c + 1)..k
        BY <1>2, <1>5
      <4>3. a[r][c] = 0 /\ a[col][c] = 0
        BY <2>2, <4>2
      <4>4. Abs(pivot) \in Int /\ Sign(pivot) \in Int /\ a[r][col] \in Int
        <5>1. Abs(pivot) \in Int /\ Sign(pivot) \in Int
          BY <1>1, Signs
        <5>. QED  BY <5>1, <1>2, <1>3, <4>1, Ranges
      <4>5. Sign(pivot) * a[r][col] \in Int
        BY <4>4, Products
      <4>6. Abs(pivot) * 0 = 0 /\ Sign(pivot) * a[r][col] * 0 = 0
        BY <4>4, <4>5
      <4>7. Abs(pivot) * a[r][c] = Sign(pivot) * a[r][col] * a[col][c]
        BY <4>3, <4>6, Zenon
      <4>. QED  BY <4>1, <4>7, <1>4
    <3>. QED  BY <1>2, <3>1, <3>2
  <2>. QED  BY <2>1, <2>3
<1>6. CASE c = col
  <2>1. m'[c][c] # 0
    BY <1>1, <1>2, <1>6
  <2>2. ASSUME NEW r \in (c + 1)..k
        PROVE  m'[r][c] = 0
    <3>1. r \in (col + 1)..k /\ r \in 0..k /\ col \in Columns
      BY <1>2, <1>6
    <3>2. PICK x \in Int : x = a[r][col]
      BY <1>3, <3>1
    <3>3. PICK q \in Int : q = pivot
      BY <1>1
    <3>4. Abs(q) * x = Sign(q) * x * q
      <4>1. PICK s \in Int, g \in Int : s = Sign(q) /\ g = Abs(q) /\ s * q = g
        BY Signs
      <4>2. s * x * q = (s * q) * x
        OBVIOUS
      <4>. QED  BY <4>1, <4>2
    <3>5. Abs(pivot) * a[r][c] = Sign(pivot) * a[r][col] * a[col][c]
      BY <1>6, <3>2, <3>3, <3>4, Zenon
    <3>. QED  BY <1>4, <3>1, <3>5
  <2>. QED  BY <2>1, <2>2
<1>. QED  BY <1>2, <1>5, <1>6
----------------------------------------------------------------------------
(***************************************************************************)
(* Back substitution.                                                      *)
(***************************************************************************)
\* What a row gives apart from the coefficient r, which is the first it has.
Later(r) == SumFunctionOnSet([c \in (r + 1)..k |-> m[r][c] * coefs[c]], (r + 1)..k)

LEMMA RestType ==
    ASSUME ArgsInv, TypeOK, verdict = "regular", NEW r \in 0..k
    PROVE  /\ Later(r) \in Int /\ Rest(r) \in Int
           /\ Rest(r) = scale * m[r][k + 1] - Later(r)
<1>1. k \in Nat /\ IsFiniteSet((r + 1)..k) /\ (r + 1)..k \subseteq 0..k
  <2>1. k \in Nat /\ r \in Nat
    BY DEF ArgsInv
  <2>2. (r + 1)..k \subseteq 0..k
    BY ONLY <2>1
  <2>3. IsFiniteSet((r + 1)..k)
    BY <2>1, <2>2, Ranges, FS_Subset
  <2>. QED  BY <2>1, <2>2, <2>3
<1>2. col >= 0 /\ coefs \in [0..k -> Int] /\ scale \in Int
  BY DEF TypeOK
<1>3. \A j \in Columns : m[r][j] \in Int
  BY <1>2, MatrixType
<1>. DEFINE h == [c \in (r + 1)..k |-> m[r][c] * coefs[c]]
<1>4. \A c \in (r + 1)..k : h[c] \in Int
  <2>1. \A c \in (r + 1)..k : m[r][c] \in Int /\ coefs[c] \in Int
    BY <1>1, <1>2, <1>3, Ranges
  <2>. QED  BY <2>1, Products
<1>5. Rest(r) = scale * m[r][k + 1] - Later(r)
  BY DEF Rest, Later, SumFunction
<1>. HIDE DEF h
<1>6. SumFunctionOnSet(h, (r + 1)..k) \in Int
  BY <1>1, <1>4, SumOut
<1>7. Later(r) \in Int
  BY <1>6 DEF Later, h
<1>8. m[r][k + 1] \in Int
  BY <1>1, <1>3, Ranges
<1>9. scale * m[r][k + 1] \in Int
  BY <1>2, <1>8, Products
<1>. QED  BY <1>5, <1>7, <1>9

\* The factor makes the division exact.
LEMMA FactorIs ==
    ASSUME NEW t \in Int, NEW p \in Int, p # 0, NEW g, g = IF t % Abs(p) = 0 THEN 1 ELSE Abs(p)
    PROVE  /\ g \in Nat \ {0}
           /\ Sign(p) * ((g * t) \div Abs(p)) \in Int
           /\ p * (Sign(p) * ((g * t) \div Abs(p))) = g * t
<1>1. PICK q \in Nat \ {0}, s \in Int : q = Abs(p) /\ s = Sign(p) /\ p * s = q
  BY Signs
<1>2. PICK x \in Int : x = (g * t) \div q /\ q * x = g * t
  <2>1. CASE t % q = 0
    <3>1. g * t = t
      BY <1>1, <2>1
    <3>. QED  BY <2>1, <3>1, DivideExactly
  <2>2. CASE t % q # 0
    <3>1. g = q
      BY <1>1, <2>2
    <3>2. (q * t) % q = 0 /\ q * t \in Int
      BY ONLY Z3, q \in Nat \ {0}, t \in Int
    <3>. QED  BY <3>1, <3>2, DivideExactly
  <2>. QED  BY <2>1, <2>2
<1>3. p * (s * x) = (p * s) * x
  BY Associates
<1>4. s * x \in Int
  BY Products
<1>5. g \in Nat \ {0}
  BY <1>1
<1>. QED  BY <1>1, <1>2, <1>3, <1>4, <1>5

LEMMA SubstituteIs ==
    ASSUME ArgsInv, TypeOK, TriangularInv, Substitute
    PROVE  \E g \in Nat \ {0} :
             LET row == col - 1 IN
             /\ row \in 0..k /\ col' = row
             /\ coefs' \in [0..k -> Int]
             /\ \A c \in 0..k : c # row => coefs'[c] = g * coefs[c]
             /\ m[row][row] * coefs'[row] = g * Rest(row)
             /\ scale' = g * scale /\ scale' \in Nat \ {0}
<1>. DEFINE row == col - 1
            p == m[row][row]
            g == IF Rest(row) % Abs(p) = 0 THEN 1 ELSE Abs(p)
            new == Sign(p) * ((g * Rest(row)) \div Abs(p))
<1>1. /\ verdict = "regular" /\ col > 0
      /\ coefs' = [c \in 0..k |-> IF c = row THEN new ELSE g * coefs[c]]
      /\ scale' = g * scale /\ col' = row
  BY DEF Substitute
<1>2. row \in 0..k /\ k \in Nat /\ coefs \in [0..k -> Int] /\ scale \in Nat \ {0} /\ col >= 0
  BY <1>1 DEF ArgsInv, TypeOK
<1>3. p \in Int /\ p # 0
  <2>1. p \in Int
    BY <1>2, MatrixType, Ranges
  <2>2. Triangular(k + 1)
    BY <1>1 DEF TriangularInv
  <2>. QED  BY <1>2, <2>1, <2>2 DEF Triangular
<1>4. Rest(row) \in Int
  BY <1>1, <1>2, RestType
<1>5. g \in Nat \ {0} /\ new \in Int /\ p * new = g * Rest(row)
  <2>. HIDE DEF row, p
  <2>. QED  BY <1>3, <1>4, FactorIs
<1>. HIDE DEF p, g, new
<1>6. \A c \in 0..k : g * coefs[c] \in Int
  BY <1>2, <1>5, Products
<1>7. coefs' \in [0..k -> Int] /\ coefs'[row] = new
  BY <1>1, <1>2, <1>5, <1>6
<1>8. \A c \in 0..k : c # row => coefs'[c] = g * coefs[c]
  BY <1>1
<1>9. scale' \in Nat \ {0}
  BY <1>1, <1>2, <1>5
<1>. QED  BY <1>1, <1>2, <1>5, <1>7, <1>8, <1>9 DEF p

LEMMA VectorType ==
    ASSUME k \in Nat, NEW num \in [0..k -> Int], NEW den \in Int
    PROVE  /\ Vector(num, den) \in Vectors
           /\ Vector(num, den)[k + 1] = - den
           /\ \A j \in 0..k : Vector(num, den)[j] = num[j]
<1>1. \A j \in Columns : j # k + 1 => j \in 0..k
  BY Ranges
<1>2. \A j \in 0..k : j \in Columns /\ j # k + 1
  BY Ranges
<1>. QED  BY <1>1, <1>2, Ranges DEF Vector, Vectors

\* The rows substituted before stay solved,
LEMMA EarlierRowsSolved ==
    ASSUME ArgsInv, TypeOK, TriangularInv, SolvedInv, Substitute,
           NEW r \in 0..k, r >= col
    PROVE  Dot(m[r], Vector(coefs', scale'), Columns) = 0
<1>1. PICK g \in Nat \ {0} :
        /\ col - 1 \in 0..k
        /\ coefs' \in [0..k -> Int]
        /\ \A c \in 0..k : c # col - 1 => coefs'[c] = g * coefs[c]
        /\ scale' = g * scale /\ scale' \in Nat \ {0}
  BY SubstituteIs
<1>2. k \in Nat /\ coefs \in [0..k -> Int] /\ scale \in Nat \ {0} /\ col >= 0
  BY DEF Substitute, ArgsInv, TypeOK
<1>. DEFINE u == m[r]
            x == Vector(coefs, scale)
            y == Vector(coefs', scale')
<1>3. /\ x \in Vectors /\ x[k + 1] = - scale /\ \A j \in 0..k : x[j] = coefs[j]
      /\ y \in Vectors /\ y[k + 1] = - (g * scale) /\ \A j \in 0..k : y[j] = coefs'[j]
  <2>1. scale \in Int /\ scale' \in Int
    BY <1>1, <1>2
  <2>. QED  BY <1>1, <1>2, <2>1, VectorType
<1>4. \A j \in Columns : u[j] \in Int
  BY <1>2, MatrixType
<1>5. u[col - 1] = 0
  <2>1. Triangular(k + 1)
    BY DEF Substitute, TriangularInv
  <2>2. r \in ((col - 1) + 1)..k /\ col - 1 < k + 1
    <3>1. /\ r \in Nat /\ r <= k /\ k \in Nat /\ col \in Int /\ r >= col
          /\ col - 1 \in Nat /\ col - 1 <= k
      BY <1>1, <1>2 DEF TypeOK
    <3>. QED  BY ONLY <3>1
  <2>. QED  BY <1>1, <2>1, <2>2 DEF Triangular
<1>6. Dot(u, x, Columns) = 0
  BY DEF Substitute, SolvedInv
<1>. HIDE DEF u, x, y
<1>7. ASSUME NEW j \in Columns
      PROVE  u[j] * y[j] = g * (u[j] * x[j])
  <2>1. PICK a \in Int, b \in Int : a = u[j] /\ b = x[j]
    BY <1>3, <1>4 DEF Vectors
  <2>2. CASE j = k + 1
    <3>1. - (g * scale) = g * (- scale)
      BY <1>2
    <3>2. y[j] = g * b
      BY <1>3, <2>1, <2>2, <3>1
    <3>3. a * (g * b) = g * (a * b)
      OBVIOUS
    <3>. QED  BY <2>1, <3>2, <3>3
  <2>3. CASE j \in 0..k /\ j # col - 1
    <3>1. y[j] = g * b
      BY <1>1, <1>3, <2>1, <2>3
    <3>2. a * (g * b) = g * (a * b)
      OBVIOUS
    <3>. QED  BY <2>1, <3>1, <3>2
  <2>4. CASE j = col - 1
    <3>1. u[j] = 0 /\ y[j] \in Int
      BY <1>3, <1>5, <2>4 DEF Vectors
    <3>. QED  BY <2>1, <3>1
  <2>. QED  BY <1>2, <2>2, <2>3, <2>4, Ranges
<1>. DEFINE ux == [j \in Columns |-> u[j] * x[j]]
            uy == [j \in Columns |-> u[j] * y[j]]
<1>8. \A j \in Columns : ux[j] \in Int /\ uy[j] = g * ux[j]
  <2>1. \A j \in Columns : u[j] * x[j] \in Int
    BY <1>3, <1>4, Products DEF Vectors
  <2>. QED  BY <1>7, <2>1
<1>. HIDE DEF ux, uy
<1>9. SumFunctionOnSet(uy, Columns) = g * SumFunctionOnSet(ux, Columns)
  BY <1>2, <1>8, Ranges, SumTimes
<1>10. Dot(u, y, Columns) = g * 0
  BY <1>6, <1>9 DEF Dot, ux, uy
<1>. QED  BY <1>10 DEF u, y

\* and so is the next one.
LEMMA NextRowSolved ==
    ASSUME ArgsInv, TypeOK, TriangularInv, Substitute
    PROVE  Dot(m[col - 1], Vector(coefs', scale'), Columns) = 0
<1>. DEFINE row == col - 1
            u == m[row]
            y == Vector(coefs', scale')
            f == [j \in Columns |-> u[j] * y[j]]
            h == [c \in (row + 1)..k |-> u[c] * coefs[c]]
<1>1. PICK g \in Nat \ {0} :
        /\ row \in 0..k
        /\ coefs' \in [0..k -> Int]
        /\ \A c \in 0..k : c # row => coefs'[c] = g * coefs[c]
        /\ u[row] * coefs'[row] = g * Rest(row)
        /\ scale' = g * scale /\ scale' \in Nat \ {0}
  BY SubstituteIs
<1>2. /\ k \in Nat /\ coefs \in [0..k -> Int] /\ scale \in Nat \ {0} /\ col >= 0
      /\ verdict = "regular"
  BY DEF Substitute, ArgsInv, TypeOK
<1>3. y \in Vectors /\ y[k + 1] = - (g * scale) /\ \A j \in 0..k : y[j] = coefs'[j]
  <2>1. scale' \in Int
    BY <1>1
  <2>. QED  BY <1>1, <1>2, <2>1, VectorType
<1>4. \A j \in Columns : u[j] \in Int
  BY <1>1, <1>2, MatrixType
<1>5. \A j \in 0..k : j < row => u[j] = 0
  <2>1. Triangular(k + 1)
    BY <1>2 DEF TriangularInv
  <2>2. ASSUME NEW j \in 0..k, j < row
        PROVE  j < k + 1 /\ row \in (j + 1)..k
    BY <1>1, <1>2, <2>2
  <2>. QED  BY <2>1, <2>2 DEF Triangular
<1>6. /\ Later(row) \in Int /\ Rest(row) \in Int
      /\ Rest(row) = scale * u[k + 1] - Later(row)
  BY <1>1, <1>2, RestType
<1>7. Later(row) = SumFunctionOnSet(h, (row + 1)..k)
  BY DEF Later
<1>8. /\ k + 1 \in Columns /\ Columns \ {k + 1} = 0..k /\ 0..k \subseteq Columns
      /\ IsFiniteSet(Columns) /\ IsFiniteSet(0..k)
  BY <1>2, Ranges
<1>9. (row + 1)..k \subseteq (0..k) \ {row} /\ IsFiniteSet((0..k) \ {row})
  <2>1. row \in Nat /\ k \in Nat
    BY <1>1, <1>2
  <2>2. (row + 1)..k \subseteq (0..k) \ {row}
    BY ONLY <2>1
  <2>. QED  BY <2>2, <1>8, FS_Subset
<1>10. \A c \in (row + 1)..k : h[c] \in Int /\ h[c] = u[c] * coefs[c]
  <2>1. \A c \in (row + 1)..k : u[c] \in Int /\ coefs[c] \in Int
    BY <1>2, <1>4, <1>8, <1>9
  <2>. QED  BY <2>1, Products
<1>11. \A j \in Columns : f[j] \in Int /\ f[j] = u[j] * y[j]
  BY <1>3, <1>4, Products DEF Vectors
<1>12. ASSUME NEW c \in (row + 1)..k
       PROVE  f[c] = g * h[c]
  <2>1. c \in 0..k /\ c # row /\ c \in Columns
    BY <1>8, <1>9
  <2>2. PICK a \in Int, b \in Int : a = u[c] /\ b = coefs[c]
    BY <1>2, <1>4, <2>1
  <2>3. y[c] = g * b
    BY <1>1, <1>3, <2>1, <2>2
  <2>4. a * (g * b) = g * (a * b)
    OBVIOUS
  <2>. QED  BY <1>10, <1>11, <2>1, <2>2, <2>3, <2>4
<1>13. ASSUME NEW j \in (0..k) \ {row}, j \notin (row + 1)..k
       PROVE  f[j] = 0
  <2>1. j \in 0..k /\ j < row
    BY <1>1, <1>2, <1>13
  <2>2. u[j] = 0 /\ y[j] \in Int /\ j \in Columns
    BY <1>3, <1>5, <1>8, <2>1 DEF Vectors
  <2>. QED  BY <1>11, <2>2
<1>14. f[k + 1] = - (g * (scale * u[k + 1])) /\ f[row] = g * Rest(row)
  <2>1. f[row] = g * Rest(row)
    BY <1>1, <1>3, <1>8, <1>11
  <2>2. PICK b \in Int, s \in Int : b = u[k + 1] /\ s = scale
    BY <1>2, <1>4, <1>8
  <2>3. b * (- (g * s)) = - (g * (s * b))
    OBVIOUS
  <2>4. f[k + 1] = b * (- (g * s))
    BY <1>3, <1>8, <1>11, <2>2
  <2>. QED  BY <2>1, <2>2, <2>3, <2>4
<1>. HIDE DEF row, u, y, f, h
<1>23. PICK L, K : L = (row + 1)..k /\ K = 0..k
  OBVIOUS
<1>. DEFINE gh == [c \in L |-> g * h[c]]
<1>15. \A c \in L : /\ gh[c] \in Int /\ f[c] = gh[c] /\ gh[c] = g * h[c]
                    /\ h[c] \in Int
  <2>1. \A c \in L : h[c] \in Int /\ f[c] = g * h[c]
    BY <1>10, <1>12, <1>23
  <2>2. \A c \in L : g * h[c] \in Int
    BY <2>1
  <2>. QED  BY <2>1, <2>2
<1>. HIDE DEF gh
<1>16. SumFunctionOnSet(f, K \ {row}) = SumFunctionOnSet(gh, L)
  <2>1. \A x \in (K \ {row}) \ L : f[x] = 0
    BY <1>13, <1>23
  <2>2. IsFiniteSet(K \ {row}) /\ L \in SUBSET (K \ {row})
    BY <1>9, <1>23
  <2>. QED  BY ONLY <2>1, <2>2, <1>15, SumZeros
<1>17. SumFunctionOnSet(gh, L) = g * SumFunctionOnSet(h, L)
  <2>1. IsFiniteSet(L)
    BY <1>9, <1>23, FS_Subset
  <2>2. g \in Int
    OBVIOUS
  <2>. QED  BY ONLY <1>15, <2>1, <2>2, SumTimes
<1>18. SumFunctionOnSet(f, K) = f[row] + SumFunctionOnSet(f, K \ {row})
  <2>1. IsFiniteSet(K) /\ row \in K /\ \A x \in K : f[x] \in Int
    BY <1>1, <1>8, <1>11, <1>23
  <2>. QED  BY ONLY <2>1, SumOut
<1>19. SumFunctionOnSet(f, Columns) = f[k + 1] + SumFunctionOnSet(f, K)
  <2>1. PICK e : e = k + 1
    OBVIOUS
  <2>2. e \in Columns /\ Columns \ {e} = K /\ IsFiniteSet(Columns) /\ \A x \in Columns : f[x] \in Int
    BY <1>8, <1>11, <1>23, <2>1
  <2>3. SumFunctionOnSet(f, Columns) = f[e] + SumFunctionOnSet(f, Columns \ {e})
    BY ONLY <2>2, SumOut
  <2>. QED  BY <2>1, <2>2, <2>3
<1>20. PICK b \in Int, s \in Int, t \in Int : b = u[k + 1] /\ s = scale /\ t = Later(row)
  BY <1>2, <1>4, <1>6, <1>8
<1>21. - (g * (s * b)) + (g * (s * b - t) + g * t) = 0
  <2>1. PICK c \in Int : c = s * b
    OBVIOUS
  <2>2. g * (c - t) = g * c - g * t
    OBVIOUS
  <2>. QED  BY <2>1, <2>2
<1>22. SumFunctionOnSet(f, Columns) = - (g * (s * b)) + (g * (s * b - t) + g * t)
  <2>1. SumFunctionOnSet(f, Columns) = f[k + 1] + (f[row] + g * t)
    BY <1>7, <1>16, <1>17, <1>18, <1>19, <1>20, <1>23, Zenon
  <2>2. f[k + 1] = - (g * (s * b)) /\ f[row] = g * (s * b - t)
    BY <1>6, <1>14, <1>20, Zenon
  <2>. QED  BY <2>1, <2>2, <1>21, Zenon
<1>. QED  BY <1>21, <1>22 DEF Dot, f, u, y, row
----------------------------------------------------------------------------
(***************************************************************************)
(* The invariant.                                                          *)
(***************************************************************************)
LEMMA InitInv == Init => Inv
<1>. SUFFICES ASSUME Init
              PROVE  Inv
  OBVIOUS
<1>1. ArgsInv
  BY DesignsAssumption, RidgesAssumption DEF Init, ArgsInv
<1>2. TypeOK
  BY <1>1 DEF Init, TypeOK, ArgsInv
<1>. QED  BY <1>1, <1>2 DEF Inv, Init, StartedInv, SolutionsInv, TriangularInv, SolvedInv

LEMMA ArgsStay ==
    ASSUME Inv, UNCHANGED args
    PROVE  /\ ArgsInv' /\ k' = k /\ Gram' = Gram /\ Ragged' = Ragged
           /\ samples' = samples
BY DEF Inv, ArgsInv, args, Gram, Ragged, X, Entry, Penalised

LEMMA SolutionsStay ==
    ASSUME k' = k, Gram' = Gram, \A z \in Vectors : Null(m', z) <=> Null(Gram, z)
    PROVE  SolutionsInv'
<1>1. Columns' = Columns /\ Vectors' = Vectors
  BY DEF Columns, Vectors
<1>3. \A z \in Vectors : Null(m, z)' <=> Null(Gram, z)'
  <2>1. \A z : Null(m, z)' <=> Null(m', z)
    BY <1>1 DEF Null
  <2>2. \A z : Null(Gram, z)' <=> Null(Gram, z)
    BY <1>1 DEF Null
  <2>. QED  BY <2>1, <2>2
<1>. QED  BY <1>1, <1>3 DEF SolutionsInv

LEMMA StartInv == Inv /\ Start => Inv'
<1>. SUFFICES ASSUME Inv, Start
              PROVE  Inv'
  OBVIOUS
<1>1. /\ ArgsInv' /\ k' = k /\ Gram' = Gram /\ Ragged' = Ragged /\ samples' = samples
      /\ scale' = scale /\ pivots' = pivots /\ coefs' = coefs
  BY ArgsStay DEF Start
<1>2. k \in Nat /\ ArgsInv /\ TypeOK
  BY DEF Inv, ArgsInv
<1>3. CASE verdict' = "none" /\ UNCHANGED <<col, m>>
  <2>1. TypeOK'
    BY <1>1, <1>2, <1>3 DEF TypeOK, Start
  <2>2. StartedInv' /\ SolutionsInv' /\ TriangularInv' /\ SolvedInv'
    BY <1>3 DEF Start, StartedInv, SolutionsInv, TriangularInv, SolvedInv
  <2>. QED  BY <1>1, <2>1, <2>2 DEF Inv
<1>4. CASE col' = 0 /\ m' = Gram /\ verdict' = verdict /\ Len(samples) >= k + 2 /\ ~Ragged
  <2>1. Gram \in [0..k -> [Columns -> Int]]
    BY <1>2, <1>4, GramIs
  <2>2. TypeOK'
    BY <1>1, <1>2, <1>4, <2>1 DEF TypeOK, Start, Columns
  <2>3. StartedInv'
    BY <1>1, <1>4 DEF StartedInv
  <2>4. SolutionsInv'
    BY <1>1, <1>4 DEF SolutionsInv
  <2>5. TriangularInv' /\ SolvedInv'
    BY <1>1, <1>2, <1>4 DEF Start, TriangularInv, Triangular, SolvedInv
  <2>. QED  BY <1>1, <2>2, <2>3, <2>4, <2>5 DEF Inv
<1>5. Len(samples) \in Int
  BY DEF Inv, ArgsInv
<1>. QED  BY <1>2, <1>3, <1>4, <1>5 DEF Start

LEMMA SingularInv == Inv /\ Singular => Inv'
<1>. SUFFICES ASSUME Inv, Singular
              PROVE  Inv'
  OBVIOUS
<1>1. /\ ArgsInv' /\ k' = k /\ Gram' = Gram /\ Ragged' = Ragged /\ samples' = samples
      /\ verdict' = "none" /\ col' = col /\ m' = m
      /\ scale' = scale /\ pivots' = pivots /\ coefs' = coefs
  BY ArgsStay DEF Singular
<1>2. TypeOK' /\ StartedInv'
  BY <1>1 DEF Inv, TypeOK, StartedInv
<1>3. SolutionsInv'
  <2>1. \A z \in Vectors : Null(m, z) <=> Null(Gram, z)
    BY DEF Singular, Inv, SolutionsInv
  <2>. QED  BY <1>1, <2>1, SolutionsStay
<1>4. TriangularInv' /\ SolvedInv'
  BY <1>1 DEF TriangularInv, SolvedInv
<1>. QED  BY <1>1, <1>2, <1>3, <1>4 DEF Inv

LEMMA EliminateInv == Inv /\ Eliminate => Inv'
<1>. SUFFICES ASSUME Inv, Eliminate
              PROVE  Inv'
  OBVIOUS
<1>1. /\ ArgsInv' /\ k' = k /\ Gram' = Gram /\ Ragged' = Ragged /\ samples' = samples
      /\ verdict = "running" /\ verdict' = "running" /\ col \in 0..k /\ col' = col + 1
      /\ coefs' = coefs
  BY ArgsStay DEF Eliminate
<1>2. ArgsInv /\ TypeOK /\ Triangular(col) /\ k \in Nat
  BY <1>1 DEF Inv, ArgsInv, TriangularInv
<1>3. PICK p \in col..k, d \in Nat \ {0} : EliminatesBy(Swapped(p), d)
  BY <1>2, EliminateIs
<1>4. PICK a : a = Swapped(p)
  OBVIOUS
<1>5. EliminatesBy(a, d)
  BY <1>3, <1>4
<1>6. a \in [0..k -> Vectors] /\ \A z : Null(a, z) <=> Null(m, z)
  BY <1>1, <1>2, <1>4, SwappedIs
<1>7. TypeOK'
  <2>1. /\ a[col][col] # 0 /\ a[col][col] \in Int
        /\ m' \in [0..k -> Vectors]
        /\ scale' \in Nat \ {0}
        /\ pivots' = pivots \union {<<Abs(a[col][col]), scale>>}
    BY <1>5 DEF EliminatesBy
  <2>2. Abs(a[col][col]) \in Nat \ {0}
    BY <2>1, Signs
  <2>3. \A x \in pivots' : x[1] \in Nat \ {0} /\ x[2] \in Nat \ {0}
    BY <1>2, <2>1, <2>2 DEF TypeOK
  <2>4. m' \in [0..k -> [0..(k + 1) -> Int]]
    BY <2>1 DEF Vectors, Columns
  <2>5. col' \in -1..(k + 1)
    BY <1>1, <1>2
  <2>. QED  BY <1>1, <2>1, <2>3, <2>4, <2>5 DEF TypeOK
<1>8. StartedInv'
  BY <1>1 DEF Inv, StartedInv
<1>9. SolutionsInv'
  <2>1. \A z \in Vectors : Null(m', z) <=> Null(a, z)
    BY <1>1, <1>2, <1>5, <1>6, EliminatedSolutions
  <2>2. \A z \in Vectors : Null(m, z) <=> Null(Gram, z)
    BY <1>1 DEF Inv, SolutionsInv
  <2>3. \A z \in Vectors : Null(m', z) <=> Null(Gram, z)
    BY <1>6, <2>1, <2>2
  <2>. QED  BY <1>1, <2>3, SolutionsStay
<1>10. TriangularInv'
  <2>1. \A c \in 0..k : c < col + 1 => m'[c][c] # 0 /\ \A r \in (c + 1)..k : m'[r][c] = 0
    BY <1>1, <1>2, <1>4, <1>5, EliminatedTriangle
  <2>. QED  BY <1>1, <2>1 DEF TriangularInv, Triangular
<1>11. SolvedInv'
  BY <1>1 DEF SolvedInv
<1>. QED  BY <1>1, <1>7, <1>8, <1>9, <1>10, <1>11 DEF Inv

\* The equations of an unchanged matrix.
LEMMA SameMatrix ==
    ASSUME Inv, UNCHANGED <<args, m>>, col >= 0
    PROVE  SolutionsInv' /\ StartedInv'
<1>1. k' = k /\ Gram' = Gram /\ Ragged' = Ragged /\ samples' = samples /\ m' = m
  BY ArgsStay
<1>2. \A z \in Vectors : Null(m, z) <=> Null(Gram, z)
  BY DEF Inv, SolutionsInv
<1>3. SolutionsInv'
  BY <1>1, <1>2, SolutionsStay
<1>. QED  BY <1>1, <1>3 DEF Inv, StartedInv

LEMMA CheckInv == Inv /\ Check => Inv'
<1>. SUFFICES ASSUME Inv, Check
              PROVE  Inv'
  OBVIOUS
<1>1. /\ ArgsInv' /\ k' = k /\ verdict = "running" /\ col = k + 1
      /\ col' = col /\ m' = m /\ scale' = scale /\ pivots' = pivots
  BY ArgsStay DEF Check
<1>2. k \in Nat /\ TypeOK /\ Triangular(k + 1)
  BY <1>1 DEF Inv, ArgsInv, TriangularInv
<1>3. SolutionsInv' /\ StartedInv'
  BY <1>1, <1>2, SameMatrix DEF Check
<1>4. CASE verdict' = "none" /\ coefs' = coefs
  <2>1. TypeOK' /\ TriangularInv' /\ SolvedInv'
    BY <1>1, <1>2, <1>4 DEF TypeOK, TriangularInv, SolvedInv
  <2>. QED  BY <1>1, <1>3, <2>1 DEF Inv
<1>5. CASE verdict' = "regular" /\ coefs' = [r \in 0..k |-> 0]
  <2>1. TypeOK'
    BY <1>1, <1>2, <1>5 DEF TypeOK
  <2>2. TriangularInv'
    BY <1>1, <1>2, <1>5 DEF TriangularInv, Triangular
  <2>3. SolvedInv'
    BY <1>1, <1>2, <1>5 DEF SolvedInv
  <2>. QED  BY <1>1, <1>3, <2>1, <2>2, <2>3 DEF Inv
<1>. QED  BY <1>4, <1>5 DEF Check

LEMMA SubstituteInv == Inv /\ Substitute => Inv'
<1>. SUFFICES ASSUME Inv, Substitute
              PROVE  Inv'
  OBVIOUS
<1>1. /\ ArgsInv' /\ k' = k /\ verdict = "regular" /\ verdict' = "regular" /\ col > 0
      /\ col' = col - 1 /\ m' = m /\ pivots' = pivots
  BY ArgsStay DEF Substitute
<1>2. k \in Nat /\ ArgsInv /\ TypeOK /\ TriangularInv /\ SolvedInv
  BY DEF Inv, ArgsInv
<1>3. SolutionsInv' /\ StartedInv'
  BY <1>1, <1>2, SameMatrix DEF Substitute, TypeOK
<1>4. col - 1 \in 0..k /\ coefs' \in [0..k -> Int] /\ scale' \in Nat \ {0}
  BY <1>2, SubstituteIs
<1>5. TypeOK'
  BY <1>1, <1>2, <1>4 DEF TypeOK
<1>6. TriangularInv'
  BY <1>1, <1>2 DEF TriangularInv, Triangular
<1>7. \A r \in 0..k : r >= col - 1 => Dot(m[r], Vector(coefs', scale'), Columns) = 0
  <2>1. \A r \in 0..k : r >= col => Dot(m[r], Vector(coefs', scale'), Columns) = 0
    BY <1>2, EarlierRowsSolved
  <2>2. Dot(m[col - 1], Vector(coefs', scale'), Columns) = 0
    BY <1>2, NextRowSolved
  <2>3. \A r \in 0..k : r >= col - 1 => r >= col \/ r = col - 1
    BY <1>2, <1>4 DEF TypeOK
  <2>. QED  BY <2>1, <2>2, <2>3
<1>8. SolvedInv'
  BY <1>1, <1>7 DEF SolvedInv, Dot, Vector, Columns
<1>. QED  BY <1>1, <1>3, <1>5, <1>6, <1>8 DEF Inv

LEMMA FinishInv == Inv /\ Finish => Inv'
<1>. SUFFICES ASSUME Inv, Finish
              PROVE  Inv'
  OBVIOUS
<1>1. /\ ArgsInv' /\ k' = k /\ verdict = "regular" /\ verdict' = "fit" /\ col = 0
      /\ col' = col /\ m' = m /\ scale' = scale /\ pivots' = pivots /\ coefs' = coefs
  BY ArgsStay DEF Finish
<1>2. SolutionsInv' /\ StartedInv'
  BY <1>1, SameMatrix DEF Finish
<1>3. TypeOK'
  BY <1>1 DEF Inv, TypeOK
<1>4. TriangularInv'
  BY <1>1 DEF Inv, TriangularInv, Triangular
<1>5. SolvedInv'
  BY <1>1 DEF Inv, SolvedInv, Dot, Vector, Columns
<1>. QED  BY <1>1, <1>2, <1>3, <1>4, <1>5 DEF Inv

LEMMA StutterInv == Inv /\ UNCHANGED vars => Inv'
<1>. SUFFICES ASSUME Inv, UNCHANGED vars
              PROVE  Inv'
  OBVIOUS
<1>1. /\ ArgsInv' /\ k' = k /\ Gram' = Gram /\ Ragged' = Ragged /\ samples' = samples
      /\ verdict' = verdict /\ col' = col /\ m' = m /\ scale' = scale
      /\ pivots' = pivots /\ coefs' = coefs
  BY ArgsStay DEF vars
<1>2. TypeOK' /\ StartedInv'
  BY <1>1 DEF Inv, TypeOK, StartedInv
<1>3. SolutionsInv'
  <2>1. CASE col >= 0
    <3>1. \A z \in Vectors : Null(m, z) <=> Null(Gram, z)
      BY <2>1 DEF Inv, SolutionsInv
    <3>. QED  BY <1>1, <3>1, SolutionsStay
  <2>2. CASE ~(col >= 0)
    BY <1>1, <2>2 DEF SolutionsInv
  <2>. QED  BY <2>1, <2>2
<1>4. TriangularInv' /\ SolvedInv'
  BY <1>1 DEF Inv, TriangularInv, Triangular, SolvedInv, Dot, Vector, Columns
<1>. QED  BY <1>1, <1>2, <1>3, <1>4 DEF Inv

LEMMA StepInv == Inv /\ [Next]_vars => Inv'
BY StartInv, SingularInv, EliminateInv, CheckInv, SubstituteInv, FinishInv, StutterInv
DEF Next

LEMMA AlwaysInv == Spec => []Inv
<1>. QED  BY InitInv, StepInv, PTL DEF Spec

\* The matrix, the coefficients and the scale are integers, the scale and the pivots positive:
\* the divisions of the code are by something (lib.rs:114, 134), on every design.
THEOREM TypeCorrect == Spec => []TypeOK
<1>1. Inv => TypeOK
  BY DEF Inv
<1>. QED  BY <1>1, AlwaysInv, PTL
----------------------------------------------------------------------------
(***************************************************************************)
(* The normal equations.                                                   *)
(***************************************************************************)
Line(n) == [j \in Columns |-> Entry(samples[n], j)]

\* By how much x misses a sample, if z is x over y: what it predicts less y times the watts.
Miss(n, z) == Dot(Line(n), z, Columns)

\* A column of the design applied to what all samples are missed by.
Weighed(i, z) ==
    SumFunctionOnSet([n \in DOMAIN samples |-> X(samples[n], i) * Miss(n, z)], DOMAIN samples)

LEMMA MissType ==
    ASSUME ArgsInv, ~Ragged, NEW z \in Vectors, NEW n \in DOMAIN samples
    PROVE  /\ Miss(n, z) \in Int
           /\ \A j \in Columns : Line(n)[j] \in Int /\ Line(n)[j] = Entry(samples[n], j)
<1>1. \A j \in Columns : Line(n)[j] \in Int /\ Line(n)[j] = Entry(samples[n], j)
  BY SampleTypes DEF Line
<1>2. \A j \in Columns : z[j] \in Int
  BY DEF Vectors
<1>3. IsFiniteSet(Columns)
  BY Ranges DEF ArgsInv
<1>4. Dot(Line(n), z, Columns) \in Int
  BY <1>1, <1>2, <1>3, DotIsInt
<1>. QED  BY <1>1, <1>4 DEF Miss

LEMMA MomentsApplied ==
    ASSUME ArgsInv, ~Ragged, NEW z \in Vectors, NEW i \in 0..k
    PROVE  /\ SumFunctionOnSet([j \in Columns |-> Moment(i, j) * z[j]], Columns) = Weighed(i, z)
           /\ Weighed(i, z) \in Int
<1>. DEFINE N == DOMAIN samples
            a == [n \in N |-> [j \in Columns |-> X(samples[n], i) * (Line(n)[j] * z[j])]]
            b == [j \in Columns |-> [n \in N |-> X(samples[n], i) * (Line(n)[j] * z[j])]]
            u == [n \in N |-> X(samples[n], i) * Miss(n, z)]
            v == [j \in Columns |-> Moment(i, j) * z[j]]
<1>1. IsFiniteSet(N) /\ IsFiniteSet(Columns) /\ k \in Nat
  BY SampleTypes, Ranges DEF ArgsInv
<1>2. \A j \in Columns : z[j] \in Int
  BY DEF Vectors
<1>3. \A n \in N : X(samples[n], i) \in Int
  BY SampleTypes
<1>4. \A n \in N : \A j \in Columns : Line(n)[j] \in Int /\ Line(n)[j] = Entry(samples[n], j)
  BY MissType
<1>5. ASSUME NEW n \in N, NEW j \in Columns
      PROVE  /\ a[n][j] \in Int /\ a[n][j] = b[j][n]
             /\ a[n][j] = X(samples[n], i) * (Line(n)[j] * z[j])
             /\ a[n][j] = z[j] * (X(samples[n], i) * Entry(samples[n], j))
             /\ Line(n)[j] * z[j] \in Int
             /\ X(samples[n], i) * Entry(samples[n], j) \in Int
  <2>1. PICK x \in Int, y \in Int, w \in Int :
          x = X(samples[n], i) /\ y = Line(n)[j] /\ w = z[j] /\ y = Entry(samples[n], j)
    BY <1>2, <1>3, <1>4
  <2>2. x * (y * w) \in Int /\ x * (y * w) = w * (x * y) /\ y * w \in Int /\ x * y \in Int
    OBVIOUS
  <2>3. a[n][j] = x * (y * w) /\ b[j][n] = x * (y * w)
    BY <2>1
  <2>. HIDE DEF a, b
  <2>. QED  BY <2>1, <2>2, <2>3
<1>6. ASSUME NEW n \in N
      PROVE  u[n] = SumFunctionOnSet(a[n], Columns)
  <2>. DEFINE f == [j \in Columns |-> Line(n)[j] * z[j]]
  <2>1. PICK x \in Int : x = X(samples[n], i)
    BY <1>3
  <2>2. PICK e : e = a[n]
    OBVIOUS
  <2>3. \A j \in Columns : f[j] \in Int /\ e[j] = x * f[j]
    BY <1>5, <2>1, <2>2
  <2>4. u[n] = x * SumFunctionOnSet(f, Columns)
    BY <2>1 DEF Miss, Dot
  <2>. HIDE DEF f, u, a
  <2>5. SumFunctionOnSet(e, Columns) = x * SumFunctionOnSet(f, Columns)
    BY ONLY <1>1, <2>3, SumTimes, x \in Int
  <2>. QED  BY <2>2, <2>4, <2>5
<1>7. ASSUME NEW j \in Columns
      PROVE  v[j] = SumFunctionOnSet(b[j], N)
  <2>. DEFINE f == [n \in N |-> X(samples[n], i) * Entry(samples[n], j)]
  <2>1. PICK w \in Int : w = z[j]
    BY <1>2
  <2>2. PICK e : e = b[j]
    OBVIOUS
  <2>3. \A n \in N : f[n] \in Int /\ e[n] = w * f[n]
    BY <1>5, <2>1, <2>2
  <2>4. v[j] = SumFunctionOnSet(f, N) * w
    BY <2>1 DEF Moment
  <2>. HIDE DEF f, v, b, N
  <2>5. SumFunctionOnSet(e, N) = w * SumFunctionOnSet(f, N)
    BY ONLY <1>1, <2>3, SumTimes, w \in Int
  <2>6. SumFunctionOnSet(f, N) \in Int
    BY <1>1, <2>3, SumOut
  <2>. QED  BY <2>2, <2>4, <2>5, <2>6
<1>8. \A n \in N : u[n] \in Int
  <2>1. \A n \in N : X(samples[n], i) \in Int /\ Miss(n, z) \in Int
    BY <1>3, MissType
  <2>. QED  BY <2>1, Products
<1>9. Weighed(i, z) = SumFunctionOnSet(u, N)
  BY DEF Weighed
<1>. HIDE DEF a, b, u, v, N
<1>10. Transposed(a, b, N, Columns) /\ RowSums(u, a, N, Columns) /\ RowSums(v, b, Columns, N)
  BY <1>5, <1>6, <1>7 DEF Transposed, RowSums
<1>11. SumFunctionOnSet(u, N) = SumFunctionOnSet(v, Columns)
  BY <1>1, <1>10, SumSwap
<1>12. SumFunctionOnSet(u, N) \in Int
  BY <1>1, <1>8, SumOut
<1>. QED  BY <1>9, <1>11, <1>12 DEF v

\* A row of the normal equations.
LEMMA NormalEquation ==
    ASSUME ArgsInv, ~Ragged, NEW z \in Vectors, NEW i \in 0..k
    PROVE  Dot(Gram[i], z, Columns) = Weighed(i, z) + Penalised(i) * z[i]
<1>. DEFINE e == [j \in Columns |-> Gram[i][j] * z[j]]
            f == [j \in Columns |-> Moment(i, j) * z[j]]
            g == [j \in Columns |-> (IF i = j THEN Penalised(i) ELSE 0) * z[j]]
<1>1. IsFiniteSet(Columns) /\ k \in Nat /\ i \in Columns
  BY Ranges DEF ArgsInv
<1>2. \A j \in Columns : z[j] \in Int
  BY DEF Vectors
<1>3. Penalised(i) \in Int
  BY PenalisedType
<1>4. \A j \in Columns : /\ Moment(i, j) \in Int
                         /\ Gram[i][j] = Moment(i, j) + (IF i = j THEN Penalised(i) ELSE 0)
  BY GramIs
<1>5. ASSUME NEW j \in Columns
      PROVE  f[j] \in Int /\ g[j] \in Int /\ e[j] = f[j] + g[j]
  <2>1. PICK x \in Int, y \in Int, w \in Int :
          x = Moment(i, j) /\ y = (IF i = j THEN Penalised(i) ELSE 0) /\ w = z[j]
    BY <1>2, <1>3, <1>4
  <2>2. (x + y) * w = x * w + y * w /\ x * w \in Int /\ y * w \in Int
    <3>1. w * (x + y) = w * x + w * y /\ x + y \in Int
      BY Distributes
    <3>. QED  BY <3>1, Products
  <2>3. e[j] = (x + y) * w /\ f[j] = x * w /\ g[j] = y * w
    BY <1>4, <2>1, Zenon
  <2>. HIDE DEF e, f, g
  <2>. QED  BY <2>2, <2>3
<1>6. g[i] = Penalised(i) * z[i] /\ \A j \in Columns \ {i} : g[j] = 0
  <2>1. \A j \in Columns \ {i} : g[j] = 0 * z[j]
    OBVIOUS
  <2>2. g[i] = Penalised(i) * z[i]
    BY <1>1
  <2>. HIDE DEF g
  <2>. QED  BY <2>1, <2>2, <1>2
<1>7. SumFunctionOnSet(f, Columns) = Weighed(i, z)
  BY MomentsApplied
<1>8. Dot(Gram[i], z, Columns) = SumFunctionOnSet(e, Columns)
  BY DEF Dot
<1>. HIDE DEF e, f, g
<1>9. SumFunctionOnSet(e, Columns) = SumFunctionOnSet(f, Columns) + SumFunctionOnSet(g, Columns)
  BY <1>1, <1>5, SumPlus
<1>10. SumFunctionOnSet(g, Columns) = g[i]
  BY <1>1, <1>5, <1>6, SumAtOne
<1>. QED  BY <1>6, <1>7, <1>8, <1>9, <1>10

Given(num, n) == SumFunctionOnSet([i \in 0..k |-> num[i] * X(samples[n], i)], 0..k)

LEMMA MissIs ==
    ASSUME ArgsInv, ~Ragged, NEW num \in [0..k -> Int], NEW den \in Int, NEW n \in DOMAIN samples
    PROVE  /\ Given(num, n) \in Int /\ Vector(num, den) \in Vectors
           /\ Miss(n, Vector(num, den)) = Given(num, n) - den * samples[n].watts
<1>. DEFINE z == Vector(num, den)
            f == [j \in Columns |-> Line(n)[j] * z[j]]
            g == [i \in 0..k |-> num[i] * X(samples[n], i)]
<1>1. /\ IsFiniteSet(Columns) /\ IsFiniteSet(0..k) /\ k \in Nat /\ k + 1 \in Columns
      /\ 0..k \subseteq Columns /\ Columns \ {k + 1} = 0..k /\ k + 1 \notin 0..k
  BY Ranges DEF ArgsInv
<1>2. z \in Vectors /\ z[k + 1] = - den /\ \A j \in 0..k : z[j] = num[j]
  BY <1>1, VectorType
<1>3. \A j \in Columns : Line(n)[j] \in Int /\ Line(n)[j] = Entry(samples[n], j)
  BY <1>2, MissType
<1>4. /\ Line(n)[k + 1] = samples[n].watts
      /\ \A j \in 0..k : Line(n)[j] = X(samples[n], j)
  BY <1>1, <1>3 DEF Entry
<1>5. \A j \in Columns : f[j] \in Int /\ f[j] = Line(n)[j] * z[j]
  BY <1>2, <1>3, Products DEF Vectors
<1>6. \A j \in 0..k : g[j] = f[j] /\ g[j] \in Int
  <2>1. ASSUME NEW j \in 0..k
        PROVE  g[j] = f[j]
    <3>1. PICK x \in Int, y \in Int : x = X(samples[n], j) /\ y = num[j]
      BY <1>1, <1>3, <1>4
    <3>2. g[j] = y * x /\ f[j] = x * y
      BY <1>1, <1>2, <1>4, <3>1
    <3>. QED  BY <3>2
  <2>. QED  BY <1>1, <1>5, <2>1
<1>7. Miss(n, z) = SumFunctionOnSet(f, Columns) /\ Given(num, n) = SumFunctionOnSet(g, 0..k)
  BY DEF Miss, Dot, Given
<1>8. f[k + 1] = - (den * samples[n].watts)
  <2>1. PICK w \in Int : w = samples[n].watts
    BY SampleTypes
  <2>2. f[k + 1] = w * (- den)
    BY <1>1, <1>2, <1>4, <1>5, <2>1
  <2>. QED  BY <2>1, <2>2
<1>. HIDE DEF z, f, g
<1>9. SumFunctionOnSet(f, Columns) = f[k + 1] + SumFunctionOnSet(f, 0..k)
  <2>1. PICK e : e = k + 1
    OBVIOUS
  <2>2. e \in Columns /\ Columns \ {e} = 0..k /\ \A x \in Columns : f[x] \in Int
    BY <1>1, <1>5, <2>1
  <2>3. SumFunctionOnSet(f, Columns) = f[e] + SumFunctionOnSet(f, Columns \ {e})
    BY ONLY <1>1, <2>2, SumOut
  <2>. QED  BY <2>1, <2>2, <2>3
<1>10. SumFunctionOnSet(f, 0..k) = SumFunctionOnSet(g, 0..k)
  BY <1>1, <1>6, SumCongruent
<1>11. SumFunctionOnSet(g, 0..k) \in Int
  BY <1>1, <1>6, SumOut
<1>12. PICK w \in Int : w = den * samples[n].watts
  <2>1. samples[n].watts \in Int
    BY SampleTypes
  <2>. QED  BY <2>1, Products
<1>. QED  BY <1>2, <1>7, <1>8, <1>9, <1>10, <1>11, <1>12 DEF z
----------------------------------------------------------------------------
(***************************************************************************)
(* Dependent rates.  If all samples miss z by nothing, only the ridge is   *)
(* left of the normal equations applied to z.  The largest entry is the    *)
(* pivot, so a column eliminated at most doubles it; in the row of z's     *)
(* last element it is that element times the pivot.  The pivot is that     *)
(* small, and the intercept's at least the number of samples.              *)
(***************************************************************************)
\* Every row of the normal equations gives at most b.
Within(z, b) == \A r \in 0..k : Abs(Dot(Gram[r], z, Columns)) <= b

\* The rows left after c columns, over s.
LeftWithin(a, c, s, z, b) ==
    \A r \in 0..k : r >= c => Abs(Dot(a[r], z, Columns)) <= b * (Power(c) * s)

\* The rows eliminated, each over its pivot's scale.
PivotedWithin(a, c, ps, z, b) ==
    \A r \in 0..k : r < c =>
        \E p \in ps : /\ p[1] = Abs(a[r][r])
                      /\ Abs(Dot(a[r], z, Columns)) <= b * (Power(k) * p[2])

GrowthInv ==
    verdict = "running" /\ col >= 0 =>
        \A z \in Vectors, b \in Nat : Within(z, b) =>
            LeftWithin(m, col, scale, z, b) /\ PivotedWithin(m, col, pivots, z, b)

\* The intercept's pivot is found in the normal equations themselves.
Weight == Len(samples) * (One * One)
FirstInv ==
    verdict = "running" =>
        /\ col <= 0 => scale = 1
        /\ col = 0 => m = Gram
        /\ col > 0 => \E q \in pivots : q[2] = 1 /\ q[1] >= Weight

\* No combination of the columns vanishes on all samples, unless the ridge makes up for it.
Independent == \A d \in [0..k -> Int] : Negligible(d) => ~Vanishes(d)

IndependentInv == verdict \in {"regular", "fit"} => Independent

RidgeInv == GrowthInv /\ FirstInv /\ IndependentInv

LEMMA Magnitudes ==
    ASSUME NEW a \in Int, NEW b \in Int
    PROVE  /\ Abs(a * b) = Abs(a) * Abs(b) /\ Abs(a + b) <= Abs(a) + Abs(b) /\ Abs(- a) = Abs(a)
           /\ Abs(Sign(a) * b) = Abs(b) /\ Abs(a) \in Nat
<1>1. Abs(a * b) = Abs(a) * Abs(b)
  <2>1. a * b \in Int /\ (- a) * b = - (a * b) /\ a * (- b) = - (a * b) /\ (- a) * (- b) = a * b
    OBVIOUS
  <2>2. a >= 0 /\ b >= 0 => a * b >= 0
    OBVIOUS
  <2>3. a < 0 /\ b < 0 => a * b >= 0
    OBVIOUS
  <2>4. a >= 0 /\ b < 0 => a * b <= 0
    OBVIOUS
  <2>5. a < 0 /\ b >= 0 => a * b <= 0
    OBVIOUS
  <2>. QED  BY <2>1, <2>2, <2>3, <2>4, <2>5 DEF Abs
<1>. QED  BY <1>1 DEF Abs, Sign

LEMMA Grows ==
    ASSUME NEW a \in Nat, NEW b \in Nat, NEW c \in Nat, NEW d \in Nat, a <= b, c <= d
    PROVE  a * c <= b * d /\ a * c \in Nat /\ b * d \in Nat
<1>1. PICK x \in Nat, y \in Nat : b = a + x /\ d = c + y
  <2>1. b - a \in Nat /\ d - c \in Nat /\ b = a + (b - a) /\ d = c + (d - c)
    OBVIOUS
  <2>. QED  BY <2>1
<1>2. (a + x) * (c + y) = a * c + (a * y + x * c + x * y)
  OBVIOUS
<1>3. a * c \in Nat /\ a * y \in Nat /\ x * c \in Nat /\ x * y \in Nat
  OBVIOUS
<1>. QED  BY <1>1, <1>2, <1>3

LEMMA Cancels ==
    ASSUME NEW c \in Nat \ {0}, NEW a \in Int, NEW b \in Int, c * a <= c * b
    PROVE  a <= b
<1>. SUFFICES ASSUME b + 1 <= a PROVE FALSE
  OBVIOUS
<1>1. c * (a - b) >= c
  <2>1. PICK d \in Nat : a - b = d + 1
    <3>1. a - b - 1 \in Nat /\ a - b = (a - b - 1) + 1
      OBVIOUS
    <3>. QED  BY <3>1
  <2>2. c * (d + 1) = c * d + c /\ c * d >= 0 /\ c * d \in Int
    OBVIOUS
  <2>. QED  BY <2>1, <2>2
<1>2. c * (a - b) = c * a - c * b /\ c * a \in Int /\ c * b \in Int
  OBVIOUS
<1>. QED  BY <1>1, <1>2

LEMMA SumConstant ==
    ASSUME NEW S, IsFiniteSet(S), NEW b \in Int, NEW f, \A x \in S : f[x] = b
    PROVE  SumFunctionOnSet(f, S) = b * Cardinality(S)
<1>1. b * Cardinality(S) <= SumFunctionOnSet(f, S)
  BY SumAtLeast
<1>2. SumFunctionOnSet(f, S) <= b * Cardinality(S)
  BY SumAtMost
<1>3. SumFunctionOnSet(f, S) \in Int
  BY SumOut
<1>4. b * Cardinality(S) \in Int
  <2>1. Cardinality(S) \in Int
    BY FS_CardinalityType
  <2>. QED  BY <2>1, Products
<1>. QED  BY <1>1, <1>2, <1>3, <1>4

\* An elimination step at most doubles what is left.
LEMMA Doubles ==
    ASSUME NEW d \in Nat \ {0}, NEW w \in Int, NEW u \in Int, NEW v \in Int, NEW x \in Int,
           NEW p \in Int, NEW b \in Nat, NEW n \in Nat, NEW s \in Nat, NEW t \in Nat,
           d * w = Abs(p) * u + (- (Sign(p) * x)) * v, d * t = s * Abs(p),
           Abs(u) <= b * (n * s), Abs(v) <= b * (n * s), Abs(x) <= Abs(p)
    PROVE  Abs(w) <= b * ((2 * n) * t)
<1>1. PICK q \in Nat : q = Abs(p)
  BY Magnitudes
<1>2. PICK y \in Int : y = - (Sign(p) * x) /\ Abs(y) = Abs(x)
  <2>1. Sign(p) * x \in Int /\ Abs(Sign(p) * x) = Abs(x)
    <3>1. (Sign(p) = 1 \/ Sign(p) = -1) /\ - x \in Int
      BY DEF Sign
    <3>2. CASE Sign(p) = 1
      BY <3>2
    <3>3. CASE Sign(p) = -1
      <4>1. Sign(p) * x = - x
        BY <3>3
      <4>2. Abs(- x) = Abs(x)
        BY Magnitudes
      <4>. QED  BY <3>1, <4>1, <4>2
    <3>. QED  BY <3>1, <3>2, <3>3
  <2>2. PICK i \in Int : i = Sign(p) * x
    BY <2>1
  <2>3. - i \in Int /\ Abs(- i) = Abs(i)
    BY Magnitudes
  <2>. QED  BY <2>1, <2>2, <2>3
<1>3. PICK h \in Nat : h = b * (n * s)
  <2>1. b * (n * s) \in Nat
    OBVIOUS
  <2>. QED  BY <2>1
<1>4. Abs(q) = q /\ Abs(d) = d /\ q * u \in Int /\ y * v \in Int /\ d * w \in Int
  BY Products DEF Abs
<1>5. Abs(q * u) <= q * h /\ Abs(y * v) <= q * h /\ q * h \in Nat
  <2>1. PICK i \in Nat, j \in Nat, l \in Nat : i = Abs(u) /\ j = Abs(v) /\ l = Abs(y)
    BY Magnitudes
  <2>2. i <= h /\ j <= h /\ l <= q
    BY <1>1, <1>2, <1>3, <2>1
  <2>3. q * i <= q * h /\ l * j <= q * h /\ q * h \in Nat
    BY <2>2, Grows
  <2>4. Abs(q * u) = q * i /\ Abs(y * v) = l * j
    <3>1. \A c, e \in Int : Abs(c * e) = Abs(c) * Abs(e)
      BY Magnitudes
    <3>2. q \in Int
      OBVIOUS
    <3>3. Abs(q * u) = Abs(q) * Abs(u) /\ Abs(y * v) = Abs(y) * Abs(v)
      BY <3>1, <3>2, Zenon
    <3>. QED  BY <1>4, <2>1, <3>3
  <2>. QED  BY <2>3, <2>4
<1>6. d * Abs(w) <= q * h + q * h
  <2>1. d * w = q * u + y * v
    BY <1>1, <1>2
  <2>2. Abs(d * w) = d * Abs(w)
    BY <1>4, Magnitudes
  <2>3. PICK i \in Int, j \in Int : i = q * u /\ j = y * v
    BY <1>4
  <2>4. Abs(i + j) <= Abs(i) + Abs(j) /\ Abs(i) \in Nat /\ Abs(j) \in Nat
    BY Magnitudes
  <2>5. d * Abs(w) = Abs(i + j)
    BY <2>1, <2>2, <2>3
  <2>6. i + j \in Int /\ Abs(i + j) \in Nat
    BY DEF Abs
  <2>. QED  BY <1>5, <2>3, <2>4, <2>5, <2>6
<1>7. d * (b * ((2 * n) * t)) = q * h + q * h
  <2>1. d * (b * ((2 * n) * t)) = (2 * (b * n)) * (d * t)
    OBVIOUS
  <2>2. (2 * (b * n)) * (s * q) = q * (b * (n * s)) + q * (b * (n * s))
    OBVIOUS
  <2>. QED  BY <1>1, <1>3, <2>1, <2>2
<1>8. Abs(w) \in Int /\ b * ((2 * n) * t) \in Int
  BY Magnitudes
<1>. QED  BY <1>6, <1>7, <1>8, Cancels

\* The rows left after a column is eliminated.
LEMMA GrowthStep ==
    ASSUME ArgsInv, TypeOK, col \in 0..k, NEW p \in col..k, NEW a, a = Swapped(p),
           NEW d \in Nat \ {0}, EliminatesBy(a, d), NEW z \in Vectors, NEW b \in Nat,
           LeftWithin(m, col, scale, z, b)
    PROVE  /\ LeftWithin(m', col + 1, scale', z, b)
           /\ Abs(Dot(m'[col], z, Columns)) <= b * (Power(col) * scale)
<1>1. /\ k \in Nat /\ col \in Nat /\ col <= k /\ col \in Columns /\ IsFiniteSet(Columns)
      /\ scale \in Nat /\ scale' \in Nat
  BY Ranges DEF ArgsInv, TypeOK, EliminatesBy, Columns
<1>2. /\ a \in [0..k -> Vectors] /\ \A r \in 0..k : \A j \in Columns : a[r][j] \in Int
      /\ \A r \in 0..k : r >= col => \E o \in col..k : a[r] = m[o]
  BY SwappedIs
<1>3. ASSUME NEW r \in 0..k, r >= col
      PROVE  /\ Abs(Dot(a[r], z, Columns)) <= b * (Power(col) * scale)
             /\ Abs(a[r][col]) <= Abs(a[col][col])
  <2>1. PICK o \in col..k : a[r] = m[o]
    BY <1>2, <1>3
  <2>2. o \in 0..k /\ o >= col
    BY <1>1
  <2>3. Abs(Dot(m[o], z, Columns)) <= b * (Power(col) * scale)
    BY <2>2 DEF LeftWithin
  <2>4. Abs(m[o][col]) <= Abs(a[col][col])
    BY DEF EliminatesBy
  <2>. QED  BY <2>1, <2>3, <2>4
<1>4. \A j \in Columns : z[j] \in Int
  BY DEF Vectors
<1>5. PICK c \in Int, n \in Nat : c = a[col][col] /\ n = Power(col) /\ Power(col + 1) = 2 * n
  BY <1>1, <1>2, PowersDouble
<1>6. ASSUME NEW r \in 0..k, r >= col + 1
      PROVE  Abs(Dot(m'[r], z, Columns)) <= b * (Power(col + 1) * scale')
  <2>1. r >= col /\ r \in (col + 1)..k /\ col \in 0..k
    BY <1>1, <1>6
  <2>2. PICK x \in Int : x = a[r][col]
    BY <1>1, <1>2
  <2>3. \A j \in Columns : m'[r][j] \in Int /\ a[r][j] \in Int /\ a[col][j] \in Int
    BY <1>1, <1>2, <2>1 DEF EliminatesBy, Combined
  <2>4. \A j \in Columns : d * m'[r][j] = Abs(c) * a[r][j] + (- (Sign(c) * x)) * a[col][j]
    BY <1>5, <2>1, <2>2 DEF EliminatesBy, Combined
  <2>5. Abs(c) \in Int /\ - (Sign(c) * x) \in Int
    <3>1. Abs(c) \in Nat /\ Sign(c) \in Int
      BY Signs
    <3>2. Sign(c) * x \in Int
      BY <3>1, Products
    <3>. QED  BY <3>1, <3>2
  <2>6. d * Dot(m'[r], z, Columns)
          = Abs(c) * Dot(a[r], z, Columns) + (- (Sign(c) * x)) * Dot(a[col], z, Columns)
    <3>1. PICK e \in Int, g \in Int : e = Abs(c) /\ g = - (Sign(c) * x)
      BY <2>5
    <3>2. PICK w, u, v : w = m'[r] /\ u = a[r] /\ v = a[col]
      OBVIOUS
    <3>3. \A j \in Columns : /\ u[j] \in Int /\ v[j] \in Int /\ w[j] \in Int /\ z[j] \in Int
                             /\ d * w[j] = e * u[j] + g * v[j]
      BY <1>4, <2>3, <2>4, <3>1, <3>2
    <3>4. d * Dot(w, z, Columns) = e * Dot(u, z, Columns) + g * Dot(v, z, Columns)
      <4>1. IsFiniteSet(Columns) /\ d \in Int
        BY <1>1
      <4>. QED  BY ONLY <3>3, <4>1, e \in Int, g \in Int, DotCombines
    <3>. QED  BY <3>1, <3>2, <3>4
  <2>7. PICK w \in Int, u \in Int, v \in Int :
          w = Dot(m'[r], z, Columns) /\ u = Dot(a[r], z, Columns) /\ v = Dot(a[col], z, Columns)
    BY <1>1, <1>4, <2>3, DotIsInt
  <2>8. Abs(u) <= b * (n * scale) /\ Abs(v) <= b * (n * scale) /\ Abs(x) <= Abs(c)
    BY <1>1, <1>3, <1>5, <2>1, <2>2, <2>7
  <2>9. d * scale' = scale * Abs(c)
    BY <1>5 DEF EliminatesBy
  <2>10. PICK s \in Nat, t \in Nat : s = scale /\ t = scale'
    BY <1>1
  <2>11. d * w = Abs(c) * u + (- (Sign(c) * x)) * v
    BY <2>6, <2>7
  <2>12. Abs(w) <= b * ((2 * n) * t)
    BY <2>8, <2>9, <2>10, <2>11, Doubles
  <2>. QED  BY <1>5, <2>7, <2>10, <2>12
<1>7. m'[col] = a[col]
  BY <1>1 DEF EliminatesBy
<1>8. LeftWithin(m', col + 1, scale', z, b)
  BY <1>6 DEF LeftWithin
<1>. QED  BY <1>1, <1>3, <1>7, <1>8

\* The row of the last column that is in d.
LEMMA LastRow ==
    ASSUME ArgsInv, TypeOK, col >= 0, Triangular(k + 1),
           NEW d \in [0..k -> Int], NEW o \in 0..k, d[o] # 0
    PROVE  \E i \in 0..k : d[i] # 0 /\ Dot(m[i], Vector(d, 0), Columns) = m[i][i] * d[i]
<1>. DEFINE z == Vector(d, 0)
            S == {k - i : i \in {i \in 0..k : d[i] # 0}}
<1>1. k \in Nat
  BY DEF ArgsInv
<1>2. S \in SUBSET Nat /\ S # {}
  BY <1>1
<1>3. PICK x \in S : \A y \in S : x <= y
  <2>. HIDE DEF S
  <2>. QED  BY <1>2, MinExists
<1>4. PICK i \in 0..k : x = k - i /\ d[i] # 0
  BY <1>3
<1>5. ASSUME NEW j \in 0..k, j > i
      PROVE  d[j] = 0
  <2>1. d[j] # 0 => k - j \in S
    OBVIOUS
  <2>2. k - j < k - i
    BY <1>1, <1>5
  <2>. HIDE DEF S
  <2>. QED  BY <1>1, <1>3, <1>4, <2>1, <2>2
<1>6. z \in Vectors /\ z[k + 1] = 0 /\ \A j \in 0..k : z[j] = d[j]
  <2>1. PICK y \in Int : y = 0
    OBVIOUS
  <2>2. /\ Vector(d, y) \in Vectors /\ Vector(d, y)[k + 1] = - y
        /\ \A j \in 0..k : Vector(d, y)[j] = d[j]
    BY <1>1, VectorType
  <2>. QED  BY <2>1, <2>2
<1>7. \A j \in 0..k : j < i => m[i][j] = 0
  <2>1. \A j \in 0..k : j < i => i \in (j + 1)..k
    BY <1>1
  <2>. QED  BY <1>1, <2>1 DEF Triangular
<1>8. \A j \in Columns : m[i][j] \in Int
  BY MatrixType
<1>. DEFINE f == [j \in Columns |-> m[i][j] * z[j]]
<1>9. \A j \in Columns : z[j] \in Int
  BY <1>6 DEF Vectors
<1>10. ASSUME NEW j \in Columns \ {i}
       PROVE  f[j] = 0
  <2>1. j = k + 1 \/ (j \in 0..k /\ j < i) \/ (j \in 0..k /\ j > i)
    BY <1>1 DEF Columns
  <2>2. m[i][j] = 0 \/ z[j] = 0
    BY <1>5, <1>6, <1>7, <2>1
  <2>. QED  BY <1>8, <1>9, <2>2
<1>11. i \in Columns /\ IsFiniteSet(Columns)
  BY <1>1, Ranges
<1>12. f[i] = m[i][i] * d[i] /\ f[i] \in Int
  <2>1. m[i][i] \in Int /\ z[i] \in Int /\ f[i] = m[i][i] * z[i]
    BY <1>8, <1>9, <1>11
  <2>. HIDE DEF f, z
  <2>. QED  BY <1>6, <2>1, Products
<1>13. Dot(m[i], z, Columns) = SumFunctionOnSet(f, Columns)
  BY DEF Dot
<1>. HIDE DEF f, z
<1>14. SumFunctionOnSet(f, Columns) = f[i]
  BY <1>10, <1>11, <1>12, SumAtOne
<1>15. Dot(m[i], z, Columns) = m[i][i] * d[i]
  BY <1>12, <1>13, <1>14
<1>. QED  BY <1>4, <1>15 DEF z

\* What the ridge leaves is within a bound that is negligible.
LEMMA RidgeBound ==
    ASSUME ArgsInv, Len(samples) >= 1, NEW d \in [0..k -> Int], Negligible(d)
    PROVE  \E b \in Nat : /\ b * (Power(k) * Conditioning) < Weight
                          /\ \A i \in 0..k : Abs(Penalised(i) * d[i]) <= b
<1>. DEFINE f == [i \in 0..k |-> Abs(Penalised(i) * d[i])]
            S == {f[i] : i \in 0..k}
<1>1. /\ k \in Nat /\ Power(k) \in Nat /\ Len(samples) \in Nat \ {0} /\ One \in Nat \ {0}
      /\ Conditioning \in Nat /\ ridge \in Nat /\ 0 \in 0..k /\ IsFiniteSet(0..k)
  BY Ranges, PowersDouble, OneAssumption, ConditioningAssumption DEF ArgsInv
<1>2. ASSUME NEW i \in 0..k
      PROVE  f[i] \in Nat /\ f[i] = Penalised(i) * Abs(d[i]) /\ Abs(d[i]) \in Nat
  <2>1. PICK x \in Nat, y \in Int : x = Penalised(i) /\ y = d[i]
    BY PenalisedType
  <2>2. Abs(x * y) = Abs(x) * Abs(y) /\ Abs(x) = x /\ Abs(y) \in Nat
    BY Magnitudes DEF Abs
  <2>3. x * Abs(y) \in Nat
    BY <2>2
  <2>. QED  BY <2>1, <2>2, <2>3
<1>3. Weight \in Nat \ {0}
  <2>1. PICK x \in Nat \ {0}, y \in Nat \ {0} : x = Len(samples) /\ y = One
    BY <1>1
  <2>2. x * (y * y) \in Nat \ {0}
    <3>1. y * y \in Nat \ {0}
      OBVIOUS
    <3>. QED  BY <3>1
  <2>. QED  BY <2>1, <2>2 DEF Weight
<1>4. ASSUME NEW i \in 0..k
      PROVE  f[i] * (Power(k) * Conditioning) < Weight
  <2>1. CASE i = 0
    <3>1. f[i] = 0
      BY <1>2, <2>1 DEF Penalised
    <3>2. PICK x \in Nat : x = Power(k) * Conditioning
      BY <1>1
    <3>. HIDE DEF f
    <3>. QED  BY <1>3, <3>1, <3>2
  <2>2. CASE i # 0
    <3>1. i \in 1..k
      BY <1>1, <2>2
    <3>2. ridge * Abs(d[i]) * 2^k * Conditioning < Len(samples) * One * One
      BY <3>1 DEF Negligible
    <3>3. ridge * Abs(d[i]) * Power(k) * Conditioning < Len(samples) * One * One
      BY <3>2, Zenon DEF Power
    <3>4. f[i] = ridge * Abs(d[i])
      BY <1>2, <2>2 DEF Penalised
    <3>5. PICK r \in Nat, e \in Nat, n \in Nat, c \in Nat, l \in Nat, o \in Nat :
            r = ridge /\ e = Abs(d[i]) /\ n = Power(k) /\ c = Conditioning /\ l = Len(samples) /\ o = One
      BY <1>1, <1>2
    <3>6. r * e * n * c = (r * e) * (n * c) /\ l * o * o = l * (o * o)
      OBVIOUS
    <3>7. (r * e) * (n * c) < l * (o * o)
      BY <3>3, <3>5, <3>6, Zenon
    <3>8. f[i] * (Power(k) * Conditioning) = (r * e) * (n * c) /\ Weight = l * (o * o)
      BY <3>4, <3>5, Zenon DEF Weight
    <3>. QED  BY <3>7, <3>8, Zenon
  <2>. QED  BY <2>1, <2>2
<1>. HIDE DEF f
<1>5. PICK s \in Nat : \A i \in 0..k : f[i] <= s
  BY <1>1, <1>2, SumNat
<1>6. S \in SUBSET Nat /\ S # {} /\ \A x \in S : x <= s
  BY <1>1, <1>2, <1>5
<1>7. PICK b \in S : \A x \in S : x <= b
  <2>. HIDE DEF S
  <2>. QED  BY <1>6, MaxExists
<1>8. PICK i \in 0..k : b = f[i]
  BY <1>7
<1>9. \A o \in 0..k : f[o] <= b
  BY <1>7
<1>10. \A o \in 0..k : f[o] = Abs(Penalised(o) * d[o])
  BY DEF f
<1>. QED  BY <1>2, <1>4, <1>8, <1>9, <1>10

\* A combination that vanishes leaves only the ridge of the normal equations.
LEMMA OnlyRidge ==
    ASSUME ArgsInv, ~Ragged, NEW d \in [0..k -> Int], \A n \in DOMAIN samples : Given(d, n) = 0
    PROVE  /\ Vector(d, 0) \in Vectors
           /\ \A i \in 0..k : Dot(Gram[i], Vector(d, 0), Columns) = Penalised(i) * d[i]
<1>. DEFINE z == Vector(d, 0)
<1>1. z \in Vectors /\ \A i \in 0..k : z[i] = d[i]
  <2>1. PICK y \in Int : y = 0
    OBVIOUS
  <2>2. Vector(d, y) \in Vectors /\ \A j \in 0..k : Vector(d, y)[j] = d[j]
    BY VectorType DEF ArgsInv
  <2>. QED  BY <2>1, <2>2
<1>2. ASSUME NEW n \in DOMAIN samples
      PROVE  Miss(n, z) = 0
  <2>1. Miss(n, z) = Given(d, n) - 0 * samples[n].watts
    BY MissIs
  <2>2. samples[n].watts \in Nat
    BY SampleTypes
  <2>. QED  BY <2>1, <2>2
<1>3. ASSUME NEW i \in 0..k
      PROVE  Dot(Gram[i], z, Columns) = Penalised(i) * d[i]
  <2>. DEFINE f == [n \in DOMAIN samples |-> X(samples[n], i) * Miss(n, z)]
  <2>1. \A n \in DOMAIN samples : X(samples[n], i) \in Int
    BY SampleTypes
  <2>2. \A n \in DOMAIN samples : f[n] = 0
    BY <1>2, <2>1
  <2>3. IsFiniteSet(DOMAIN samples)
    BY SampleTypes
  <2>4. Weighed(i, z) = SumFunctionOnSet(f, DOMAIN samples)
    BY DEF Weighed
  <2>. HIDE DEF f
  <2>5. SumFunctionOnSet(f, DOMAIN samples) = 0
    BY <2>2, <2>3, SumConstant, FS_CardinalityType
  <2>6. PICK x \in Int, y \in Int : x = Penalised(i) /\ y = d[i]
    BY PenalisedType
  <2>7. Dot(Gram[i], z, Columns) = Weighed(i, z) + Penalised(i) * z[i]
    BY <1>1, NormalEquation
  <2>8. Dot(Gram[i], z, Columns) = 0 + x * y /\ x * y \in Int
    BY <1>1, <2>4, <2>5, <2>6, <2>7
  <2>. QED  BY <2>6, <2>8
<1>. QED  BY <1>1, <1>3

\* Such pivots are too far apart.
LEMMA PivotsApart ==
    ASSUME NEW p \in Nat, NEW s \in Nat \ {0}, NEW q \in Nat, NEW w \in Nat, NEW b \in Nat,
           NEW n \in Nat, NEW c \in Nat, NEW e \in Nat \ {0},
           p * e <= b * (n * s), b * (n * c) < w, w <= q
    PROVE  p * 1 * c < q * s
<1>1. p <= p * e
  <2>1. p <= p /\ 1 <= e /\ 1 \in Nat
    OBVIOUS
  <2>2. p * 1 <= p * e
    BY <2>1, Grows
  <2>. QED  BY <2>2
<1>2. p <= b * (n * s)
  BY <1>1
<1>3. p * c <= (b * (n * s)) * c
  <2>1. PICK x \in Nat : x = b * (n * s)
    OBVIOUS
  <2>2. p <= x
    BY <1>2, <2>1
  <2>3. p * c <= x * c
    BY <2>2, Grows
  <2>. QED  BY <2>1, <2>3
<1>4. (b * (n * s)) * c = (b * (n * c)) * s
  OBVIOUS
<1>5. PICK h \in Nat : h = b * (n * c)
  OBVIOUS
<1>6. h + 1 <= q
  BY <1>5
<1>7. (h + 1) * s <= q * s
  BY <1>6, Grows
<1>8. (h + 1) * s = h * s + s /\ h * s \in Nat
  OBVIOUS
<1>9. p * c <= h * s /\ p * 1 * c = p * c /\ q * s \in Nat /\ p * c \in Nat
  BY <1>3, <1>4, <1>5
<1>. QED  BY <1>7, <1>8, <1>9

\* Pivots that are near enough leave no combination that vanishes.
LEMMA ChecksIndependence ==
    ASSUME Inv, GrowthInv, FirstInv, verdict = "running", col = k + 1, ~NearSingular
    PROVE  Independent
<1>. SUFFICES ASSUME NEW d \in [0..k -> Int], Negligible(d), Vanishes(d)
              PROVE  FALSE
  BY DEF Independent
<1>1. /\ ArgsInv /\ TypeOK /\ k \in Nat /\ col >= 0 /\ ~Ragged /\ Len(samples) >= 1
      /\ Triangular(k + 1)
  BY DEF Inv, ArgsInv, StartedInv, TriangularInv
<1>2. \A n \in DOMAIN samples : Given(d, n) = 0
  BY DEF Vanishes, Given, SumFunction
<1>3. PICK o \in 0..k : d[o] # 0
  BY DEF Vanishes
<1>4. PICK z : z = Vector(d, 0)
  OBVIOUS
<1>5. z \in Vectors /\ \A i \in 0..k : Dot(Gram[i], z, Columns) = Penalised(i) * d[i]
  BY <1>1, <1>2, <1>4, OnlyRidge
<1>6. PICK b \in Nat : /\ b * (Power(k) * Conditioning) < Weight
                       /\ \A i \in 0..k : Abs(Penalised(i) * d[i]) <= b
  BY <1>1, RidgeBound
<1>7. Within(z, b)
  BY <1>5, <1>6 DEF Within
<1>8. PivotedWithin(m, col, pivots, z, b)
  BY <1>1, <1>5, <1>7 DEF GrowthInv
<1>9. PICK i \in 0..k : d[i] # 0 /\ Dot(m[i], z, Columns) = m[i][i] * d[i]
  BY <1>1, <1>3, <1>4, LastRow
<1>10. PICK p \in pivots : /\ p[1] = Abs(m[i][i])
                           /\ Abs(Dot(m[i], z, Columns)) <= b * (Power(k) * p[2])
  BY <1>1, <1>8 DEF PivotedWithin
<1>11. PICK q \in pivots : q[2] = 1 /\ q[1] >= Weight
  BY <1>1 DEF FirstInv
<1>12. /\ p[1] \in Nat /\ p[2] \in Nat \ {0} /\ q[1] \in Nat /\ Power(k) \in Nat
       /\ Conditioning \in Nat
  BY <1>1, PowersDouble, ConditioningAssumption DEF TypeOK
<1>13. PICK x \in Int, y \in Int : x = m[i][i] /\ y = d[i] /\ y # 0
  <2>1. i \in Columns
    BY <1>1, Ranges
  <2>. QED  BY <1>1, <1>9, <2>1, MatrixType
<1>14. Abs(x * y) = p[1] * Abs(y) /\ Abs(y) \in Nat \ {0}
  <2>1. Abs(x * y) = Abs(x) * Abs(y)
    BY Magnitudes
  <2>2. Abs(y) \in Nat \ {0}
    BY <1>13 DEF Abs
  <2>. QED  BY <1>10, <1>13, <2>1, <2>2
<1>15. p[1] * Abs(y) <= b * (Power(k) * p[2])
  BY <1>9, <1>10, <1>13, <1>14
<1>16. Weight \in Nat
  <2>1. PICK l \in Nat, u \in Nat : l = Len(samples) /\ u = One
    BY <1>1, OneAssumption DEF ArgsInv
  <2>2. l * (u * u) \in Nat
    OBVIOUS
  <2>. QED  BY <2>1, <2>2 DEF Weight
<1>17. PICK h \in Nat, s \in Nat \ {0}, g \in Nat, n \in Nat, c \in Nat, e \in Nat \ {0}, w \in Nat :
         /\ h = p[1] /\ s = p[2] /\ g = q[1] /\ n = Power(k) /\ c = Conditioning
         /\ e = Abs(y) /\ w = Weight
  BY <1>12, <1>14, <1>16
<1>18. h * e <= b * (n * s) /\ b * (n * c) < w /\ w <= g
  BY <1>6, <1>11, <1>15, <1>17
<1>19. h * 1 * c < g * s
  BY <1>18, PivotsApart
<1>20. p[1] * q[2] * Conditioning < q[1] * p[2]
  BY <1>11, <1>17, <1>19
<1>. QED  BY <1>20 DEF NearSingular

LEMMA RidgeInit == Init => RidgeInv
BY DEF Init, RidgeInv, GrowthInv, FirstInv, IndependentInv

\* What the invariant reads of the arguments.
LEMMA ReadsStay ==
    ASSUME Inv, UNCHANGED args
    PROVE  /\ k' = k /\ Gram' = Gram /\ Columns' = Columns /\ Vectors' = Vectors
           /\ Weight' = Weight /\ Independent' = Independent
           /\ \A z, b : Within(z, b)' <=> Within(z, b)
           /\ \A a, c, s, z, b : LeftWithin(a, c, s, z, b)' <=> LeftWithin(a, c, s, z, b)
           /\ \A a, c, s, z, b : PivotedWithin(a, c, s, z, b)' <=> PivotedWithin(a, c, s, z, b)
<1>1. k' = k /\ Gram' = Gram /\ samples' = samples /\ ridge' = ridge
  BY ArgsStay DEF args
<1>2. Columns' = Columns /\ Vectors' = Vectors /\ Weight' = Weight
  BY <1>1 DEF Columns, Vectors, Weight
<1>3. Independent' = Independent
  BY <1>1 DEF Independent, Negligible, Vanishes, X
<1>. QED  BY <1>1, <1>2, <1>3 DEF Within, LeftWithin, PivotedWithin

\* The intercept's entry in the normal equations.
LEMMA FirstEntry ==
    ASSUME ArgsInv, ~Ragged
    PROVE  Gram[0][0] = Weight /\ Weight \in Nat
<1>. DEFINE f == [n \in DOMAIN samples |-> X(samples[n], 0) * Entry(samples[n], 0)]
<1>1. PICK o \in Nat, l \in Nat : o = One /\ l = Len(samples)
  BY OneAssumption DEF ArgsInv
<1>2. k \in Nat /\ 0 \in 0..k /\ 0 \in Columns /\ 0 # k + 1 /\ IsFiniteSet(DOMAIN samples)
  BY Ranges, SampleTypes DEF ArgsInv, Columns
<1>3. \A n \in DOMAIN samples : f[n] = o * o
  BY <1>1, <1>2 DEF X, Entry
<1>4. Cardinality(DOMAIN samples) = l
  <2>1. DOMAIN samples = 1..l
    BY <1>1 DEF ArgsInv
  <2>2. Cardinality(1..l) = IF 1 > l THEN 0 ELSE l - 1 + 1
    BY FS_Interval
  <2>. QED  BY <2>1, <2>2
<1>5. Moment(0, 0) = SumFunctionOnSet(f, DOMAIN samples)
  BY DEF Moment
<1>. HIDE DEF f
<1>6. SumFunctionOnSet(f, DOMAIN samples) = (o * o) * l
  <2>1. o * o \in Int
    OBVIOUS
  <2>. QED  BY <1>2, <1>3, <1>4, <2>1, SumConstant
<1>7. Gram[0][0] = Moment(0, 0) + Penalised(0)
  BY <1>2, GramIs
<1>8. Gram[0][0] = (o * o) * l + 0
  BY <1>5, <1>6, <1>7 DEF Penalised
<1>9. (o * o) * l + 0 = l * (o * o) /\ l * (o * o) \in Nat
  OBVIOUS
<1>. QED  BY <1>1, <1>8, <1>9 DEF Weight

LEMMA RidgeStart == Inv /\ RidgeInv /\ Start => RidgeInv'
<1>. SUFFICES ASSUME Inv, RidgeInv, Start
              PROVE  RidgeInv'
  OBVIOUS
<1>1. /\ k' = k /\ Gram' = Gram /\ Vectors' = Vectors /\ k \in Nat
      /\ \A z, b : Within(z, b)' <=> Within(z, b)
      /\ \A a, c, s, z, b : LeftWithin(a, c, s, z, b)' <=> LeftWithin(a, c, s, z, b)
      /\ \A a, c, s, z, b : PivotedWithin(a, c, s, z, b)' <=> PivotedWithin(a, c, s, z, b)
      /\ scale' = scale /\ pivots' = pivots /\ scale = 1
      /\ verdict' \in {"none", "running"} /\ col = -1
  BY ReadsStay DEF Start, Inv, ArgsInv, RidgeInv, FirstInv
<1>2. CASE verdict' = "none"
  BY <1>2 DEF RidgeInv, GrowthInv, FirstInv, IndependentInv
<1>3. CASE verdict' # "none"
  <2>1. col' = 0 /\ m' = Gram /\ verdict' = "running"
    BY <1>3 DEF Start
  <2>2. ASSUME NEW z \in Vectors, NEW b \in Nat, Within(z, b)
        PROVE  LeftWithin(m', col', scale', z, b) /\ PivotedWithin(m', col', pivots', z, b)
    <3>1. Power(0) = 1
      BY PowersDouble
    <3>2. b * (Power(0) * 1) = b
      BY <3>1
    <3>3. LeftWithin(Gram, 0, 1, z, b)
      BY <2>2, <3>2 DEF LeftWithin, Within
    <3>4. PivotedWithin(Gram, 0, pivots, z, b)
      BY <1>1 DEF PivotedWithin
    <3>. QED  BY <1>1, <2>1, <3>3, <3>4
  <2>3. GrowthInv'
    BY <1>1, <2>1, <2>2 DEF GrowthInv
  <2>4. FirstInv' /\ IndependentInv'
    BY <1>1, <2>1 DEF FirstInv, IndependentInv
  <2>. QED  BY <2>3, <2>4 DEF RidgeInv
<1>. QED  BY <1>2, <1>3

LEMMA RidgeEliminate == Inv /\ RidgeInv /\ Eliminate => RidgeInv'
<1>. SUFFICES ASSUME Inv, RidgeInv, Eliminate
              PROVE  RidgeInv'
  OBVIOUS
<1>1. /\ k' = k /\ Gram' = Gram /\ Vectors' = Vectors /\ Weight' = Weight
      /\ \A z, b : Within(z, b)' <=> Within(z, b)
      /\ \A a, c, s, z, b : LeftWithin(a, c, s, z, b)' <=> LeftWithin(a, c, s, z, b)
      /\ \A a, c, s, z, b : PivotedWithin(a, c, s, z, b)' <=> PivotedWithin(a, c, s, z, b)
      /\ verdict = "running" /\ verdict' = "running" /\ col' = col + 1
  BY ReadsStay DEF Eliminate
<1>2. /\ ArgsInv /\ TypeOK /\ ~Ragged /\ k \in Nat /\ col \in 0..k /\ col \in Nat /\ col <= k
      /\ scale \in Nat \ {0}
  <2>1. col \in 0..k
    BY DEF Eliminate
  <2>2. ArgsInv /\ TypeOK /\ StartedInv /\ k \in Nat
    BY DEF Inv, ArgsInv
  <2>3. scale \in Nat \ {0}
    BY <2>2 DEF TypeOK
  <2>4. col \in Nat /\ col <= k /\ col >= 0
    BY <2>1, <2>2
  <2>. QED  BY <2>1, <2>2, <2>3, <2>4 DEF StartedInv
<1>3. PICK p \in col..k, d \in Nat \ {0} : EliminatesBy(Swapped(p), d)
  BY <1>2, EliminateIs
<1>4. PICK a : a = Swapped(p)
  OBVIOUS
<1>5. EliminatesBy(a, d)
  BY <1>3, <1>4
<1>6. /\ pivots' = pivots \union {<<Abs(a[col][col]), scale>>}
      /\ \A r \in 0..k : r <= col => m'[r] = a[r]
  BY <1>5 DEF EliminatesBy
<1>7. \A r \in 0..k : r < col => m'[r] = m[r]
  <2>1. \A r \in 0..k : r < col => a[r] = m[r]
    BY <1>2, <1>4, SwappedIs
  <2>2. \A r \in 0..k : r < col => r <= col
    BY <1>2
  <2>. QED  BY <1>6, <2>1, <2>2
<1>8. GrowthInv'
  <2>1. ASSUME NEW z \in Vectors, NEW b \in Nat, Within(z, b)
        PROVE  LeftWithin(m', col + 1, scale', z, b) /\ PivotedWithin(m', col + 1, pivots', z, b)
    <3>1. LeftWithin(m, col, scale, z, b) /\ PivotedWithin(m, col, pivots, z, b)
      BY <1>1, <1>2, <2>1 DEF RidgeInv, GrowthInv
    <3>2. /\ LeftWithin(m', col + 1, scale', z, b)
          /\ Abs(Dot(m'[col], z, Columns)) <= b * (Power(col) * scale)
      BY <1>2, <1>4, <1>5, <3>1, GrowthStep
    <3>3. ASSUME NEW r \in 0..k, r < col
          PROVE  \E q \in pivots' : /\ q[1] = Abs(m'[r][r])
                                    /\ Abs(Dot(m'[r], z, Columns)) <= b * (Power(k) * q[2])
      <4>1. PICK q \in pivots : /\ q[1] = Abs(m[r][r])
                                /\ Abs(Dot(m[r], z, Columns)) <= b * (Power(k) * q[2])
        BY <3>1, <3>3 DEF PivotedWithin
      <4>2. q \in pivots' /\ m'[r] = m[r]
        BY <1>6, <1>7, <3>3
      <4>. QED  BY <4>1, <4>2
    <3>4. \E q \in pivots' : /\ q[1] = Abs(m'[col][col])
                             /\ Abs(Dot(m'[col], z, Columns)) <= b * (Power(k) * q[2])
      <4>1. PICK q \in pivots' : q[1] = Abs(a[col][col]) /\ q[2] = scale
        <5>1. PICK x, y : x = Abs(a[col][col]) /\ y = scale
          OBVIOUS
        <5>2. <<x, y>> \in pivots' /\ <<x, y>>[1] = x /\ <<x, y>>[2] = y
          BY <1>6, <5>1
        <5>. QED  BY <5>1, <5>2
      <4>2. m'[col] = a[col]
        BY <1>2, <1>6
      <4>3. b * (Power(col) * scale) <= b * (Power(k) * scale)
        <5>1. Power(col) <= Power(k) /\ Power(col) \in Nat /\ Power(k) \in Nat
          BY <1>2, PowersGrow, PowersDouble
        <5>2. PICK x \in Nat, y \in Nat, s \in Nat : x = Power(col) /\ y = Power(k) /\ s = scale
          BY <1>2, <5>1
        <5>3. x * s <= y * s /\ x * s \in Nat /\ y * s \in Nat
          BY <5>1, <5>2, Grows
        <5>4. b * (x * s) <= b * (y * s)
          <6>1. PICK e \in Nat, f \in Nat : e = x * s /\ f = y * s
            BY <5>3
          <6>2. b <= b /\ e <= f
            BY <5>3, <6>1
          <6>3. b * e <= b * f
            BY <6>2, Grows
          <6>. QED  BY <6>1, <6>3
        <5>. QED  BY <5>2, <5>4
      <4>4. PICK u \in Int, v \in Int, w \in Int : /\ u = Abs(Dot(m'[col], z, Columns))
                                                  /\ v = b * (Power(col) * scale)
                                                  /\ w = b * (Power(k) * scale)
        <5>1. Power(col) \in Nat /\ Power(k) \in Nat
          BY <1>2, PowersDouble
        <5>2. b * (Power(col) * scale) \in Int /\ b * (Power(k) * scale) \in Int
          BY <1>2, <5>1, Products
        <5>3. \A j \in Columns : m'[col][j] \in Int /\ z[j] \in Int
          BY <1>2, <1>5 DEF EliminatesBy, Vectors
        <5>4. Abs(Dot(m'[col], z, Columns)) \in Int
          <6>1. PICK x : x = m'[col]
            OBVIOUS
          <6>2. IsFiniteSet(Columns)
            BY <1>2, Ranges
          <6>3. PICK y \in Int : y = Dot(x, z, Columns)
            BY <5>3, <6>1, <6>2, DotIsInt
          <6>4. Abs(y) \in Int
            BY DEF Abs
          <6>. QED  BY <6>1, <6>3, <6>4
        <5>. QED  BY <5>2, <5>4
      <4>5. u <= w
        BY <3>2, <4>3, <4>4
      <4>. QED  BY <4>1, <4>2, <4>4, <4>5
    <3>5. \A r \in 0..k : r < col + 1 => r < col \/ r = col
      BY <1>2
    <3>6. PivotedWithin(m', col + 1, pivots', z, b)
      BY <3>3, <3>4, <3>5 DEF PivotedWithin
    <3>. QED  BY <3>2, <3>6
  <2>. QED  BY <1>1, <2>1 DEF GrowthInv
<1>9. FirstInv'
  <2>1. \E q \in pivots' : q[2] = 1 /\ q[1] >= Weight
    <3>1. CASE col = 0
      <4>1. m = Gram /\ scale = 1
        BY <1>1, <3>1 DEF RidgeInv, FirstInv
      <4>2. Abs(m[0][0]) <= Abs(a[0][0]) /\ a[0][0] \in Int
        <5>1. 0 \in col..k
          BY <1>2, <3>1
        <5>. QED  BY <1>5, <3>1, <5>1 DEF EliminatesBy
      <4>3. m[0][0] = Weight /\ Weight \in Nat
        BY <1>2, <4>1, FirstEntry
      <4>4. Abs(a[0][0]) >= Weight
        BY <4>2, <4>3 DEF Abs
      <4>5. PICK q \in pivots' : q[1] = Abs(a[0][0]) /\ q[2] = 1
        <5>1. PICK x, y : x = Abs(a[0][0]) /\ y = 1
          OBVIOUS
        <5>2. <<x, y>> \in pivots' /\ <<x, y>>[1] = x /\ <<x, y>>[2] = y
          BY <1>6, <3>1, <4>1, <5>1
        <5>. QED  BY <5>1, <5>2
      <4>. QED  BY <4>4, <4>5
    <3>2. CASE col # 0
      <4>1. PICK q \in pivots : q[2] = 1 /\ q[1] >= Weight
        BY <1>1, <1>2, <3>2 DEF RidgeInv, FirstInv
      <4>. QED  BY <1>6, <4>1
    <3>. QED  BY <3>1, <3>2
  <2>2. col' > 0
    BY <1>1, <1>2
  <2>. QED  BY <1>1, <1>2, <2>1, <2>2 DEF FirstInv
<1>10. IndependentInv'
  BY <1>1 DEF IndependentInv
<1>. QED  BY <1>8, <1>9, <1>10 DEF RidgeInv

LEMMA RidgeStep == Inv /\ RidgeInv /\ [Next]_vars => RidgeInv'
<1>. SUFFICES ASSUME Inv, RidgeInv, [Next]_vars
              PROVE  RidgeInv'
  OBVIOUS
<1>1. CASE Start
  BY <1>1, RidgeStart
<1>2. CASE Eliminate
  BY <1>2, RidgeEliminate
<1>3. CASE Singular
  BY <1>3 DEF Singular, RidgeInv, GrowthInv, FirstInv, IndependentInv
<1>4. CASE Check
  <2>1. Independent' = Independent
    BY <1>4, ReadsStay DEF Check
  <2>2. verdict' = "none" \/ (verdict' = "regular" /\ ~NearSingular)
    BY <1>4 DEF Check
  <2>3. verdict' = "regular" => Independent
    BY <1>4, <2>2, ChecksIndependence DEF Check, RidgeInv
  <2>. QED  BY <2>1, <2>2, <2>3 DEF RidgeInv, GrowthInv, FirstInv, IndependentInv
<1>5. CASE Substitute \/ Finish
  <2>1. Independent' = Independent
    BY <1>5, ReadsStay DEF Substitute, Finish
  <2>. QED  BY <1>5, <2>1 DEF Substitute, Finish, RidgeInv, GrowthInv, FirstInv, IndependentInv
<1>6. CASE UNCHANGED vars
  <2>1. /\ k' = k /\ Gram' = Gram /\ Vectors' = Vectors /\ Weight' = Weight
        /\ Independent' = Independent
        /\ \A z, b : Within(z, b)' <=> Within(z, b)
        /\ \A a, c, s, z, b : LeftWithin(a, c, s, z, b)' <=> LeftWithin(a, c, s, z, b)
        /\ \A a, c, s, z, b : PivotedWithin(a, c, s, z, b)' <=> PivotedWithin(a, c, s, z, b)
        /\ verdict' = verdict /\ col' = col /\ m' = m /\ scale' = scale /\ pivots' = pivots
    BY <1>6, ReadsStay DEF vars
  <2>2. GrowthInv'
    BY <2>1 DEF RidgeInv, GrowthInv
  <2>3. FirstInv' /\ IndependentInv'
    BY <2>1 DEF RidgeInv, FirstInv, IndependentInv
  <2>. QED  BY <2>2, <2>3 DEF RidgeInv
<1>. QED  BY <1>1, <1>2, <1>3, <1>4, <1>5, <1>6 DEF Next

LEMMA AlwaysRidgeInv == Spec => []RidgeInv
<1>. QED  BY RidgeInit, RidgeStep, AlwaysInv, PTL DEF Spec

\* A model is only made of rates that are independent of each other and of the intercept, over
\* all combinations for which the ridge is negligible: without a ridge these are all, with the
\* fitter's they are those that the test of the pivots refuses (lib.rs:93-127).
THEOREM FitsAreOfIndependentRates == Spec => [](Fitted => Independent)
<1>1. RidgeInv => (Fitted => Independent)
  BY DEF RidgeInv, IndependentInv, Fitted
<1>. QED  BY <1>1, AlwaysRidgeInv, PTL

\* In particular rates that move together get no model (tests/solver.rs:31-45).
THEOREM CollinearIsRefused == Spec => []CollinearRefused
<1>1. RidgeInv => CollinearRefused
  <2>. SUFFICES ASSUME RidgeInv, Fitted, NEW d \in [0..k -> -2..2], Negligible(d)
                PROVE  ~Vanishes(d)
    BY DEF CollinearRefused
  <2>1. Independent
    BY DEF RidgeInv, IndependentInv, Fitted
  <2>2. d \in [0..k -> Int]
    OBVIOUS
  <2>. QED  BY <2>1, <2>2 DEF Independent
<1>. QED  BY <1>1, AlwaysRidgeInv, PTL
----------------------------------------------------------------------------
(***************************************************************************)
(* The cost.                                                               *)
(***************************************************************************)
LEMMA Square ==
    ASSUME NEW w \in Nat, NEW x \in Int, NEW h \in Int
    PROVE  /\ w * ((x + h) * (x + h)) = w * (x * x) + (2 * (w * (x * h)) + w * (h * h))
           /\ w * (h * h) \in Nat /\ w * (x * x) \in Nat /\ w * (x * h) \in Int
<1>1. (x + h) * (x + h) = x * x + (2 * (x * h) + h * h)
  OBVIOUS
<1>2. h * h \in Nat /\ x * x \in Nat /\ x * h \in Int
  <2>1. \A y \in Int : y * y \in Nat
    OBVIOUS
  <2>. QED  BY <2>1
<1>3. PICK a \in Nat, b \in Int, c \in Nat : a = x * x /\ b = x * h /\ c = h * h
  BY <1>2
<1>4. w * (a + (2 * b + c)) = w * a + (2 * (w * b) + w * c)
  OBVIOUS
<1>5. w * a \in Nat /\ w * b \in Int /\ w * c \in Nat
  OBVIOUS
<1>. QED  BY <1>1, <1>3, <1>4, <1>5, Zenon

\* e are the squares of x + h weighed by w, f those of x, and c the cross terms.
Squares(S, w, x, h, e, f, c) ==
    \A j \in S : /\ w[j] \in Nat /\ x[j] \in Int /\ h[j] \in Int
                 /\ e[j] = w[j] * ((x[j] + h[j]) * (x[j] + h[j]))
                 /\ f[j] = w[j] * (x[j] * x[j])
                 /\ c[j] = w[j] * (x[j] * h[j])

\* A sum of weighted squares grows at least by twice the cross terms.
LEMMA SquaresGrow ==
    ASSUME NEW S, IsFiniteSet(S), NEW w, NEW x, NEW h, NEW e, NEW f, NEW c,
           Squares(S, w, x, h, e, f, c)
    PROVE  /\ SumFunctionOnSet(e, S) \in Int /\ SumFunctionOnSet(f, S) \in Nat
           /\ SumFunctionOnSet(c, S) \in Int
           /\ SumFunctionOnSet(e, S) >= SumFunctionOnSet(f, S) + 2 * SumFunctionOnSet(c, S)
<1>. DEFINE q == [j \in S |-> w[j] * (h[j] * h[j])]
            t == [j \in S |-> 2 * c[j]]
            r == [j \in S |-> 2 * c[j] + q[j]]
<1>1. ASSUME NEW j \in S
      PROVE  /\ q[j] \in Nat /\ f[j] \in Nat /\ c[j] \in Int
             /\ e[j] = f[j] + (2 * c[j] + q[j])
  <2>1. /\ e[j] = w[j] * ((x[j] + h[j]) * (x[j] + h[j]))
        /\ f[j] = w[j] * (x[j] * x[j])
        /\ c[j] = w[j] * (x[j] * h[j])
        /\ \E ww \in Nat, xx \in Int, hh \in Int : ww = w[j] /\ xx = x[j] /\ hh = h[j]
    BY DEF Squares
  <2>4. PICK ww \in Nat, xx \in Int, hh \in Int : ww = w[j] /\ xx = x[j] /\ hh = h[j]
    BY <2>1
  <2>2. /\ ww * ((xx + hh) * (xx + hh)) = ww * (xx * xx) + (2 * (ww * (xx * hh)) + ww * (hh * hh))
        /\ ww * (hh * hh) \in Nat /\ ww * (xx * xx) \in Nat /\ ww * (xx * hh) \in Int
    BY Square
  <2>3. /\ q[j] = ww * (hh * hh) /\ f[j] = ww * (xx * xx) /\ c[j] = ww * (xx * hh)
        /\ e[j] = ww * ((xx + hh) * (xx + hh))
    BY <2>1, <2>4, Zenon
  <2>. HIDE DEF q
  <2>. QED  BY <2>2, <2>3
<1>. HIDE DEF q
<1>2. \A j \in S : /\ q[j] \in Nat /\ q[j] \in Int /\ c[j] \in Int /\ t[j] = 2 * c[j] /\ t[j] \in Int
                   /\ f[j] \in Nat /\ f[j] \in Int
                   /\ r[j] = t[j] + q[j] /\ r[j] \in Int /\ e[j] = f[j] + r[j] /\ e[j] \in Int
  BY <1>1
<1>. HIDE DEF t, r
<1>3. SumFunctionOnSet(e, S) = SumFunctionOnSet(f, S) + SumFunctionOnSet(r, S)
  BY <1>2, SumPlus
<1>4. SumFunctionOnSet(r, S) = SumFunctionOnSet(t, S) + SumFunctionOnSet(q, S)
  BY <1>2, SumPlus
<1>5. SumFunctionOnSet(t, S) = 2 * SumFunctionOnSet(c, S)
  BY <1>2, SumTimes
<1>6. SumFunctionOnSet(q, S) \in Nat /\ SumFunctionOnSet(f, S) \in Nat
  BY <1>2, SumNat
<1>7. SumFunctionOnSet(c, S) \in Int /\ SumFunctionOnSet(e, S) \in Int
  BY <1>2, SumOut
<1>. QED  BY <1>3, <1>4, <1>5, <1>6, <1>7

Misses(z) == [n \in DOMAIN samples |-> Miss(n, z) * Miss(n, z)]
Penalties(num) == [i \in 0..k |-> Penalised(i) * (num[i] * num[i])]

\* The cost is the sum of the squares of the misses and of the penalties.
LEMMA CostIs ==
    ASSUME ArgsInv, ~Ragged, NEW num \in [0..k -> Int], NEW den \in Int
    PROVE  Cost(num, den) = SumFunctionOnSet(Misses(Vector(num, den)), DOMAIN samples)
                              + SumFunctionOnSet(Penalties(num), 0..k)
<1>. DEFINE z == Vector(num, den)
            e == [n \in DOMAIN samples |->
                    (den * samples[n].watts - Given(num, n))
                      * (den * samples[n].watts - Given(num, n))]
            r == [i \in 1..k |-> num[i] * num[i]]
            rr == [i \in 1..k |-> ridge * (num[i] * num[i])]
<1>1. Cost(num, den) = SumFunctionOnSet(e, DOMAIN samples) + ridge * SumFunctionOnSet(r, 1..k)
  BY DEF Cost, Given, SumFunction
<1>2. e = Misses(z)
  <2>1. ASSUME NEW n \in DOMAIN samples
        PROVE  e[n] = Miss(n, z) * Miss(n, z)
    <3>1. Given(num, n) \in Int /\ Miss(n, z) = Given(num, n) - den * samples[n].watts
      BY MissIs
    <3>2. samples[n].watts \in Int
      BY SampleTypes
    <3>3. PICK g \in Int, b \in Int : g = Given(num, n) /\ b = den * samples[n].watts
      BY <3>1, <3>2, Products
    <3>4. (b - g) * (b - g) = (g - b) * (g - b)
      OBVIOUS
    <3>5. e[n] = (b - g) * (b - g)
      BY <3>3
    <3>6. Miss(n, z) = g - b
      BY <3>1, <3>3
    <3>. QED  BY <3>4, <3>5, <3>6, Zenon
  <2>. QED  BY <2>1 DEF Misses
<1>3. /\ IsFiniteSet(0..k) /\ IsFiniteSet(1..k) /\ k \in Nat /\ ridge \in Int
      /\ 1..k \in SUBSET (0..k) /\ (0..k) \ (1..k) = {0} /\ 0 \in 0..k
  <2>1. k \in Nat /\ ridge \in Int
    BY DEF ArgsInv
  <2>2. 1..k \in SUBSET (0..k) /\ (0..k) \ (1..k) = {0} /\ 0 \in 0..k
    BY ONLY <2>1
  <2>. QED  BY <2>1, <2>2, Ranges
<1>4. \A i \in 1..k : r[i] \in Int /\ rr[i] = ridge * r[i] /\ rr[i] \in Int
  <2>1. \A i \in 1..k : num[i] \in Int
    BY <1>3
  <2>2. \A i \in 1..k : num[i] * num[i] \in Int
    BY <2>1, Products
  <2>3. \A i \in 1..k : ridge * (num[i] * num[i]) \in Int
    BY <1>3, <2>2, Products
  <2>. QED  BY <2>2, <2>3
<1>5. \A i \in 1..k : Penalties(num)[i] = rr[i]
  BY <1>3 DEF Penalties, Penalised
<1>6. Penalties(num)[0] = 0
  <2>1. num[0] * num[0] \in Int
    BY <1>3, Products
  <2>. QED  BY <1>3, <2>1 DEF Penalties, Penalised
<1>. HIDE DEF e, r, rr
<1>7. SumFunctionOnSet(rr, 1..k) = ridge * SumFunctionOnSet(r, 1..k)
  <2>1. PICK c \in Int : c = ridge
    BY <1>3
  <2>4. PICK S : S = 1..k
    OBVIOUS
  <2>2. IsFiniteSet(S) /\ \A i \in S : r[i] \in Int /\ rr[i] = c * r[i]
    BY <1>3, <1>4, <2>1, <2>4
  <2>3. SumFunctionOnSet(rr, S) = c * SumFunctionOnSet(r, S)
    BY ONLY <2>2, SumTimes, c \in Int
  <2>. QED  BY <2>1, <2>3, <2>4
<1>8. SumFunctionOnSet(Penalties(num), 0..k) = SumFunctionOnSet(rr, 1..k)
  <2>1. PICK p : p = Penalties(num)
    OBVIOUS
  <2>2. \A i \in (0..k) \ (1..k) : p[i] = 0
    BY <1>3, <1>6, <2>1
  <2>3. \A i \in 1..k : rr[i] \in Int /\ p[i] = rr[i]
    BY <1>4, <1>5, <2>1
  <2>4. SumFunctionOnSet(p, 0..k) = SumFunctionOnSet(rr, 1..k)
    BY ONLY <1>3, <2>2, <2>3, SumZeros
  <2>. QED  BY <2>1, <2>4
<1>. QED  BY <1>1, <1>2, <1>7, <1>8

LEMMA AllZero ==
    ASSUME NEW S, IsFiniteSet(S), NEW f, \A x \in S : f[x] = 0
    PROVE  SumFunctionOnSet(f, S) = 0
<1>1. SumFunctionOnSet(f, S) = SumFunctionOnSet(f, {})
  <2>1. {} \in SUBSET S /\ \A x \in {} : f[x] \in Int /\ f[x] = f[x]
    OBVIOUS
  <2>2. \A x \in S \ {} : f[x] = 0
    OBVIOUS
  <2>. QED  BY <2>1, <2>2, SumZeros
<1>. QED  BY <1>1, SumEmpty

\* The misses of a solution, and its penalties, are orthogonal to every change of it.
LEMMA CrossTermIsZero ==
    ASSUME ArgsInv, ~Ragged, NEW x \in [0..k -> Int], NEW den \in Int,
           \A i \in 0..k : Dot(Gram[i], Vector(x, den), Columns) = 0,
           NEW h \in [0..k -> Int], NEW u, NEW p,
           \A n \in DOMAIN samples : u[n] = Miss(n, Vector(x, den)) * Given(h, n),
           \A i \in 0..k : p[i] = Penalised(i) * (x[i] * h[i])
    PROVE  SumFunctionOnSet(u, DOMAIN samples) + SumFunctionOnSet(p, 0..k) = 0
<1>1. PICK z : z = Vector(x, den)
  OBVIOUS
<1>2. PICK N : N = DOMAIN samples
  OBVIOUS
<1>3. PICK K : K = 0..k
  OBVIOUS
<1>4. IsFiniteSet(N) /\ IsFiniteSet(K)
  BY <1>2, <1>3, SampleTypes, Ranges DEF ArgsInv
<1>5. z \in Vectors /\ \A i \in K : z[i] = x[i]
  BY <1>1, <1>3, VectorType DEF ArgsInv
<1>6. \A n \in N : Miss(n, z) \in Int
  BY <1>2, <1>5, MissType
<1>. DEFINE a == [n \in N |-> [i \in K |-> Miss(n, z) * (h[i] * X(samples[n], i))]]
            b == [i \in K |-> [n \in N |-> Miss(n, z) * (h[i] * X(samples[n], i))]]
            v == [i \in K |-> h[i] * Weighed(i, z)]
            s == [i \in K |-> v[i] + p[i]]
<1>7. ASSUME NEW n \in N, NEW i \in K
      PROVE  /\ a[n][i] \in Int /\ a[n][i] = b[i][n]
             /\ a[n][i] = Miss(n, z) * (h[i] * X(samples[n], i))
             /\ a[n][i] = h[i] * (X(samples[n], i) * Miss(n, z))
             /\ h[i] * X(samples[n], i) \in Int /\ X(samples[n], i) * Miss(n, z) \in Int
  <2>1. X(samples[n], i) \in Int /\ h[i] \in Int /\ Miss(n, z) \in Int
    BY <1>2, <1>3, <1>6, SampleTypes
  <2>2. PICK q \in Int, c \in Int, w \in Int : q = X(samples[n], i) /\ c = h[i] /\ w = Miss(n, z)
    BY ONLY <2>1
  <2>3. /\ w * (c * q) \in Int /\ w * (c * q) = c * (q * w)
        /\ c * q \in Int /\ q * w \in Int
    OBVIOUS
  <2>4. a[n][i] = w * (c * q) /\ b[i][n] = w * (c * q)
    BY <2>2
  <2>. HIDE DEF a, b
  <2>. QED  BY <2>2, <2>3, <2>4
<1>8. ASSUME NEW n \in N
      PROVE  u[n] = SumFunctionOnSet(a[n], K)
  <2>. DEFINE f == [i \in K |-> h[i] * X(samples[n], i)]
  <2>1. PICK w \in Int : w = Miss(n, z)
    BY <1>6
  <2>2. PICK e : e = a[n]
    OBVIOUS
  <2>3. \A i \in K : f[i] \in Int /\ e[i] = w * f[i]
    BY <1>7, <2>1, <2>2
  <2>4. u[n] = w * SumFunctionOnSet(f, K)
    BY <1>1, <1>2, <1>3, <2>1 DEF Given
  <2>. HIDE DEF f, a
  <2>5. SumFunctionOnSet(e, K) = w * SumFunctionOnSet(f, K)
    BY ONLY <1>4, <2>3, SumTimes, w \in Int
  <2>. QED  BY <2>2, <2>4, <2>5
<1>9. ASSUME NEW i \in K
      PROVE  v[i] = SumFunctionOnSet(b[i], N)
  <2>. DEFINE f == [n \in N |-> X(samples[n], i) * Miss(n, z)]
  <2>1. PICK w \in Int : w = h[i]
    BY <1>3
  <2>2. PICK e : e = b[i]
    OBVIOUS
  <2>3. \A n \in N : f[n] \in Int /\ e[n] = w * f[n]
    BY <1>7, <2>1, <2>2
  <2>4. v[i] = w * SumFunctionOnSet(f, N)
    BY <1>2, <2>1 DEF Weighed
  <2>. HIDE DEF f, v, b
  <2>5. SumFunctionOnSet(e, N) = w * SumFunctionOnSet(f, N)
    BY ONLY <1>4, <2>3, SumTimes, w \in Int
  <2>. QED  BY <2>2, <2>4, <2>5
<1>10. ASSUME NEW i \in K
       PROVE  v[i] \in Int /\ p[i] \in Int /\ s[i] = v[i] + p[i] /\ s[i] = 0
  <2>1. Weighed(i, z) \in Int /\ Dot(Gram[i], z, Columns) = Weighed(i, z) + Penalised(i) * z[i]
    BY <1>3, <1>5, MomentsApplied, NormalEquation
  <2>2. PICK g \in Int, r \in Int, y \in Int, c \in Int :
          g = Weighed(i, z) /\ r = Penalised(i) /\ y = x[i] /\ c = h[i]
    BY <1>3, <2>1, PenalisedType
  <2>3. g + r * y = 0
    BY <1>1, <1>3, <1>5, <2>1, <2>2
  <2>4. c * g \in Int /\ r * (y * c) \in Int /\ c * g + r * (y * c) = 0
    <3>1. c * g + r * (y * c) = c * (g + r * y)
      <4>1. r * (y * c) = c * (r * y)
        OBVIOUS
      <4>2. r * y \in Int
        OBVIOUS
      <4>. QED  BY <4>1, <4>2, Distributes
    <3>. QED  BY <2>3, <3>1
  <2>5. v[i] = c * g /\ p[i] = r * (y * c) /\ s[i] = v[i] + p[i]
    BY <1>3, <2>2
  <2>. HIDE DEF v, s
  <2>. QED  BY <2>4, <2>5
<1>. HIDE DEF a, b, v, s
<1>11. Transposed(a, b, N, K) /\ RowSums(u, a, N, K) /\ RowSums(v, b, K, N)
  BY <1>7, <1>8, <1>9 DEF Transposed, RowSums
<1>12. SumFunctionOnSet(u, N) = SumFunctionOnSet(v, K)
  BY <1>4, <1>11, SumSwap
<1>13. SumFunctionOnSet(s, K) = SumFunctionOnSet(v, K) + SumFunctionOnSet(p, K)
  BY <1>4, <1>10, SumPlus
<1>14. SumFunctionOnSet(s, K) = 0
  BY <1>4, <1>10, AllZero
<1>. QED  BY <1>2, <1>3, <1>12, <1>13, <1>14

LEMMA GivenAdds ==
    ASSUME ArgsInv, ~Ragged, NEW x \in [0..k -> Int], NEW h \in [0..k -> Int], NEW y \in [0..k -> Int],
           \A i \in 0..k : y[i] = x[i] + h[i], NEW n \in DOMAIN samples
    PROVE  Given(y, n) = Given(x, n) + Given(h, n)
<1>. DEFINE f == [i \in 0..k |-> x[i] * X(samples[n], i)]
            g == [i \in 0..k |-> h[i] * X(samples[n], i)]
            e == [i \in 0..k |-> y[i] * X(samples[n], i)]
<1>1. ASSUME NEW i \in 0..k
      PROVE  f[i] \in Int /\ g[i] \in Int /\ e[i] = f[i] + g[i]
  <2>1. X(samples[n], i) \in Int
    BY SampleTypes
  <2>2. PICK q \in Int, a \in Int, b \in Int : q = X(samples[n], i) /\ a = x[i] /\ b = h[i]
    BY <2>1
  <2>3. (a + b) * q = a * q + b * q /\ a * q \in Int /\ b * q \in Int
    <3>1. q * (a + b) = q * a + q * b /\ a + b \in Int
      BY Distributes
    <3>. QED  BY <3>1, Products
  <2>4. f[i] = a * q /\ g[i] = b * q /\ e[i] = (a + b) * q
    BY <2>2, Zenon
  <2>. HIDE DEF f, g, e
  <2>. QED  BY <2>3, <2>4
<1>2. IsFiniteSet(0..k)
  BY Ranges DEF ArgsInv
<1>3. /\ Given(x, n) = SumFunctionOnSet(f, 0..k) /\ Given(h, n) = SumFunctionOnSet(g, 0..k)
      /\ Given(y, n) = SumFunctionOnSet(e, 0..k)
  BY DEF Given
<1>. HIDE DEF f, g, e
<1>4. SumFunctionOnSet(e, 0..k) = SumFunctionOnSet(f, 0..k) + SumFunctionOnSet(g, 0..k)
  <2>1. PICK K : K = 0..k
    OBVIOUS
  <2>2. IsFiniteSet(K) /\ \A i \in K : f[i] \in Int /\ g[i] \in Int /\ e[i] = f[i] + g[i]
    BY <1>1, <1>2, <2>1
  <2>3. SumFunctionOnSet(e, K) = SumFunctionOnSet(f, K) + SumFunctionOnSet(g, K)
    BY ONLY <2>2, SumPlus
  <2>. QED  BY <2>1, <2>3
<1>. QED  BY <1>3, <1>4

\* What solves the normal equations costs least.
LEMMA SolutionIsBest ==
    ASSUME ArgsInv, ~Ragged, NEW x \in [0..k -> Int], NEW den \in Int,
           \A i \in 0..k : Dot(Gram[i], Vector(x, den), Columns) = 0,
           NEW y \in [0..k -> Int]
    PROVE  Cost(x, den) <= Cost(y, den) /\ Cost(x, den) \in Nat
<1>. DEFINE h == [i \in 0..k |-> y[i] - x[i]]
            xm == [n \in DOMAIN samples |-> Miss(n, Vector(x, den))]
            hm == [n \in DOMAIN samples |-> Given(h, n)]
            one == [n \in DOMAIN samples |-> 1]
            u == [n \in DOMAIN samples |-> Miss(n, Vector(x, den)) * Given(h, n)]
            pen == [i \in 0..k |-> Penalised(i)]
            p == [i \in 0..k |-> Penalised(i) * (x[i] * h[i])]
<1>1. h \in [0..k -> Int] /\ \A i \in 0..k : h[i] \in Int /\ y[i] = x[i] + h[i]
  <2>1. \A i \in 0..k : x[i] \in Int /\ y[i] \in Int
    OBVIOUS
  <2>. QED  BY <2>1
<1>. HIDE DEF h
<1>2. IsFiniteSet(DOMAIN samples) /\ IsFiniteSet(0..k)
  BY SampleTypes, Ranges DEF ArgsInv
<1>3. ASSUME NEW n \in DOMAIN samples
      PROVE  /\ one[n] \in Nat /\ xm[n] \in Int /\ hm[n] \in Int
             /\ Misses(Vector(y, den))[n] = one[n] * ((xm[n] + hm[n]) * (xm[n] + hm[n]))
             /\ Misses(Vector(x, den))[n] = one[n] * (xm[n] * xm[n])
             /\ u[n] = one[n] * (xm[n] * hm[n])
  <2>1. /\ Given(x, n) \in Int /\ Given(h, n) \in Int
        /\ Miss(n, Vector(x, den)) = Given(x, n) - den * samples[n].watts
        /\ Miss(n, Vector(y, den)) = Given(y, n) - den * samples[n].watts
    <3>1. \A f \in [0..k -> Int] :
            /\ Given(f, n) \in Int
            /\ Miss(n, Vector(f, den)) = Given(f, n) - den * samples[n].watts
      BY MissIs
    <3>. QED  BY <1>1, <3>1
  <2>2. Given(y, n) = Given(x, n) + Given(h, n)
    <3>1. h \in [0..k -> Int] /\ \A i \in 0..k : y[i] = x[i] + h[i]
      BY <1>1
    <3>. QED  BY <3>1, GivenAdds
  <2>3. den * samples[n].watts \in Int
    <3>1. samples[n].watts \in Int
      BY SampleTypes
    <3>. QED  BY <3>1, Products
  <2>4. PICK a \in Int, b \in Int : a = Miss(n, Vector(x, den)) /\ b = Given(h, n)
    BY <2>1, <2>3
  <2>5. Miss(n, Vector(y, den)) = a + b
    BY <2>1, <2>2, <2>3, <2>4
  <2>6. /\ xm[n] = a /\ hm[n] = b /\ one[n] = 1 /\ u[n] = a * b
        /\ Misses(Vector(y, den))[n] = (a + b) * (a + b)
        /\ Misses(Vector(x, den))[n] = a * a
    BY <2>4, <2>5 DEF Misses
  <2>7. 1 * ((a + b) * (a + b)) = (a + b) * (a + b) /\ 1 * (a * a) = a * a /\ 1 * (a * b) = a * b
    <3>1. (a + b) * (a + b) \in Int /\ a * a \in Int /\ a * b \in Int
      OBVIOUS
    <3>. QED  BY <3>1
  <2>. HIDE DEF xm, hm, one, u
  <2>. QED  BY <2>6, <2>7
<1>4. ASSUME NEW i \in 0..k
      PROVE  /\ pen[i] \in Nat /\ x[i] \in Int /\ h[i] \in Int
             /\ Penalties(y)[i] = pen[i] * ((x[i] + h[i]) * (x[i] + h[i]))
             /\ Penalties(x)[i] = pen[i] * (x[i] * x[i])
             /\ p[i] = pen[i] * (x[i] * h[i])
  BY <1>1, PenalisedType DEF Penalties
<1>5. SumFunctionOnSet(u, DOMAIN samples) + SumFunctionOnSet(p, 0..k) = 0
  <2>1. \A n \in DOMAIN samples : u[n] = Miss(n, Vector(x, den)) * Given(h, n)
    OBVIOUS
  <2>2. \A i \in 0..k : p[i] = Penalised(i) * (x[i] * h[i])
    OBVIOUS
  <2>. HIDE DEF u, p
  <2>. QED  BY <1>1, <2>1, <2>2, CrossTermIsZero, ZenonT(30)
<1>. HIDE DEF xm, hm, one, u, pen, p
<1>6. PICK my, mx : my = Misses(Vector(y, den)) /\ mx = Misses(Vector(x, den))
  OBVIOUS
<1>7. PICK py, px : py = Penalties(y) /\ px = Penalties(x)
  OBVIOUS
<1>8. PICK N, K : N = DOMAIN samples /\ K = 0..k
  OBVIOUS
<1>9. /\ SumFunctionOnSet(my, N) \in Int /\ SumFunctionOnSet(mx, N) \in Nat
      /\ SumFunctionOnSet(u, N) \in Int
      /\ SumFunctionOnSet(my, N) >= SumFunctionOnSet(mx, N) + 2 * SumFunctionOnSet(u, N)
  <2>1. IsFiniteSet(N)
    BY <1>2, <1>8
  <2>2. Squares(N, one, xm, hm, my, mx, u)
    BY <1>3, <1>6, <1>8, Zenon DEF Squares
  <2>. QED  BY ONLY <2>1, <2>2, SquaresGrow
<1>10. /\ SumFunctionOnSet(py, K) \in Int /\ SumFunctionOnSet(px, K) \in Nat
       /\ SumFunctionOnSet(p, K) \in Int
       /\ SumFunctionOnSet(py, K) >= SumFunctionOnSet(px, K) + 2 * SumFunctionOnSet(p, K)
  <2>1. IsFiniteSet(K)
    BY <1>2, <1>8
  <2>2. Squares(K, pen, x, h, py, px, p)
    BY <1>4, <1>7, <1>8, Zenon DEF Squares
  <2>. QED  BY ONLY <2>1, <2>2, SquaresGrow
<1>11. /\ Cost(x, den) = SumFunctionOnSet(mx, N) + SumFunctionOnSet(px, K)
       /\ Cost(y, den) = SumFunctionOnSet(my, N) + SumFunctionOnSet(py, K)
  BY <1>6, <1>7, <1>8, CostIs
<1>. QED  BY <1>5, <1>8, <1>9, <1>10, <1>11
----------------------------------------------------------------------------
(***************************************************************************)
(* Fits.                                                                   *)
(***************************************************************************)
LEMMA FitSolves ==
    ASSUME Inv, Fitted
    PROVE  /\ ArgsInv /\ ~Ragged /\ Len(samples) >= k + 2
           /\ coefs \in [0..k -> Int] /\ scale \in Nat \ {0}
           /\ \A i \in 0..k : Dot(Gram[i], Vector(coefs, scale), Columns) = 0
<1>1. /\ ArgsInv /\ TypeOK /\ col = 0 /\ ~Ragged /\ Len(samples) >= k + 2 /\ verdict = "fit"
      /\ \A z \in Vectors : Null(m, z) <=> Null(Gram, z)
      /\ \A r \in 0..k : r >= 0 => Dot(m[r], Vector(coefs, scale), Columns) = 0
  BY DEF Inv, Fitted, StartedInv, SolutionsInv, SolvedInv
<1>2. coefs \in [0..k -> Int] /\ scale \in Nat \ {0}
  BY <1>1 DEF TypeOK
<1>3. Vector(coefs, scale) \in Vectors
  <2>1. scale \in Int
    BY <1>2
  <2>. QED  BY <1>1, <1>2, <2>1, VectorType DEF ArgsInv
<1>4. Null(m, Vector(coefs, scale))
  BY <1>1 DEF Null
<1>5. Null(Gram, Vector(coefs, scale))
  BY <1>1, <1>3, <1>4
<1>. QED  BY <1>1, <1>2, <1>5 DEF Null

\* A fit costs no more than what is near it or on a grid.
THEOREM FitsAreBest == Spec => []FitIsBest
<1>1. Inv => FitIsBest
  <2>. SUFFICES ASSUME Inv, Fitted, NEW num \in Near(coefs) \union Grid(scale)
                PROVE  Cost(coefs, scale) <= Cost(num, scale)
    BY DEF FitIsBest
  <2>1. /\ ArgsInv /\ ~Ragged /\ coefs \in [0..k -> Int] /\ scale \in Nat \ {0} /\ scale \in Int
        /\ \A i \in 0..k : Dot(Gram[i], Vector(coefs, scale), Columns) = 0
    BY FitSolves
  <2>2. num \in [0..k -> Int]
    <3>1. CASE num \in Near(coefs)
      <4>1. PICK i \in 0..k, d \in {-1, 1} : num = [coefs EXCEPT ![i] = @ + d]
        BY <3>1 DEF Near
      <4>2. coefs[i] + d \in Int
        BY <2>1
      <4>. QED  BY <2>1, <4>1, <4>2
    <3>2. CASE num \in Grid(scale)
      <4>1. PICK b \in [0..k -> -1..1] : num = [i \in 0..k |-> scale * b[i]]
        BY <3>2 DEF Grid
      <4>2. \A i \in 0..k : scale * b[i] \in Int
        <5>1. \A i \in 0..k : b[i] \in Int
          OBVIOUS
        <5>. QED  BY <2>1, <5>1, Products
      <4>. QED  BY <4>1, <4>2
    <3>. QED  BY <3>1, <3>2
  <2>. QED  BY <2>1, <2>2, SolutionIsBest
<1>. QED  BY <1>1, AlwaysInv, PTL

LEMMA Homogeneous ==
    ASSUME NEW S, IsFiniteSet(S), NEW t \in Int, NEW f, NEW e, NEW w,
           \A j \in S : f[j] \in Int /\ w[j] \in Int /\ e[j] = (t * f[j]) * w[j]
    PROVE  SumFunctionOnSet(e, S) = t * Dot(f, w, S)
<1>. DEFINE g == [j \in S |-> f[j] * w[j]]
<1>1. ASSUME NEW j \in S
      PROVE  g[j] \in Int /\ e[j] = t * g[j]
  <2>1. PICK a \in Int, b \in Int : a = f[j] /\ b = w[j]
    OBVIOUS
  <2>2. (t * a) * b = t * (a * b) /\ a * b \in Int
    OBVIOUS
  <2>. QED  BY <2>1, <2>2
<1>2. Dot(f, w, S) = SumFunctionOnSet(g, S)
  BY DEF Dot
<1>. HIDE DEF g
<1>. QED  BY <1>1, <1>2, SumTimes

\* The same coefficients over t times the denominator.
Widened(num, t) == [i \in 0..k |-> t * num[i]]

LEMMA WidenedIs ==
    ASSUME k \in Nat, NEW num \in [0..k -> Int], NEW t \in Int, NEW den \in Int
    PROVE  /\ Widened(num, t) \in [0..k -> Int]
           /\ \A i \in 0..k : Widened(num, t)[i] = t * num[i] /\ num[i] \in Int
           /\ t * den \in Int
           /\ \A j \in Columns : /\ Vector(num, den)[j] \in Int
                                 /\ Vector(Widened(num, t), t * den)[j] = t * Vector(num, den)[j]
<1>1. \A i \in 0..k : Widened(num, t)[i] = t * num[i] /\ num[i] \in Int
  BY DEF Widened
<1>2. Widened(num, t) \in [0..k -> Int]
  <2>1. \A i \in 0..k : t * num[i] \in Int
    BY <1>1, Products
  <2>. QED  BY <2>1 DEF Widened
<1>3. t * den \in Int
  BY Products
<1>4. /\ Vector(num, den) \in Vectors /\ Vector(num, den)[k + 1] = - den
      /\ \A j \in 0..k : Vector(num, den)[j] = num[j]
  BY VectorType
<1>5. /\ Vector(Widened(num, t), t * den)[k + 1] = - (t * den)
      /\ \A j \in 0..k : Vector(Widened(num, t), t * den)[j] = t * num[j]
  BY <1>1, <1>2, <1>3, VectorType
<1>6. - (t * den) = t * (- den)
  OBVIOUS
<1>7. \A j \in Columns : j \in 0..k \/ j = k + 1
  BY Ranges
<1>. QED  BY <1>1, <1>2, <1>3, <1>4, <1>5, <1>6, <1>7 DEF Vectors

LEMMA WidenedSolves ==
    ASSUME ArgsInv, ~Ragged, NEW num \in [0..k -> Int], NEW t \in Int, NEW den \in Int,
           NEW i \in 0..k, Dot(Gram[i], Vector(num, den), Columns) = 0
    PROVE  Dot(Gram[i], Vector(Widened(num, t), t * den), Columns) = 0
<1>1. PICK u, x, y : /\ u = Gram[i] /\ x = Vector(num, den)
                     /\ y = Vector(Widened(num, t), t * den)
  OBVIOUS
<1>2. k \in Nat /\ IsFiniteSet(Columns)
  BY Ranges DEF ArgsInv
<1>3. \A j \in Columns : u[j] \in Int /\ x[j] \in Int /\ y[j] = t * x[j] /\ y[j] \in Int
  <2>1. \A j \in Columns : u[j] \in Int
    BY <1>1, GramIs
  <2>2. \A j \in Columns : x[j] \in Int /\ y[j] = t * x[j]
    <3>1. \A j \in Columns : /\ Vector(num, den)[j] \in Int
                             /\ Vector(Widened(num, t), t * den)[j] = t * Vector(num, den)[j]
      BY ONLY <1>2, num \in [0..k -> Int], t \in Int, den \in Int, WidenedIs
    <3>. QED  BY <1>1, <3>1
  <2>. QED  BY <2>1, <2>2, Products
<1>. DEFINE e == [j \in Columns |-> y[j] * u[j]]
<1>4. \A j \in Columns : x[j] \in Int /\ u[j] \in Int /\ e[j] = (t * x[j]) * u[j]
  BY <1>3
<1>5. Dot(y, u, Columns) = SumFunctionOnSet(e, Columns)
  BY DEF Dot
<1>. HIDE DEF e
<1>6. SumFunctionOnSet(e, Columns) = t * Dot(x, u, Columns)
  BY <1>2, <1>4, Homogeneous
<1>7. Dot(y, u, Columns) = Dot(u, y, Columns) /\ Dot(x, u, Columns) = Dot(u, x, Columns)
  BY <1>2, <1>3, DotCommutes
<1>. QED  BY <1>1, <1>5, <1>6, <1>7

LEMMA WidenedCost ==
    ASSUME ArgsInv, ~Ragged, NEW num \in [0..k -> Int], NEW t \in Int, NEW den \in Int
    PROVE  /\ Cost(Widened(num, t), t * den) = (t * t) * Cost(num, den)
           /\ Cost(num, den) \in Int
<1>1. PICK x, y : x = Vector(num, den) /\ y = Vector(Widened(num, t), t * den)
  OBVIOUS
<1>2. PICK N, K : N = DOMAIN samples /\ K = 0..k
  OBVIOUS
<1>3. k \in Nat /\ IsFiniteSet(Columns) /\ IsFiniteSet(N) /\ IsFiniteSet(K)
  BY <1>2, Ranges, SampleTypes DEF ArgsInv
<1>4. /\ Widened(num, t) \in [0..k -> Int] /\ t * den \in Int
      /\ \A i \in 0..k : Widened(num, t)[i] = t * num[i] /\ num[i] \in Int
      /\ \A j \in Columns : x[j] \in Int /\ y[j] = t * x[j]
  BY <1>1, <1>3, WidenedIs
<1>5. x \in Vectors /\ y \in Vectors
  BY <1>1, <1>3, <1>4, VectorType
<1>6. ASSUME NEW n \in N
      PROVE  /\ Misses(x)[n] \in Int /\ Misses(y)[n] = (t * t) * Misses(x)[n]
  <2>1. PICK l : l = Line(n)
    OBVIOUS
  <2>2. \A j \in Columns : l[j] \in Int
    BY <1>2, <1>5, <2>1, MissType
  <2>. DEFINE e == [j \in Columns |-> y[j] * l[j]]
  <2>3. \A j \in Columns : x[j] \in Int /\ l[j] \in Int /\ e[j] = (t * x[j]) * l[j]
    BY <1>4, <2>2
  <2>4. Dot(y, l, Columns) = SumFunctionOnSet(e, Columns)
    BY DEF Dot
  <2>. HIDE DEF e
  <2>5. SumFunctionOnSet(e, Columns) = t * Dot(x, l, Columns)
    BY <1>3, <2>3, Homogeneous
  <2>6. \A j \in Columns : y[j] \in Int
    BY <1>5 DEF Vectors
  <2>7. Dot(y, l, Columns) = Dot(l, y, Columns) /\ Dot(x, l, Columns) = Dot(l, x, Columns)
    BY <1>3, <2>2, <2>3, <2>6, DotCommutes
  <2>8. Miss(n, y) = t * Miss(n, x)
    BY <2>1, <2>4, <2>5, <2>7 DEF Miss
  <2>9. PICK a \in Int : a = Miss(n, x)
    BY <1>2, <1>5, MissType
  <2>10. (t * a) * (t * a) = (t * t) * (a * a) /\ a * a \in Int
    OBVIOUS
  <2>11. Misses(x)[n] = a * a /\ Misses(y)[n] = (t * a) * (t * a)
    BY <1>2, <2>8, <2>9 DEF Misses
  <2>. QED  BY <2>10, <2>11
<1>7. ASSUME NEW i \in K
      PROVE  /\ Penalties(num)[i] \in Int
             /\ Penalties(Widened(num, t))[i] = (t * t) * Penalties(num)[i]
  <2>1. PICK p \in Int, a \in Int : p = Penalised(i) /\ a = num[i]
    BY <1>2, PenalisedType
  <2>2. Widened(num, t)[i] = t * a
    BY <1>2, <1>4, <2>1
  <2>3. (t * a) * (t * a) = (t * t) * (a * a) /\ a * a \in Int /\ t * t \in Int
    OBVIOUS
  <2>4. p * ((t * t) * (a * a)) = (t * t) * (p * (a * a)) /\ p * (a * a) \in Int
    <3>1. PICK b \in Int, c \in Int : b = t * t /\ c = a * a
      BY <2>3
    <3>2. p * (b * c) = b * (p * c) /\ p * c \in Int
      OBVIOUS
    <3>. QED  BY <3>1, <3>2
  <2>5. /\ Penalties(num)[i] = p * (a * a)
        /\ Penalties(Widened(num, t))[i] = p * ((t * a) * (t * a))
    BY <1>2, <2>1, <2>2 DEF Penalties
  <2>. QED  BY <2>3, <2>4, <2>5
<1>8. PICK mx, my, px, py : /\ mx = Misses(x) /\ my = Misses(y)
                            /\ px = Penalties(num) /\ py = Penalties(Widened(num, t))
  OBVIOUS
<1>9. PICK q \in Int : q = t * t
  OBVIOUS
<1>10. \A n \in N : mx[n] \in Int /\ my[n] = q * mx[n]
  BY <1>6, <1>8, <1>9
<1>11. \A i \in K : px[i] \in Int /\ py[i] = q * px[i]
  BY <1>7, <1>8, <1>9
<1>12. /\ SumFunctionOnSet(my, N) = q * SumFunctionOnSet(mx, N)
       /\ SumFunctionOnSet(py, K) = q * SumFunctionOnSet(px, K)
  BY <1>3, <1>10, <1>11, SumTimes
<1>13. SumFunctionOnSet(mx, N) \in Int /\ SumFunctionOnSet(px, K) \in Int
  BY <1>3, <1>10, <1>11, SumOut
<1>14. /\ Cost(num, den) = SumFunctionOnSet(mx, N) + SumFunctionOnSet(px, K)
       /\ Cost(Widened(num, t), t * den) = SumFunctionOnSet(my, N) + SumFunctionOnSet(py, K)
  BY <1>1, <1>2, <1>4, <1>8, CostIs
<1>15. q * (SumFunctionOnSet(mx, N) + SumFunctionOnSet(px, K))
         = q * SumFunctionOnSet(mx, N) + q * SumFunctionOnSet(px, K)
  BY <1>13, Distributes
<1>. QED  BY <1>9, <1>12, <1>13, <1>14, <1>15

\* A fit costs no more than any coefficients at all, over any denominator.
LeastCost ==
    Fitted => \A num \in [0..k -> Int], den \in Nat \ {0} :
                (den * den) * Cost(coefs, scale) <= (scale * scale) * Cost(num, den)

LEMMA FitIsLeast == Inv => LeastCost
<1>. SUFFICES ASSUME Inv, Fitted, NEW num \in [0..k -> Int], NEW den \in Nat \ {0}
              PROVE  (den * den) * Cost(coefs, scale) <= (scale * scale) * Cost(num, den)
  BY DEF LeastCost
<1>1. /\ ArgsInv /\ ~Ragged /\ coefs \in [0..k -> Int] /\ scale \in Int /\ den \in Int /\ k \in Nat
      /\ \A i \in 0..k : Dot(Gram[i], Vector(coefs, scale), Columns) = 0
  BY FitSolves DEF ArgsInv
<1>2. PICK x, y : x = Widened(coefs, den) /\ y = Widened(num, scale)
  OBVIOUS
<1>3. /\ x \in [0..k -> Int] /\ y \in [0..k -> Int]
      /\ den * scale \in Int /\ scale * den = den * scale
  BY <1>1, <1>2, WidenedIs, Products
<1>4. \A i \in 0..k : Dot(Gram[i], Vector(x, den * scale), Columns) = 0
  BY <1>1, <1>2, WidenedSolves
<1>5. Cost(x, den * scale) <= Cost(y, den * scale)
  BY <1>1, <1>3, <1>4, SolutionIsBest
<1>6. Cost(x, den * scale) = (den * den) * Cost(coefs, scale)
  BY <1>1, <1>2, WidenedCost
<1>7. Cost(y, scale * den) = (scale * scale) * Cost(num, den)
  BY <1>1, <1>2, WidenedCost
<1>. QED  BY <1>3, <1>5, <1>6, <1>7

\* What pivoting, elimination and back substitution give costs no more than any other
\* intercept and coefficients, whatever the fractions (lib.rs:41-50).
THEOREM FitsCostLeast == Spec => []LeastCost
<1>. QED  BY FitIsLeast, AlwaysInv, PTL
----------------------------------------------------------------------------
(***************************************************************************)
(* r2.                                                                     *)
(***************************************************************************)
Watts == [n \in DOMAIN samples |-> samples[n].watts]
SquaredWatts == [n \in DOMAIN samples |-> samples[n].watts * samples[n].watts]

\* The coefficients that predict the same for all samples.
Constant(t) == [i \in 0..k |-> IF i = 0 THEN t ELSE 0]

LEMMA SquaredDeviation ==
    ASSUME NEW w \in Int, NEW c \in Int, NEW t \in Int
    PROVE  (t - c * w) * (t - c * w)
             = ((c * c) * (w * w) + (- (2 * (c * t))) * w) + t * t
OBVIOUS

LEMMA SummedDeviations ==
    ASSUME NEW q \in Int, NEW c \in Int, NEW t \in Int
    PROVE  ((c * c) * q + (- (2 * (c * t))) * t) + (t * t) * c = c * (c * q - t * t)
OBVIOUS

\* Predicting t over c for all of N.
Deviates(N, w, q, d, t, c) ==
    \A n \in N : /\ w[n] \in Int /\ q[n] = w[n] * w[n]
                 /\ d[n] = (t - c * w[n]) * (t - c * w[n])

LEMMA DeviationsSum ==
    ASSUME NEW N, IsFiniteSet(N), NEW w, NEW q, NEW d, NEW t \in Int, NEW c \in Int,
           t = SumFunctionOnSet(w, N), c = Cardinality(N), Deviates(N, w, q, d, t, c)
    PROVE  /\ SumFunctionOnSet(q, N) \in Int
           /\ SumFunctionOnSet(d, N) = c * (c * SumFunctionOnSet(q, N) - t * t)
<1>. DEFINE a == c * c
            b == - (2 * (c * t))
            o == [n \in N |-> t * t]
            e == [n \in N |-> a * q[n] + b * w[n]]
<1>1. a \in Int /\ b \in Int /\ t * t \in Int
  OBVIOUS
<1>2. ASSUME NEW n \in N
      PROVE  /\ w[n] \in Int /\ q[n] \in Int /\ e[n] \in Int
             /\ 1 * e[n] = a * q[n] + b * w[n]
             /\ o[n] = t * t /\ d[n] = e[n] + o[n]
  <2>1. PICK v \in Int : v = w[n]
    BY DEF Deviates
  <2>2. q[n] = v * v /\ d[n] = (t - c * v) * (t - c * v)
    BY <2>1 DEF Deviates
  <2>3. v * v \in Int /\ a * (v * v) \in Int /\ b * v \in Int
    <3>. HIDE DEF a, b
    <3>. QED  BY <1>1, Products
  <2>4. e[n] = a * (v * v) + b * v
    BY <2>1, <2>2, Zenon
  <2>5. d[n] = (a * (v * v) + b * v) + t * t
    BY <2>2, SquaredDeviation
  <2>. HIDE DEF a, b, e
  <2>. QED  BY <2>1, <2>2, <2>3, <2>4, <2>5 DEF o
<1>3. \A n \in N : o[n] = t * t
  OBVIOUS
<1>. HIDE DEF a, b, o, e
<1>4. 1 * SumFunctionOnSet(e, N) = a * SumFunctionOnSet(q, N) + b * SumFunctionOnSet(w, N)
  BY <1>1, <1>2, CombineSums
<1>5. SumFunctionOnSet(o, N) = (t * t) * c
  BY <1>1, <1>3, SumConstant
<1>6. SumFunctionOnSet(d, N) = SumFunctionOnSet(e, N) + SumFunctionOnSet(o, N)
  <2>1. \A n \in N : e[n] \in Int /\ o[n] \in Int /\ d[n] = e[n] + o[n]
    BY <1>1, <1>2
  <2>. QED  BY <2>1, SumPlus
<1>7. SumFunctionOnSet(q, N) \in Int /\ SumFunctionOnSet(e, N) \in Int
  BY ONLY <1>2, IsFiniteSet(N), SumOut
<1>8. PICK s \in Int : s = SumFunctionOnSet(q, N)
  BY <1>7
<1>9. SumFunctionOnSet(d, N) = (a * s + b * t) + (t * t) * c
  BY <1>4, <1>5, <1>6, <1>7, <1>8
<1>10. (a * s + b * t) + (t * t) * c = c * (c * s - t * t)
  BY SummedDeviations DEF a, b
<1>. QED  BY <1>8, <1>9, <1>10

LEMMA ConstantCost ==
    ASSUME ArgsInv, ~Ragged, NEW t \in Int, NEW c \in Int,
           t = SumFunctionOnSet(Watts, DOMAIN samples), c = Len(samples)
    PROVE  /\ Constant(t) \in [0..k -> Int] /\ Variation \in Int
           /\ Cost(Constant(t), One * c) = (One * One) * (c * Variation)
<1>1. PICK N : N = DOMAIN samples
  OBVIOUS
<1>2. IsFiniteSet(N) /\ IsFiniteSet(0..k) /\ 0 \in 0..k /\ k \in Nat
  BY <1>1, SampleTypes, Ranges DEF ArgsInv
<1>3. Cardinality(N) = c
  <2>1. N = 1..Len(samples) /\ Len(samples) \in Nat
    BY <1>1 DEF ArgsInv
  <2>2. PICK l \in Nat : l = Len(samples) /\ N = 1..l
    BY <2>1
  <2>3. Cardinality(1..l) = IF 1 > l THEN 0 ELSE l - 1 + 1
    BY FS_Interval
  <2>. QED  BY <2>2, <2>3
<1>0. PICK u \in Int : u = One
  BY OneAssumption
<1>4. PICK num, z : num = Constant(t) /\ z = Vector(num, u * c)
  OBVIOUS
<1>5. num \in [0..k -> Int] /\ num[0] = t /\ \A i \in 0..k : i # 0 => num[i] = 0
  BY <1>2, <1>4 DEF Constant
<1>6. ASSUME NEW n \in N
      PROVE  Given(num, n) = t * u
  <2>. DEFINE g == [i \in 0..k |-> num[i] * X(samples[n], i)]
  <2>1. \A i \in 0..k : X(samples[n], i) \in Int
    BY <1>1, SampleTypes
  <2>2. g[0] = t * u
    <3>1. X(samples[n], 0) = u
      BY <1>0 DEF X
    <3>. QED  BY <1>2, <1>5, <3>1
  <2>3. \A i \in (0..k) \ {0} : g[i] = 0
    BY <1>5, <2>1
  <2>4. Given(num, n) = SumFunctionOnSet(g, 0..k)
    BY DEF Given
  <2>. HIDE DEF g
  <2>5. PICK K, o : K = 0..k /\ o = 0
    OBVIOUS
  <2>6. IsFiniteSet(K) /\ o \in K /\ g[o] \in Int /\ \A i \in K \ {o} : g[i] = 0
    BY <1>2, <2>2, <2>3, <2>5, Products
  <2>7. SumFunctionOnSet(g, K) = g[o]
    BY ONLY <2>6, SumAtOne
  <2>. QED  BY <2>2, <2>4, <2>5, <2>7
<1>7. PICK w, q, d : w = Watts /\ q = SquaredWatts
                     /\ d = [n \in N |-> (t - c * w[n]) * (t - c * w[n])]
  OBVIOUS
<1>14. PICK e : e = Misses(z)
  OBVIOUS
<1>8. /\ Deviates(N, w, q, d, t, c)
      /\ \A n \in N : d[n] \in Int /\ e[n] = (u * u) * d[n]
  <2>. SUFFICES ASSUME NEW n \in N
                PROVE  /\ w[n] \in Int /\ q[n] = w[n] * w[n]
                       /\ d[n] = (t - c * w[n]) * (t - c * w[n])
                       /\ d[n] \in Int /\ e[n] = (u * u) * d[n]
    BY DEF Deviates
  <2>1. w[n] = samples[n].watts /\ q[n] = samples[n].watts * samples[n].watts /\ w[n] \in Int
    BY <1>1, <1>7, SampleTypes DEF Watts, SquaredWatts
  <2>2. Miss(n, z) = Given(num, n) - (u * c) * samples[n].watts
    <3>1. u * c \in Int
      BY Products
    <3>. QED  BY <1>1, <1>4, <1>5, <3>1, MissIs
  <2>3. PICK v \in Int : v = w[n]
    BY <2>1
  <2>4. Miss(n, z) = t * u - (u * c) * v
    BY <1>6, <2>1, <2>2, <2>3
  <2>5. e[n] = Miss(n, z) * Miss(n, z)
    BY <1>1, <1>14 DEF Misses
  <2>6. d[n] = (t - c * v) * (t - c * v)
    BY <1>7, <2>3
  <2>7. /\ (t - c * v) * (t - c * v) \in Int
        /\ (t * u - (u * c) * v) * (t * u - (u * c) * v) = (u * u) * ((t - c * v) * (t - c * v))
    <3>1. PICK x \in Int : x = t - c * v
      BY Products
    <3>2. t * u - (u * c) * v = u * (t - c * v)
      OBVIOUS
    <3>3. (u * x) * (u * x) = (u * u) * (x * x) /\ x * x \in Int
      OBVIOUS
    <3>. QED  BY <3>1, <3>2, <3>3, Zenon
  <2>. QED  BY <2>1, <2>3, <2>4, <2>5, <2>6, <2>7
<1>9. /\ SumFunctionOnSet(q, N) \in Int
      /\ SumFunctionOnSet(d, N) = c * (c * SumFunctionOnSet(q, N) - t * t)
  <2>1. t = SumFunctionOnSet(w, N) /\ c = Cardinality(N)
    BY <1>1, <1>3, <1>7
  <2>. QED  BY ONLY <1>2, <1>8, <2>1, t \in Int, c \in Int, DeviationsSum
<1>10. SumFunctionOnSet(Penalties(num), 0..k) = 0
  <2>1. ASSUME NEW i \in 0..k
        PROVE  Penalties(num)[i] = 0
    <3>1. Penalties(num)[i] = Penalised(i) * (num[i] * num[i]) /\ Penalised(i) \in Int
      BY PenalisedType DEF Penalties
    <3>2. CASE i = 0
      <4>1. num[i] * num[i] \in Int /\ Penalised(i) = 0
        BY <1>5, <3>2, Products DEF Penalised
      <4>. QED  BY <3>1, <4>1
    <3>3. CASE i # 0
      <4>1. num[i] * num[i] = 0
        BY <1>5, <3>3
      <4>. QED  BY <3>1, <4>1
    <3>. QED  BY <3>2, <3>3
  <2>. QED  BY <1>2, <2>1, AllZero
<1>11. Cost(num, u * c) = (u * u) * SumFunctionOnSet(d, N)
  <2>1. Cost(num, u * c) = SumFunctionOnSet(e, N) + SumFunctionOnSet(Penalties(num), 0..k)
    <3>1. u * c \in Int
      BY Products
    <3>. QED  BY <1>1, <1>4, <1>5, <1>14, <3>1, CostIs
  <2>2. SumFunctionOnSet(e, N) = (u * u) * SumFunctionOnSet(d, N)
    <3>1. u * u \in Int
      BY Products
    <3>. QED  BY ONLY <1>2, <1>8, <3>1, SumTimes
  <2>3. (u * u) * SumFunctionOnSet(d, N) \in Int
    <3>1. u * u \in Int /\ SumFunctionOnSet(d, N) \in Int
      BY ONLY <1>2, <1>8, u \in Int, SumOut, Products
    <3>. QED  BY <3>1, Products
  <2>. QED  BY <1>10, <2>1, <2>2, <2>3
<1>12. Variation = c * SumFunctionOnSet(q, N) - t * t
  BY <1>1, <1>7 DEF Variation, Watts, SquaredWatts, SumFunction
<1>13. Variation \in Int
  BY <1>9, <1>12, Products
<1>. QED  BY <1>0, <1>4, <1>5, <1>9, <1>11, <1>12, <1>13

\* What is left unexplained is a part of the cost.
LEMMA ResidualIs ==
    ASSUME ArgsInv, ~Ragged, NEW num \in [0..k -> Int], NEW den \in Int
    PROVE  Residual(num, den) \in Nat /\ Residual(num, den) <= Cost(num, den)
<1>. DEFINE e == [n \in DOMAIN samples |->
                    (den * samples[n].watts - Given(num, n))
                      * (den * samples[n].watts - Given(num, n))]
            r == [i \in 1..k |-> num[i] * num[i]]
<1>1. Residual(num, den) = SumFunctionOnSet(e, DOMAIN samples)
  BY DEF Residual, Predicted, Given, SumFunction
<1>2. Cost(num, den) = SumFunctionOnSet(e, DOMAIN samples) + ridge * SumFunctionOnSet(r, 1..k)
  BY DEF Cost, Given, SumFunction
<1>3. \A n \in DOMAIN samples : e[n] \in Nat
  <2>1. ASSUME NEW n \in DOMAIN samples
        PROVE  e[n] \in Nat
    <3>1. PICK g \in Int, w \in Int : g = Given(num, n) /\ w = samples[n].watts
      BY MissIs, SampleTypes
    <3>2. PICK b \in Int : b = den * w - g
      BY Products
    <3>3. e[n] = b * b
      BY <3>1, <3>2
    <3>4. b * b \in Nat
      BY Square
    <3>. QED  BY <3>3, <3>4
  <2>. QED  BY <2>1
<1>4. \A i \in 1..k : r[i] \in Nat
  <2>1. ASSUME NEW i \in 1..k
        PROVE  r[i] \in Nat
    <3>1. PICK a \in Int : a = num[i]
      BY DEF ArgsInv
    <3>2. a * a \in Nat
      BY Square
    <3>. QED  BY <3>1, <3>2
  <2>. QED  BY <2>1
<1>. HIDE DEF e, r
<1>5. SumFunctionOnSet(e, DOMAIN samples) \in Nat
  BY <1>3, SampleTypes, SumNat
<1>6. SumFunctionOnSet(r, 1..k) \in Nat
  BY <1>4, Ranges, SumNat DEF ArgsInv
<1>7. ridge * SumFunctionOnSet(r, 1..k) \in Nat
  <2>1. PICK a \in Nat, b \in Nat : a = ridge /\ b = SumFunctionOnSet(r, 1..k)
    BY <1>6 DEF ArgsInv
  <2>2. a * b \in Nat
    OBVIOUS
  <2>. QED  BY <2>1, <2>2
<1>. QED  BY <1>1, <1>2, <1>5, <1>7

\* A fit leaves no more unexplained than the average of the watts does, ridge or no ridge.
THEOREM R2IsInUnit == Spec => []R2InUnit
<1>1. Inv => R2InUnit
  <2>. SUFFICES ASSUME Inv, Fitted PROVE Explains
    BY DEF R2InUnit
  <2>1. /\ ArgsInv /\ ~Ragged /\ coefs \in [0..k -> Int] /\ scale \in Int
        /\ Len(samples) >= k + 2 /\ Len(samples) \in Nat /\ k \in Nat
    BY FitSolves DEF ArgsInv
  <2>2. PICK c \in Nat \ {0}, s \in Int : c = Len(samples) /\ s = scale
    BY <2>1
  <2>3. PICK t \in Int : t = SumFunctionOnSet(Watts, DOMAIN samples)
    <3>1. \A n \in DOMAIN samples : Watts[n] \in Int
      BY <2>1, SampleTypes DEF Watts
    <3>2. SumFunctionOnSet(Watts, DOMAIN samples) \in Int
      BY <2>1, <3>1, SampleTypes, SumOut
    <3>. QED  BY <3>2
  <2>4. /\ Constant(t) \in [0..k -> Int] /\ Variation \in Int
        /\ Cost(Constant(t), One * c) = (One * One) * (c * Variation)
    BY <2>1, <2>2, <2>3, ConstantCost
  <2>5. PICK v \in Int : v = Variation
    BY <2>4
  <2>7. /\ Residual(coefs, s) \in Nat /\ Residual(coefs, s) <= Cost(coefs, s)
        /\ Cost(coefs, s) \in Int
    BY <2>1, <2>2, ResidualIs, WidenedCost
  <2>8. PICK x \in Nat, y \in Int : x = Residual(coefs, s) /\ y = Cost(coefs, s)
    BY <2>7
  <2>6. (c * c) * y <= (s * s) * (c * v)
    <3>1. PICK o \in Nat \ {0} : o = One
      BY OneAssumption
    <3>2. o * c \in Int /\ o * o \in Nat \ {0}
      OBVIOUS
    <3>3. ((o * c) * (o * c)) * y <= (s * s) * ((o * o) * (c * v))
      BY <2>2, <2>4, <2>5, <2>8, <3>1, <3>2, FitIsLeast DEF LeastCost
    <3>4. /\ ((o * c) * (o * c)) * y = (o * o) * ((c * c) * y)
          /\ (s * s) * ((o * o) * (c * v)) = (o * o) * ((s * s) * (c * v))
          /\ (c * c) * y \in Int /\ (s * s) * (c * v) \in Int
      OBVIOUS
    <3>. QED  BY <3>2, <3>3, <3>4, Cancels
  <2>9. c * (x * c) <= c * ((v * s) * s)
    <3>1. x <= y /\ (c * c) * y <= (s * s) * (c * v)
      BY <2>6, <2>7, <2>8
    <3>2. (c * c) * x <= (c * c) * y
      <4>1. PICK d \in Nat : y = x + d
        <5>1. y - x \in Nat /\ y = x + (y - x)
          BY <3>1
        <5>. QED  BY <5>1
      <4>2. (c * c) * (x + d) = (c * c) * x + (c * c) * d /\ (c * c) * d >= 0
        OBVIOUS
      <4>. QED  BY <4>1, <4>2
    <3>3. c * (x * c) = (c * c) * x /\ c * ((v * s) * s) = (s * s) * (c * v)
      OBVIOUS
    <3>. QED  BY <3>1, <3>2, <3>3
  <2>10. x * c \in Int /\ 0 <= x * c /\ (v * s) * s \in Int
    OBVIOUS
  <2>11. x * c <= (v * s) * s
    BY <2>9, <2>10, Cancels
  <2>. QED  BY <2>2, <2>5, <2>8, <2>10, <2>11 DEF Explains
<1>. QED  BY <1>1, AlwaysInv, PTL
=============================================================================
