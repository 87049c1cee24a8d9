----------------------------- MODULE SetLemmas -----------------------------
(***************************************************************************)
(* Facts about sets of seconds, series, and sums of functions over finite  *)
(* sets, that the proofs of several components cite.  They use no operator *)
(* of a component.                                                         *)
(***************************************************************************)
EXTENDS FiniteSetsExt, FiniteSetTheorems, WellFoundedInduction, TLAPS

\* A set of naturals that is not empty has a least element.
LEMMA MinExists ==
    ASSUME NEW S \in SUBSET Nat, S # {}
    PROVE  \E x \in S : \A y \in S : x <= y
<1>. DEFINE Less == {ss \in Nat \X Nat : ss[1] < ss[2]}
<1>1. IsWellFoundedOn(Less, Nat)
  BY NatLessThanWellFounded DEF OpToRel
<1>. HIDE DEF Less
<1>2. PICK x \in S : \A y \in S : <<y, x>> \notin Less
  BY <1>1, WFMin
<1>3. \A y \in S : ~(y < x)
  <2>. SUFFICES ASSUME NEW y \in S, y < x PROVE FALSE
    OBVIOUS
  <2>1. <<y, x>> \in Less
    BY DEF Less
  <2>. QED  BY <2>1, <1>2
<1>. QED  BY <1>3

\* The code's "latest sample" is defined: a set of seconds none of which is after b
\* has a newest one, and Max is it.
LEMMA MaxExists ==
    ASSUME NEW S \in SUBSET Nat, S # {}, NEW b \in Nat, \A x \in S : x <= b
    PROVE  /\ Max(S) \in S
           /\ \A y \in S : y <= Max(S)
<1>. DEFINE T == {b - x : x \in S}
<1>1. T # {}
  OBVIOUS
<1>2. T \in SUBSET Nat
  <2>1. \A x \in S : b - x \in Nat
    OBVIOUS
  <2>. QED  BY <2>1
<1>3. PICK z \in T : \A y \in T : z <= y
  <2>. HIDE DEF T
  <2>. QED  BY <1>1, <1>2, MinExists
<1>4. PICK x \in S : z = b - x
  OBVIOUS
<1>5. \A y \in S : x >= y
  <2>1. \A y \in S : z <= b - y
    BY <1>3
  <2>. QED  BY <2>1, <1>4
<1>. QED  BY <1>5 DEF Max

\* A second of the set that no other is after is the newest.
LEMMA MaxIs ==
    ASSUME NEW S \in SUBSET Nat, NEW x \in S, \A y \in S : y <= x
    PROVE  Max(S) = x
<1>1. \A y \in S : x >= y
  OBVIOUS
<1>2. Max(S) \in S /\ \A y \in S : Max(S) >= y
  BY <1>1 DEF Max
<1>3. Max(S) \in Nat /\ x \in Nat /\ Max(S) >= x /\ Max(S) <= x
  BY <1>2
<1>. QED  BY <1>3

\* A series without a sample is the empty series.
LEMMA EmptyFunction ==
    ASSUME NEW f, f = [x \in DOMAIN f |-> f[x]], DOMAIN f = {}
    PROVE  f = << >>
OBVIOUS
----------------------------------------------------------------------------
(***************************************************************************)
(* Sums.  SumFunctionOnSet folds a function in an order nobody knows;      *)
(* these lemmas say that it adds up all the same.  Induction is by a least *)
(* counterexample: a set of naturals that is not empty has a least element.*)
(***************************************************************************)
\* The element a fold takes next.
Pick(s) == CHOOSE x \in s : TRUE

\* g folds f by + over the subsets of D.
IsFold(g, f, D) ==
    g = [s \in SUBSET D |-> IF s = {} THEN 0 ELSE f[Pick(s)] + g[s \ {Pick(s)}]]

\* The sum is what a fold gives, if there is one.
LEMMA SumIsFold ==
    ASSUME NEW f, NEW D
    PROVE  SumFunctionOnSet(f, D) = (CHOOSE g : IsFold(g, f, D))[D]
BY DEF SumFunctionOnSet, FoldFunctionOnSet, MapThenFoldSet, Pick, IsFold

\* Subsets of a finite set with one element less.
LEMMA Smaller ==
    ASSUME NEW D, IsFiniteSet(D), NEW s \in SUBSET D, NEW x \in s
    PROVE  /\ IsFiniteSet(s) /\ Cardinality(s) \in Nat \ {0}
           /\ s \ {x} \in SUBSET D
           /\ Cardinality(s \ {x}) = Cardinality(s) - 1
<1>1. IsFiniteSet(s)
  BY FS_Subset
<1>2. IsFiniteSet(s \ {x}) /\ Cardinality(s \ {x}) = Cardinality(s) - 1
  BY <1>1, FS_RemoveElement
<1>3. Cardinality(s) \in Nat /\ Cardinality(s) # 0
  BY <1>1, FS_CardinalityType, FS_EmptySet
<1>. QED  BY <1>1, <1>2, <1>3

LEMMA ThreeElements ==
    ASSUME NEW S, IsFiniteSet(S), NEW a \in S, NEW b \in S, NEW c \in S,
           a # b, a # c, b # c
    PROVE  Cardinality(S) >= 3
<1>. DEFINE T == S \ {a}
            U == T \ {b}
<1>1. IsFiniteSet(T) /\ Cardinality(T) = Cardinality(S) - 1 /\ b \in T /\ c \in T
  BY FS_RemoveElement
<1>. HIDE DEF T
<1>2. IsFiniteSet(U) /\ Cardinality(U) = Cardinality(T) - 1 /\ c \in U
  BY <1>1, FS_RemoveElement
<1>. HIDE DEF U
<1>3. Cardinality(U) \in Nat \ {0} /\ Cardinality(T) \in Nat /\ Cardinality(S) \in Nat
  BY <1>1, <1>2, FS_CardinalityType, FS_EmptySet
<1>. QED  BY <1>1, <1>2, <1>3

LEMMA FoldExists ==
    ASSUME NEW f, NEW D, IsFiniteSet(D)
    PROVE  \E g : IsFold(g, f, D)
<1>. DEFINE Upto(n) == {s \in SUBSET D : Cardinality(s) <= n}
            Step(g, s) == IF s = {} THEN 0 ELSE f[Pick(s)] + g[s \ {Pick(s)}]
            Fails == {n \in Nat : ~ \E g : g = [s \in Upto(n) |-> Step(g, s)]}
<1>1. ASSUME NEW s \in SUBSET D
      PROVE  /\ Cardinality(s) \in Nat /\ Cardinality(s) <= Cardinality(D)
             /\ s # {} => /\ s \ {Pick(s)} \in SUBSET D
                          /\ Cardinality(s \ {Pick(s)}) = Cardinality(s) - 1
                          /\ Cardinality(s) # 0
  <2>1. IsFiniteSet(s) /\ Cardinality(s) \in Nat /\ Cardinality(s) <= Cardinality(D)
    BY FS_Subset, FS_CardinalityType
  <2>2. ASSUME s # {} PROVE Pick(s) \in s
    BY <2>2 DEF Pick
  <2>. QED  BY <2>1, <2>2, Smaller
<1>. HIDE DEF Step
<1>2. \A s \in SUBSET D : Cardinality(s) \in Nat /\ (Cardinality(s) = 0 => s = {})
  BY <1>1
<1>3. Fails = {}
  <2>. SUFFICES ASSUME Fails # {} PROVE FALSE
    OBVIOUS
  <2>1. PICK n \in Nat : n \in Fails /\ \A m \in Fails : n <= m
    <3>1. Fails \in SUBSET Nat
      OBVIOUS
    <3>. HIDE DEF Fails
    <3>. QED  BY <3>1, MinExists
  <2>. DEFINE g0 == [s \in Upto(0) |-> 0]
  <2>2. CASE n = 0
    <3>1. ASSUME NEW s \in Upto(0) PROVE s = {}
      <4>1. s \in SUBSET D /\ Cardinality(s) <= 0
        OBVIOUS
      <4>. QED  BY <1>2, <4>1
    <3>2. g0 = [s \in Upto(0) |-> Step(g0, s)]
      BY <3>1 DEF Step
    <3>. QED  BY <2>1, <2>2, <3>2
  <2>3. CASE n # 0
    <3>1. n - 1 \in Nat /\ n - 1 \notin Fails
      <4>. HIDE DEF Fails
      <4>. QED  BY <2>1, <2>3
    <3>2. PICK g : g = [s \in Upto(n - 1) |-> Step(g, s)]
      BY <3>1
    <3>. DEFINE h == [s \in Upto(n) |-> Step(g, s)]
    <3>3. ASSUME NEW s \in Upto(n - 1) PROVE h[s] = g[s]
      <4>1. s \in Upto(n)
        <5>1. s \in SUBSET D /\ Cardinality(s) <= n - 1
          OBVIOUS
        <5>. QED  BY <1>2, <5>1
      <4>2. h[s] = Step(g, s) /\ g[s] = Step(g, s)
        BY <3>2, <4>1
      <4>. QED  BY <4>2
    <3>4. ASSUME NEW s \in Upto(n) PROVE Step(g, s) = Step(h, s)
      <4>1. CASE s = {}
        BY <4>1 DEF Step
      <4>2. CASE s # {}
        <5>1. s \ {Pick(s)} \in Upto(n - 1)
          BY <1>1, <2>1, <4>2
        <5>. QED  BY <3>3, <4>2, <5>1 DEF Step
      <4>. QED  BY <4>1, <4>2
    <3>5. h = [s \in Upto(n) |-> Step(h, s)]
      BY <3>4
    <3>. QED  BY <2>1, <3>5
  <2>. QED  BY <2>2, <2>3
<1>4. Cardinality(D) \in Nat /\ Upto(Cardinality(D)) = SUBSET D
  BY <1>1, FS_CardinalityType
<1>5. \E g : g = [s \in SUBSET D |-> Step(g, s)]
  <2>1. \E g : g = [s \in Upto(Cardinality(D)) |-> Step(g, s)]
    BY <1>3, <1>4
  <2>. HIDE DEF Upto
  <2>. QED  BY <1>4, <2>1
<1>. QED  BY <1>5 DEF IsFold, Step

LEMMA FoldStep ==
    ASSUME NEW f, NEW D, NEW g, IsFold(g, f, D), NEW s \in SUBSET D
    PROVE  /\ s = {} => g[s] = 0
           /\ s # {} => Pick(s) \in s /\ g[s] = f[Pick(s)] + g[s \ {Pick(s)}]
<1>1. g[s] = IF s = {} THEN 0 ELSE f[Pick(s)] + g[s \ {Pick(s)}]
  BY DEF IsFold
<1>2. s # {} => Pick(s) \in s
  BY DEF Pick
<1>. QED  BY <1>1, <1>2

LEMMA FoldEmpty ==
    ASSUME NEW f, NEW D, NEW g, IsFold(g, f, D)
    PROVE  g[{}] = 0
<1>1. {} \in SUBSET D
  OBVIOUS
<1>. QED  BY <1>1 DEF IsFold

\* Two folds agree wherever the functions do.
LEMMA FoldUnique ==
    ASSUME NEW f, NEW D, NEW g, IsFold(g, f, D), IsFiniteSet(D),
           NEW e, NEW E, NEW h, IsFold(h, e, E),
           NEW S \in SUBSET D, S \in SUBSET E, \A x \in S : f[x] = e[x]
    PROVE  g[S] = h[S]
<1>. DEFINE Bad == {n \in Nat : \E s \in SUBSET S : Cardinality(s) = n /\ g[s] # h[s]}
<1>1. Bad = {}
  <2>. SUFFICES ASSUME Bad # {} PROVE FALSE
    OBVIOUS
  <2>1. PICK n \in Nat : n \in Bad /\ \A m \in Bad : n <= m
    <3>1. Bad \in SUBSET Nat
      OBVIOUS
    <3>. HIDE DEF Bad
    <3>. QED  BY <3>1, MinExists
  <2>2. PICK s \in SUBSET S : Cardinality(s) = n /\ g[s] # h[s]
    BY <2>1
  <2>3. s \in SUBSET D /\ s \in SUBSET E
    OBVIOUS
  <2>4. s # {}
    <3>1. g[{}] = 0 /\ h[{}] = 0
      BY FoldEmpty
    <3>. QED  BY <2>2, <3>1
  <2>5. /\ Pick(s) \in s
        /\ g[s] = f[Pick(s)] + g[s \ {Pick(s)}]
        /\ h[s] = e[Pick(s)] + h[s \ {Pick(s)}]
    BY <2>3, <2>4, FoldStep
  <2>6. s \ {Pick(s)} \in SUBSET S /\ Cardinality(s \ {Pick(s)}) = n - 1 /\ n - 1 \in Nat
    <3>1. /\ Cardinality(s) \in Nat \ {0}
          /\ Cardinality(s \ {Pick(s)}) = Cardinality(s) - 1
      <4>. HIDE DEF Bad
      <4>. QED  BY <2>3, <2>5, Smaller
    <3>. QED  BY <2>2, <3>1
  <2>7. n - 1 \notin Bad
    <3>. HIDE DEF Bad
    <3>. QED  BY <2>1, <2>6
  <2>8. g[s \ {Pick(s)}] = h[s \ {Pick(s)}]
    BY <2>6, <2>7
  <2>. QED  BY <2>2, <2>5, <2>8
<1>2. Cardinality(S) \in Nat
  BY FS_Subset, FS_CardinalityType
<1>. QED  BY <1>1, <1>2

\* The sum over a finite set is its fold.
LEMMA SumFolds ==
    ASSUME NEW f, NEW D, IsFiniteSet(D)
    PROVE  \E g : IsFold(g, f, D) /\ \A S \in SUBSET D : SumFunctionOnSet(f, S) = g[S]
<1>1. PICK g : IsFold(g, f, D)
  BY FoldExists
<1>2. ASSUME NEW S \in SUBSET D PROVE SumFunctionOnSet(f, S) = g[S]
  <2>1. IsFiniteSet(S)
    BY FS_Subset
  <2>. DEFINE h == CHOOSE h : IsFold(h, f, S)
  <2>2. IsFold(h, f, S)
    BY <2>1, FoldExists
  <2>3. SumFunctionOnSet(f, S) = h[S]
    BY SumIsFold
  <2>. HIDE DEF h
  <2>4. g[S] = h[S]
    BY <1>1, <2>2, FoldUnique
  <2>. QED  BY <2>3, <2>4
<1>. QED  BY <1>1, <1>2

\* A sum depends on nothing but the values it adds up.
LEMMA SumCongruent ==
    ASSUME NEW S, IsFiniteSet(S), NEW f, NEW e, \A x \in S : f[x] = e[x]
    PROVE  SumFunctionOnSet(f, S) = SumFunctionOnSet(e, S)
<1>1. PICK g : IsFold(g, f, S) /\ SumFunctionOnSet(f, S) = g[S]
  BY SumFolds
<1>2. PICK h : IsFold(h, e, S) /\ SumFunctionOnSet(e, S) = h[S]
  BY SumFolds
<1>3. g[S] = h[S]
  BY <1>1, <1>2, FoldUnique
<1>. QED  BY <1>1, <1>2, <1>3

LEMMA SumEmpty ==
    ASSUME NEW f
    PROVE  SumFunctionOnSet(f, {}) = 0
<1>1. IsFiniteSet({})
  BY FS_EmptySet
<1>2. PICK g : IsFold(g, f, {}) /\ SumFunctionOnSet(f, {}) = g[{}]
  BY <1>1, SumFolds
<1>. QED  BY <1>2, FoldEmpty

\* A sum of numbers is a number, and whatever the order, each of them is added once.
LEMMA SumOut ==
    ASSUME NEW S, IsFiniteSet(S), NEW f, \A x \in S : f[x] \in Int
    PROVE  /\ SumFunctionOnSet(f, S) \in Int
           /\ \A x \in S : SumFunctionOnSet(f, S) = f[x] + SumFunctionOnSet(f, S \ {x})
<1>1. PICK g : IsFold(g, f, S) /\ \A s \in SUBSET S : SumFunctionOnSet(f, s) = g[s]
  BY SumFolds
<1>. DEFINE Good(s) == g[s] \in Int /\ \A x \in s : g[s] = f[x] + g[s \ {x}]
            Bad == {n \in Nat : \E s \in SUBSET S : Cardinality(s) = n /\ ~Good(s)}
<1>2. Bad = {}
  <2>. SUFFICES ASSUME Bad # {} PROVE FALSE
    OBVIOUS
  <2>1. PICK n \in Nat : n \in Bad /\ \A m \in Bad : n <= m
    <3>1. Bad \in SUBSET Nat
      OBVIOUS
    <3>. HIDE DEF Bad
    <3>. QED  BY <3>1, MinExists
  <2>2. PICK s \in SUBSET S : Cardinality(s) = n /\ ~Good(s)
    BY <2>1
  <2>3. ASSUME NEW t \in SUBSET S, Cardinality(t) = n - 1, n - 1 \in Nat PROVE Good(t)
    <3>1. n - 1 \notin Bad
      <4>. HIDE DEF Bad
      <4>. QED  BY <2>1, <2>3
    <3>. HIDE DEF Good
    <3>. QED  BY <2>3, <3>1
  <2>4. s # {}
    <3>1. g[{}] = 0
      BY <1>1, FoldEmpty
    <3>2. s = {} => Good(s)
      BY <3>1
    <3>. HIDE DEF Good
    <3>. QED  BY <2>2, <3>2
  <2>. DEFINE p == Pick(s)
  <2>5. p \in s /\ g[s] = f[p] + g[s \ {p}]
    BY <1>1, <2>4, FoldStep
  <2>. HIDE DEF p
  <2>6. ASSUME NEW x \in s
        PROVE  /\ s \ {x} \in SUBSET S /\ Cardinality(s \ {x}) = n - 1 /\ n - 1 \in Nat
               /\ Good(s \ {x})
    <3>1. s \ {x} \in SUBSET S /\ Cardinality(s \ {x}) = n - 1 /\ n - 1 \in Nat
      BY <2>2, Smaller
    <3>. QED  BY <2>3, <3>1
  <2>7. ASSUME NEW x \in s
        PROVE  /\ f[x] \in Int /\ g[s \ {x}] \in Int
               /\ \A y \in s \ {x} : g[s \ {x}] = f[y] + g[(s \ {x}) \ {y}]
               /\ \A y \in s \ {x} : g[(s \ {x}) \ {y}] \in Int
    <3>1. Good(s \ {x}) /\ s \ {x} \in SUBSET S
      BY <2>6
    <3>2. f[x] \in Int
      OBVIOUS
    <3>3. ASSUME NEW y \in s \ {x} PROVE g[(s \ {x}) \ {y}] \in Int
      <4>1. Cardinality(s \ {x}) = n - 1 /\ n - 1 \in Nat
        BY <2>6
      <4>2. /\ (s \ {x}) \ {y} \in SUBSET S
            /\ Cardinality((s \ {x}) \ {y}) = Cardinality(s \ {x}) - 1
            /\ Cardinality(s \ {x}) \in Nat \ {0}
        <5>1. PICK u \in SUBSET S : u = s \ {x}
          BY <3>1
        <5>2. y \in u
          BY <5>1
        <5>3. /\ u \ {y} \in SUBSET S /\ Cardinality(u \ {y}) = Cardinality(u) - 1
              /\ Cardinality(u) \in Nat \ {0}
          BY ONLY IsFiniteSet(S), u \in SUBSET S, <5>2, Smaller
        <5>. QED  BY <5>1, <5>3
      <4>3. n - 2 \in Nat /\ Cardinality((s \ {x}) \ {y}) = n - 2
        BY <4>1, <4>2
      <4>4. n - 2 \notin Bad
        <5>. HIDE DEF Bad
        <5>. QED  BY <2>1, <4>3
      <4>5. Good((s \ {x}) \ {y})
        <5>. HIDE DEF Good
        <5>. QED  BY <4>2, <4>3, <4>4
      <4>. QED  BY <4>5
    <3>. QED  BY <3>1, <3>2, <3>3
  <2>8. g[s] \in Int
    <3>1. f[p] \in Int /\ g[s \ {p}] \in Int
      BY <2>5, <2>7
    <3>. QED  BY <2>5, <3>1
  <2>9. ASSUME NEW x \in s PROVE g[s] = f[x] + g[s \ {x}]
    <3>1. CASE x = p
      BY <2>5, <3>1
    <3>2. CASE x # p
      <4>1. p \in s \ {x} /\ x \in s \ {p} /\ (s \ {p}) \ {x} = (s \ {x}) \ {p}
        BY <2>5, <3>2
      <4>2. g[s \ {p}] = f[x] + g[(s \ {p}) \ {x}]
        BY <2>5, <2>7, <4>1
      <4>3. g[s \ {x}] = f[p] + g[(s \ {p}) \ {x}]
        BY <2>7, <4>1
      <4>4. f[x] \in Int /\ f[p] \in Int /\ g[(s \ {p}) \ {x}] \in Int
        BY <2>5, <2>7, <4>1
      <4>. QED  BY <2>5, <4>2, <4>3, <4>4
    <3>. QED  BY <3>1, <3>2
  <2>10. Good(s)
    BY <2>8, <2>9
  <2>. HIDE DEF Good
  <2>. QED  BY <2>2, <2>10
<1>3. Cardinality(S) \in Nat
  BY FS_CardinalityType
<1>4. Good(S)
  <2>. HIDE DEF Good
  <2>. QED  BY <1>2, <1>3
<1>. QED  BY <1>1, <1>4

\* What is true of the empty set, and of a set as soon as it is true without one of
\* its elements, is true of a finite set.
LEMMA SubsetInduction ==
    ASSUME NEW S, IsFiniteSet(S), NEW Good, {} \in Good,
           \A s \in SUBSET S : \A x \in s : s \ {x} \in Good => s \in Good
    PROVE  S \in Good
<1>. DEFINE Bad == {n \in Nat : \E s \in SUBSET S : Cardinality(s) = n /\ s \notin Good}
<1>1. Bad = {}
  <2>. SUFFICES ASSUME Bad # {} PROVE FALSE
    OBVIOUS
  <2>1. PICK n \in Nat : n \in Bad /\ \A m \in Bad : n <= m
    <3>1. Bad \in SUBSET Nat
      OBVIOUS
    <3>. HIDE DEF Bad
    <3>. QED  BY <3>1, MinExists
  <2>2. PICK s \in SUBSET S : Cardinality(s) = n /\ s \notin Good
    BY <2>1
  <2>3. PICK x \in s : TRUE
    BY <2>2
  <2>4. s \ {x} \in SUBSET S /\ Cardinality(s \ {x}) = n - 1 /\ n - 1 \in Nat
    <3>1. /\ Cardinality(s) \in Nat \ {0}
          /\ Cardinality(s \ {x}) = Cardinality(s) - 1
      BY Smaller
    <3>. QED  BY <2>2, <3>1
  <2>5. n - 1 \notin Bad
    <3>. HIDE DEF Bad
    <3>. QED  BY <2>1, <2>4
  <2>6. s \ {x} \in Good
    BY <2>4, <2>5
  <2>. QED  BY <2>2, <2>6
<1>2. Cardinality(S) \in Nat
  BY FS_CardinalityType
<1>. QED  BY <1>1, <1>2

LEMMA SumOutOf ==
    ASSUME NEW S, IsFiniteSet(S), NEW f, \A x \in S : f[x] \in Int,
           NEW s \in SUBSET S, NEW x \in s
    PROVE  /\ SumFunctionOnSet(f, s) \in Int
           /\ SumFunctionOnSet(f, s \ {x}) \in Int
           /\ SumFunctionOnSet(f, s) = f[x] + SumFunctionOnSet(f, s \ {x})
<1>1. IsFiniteSet(s) /\ IsFiniteSet(s \ {x})
  BY FS_Subset
<1>. QED  BY <1>1, SumOut

LEMMA TimesLess ==
    ASSUME NEW b \in Int, NEW n \in Int
    PROVE  b * (n - 1) = b * n - b /\ b * n \in Int
OBVIOUS

\* A sum lies between its length times its least and its greatest element.
LEMMA SumAtLeast ==
    ASSUME NEW S, IsFiniteSet(S), NEW f, NEW b \in Int,
           \A x \in S : f[x] \in Int /\ b <= f[x]
    PROVE  b * Cardinality(S) <= SumFunctionOnSet(f, S)
<1>. DEFINE Good == {s \in SUBSET S : b * Cardinality(s) <= SumFunctionOnSet(f, s)}
<1>1. {} \in Good
  BY SumEmpty, FS_EmptySet
<1>2. ASSUME NEW s \in SUBSET S, NEW x \in s, s \ {x} \in Good PROVE s \in Good
  <2>1. Cardinality(s) \in Nat /\ Cardinality(s \ {x}) = Cardinality(s) - 1
    BY Smaller
  <2>2. /\ SumFunctionOnSet(f, s) = f[x] + SumFunctionOnSet(f, s \ {x})
        /\ SumFunctionOnSet(f, s \ {x}) \in Int
    <3>1. \A y \in S : f[y] \in Int
      OBVIOUS
    <3>. HIDE DEF Good
    <3>. QED  BY <3>1, SumOutOf, SMTT(20)
  <2>3. b * (Cardinality(s) - 1) <= SumFunctionOnSet(f, s \ {x})
    BY <1>2, <2>1
  <2>4. b * (Cardinality(s) - 1) = b * Cardinality(s) - b /\ b * Cardinality(s) \in Int
    <3>. DEFINE n == Cardinality(s)
    <3>1. n \in Int
      BY <2>1
    <3>. HIDE DEF n, Good
    <3>2. b * (n - 1) = b * n - b /\ b * n \in Int
      BY <3>1, TimesLess
    <3>. QED  BY <3>2 DEF n
  <2>5. b <= f[x] /\ f[x] \in Int
    OBVIOUS
  <2>. QED  BY <2>2, <2>3, <2>4, <2>5
<1>. HIDE DEF Good
<1>3. S \in Good
  BY <1>1, <1>2, SubsetInduction
<1>. QED  BY <1>3 DEF Good

LEMMA SumAtMost ==
    ASSUME NEW S, IsFiniteSet(S), NEW f, NEW b \in Int,
           \A x \in S : f[x] \in Int /\ f[x] <= b
    PROVE  SumFunctionOnSet(f, S) <= b * Cardinality(S)
<1>. DEFINE Good == {s \in SUBSET S : SumFunctionOnSet(f, s) <= b * Cardinality(s)}
<1>1. {} \in Good
  BY SumEmpty, FS_EmptySet
<1>2. ASSUME NEW s \in SUBSET S, NEW x \in s, s \ {x} \in Good PROVE s \in Good
  <2>1. Cardinality(s) \in Nat /\ Cardinality(s \ {x}) = Cardinality(s) - 1
    BY Smaller
  <2>2. /\ SumFunctionOnSet(f, s) = f[x] + SumFunctionOnSet(f, s \ {x})
        /\ SumFunctionOnSet(f, s \ {x}) \in Int
    BY SumOutOf
  <2>3. SumFunctionOnSet(f, s \ {x}) <= b * (Cardinality(s) - 1)
    BY <1>2, <2>1
  <2>4. b * (Cardinality(s) - 1) = b * Cardinality(s) - b /\ b * Cardinality(s) \in Int
    <3>. DEFINE n == Cardinality(s)
    <3>1. n \in Int
      BY <2>1
    <3>. HIDE DEF n, Good
    <3>2. b * (n - 1) = b * n - b /\ b * n \in Int
      BY <3>1, TimesLess
    <3>. QED  BY <3>2 DEF n
  <2>5. f[x] <= b /\ f[x] \in Int
    OBVIOUS
  <2>. QED  BY <2>2, <2>3, <2>4, <2>5
<1>. HIDE DEF Good
<1>3. S \in Good
  BY <1>1, <1>2, SubsetInduction
<1>. QED  BY <1>3 DEF Good

\* A sum of naturals is one, and none of them exceeds it.
LEMMA SumNat ==
    ASSUME NEW S, IsFiniteSet(S), NEW f, \A x \in S : f[x] \in Nat
    PROVE  /\ SumFunctionOnSet(f, S) \in Nat
           /\ \A x \in S : f[x] <= SumFunctionOnSet(f, S)
<1>1. ASSUME NEW s \in SUBSET S PROVE SumFunctionOnSet(f, s) \in Nat
  <2>1. IsFiniteSet(s) /\ \A x \in s : f[x] \in Int /\ 0 <= f[x]
    BY FS_Subset
  <2>2. 0 * Cardinality(s) <= SumFunctionOnSet(f, s)
    BY <2>1, SumAtLeast
  <2>3. SumFunctionOnSet(f, s) \in Int /\ Cardinality(s) \in Nat
    BY <2>1, SumOut, FS_CardinalityType
  <2>. QED  BY <2>2, <2>3
<1>2. ASSUME NEW x \in S PROVE f[x] <= SumFunctionOnSet(f, S)
  <2>1. SumFunctionOnSet(f, S) = f[x] + SumFunctionOnSet(f, S \ {x})
    BY SumOut
  <2>2. SumFunctionOnSet(f, S \ {x}) \in Nat /\ f[x] \in Nat
    BY <1>1
  <2>. QED  BY <2>1, <2>2
<1>3. SumFunctionOnSet(f, S) \in Nat
  BY <1>1
<1>. QED  BY <1>2, <1>3

\* A sum of naturals grows with what it adds up and with each of them.
LEMMA SumMonotone ==
    ASSUME NEW T, IsFiniteSet(T), NEW S \in SUBSET T, NEW f, NEW e,
           \A x \in T : e[x] \in Nat, \A x \in S : f[x] \in Nat /\ f[x] <= e[x]
    PROVE  SumFunctionOnSet(f, S) <= SumFunctionOnSet(e, T)
<1>. DEFINE Good == {t \in SUBSET T :
                       SumFunctionOnSet(f, S \intersect t) <= SumFunctionOnSet(e, t)}
<1>0. IsFiniteSet(S) /\ \A x \in S : f[x] \in Int
  BY FS_Subset
<1>1. {} \in Good
  <2>1. S \intersect {} = {}
    OBVIOUS
  <2>. QED  BY <2>1, SumEmpty
<1>2. ASSUME NEW t \in SUBSET T, NEW x \in t, t \ {x} \in Good
      PROVE  t \in Good
  <2>. SUFFICES SumFunctionOnSet(f, S \intersect t) <= SumFunctionOnSet(e, t)
    OBVIOUS
  <2>1. /\ SumFunctionOnSet(e, t \ {x}) \in Int
        /\ SumFunctionOnSet(e, t) = e[x] + SumFunctionOnSet(e, t \ {x})
        /\ e[x] \in Nat
    BY SumOutOf
  <2>2. SumFunctionOnSet(f, S \intersect (t \ {x})) <= SumFunctionOnSet(e, t \ {x})
    BY <1>2
  <2>3. CASE x \in S
    <3>. DEFINE s == S \intersect t
    <3>1. s \in SUBSET S /\ x \in s /\ S \intersect (t \ {x}) = s \ {x}
      BY <2>3
    <3>. HIDE DEF s
    <3>2. /\ SumFunctionOnSet(f, s \ {x}) \in Int
          /\ SumFunctionOnSet(f, s) = f[x] + SumFunctionOnSet(f, s \ {x})
      BY ONLY <1>0, <3>1, SumOutOf
    <3>3. f[x] \in Nat /\ f[x] <= e[x]
      BY <2>3
    <3>4. SumFunctionOnSet(f, s \ {x}) <= SumFunctionOnSet(e, t \ {x})
      BY <2>2, <3>1
    <3>. HIDE DEF Good
    <3>5. SumFunctionOnSet(f, s) <= SumFunctionOnSet(e, t)
      BY <2>1, <3>2, <3>3, <3>4
    <3>. QED  BY <3>5 DEF s
  <2>4. CASE x \notin S
    <3>1. S \intersect t = S \intersect (t \ {x})
      BY <2>4
    <3>2. SumFunctionOnSet(f, S \intersect (t \ {x})) \in Int
      <4>1. IsFiniteSet(S \intersect (t \ {x}))
        BY <1>0, FS_Subset
      <4>. QED  BY <4>1, SumOut
    <3>. HIDE DEF Good
    <3>3. SumFunctionOnSet(f, S \intersect t) <= SumFunctionOnSet(e, t \ {x})
      BY <2>2, <3>1
    <3>4. SumFunctionOnSet(f, S \intersect t) \in Int
      BY <3>1, <3>2
    <3>. QED  BY <2>1, <3>3, <3>4
  <2>. QED  BY <2>3, <2>4
<1>3. T \in Good
  <2>. HIDE DEF Good
  <2>. QED  BY <1>1, <1>2, SubsetInduction
<1>4. S \intersect T = S
  OBVIOUS
<1>. QED  BY <1>3, <1>4

\* What is added to one of the terms is added to the sum.
LEMMA SumAdd ==
    ASSUME NEW S, IsFiniteSet(S), NEW f, \A x \in S : f[x] \in Int,
           NEW c \in S, NEW d \in Int, NEW e,
           \A x \in S : e[x] = IF x = c THEN f[x] + d ELSE f[x]
    PROVE  SumFunctionOnSet(e, S) = SumFunctionOnSet(f, S) + d
<1>1. \A x \in S : e[x] \in Int
  OBVIOUS
<1>2. IsFiniteSet(S \ {c})
  BY FS_Subset
<1>3. SumFunctionOnSet(e, S \ {c}) = SumFunctionOnSet(f, S \ {c})
  BY <1>2, SumCongruent
<1>4. /\ SumFunctionOnSet(f, S) = f[c] + SumFunctionOnSet(f, S \ {c})
      /\ SumFunctionOnSet(f, S \ {c}) \in Int
      /\ SumFunctionOnSet(e, S) = e[c] + SumFunctionOnSet(e, S \ {c})
  BY <1>1, SumOutOf
<1>. QED  BY <1>3, <1>4

\* The sum over two sets that share nothing.
LEMMA SumUnion ==
    ASSUME NEW A, IsFiniteSet(A), NEW B, IsFiniteSet(B), A \intersect B = {},
           NEW f, \A x \in A \union B : f[x] \in Int
    PROVE  SumFunctionOnSet(f, A \union B) = SumFunctionOnSet(f, A) + SumFunctionOnSet(f, B)
<1>. DEFINE Good == {b \in SUBSET B : SumFunctionOnSet(f, A \union b)
                                        = SumFunctionOnSet(f, A) + SumFunctionOnSet(f, b)}
<1>0. SumFunctionOnSet(f, A) \in Int /\ IsFiniteSet(A \union B)
  BY SumOut, FS_Union
<1>1. {} \in Good
  <2>1. A \union {} = A
    OBVIOUS
  <2>. QED  BY <1>0, <2>1, SumEmpty
<1>2. ASSUME NEW b \in SUBSET B, NEW x \in b, b \ {x} \in Good PROVE b \in Good
  <2>. SUFFICES SumFunctionOnSet(f, A \union b)
                  = SumFunctionOnSet(f, A) + SumFunctionOnSet(f, b)
    OBVIOUS
  <2>1. SumFunctionOnSet(f, A \union (b \ {x}))
          = SumFunctionOnSet(f, A) + SumFunctionOnSet(f, b \ {x})
    BY <1>2
  <2>. HIDE DEF Good
  <2>2. f[x] \in Int /\ A \union b \in SUBSET (A \union B) /\ x \in A \union b
    OBVIOUS
  <2>3. (A \union b) \ {x} = A \union (b \ {x})
    OBVIOUS
  <2>4. SumFunctionOnSet(f, A \union b)
          = f[x] + SumFunctionOnSet(f, (A \union b) \ {x})
    BY <1>0, <2>2, SumOutOf
  <2>5. /\ SumFunctionOnSet(f, b \ {x}) \in Int
        /\ SumFunctionOnSet(f, b) = f[x] + SumFunctionOnSet(f, b \ {x})
    BY SumOutOf
  <2>6. SumFunctionOnSet(f, A \union b)
          = f[x] + (SumFunctionOnSet(f, A) + SumFunctionOnSet(f, b \ {x}))
    BY <2>1, <2>3, <2>4
  <2>. QED  BY <1>0, <2>2, <2>5, <2>6
<1>3. B \in Good
  <2>. HIDE DEF Good
  <2>. QED  BY <1>1, <1>2, SubsetInduction
<1>. QED  BY <1>3

\* What is zero need not be added.
LEMMA SumZeros ==
    ASSUME NEW S, IsFiniteSet(S), NEW s \in SUBSET S, NEW f, NEW e,
           \A x \in s : e[x] \in Int /\ f[x] = e[x], \A x \in S \ s : f[x] = 0
    PROVE  SumFunctionOnSet(f, S) = SumFunctionOnSet(e, s)
<1>. DEFINE r == S \ s
<1>1. /\ IsFiniteSet(s) /\ IsFiniteSet(r) /\ s \intersect r = {} /\ s \union r = S
      /\ \A x \in s \union r : f[x] \in Int
      /\ \A x \in r : f[x] = 0
  BY FS_Subset
<1>. HIDE DEF r
<1>2. SumFunctionOnSet(f, S) = SumFunctionOnSet(f, s) + SumFunctionOnSet(f, r)
  BY <1>1, SumUnion
<1>3. SumFunctionOnSet(f, s) = SumFunctionOnSet(e, s) /\ SumFunctionOnSet(e, s) \in Int
  BY <1>1, SumCongruent, SumOut
<1>4. SumFunctionOnSet(f, r) \in Int /\ Cardinality(r) \in Int
  BY <1>1, SumOut, FS_CardinalityType
<1>5. /\ 0 * Cardinality(r) <= SumFunctionOnSet(f, r)
      /\ SumFunctionOnSet(f, r) <= 0 * Cardinality(r)
  <2>1. 0 \in Int /\ \A x \in r : f[x] \in Int /\ 0 <= f[x] /\ f[x] <= 0
    BY <1>1
  <2>2. 0 * Cardinality(r) <= SumFunctionOnSet(f, r)
    BY <1>1, <2>1, SumAtLeast
  <2>3. SumFunctionOnSet(f, r) <= 0 * Cardinality(r)
    BY <1>1, <2>1, SumAtMost
  <2>. QED  BY <2>2, <2>3
<1>6. SumFunctionOnSet(f, r) = 0
  BY <1>4, <1>5
<1>. QED  BY <1>2, <1>3, <1>6

\* What is zero but in one place.
LEMMA SumAtOne ==
    ASSUME NEW S, IsFiniteSet(S), NEW c \in S, NEW f, f[c] \in Int, \A x \in S \ {c} : f[x] = 0
    PROVE  SumFunctionOnSet(f, S) = f[c]
<1>1. {c} \in SUBSET S /\ IsFiniteSet({c}) /\ {c} \ {c} = {}
  BY FS_Subset
<1>2. SumFunctionOnSet(f, S) = SumFunctionOnSet(f, {c})
  BY <1>1, SumZeros
<1>3. SumFunctionOnSet(f, {c}) = f[c] + SumFunctionOnSet(f, {c} \ {c})
  BY <1>1, SumOut
<1>. QED  BY <1>1, <1>2, <1>3, SumEmpty

\* The sum of sums, term by term.
LEMMA SumPlus ==
    ASSUME NEW S, IsFiniteSet(S), NEW f, NEW g, NEW e,
           \A x \in S : f[x] \in Int /\ g[x] \in Int /\ e[x] = f[x] + g[x]
    PROVE  SumFunctionOnSet(e, S) = SumFunctionOnSet(f, S) + SumFunctionOnSet(g, S)
<1>. DEFINE Good == {s \in SUBSET S : SumFunctionOnSet(e, s)
                                        = SumFunctionOnSet(f, s) + SumFunctionOnSet(g, s)}
<1>0. /\ \A x \in S : f[x] \in Int
      /\ \A x \in S : g[x] \in Int
      /\ \A x \in S : e[x] \in Int
  OBVIOUS
<1>1. {} \in Good
  BY SumEmpty
<1>2. ASSUME NEW s \in SUBSET S, NEW x \in s, s \ {x} \in Good PROVE s \in Good
  <2>. SUFFICES SumFunctionOnSet(e, s) = SumFunctionOnSet(f, s) + SumFunctionOnSet(g, s)
    OBVIOUS
  <2>1. SumFunctionOnSet(e, s \ {x})
          = SumFunctionOnSet(f, s \ {x}) + SumFunctionOnSet(g, s \ {x})
    BY <1>2
  <2>. HIDE DEF Good
  <2>2. /\ SumFunctionOnSet(f, s \ {x}) \in Int
        /\ SumFunctionOnSet(f, s) = f[x] + SumFunctionOnSet(f, s \ {x})
    BY <1>0, SumOutOf
  <2>3. /\ SumFunctionOnSet(g, s \ {x}) \in Int
        /\ SumFunctionOnSet(g, s) = g[x] + SumFunctionOnSet(g, s \ {x})
    BY <1>0, SumOutOf
  <2>4. SumFunctionOnSet(e, s) = e[x] + SumFunctionOnSet(e, s \ {x})
    BY <1>0, SumOutOf
  <2>5. f[x] \in Int /\ g[x] \in Int /\ e[x] = f[x] + g[x]
    OBVIOUS
  <2>. QED  BY <2>1, <2>2, <2>3, <2>4, <2>5
<1>3. S \in Good
  <2>. HIDE DEF Good
  <2>. QED  BY <1>1, <1>2, SubsetInduction
<1>. QED  BY <1>3

LEMMA Distributes ==
    ASSUME NEW a \in Int, NEW b \in Int, NEW c \in Int
    PROVE  c * (a + b) = c * a + c * b /\ c * a \in Int
OBVIOUS

\* The sum of multiples.
LEMMA SumTimes ==
    ASSUME NEW S, IsFiniteSet(S), NEW f, NEW e, NEW c \in Int,
           \A x \in S : f[x] \in Int /\ e[x] = c * f[x]
    PROVE  SumFunctionOnSet(e, S) = c * SumFunctionOnSet(f, S)
<1>. DEFINE Good == {s \in SUBSET S : SumFunctionOnSet(e, s) = c * SumFunctionOnSet(f, s)}
<1>1. {} \in Good
  BY SumEmpty
<1>2. ASSUME NEW s \in SUBSET S, NEW x \in s, s \ {x} \in Good PROVE s \in Good
  <2>. SUFFICES SumFunctionOnSet(e, s) = c * SumFunctionOnSet(f, s)
    OBVIOUS
  <2>1. SumFunctionOnSet(e, s \ {x}) = c * SumFunctionOnSet(f, s \ {x})
    BY <1>2
  <2>. HIDE DEF Good
  <2>2. /\ SumFunctionOnSet(f, s \ {x}) \in Int
        /\ SumFunctionOnSet(f, s) = f[x] + SumFunctionOnSet(f, s \ {x})
    <3>1. \A y \in S : f[y] \in Int
      OBVIOUS
    <3>2. SumFunctionOnSet(f, s \ {x}) \in Int
      BY <3>1, SumOutOf
    <3>3. SumFunctionOnSet(f, s) = f[x] + SumFunctionOnSet(f, s \ {x})
      BY <3>1, SumOutOf
    <3>. QED  BY <3>2, <3>3
  <2>3. SumFunctionOnSet(e, s) = e[x] + SumFunctionOnSet(e, s \ {x})
    <3>1. \A y \in S : e[y] \in Int
      BY Distributes
    <3>. QED  BY ONLY IsFiniteSet(S), <3>1, SumOutOf
  <2>4. f[x] \in Int /\ e[x] = c * f[x]
    OBVIOUS
  <2>5. c * SumFunctionOnSet(f, s) = c * f[x] + c * SumFunctionOnSet(f, s \ {x})
    BY <2>2, <2>4, Distributes
  <2>. QED  BY <2>1, <2>3, <2>4, <2>5
<1>3. S \in Good
  <2>. HIDE DEF Good
  <2>. QED  BY <1>1, <1>2, SubsetInduction
<1>. QED  BY <1>3

Transposed(a, b, L, S) == \A l \in L : \A s \in S : a[l][s] \in Int /\ a[l][s] = b[s][l]
RowSums(u, a, L, S)    == \A l \in L : u[l] = SumFunctionOnSet(a[l], S)

\* A table adds up by rows as it does by columns.
LEMMA SumSwap ==
    ASSUME NEW L, IsFiniteSet(L), NEW S, IsFiniteSet(S), NEW a, NEW b, NEW u, NEW v,
           Transposed(a, b, L, S), RowSums(u, a, L, S), RowSums(v, b, S, L)
    PROVE  SumFunctionOnSet(u, L) = SumFunctionOnSet(v, S)
<1>. USE DEF Transposed, RowSums
<1>. DEFINE Rows(t) == [l \in L |-> SumFunctionOnSet(a[l], t)]
            Good == {t \in SUBSET S : SumFunctionOnSet(Rows(t), L) = SumFunctionOnSet(v, t)}
<1>1. {} \in Good
  <2>1. \A l \in L : Rows({})[l] = 0
    BY SumEmpty
  <2>. HIDE DEF Rows
  <2>2. {} \in SUBSET L /\ \A x \in {} : v[x] \in Int /\ Rows({})[x] = v[x]
    OBVIOUS
  <2>3. SumFunctionOnSet(Rows({}), L) = SumFunctionOnSet(v, {})
    BY <2>1, <2>2, SumZeros
  <2>. QED  BY <2>3
<1>2. \A s \in S : v[s] \in Int
  BY SumOut
<1>3. ASSUME NEW t \in SUBSET S, NEW x \in t, t \ {x} \in Good PROVE t \in Good
  <2>. SUFFICES SumFunctionOnSet(Rows(t), L) = SumFunctionOnSet(v, t)
    OBVIOUS
  <2>1. SumFunctionOnSet(Rows(t \ {x}), L) = SumFunctionOnSet(v, t \ {x})
    BY <1>3
  <2>. HIDE DEF Good
  <2>2. \A l \in L : /\ b[x][l] \in Int /\ Rows(t \ {x})[l] \in Int
                     /\ Rows(t)[l] = b[x][l] + Rows(t \ {x})[l]
    <3>. SUFFICES ASSUME NEW l \in L
                  PROVE  /\ b[x][l] \in Int /\ Rows(t \ {x})[l] \in Int
                         /\ Rows(t)[l] = b[x][l] + Rows(t \ {x})[l]
      OBVIOUS
    <3>1. PICK f : f = a[l]
      OBVIOUS
    <3>2. x \in S /\ (\A s \in S : f[s] \in Int) /\ f[x] = b[x][l]
      BY <3>1
    <3>3. /\ SumFunctionOnSet(f, t \ {x}) \in Int
          /\ SumFunctionOnSet(f, t) = f[x] + SumFunctionOnSet(f, t \ {x})
      BY ONLY <3>2, IsFiniteSet(S), t \in SUBSET S, x \in t, SumOutOf
    <3>. QED  BY <3>1, <3>2, <3>3
  <2>. HIDE DEF Rows
  <2>3. SumFunctionOnSet(Rows(t), L)
          = SumFunctionOnSet(b[x], L) + SumFunctionOnSet(Rows(t \ {x}), L)
    <3>1. PICK e, f, g : e = Rows(t) /\ f = b[x] /\ g = Rows(t \ {x})
      OBVIOUS
    <3>2. \A l \in L : f[l] \in Int /\ g[l] \in Int /\ e[l] = f[l] + g[l]
      BY <2>2, <3>1
    <3>3. SumFunctionOnSet(e, L) = SumFunctionOnSet(f, L) + SumFunctionOnSet(g, L)
      BY <3>2, SumPlus
    <3>. QED  BY <3>1, <3>3
  <2>4. SumFunctionOnSet(v, t) = v[x] + SumFunctionOnSet(v, t \ {x})
    BY <1>2, SumOutOf
  <2>. QED  BY <2>1, <2>3, <2>4
<1>4. S \in Good
  <2>. HIDE DEF Good
  <2>. QED  BY <1>1, <1>3, SubsetInduction
<1>5. SumFunctionOnSet(Rows(S), L) = SumFunctionOnSet(u, L)
  <2>1. \A l \in L : Rows(S)[l] = u[l]
    OBVIOUS
  <2>. HIDE DEF Rows
  <2>. QED  BY <2>1, SumCongruent
<1>. HIDE DEF Rows
<1>. QED  BY <1>4, <1>5

\* What h shares out of L to k, and to all of K.
Share(L, h, k)  == {x \in L : h[x] = k}
Shared(L, h, K) == {x \in L : h[x] \in K}

\* The parts that K names of what is shared out by h add up to what h shares out to K.
LEMMA SumShares ==
    ASSUME NEW K, IsFiniteSet(K), NEW L, IsFiniteSet(L), NEW w, NEW h, NEW v,
           \A x \in L : w[x] \in Int,
           \A k \in K : v[k] = SumFunctionOnSet(w, Share(L, h, k))
    PROVE  SumFunctionOnSet(v, K) = SumFunctionOnSet(w, Shared(L, h, K))
<1>. DEFINE Good == {ks \in SUBSET K :
                       SumFunctionOnSet(v, ks) = SumFunctionOnSet(w, Shared(L, h, ks))}
<1>0. ASSUME NEW S \in SUBSET L
      PROVE  /\ IsFiniteSet(S) /\ \A x \in S : w[x] \in Int
             /\ SumFunctionOnSet(w, S) \in Int
  <2>1. IsFiniteSet(S)
    BY FS_Subset
  <2>. QED  BY <2>1, SumOut
<1>1. {} \in Good
  <2>1. Shared(L, h, {}) = {}
    BY DEF Shared
  <2>. QED  BY <2>1, SumEmpty
<1>2. ASSUME NEW ks \in SUBSET K, NEW k \in ks, ks \ {k} \in Good PROVE ks \in Good
  <2>. SUFFICES SumFunctionOnSet(v, ks) = SumFunctionOnSet(w, Shared(L, h, ks))
    OBVIOUS
  <2>1. SumFunctionOnSet(v, ks \ {k}) = SumFunctionOnSet(w, Shared(L, h, ks \ {k}))
    BY <1>2
  <2>. DEFINE own == Share(L, h, k)
              rest == Shared(L, h, ks \ {k})
  <2>2. /\ own \in SUBSET L /\ rest \in SUBSET L /\ own \intersect rest = {}
        /\ Shared(L, h, ks) = own \union rest
    BY DEF Share, Shared
  <2>3. \A x \in K : v[x] \in Int
    <3>1. ASSUME NEW x \in K PROVE v[x] \in Int
      <4>1. Share(L, h, x) \in SUBSET L
        BY DEF Share
      <4>. QED  BY <1>0, <4>1
    <3>. QED  BY <3>1
  <2>4. v[k] = SumFunctionOnSet(w, own)
    OBVIOUS
  <2>5. SumFunctionOnSet(v, ks) = v[k] + SumFunctionOnSet(v, ks \ {k})
    BY <2>3, SumOutOf
  <2>. HIDE DEF own, rest, Good
  <2>6. SumFunctionOnSet(w, own \union rest)
          = SumFunctionOnSet(w, own) + SumFunctionOnSet(w, rest)
    BY <1>0, <2>2, SumUnion
  <2>. QED  BY <2>1, <2>2, <2>4, <2>5, <2>6 DEF rest
<1>3. K \in Good
  <2>. HIDE DEF Good
  <2>. QED  BY <1>1, <1>2, SubsetInduction
<1>. QED  BY <1>3

\* They add up to no more than the whole.
LEMMA SumParts ==
    ASSUME NEW K, IsFiniteSet(K), NEW L, IsFiniteSet(L), NEW w, NEW h, NEW v,
           \A x \in L : w[x] \in Nat,
           \A k \in K : v[k] = SumFunctionOnSet(w, {x \in L : h[x] = k})
    PROVE  SumFunctionOnSet(v, K) <= SumFunctionOnSet(w, L)
<1>. DEFINE shared == Shared(L, h, K)
<1>1. shared \in SUBSET L
  BY DEF Shared
<1>2. SumFunctionOnSet(v, K) = SumFunctionOnSet(w, shared)
  <2>1. \A x \in L : w[x] \in Int
    OBVIOUS
  <2>2. \A k \in K : v[k] = SumFunctionOnSet(w, Share(L, h, k))
    BY DEF Share
  <2>. QED  BY <2>1, <2>2, SumShares
<1>. HIDE DEF shared
<1>3. \A x \in shared : w[x] \in Nat /\ w[x] <= w[x]
  BY <1>1
<1>. QED  BY <1>1, <1>2, <1>3, SumMonotone

Images(L, h)       == {h[x] : x \in L}
Distinguishes(h, L) == \A x, y \in L : h[x] = h[y] => x = y
Carries(v, h, w, L) == \A x \in L : w[x] \in Int /\ v[h[x]] = w[x]

\* A sum over L is one over the images of its elements, if they are all different.
LEMMA SumRenamed ==
    ASSUME NEW L, IsFiniteSet(L), NEW h, Distinguishes(h, L), NEW w, NEW v, Carries(v, h, w, L)
    PROVE  /\ IsFiniteSet(Images(L, h)) /\ Cardinality(Images(L, h)) = Cardinality(L)
           /\ SumFunctionOnSet(v, Images(L, h)) = SumFunctionOnSet(w, L)
<1>. DEFINE T == Images(L, h)
<1>. USE DEF Images, Distinguishes, Carries
<1>1. IsFiniteSet(T) /\ Cardinality(T) = Cardinality(L)
  <2>. DEFINE f == [x \in L |-> h[x]]
  <2>1. f \in [L -> T]
    OBVIOUS
  <2>2. f \in Injection(L, T)
    BY <2>1 DEF Injection, IsInjective
  <2>3. f \in Surjection(L, T)
    BY <2>1 DEF Surjection
  <2>4. ExistsBijection(L, T)
    BY <2>2, <2>3 DEF ExistsBijection, Bijection
  <2>. QED  BY <2>4, FS_Bijection
<1>2. \A k \in T : v[k] = SumFunctionOnSet(w, Share(L, h, k))
  <2>1. SUFFICES ASSUME NEW x \in L
                 PROVE  v[h[x]] = SumFunctionOnSet(w, Share(L, h, h[x]))
    OBVIOUS
  <2>2. Share(L, h, h[x]) = {x}
    BY DEF Share
  <2>3. IsFiniteSet({x}) /\ x \in {x} /\ w[x] \in Int /\ \A y \in {x} \ {x} : w[y] = 0
    BY FS_Singleton
  <2>4. SumFunctionOnSet(w, {x}) = w[x]
    BY <2>3, SumAtOne
  <2>. QED  BY <2>2, <2>4
<1>3. SumFunctionOnSet(v, T) = SumFunctionOnSet(w, Shared(L, h, T))
  BY <1>1, <1>2, SumShares
<1>4. Shared(L, h, T) = L
  BY DEF Shared
<1>. QED  BY <1>1, <1>3, <1>4
----------------------------------------------------------------------------
(***************************************************************************)
(* Powers of two, counted as subsets.                                      *)
(***************************************************************************)
Power(n) == 2^n

LEMMA SubsetsCounted ==
    ASSUME NEW n \in Nat
    PROVE  /\ IsFiniteSet(SUBSET (1..n)) /\ Cardinality(SUBSET (1..n)) = Power(n)
           /\ Power(n) \in Nat
<1>1. IsFiniteSet(1..n) /\ Cardinality(1..n) = n
  <2>1. Cardinality(1..n) = IF 1 > n THEN 0 ELSE n - 1 + 1
    BY FS_Interval
  <2>. QED  BY <2>1, FS_Interval
<1>2. PICK S : S = 1..n
  OBVIOUS
<1>3. IsFiniteSet(SUBSET S) /\ Cardinality(SUBSET S) = 2^Cardinality(S)
  BY <1>1, <1>2, FS_SUBSET, Zenon
<1>4. Cardinality(SUBSET S) = Power(n)
  BY <1>1, <1>2, <1>3, Zenon DEF Power
<1>5. Cardinality(SUBSET S) \in Nat
  BY <1>3, FS_CardinalityType
<1>. QED  BY <1>2, <1>3, <1>4, <1>5

LEMMA PowersGrow ==
    ASSUME NEW n \in Nat, NEW o \in Nat, n <= o
    PROVE  Power(n) <= Power(o)
<1>1. SUBSET (1..n) \in SUBSET (SUBSET (1..o))
  OBVIOUS
<1>2. Cardinality(SUBSET (1..n)) <= Cardinality(SUBSET (1..o))
  BY <1>1, SubsetsCounted, FS_Subset
<1>. QED  BY <1>2, SubsetsCounted

LEMMA PowersDouble ==
    ASSUME NEW n \in Nat
    PROVE  Power(0) = 1 /\ Power(n) \in Nat \ {0} /\ Power(n + 1) = 2 * Power(n)
<1>1. Power(0) = 1
  <2>1. 1..0 = {}
    OBVIOUS
  <2>2. SUBSET {} = {{}}
    OBVIOUS
  <2>3. Cardinality({{}}) = 1
    BY FS_Singleton
  <2>4. Cardinality(SUBSET (1..0)) = Power(0)
    BY SubsetsCounted
  <2>. QED  BY <2>1, <2>2, <2>3, <2>4
<1>2. Power(n) \in Nat \ {0}
  <2>1. Power(0) <= Power(n)
    BY PowersGrow
  <2>2. Power(n) \in Nat
    BY SubsetsCounted
  <2>. QED  BY <1>1, <2>1, <2>2
<1>. DEFINE L == SUBSET (1..n)
            h == [T \in L |-> T \union {n + 1}]
            zero == [T \in SUBSET (1..(n + 1)) |-> 0]
<1>3. IsFiniteSet(L) /\ Cardinality(L) = Power(n)
  BY SubsetsCounted
<1>4. Distinguishes(h, L)
  <2>. SUFFICES ASSUME NEW x \in L, NEW y \in L, h[x] = h[y]
                PROVE  x = y
    BY DEF Distinguishes
  <2>1. n + 1 \notin x /\ n + 1 \notin y
    OBVIOUS
  <2>2. x \union {n + 1} = y \union {n + 1}
    OBVIOUS
  <2>. QED  BY <2>1, <2>2
<1>5. Carries(zero, h, zero, L)
  <2>. SUFFICES ASSUME NEW x \in L
                PROVE  zero[x] \in Int /\ zero[h[x]] = zero[x]
    BY DEF Carries
  <2>1. x \in SUBSET (1..(n + 1)) /\ h[x] \in SUBSET (1..(n + 1))
    OBVIOUS
  <2>. QED  BY <2>1
<1>6. SUBSET (1..(n + 1)) = L \union Images(L, h)
  <2>1. ASSUME NEW T \in SUBSET (1..(n + 1))
        PROVE  T \in L \union Images(L, h)
    <3>1. CASE n + 1 \in T
      <4>1. T \ {n + 1} \in L /\ h[T \ {n + 1}] = T
        BY <3>1
      <4>. QED  BY <4>1 DEF Images
    <3>2. CASE n + 1 \notin T
      BY <3>2
    <3>. QED  BY <3>1, <3>2
  <2>2. ASSUME NEW T \in L
        PROVE  T \in SUBSET (1..(n + 1)) /\ h[T] \in SUBSET (1..(n + 1))
    OBVIOUS
  <2>. HIDE DEF h, L
  <2>. QED  BY <2>1, <2>2 DEF Images
<1>7. L \intersect Images(L, h) = {}
  <2>1. \A T \in L : h[T] \notin L
    OBVIOUS
  <2>. HIDE DEF h, L
  <2>. QED  BY <2>1 DEF Images
<1>. HIDE DEF L, h, zero
<1>8. IsFiniteSet(Images(L, h)) /\ Cardinality(Images(L, h)) = Cardinality(L)
  BY <1>3, <1>4, <1>5, SumRenamed
<1>9. Cardinality(L \union Images(L, h)) = Power(n) + Power(n) - Cardinality({})
  BY <1>3, <1>7, <1>8, FS_Union
<1>10. Cardinality({}) = 0
  BY FS_EmptySet
<1>11. Cardinality(SUBSET (1..(n + 1))) = Power(n + 1)
  <2>1. PICK o \in Nat : o = n + 1
    OBVIOUS
  <2>2. Cardinality(SUBSET (1..o)) = Power(o)
    BY SubsetsCounted
  <2>. QED  BY <2>1, <2>2
<1>12. Power(n + 1) = Power(n) + Power(n) - 0
  BY <1>6, <1>9, <1>10, <1>11, Zenon
<1>. QED  BY <1>1, <1>2, <1>12
=============================================================================
