-------------------------- MODULE AttributorProofs --------------------------
(***************************************************************************)
(* What holds of the attributor for every set of spans, services, routes   *)
(* and buckets, every scenario, and every batch, reading and model a tick  *)
(* may meet.                                                               *)
(***************************************************************************)
EXTENDS Attributor, SetLemmas

IsWatts(w)  == IsFiniteSet(DOMAIN w) /\ \A pod \in DOMAIN w : w[pod] \in Nat
IsModel(m)  == m.intercept \in Int /\ \A r \in DOMAIN m.coefs : m.coefs[r] \in Int
IsFit(fit)  == /\ \A svc \in DOMAIN fit.models : IsModel(fit.models[svc])
               /\ \A r \in DOMAIN fit.rates : fit.rates[r] \in Nat
IsBill(bill) == bill.routes \in [Routes -> Nat] /\ bill.idle \in Nat
----------------------------------------------------------------------------
(***************************************************************************)
(* Arithmetic.                                                             *)
(***************************************************************************)
LEMMA DivNat ==
    ASSUME NEW a \in Nat, NEW d \in Nat \ {0}
    PROVE  a \div d \in Nat
OBVIOUS

LEMMA DivExact ==
    ASSUME NEW a \in Nat, NEW d \in Nat \ {0}, a % d = 0
    PROVE  d * (a \div d) = a
OBVIOUS

LEMMA ZeroDiv == \A d \in Nat \ {0} : 0 \div d = 0
OBVIOUS

LEMMA Cancel ==
    ASSUME NEW a \in Int, NEW b \in Int, NEW d \in Nat \ {0}, d * a = d * b
    PROVE  a = b
OBVIOUS

LEMMA Products ==
    ASSUME NEW a \in Nat, NEW b \in Nat
    PROVE  a * b \in Nat /\ a * b = b * a /\ 0 * a = 0 /\ a * 0 = 0
OBVIOUS

\* The part of W in proportion to x, over d.
Part(W, x, d)   == (W * x) \div d
Divides(W, x, d) == (W * x) % d = 0

LEMMA PartNat ==
    ASSUME NEW W \in Nat, NEW x \in Nat, NEW d \in Nat \ {0}
    PROVE  Part(W, x, d) \in Nat
<1>1. PICK a \in Nat : a = W * x
  BY Products
<1>. QED  BY <1>1, DivNat DEF Part

\* Exact parts of W in proportion to f, over d, are W's part of f in d.
LEMMA ShareOut ==
    ASSUME NEW S, IsFiniteSet(S), NEW f, NEW g, NEW W \in Nat, NEW d \in Nat \ {0},
           \A x \in S : f[x] \in Nat /\ g[x] = Part(W, f[x], d)
    PROVE  /\ \A x \in S : g[x] \in Nat
           /\ SumFunctionOnSet(f, S) \in Nat /\ SumFunctionOnSet(g, S) \in Nat
           /\ (\A x \in S : Divides(W, f[x], d))
                => d * SumFunctionOnSet(g, S) = W * SumFunctionOnSet(f, S)
<1>1. \A x \in S : f[x] \in Nat /\ W * f[x] \in Nat
  BY Products
<1>2. ASSUME NEW x \in S PROVE g[x] \in Nat
  BY PartNat
<1>3. SumFunctionOnSet(f, S) \in Nat /\ SumFunctionOnSet(g, S) \in Nat
  <2>1. (\A x \in S : f[x] \in Nat) /\ (\A x \in S : g[x] \in Nat)
    BY <1>1, <1>2
  <2>2. SumFunctionOnSet(f, S) \in Nat
    BY ONLY IsFiniteSet(S), <2>1, SumNat
  <2>3. SumFunctionOnSet(g, S) \in Nat
    BY ONLY IsFiniteSet(S), <2>1, SumNat
  <2>. QED  BY <2>2, <2>3
<1>4. ASSUME \A x \in S : Divides(W, f[x], d)
      PROVE  d * SumFunctionOnSet(g, S) = W * SumFunctionOnSet(f, S)
  <2>. DEFINE e == [x \in S |-> W * f[x]]
  <2>1. \A x \in S : e[x] = W * f[x] /\ e[x] = d * g[x]
    <3>1. ASSUME NEW x \in S PROVE W * f[x] = d * g[x]
      <4>1. PICK a \in Nat : a = W * f[x]
        BY <1>1
      <4>2. d * (a \div d) = a
        BY <1>4, <4>1, DivExact DEF Divides
      <4>. QED  BY <4>1, <4>2 DEF Part
    <3>. QED  BY <3>1
  <2>. HIDE DEF e
  <2>2. W \in Int /\ d \in Int
    OBVIOUS
  <2>3. \A x \in S : f[x] \in Int /\ e[x] = W * f[x]
    BY <1>1, <2>1
  <2>4. \A x \in S : g[x] \in Int /\ e[x] = d * g[x]
    BY <1>2, <2>1
  <2>5. SumFunctionOnSet(e, S) = W * SumFunctionOnSet(f, S)
    BY ONLY IsFiniteSet(S), <2>2, <2>3, SumTimes
  <2>6. SumFunctionOnSet(e, S) = d * SumFunctionOnSet(g, S)
    BY ONLY IsFiniteSet(S), <2>2, <2>4, SumTimes
  <2>. QED  BY <2>5, <2>6
<1>. QED  BY <1>2, <1>3, <1>4
----------------------------------------------------------------------------
(***************************************************************************)
(* Busy time and rates.                                                    *)
(***************************************************************************)
LEMMA LabelsFinite == IsFiniteSet(Labels) /\ Routes \subseteq Labels /\ "_idle" \in Labels
<1>1. IsFiniteSet({"_idle", "_unattributed"})
  <2>1. {"_idle", "_unattributed"} = {"_idle"} \union {"_unattributed"}
    OBVIOUS
  <2>2. IsFiniteSet({"_idle"}) /\ IsFiniteSet({"_unattributed"})
    BY FS_Singleton
  <2>. QED  BY <2>1, <2>2, FS_Union
<1>2. IsFiniteSet(Routes \union Categories)
  BY NamesAssumption, FS_Union
<1>. QED  BY <1>1, <1>2, FS_Union DEF Labels

LEMMA WeightsType ==
    ASSUME NEW took \in [Spans -> Nat]
    PROVE  Weights(took) \in [Services -> [Routes -> Nat]]
<1>. SUFFICES ASSUME NEW svc \in Services, NEW r \in Routes
              PROVE  Weights(took)[svc][r] \in Nat
  BY DEF Weights
<1>. DEFINE S == {x \in Received(took) : x.service = svc /\ BilledRoute(took, x) = r}
            g == [s \in S |-> took[s] * s.busy]
<1>1. S \subseteq Spans
  BY DEF Received
<1>2. IsFiniteSet(S)
  BY <1>1, SpansAssumption, FS_Subset
<1>3. \A s \in S : g[s] \in Nat
  <2>. SUFFICES ASSUME NEW s \in S PROVE took[s] * s.busy \in Nat
    OBVIOUS
  <2>1. took[s] \in Nat /\ s.busy \in Nat
    BY <1>1, SpansAssumption
  <2>. QED  BY <2>1, Products
<1>4. SumFunctionOnSet(g, S) \in Nat
  <2>. HIDE DEF g, S
  <2>. QED  BY <1>2, <1>3, SumNat
<1>5. Weights(took)[svc][r] = SumFunctionOnSet(g, S)
  BY DEF Weights, SumFunction
<1>. QED  BY <1>4, <1>5

LEMMA RatesType ==
    ASSUME NEW took \in [Spans -> Nat], NEW dt \in Nat \ {0},
           NEW r \in DOMAIN RouteRates(took, dt)
    PROVE  RouteRates(took, dt)[r] \in Nat
<1>. DEFINE S == {s \in Received(took) : s.root /\ s.route = r}
<1>1. S \subseteq Spans
  BY DEF Received
<1>2. IsFiniteSet(S) /\ \A s \in S : took[s] \in Nat
  BY <1>1, SpansAssumption, FS_Subset
<1>3. RouteRates(took, dt)[r] = (RateUnit * SumFunctionOnSet(took, S)) \div dt
  BY DEF RouteRates
<1>. HIDE DEF S
<1>4. PICK n \in Nat : n = SumFunctionOnSet(took, S)
  BY <1>2, SumNat
<1>5. PICK u \in Nat : u = RateUnit * n
  BY NamesAssumption, Products
<1>. QED  BY <1>3, <1>4, <1>5, DivNat

\* Who is traced was busy.
LEMMA TracedIs ==
    ASSUME NEW weights \in [Services -> [Routes -> Nat]], NEW svc \in Traced(weights)
    PROVE  /\ svc \in Services /\ weights[svc] \in [Routes -> Nat]
           /\ SumFunctionOnSet(weights[svc], Routes) \in Nat \ {0}
           /\ SumFunction(weights[svc]) = SumFunctionOnSet(weights[svc], Routes)
<1>1. PICK f : f = weights[svc]
  OBVIOUS
<1>2. svc \in Services /\ f \in [Routes -> Nat] /\ SumFunction(f) > 0
  BY <1>1 DEF Traced
<1>3. SumFunction(f) = SumFunctionOnSet(f, Routes)
  BY <1>2 DEF SumFunction
<1>4. SumFunctionOnSet(f, Routes) \in Nat
  BY <1>2, NamesAssumption, SumNat
<1>. QED  BY <1>1, <1>2, <1>3, <1>4
----------------------------------------------------------------------------
(***************************************************************************)
(* The bills: a service's watts go to its routes and to idle, and all of   *)
(* them do when no division leaves a remainder.                            *)
(***************************************************************************)
LEMMA PositiveNat == \A x \in Int : Positive(x) \in Nat
BY DEF Positive

LEMMA RawType ==
    ASSUME NEW fit, IsFit(fit), NEW model, IsModel(model)
    PROVE  /\ Raw(fit, model) \in [Routes -> Nat]
           /\ Positive(model.intercept) \in Nat
           /\ SumFunctionOnSet(Raw(fit, model), Routes) \in Nat
           /\ Explained(fit, model)
                = SumFunctionOnSet(Raw(fit, model), Routes) + Positive(model.intercept)
<1>1. ASSUME NEW r \in Routes PROVE Raw(fit, model)[r] \in Nat
  <2>1. CASE r \in DOMAIN model.coefs /\ r \in DOMAIN fit.rates
    <3>1. PICK a \in Nat : a = Positive(model.coefs[r])
      BY <2>1, PositiveNat DEF IsModel
    <3>2. PICK b \in Nat : b = fit.rates[r]
      BY <2>1 DEF IsFit
    <3>3. Raw(fit, model)[r] = a * b
      BY <2>1, <3>1, <3>2 DEF Raw
    <3>. QED  BY <3>3, Products
  <2>2. CASE ~(r \in DOMAIN model.coefs /\ r \in DOMAIN fit.rates)
    BY <2>2 DEF Raw
  <2>. QED  BY <2>1, <2>2
<1>2. PICK raw : raw = Raw(fit, model)
  OBVIOUS
<1>3. raw \in [Routes -> Nat]
  BY <1>1, <1>2 DEF Raw
<1>4. Positive(model.intercept) \in Nat
  BY PositiveNat DEF IsModel
<1>5. SumFunctionOnSet(raw, Routes) \in Nat
  BY <1>3, NamesAssumption, SumNat
<1>6. SumFunction(raw) = SumFunctionOnSet(raw, Routes)
  BY <1>3 DEF SumFunction
<1>. QED  BY <1>2, <1>3, <1>4, <1>5, <1>6 DEF Explained

\* The watts that scaling gives to the routes and to idle.
LEMMA ScaledIs ==
    ASSUME NEW fit, IsFit(fit), NEW model, IsModel(model), NEW W \in Nat,
           Explained(fit, model) > 0
    PROVE  /\ Scaled(W, fit, model) \in [Routes -> Nat] /\ Idle(W, fit, model) \in Nat
           /\ \A r \in Routes \ Used(fit, model) : Scaled(W, fit, model)[r] = 0
           /\ SumFunctionOnSet(Scaled(W, fit, model), Routes) \in Nat
           /\ SumFunction(Scaled(W, fit, model)) = SumFunctionOnSet(Scaled(W, fit, model), Routes)
           /\ /\ \A r \in Routes : (W * Raw(fit, model)[r]) % Explained(fit, model) = 0
              /\ (W * Positive(model.intercept)) % Explained(fit, model) = 0
              => SumFunctionOnSet(Scaled(W, fit, model), Routes) + Idle(W, fit, model) = W
<1>1. PICK raw : raw = Raw(fit, model)
  OBVIOUS
<1>2. PICK i \in Nat : i = Positive(model.intercept)
  BY RawType
<1>3. PICK n \in Nat : n = SumFunctionOnSet(raw, Routes)
  BY <1>1, RawType
<1>4. PICK d \in Nat \ {0} : d = Explained(fit, model)
  <2>1. Explained(fit, model) = n + i
    BY <1>1, <1>2, <1>3, RawType
  <2>. QED  BY <2>1
<1>5. raw \in [Routes -> Nat] /\ d = n + i
  BY <1>1, <1>2, <1>3, <1>4, RawType
<1>6. PICK scaled : scaled = Scaled(W, fit, model)
  OBVIOUS
<1>7. scaled = [r \in Routes |-> (W * raw[r]) \div d]
  BY <1>1, <1>4, <1>6 DEF Scaled
<1>8. \A r \in Routes : raw[r] \in Nat /\ scaled[r] = Part(W, raw[r], d)
  BY <1>5, <1>7 DEF Part
<1>9. /\ \A r \in Routes : scaled[r] \in Nat
      /\ SumFunctionOnSet(scaled, Routes) \in Nat
      /\ (\A r \in Routes : Divides(W, raw[r], d))
           => d * SumFunctionOnSet(scaled, Routes) = W * SumFunctionOnSet(raw, Routes)
  <2>1. IsFiniteSet(Routes)
    BY NamesAssumption
  <2>2. W \in Nat /\ d \in Nat \ {0}
    OBVIOUS
  <2>3. ASSUME NEW r \in Routes PROVE scaled[r] \in Nat
    BY <1>8, PartNat
  <2>4. SumFunctionOnSet(scaled, Routes) \in Nat
    BY ONLY <2>1, <2>2, <1>8, ShareOut
  <2>5. ASSUME \A r \in Routes : Divides(W, raw[r], d)
        PROVE  d * SumFunctionOnSet(scaled, Routes) = W * SumFunctionOnSet(raw, Routes)
    BY ONLY <2>1, <2>2, <2>5, <1>8, ShareOut
  <2>. QED  BY <2>3, <2>4, <2>5
<1>10. scaled \in [Routes -> Nat] /\ SumFunction(scaled) = SumFunctionOnSet(scaled, Routes)
  BY <1>7, <1>9 DEF SumFunction
<1>11. ASSUME NEW r \in Routes \ Used(fit, model) PROVE scaled[r] = 0
  <2>1. raw[r] = 0
    BY <1>1, <1>5, <1>11 DEF Used
  <2>2. W * 0 = 0
    BY Products
  <2>. QED  BY <1>8, <2>1, <2>2, ZeroDiv DEF Part
<1>12. PICK wi \in Nat : wi = W * i
  BY Products
<1>13. Idle(W, fit, model) = wi \div d /\ wi \div d \in Nat
  BY <1>2, <1>4, <1>12, DivNat DEF Idle
<1>14. ASSUME \A r \in Routes : (W * raw[r]) % d = 0, wi % d = 0
       PROVE  SumFunctionOnSet(scaled, Routes) + (wi \div d) = W
  <2>1. PICK t, q \in Nat : t = SumFunctionOnSet(scaled, Routes) /\ q = wi \div d
    BY <1>9, <1>13
  <2>2. d * t = W * n
    <3>1. \A r \in Routes : Divides(W, raw[r], d)
      BY <1>14 DEF Divides
    <3>. QED  BY <1>3, <1>9, <2>1, <3>1
  <2>3. d * q = W * i
    BY <1>12, <1>14, <2>1, DivExact
  <2>4. d * (t + q) = d * t + d * q
    BY Distributes
  <2>5. W * (n + i) = W * n + W * i
    BY Distributes
  <2>6. d * (t + q) = d * W
    <3>1. W * d = d * W
      BY Products
    <3>. QED  BY <1>5, <2>2, <2>3, <2>4, <2>5, <3>1
  <2>7. t + q = W
    BY <2>6, Cancel
  <2>. QED  BY <2>1, <2>7
<1>. QED  BY <1>1, <1>2, <1>4, <1>6, <1>9, <1>10, <1>11, <1>12, <1>13, <1>14

\* The sum of one amount for each of a set.
LEMMA SumSame ==
    ASSUME NEW S, IsFiniteSet(S), NEW f, NEW q \in Nat, \A x \in S : f[x] = q
    PROVE  SumFunctionOnSet(f, S) = q * Cardinality(S)
<1>1. PICK n \in Nat : n = Cardinality(S)
  BY FS_CardinalityType
<1>2. q \in Int /\ \A x \in S : f[x] \in Int /\ q <= f[x] /\ f[x] <= q
  OBVIOUS
<1>3. q * Cardinality(S) <= SumFunctionOnSet(f, S)
  BY <1>2, SumAtLeast
<1>4. SumFunctionOnSet(f, S) <= q * Cardinality(S)
  BY <1>2, SumAtMost
<1>5. SumFunctionOnSet(f, S) \in Int /\ q * n \in Int
  BY <1>2, SumOut, Products
<1>. QED  BY <1>1, <1>3, <1>4, <1>5

\* A bill is one of watts, and all the watts of the service are on it.
Bills(bill, W) == SumFunctionOnSet(bill.routes, Routes) + bill.idle = W

\* Idle in equal parts, for the routes that are used.
LEMMA EqualParts ==
    ASSUME NEW used \in SUBSET Routes, used # {}, NEW idle \in Nat, NEW share,
           share = [r \in Routes |-> IF r \in used THEN idle \div Cardinality(used) ELSE 0]
    PROVE  /\ \A r \in Routes : share[r] \in Nat
           /\ idle % Cardinality(used) = 0 => SumFunctionOnSet(share, Routes) = idle
<1>1. IsFiniteSet(Routes) /\ IsFiniteSet(used)
  BY NamesAssumption, FS_Subset
<1>2. PICK k \in Nat \ {0} : k = Cardinality(used)
  BY <1>1, FS_CardinalityType, FS_EmptySet
<1>3. PICK q \in Nat : q = idle \div k
  BY DivNat
<1>4. /\ \A r \in used : share[r] = q
      /\ \A r \in Routes \ used : share[r] = 0
  BY <1>2, <1>3
<1>5. \A r \in Routes : share[r] \in Nat
  BY <1>3, <1>4
<1>6. ASSUME idle % k = 0 PROVE SumFunctionOnSet(share, Routes) = idle
  <2>1. \A r \in used : share[r] \in Int /\ share[r] = share[r]
    BY <1>5
  <2>2. SumFunctionOnSet(share, Routes) = SumFunctionOnSet(share, used)
    BY <1>1, <1>4, <2>1, SumZeros
  <2>3. SumFunctionOnSet(share, used) = q * k
    BY <1>1, <1>2, <1>4, SumSame
  <2>4. k * q = idle
    BY <1>3, <1>6, DivExact
  <2>5. q * k = k * q
    BY Products
  <2>. QED  BY <2>2, <2>3, <2>4, <2>5
<1>. QED  BY <1>2, <1>5, <1>6

\* Idle in proportion to the watts of the routes.
LEMMA ProportionalParts ==
    ASSUME NEW scaled, \A r \in Routes : scaled[r] \in Nat, NEW routed \in Nat \ {0},
           routed = SumFunctionOnSet(scaled, Routes), NEW idle \in Nat, NEW share,
           share = [r \in Routes |-> (idle * scaled[r]) \div routed]
    PROVE  /\ \A r \in Routes : share[r] \in Nat
           /\ (\A r \in Routes : (idle * scaled[r]) % routed = 0)
                => SumFunctionOnSet(share, Routes) = idle
<1>1. IsFiniteSet(Routes)
  BY NamesAssumption
<1>2. \A r \in Routes : scaled[r] \in Nat /\ share[r] = Part(idle, scaled[r], routed)
  BY DEF Part
<1>3. ASSUME NEW r \in Routes PROVE share[r] \in Nat
  BY <1>2, PartNat
<1>4. ASSUME \A r \in Routes : (idle * scaled[r]) % routed = 0
      PROVE  SumFunctionOnSet(share, Routes) = idle
  <2>1. \A r \in Routes : Divides(idle, scaled[r], routed)
    BY <1>4 DEF Divides
  <2>2. routed * SumFunctionOnSet(share, Routes) = idle * SumFunctionOnSet(scaled, Routes)
    BY ONLY <1>1, <1>2, <2>1, idle \in Nat, routed \in Nat \ {0}, ShareOut
  <2>3. PICK t \in Nat : t = SumFunctionOnSet(share, Routes)
    BY ONLY <1>1, <1>3, SumNat
  <2>4. routed * t = idle * routed /\ idle * routed = routed * idle
    BY <2>2, <2>3, Products
  <2>5. t = idle
    <3>1. t \in Int /\ idle \in Int /\ routed \in Nat \ {0} /\ routed * t = routed * idle
      BY <2>4
    <3>. QED  BY ONLY <3>1, Cancel
  <2>. QED  BY <2>3, <2>5
<1>. QED  BY <1>3, <1>4

LEMMA FittedBillIs ==
    ASSUME NEW fit, IsFit(fit), NEW model, IsModel(model), NEW W \in Nat,
           Explained(fit, model) > 0
    PROVE  /\ IsBill(FittedBill(W, fit, model))
           /\ ExactFit(W, fit, model) => Bills(FittedBill(W, fit, model), W)
<1>1. PICK scaled, used, routed :
        scaled = Scaled(W, fit, model) /\ used = Used(fit, model) /\ routed = SumFunction(scaled)
  OBVIOUS
<1>2. PICK idle \in Nat : idle = Idle(W, fit, model)
  BY ScaledIs
<1>3. /\ scaled \in [Routes -> Nat] /\ routed \in Nat
      /\ \A r \in Routes \ used : scaled[r] = 0
      /\ routed = SumFunctionOnSet(scaled, Routes)
  BY <1>1, ScaledIs
<1>4. ASSUME ExactFit(W, fit, model) PROVE routed + idle = W
  BY <1>1, <1>2, <1>3, <1>4, ScaledIs DEF ExactFit
<1>5. PICK bill : bill = FittedBill(W, fit, model)
  OBVIOUS
<1>6. used \in SUBSET Routes /\ IsFiniteSet(Routes)
  BY <1>1, NamesAssumption DEF Used
\* The routes take what scaling gives them and a share of idle.
<1>7. ASSUME NEW share, \A r \in Routes : share[r] \in Nat,
             bill = [routes |-> [r \in Routes |-> scaled[r] + share[r]], idle |-> 0]
      PROVE  /\ IsBill(bill)
             /\ ExactFit(W, fit, model) /\ SumFunctionOnSet(share, Routes) = idle
                  => Bills(bill, W)
  <2>1. \A r \in Routes : /\ scaled[r] \in Int /\ share[r] \in Int
                          /\ bill.routes[r] = scaled[r] + share[r]
    BY <1>3, <1>7
  <2>2. SumFunctionOnSet(bill.routes, Routes)
          = SumFunctionOnSet(scaled, Routes) + SumFunctionOnSet(share, Routes)
    BY <1>6, <2>1, SumPlus
  <2>3. bill.routes \in [Routes -> Nat] /\ bill.idle = 0
    BY <1>3, <1>7
  <2>4. ASSUME ExactFit(W, fit, model), SumFunctionOnSet(share, Routes) = idle
        PROVE  Bills(bill, W)
    BY <1>3, <1>4, <2>2, <2>3, <2>4 DEF Bills
  <2>. QED  BY <2>3, <2>4 DEF IsBill
<1>8. CASE fit.policy = "equal" /\ used # {}
  <2>1. PICK s : s = [r \in Routes |-> IF r \in used THEN idle \div Cardinality(used) ELSE 0]
    OBVIOUS
  <2>2. /\ \A r \in Routes : s[r] \in Nat
        /\ idle % Cardinality(used) = 0 => SumFunctionOnSet(s, Routes) = idle
    BY <1>6, <1>8, <2>1, EqualParts
  <2>3. bill = [routes |-> [r \in Routes |->
                   IF r \in used THEN scaled[r] + idle \div Cardinality(used) ELSE 0],
                idle |-> 0]
    BY <1>1, <1>2, <1>5, <1>8 DEF FittedBill
  <2>4. ASSUME NEW r \in Routes
        PROVE  (IF r \in used THEN scaled[r] + idle \div Cardinality(used) ELSE 0)
                 = scaled[r] + s[r]
    BY <1>3, <2>1
  <2>5. bill = [routes |-> [r \in Routes |-> scaled[r] + s[r]], idle |-> 0]
    BY <2>3, <2>4
  <2>6. ExactFit(W, fit, model) => idle % Cardinality(used) = 0
    BY <1>1, <1>2, <1>8 DEF ExactFit
  <2>. QED  BY <1>5, <1>7, <2>2, <2>5, <2>6
<1>9. CASE fit.policy = "proportional" /\ routed > 0
  <2>1. PICK s : s = [r \in Routes |-> (idle * scaled[r]) \div routed]
    OBVIOUS
  <2>2. /\ \A r \in Routes : s[r] \in Nat
        /\ (\A r \in Routes : (idle * scaled[r]) % routed = 0)
             => SumFunctionOnSet(s, Routes) = idle
    BY <1>3, <1>9, <2>1, ProportionalParts
  <2>3. bill = [routes |-> [r \in Routes |-> scaled[r] + (idle * scaled[r]) \div routed],
                idle |-> 0]
    BY <1>1, <1>2, <1>5, <1>9 DEF FittedBill
  <2>5. bill = [routes |-> [r \in Routes |-> scaled[r] + s[r]], idle |-> 0]
    BY <2>1, <2>3
  <2>6. ExactFit(W, fit, model) => \A r \in Routes : (idle * scaled[r]) % routed = 0
    BY <1>1, <1>2, <1>9 DEF ExactFit
  <2>. QED  BY <1>5, <1>7, <2>2, <2>5, <2>6
<1>10. CASE ~(fit.policy = "equal" /\ used # {}) /\ ~(fit.policy = "proportional" /\ routed > 0)
  <2>1. bill = [routes |-> scaled, idle |-> idle]
    BY <1>1, <1>2, <1>5, <1>10 DEF FittedBill
  <2>. QED  BY <1>2, <1>3, <1>4, <1>5, <2>1 DEF IsBill, Bills
<1>. QED  BY <1>8, <1>9, <1>10

LEMMA BusyBillIs ==
    ASSUME NEW busy \in [Routes -> Nat], NEW W \in Nat, SumFunction(busy) \in Nat \ {0},
           SumFunction(busy) = SumFunctionOnSet(busy, Routes)
    PROVE  /\ IsBill(BusyBill(W, busy))
           /\ ExactBusy(W, busy) => Bills(BusyBill(W, busy), W)
<1>1. PICK d \in Nat \ {0} : d = SumFunction(busy)
  OBVIOUS
<1>2. PICK g : g = BusyBill(W, busy).routes
  OBVIOUS
<1>3. /\ g = [r \in Routes |-> (W * busy[r]) \div d]
      /\ BusyBill(W, busy).idle = 0
  BY <1>1, <1>2 DEF BusyBill
<1>4. \A r \in Routes : busy[r] \in Nat /\ g[r] = Part(W, busy[r], d)
  BY <1>3 DEF Part
<1>5. ASSUME NEW r \in Routes PROVE g[r] \in Nat
  BY <1>4, PartNat
<1>6. g \in [Routes -> Nat]
  BY <1>3, <1>5
<1>7. ASSUME ExactBusy(W, busy) PROVE SumFunctionOnSet(g, Routes) = W
  <2>1. \A r \in Routes : Divides(W, busy[r], d)
    <3>1. \A r \in Routes : (W * busy[r]) % d = 0
      BY ONLY <1>1, <1>7, Zenon DEF ExactBusy
    <3>. QED  BY ONLY <3>1, Zenon DEF Divides
  <2>2. IsFiniteSet(Routes)
    BY NamesAssumption
  <2>3. d * SumFunctionOnSet(g, Routes) = W * SumFunctionOnSet(busy, Routes)
    BY ONLY <1>4, <2>1, <2>2, W \in Nat, d \in Nat \ {0}, ShareOut, SMTT(20)
  <2>4. PICK t \in Nat : t = SumFunctionOnSet(g, Routes)
    BY ONLY <1>5, <2>2, SumNat
  <2>5. d * t = W * d /\ W * d = d * W
    BY <1>1, <2>3, <2>4, Products
  <2>6. t = W
    BY <2>5, Cancel
  <2>. QED  BY <2>4, <2>6
<1>. QED  BY <1>2, <1>3, <1>6, <1>7 DEF IsBill, Bills

LEMMA ServiceWattsNat ==
    ASSUME NEW w, IsWatts(w), NEW svc
    PROVE  ServiceWatts(svc, w) \in Nat
<1>1. IsFiniteSet(Claims(svc, w)) /\ \A pod \in Claims(svc, w) : w[pod] \in Nat
  BY FS_Subset DEF IsWatts, Claims
<1>. QED  BY <1>1, SumNat DEF ServiceWatts

LEMMA BillIs ==
    ASSUME NEW weights \in [Services -> [Routes -> Nat]], NEW w, IsWatts(w),
           NEW fit, IsFit(fit), NEW svc \in Traced(weights)
    PROVE  /\ IsBill(Bill(svc, weights, w, fit))
           /\ Exact(svc, weights, w, fit)
                => Bills(Bill(svc, weights, w, fit), ServiceWatts(svc, w))
<1>1. PICK W \in Nat : W = ServiceWatts(svc, w)
  BY ServiceWattsNat
<1>2. CASE UsesModel(fit, svc)
  <2>1. PICK model : model = fit.models[svc]
    OBVIOUS
  <2>2. IsModel(model) /\ Explained(fit, model) > 0
    BY <1>2, <2>1 DEF UsesModel, IsFit
  <2>3. Bill(svc, weights, w, fit) = FittedBill(W, fit, model)
    BY <1>1, <1>2, <2>1 DEF Bill
  <2>4. Exact(svc, weights, w, fit) => ExactFit(W, fit, model)
    BY <1>1, <1>2, <2>1 DEF Exact
  <2>. QED  BY <1>1, <2>2, <2>3, <2>4, FittedBillIs
<1>3. CASE ~UsesModel(fit, svc)
  <2>1. PICK busy : busy = weights[svc]
    OBVIOUS
  <2>2. /\ busy \in [Routes -> Nat] /\ SumFunction(busy) \in Nat \ {0}
        /\ SumFunction(busy) = SumFunctionOnSet(busy, Routes)
    BY <2>1, TracedIs
  <2>3. Bill(svc, weights, w, fit) = BusyBill(W, busy)
    BY <1>1, <1>3, <2>1 DEF Bill
  <2>4. Exact(svc, weights, w, fit) => ExactBusy(W, busy)
    BY <1>1, <1>3, <2>1 DEF Exact
  <2>. QED  BY <1>1, <2>2, <2>3, <2>4, BusyBillIs
<1>. QED  BY <1>2, <1>3

\* The labels charge what is on the bill, whatever names they share.
LEMMA ChargedSum ==
    ASSUME NEW bill, IsBill(bill), NEW c, c = [l \in Labels |-> Charged(bill, l)]
    PROVE  /\ c \in [Labels -> Nat]
           /\ SumFunctionOnSet(c, Labels) = SumFunctionOnSet(bill.routes, Routes) + bill.idle
<1>. DEFINE f == [l \in Labels |-> IF l \in Routes THEN bill.routes[l] ELSE 0]
            g == [l \in Labels |-> IF l = "_idle" THEN bill.idle ELSE 0]
<1>1. IsFiniteSet(Labels) /\ Routes \in SUBSET Labels /\ "_idle" \in Labels
  BY LabelsFinite
<1>2. \A l \in Labels : f[l] \in Nat /\ g[l] \in Nat /\ c[l] = f[l] + g[l]
  BY DEF IsBill, Charged
<1>3. /\ \A r \in Routes : bill.routes[r] \in Int /\ f[r] = bill.routes[r]
      /\ \A l \in Labels \ Routes : f[l] = 0
  BY <1>1 DEF IsBill
<1>4. g["_idle"] = bill.idle /\ g["_idle"] \in Int /\ \A l \in Labels \ {"_idle"} : g[l] = 0
  BY <1>1 DEF IsBill
<1>. HIDE DEF f, g
<1>5. SumFunctionOnSet(f, Labels) = SumFunctionOnSet(bill.routes, Routes)
  BY <1>1, <1>3, SumZeros
<1>6. SumFunctionOnSet(g, Labels) = bill.idle
  BY <1>1, <1>4, SumAtOne
<1>7. SumFunctionOnSet(c, Labels) = SumFunctionOnSet(f, Labels) + SumFunctionOnSet(g, Labels)
  <2>1. \A l \in Labels : f[l] \in Int /\ g[l] \in Int /\ c[l] = f[l] + g[l]
    BY <1>2
  <2>. QED  BY <1>1, <2>1, SumPlus
<1>8. c \in [Labels -> Nat]
  BY <1>2
<1>. QED  BY <1>5, <1>6, <1>7, <1>8
----------------------------------------------------------------------------
(***************************************************************************)
(* The labels: what the pods of resolved services draw goes on the bills,  *)
(* what the others draw goes to the buckets.                               *)
(***************************************************************************)
\* No pod belongs to two services: no name of a service extends another's.
OneClaim(w) ==
    \A pod \in DOMAIN w : \A a, b \in Services : Matches(a, pod) /\ Matches(b, pod) => a = b

Buckets(tags) == \A pod \in DOMAIN tags : tags[pod] \in Categories

Claimed(weights, w) == UNION {Claims(svc, w) : svc \in Resolved(weights, w)}

LEMMA ClaimedSum ==
    ASSUME NEW weights, NEW w, IsWatts(w), OneClaim(w), NEW v,
           \A svc \in Resolved(weights, w) : v[svc] = ServiceWatts(svc, w)
    PROVE  SumFunctionOnSet(v, Resolved(weights, w))
             = SumFunctionOnSet(w, Claimed(weights, w))
<1>. DEFINE owner == [pod \in Claimed(weights, w) |->
                        CHOOSE svc \in Resolved(weights, w) : pod \in Claims(svc, w)]
<1>1. PICK K : K = Resolved(weights, w)
  OBVIOUS
<1>2. PICK L : L = Claimed(weights, w)
  OBVIOUS
<1>3. IsFiniteSet(K) /\ K \subseteq Services
  BY <1>1, NamesAssumption, FS_Subset DEF Resolved, Traced
<1>4. L \subseteq DOMAIN w /\ IsFiniteSet(L) /\ \A pod \in L : w[pod] \in Int
  BY <1>2, FS_Subset DEF IsWatts, Claimed, Claims
<1>5. ASSUME NEW pod \in L PROVE owner[pod] \in K /\ pod \in Claims(owner[pod], w)
  BY <1>1, <1>2 DEF Claimed
<1>6. ASSUME NEW svc \in K PROVE Share(L, owner, svc) = Claims(svc, w)
  <2>1. ASSUME NEW pod \in Claims(svc, w) PROVE pod \in Share(L, owner, svc)
    <3>1. pod \in L
      BY <1>1, <1>2 DEF Claimed
    <3>2. owner[pod] \in Services /\ pod \in Claims(owner[pod], w)
      BY <1>3, <1>5, <3>1
    <3>. HIDE DEF owner
    <3>3. owner[pod] = svc
      BY <1>3, <3>2 DEF Claims, OneClaim
    <3>. QED  BY <3>1, <3>3 DEF Share
  <2>2. ASSUME NEW pod \in Share(L, owner, svc) PROVE pod \in Claims(svc, w)
    BY <1>5 DEF Share
  <2>. QED  BY <2>1, <2>2
<1>7. Shared(L, owner, K) = L
  BY <1>5 DEF Shared
<1>. HIDE DEF owner
<1>8. \A svc \in K : v[svc] = SumFunctionOnSet(w, Share(L, owner, svc))
  BY <1>1, <1>6 DEF ServiceWatts
<1>9. SumFunctionOnSet(v, K) = SumFunctionOnSet(w, Shared(L, owner, K))
  BY <1>3, <1>4, <1>8, SumShares
<1>. QED  BY <1>1, <1>2, <1>7, <1>9

\* The watts of unclaimed pods in a bucket.
Free(weights, w, tags, l) == {pod \in Unclaimed(weights, w) : Bucket(tags, pod) = l}

LEMMA FreeSum ==
    ASSUME NEW weights, NEW w, IsWatts(w), NEW tags, Buckets(tags), NEW x,
           \A l \in Labels : x[l] = SumFunctionOnSet(w, Free(weights, w, tags, l))
    PROVE  /\ \A l \in Labels : x[l] \in Nat
           /\ SumFunctionOnSet(x, Labels) = SumFunctionOnSet(w, Unclaimed(weights, w))
<1>1. PICK F : F = Unclaimed(weights, w)
  OBVIOUS
<1>2. F \subseteq DOMAIN w /\ IsFiniteSet(F) /\ \A pod \in F : w[pod] \in Nat
  BY <1>1, FS_Subset DEF IsWatts, Unclaimed
<1>3. ASSUME NEW l \in Labels PROVE x[l] \in Nat
  <2>1. PICK P : P = Free(weights, w, tags, l)
    OBVIOUS
  <2>2. IsFiniteSet(P) /\ \A pod \in P : w[pod] \in Nat
    BY <1>1, <1>2, <2>1, FS_Subset DEF Free
  <2>. QED  BY <2>1, <2>2, SumNat
<1>. DEFINE h == [pod \in F |-> Bucket(tags, pod)]
<1>4. \A pod \in F : h[pod] \in Labels
  BY DEF Bucket, Buckets, Labels
<1>5. Shared(F, h, Labels) = F
  BY <1>4 DEF Shared
<1>6. \A l \in Labels : Share(F, h, l) = Free(weights, w, tags, l)
  BY <1>1 DEF Share, Free
<1>. HIDE DEF h
<1>7. \A l \in Labels : x[l] = SumFunctionOnSet(w, Share(F, h, l))
  BY <1>6
<1>8. IsFiniteSet(Labels) /\ \A pod \in F : w[pod] \in Int
  BY <1>2, LabelsFinite
<1>9. SumFunctionOnSet(x, Labels) = SumFunctionOnSet(w, Shared(F, h, Labels))
  BY <1>2, <1>7, <1>8, SumShares
<1>. QED  BY <1>1, <1>3, <1>5, <1>9

LEMMA RouteWattsIs ==
    ASSUME NEW weights \in [Services -> [Routes -> Nat]], NEW w, IsWatts(w),
           NEW tags, Buckets(tags), NEW fit, IsFit(fit)
    PROVE  /\ RouteWatts(weights, w, tags, fit) \in [Labels -> Nat]
           /\ OneClaim(w)
                /\ (\A svc \in Resolved(weights, w) : Exact(svc, weights, w, fit))
              => SumFunctionOnSet(RouteWatts(weights, w, tags, fit), Labels)
                   = SumFunctionOnSet(w, DOMAIN w)
<1>1. PICK K : K = Resolved(weights, w)
  OBVIOUS
<1>2. IsFiniteSet(K) /\ IsFiniteSet(Labels) /\ K \subseteq Traced(weights)
  BY <1>1, NamesAssumption, LabelsFinite, FS_Subset DEF Resolved, Traced
<1>3. PICK bills : bills = [svc \in K |-> Bill(svc, weights, w, fit)]
  OBVIOUS
<1>4. ASSUME NEW svc \in K PROVE IsBill(bills[svc])
  BY <1>2, <1>3, BillIs
<1>5. PICK a : a = [l \in Labels |-> [svc \in K |-> Charged(bills[svc], l)]]
  OBVIOUS
<1>6. PICK b : b = [svc \in K |-> [l \in Labels |-> Charged(bills[svc], l)]]
  OBVIOUS
<1>7. PICK u : u = [l \in Labels |-> SumFunctionOnSet(a[l], K)]
  OBVIOUS
<1>8. PICK x : x = [l \in Labels |-> SumFunctionOnSet(w, Free(weights, w, tags, l))]
  OBVIOUS
<1>9. PICK paid : paid = RouteWatts(weights, w, tags, fit)
  OBVIOUS
<1>10. paid = [l \in Labels |-> u[l] + x[l]]
  <2>1. ASSUME NEW l \in Labels
        PROVE  /\ SumFunction([svc \in DOMAIN bills |-> Charged(bills[svc], l)]) = u[l]
               /\ SumFunctionOnSet(w, {pod \in Unclaimed(weights, w) :
                                             Bucket(tags, pod) = l}) = x[l]
    <3>1. [svc \in DOMAIN bills |-> Charged(bills[svc], l)] = a[l] /\ DOMAIN a[l] = K
      BY <1>3, <1>5
    <3>2. SumFunction([svc \in DOMAIN bills |-> Charged(bills[svc], l)])
            = SumFunctionOnSet(a[l], K)
      BY <3>1 DEF SumFunction
    <3>. QED  BY <1>7, <1>8, <3>2 DEF Free
  <2>. QED  BY <1>1, <1>3, <1>9, <2>1 DEF RouteWatts
<1>11. ASSUME NEW svc \in K
       PROVE  /\ b[svc] \in [Labels -> Nat]
              /\ SumFunctionOnSet(b[svc], Labels)
                   = SumFunctionOnSet(bills[svc].routes, Routes) + bills[svc].idle
  <2>1. b[svc] = [l \in Labels |-> Charged(bills[svc], l)]
    BY <1>6
  <2>. QED  BY <1>4, <2>1, ChargedSum
<1>12. \A l \in Labels : \A svc \in K : a[l][svc] \in Nat /\ a[l][svc] = b[svc][l]
  BY <1>5, <1>6, <1>11
<1>13. ASSUME NEW l \in Labels PROVE u[l] \in Nat
  BY <1>2, <1>7, <1>12, SumNat
<1>14. (\A l \in Labels : x[l] \in Nat)
       /\ SumFunctionOnSet(x, Labels) = SumFunctionOnSet(w, Unclaimed(weights, w))
  BY <1>8, FreeSum
<1>15. paid \in [Labels -> Nat]
  BY <1>10, <1>13, <1>14
<1>16. ASSUME OneClaim(w),
              \A svc \in Resolved(weights, w) : Exact(svc, weights, w, fit)
       PROVE  SumFunctionOnSet(paid, Labels) = SumFunctionOnSet(w, DOMAIN w)
  <2>1. PICK v : v = [svc \in K |-> SumFunctionOnSet(b[svc], Labels)]
    OBVIOUS
  <2>2. ASSUME NEW svc \in K PROVE v[svc] = ServiceWatts(svc, w)
    <3>1. Bills(Bill(svc, weights, w, fit), ServiceWatts(svc, w))
      BY <1>1, <1>2, <1>16, BillIs
    <3>. QED  BY <1>3, <1>11, <2>1, <3>1 DEF Bills
  <2>3. SumFunctionOnSet(u, Labels) = SumFunctionOnSet(v, K)
    <3>1. Transposed(a, b, Labels, K)
      BY <1>12 DEF Transposed
    <3>2. RowSums(u, a, Labels, K) /\ RowSums(v, b, K, Labels)
      BY <1>7, <2>1 DEF RowSums
    <3>3. IsFiniteSet(Labels) /\ IsFiniteSet(K)
      BY <1>2
    <3>. QED  BY ONLY <3>1, <3>2, <3>3, SumSwap
  <2>4. SumFunctionOnSet(v, K) = SumFunctionOnSet(w, Claimed(weights, w))
    BY <1>1, <1>16, <2>2, ClaimedSum
  <2>5. SumFunctionOnSet(paid, Labels) = SumFunctionOnSet(u, Labels) + SumFunctionOnSet(x, Labels)
    <3>1. \A l \in Labels : u[l] \in Int /\ x[l] \in Int /\ paid[l] = u[l] + x[l]
      BY <1>10, <1>13, <1>14
    <3>. QED  BY ONLY <1>2, <3>1, SumPlus
  <2>6. PICK A, B : A = Claimed(weights, w) /\ B = Unclaimed(weights, w)
    OBVIOUS
  <2>7. /\ A \union B = DOMAIN w /\ A \intersect B = {}
        /\ IsFiniteSet(A) /\ IsFiniteSet(B)
        /\ \A pod \in A \union B : w[pod] \in Int
    <3>1. A \subseteq DOMAIN w /\ B = DOMAIN w \ A
      BY <2>6 DEF Claimed, Unclaimed, Claims
    <3>2. A \union B = DOMAIN w /\ A \intersect B = {}
      BY <3>1
    <3>3. IsFiniteSet(A) /\ IsFiniteSet(B)
      BY <3>1, <3>2, FS_Subset DEF IsWatts
    <3>4. \A pod \in A \union B : w[pod] \in Int
      BY <3>2 DEF IsWatts
    <3>. QED  BY <3>2, <3>3, <3>4
  <2>8. SumFunctionOnSet(w, DOMAIN w)
          = SumFunctionOnSet(w, A) + SumFunctionOnSet(w, B)
    BY <2>7, SumUnion
  <2>. QED  BY <1>14, <2>3, <2>4, <2>5, <2>6, <2>8
<1>. QED  BY <1>9, <1>15, <1>16
----------------------------------------------------------------------------
(***************************************************************************)
(* The types.  What a tick has read stays what the scenario may return,    *)
(* and a tick under way has measured the seconds it lasts.                 *)
(***************************************************************************)
Ticking ==
    /\ scenario \in Scenarios
    /\ stage # "asleep" => elapsed \in scenario.elapsed /\ ticks < scenario.ticks
    /\ stage = "asleep" => \A s \in Spans : batch[s] = 0
    /\ \A s \in Spans \ scenario.spans : sent[s] = 0

TypeInv == TypeOK /\ Ticking

LEMMA NothingRead == DOMAIN << >> = {}
OBVIOUS

LEMMA NothingReadIs == IsWatts(<< >>) /\ Buckets(<< >>)
BY NothingRead, FS_EmptySet DEF IsWatts, Buckets

LEMMA ReadingIs ==
    ASSUME NEW s \in Scenarios, NEW w \in s.readings \union {<< >>}
    PROVE  /\ IsWatts(w)
           /\ SumFunction(w) = SumFunctionOnSet(w, DOMAIN w) /\ SumFunction(w) \in Nat
<1>1. IsWatts(w)
  <2>1. CASE w \in s.readings
    BY <2>1, ScenariosAssumption DEF IsWatts
  <2>. QED  BY <2>1, NothingReadIs
<1>2. SumFunction(w) = SumFunctionOnSet(w, DOMAIN w)
  BY DEF SumFunction
<1>3. SumFunctionOnSet(w, DOMAIN w) \in Nat
  BY <1>1, SumNat DEF IsWatts
<1>. QED  BY <1>1, <1>2, <1>3

LEMMA ModelsAre ==
    ASSUME NEW s \in Scenarios, NEW f \in s.models \union {<< >>},
           NEW took \in [Spans -> Nat], NEW e \in s.elapsed, NEW p
    PROVE  IsFit([models |-> f, rates |-> RouteRates(took, e), policy |-> p])
<1>1. ASSUME NEW svc \in DOMAIN f PROVE IsModel(f[svc])
  <2>1. CASE f \in s.models
    BY <2>1, ScenariosAssumption DEF IsModel
  <2>. QED  BY <2>1, NothingRead
<1>2. e \in Nat \ {0}
  BY ScenariosAssumption
<1>3. \A r \in DOMAIN RouteRates(took, e) : RouteRates(took, e)[r] \in Nat
  BY <1>2, RatesType
<1>. QED  BY <1>1, <1>3 DEF IsFit

LEMMA NoFitIs == IsFit(NoFit)
BY NothingRead DEF NoFit, IsFit

\* What a tick is about to publish.
LEMMA BilledIs ==
    ASSUME TypeInv, stage = "publishing"
    PROVE  /\ Billed \in [Labels -> Nat]
           /\ OneClaimant /\ batch \in Batches(scenario)
                => SumFunctionOnSet(Billed, Labels) = SumFunctionOnSet(watts, DOMAIN watts)
<1>1. PICK fit : fit = IF mode = "fitted" THEN Fit ELSE NoFit
  OBVIOUS
<1>2. PICK weights : weights = Weights(batch)
  OBVIOUS
<1>3. Billed = RouteWatts(weights, watts, cats, fit)
  BY <1>1, <1>2 DEF Billed, Fitted, Busy
<1>4. /\ scenario \in Scenarios /\ batch \in [Spans -> Nat] /\ elapsed \in scenario.elapsed
      /\ models \in scenario.models \union {<< >>} /\ policy \in scenario.policies
      /\ watts \in scenario.readings \union {<< >>} /\ cats \in Labellings \union {<< >>}
  BY DEF TypeInv, TypeOK, Ticking
<1>5. weights \in [Services -> [Routes -> Nat]]
  BY <1>2, <1>4, WeightsType
<1>6. IsWatts(watts)
  BY <1>4, ReadingIs
<1>7. Buckets(cats)
  BY <1>4, LabellingsAssumption, NothingReadIs DEF Buckets
<1>8. IsFit(fit)
  BY <1>1, <1>4, ModelsAre, NoFitIs DEF Fit
<1>9. ASSUME OneClaimant PROVE OneClaim(watts)
  <2>1. CASE watts \in scenario.readings
    BY <1>4, <1>9, <2>1 DEF OneClaimant, OneClaim
  <2>. QED  BY <1>4, <2>1, NothingRead DEF OneClaim
<1>10. ASSUME batch \in Batches(scenario), NEW svc \in Resolved(weights, watts)
       PROVE  Exact(svc, weights, watts, fit)
  <2>1. fit \in Fits(scenario, batch)
    <3>1. Fit \in Fits(scenario, batch)
      <4>1. \E f \in scenario.models \union {<< >>}, e \in scenario.elapsed,
                p \in scenario.policies :
              Fit = [models |-> f, rates |-> RouteRates(batch, e), policy |-> p]
        BY <1>4 DEF Fit
      <4>. QED  BY <4>1 DEF Fits
    <3>2. NoFit \in Fits(scenario, batch)
      BY DEF Fits
    <3>. QED  BY <1>1, <3>1, <3>2
  <2>2. CASE watts \in scenario.readings
    BY <1>2, <1>4, <1>10, <2>1, <2>2, ExactAssumption
  <2>3. CASE watts = << >>
    BY <1>10, <2>3, NothingRead DEF Resolved, Claims
  <2>. QED  BY <1>4, <2>2, <2>3
<1>. QED  BY <1>3, <1>5, <1>6, <1>7, <1>8, <1>9, <1>10, RouteWattsIs

LEMMA TypeInit == Init => TypeInv
<1>. SUFFICES ASSUME Init PROVE TypeInv
  OBVIOUS
<1>1. scenario \in Scenarios /\ scenario.copies \in Nat /\ scenario.ticks \in Nat
  BY ScenariosAssumption DEF Init
<1>. QED  BY <1>1 DEF Init, TypeInv, TypeOK, Ticking, Zero

AddAt(f, r, n) == [f EXCEPT ![r] = @ + n]

LEMMA AddAtIs ==
    ASSUME NEW f \in [Routes -> Nat], NEW n \in Nat, NEW r
    PROVE  /\ AddAt(f, r, n) \in [Routes -> Nat]
           /\ r \in Routes => SumFunction(AddAt(f, r, n)) = SumFunction(f) + n
<1>1. PICK g : g = AddAt(f, r, n)
  OBVIOUS
<1>2. DOMAIN g = Routes /\ \A x \in Routes : g[x] = IF x = r THEN f[x] + n ELSE f[x]
  BY <1>1 DEF AddAt
<1>3. \A x \in Routes : g[x] \in Nat
  BY <1>2
<1>4. g \in [Routes -> Nat]
  <2>1. g = [x \in Routes |-> g[x]]
    BY <1>1, <1>2 DEF AddAt
  <2>. QED  BY <1>3, <2>1
<1>5. ASSUME r \in Routes PROVE SumFunction(g) = SumFunction(f) + n
  <2>1. IsFiniteSet(Routes) /\ n \in Int /\ \A x \in Routes : f[x] \in Int
    BY NamesAssumption
  <2>2. SumFunctionOnSet(g, Routes) = SumFunctionOnSet(f, Routes) + n
    BY ONLY <1>2, <1>5, <2>1, SumAdd
  <2>. QED  BY <1>2, <2>2 DEF SumFunction
<1>. QED  BY <1>1, <1>4, <1>5

LEMMA TypeStep ==
    ASSUME TypeInv, [Next]_vars
    PROVE  TypeInv'
<1>. USE DEF TypeInv, TypeOK, Ticking
<1>. SUFFICES ASSUME scenario \in Scenarios, scenario' = scenario,
                     scenario.copies \in Nat, scenario.ticks \in Nat
              PROVE  TypeInv'
  BY ScenariosAssumption DEF Next, vars, config, Deliver, Take, ReadLabels, ReadWatts,
     ReadModels, Publish, Push, Crash
<1>1. ASSUME NEW S \in SUBSET scenario.spans \ {{}}, Deliver(S) PROVE TypeInv'
  <2>1. scenario.spans \subseteq Spans
    BY ScenariosAssumption
  <2>2. /\ \A s \in S : sent[s] < scenario.copies
        /\ buffer' = [s \in Spans |-> buffer[s] + (IF s \in S THEN 1 ELSE 0)]
        /\ sent' = [s \in Spans |-> sent[s] + (IF s \in S THEN 1 ELSE 0)]
        /\ acked' \in {acked, acked \union S}
        /\ UNCHANGED <<policy, mode, stage, batch, cats, watts, models, elapsed,
                       energy, power, podPower, ticks, billed, lost, measured>>
    BY <1>1 DEF Deliver, config, readVars, shown
  <2>3. buffer' \in [Spans -> Nat] /\ acked' \in SUBSET Spans
    BY <2>1, <2>2
  <2>4. sent' \in [Spans -> 0..scenario.copies] /\ \A s \in Spans \ scenario.spans : sent'[s] = 0
    BY <2>1, <2>2
  <2>. QED  BY <2>2, <2>3, <2>4
<1>2. CASE Take
  BY <1>2 DEF Take, config, shown, history, Zero
<1>3. CASE ReadLabels
  BY <1>3 DEF ReadLabels, Reads, config, shown, history
<1>4. CASE ReadWatts
  BY <1>4 DEF ReadWatts, Reads, config, shown, history
<1>5. CASE ReadModels
  BY <1>5 DEF ReadModels, Reads, config, shown, history
<1>6. CASE Publish
  <2>1. /\ stage = "publishing" /\ stage' = "pushing"
        /\ energy' = [l \in Labels |-> energy[l] + Billed[l] * elapsed]
        /\ power' = Billed /\ podPower' = watts
        /\ measured' = measured + SumFunction(watts) * elapsed
        /\ billed' = [s \in Spans |-> [billed[s] EXCEPT ![BilledRoute(batch, s)] = @ + batch[s]]]
        /\ UNCHANGED <<policy, mode, buffer, batch, cats, watts, models, elapsed,
                       ticks, sent, acked, lost>>
    BY <1>6 DEF Publish, Charge, Show, config, readVars
  <2>2. elapsed \in Nat
    BY <2>1, ScenariosAssumption
  <2>3. PICK shows \in [Labels -> Nat] : shows = Billed
    BY <2>1, BilledIs
  <2>4. energy' \in [Labels -> Nat] /\ power' \in [Labels -> Nat]
    <3>1. ASSUME NEW l \in Labels PROVE energy[l] + shows[l] * elapsed \in Nat
      <4>1. shows[l] * elapsed \in Nat
        BY <2>2, Products
      <4>. QED  BY <4>1
    <3>. QED  BY <2>1, <2>3, <3>1
  <2>5. measured' \in Nat
    <3>1. SumFunction(watts) \in Nat
      BY ReadingIs
    <3>2. SumFunction(watts) * elapsed \in Nat
      BY <2>2, <3>1, Products
    <3>. QED  BY <2>1, <3>2
  <2>6. billed' \in [Spans -> [Routes -> Nat]]
    <3>1. ASSUME NEW s \in Spans, NEW r
          PROVE  AddAt(billed[s], r, batch[s]) \in [Routes -> Nat]
      BY AddAtIs
    <3>. QED  BY <2>1, <3>1 DEF AddAt
  <2>. QED  BY <2>1, <2>4, <2>5, <2>6
<1>7. CASE Push
  BY <1>7 DEF Push, EndTick, config, shown, Zero
<1>8. CASE Crash
  <2>1. lost' \in [Spans -> Nat]
    BY <1>8 DEF Crash, Add, Zero
  <2>. QED  BY <1>8, <2>1 DEF Crash, EndTick, config, Zero
<1>9. CASE UNCHANGED vars
  BY <1>9 DEF vars, config, readVars, shown, history
<1>. QED  BY <1>1, <1>2, <1>3, <1>4, <1>5, <1>6, <1>7, <1>8, <1>9 DEF Next

\* A tick never computes a negative watt, and what it has read is what the apiserver,
\* Prometheus and the twin may answer, or nothing (main.rs:279-368).
THEOREM TypeCorrect == Spec => []TypeOK
<1>1. Spec => []TypeInv
  <2>1. TypeInv /\ [Next]_vars => TypeInv'
    BY TypeStep
  <2>. QED  BY TypeInit, <2>1, PTL DEF Spec
<1>2. TypeInv => TypeOK
  BY DEF TypeInv
<1>. QED  BY <1>1, <1>2, PTL
----------------------------------------------------------------------------
(***************************************************************************)
(* Where the copies of a span are.                                         *)
(***************************************************************************)
SpansInv == TypeInv /\ SpansBilledOnce

LEMMA BilledRouteIn ==
    ASSUME NEW took \in [Spans -> Nat], NEW s \in Spans
    PROVE  BilledRoute(took, s) \in Routes
<1>1. RootsOf(took, s.trace) \subseteq Spans
  BY DEF RootsOf, Received
<1>. QED  BY <1>1, SpansAssumption DEF BilledRoute

LEMMA ZeroSum == IsFiniteSet(Routes) /\ SumFunction(Zero(Routes)) = 0
<1>1. PICK z : z = Zero(Routes)
  OBVIOUS
<1>2. DOMAIN z = Routes /\ {} \in SUBSET Routes /\ \A r \in Routes \ {} : z[r] = 0
  BY <1>1 DEF Zero
<1>3. \A r \in {} : z[r] \in Int /\ z[r] = z[r]
  OBVIOUS
<1>4. SumFunctionOnSet(z, Routes) = SumFunctionOnSet(z, {})
  BY <1>2, <1>3, NamesAssumption, SumZeros
<1>. QED  BY <1>1, <1>2, <1>4, NamesAssumption, SumEmpty DEF SumFunction

LEMMA BilledSumNat ==
    ASSUME NEW f \in [Routes -> Nat]
    PROVE  SumFunction(f) \in Nat
<1>1. \A r \in Routes : f[r] \in Nat
  OBVIOUS
<1>2. SumFunctionOnSet(f, Routes) \in Nat
  BY <1>1, NamesAssumption, SumNat
<1>. QED  BY <1>2 DEF SumFunction

LEMMA SpansInit == Init => SpansInv
<1>. SUFFICES ASSUME Init PROVE SpansInv
  OBVIOUS
<1>1. ASSUME NEW s \in Spans
      PROVE  /\ sent[s] = 0 /\ buffer[s] = 0 /\ batch[s] = 0 /\ lost[s] = 0
             /\ SumFunction(billed[s]) = 0
  <2>1. billed[s] = Zero(Routes)
    BY DEF Init
  <2>. QED  BY <2>1, ZeroSum DEF Init, Zero
<1>2. SpansBilledOnce
  BY <1>1 DEF SpansBilledOnce
<1>. QED  BY <1>2, TypeInit DEF SpansInv

LEMMA SpansStep ==
    ASSUME SpansInv, [Next]_vars
    PROVE  SpansInv'
<1>1. TypeInv /\ TypeInv'
  BY TypeStep DEF SpansInv
<1>2. SpansBilledOnce
  BY DEF SpansInv
<1>. SUFFICES SpansBilledOnce'
  BY <1>1 DEF SpansInv
<1>. SUFFICES ASSUME NEW s \in Spans
              PROVE  sent'[s] = buffer'[s] + (IF stage' = "pushing" THEN 0 ELSE batch'[s])
                                  + SumFunction(billed'[s]) + lost'[s]
  BY DEF SpansBilledOnce
<1>3. /\ sent[s] \in Nat /\ buffer[s] \in Nat /\ batch[s] \in Nat /\ lost[s] \in Nat
      /\ billed[s] \in [Routes -> Nat] /\ batch \in [Spans -> Nat]
  <2>1. scenario.copies \in Nat
    BY <1>1, ScenariosAssumption DEF TypeInv, Ticking
  <2>2. /\ sent \in [Spans -> 0..scenario.copies] /\ buffer \in [Spans -> Nat]
        /\ batch \in [Spans -> Nat] /\ lost \in [Spans -> Nat]
        /\ billed \in [Spans -> [Routes -> Nat]]
    BY <1>1 DEF TypeInv, TypeOK
  <2>. QED  BY ONLY s \in Spans, <2>1, <2>2
<1>4. PICK paid \in Nat : paid = SumFunction(billed[s])
  BY <1>3, BilledSumNat
<1>5. /\ sent[s] = buffer[s] + (IF stage = "pushing" THEN 0 ELSE batch[s]) + paid + lost[s]
      /\ stage = "asleep" => batch[s] = 0
  BY <1>1, <1>2, <1>4 DEF SpansBilledOnce, TypeInv, Ticking
<1>6. ASSUME NEW S \in SUBSET scenario.spans \ {{}}, Deliver(S)
      PROVE  sent'[s] = buffer'[s] + (IF stage' = "pushing" THEN 0 ELSE batch'[s])
                          + SumFunction(billed'[s]) + lost'[s]
  BY <1>3, <1>4, <1>5, <1>6 DEF Deliver
<1>7. CASE Take
  BY <1>3, <1>4, <1>5, <1>7 DEF Take, history, Zero
<1>8. CASE ReadLabels
  BY <1>3, <1>4, <1>5, <1>8 DEF ReadLabels, history
<1>9. CASE ReadWatts
  BY <1>3, <1>4, <1>5, <1>9 DEF ReadWatts, history
<1>10. CASE ReadModels
  BY <1>3, <1>4, <1>5, <1>10 DEF ReadModels, history
<1>11. CASE Publish
  <2>1. PICK r \in Routes : r = BilledRoute(batch, s)
    BY <1>3, BilledRouteIn
  <2>2. PICK n \in Nat : n = batch[s]
    BY <1>3
  <2>3. billed'[s] = AddAt(billed[s], r, n)
    BY <1>11, <2>1, <2>2 DEF Publish, AddAt
  <2>4. SumFunction(billed'[s]) = paid + n
    BY <1>3, <1>4, <2>3, AddAtIs
  <2>5. /\ stage = "publishing" /\ stage' = "pushing"
        /\ sent'[s] = sent[s] /\ buffer'[s] = buffer[s] /\ lost'[s] = lost[s]
    BY <1>11 DEF Publish
  <2>. QED  BY <1>3, <1>5, <2>2, <2>4, <2>5
<1>12. CASE Push
  BY <1>3, <1>4, <1>5, <1>12 DEF Push, EndTick, Zero
<1>13. CASE Crash
  <2>1. /\ stage' = "asleep" /\ buffer'[s] = 0 /\ batch'[s] = 0
        /\ sent' = sent /\ billed' = billed
    BY <1>13 DEF Crash, EndTick, Zero
  <2>2. lost'[s] = lost[s] + (buffer[s] + (IF stage = "pushing" THEN 0 ELSE batch[s]))
    BY <1>1, <1>13 DEF Crash, Add, Zero, TypeInv, TypeOK
  <2>. QED  BY <1>3, <1>4, <1>5, <2>1, <2>2
<1>14. CASE UNCHANGED vars
  BY <1>4, <1>5, <1>14 DEF vars, history
<1>. QED
  BY <1>6, <1>7, <1>8, <1>9, <1>10, <1>11, <1>12, <1>13, <1>14 DEF Next

\* However the OTLP thread's appends fall between the takes of the loop, and whatever is
\* sent again, no copy of a span is attributed twice and none is dropped, save with the
\* process (main.rs:279 and 320).
THEOREM SpansAreBilledOnce == Spec => []SpansBilledOnce
<1>1. SpansInv /\ [Next]_vars => SpansInv'
  BY SpansStep
<1>2. SpansInv => SpansBilledOnce
  BY DEF SpansInv
<1>. QED  BY SpansInit, <1>1, <1>2, PTL DEF Spec
----------------------------------------------------------------------------
(***************************************************************************)
(* What a tick takes is among the batches the unit of power divides for,   *)
(* so the watts it publishes are those it measured.                        *)
(***************************************************************************)
LEMMA TakenIsABatch ==
    ASSUME SpansInv, stage = "publishing"
    PROVE  batch \in Batches(scenario)
<1>1. /\ sent \in [Spans -> 0..scenario.copies] /\ scenario.copies \in Nat
      /\ batch \in [Spans -> Nat]
      /\ \A s \in Spans \ scenario.spans : sent[s] = 0
  BY ScenariosAssumption DEF SpansInv, TypeInv, TypeOK, Ticking
<1>2. ASSUME NEW s \in Spans PROVE batch[s] <= sent[s]
  <2>1. buffer[s] \in Nat /\ lost[s] \in Nat /\ billed[s] \in [Routes -> Nat] /\ batch[s] \in Nat
    BY DEF SpansInv, TypeInv, TypeOK
  <2>2. PICK paid \in Nat : paid = SumFunction(billed[s])
    BY <2>1, BilledSumNat
  <2>3. sent[s] = buffer[s] + batch[s] + paid + lost[s]
    BY <2>2 DEF SpansInv, SpansBilledOnce
  <2>. QED  BY <2>1, <2>3
<1>3. batch \in [Spans -> 0..scenario.copies]
  <2>1. ASSUME NEW s \in Spans PROVE batch[s] \in 0..scenario.copies
    <3>1. batch[s] \in Nat /\ sent[s] \in 0..scenario.copies
      BY <1>1
    <3>. QED  BY <1>1, <1>2, <3>1
  <2>. QED  BY <1>1, <2>1
<1>4. ASSUME NEW s \in Spans \ scenario.spans PROVE batch[s] = 0
  <2>1. batch[s] \in Nat /\ batch[s] <= sent[s] /\ sent[s] = 0
    BY <1>1, <1>2
  <2>. QED  BY <2>1
<1>. QED  BY <1>3, <1>4 DEF Batches

EnergyInv == SpansInv /\ EnergyConserved

LEMMA LabelsSum ==
    ASSUME NEW f \in [Labels -> Nat]
    PROVE  SumFunction(f) = SumFunctionOnSet(f, Labels) /\ SumFunction(f) \in Nat
<1>1. \A l \in Labels : f[l] \in Nat
  OBVIOUS
<1>2. SumFunctionOnSet(f, Labels) \in Nat
  BY <1>1, LabelsFinite, SumNat
<1>. QED  BY <1>2 DEF SumFunction

LEMMA ZeroLabels == SumFunction(Zero(Labels)) = 0
<1>1. PICK z : z = Zero(Labels)
  OBVIOUS
<1>2. DOMAIN z = Labels /\ {} \in SUBSET Labels /\ \A l \in Labels \ {} : z[l] = 0
  BY <1>1 DEF Zero
<1>3. \A l \in {} : z[l] \in Int /\ z[l] = z[l]
  OBVIOUS
<1>4. SumFunctionOnSet(z, Labels) = SumFunctionOnSet(z, {})
  BY <1>2, <1>3, LabelsFinite, SumZeros
<1>. QED  BY <1>1, <1>2, <1>4, SumEmpty DEF SumFunction

\* Power that is shown for a time adds to the energy what it is for that time.
LEMMA EnergyGrows ==
    ASSUME NEW e \in [Labels -> Nat], NEW p \in [Labels -> Nat], NEW dt \in Nat, NEW f,
           f = [l \in Labels |-> e[l] + p[l] * dt]
    PROVE  SumFunction(f) = SumFunction(e) + SumFunction(p) * dt
<1>. DEFINE g == [l \in Labels |-> dt * p[l]]
<1>1. ASSUME NEW l \in Labels
      PROVE  /\ e[l] \in Int /\ g[l] \in Int /\ f[l] = e[l] + g[l]
             /\ p[l] \in Int /\ g[l] = dt * p[l]
  <2>1. p[l] \in Nat /\ p[l] * dt = dt * p[l] /\ dt * p[l] \in Nat
    BY Products
  <2>. QED  BY <2>1
<1>. HIDE DEF g
<1>2. SumFunctionOnSet(f, Labels) = SumFunctionOnSet(e, Labels) + SumFunctionOnSet(g, Labels)
  <2>1. \A l \in Labels : e[l] \in Int /\ g[l] \in Int /\ f[l] = e[l] + g[l]
    BY <1>1
  <2>. QED  BY ONLY <2>1, LabelsFinite, SumPlus
<1>3. SumFunctionOnSet(g, Labels) = dt * SumFunctionOnSet(p, Labels)
  <2>1. dt \in Int /\ \A l \in Labels : p[l] \in Int /\ g[l] = dt * p[l]
    BY <1>1
  <2>. QED  BY ONLY <2>1, LabelsFinite, SumTimes
<1>4. SumFunction(f) = SumFunctionOnSet(f, Labels)
  BY DEF SumFunction
<1>5. PICK t \in Nat : t = SumFunctionOnSet(p, Labels)
  BY LabelsSum
<1>6. dt * t = t * dt
  BY Products
<1>. QED  BY <1>2, <1>3, <1>4, <1>5, <1>6, LabelsSum

LEMMA PublishedIs ==
    ASSUME SpansInv, OneClaimant, Publish
    PROVE  /\ Billed \in [Labels -> Nat]
           /\ SumFunction(Billed) = SumFunction(watts) /\ SumFunction(watts) \in Nat
<1>1. TypeInv /\ stage = "publishing"
  BY DEF SpansInv, Publish
<1>2. batch \in Batches(scenario)
  BY <1>1, TakenIsABatch
<1>3. PICK p \in [Labels -> Nat] : p = Billed
  BY <1>1, BilledIs
<1>4. SumFunctionOnSet(p, Labels) = SumFunctionOnSet(watts, DOMAIN watts)
  BY <1>1, <1>2, <1>3, BilledIs
<1>5. SumFunction(watts) = SumFunctionOnSet(watts, DOMAIN watts) /\ SumFunction(watts) \in Nat
  BY <1>1, ReadingIs DEF TypeInv, TypeOK, Ticking
<1>. QED  BY <1>3, <1>4, <1>5, LabelsSum

LEMMA EnergyStep ==
    ASSUME EnergyInv, OneClaimant, [Next]_vars
    PROVE  EnergyInv'
<1>1. SpansInv /\ SpansInv' /\ EnergyConserved
  BY SpansStep DEF EnergyInv
<1>. SUFFICES EnergyConserved'
  BY <1>1 DEF EnergyInv
<1>2. CASE Publish
  <2>1. PICK p \in [Labels -> Nat] : p = Billed
    BY <1>1, <1>2, PublishedIs
  <2>2. SumFunction(p) = SumFunction(watts) /\ SumFunction(watts) \in Nat
    BY <1>1, <1>2, <2>1, PublishedIs
  <2>3. PICK dt \in Nat : dt = elapsed
    BY <1>1, <1>2, ScenariosAssumption DEF SpansInv, TypeInv, Ticking, Publish
  <2>4. PICK e \in [Labels -> Nat] : e = energy
    BY <1>1 DEF SpansInv, TypeInv, TypeOK
  <2>5. PICK f : f = energy'
    OBVIOUS
  <2>6. f = [l \in Labels |-> e[l] + p[l] * dt]
    BY <1>2, <2>1, <2>3, <2>4, <2>5 DEF Publish, Charge
  <2>7. SumFunction(f) = SumFunction(e) + SumFunction(p) * dt
    BY <2>6, EnergyGrows
  <2>8. measured' = measured + SumFunction(watts) * dt
    BY <1>2, <2>3 DEF Publish
  <2>. QED  BY <1>1, <2>2, <2>4, <2>5, <2>7, <2>8 DEF EnergyConserved
<1>3. CASE Crash
  BY <1>3, ZeroLabels DEF Crash, EnergyConserved
<1>4. CASE UNCHANGED <<energy, measured>>
  BY <1>1, <1>4 DEF EnergyConserved
<1>5. CASE \/ \E S \in SUBSET scenario.spans \ {{}} : Deliver(S)
           \/ Take \/ ReadLabels \/ ReadWatts \/ ReadModels \/ Push
           \/ UNCHANGED vars
  <2>1. UNCHANGED <<energy, measured>>
    BY <1>5 DEF Deliver, Take, ReadLabels, ReadWatts, ReadModels, Push, vars, shown, history
  <2>. QED  BY <1>4, <2>1
<1>. QED  BY <1>2, <1>3, <1>5 DEF Next

\* The joules of the labels are those of the pods, for every trace, labelling, model and
\* policy, and however calls fail, deliveries repeat and the process is restarted, as
\* long as no pod answers to the names of two services (lib.rs:163-285).
THEOREM EnergyIsConserved ==
    ASSUME OneClaimant
    PROVE  Spec => []EnergyConserved
<1>1. Init => EnergyInv
  BY SpansInit, ZeroLabels DEF EnergyInv, EnergyConserved, Init
<1>2. EnergyInv /\ [Next]_vars => EnergyInv'
  BY EnergyStep
<1>3. EnergyInv => EnergyConserved
  BY DEF EnergyInv
<1>. QED  BY <1>1, <1>2, <1>3, PTL DEF Spec

ScrapeInv == SpansInv /\ ScrapeConsistent

LEMMA ScrapeStep ==
    ASSUME ScrapeInv, OneClaimant, [Next]_vars
    PROVE  ScrapeInv'
<1>1. SpansInv /\ SpansInv' /\ ScrapeConsistent
  BY SpansStep DEF ScrapeInv
<1>. SUFFICES ScrapeConsistent'
  BY <1>1 DEF ScrapeInv
<1>2. CASE Publish
  <2>1. PICK p, w : p = Billed /\ w = watts
    OBVIOUS
  <2>2. SumFunction(p) = SumFunction(w)
    BY <1>1, <1>2, <2>1, PublishedIs
  <2>3. power' = p /\ podPower' = w
    BY <1>2, <2>1 DEF Publish, Show
  <2>. QED  BY <2>2, <2>3 DEF ScrapeConsistent
<1>3. CASE Crash
  <2>1. power' = Zero(Labels) /\ podPower' = << >>
    BY <1>3 DEF Crash
  <2>. QED  BY <2>1, ZeroLabels, NothingRead, SumEmpty DEF ScrapeConsistent, SumFunction
<1>4. CASE \/ \E S \in SUBSET scenario.spans \ {{}} : Deliver(S)
           \/ Take \/ ReadLabels \/ ReadWatts \/ ReadModels \/ Push
           \/ UNCHANGED vars
  <2>1. UNCHANGED <<power, podPower>>
    BY <1>4 DEF Deliver, Take, ReadLabels, ReadWatts, ReadModels, Push, vars, shown
  <2>. QED  BY <1>1, <2>1 DEF ScrapeConsistent
<1>. QED  BY <1>2, <1>3, <1>4 DEF Next

\* At no moment does a scrape show the routes of one tick next to the pods of another
\* (main.rs:336-368).
THEOREM ScrapesAreConsistent ==
    ASSUME OneClaimant
    PROVE  Spec => []ScrapeConsistent
<1>1. Init => ScrapeInv
  <2>. SUFFICES ASSUME Init PROVE ScrapeInv
    OBVIOUS
  <2>1. power = Zero(Labels) /\ podPower = << >>
    BY DEF Init
  <2>2. ScrapeConsistent
    BY <2>1, ZeroLabels, NothingRead, SumEmpty DEF ScrapeConsistent, SumFunction
  <2>. QED  BY <2>2, SpansInit DEF ScrapeInv
<1>2. ScrapeInv /\ [Next]_vars => ScrapeInv'
  BY ScrapeStep
<1>3. ScrapeInv => ScrapeConsistent
  BY DEF ScrapeInv
<1>. QED  BY <1>1, <1>2, <1>3, PTL DEF Spec
----------------------------------------------------------------------------
(***************************************************************************)
(* The refinement: publishing is a posting, a restart a restart, and no    *)
(* other step changes what a scrape shows.                                 *)
(***************************************************************************)
LEMMA LedgerInit == Init => Ledger!Init
BY DEF Init, Zero, Ledger!Init, Ledger!Nothing

LEMMA PublishPosts ==
    ASSUME SpansInv, OneClaimant, Publish
    PROVE  Ledger!Next
<1>1. /\ TypeInv /\ scenario \in Scenarios /\ elapsed \in scenario.elapsed
      /\ watts \in scenario.readings \union {<< >>}
  BY DEF SpansInv, TypeInv, TypeOK, Ticking, Publish
<1>2. PICK w, p : w = watts /\ p = Billed
  OBVIOUS
<1>3. p \in [Labels -> Nat] /\ SumFunction(p) = SumFunction(w)
  BY <1>2, PublishedIs
<1>4. /\ power' = p /\ podPower' = w
      /\ energy' = [l \in Labels |-> energy[l] + p[l] * elapsed]
      /\ measured' = measured + SumFunction(w) * elapsed
  BY <1>2 DEF Publish, Charge, Show
<1>5. w \in (UNION {s.readings : s \in Scenarios}) \union {<< >>}
  BY <1>1, <1>2
<1>6. Ledger!Post(elapsed)
  BY <1>3, <1>4, <1>5 DEF Ledger!Post
<1>7. elapsed \in UNION {s.elapsed : s \in Scenarios}
  BY <1>1
<1>. QED  BY <1>6, <1>7 DEF Ledger!Next

LEMMA LedgerStep ==
    ASSUME SpansInv, OneClaimant, [Next]_vars
    PROVE  [Ledger!Next]_Ledger!vars
<1>1. CASE Publish
  BY <1>1, PublishPosts
<1>2. CASE Crash
  <2>1. Ledger!Restart
    BY <1>2 DEF Crash, Zero, Ledger!Restart, Ledger!Nothing
  <2>. QED  BY <2>1 DEF Ledger!Next
<1>3. CASE \/ \E S \in SUBSET scenario.spans \ {{}} : Deliver(S)
           \/ Take \/ ReadLabels \/ ReadWatts \/ ReadModels \/ Push
           \/ UNCHANGED vars
  <2>1. UNCHANGED <<energy, power, podPower, measured>>
    BY <1>3 DEF Deliver, Take, ReadLabels, ReadWatts, ReadModels, Push, vars, shown, history
  <2>. QED  BY <2>1 DEF Ledger!vars
<1>. QED  BY <1>1, <1>2, <1>3 DEF Next

\* What a scrape sees is a ledger, under the same condition: postings of whole ticks, the
\* power shown being what the energy grew by for the seconds of the tick, and restarts
\* (README.md:26, main.rs:336-368).
THEOREM AttributorImplementsLedger ==
    ASSUME OneClaimant
    PROVE  Spec => ImplementsLedger
<1>1. SpansInv /\ [Next]_vars => SpansInv' /\ [Ledger!Next]_Ledger!vars
  BY SpansStep, LedgerStep
<1>. QED  BY <1>1, SpansInit, LedgerInit, PTL DEF Spec, ImplementsLedger, Ledger!Spec
----------------------------------------------------------------------------
(***************************************************************************)
(* Traces.  A span follows its root only while the tick that takes it has  *)
(* the root too: the route of a root is not remembered.                    *)
(***************************************************************************)
OneRoot == \A a, b \in Spans : a.root /\ b.root /\ a.trace = b.trace => a = b

IsRootOf(root, s) == root \in scenario.spans /\ root.root /\ root.trace = s.trace

\* Whenever a tick takes a span, it takes the root of its trace along.
RootsAlong ==
    \A s, root \in Spans : IsRootOf(root, s) /\ batch[s] > 0 => batch[root] > 0

FollowInv ==
    \A s, root \in Spans : IsRootOf(root, s) =>
        \A r \in Routes \ {root.route} : billed[s][r] = 0

LEMMA RouteOfRoot ==
    ASSUME TypeInv, OneRoot, NEW s \in Spans, NEW root \in Spans, IsRootOf(root, s),
           batch[root] > 0
    PROVE  BilledRoute(batch, s) = root.route
<1>1. RootsOf(batch, s.trace) = {root}
  <2>1. Received(batch) \subseteq Spans /\ root \in Received(batch)
    BY DEF Received, TypeInv, TypeOK
  <2>. QED  BY <2>1 DEF RootsOf, OneRoot, IsRootOf
<1>2. (CHOOSE x \in {root} : TRUE) = root
  OBVIOUS
<1>. QED  BY <1>1, <1>2 DEF BilledRoute

LEMMA FollowInit == Init => FollowInv
BY DEF Init, Zero, FollowInv

LEMMA FollowStep ==
    ASSUME TypeInv, FollowInv, OneRoot, RootsAlong, [Next]_vars
    PROVE  FollowInv'
<1>1. scenario' = scenario
  BY DEF Next, vars, config, Deliver, Take, ReadLabels, ReadWatts, ReadModels, Publish, Push, Crash
<1>2. CASE Publish
  <2>1. SUFFICES ASSUME NEW s \in Spans, NEW root \in Spans, IsRootOf(root, s),
                        NEW r \in Routes \ {root.route}
                 PROVE  billed'[s][r] = 0
    BY <1>1 DEF FollowInv, IsRootOf
  <2>2. billed[s] \in [Routes -> Nat] /\ billed[s][r] = 0 /\ batch[s] \in Nat
    BY <2>1 DEF FollowInv, TypeInv, TypeOK
  <2>3. PICK q : q = BilledRoute(batch, s)
    OBVIOUS
  <2>4. billed'[s] = [billed[s] EXCEPT ![q] = @ + batch[s]]
    BY <1>2, <2>3 DEF Publish
  <2>5. CASE batch[s] = 0
    BY <2>2, <2>4, <2>5
  <2>6. CASE batch[s] > 0
    <3>1. q = root.route
      BY <2>1, <2>3, <2>6, RouteOfRoot DEF RootsAlong
    <3>. QED  BY <2>1, <2>2, <2>4, <3>1
  <2>. QED  BY <2>2, <2>5, <2>6
<1>3. CASE UNCHANGED billed
  BY <1>1, <1>3 DEF FollowInv, IsRootOf
<1>. QED
  BY <1>2, <1>3
     DEF Next, vars, history, Deliver, Take, ReadLabels, ReadWatts, ReadModels, Push, Crash

\* "Spans inherit their trace root's route" (lib.rs:65) as long as a trace has one root and
\* no tick takes a span without it: it is only a root in another tick than its span, or
\* a span sent again without it, that leaves the span on a route of its own.
THEOREM ChildrenFollowWhenTogether ==
    ASSUME OneRoot
    PROVE  Spec /\ []RootsAlong => []ChildrenFollowRoot
<1>1. TypeInv /\ [Next]_vars => TypeInv'
  BY TypeStep
<1>2. TypeInv /\ FollowInv /\ RootsAlong /\ [Next]_vars => FollowInv'
  BY FollowStep
<1>3. TypeInv /\ FollowInv => ChildrenFollowRoot
  <2>. SUFFICES ASSUME TypeInv, FollowInv, NEW s \in Spans, NEW root \in Spans,
                       root.root, root.trace = s.trace, sent[root] > 0
                PROVE  \A r \in Routes \ {root.route} : billed[s][r] = 0
    BY DEF ChildrenFollowRoot
  <2>1. root \in scenario.spans
    BY DEF TypeInv, Ticking
  <2>. QED  BY <2>1 DEF FollowInv, IsRootOf
<1>. QED  BY <1>1, <1>2, <1>3, TypeInit, FollowInit, PTL DEF Spec
=============================================================================
