--------------------------- MODULE TracedAppProofs ---------------------------
(***************************************************************************)
(* What holds of the demo application for every set of routes, every       *)
(* number of requests and crashes, and every choice of faults.             *)
(*                                                                         *)
(* A request is its place in the tree of calls: a request of the load, and *)
(* one of the operations its route reaches.  Everything the proofs need to *)
(* know of the tree is stated first.                                       *)
(***************************************************************************)
EXTENDS TracedApp, FiniteSetTheorems, FunctionTheorems, SequenceTheorems, TLAPS

Ops == {"checkout", "catalog", "report", "price", "stats", "save", "list"}
GatewayOps == {"checkout", "catalog", "report"}

\* An operation with all it makes run.
Below == [checkout |-> {"checkout", "price", "save"}, catalog |-> {"catalog", "list"},
          report |-> {"report", "stats", "list"}, stats |-> {"stats", "list"},
          price |-> {"price"}, save |-> {"save"}, list |-> {"list"}]

\* The name of the request for an operation, in the trace of the n-th request of the load.
Path(n, route, op) ==
    IF op = route THEN <<n>>
    ELSE IF op = "save" THEN <<n, 2>>
    ELSE IF op = "list" /\ route = "report" THEN <<n, 1, 1>>
    ELSE <<n, 1>>

Caller(route, op) == IF op = "list" /\ route = "report" THEN "stats" ELSE route
----------------------------------------------------------------------------
\* The handlers of main: who calls what, and how often.
LEMMA CallsAre ==
    /\ DOMAIN Host = Ops /\ DOMAIN Calls = Ops
    /\ \A op \in Ops : Calls[op] \in Seq(Ops) /\ DOMAIN Calls[op] = 1..Len(Calls[op])
    /\ Len(Calls["checkout"]) = 2 /\ Len(Calls["catalog"]) = 1 /\ Len(Calls["report"]) = 1
    /\ Len(Calls["stats"]) = 1 /\ Len(Calls["price"]) = 0 /\ Len(Calls["save"]) = 0
    /\ Len(Calls["list"]) = 0
    /\ Calls["checkout"][1] = "price" /\ Calls["checkout"][2] = "save"
    /\ Calls["catalog"][1] = "list" /\ Calls["report"][1] = "stats" /\ Calls["stats"][1] = "list"
BY DEF Host, Calls, Ops

LEMMA CallsType ==
    ASSUME NEW op \in Ops
    PROVE  Len(Calls[op]) \in Nat /\ \A k \in 1..Len(Calls[op]) : Calls[op][k] \in Ops
<1>1. Calls[op] \in Seq(Ops)
  BY CallsAre
<1>. QED  BY <1>1

\* The k-th call of an operation, in some order of the cases.
LEMMA CallCases ==
    ASSUME NEW op \in Ops, NEW k \in 1..Len(Calls[op])
    PROVE  \/ op = "checkout" /\ k = 1 /\ Calls[op][k] = "price"
           \/ op = "checkout" /\ k = 2 /\ Calls[op][k] = "save"
           \/ op = "catalog" /\ k = 1 /\ Calls[op][k] = "list"
           \/ op = "report" /\ k = 1 /\ Calls[op][k] = "stats"
           \/ op = "stats" /\ k = 1 /\ Calls[op][k] = "list"
<1>1. \A c \in Ops : Len(Calls[c]) = 0 => op # c
  BY CallsAre
<1>2. CASE op = "checkout"
  BY <1>2, CallsAre
<1>3. CASE op # "checkout"
  <2>1. op \in {"catalog", "report", "stats"}
    BY <1>1, <1>3, CallsAre DEF Ops
  <2>2. Len(Calls[op]) = 1
    BY <2>1, CallsAre
  <2>3. k = 1
    BY <2>2
  <2>. QED  BY <2>1, <2>3, CallsAre
<1>. QED  BY <1>2, <1>3

LEMMA HostIs ==
    /\ \A op \in Ops : Host[op] \in Roles
    /\ \A op \in Ops : Host[op] = "gateway" <=> op \in GatewayOps
    /\ \A op \in Ops : Host[op] = "compute" <=> op \in {"price", "stats"}
    /\ \A op \in Ops : Host[op] = "store" <=> op \in {"save", "list"}
BY DEF Host, Ops, Roles, GatewayOps

LEMMA BelowIs ==
    /\ Below["checkout"] = {"checkout", "price", "save"}
    /\ Below["catalog"] = {"catalog", "list"}
    /\ Below["report"] = {"report", "stats", "list"}
    /\ Below["stats"] = {"stats", "list"}
    /\ Below["price"] = {"price"} /\ Below["save"] = {"save"} /\ Below["list"] = {"list"}
    /\ \A op \in Ops : Below[op] \subseteq Ops
BY DEF Below, Ops

LEMMA AppendToShort ==
    ASSUME NEW a \in Nat, NEW b \in Nat, NEW i \in Nat
    PROVE  Append(<<a>>, i) = <<a, i>> /\ Append(<<a, b>>, i) = <<a, b, i>>
<1>1. <<a>> \in Seq(Nat) /\ <<a, b>> \in Seq(Nat) /\ <<a, i>> \in Seq(Nat) /\ <<a, b, i>> \in Seq(Nat)
  OBVIOUS
<1>2. Append(<<a>>, i) = <<a, i>>
  <2>1. /\ Append(<<a>>, i) \in Seq(Nat) /\ Len(Append(<<a>>, i)) = 2
        /\ Append(<<a>>, i)[1] = a /\ Append(<<a>>, i)[2] = i
    BY <1>1, AppendProperties
  <2>2. Len(<<a, i>>) = 2 /\ \A j \in 1..2 : Append(<<a>>, i)[j] = <<a, i>>[j]
    BY <2>1
  <2>. QED  BY <1>1, <2>1, <2>2, SeqEqual
<1>3. Append(<<a, b>>, i) = <<a, b, i>>
  <2>1. /\ Append(<<a, b>>, i) \in Seq(Nat) /\ Len(Append(<<a, b>>, i)) = 3
        /\ Append(<<a, b>>, i)[1] = a /\ Append(<<a, b>>, i)[2] = b /\ Append(<<a, b>>, i)[3] = i
    BY <1>1, AppendProperties
  <2>2. Len(<<a, b, i>>) = 3 /\ \A j \in 1..3 : Append(<<a, b>>, i)[j] = <<a, b, i>>[j]
    BY <2>1
  <2>. QED  BY <1>1, <2>1, <2>2, SeqEqual
<1>. QED  BY <1>2, <1>3

\* What get_json names a call: the request it is made for, and its number.
LEMMA PathOfCall ==
    ASSUME NEW n \in Nat, NEW route \in GatewayOps, NEW op \in Below[route],
           NEW k \in 1..Len(Calls[op])
    PROVE  /\ Calls[op][k] \in Below[route] \ {route}
           /\ Path(n, route, Calls[op][k]) = Append(Path(n, route, op), k)
           /\ Caller(route, Calls[op][k]) = op
<1>1. op \in Ops
  BY BelowIs DEF GatewayOps, Ops
<1>2. \A i \in Nat : Append(<<n>>, i) = <<n, i>> /\ Append(<<n, 1>>, i) = <<n, 1, i>>
  BY AppendToShort
<1>3. op = route \/ (op = "stats" /\ route = "report")
  BY <1>1, CallCases, BelowIs DEF GatewayOps
<1>4. CASE op = route
  <2>1. Path(n, route, op) = <<n>>
    BY <1>4 DEF Path
  <2>2. Append(Path(n, route, op), k) = <<n, k>>
    BY <2>1, <1>2
  <2>. QED  BY <1>1, <1>4, <2>2, CallCases, BelowIs DEF Path, Caller, GatewayOps
<1>5. CASE op = "stats" /\ route = "report"
  <2>1. Path(n, route, op) = <<n, 1>>
    BY <1>5 DEF Path
  <2>2. Append(Path(n, route, op), k) = <<n, 1, k>>
    BY <2>1, <1>2
  <2>. QED  BY <1>1, <1>5, <2>2, CallCases, BelowIs DEF Path, Caller, GatewayOps
<1>. QED  BY <1>3, <1>4, <1>5

\* A name is of one request of the load, and of one operation.
LEMMA PathsDiffer ==
    ASSUME NEW n \in Nat, NEW m \in Nat, NEW r \in GatewayOps, NEW op \in Below[r],
           NEW rr \in GatewayOps, NEW o \in Below[rr],
           Path(n, r, op) = Path(m, rr, o)
    PROVE  n = m /\ (r = rr => op = o)
BY BelowIs DEF Path, GatewayOps

LEMMA PathType ==
    ASSUME NEW n \in Nat, NEW route, NEW op
    PROVE  /\ Path(n, route, op) \in Seq(Nat) /\ Path(n, route, op)[1] = n
           /\ (Path(n, route, op) = <<n>> => op = route)
BY DEF Path

\* The calls of an operation reach different operations.
LEMMA CallsApart ==
    ASSUME NEW op \in Ops, NEW k \in 1..Len(Calls[op]), NEW l \in 1..Len(Calls[op]), k # l
    PROVE  Below[Calls[op][k]] \cap Below[Calls[op][l]] = {}
BY CallCases, BelowIs

\* What an operation makes run is itself, and what its calls do.
LEMMA BelowIsCalls ==
    ASSUME NEW op \in Ops
    PROVE  /\ \A o \in Below[op] : o = op \/ \E k \in 1..Len(Calls[op]) : o \in Below[Calls[op][k]]
           /\ \A k \in 1..Len(Calls[op]) : /\ Below[Calls[op][k]] \subseteq Below[op] \ {op}
                                           /\ Calls[op][k] \in Below[Calls[op][k]]
           /\ op \in Below[op]
<1>1. /\ \A k \in 1..Len(Calls[op]) : /\ Below[Calls[op][k]] \subseteq Below[op] \ {op}
                                      /\ Calls[op][k] \in Below[Calls[op][k]]
      /\ op \in Below[op]
  BY CallCases, BelowIs DEF Ops
<1>2. \A o \in Below[op] : o = op \/ \E k \in 1..Len(Calls[op]) : o \in Below[Calls[op][k]]
  BY CallsAre, BelowIs DEF Ops
<1>. QED  BY <1>1, <1>2

\* What runs below an operation runs below who makes it run.
LEMMA BelowNests ==
    ASSUME NEW op \in Ops, NEW o \in Below[op]
    PROVE  Below[o] \subseteq Below[op]
BY BelowIs DEF Ops

\* Who has what an operation makes run below it has its caller, too.
LEMMA BelowHasCaller ==
    ASSUME NEW route \in GatewayOps, NEW op \in Below[route], NEW o \in Below[op] \ {op}
    PROVE  o \in Below[route] /\ o # route /\ Caller(route, o) \in Below[op]
BY BelowIs DEF Caller, GatewayOps
----------------------------------------------------------------------------
\* The span of an operation, in the trace of the n-th request.
SpanOf(n, st, op) ==
    [id |-> Path(n, st[n], op), op |-> op, trace |-> <<n>>,
     parent |-> IF op = st[n] THEN None ELSE Path(n, st[n], Caller(st[n], op))]

\* A request is of a place in the tree, and says so: its name, its operation and its header.
\* Who called it has a span.
Genuine(r, st, sp) ==
    LET n == r.id[1] IN
    /\ n \in DOMAIN st /\ r.op \in Below[st[n]]
    /\ r.id = Path(n, st[n], r.op)
    /\ IF r.op = st[n] THEN r.tp = None
       ELSE /\ r.tp = [trace |-> <<n>>, span |-> Path(n, st[n], Caller(st[n], r.op))]
            /\ SpanOf(n, st, Caller(st[n], r.op)) \in sp

\* So is a span: it is of a place in the tree, and its caller has one, too.
Rooted(x, st, sp) ==
    \E n \in DOMAIN st : \E op \in Below[st[n]] :
        /\ x = SpanOf(n, st, op)
        /\ op # st[n] => SpanOf(n, st, Caller(st[n], op)) \in sp

TreeInv ==
    /\ \A s \in Servers :
         /\ \A i \in DOMAIN queue[s] : Genuine(queue[s][i], sent, spans)
         /\ handling[s] # None =>
              /\ Genuine(handling[s].req, sent, spans)
              /\ handling[s].span = SpanOf(handling[s].req.id[1], sent, handling[s].req.op)
    /\ \A x \in spans : Rooted(x, sent, spans)

\* What was sent stays, and so do spans.
Longer(st, st2) == \A n \in DOMAIN st : n \in DOMAIN st2 /\ st2[n] = st[n]

LEMMA GenuineStays ==
    ASSUME NEW r, NEW st, NEW sp, NEW st2, NEW sp2, Genuine(r, st, sp),
           Longer(st, st2), sp \subseteq sp2
    PROVE  Genuine(r, st2, sp2)
BY DEF Genuine, Longer, SpanOf

LEMMA RootedStays ==
    ASSUME NEW x, NEW st, NEW sp, NEW st2, NEW sp2, Rooted(x, st, sp),
           Longer(st, st2), sp \subseteq sp2
    PROVE  Rooted(x, st2, sp2)
BY DEF Rooted, Longer, SpanOf

LEMMA LongerSame == \A st : Longer(st, st)
BY DEF Longer

LEMMA LongerAppend ==
    ASSUME NEW st \in Seq(Routes), NEW e \in Routes
    PROVE  Longer(st, Append(st, e))
BY DEF Longer

\* The routes asked for are operations of the gateway.
LEMMA SentAre ==
    ASSUME NEW st \in Seq(Routes)
    PROVE  /\ DOMAIN st = 1..Len(st) /\ DOMAIN st \subseteq Nat
           /\ \A n \in DOMAIN st : st[n] \in GatewayOps /\ st[n] \in Ops
<1>1. \A n \in DOMAIN st : st[n] \in Routes
  OBVIOUS
<1>2. Routes \subseteq GatewayOps /\ Routes \subseteq Ops
  BY RoutesAssumption DEF GatewayOps, Ops
<1>3. DOMAIN st = 1..Len(st)
  OBVIOUS
<1>. QED  BY <1>1, <1>2, <1>3

\* What a genuine request is of.
LEMMA GenuineType ==
    ASSUME NEW r, NEW st \in Seq(Routes), NEW sp, Genuine(r, st, sp)
    PROVE  /\ r.id[1] \in DOMAIN st /\ r.id[1] \in Nat /\ st[r.id[1]] \in GatewayOps
           /\ r.op \in Below[st[r.id[1]]] /\ r.op \in Ops
           /\ r.id = Path(r.id[1], st[r.id[1]], r.op)
<1>1. st[r.id[1]] \in Ops
  BY SentAre DEF Genuine
<1>. QED  BY <1>1, SentAre, BelowIs DEF Genuine

\* The span of a genuine request is the span of its place, and it hangs under its caller's.
LEMMA ChildIs ==
    ASSUME NEW r, NEW st \in Seq(Routes), NEW sp, Genuine(r, st, sp)
    PROVE  /\ Child(r) = SpanOf(r.id[1], st, r.op)
           /\ Rooted(Child(r), st, sp)
<1>1. Child(r) = SpanOf(r.id[1], st, r.op)
  <2>1. CASE r.op = st[r.id[1]]
    BY <2>1 DEF Genuine, Child, SpanOf, Path
  <2>2. CASE r.op # st[r.id[1]]
    <3>1. r.tp \in Context
      <4>1. r.tp = [trace |-> <<r.id[1]>>,
                    span |-> Path(r.id[1], st[r.id[1]], Caller(st[r.id[1]], r.op))]
        BY <2>2 DEF Genuine
      <4>2. Path(r.id[1], st[r.id[1]], Caller(st[r.id[1]], r.op)) \in Seq(Nat)
        BY GenuineType, PathType
      <4>3. <<r.id[1]>> \in Seq(Nat)
        <5>1. \A m \in Nat : <<m>> \in Seq(Nat)
          OBVIOUS
        <5>. QED  BY <5>1, GenuineType
      <4>. QED  BY <4>1, <4>2, <4>3 DEF Context
    <3>. QED  BY <2>2, <3>1, NoneAssumption DEF Genuine, Child, SpanOf
  <2>. QED  BY <2>1, <2>2
<1>. QED  BY <1>1 DEF Genuine, Rooted

\* The call a handler makes is the request of a place below its own.
LEMMA CallIsGenuine ==
    ASSUME NEW r, NEW st, st \in Seq(Routes), NEW sp, Genuine(r, st, sp),
           SpanOf(r.id[1], st, r.op) \in sp, NEW k, k \in 1..Len(Calls[r.op]), NEW p
    PROVE  /\ Genuine([id |-> Append(r.id, k), op |-> Calls[r.op][k], price |-> p,
                       tp |-> [trace |-> SpanOf(r.id[1], st, r.op).trace,
                               span |-> SpanOf(r.id[1], st, r.op).id]], st, sp)
           /\ Append(r.id, k)[1] = r.id[1]
<1>. DEFINE n == r.id[1]
            c == Calls[r.op][k]
<1>1. /\ n \in DOMAIN st /\ n \in Nat /\ st[n] \in GatewayOps /\ r.op \in Below[st[n]]
      /\ r.id = Path(n, st[n], r.op)
  BY GenuineType
<1>2. c \in Below[st[n]] \ {st[n]} /\ Path(n, st[n], c) = Append(r.id, k) /\ Caller(st[n], c) = r.op
  <2>1. PICK route \in GatewayOps : route = st[n]
    BY <1>1
  <2>2. PICK op \in Below[route] : op = r.op
    BY <1>1, <2>1
  <2>3. PICK l \in 1..Len(Calls[op]) : l = k
    BY <2>2
  <2>4. PICK m \in Nat : m = n
    BY <1>1
  <2>5. /\ Calls[op][l] \in Below[route] \ {route}
        /\ Path(m, route, Calls[op][l]) = Append(Path(m, route, op), l)
        /\ Caller(route, Calls[op][l]) = op
    BY ONLY PathOfCall
  <2>. QED  BY <1>1, <2>1, <2>2, <2>3, <2>4, <2>5
<1>3. Append(r.id, k)[1] = n
  <2>1. PICK m \in Nat : m = n
    BY <1>1
  <2>2. PICK route : route = st[n]
    OBVIOUS
  <2>3. Path(m, route, c)[1] = m
    BY PathType
  <2>. QED  BY <1>2, <2>1, <2>2, <2>3
<1>4. /\ SpanOf(n, st, r.op).trace = <<n>>
      /\ SpanOf(n, st, r.op).id = Path(n, st[n], r.op)
  BY DEF SpanOf
<1>. HIDE DEF n, c
<1>5. PICK q : q = [id |-> Append(r.id, k), op |-> c, price |-> p,
                    tp |-> [trace |-> SpanOf(n, st, r.op).trace,
                            span |-> SpanOf(n, st, r.op).id]]
  OBVIOUS
<1>6. /\ q.id = Path(n, st[n], c) /\ q.op = c /\ q.id[1] = n
      /\ q.tp = [trace |-> <<n>>, span |-> Path(n, st[n], Caller(st[n], c))]
  BY <1>2, <1>3, <1>4, <1>5
<1>7. SpanOf(n, st, Caller(st[n], c)) \in sp
  BY <1>2 DEF n
<1>8. Genuine(q, st, sp)
  BY <1>1, <1>2, <1>6, <1>7 DEF Genuine
<1>. QED  BY <1>3, <1>5, <1>8 DEF n, c
----------------------------------------------------------------------------
\* The queues after a request was added, and after the first one was taken.
LEMMA EnqueueIs ==
    ASSUME queue \in [Servers -> Seq(Request)], NEW c \in Servers, NEW r \in Request,
           Enqueue(c, r)
    PROVE  /\ queue' \in [Servers -> Seq(Request)]
           /\ \A s \in Servers : s # c => queue'[s] = queue[s]
           /\ \A s \in Servers : \A i \in DOMAIN queue[s] :
                 i \in DOMAIN queue'[s] /\ queue'[s][i] = queue[s][i]
           /\ \A s \in Servers : \A i \in DOMAIN queue'[s] :
                 \/ i \in DOMAIN queue[s] /\ queue'[s][i] = queue[s][i]
                 \/ s = c /\ i = Len(queue[c]) + 1 /\ queue'[s][i] = r
<1>1. queue' = [queue EXCEPT ![c] = Append(queue[c], r)]
  BY DEF Enqueue
<1>2. queue[c] \in Seq(Request)
  OBVIOUS
<1>3. /\ Append(queue[c], r) \in Seq(Request) /\ Len(Append(queue[c], r)) = Len(queue[c]) + 1
      /\ \A i \in 1..Len(queue[c]) : Append(queue[c], r)[i] = queue[c][i]
      /\ Append(queue[c], r)[Len(queue[c]) + 1] = r
  BY <1>2, AppendProperties
<1>4. DOMAIN Append(queue[c], r) = 1..(Len(queue[c]) + 1) /\ DOMAIN queue[c] = 1..Len(queue[c])
  BY <1>2, <1>3
<1>5. /\ \A i \in DOMAIN queue[c] :
           i \in DOMAIN Append(queue[c], r) /\ Append(queue[c], r)[i] = queue[c][i]
      /\ \A i \in DOMAIN Append(queue[c], r) :
           \/ i \in DOMAIN queue[c] /\ Append(queue[c], r)[i] = queue[c][i]
           \/ i = Len(queue[c]) + 1 /\ Append(queue[c], r)[i] = r
  <2>1. Len(queue[c]) \in Nat
    BY <1>2
  <2>. QED  BY <2>1, <1>3, <1>4
<1>6. /\ queue'[c] = Append(queue[c], r) /\ \A s \in Servers : s # c => queue'[s] = queue[s]
      /\ queue' \in [Servers -> Seq(Request)]
  BY <1>1, <1>3
<1>. QED  BY <1>5, <1>6

LEMMA DequeueIs ==
    ASSUME queue \in [Servers -> Seq(Request)], NEW c \in Servers, queue[c] # << >>,
           queue' = [queue EXCEPT ![c] = Rest(@)]
    PROVE  /\ queue' \in [Servers -> Seq(Request)]
           /\ 1 \in DOMAIN queue[c] /\ Head(queue[c]) = queue[c][1] /\ queue[c][1] \in Request
           /\ \A s \in Servers : s # c => queue'[s] = queue[s]
           /\ \A i \in DOMAIN queue'[c] : /\ i \in Nat /\ i > 0 /\ i + 1 \in DOMAIN queue[c]
                                          /\ queue'[c][i] = queue[c][i + 1]
<1>1. queue[c] \in Seq(Request)
  OBVIOUS
<1>2. queue'[c] = Tail(queue[c]) /\ \A s \in Servers : s # c => queue'[s] = queue[s]
  BY DEF Rest
<1>3. /\ Head(queue[c]) = queue[c][1] /\ 1 \in DOMAIN queue[c]
      /\ Tail(queue[c]) \in Seq(Request) /\ Len(Tail(queue[c])) = Len(queue[c]) - 1
      /\ \A i \in 1..Len(Tail(queue[c])) : Tail(queue[c])[i] = queue[c][i + 1]
  BY <1>1, HeadTailProperties
<1>4. queue' \in [Servers -> Seq(Request)]
  BY <1>3 DEF Rest
<1>5. \A i \in DOMAIN queue'[c] : /\ i \in Nat /\ i > 0 /\ i + 1 \in DOMAIN queue[c]
                                  /\ queue'[c][i] = queue[c][i + 1]
  BY <1>1, <1>2, <1>3
<1>. QED  BY <1>1, <1>2, <1>3, <1>4, <1>5

\* A handler in progress: its place in the tree.
LEMMA HandlerIs ==
    ASSUME StateTypes, TreeInv, NEW s \in Servers, handling[s] # None
    PROVE  /\ handling[s] \in Handler /\ handling[s].req \in Request
           /\ Genuine(handling[s].req, sent, spans)
           /\ handling[s].span = SpanOf(handling[s].req.id[1], sent, handling[s].req.op)
           /\ handling[s].span \in spans
           /\ handling[s].req.id[1] \in DOMAIN sent /\ handling[s].req.op \in Ops
           /\ handling[s].made \in Nat /\ handling[s].made <= Len(Calls[handling[s].req.op])
           /\ handling[s].got \in Answer
           /\ Host[handling[s].req.op] = Role[s]
<1>1. handling[s] \in Handler
  BY DEF StateTypes, HandlerTypes
<1>2. handling[s].req \in Request /\ handling[s].made \in Nat /\ handling[s].got \in Answer
  BY <1>1 DEF Handler
<1>3. handling[s].req.op \in Ops
  BY <1>2, CallsAre DEF Request
<1>4. /\ Genuine(handling[s].req, sent, spans)
      /\ handling[s].span = SpanOf(handling[s].req.id[1], sent, handling[s].req.op)
  BY DEF TreeInv
<1>5. handling[s].req.id[1] \in DOMAIN sent
  BY <1>4 DEF Genuine
<1>. QED  BY <1>1, <1>2, <1>3, <1>4, <1>5 DEF StateTypes, HandlerTypes

\* A handler that makes its next call, and the request get_json sends: what CallOut enqueues.
NextCall(h) == [h EXCEPT !.made = @ + 1]

CallOf(h) ==
    [id |-> Append(h.req.id, h.made + 1), op |-> Calls[h.req.op][h.made + 1],
     price |-> IF h.got.price = None THEN 0 ELSE h.got.price,
     tp |-> Traceparent(h)]

LEMMA CallOutIs ==
    ASSUME StateTypes, TreeInv, NEW s \in Servers, handling[s] # None, CallsLeft(handling[s]),
           NEW h, h = NextCall(handling[s])
    PROVE  /\ h \in Handler /\ h.made = handling[s].made + 1 /\ h.req = handling[s].req
           /\ h.span = handling[s].span /\ h.got = handling[s].got /\ h.phase = handling[s].phase
           /\ h.made \in 1..Len(Calls[h.req.op])
           /\ CallOf(handling[s]) = [id |-> Awaited(h), op |-> Calls[h.req.op][h.made],
                 price |-> IF h.got.price = None THEN 0 ELSE h.got.price, tp |-> Traceparent(h)]
           /\ CallOf(handling[s]) \in Request
           /\ \A c \in Callees(h) : c \in Servers /\ Host[CallOf(handling[s]).op] = Role[c]
           /\ Genuine(CallOf(handling[s]), sent, spans)
           /\ CallOf(handling[s]).id[1] = h.req.id[1]
<1>1. /\ handling[s] \in Handler /\ handling[s].req \in Request
      /\ Genuine(handling[s].req, sent, spans)
      /\ handling[s].span = SpanOf(handling[s].req.id[1], sent, handling[s].req.op)
      /\ handling[s].span \in spans /\ handling[s].req.op \in Ops /\ handling[s].made \in Nat
      /\ handling[s].got \in Answer
  BY HandlerIs
<1>2. /\ h.made = handling[s].made + 1 /\ h.req = handling[s].req
      /\ h.span = handling[s].span /\ h.got = handling[s].got /\ h.phase = handling[s].phase
      /\ h \in Handler
  BY <1>1 DEF Handler, NextCall
<1>3. h.made \in 1..Len(Calls[h.req.op])
  <2>1. PICK m \in Nat : m = handling[s].made
    BY <1>1
  <2>2. Len(Calls[h.req.op]) \in Nat
    BY <1>1, <1>2, CallsType
  <2>3. m < Len(Calls[h.req.op])
    BY <1>2, <2>1 DEF CallsLeft
  <2>. QED  BY <1>2, <2>1, <2>2, <2>3
<1>4. Calls[h.req.op][h.made] \in Ops
  BY <1>1, <1>2, <1>3, CallsType
<1>5. CallOf(handling[s]) = [id |-> Awaited(h), op |-> Calls[h.req.op][h.made],
                 price |-> IF h.got.price = None THEN 0 ELSE h.got.price, tp |-> Traceparent(h)]
  BY <1>2 DEF CallOf, Awaited, Traceparent
<1>6. Awaited(h) \in Seq(Nat)
  <2>1. h.req.id \in Seq(Nat) /\ h.made \in Nat
    BY <1>1, <1>2 DEF Request
  <2>. QED  BY <2>1, AppendProperties DEF Awaited
<1>7. Traceparent(h) \in Context
  <2>1. handling[s].span \in Span
    BY <1>1 DEF StateTypes
  <2>. QED  BY <1>2, <2>1 DEF Traceparent, Context, Span
<1>8. (IF h.got.price = None THEN 0 ELSE h.got.price) \in 0..1
  BY <1>1, <1>2 DEF Answer
<1>9. CallOf(handling[s]) \in Request
  BY <1>4, <1>5, <1>6, <1>7, <1>8, CallsAre DEF Request
<1>10. \A c \in Callees(h) : c \in Servers /\ Host[CallOf(handling[s]).op] = Role[c]
  BY <1>5 DEF Callees
<1>11. /\ Genuine(CallOf(handling[s]), sent, spans)
       /\ CallOf(handling[s]).id[1] = h.req.id[1]
  <2>1. PICK r : r = handling[s].req
    OBVIOUS
  <2>2. PICK k : k = h.made
    OBVIOUS
  <2>3. PICK p : p = IF h.got.price = None THEN 0 ELSE h.got.price
    OBVIOUS
  <2>4. /\ Genuine(r, sent, spans) /\ SpanOf(r.id[1], sent, r.op) \in spans
        /\ k \in 1..Len(Calls[r.op])
    BY <1>1, <1>2, <1>3, <2>1, <2>2
  <2>5. /\ Genuine([id |-> Append(r.id, k), op |-> Calls[r.op][k], price |-> p,
                       tp |-> [trace |-> SpanOf(r.id[1], sent, r.op).trace,
                               span |-> SpanOf(r.id[1], sent, r.op).id]], sent, spans)
        /\ Append(r.id, k)[1] = r.id[1]
    <3>1. sent \in Seq(Routes)
      BY DEF StateTypes
    <3>. QED  BY <2>4, <3>1, CallIsGenuine
  <2>6. CallOf(handling[s]) =
            [id |-> Append(r.id, k), op |-> Calls[r.op][k], price |-> p,
             tp |-> [trace |-> SpanOf(r.id[1], sent, r.op).trace,
                     span |-> SpanOf(r.id[1], sent, r.op).id]]
    BY <1>1, <1>2, <1>5, <2>1, <2>2, <2>3 DEF Awaited, Traceparent
  <2>7. Genuine(CallOf(handling[s]), sent, spans)
    BY ONLY <2>5, <2>6, Zenon
  <2>8. CallOf(handling[s]).id = Append(r.id, k)
    BY ONLY <2>6
  <2>. QED  BY <1>2, <2>1, <2>5, <2>7, <2>8
<1>. QED  BY <1>2, <1>3, <1>5, <1>9, <1>10, <1>11
----------------------------------------------------------------------------
LEMMA InitTypes == Init => StateTypes
BY BoundsAssumption DEF Init, StateTypes, QueueTypes, HandlerTypes, ChannelTypes

\* A request of the load: what LoadSends enqueues.
LoadRequest(n, route) == [id |-> <<n>>, op |-> route, price |-> 0, tp |-> None]

LEMMA LoadSendsIs ==
    ASSUME StateTypes, NEW route \in Routes, LoadSends(route)
    PROVE  /\ sent' \in Seq(Routes) /\ Len(sent') = Len(sent) + 1 /\ Longer(sent, sent')
           /\ Len(sent') \in DOMAIN sent' /\ sent'[Len(sent')] = route
           /\ Len(sent') \notin DOMAIN sent
           /\ LoadRequest(Len(sent'), route) \in Request
           /\ route \in Ops /\ Host[route] = "gateway"
           /\ \/ /\ \E s \in Servers :
                      Role[s] = "gateway" /\ Enqueue(s, LoadRequest(Len(sent'), route))
                 /\ load' = <<Len(sent')>>
              \/ UNCHANGED <<queue, load>>
<1>1. sent \in Seq(Routes) /\ sent' = Append(sent, route)
  BY DEF StateTypes, LoadSends
<1>2. /\ sent' \in Seq(Routes) /\ Len(sent') = Len(sent) + 1 /\ Len(sent) \in Nat
      /\ DOMAIN sent = 1..Len(sent) /\ DOMAIN sent' = 1..Len(sent')
      /\ sent'[Len(sent')] = route
  BY <1>1
<1>3. Longer(sent, sent')
  BY <1>1, LongerAppend
<1>4. /\ Len(sent') \in Nat /\ Len(sent') \in DOMAIN sent' /\ Len(sent') \notin DOMAIN sent
  <2>1. PICK l \in Nat : l = Len(sent)
    BY <1>2
  <2>2. /\ l + 1 \in Nat /\ l + 1 \in 1..(l + 1) /\ l + 1 \notin 1..l
    OBVIOUS
  <2>. QED  BY <1>2, <2>1, <2>2
<1>5. route \in Ops /\ Host[route] = "gateway"
  BY RoutesAssumption, HostIs DEF Ops, GatewayOps
<1>6. LoadRequest(Len(sent'), route) \in Request
  <2>1. \A n \in Nat : <<n>> \in Seq(Nat)
    OBVIOUS
  <2>. QED  BY <1>4, <1>5, <2>1, CallsAre DEF LoadRequest, Request
<1>7. \/ /\ \E s \in Servers :
              Role[s] = "gateway" /\ Enqueue(s, LoadRequest(Len(sent'), route))
         /\ load' = <<Len(sent')>>
      \/ UNCHANGED <<queue, load>>
  BY DEF LoadSends, LoadRequest
<1>. QED  BY <1>2, <1>3, <1>4, <1>5, <1>6, <1>7

\* The types of the queues after a request was added.
LEMMA EnqueueTypes ==
    ASSUME QueueTypes, NEW c \in Servers, NEW r \in Request, Host[r.op] = Role[c],
           Enqueue(c, r)
    PROVE  QueueTypes'
<1>1. queue \in [Servers -> Seq(Request)]
  BY DEF QueueTypes
<1>2. /\ queue' \in [Servers -> Seq(Request)]
      /\ \A s \in Servers : \A i \in DOMAIN queue'[s] :
                 \/ i \in DOMAIN queue[s] /\ queue'[s][i] = queue[s][i]
                 \/ s = c /\ i = Len(queue[c]) + 1 /\ queue'[s][i] = r
  BY <1>1, EnqueueIs
<1>3. ASSUME NEW s \in Servers, NEW i \in DOMAIN queue'[s] PROVE Host[queue'[s][i].op] = Role[s]
  <2>1. CASE i \in DOMAIN queue[s] /\ queue'[s][i] = queue[s][i]
    BY <2>1 DEF QueueTypes
  <2>2. CASE s = c /\ queue'[s][i] = r
    BY <2>2
  <2>. QED  BY <1>2, <1>3, <2>1, <2>2
<1>. QED  BY <1>2, <1>3 DEF QueueTypes

\* The types of the handlers after one of them changed.
LEMMA HandlerTypesKept ==
    ASSUME HandlerTypes, NEW s \in Servers, NEW h,
           DOMAIN handling' = Servers, handling'[s] = h,
           \A t \in Servers : t # s => handling'[t] = handling[t],
           spans \subseteq spans',
           h # None => /\ h \in Handler /\ h.made <= Len(Calls[h.req.op])
                       /\ Host[h.req.op] = Role[s] /\ h.span \in spans'
    PROVE  HandlerTypes'
BY DEF HandlerTypes

LEMMA LoadSendsTypes ==
    ASSUME StateTypes, NEW route \in Routes, LoadSends(route)
    PROVE  StateTypes'
<1>1. /\ sent' \in Seq(Routes) /\ Longer(sent, sent')
      /\ LoadRequest(Len(sent'), route) \in Request
      /\ Host[route] = "gateway"
      /\ \/ /\ \E s \in Servers :
                 Role[s] = "gateway" /\ Enqueue(s, LoadRequest(Len(sent'), route))
            /\ load' = <<Len(sent')>>
         \/ UNCHANGED <<queue, load>>
  BY LoadSendsIs
<1>2. QueueTypes'
  <2>. QueueTypes
    BY DEF StateTypes
  <2>1. PICK r : r = LoadRequest(Len(sent'), route)
    OBVIOUS
  <2>2. CASE \E s \in Servers : Role[s] = "gateway" /\ Enqueue(s, r)
    <3>1. PICK s \in Servers : Role[s] = "gateway" /\ Enqueue(s, r)
      BY <2>2
    <3>2. r \in Request /\ Host[r.op] = Role[s]
      BY <1>1, <2>1, <3>1 DEF LoadRequest
    <3>. QED  BY <3>1, <3>2, EnqueueTypes
  <2>3. CASE UNCHANGED queue
    BY <2>3 DEF QueueTypes
  <2>. QED  BY <1>1, <2>1, <2>2, <2>3
<1>3. load' = None \/ load' = <<Len(sent')>>
  BY <1>1 DEF LoadSends
<1>4. DOMAIN sent \subseteq DOMAIN sent'
  BY <1>1 DEF Longer
<1>5. UNCHANGED <<handling, items, channel, answered, spans, saver, spoiled, crashes>>
  BY DEF LoadSends
<1>6. HandlerTypes' /\ ChannelTypes'
  BY <1>5 DEF StateTypes, HandlerTypes, ChannelTypes
<1>. QED  BY <1>1, <1>2, <1>3, <1>4, <1>5, <1>6 DEF StateTypes

\* What a failed call leaves behind.
LEMMA SpoilTypes ==
    ASSUME StateTypes, TreeInv, NEW s \in Servers, handling[s] # None,
           NEW h \in Handler, h.req = handling[s].req, h.span = handling[s].span,
           h.made <= Len(Calls[h.req.op]),
           handling' = [handling EXCEPT ![s] = h], Spoil(s)
    PROVE  StateTypes'
<1>1. handling[s].req.id[1] \in DOMAIN sent /\ handling[s].span \in spans
      /\ Host[handling[s].req.op] = Role[s]
  BY HandlerIs
<1>2. spoiled' \subseteq DOMAIN sent
  BY <1>1 DEF StateTypes, Spoil
<1>3. HandlerTypes
  BY DEF StateTypes
<1>4. UNCHANGED <<queue, items, channel, load, sent, answered, spans, saver, crashes>>
  BY DEF Spoil
<1>5. HandlerTypes'
  <2>1. /\ DOMAIN handling' = Servers /\ handling'[s] = h
        /\ \A t \in Servers : t # s => handling'[t] = handling[t]
    BY <1>3 DEF HandlerTypes
  <2>. QED  BY <1>1, <1>3, <1>4, <2>1, HandlerTypesKept
<1>6. QueueTypes' /\ ChannelTypes'
  BY <1>4 DEF StateTypes, QueueTypes, ChannelTypes
<1>. QED  BY <1>2, <1>4, <1>5, <1>6 DEF StateTypes

LEMMA AcceptTypes ==
    ASSUME StateTypes, TreeInv, NEW s \in Servers, Accept(s)
    PROVE  StateTypes'
<1>. QueueTypes /\ HandlerTypes /\ ChannelTypes
  BY DEF StateTypes
<1>1. queue \in [Servers -> Seq(Request)] /\ queue[s] # << >>
      /\ queue' = [queue EXCEPT ![s] = Rest(@)]
  BY DEF QueueTypes, Accept
<1>2. /\ queue' \in [Servers -> Seq(Request)]
      /\ 1 \in DOMAIN queue[s] /\ Head(queue[s]) = queue[s][1] /\ queue[s][1] \in Request
      /\ \A t \in Servers : t # s => queue'[t] = queue[t]
      /\ \A i \in DOMAIN queue'[s] : /\ i \in Nat /\ i > 0 /\ i + 1 \in DOMAIN queue[s]
                                     /\ queue'[s][i] = queue[s][i + 1]
  BY <1>1, DequeueIs
<1>3. PICK r : r = Head(queue[s])
  OBVIOUS
<1>4. r \in Request /\ Host[r.op] = Role[s]
  BY <1>2, <1>3 DEF QueueTypes
<1>5. PICK h : h = [req |-> r, span |-> Child(r), phase |-> "working",
                    made |-> 0, got |-> Unanswered]
  OBVIOUS
<1>6. Child(r) \in Span
  <2>1. r.id \in Seq(Nat) /\ r.op \in DOMAIN Host
    BY <1>4 DEF Request
  <2>2. r.tp = None \/ (r.tp.trace \in Seq(Nat) /\ r.tp.span \in Seq(Nat))
    BY <1>4 DEF Request, Context
  <2>. QED  BY <2>1, <2>2 DEF Child, Span
<1>7. h \in Handler
  BY <1>4, <1>5, <1>6 DEF Handler, Unanswered, Answer
<1>8. h.made <= Len(Calls[h.req.op])
  <2>1. r.op \in Ops
    BY <1>4, CallsAre DEF Request
  <2>2. Len(Calls[r.op]) \in Nat
    BY <2>1, CallsType
  <2>. QED  BY <1>5, <2>2
<1>9. spans' = spans \union {Child(r)}
  BY <1>3 DEF Accept
<1>10. UNCHANGED <<items, channel, load, sent, answered, saver, spoiled, crashes>>
  BY DEF Accept
<1>11. QueueTypes'
  <2>1. \A i \in DOMAIN queue'[s] : Host[queue'[s][i].op] = Role[s]
    BY <1>2 DEF QueueTypes
  <2>2. \A t \in Servers : t # s => \A i \in DOMAIN queue'[t] : Host[queue'[t][i].op] = Role[t]
    BY <1>2 DEF QueueTypes
  <2>. QED  BY <1>2, <2>1, <2>2 DEF QueueTypes
<1>12. HandlerTypes'
  <2>1. /\ DOMAIN handling' = Servers /\ handling'[s] = h
        /\ \A t \in Servers : t # s => handling'[t] = handling[t]
    BY <1>3, <1>5 DEF HandlerTypes, Accept
  <2>2. h.span \in spans' /\ Host[h.req.op] = Role[s] /\ spans \subseteq spans'
    BY <1>4, <1>5, <1>9
  <2>. QED  BY <1>7, <1>8, <2>1, <2>2, HandlerTypesKept
<1>13. ChannelTypes'
  BY <1>9, <1>10 DEF ChannelTypes
<1>. QED  BY <1>6, <1>9, <1>10, <1>11, <1>12, <1>13 DEF StateTypes

\* What CallOut does, with the request by its name.
LEMMA CallOutEither ==
    ASSUME NEW s, CallOut(s), NEW h, h = NextCall(handling[s]),
           CallOf(handling[s]) = [id |-> Awaited(h), op |-> Calls[h.req.op][h.made],
                 price |-> IF h.got.price = None THEN 0 ELSE h.got.price, tp |-> Traceparent(h)]
    PROVE  \/ /\ handling' = [handling EXCEPT ![s] = [h EXCEPT !.phase = "waiting"]]
              /\ \E c \in Callees(h) : Enqueue(c, CallOf(handling[s]))
              /\ UNCHANGED <<items, channel, load, history>>
           \/ handling' = [handling EXCEPT ![s] = h] /\ Spoil(s)
<1>1. h = [handling[s] EXCEPT !.made = @ + 1]
  BY DEF NextCall
<1>. QED  BY <1>1, Zenon DEF CallOut

LEMMA CallOutTypes ==
    ASSUME StateTypes, TreeInv, NEW s \in Servers, CallOut(s)
    PROVE  StateTypes'
<1>1. PICK h : h = NextCall(handling[s])
  OBVIOUS
<1>2. handling[s] # None /\ CallsLeft(handling[s])
  BY DEF CallOut
<1>3. /\ h \in Handler /\ h.req = handling[s].req /\ h.span = handling[s].span
      /\ h.made \in 1..Len(Calls[h.req.op])
      /\ CallOf(handling[s]) = [id |-> Awaited(h), op |-> Calls[h.req.op][h.made],
            price |-> IF h.got.price = None THEN 0 ELSE h.got.price, tp |-> Traceparent(h)]
      /\ CallOf(handling[s]) \in Request
      /\ \A c \in Callees(h) : c \in Servers /\ Host[CallOf(handling[s]).op] = Role[c]
  BY <1>1, <1>2, CallOutIs
<1>4. h.made <= Len(Calls[h.req.op])
  <2>1. h.req.op \in Ops
    BY <1>2, <1>3, HandlerIs
  <2>2. Len(Calls[h.req.op]) \in Nat
    BY <2>1, CallsType
  <2>. QED  BY <1>3, <2>2
<1>5. CASE /\ handling' = [handling EXCEPT ![s] = [h EXCEPT !.phase = "waiting"]]
           /\ \E c \in Callees(h) : Enqueue(c, CallOf(handling[s]))
           /\ UNCHANGED <<items, channel, load, history>>
  <2>1. QueueTypes'
    <3>1. PICK r : r = CallOf(handling[s])
      OBVIOUS
    <3>2. PICK c \in Callees(h) : Enqueue(c, r)
      BY <1>5, <3>1
    <3>3. c \in Servers /\ r \in Request /\ Host[r.op] = Role[c]
      BY <1>3, <3>1, <3>2
    <3>. QED  BY <3>2, <3>3, EnqueueTypes DEF StateTypes
  <2>2. UNCHANGED <<items, channel, load, sent, answered, spans, saver, spoiled, crashes>>
    BY <1>5 DEF history
  <2>3. HandlerTypes'
    <3>1. PICK g : g = [h EXCEPT !.phase = "waiting"]
      OBVIOUS
    <3>2. g \in Handler /\ g.req = h.req /\ g.span = h.span /\ g.made = h.made
      BY <1>3, <3>1 DEF Handler
    <3>3. /\ DOMAIN handling' = Servers /\ handling'[s] = g
          /\ \A t \in Servers : t # s => handling'[t] = handling[t]
      BY <1>5, <3>1 DEF StateTypes, HandlerTypes
    <3>4. handling[s].span \in spans /\ Host[handling[s].req.op] = Role[s]
      BY <1>2 DEF StateTypes, HandlerTypes
    <3>5. spans' = spans /\ g.made <= Len(Calls[g.req.op])
      BY <1>4, <2>2, <3>2
    <3>6. Host[g.req.op] = Role[s] /\ g.span \in spans'
      BY <1>3, <3>2, <3>4, <3>5
    <3>. QED  BY <3>2, <3>3, <3>5, <3>6, HandlerTypesKept DEF StateTypes
  <2>4. ChannelTypes'
    BY <2>2 DEF StateTypes, ChannelTypes
  <2>. QED  BY <2>1, <2>2, <2>3, <2>4 DEF StateTypes
<1>6. CASE handling' = [handling EXCEPT ![s] = h] /\ Spoil(s)
  BY <1>2, <1>3, <1>4, <1>6, SpoilTypes
<1>7. \/ /\ handling' = [handling EXCEPT ![s] = [h EXCEPT !.phase = "waiting"]]
         /\ \E c \in Callees(h) : Enqueue(c, CallOf(handling[s]))
         /\ UNCHANGED <<items, channel, load, history>>
      \/ handling' = [handling EXCEPT ![s] = h] /\ Spoil(s)
  BY <1>1, <1>3, CallOutEither
<1>. QED  BY <1>5, <1>6, <1>7

LEMMA CallResetTypes ==
    ASSUME StateTypes, TreeInv, NEW s \in Servers, CallReset(s)
    PROVE  StateTypes'
<1>1. PICK h : h = [handling[s] EXCEPT !.phase = "working"]
  OBVIOUS
<1>2. handling[s] # None /\ handling[s] \in Handler
  BY DEF CallReset, StateTypes, HandlerTypes
<1>3. h \in Handler /\ h.req = handling[s].req /\ h.span = handling[s].span
      /\ h.made = handling[s].made
  BY <1>1, <1>2 DEF Handler
<1>4. handling' = [handling EXCEPT ![s] = h] /\ Spoil(s)
  BY <1>1 DEF CallReset
<1>5. h.made <= Len(Calls[h.req.op])
  BY <1>2, <1>3, HandlerIs
<1>. QED  BY <1>2, <1>3, <1>4, <1>5, SpoilTypes

LEMMA SpanEndsTypes ==
    ASSUME StateTypes, TreeInv, NEW s \in Servers, SpanEnds(s)
    PROVE  StateTypes'
<1>. QueueTypes /\ HandlerTypes /\ ChannelTypes
  BY DEF StateTypes
<1>1. handling[s] # None
  BY DEF SpanEnds
<1>2. PICK x : x = handling[s].span
  OBVIOUS
<1>3. x \in spans /\ Host[x.op] = Role[s]
  <2>1. /\ handling[s].span = SpanOf(handling[s].req.id[1], sent, handling[s].req.op)
        /\ handling[s].span \in spans /\ Host[handling[s].req.op] = Role[s]
    BY <1>1, HandlerIs
  <2>. QED  BY <1>2, <2>1 DEF SpanOf
<1>4. x \in Span /\ channel[s] \in Seq(Span)
  BY <1>3 DEF StateTypes, ChannelTypes
<1>5. UNCHANGED <<queue, items, load, sent, answered, spans, saver, spoiled, crashes>>
  BY DEF SpanEnds, history
<1>6. ChannelTypes'
  <2>1. channel' = [channel EXCEPT ![s] = Append(channel[s], x)]
    BY <1>2 DEF SpanEnds
  <2>2. Append(channel[s], x) \in Seq(Span)
    BY <1>4, AppendProperties
  <2>3. \A i \in DOMAIN Append(channel[s], x) :
           \/ Append(channel[s], x)[i] = x
           \/ i \in DOMAIN channel[s] /\ Append(channel[s], x)[i] = channel[s][i]
    BY <1>4
  <2>4. /\ channel'[s] = Append(channel[s], x) /\ channel' \in [Servers -> Seq(Span)]
        /\ \A t \in Servers : t # s => channel'[t] = channel[t]
    BY <2>1, <2>2 DEF ChannelTypes
  <2>5. \A i \in DOMAIN channel'[s] : channel'[s][i] \in spans /\ Host[channel'[s][i].op] = Role[s]
    BY <1>3, <2>3, <2>4 DEF ChannelTypes
  <2>. QED  BY <1>5, <2>4, <2>5 DEF ChannelTypes
<1>7. HandlerTypes'
  BY <1>5 DEF SpanEnds, HandlerTypes
<1>8. QueueTypes'
  BY <1>5 DEF QueueTypes
<1>. QED  BY <1>5, <1>6, <1>7, <1>8 DEF StateTypes

\* The handlers after one of them responded: who waits for the answer goes on with it.
LEMMA RespondIs ==
    ASSUME StateTypes, TreeInv, NEW s \in Servers, Respond(s), NEW h, h = handling[s]
    PROVE  /\ h # None /\ h \in Handler /\ h.req \in Request /\ h.req.id[1] \in DOMAIN sent
           /\ h.got \in Answer /\ h.req.op \in Ops /\ h.phase = "working" /\ ~CallsLeft(h)
           /\ DOMAIN handling' = Servers
           /\ handling'[s] = [h EXCEPT !.phase = "responded"]
           /\ [h EXCEPT !.phase = "responded"] \in Handler
           /\ Body(s, h) \in Answer
           /\ \A c \in Servers : c # s /\ ~Awaits(c, h.req.id) => handling'[c] = handling[c]
           /\ \A c \in Servers : c # s /\ Awaits(c, h.req.id) =>
                /\ handling[c] # None /\ handling[c] \in Handler /\ handling'[c] \in Handler
                /\ handling[c].phase = "waiting" /\ Awaited(handling[c]) = h.req.id
                /\ handling'[c].req = handling[c].req /\ handling'[c].span = handling[c].span
                /\ handling'[c].made = handling[c].made /\ handling'[c].phase = "working"
                /\ handling'[c].got = Merged(handling[c].got, Body(s, h))
<1>1. /\ h # None /\ h \in Handler /\ h.req \in Request /\ h.req.id[1] \in DOMAIN sent
      /\ h.got \in Answer /\ h.req.op \in Ops /\ h.phase = "working" /\ ~CallsLeft(h)
  BY HandlerIs DEF Respond
<1>2. Body(s, h) \in Answer
  <2>1. Len(items[s]) \in Nat
    BY DEF StateTypes
  <2>2. OrderId(s) \in Nat
    BY <2>1 DEF OrderId
  <2>. QED  BY <1>1, <2>1, <2>2 DEF Body, Answer, Unanswered
<1>3. \A g \in Answer : Merged(g, Body(s, h)) \in Answer
  BY <1>2 DEF Merged, Answer
<1>4. /\ DOMAIN handling' = Servers
      /\ \A c \in Servers : handling'[c] =
             IF c = s THEN [h EXCEPT !.phase = "responded"]
             ELSE IF Awaits(c, h.req.id)
             THEN [handling[c] EXCEPT !.phase = "working", !.got = Merged(@, Body(s, h))]
             ELSE handling[c]
  BY DEF Respond
<1>5. [h EXCEPT !.phase = "responded"] \in Handler
  BY <1>1 DEF Handler
<1>6. ASSUME NEW c \in Servers, c # s, Awaits(c, h.req.id)
      PROVE  /\ handling[c] # None /\ handling[c] \in Handler /\ handling'[c] \in Handler
             /\ handling[c].phase = "waiting" /\ Awaited(handling[c]) = h.req.id
             /\ handling'[c].req = handling[c].req /\ handling'[c].span = handling[c].span
             /\ handling'[c].made = handling[c].made /\ handling'[c].phase = "working"
             /\ handling'[c].got = Merged(handling[c].got, Body(s, h))
  <2>1. handling[c] # None /\ handling[c].phase = "waiting" /\ Awaited(handling[c]) = h.req.id
    BY <1>6 DEF Awaits
  <2>2. handling[c] \in Handler
    BY <2>1 DEF StateTypes, HandlerTypes
  <2>3. PICK m \in Answer : m = Merged(handling[c].got, Body(s, h))
    BY <1>3, <2>2 DEF Handler
  <2>4. handling'[c] = [handling[c] EXCEPT !.phase = "working", !.got = m]
    BY <1>4, <1>6, <2>3
  <2>5. /\ handling'[c] \in Handler
        /\ handling'[c].req = handling[c].req /\ handling'[c].span = handling[c].span
        /\ handling'[c].made = handling[c].made /\ handling'[c].phase = "working"
        /\ handling'[c].got = m
    BY <2>2, <2>3, <2>4 DEF Handler
  <2>. QED  BY <2>1, <2>2, <2>3, <2>5
<1>7. \A c \in Servers : c # s /\ ~Awaits(c, h.req.id) => handling'[c] = handling[c]
  BY <1>4
<1>. QED  BY <1>1, <1>2, <1>4, <1>5, <1>6, <1>7

LEMMA RespondTypes ==
    ASSUME StateTypes, TreeInv, NEW s \in Servers, Respond(s)
    PROVE  StateTypes'
<1>. QueueTypes /\ HandlerTypes /\ ChannelTypes
  BY DEF StateTypes
<1>1. PICK h : h = handling[s]
  OBVIOUS
<1>2. /\ h # None /\ h \in Handler /\ h.req \in Request /\ h.req.id[1] \in DOMAIN sent
      /\ DOMAIN handling' = Servers
      /\ handling'[s] = [h EXCEPT !.phase = "responded"]
      /\ [h EXCEPT !.phase = "responded"] \in Handler
      /\ Body(s, h) \in Answer
      /\ \A c \in Servers : c # s /\ ~Awaits(c, h.req.id) => handling'[c] = handling[c]
      /\ \A c \in Servers : c # s /\ Awaits(c, h.req.id) =>
           /\ handling[c] # None /\ handling'[c] \in Handler
           /\ handling'[c].req = handling[c].req /\ handling'[c].span = handling[c].span
           /\ handling'[c].made = handling[c].made
  BY <1>1, RespondIs
<1>3. items' \in [Servers -> Seq(0..1)]
  <2>1. h.req.price \in 0..1 /\ items \in [Servers -> Seq(0..1)]
    BY <1>2 DEF Request, StateTypes
  <2>2. PICK q : q = Append(items[s], h.req.price)
    OBVIOUS
  <2>3. q \in Seq(0..1)
    BY <2>1, <2>2, AppendProperties
  <2>4. items' = items \/ items' = [items EXCEPT ![s] = q]
    BY <1>1, <2>2 DEF Respond
  <2>. QED  BY <2>1, <2>3, <2>4
<1>8. /\ DOMAIN saver' \subseteq DOMAIN sent
      /\ \A n \in DOMAIN saver' : saver'[n] \in Servers
  <2>1. PICK k \in DOMAIN sent : k = h.req.id[1]
    BY <1>2
  <2>2. \/ saver' = saver
        \/ saver' = [n \in DOMAIN saver \union {k} |-> IF n = k THEN s ELSE saver[n]]
    BY <1>1, <2>1 DEF Respond
  <2>. QED  BY <2>1, <2>2 DEF StateTypes
<1>4. UNCHANGED <<queue, channel, sent, spans, spoiled, crashes>>
  BY DEF Respond
<1>5. HandlerTypes'
  <2>1. ASSUME NEW c \in Servers, handling'[c] # None
        PROVE  /\ handling'[c] \in Handler
               /\ handling'[c].made <= Len(Calls[handling'[c].req.op])
               /\ Host[handling'[c].req.op] = Role[c]
               /\ handling'[c].span \in spans
    <3>1. CASE c = s
      <4>1. PICK g : g = [h EXCEPT !.phase = "responded"]
        OBVIOUS
      <4>2. g \in Handler /\ g.made = h.made /\ g.req = h.req /\ g.span = h.span
        BY <1>2, <4>1 DEF Handler
      <4>3. handling'[c] = g
        BY <1>2, <3>1, <4>1
      <4>. QED  BY <1>1, <1>2, <3>1, <4>2, <4>3 DEF HandlerTypes
    <3>2. CASE c # s /\ Awaits(c, h.req.id)
      BY <1>2, <3>2 DEF HandlerTypes
    <3>3. CASE c # s /\ ~Awaits(c, h.req.id)
      <4>1. handling'[c] = handling[c]
        BY <1>2, <3>3
      <4>. QED  BY <2>1, <4>1 DEF HandlerTypes
    <3>. QED  BY <3>1, <3>2, <3>3
  <2>. QED  BY <1>2, <1>4, <2>1 DEF HandlerTypes
<1>6. /\ load' = None \/ load' = load
      /\ DOMAIN answered' \subseteq DOMAIN sent
      /\ \A n \in DOMAIN answered' : answered'[n] \in Answer
  <2>1. CASE load = h.req.id
    <3>1. PICK b : b = Body(s, h)
      OBVIOUS
    <3>2. PICK l : l = load[1]
      OBVIOUS
    <3>3. b \in Answer /\ l \in DOMAIN sent
      BY <1>2, <2>1, <3>1, <3>2
    <3>4. load' = None /\ answered' = [n \in DOMAIN answered \union {l} |->
                                         IF n = l THEN b ELSE answered[n]]
      BY <1>1, <2>1, <3>1, <3>2 DEF Respond
    <3>. QED  BY <3>3, <3>4 DEF StateTypes
  <2>2. CASE load # h.req.id
    BY <1>1, <2>2 DEF Respond, StateTypes
  <2>. QED  BY <2>1, <2>2
<1>7. QueueTypes' /\ ChannelTypes'
  BY <1>4 DEF QueueTypes, ChannelTypes
<1>. QED  BY <1>3, <1>4, <1>5, <1>6, <1>7, <1>8 DEF StateTypes

LEMMA ServeTypes ==
    ASSUME StateTypes, TreeInv, NEW s \in Servers, Serve(s)
    PROVE  StateTypes'
BY AcceptTypes, CallOutTypes, CallResetTypes, RespondTypes, SpanEndsTypes DEF Serve

LEMMA ExportTypes ==
    ASSUME StateTypes, NEW s \in Servers, Export(s)
    PROVE  StateTypes'
<1>1. channel[s] \in Seq(Span) /\ channel[s] # << >>
  BY DEF StateTypes, ChannelTypes, Export
<1>2. /\ Tail(channel[s]) \in Seq(Span)
      /\ \A i \in DOMAIN Tail(channel[s]) :
           i + 1 \in DOMAIN channel[s] /\ Tail(channel[s])[i] = channel[s][i + 1]
  BY <1>1
<1>3. channel' = [channel EXCEPT ![s] = Tail(channel[s])]
  BY DEF Export
<1>4. UNCHANGED <<queue, handling, items, load, sent, answered, spans, saver, spoiled, crashes>>
  BY DEF Export, history
<1>5. ChannelTypes'
  BY <1>2, <1>3, <1>4 DEF StateTypes, ChannelTypes
<1>6. QueueTypes' /\ HandlerTypes'
  BY <1>4 DEF StateTypes, QueueTypes, HandlerTypes
<1>. QED  BY <1>4, <1>5, <1>6 DEF StateTypes

LEMMA CrashTypes ==
    ASSUME StateTypes, NEW s \in Servers, Crash(s)
    PROVE  StateTypes'
<1>1. /\ queue' = [queue EXCEPT ![s] = << >>] /\ handling' = [handling EXCEPT ![s] = None]
      /\ channel' = [channel EXCEPT ![s] = << >>]
      /\ items' = [items EXCEPT ![s] = << >>]
      /\ UNCHANGED <<load, sent, answered, spans, saver, spoiled>>
  BY DEF Crash
<1>2. crashes' \in Seq(Servers) /\ Len(crashes') <= MaxCrashes
  <2>1. crashes \in Seq(Servers) /\ crashes' = Append(crashes, s) /\ Len(crashes) < MaxCrashes
    BY DEF Crash, StateTypes
  <2>2. Len(crashes') = Len(crashes) + 1 /\ Len(crashes) \in Nat /\ crashes' \in Seq(Servers)
    BY <2>1
  <2>3. PICK l \in Nat : l = Len(crashes)
    BY <2>2
  <2>. QED  BY <2>1, <2>2, <2>3, BoundsAssumption
<1>3. items' \in [Servers -> Seq(0..1)]
  <2>1. << >> \in Seq(0..1)
    OBVIOUS
  <2>. QED  BY <1>1, <2>1 DEF StateTypes
<1>4. QueueTypes'
  <2>1. queue' \in [Servers -> Seq(Request)] /\ queue'[s] = << >>
        /\ \A t \in Servers : t # s => queue'[t] = queue[t]
    BY <1>1 DEF StateTypes, QueueTypes
  <2>2. \A i \in DOMAIN queue'[s] : Host[queue'[s][i].op] = Role[s]
    BY <2>1
  <2>. QED  BY <2>1, <2>2 DEF StateTypes, QueueTypes
<1>5. ChannelTypes'
  <2>1. channel' \in [Servers -> Seq(Span)] /\ channel'[s] = << >>
        /\ \A t \in Servers : t # s => channel'[t] = channel[t]
    BY <1>1 DEF StateTypes, ChannelTypes
  <2>. QED  BY <1>1, <2>1 DEF StateTypes, ChannelTypes
<1>6. HandlerTypes'
  BY <1>1 DEF StateTypes, HandlerTypes
<1>. QED  BY <1>1, <1>2, <1>3, <1>4, <1>5, <1>6 DEF StateTypes

LEMMA StepTypes == StateTypes /\ TreeInv /\ [Next]_vars => StateTypes'
<1>. SUFFICES ASSUME StateTypes, TreeInv, [Next]_vars PROVE StateTypes'
  OBVIOUS
<1>1. CASE UNCHANGED vars
  BY <1>1 DEF vars, servers, history, StateTypes, QueueTypes, HandlerTypes, ChannelTypes
<1>2. ASSUME LoadTimesOut \/ LoadReset PROVE StateTypes'
  BY <1>2 DEF LoadTimesOut, LoadReset, servers, history, StateTypes, QueueTypes, HandlerTypes,
              ChannelTypes
<1>. QED  BY <1>1, <1>2, LoadSendsTypes, ServeTypes, ExportTypes, CrashTypes DEF Next
----------------------------------------------------------------------------
(***************************************************************************)
(* What a step does to the requests: one comes from the load, one is       *)
(* accepted, one is made by a handler, or none is new.                     *)
(***************************************************************************)
Sending(route) ==
    /\ LoadSends(route)
    /\ \E s \in Servers : Role[s] = "gateway" /\ Enqueue(s, LoadRequest(Len(sent'), route))

Calling(s) ==
    /\ handling[s] # None /\ CallsLeft(handling[s])
    /\ \E c \in Callees(NextCall(handling[s])) : Enqueue(c, CallOf(handling[s]))
    /\ handling'[s].req = handling[s].req /\ handling'[s].span = handling[s].span
    /\ handling'[s].made = handling[s].made + 1 /\ handling'[s].got = handling[s].got
    /\ handling'[s].phase = "waiting"
    /\ \A t \in Servers : t # s => handling'[t] = handling[t]
    /\ UNCHANGED <<items, channel, load, history>>

Quiet ==
    /\ \A s \in Servers :
         /\ queue'[s] = queue[s] \/ queue'[s] = << >>
         /\ handling'[s] # None =>
              /\ handling[s] # None
              /\ handling'[s].req = handling[s].req /\ handling'[s].span = handling[s].span
              /\ handling[s].made <= handling'[s].made
    /\ Longer(sent, sent') /\ spans' = spans

\* Steps that leave the requests alone, or lose some.
LEMMA HandlersKept ==
    ASSUME StateTypes, NEW s \in Servers, handling'[s] = handling[s], handling'[s] # None
    PROVE  /\ handling[s] # None
           /\ handling'[s].req = handling[s].req /\ handling'[s].span = handling[s].span
           /\ handling[s].made <= handling'[s].made
<1>1. handling[s].made \in Nat
  BY DEF StateTypes, HandlerTypes, Handler
<1>. QED  BY <1>1

LEMMA CallOutShape ==
    ASSUME StateTypes, TreeInv, NEW s \in Servers, CallOut(s)
    PROVE  Calling(s) \/ Quiet
<1>1. PICK h : h = NextCall(handling[s])
  OBVIOUS
<1>2. handling[s] # None /\ CallsLeft(handling[s])
  BY DEF CallOut
<1>3. /\ h \in Handler /\ h.req = handling[s].req /\ h.span = handling[s].span
      /\ h.made = handling[s].made + 1 /\ h.got = handling[s].got
      /\ CallOf(handling[s]) = [id |-> Awaited(h), op |-> Calls[h.req.op][h.made],
            price |-> IF h.got.price = None THEN 0 ELSE h.got.price, tp |-> Traceparent(h)]
  BY <1>1, <1>2, CallOutIs
<1>4. \/ /\ handling' = [handling EXCEPT ![s] = [h EXCEPT !.phase = "waiting"]]
         /\ \E c \in Callees(h) : Enqueue(c, CallOf(handling[s]))
         /\ UNCHANGED <<items, channel, load, history>>
      \/ handling' = [handling EXCEPT ![s] = h] /\ Spoil(s)
  BY <1>1, <1>3 DEF CallOut, NextCall
<1>5. DOMAIN handling = Servers
  BY DEF StateTypes, HandlerTypes
<1>6. CASE /\ handling' = [handling EXCEPT ![s] = [h EXCEPT !.phase = "waiting"]]
           /\ \E c \in Callees(h) : Enqueue(c, CallOf(handling[s]))
           /\ UNCHANGED <<items, channel, load, history>>
  <2>1. PICK g : g = [h EXCEPT !.phase = "waiting"]
    OBVIOUS
  <2>2. /\ g.req = h.req /\ g.span = h.span /\ g.made = h.made /\ g.got = h.got
        /\ g.phase = "waiting"
    BY <1>3, <2>1 DEF Handler
  <2>3. handling'[s] = g /\ \A t \in Servers : t # s => handling'[t] = handling[t]
    BY <1>5, <1>6, <2>1
  <2>. QED  BY <1>1, <1>2, <1>3, <1>6, <2>2, <2>3 DEF Calling
<1>7. CASE handling' = [handling EXCEPT ![s] = h] /\ Spoil(s)
  <2>1. handling'[s] = h /\ \A t \in Servers : t # s => handling'[t] = handling[t]
    BY <1>5, <1>7
  <2>2. UNCHANGED <<queue, sent, spans>>
    BY <1>7 DEF Spoil
  <2>3. handling[s].made <= h.made
    <3>1. PICK m \in Nat : m = handling[s].made
      BY <1>2, HandlerIs
    <3>2. m <= m + 1
      OBVIOUS
    <3>. QED  BY <1>3, <3>1, <3>2
  <2>. QED  BY <1>2, <1>3, <2>1, <2>2, <2>3, HandlersKept, LongerSame DEF Quiet
<1>. QED  BY <1>4, <1>6, <1>7

LEMMA StepShapes ==
    ASSUME StateTypes, TreeInv, [Next]_vars
    PROVE  \/ \E route \in Routes : Sending(route)
           \/ \E s \in Servers : Accept(s) \/ Calling(s)
           \/ Quiet
<1>1. ASSUME UNCHANGED <<queue, handling, spans>>, Longer(sent, sent') PROVE Quiet
  BY <1>1, HandlersKept DEF Quiet
<1>2. CASE UNCHANGED vars \/ LoadTimesOut \/ LoadReset
  BY <1>1, <1>2, LongerSame DEF vars, servers, history, LoadTimesOut, LoadReset
<1>3. ASSUME NEW route \in Routes, LoadSends(route) PROVE Sending(route) \/ Quiet
  <2>1. Longer(sent, sent')
    BY <1>3, LoadSendsIs
  <2>2. \/ \E s \in Servers : Role[s] = "gateway" /\ Enqueue(s, LoadRequest(Len(sent'), route))
        \/ UNCHANGED <<queue, load>>
    BY <1>3, LoadSendsIs
  <2>3. UNCHANGED <<handling, spans>>
    BY <1>3 DEF LoadSends
  <2>. QED  BY <1>1, <1>3, <2>1, <2>2, <2>3 DEF Sending
<1>4. ASSUME NEW s \in Servers, CallReset(s) PROVE Quiet
  <2>1. PICK h : h = [handling[s] EXCEPT !.phase = "working"]
    OBVIOUS
  <2>2. handling[s] # None /\ handling[s] \in Handler /\ DOMAIN handling = Servers
    BY <1>4 DEF CallReset, StateTypes, HandlerTypes
  <2>3. h.req = handling[s].req /\ h.span = handling[s].span /\ h.made = handling[s].made
        /\ handling[s].made \in Nat
    BY <2>1, <2>2 DEF Handler
  <2>4. handling'[s] = h /\ (\A t \in Servers : t # s => handling'[t] = handling[t])
        /\ UNCHANGED <<queue, sent, spans>>
    BY <1>4, <2>1, <2>2 DEF CallReset, Spoil
  <2>. QED  BY <2>2, <2>3, <2>4, HandlersKept, LongerSame DEF Quiet
<1>5. ASSUME NEW s \in Servers, Respond(s) PROVE Quiet
  <2>1. PICK h : h = handling[s]
    OBVIOUS
  <2>2. PICK g : g = [h EXCEPT !.phase = "responded"]
    OBVIOUS
  <2>3. /\ h # None /\ h \in Handler
        /\ handling'[s] = g
        /\ \A c \in Servers : c # s /\ ~Awaits(c, h.req.id) => handling'[c] = handling[c]
        /\ \A c \in Servers : c # s /\ Awaits(c, h.req.id) =>
             /\ handling[c] # None /\ handling[c] \in Handler
             /\ handling'[c].req = handling[c].req /\ handling'[c].span = handling[c].span
             /\ handling'[c].made = handling[c].made
    BY <1>5, <2>1, <2>2, RespondIs
  <2>4. g.req = h.req /\ g.span = h.span /\ g.made = h.made /\ h.made \in Nat
    BY <2>2, <2>3 DEF Handler
  <2>5. \A c \in Servers : c # s /\ Awaits(c, h.req.id) => handling[c].made <= handling'[c].made
    <3>1. \A c \in Servers : c # s /\ Awaits(c, h.req.id) => handling[c].made \in Nat
      BY <2>3 DEF Handler
    <3>. QED  BY <2>3, <3>1
  <2>6. UNCHANGED <<queue, sent, spans>>
    BY <1>5 DEF Respond
  <2>. QED  BY <2>1, <2>3, <2>4, <2>5, <2>6, HandlersKept, LongerSame DEF Quiet
<1>6. ASSUME NEW s \in Servers, SpanEnds(s) PROVE Quiet
  <2>1. handling'[s] = None /\ (\A t \in Servers : t # s => handling'[t] = handling[t])
        /\ UNCHANGED <<queue, sent, spans>>
    BY <1>6 DEF SpanEnds, StateTypes, HandlerTypes, history
  <2>. QED  BY <2>1, HandlersKept, LongerSame DEF Quiet
<1>7. ASSUME NEW s \in Servers, Export(s) PROVE Quiet
  BY <1>1, <1>7, LongerSame DEF Export, history
<1>8. ASSUME NEW s \in Servers, Crash(s) PROVE Quiet
  <2>1. handling'[s] = None /\ (\A t \in Servers : t # s => handling'[t] = handling[t])
        /\ queue'[s] = << >> /\ (\A t \in Servers : t # s => queue'[t] = queue[t])
        /\ UNCHANGED <<sent, spans>>
    BY <1>8 DEF Crash, StateTypes, HandlerTypes, QueueTypes
  <2>. QED  BY <2>1, HandlersKept, LongerSame DEF Quiet
<1>. QED  BY <1>2, <1>3, <1>4, <1>5, <1>6, <1>7, <1>8, CallOutShape DEF Next, Serve
----------------------------------------------------------------------------
LEMMA InitTree == Init => TreeInv
BY DEF Init, TreeInv

\* Old requests and handlers stay genuine; so the tree stands when the new ones are.
LEMMA TreeKept ==
    ASSUME TreeInv, Longer(sent, sent'), spans \subseteq spans',
           \A s \in Servers : \A i \in DOMAIN queue'[s] :
               \/ \E j \in DOMAIN queue[s] : queue'[s][i] = queue[s][j]
               \/ Genuine(queue'[s][i], sent', spans'),
           \A s \in Servers : handling'[s] # None =>
               \/ /\ handling[s] # None
                  /\ handling'[s].req = handling[s].req /\ handling'[s].span = handling[s].span
               \/ /\ Genuine(handling'[s].req, sent', spans')
                  /\ handling'[s].span
                       = SpanOf(handling'[s].req.id[1], sent', handling'[s].req.op),
           \A x \in spans' : x \in spans \/ Rooted(x, sent', spans')
    PROVE  TreeInv'
<1>1. ASSUME NEW s \in Servers, NEW i \in DOMAIN queue'[s]
      PROVE  Genuine(queue'[s][i], sent', spans')
  <2>1. CASE \E j \in DOMAIN queue[s] : queue'[s][i] = queue[s][j]
    <3>1. PICK j \in DOMAIN queue[s] : queue'[s][i] = queue[s][j]
      BY <2>1
    <3>2. PICK r : r = queue[s][j]
      OBVIOUS
    <3>3. PICK st2, sp2 : st2 = sent' /\ sp2 = spans'
      OBVIOUS
    <3>4. Genuine(r, sent, spans)
      BY <3>2 DEF TreeInv
    <3>5. Genuine(r, st2, sp2)
      BY <3>3, <3>4, GenuineStays
    <3>. QED  BY <3>1, <3>2, <3>3, <3>5
  <2>. QED  BY <1>1, <2>1
<1>2. ASSUME NEW s \in Servers, handling'[s] # None
      PROVE  /\ Genuine(handling'[s].req, sent', spans')
             /\ handling'[s].span = SpanOf(handling'[s].req.id[1], sent', handling'[s].req.op)
  <2>1. CASE /\ handling[s] # None
             /\ handling'[s].req = handling[s].req /\ handling'[s].span = handling[s].span
    <3>1. PICK r : r = handling[s].req
      OBVIOUS
    <3>2. PICK st2, sp2 : st2 = sent' /\ sp2 = spans'
      OBVIOUS
    <3>3. Genuine(r, sent, spans) /\ handling[s].span = SpanOf(r.id[1], sent, r.op)
      BY <2>1, <3>1 DEF TreeInv
    <3>4. Genuine(r, st2, sp2)
      BY <3>2, <3>3, GenuineStays
    <3>5. SpanOf(r.id[1], sent, r.op) = SpanOf(r.id[1], st2, r.op)
      BY <3>2, <3>3 DEF SpanOf, Genuine, Longer
    <3>. QED  BY <2>1, <3>1, <3>2, <3>3, <3>4, <3>5
  <2>. QED  BY <1>2, <2>1
<1>3. ASSUME NEW x \in spans' PROVE Rooted(x, sent', spans')
  <2>1. CASE x \in spans
    <3>1. PICK st2, sp2 : st2 = sent' /\ sp2 = spans'
      OBVIOUS
    <3>2. Rooted(x, sent, spans)
      BY <2>1 DEF TreeInv
    <3>3. Rooted(x, st2, sp2)
      BY <3>1, <3>2, RootedStays
    <3>. QED  BY <3>1, <3>3
  <2>. QED  BY <2>1
<1>. QED  BY <1>1, <1>2, <1>3 DEF TreeInv

LEMMA StepTree == StateTypes /\ TreeInv /\ [Next]_vars => TreeInv'
<1>. SUFFICES ASSUME StateTypes, TreeInv, [Next]_vars PROVE TreeInv'
  OBVIOUS
<1>0. queue \in [Servers -> Seq(Request)] /\ sent \in Seq(Routes)
  BY DEF StateTypes, QueueTypes
<1>1. ASSUME NEW route \in Routes, Sending(route) PROVE TreeInv'
  <2>1. /\ Longer(sent, sent') /\ Len(sent') \in DOMAIN sent' /\ sent'[Len(sent')] = route
        /\ LoadRequest(Len(sent'), route) \in Request /\ route \in Ops
    BY <1>1, LoadSendsIs DEF Sending
  <2>2. UNCHANGED <<handling, spans>>
    BY <1>1 DEF Sending, LoadSends
  <2>3. PICK r : r = LoadRequest(Len(sent'), route)
    OBVIOUS
  <2>4. PICK g \in Servers : r \in Request /\ Enqueue(g, r)
    BY <1>1, <2>1, <2>3 DEF Sending
  <2>5. \A s \in Servers : \A i \in DOMAIN queue'[s] :
           (i \in DOMAIN queue[s] /\ queue'[s][i] = queue[s][i]) \/ queue'[s][i] = r
    BY <1>0, <2>4, EnqueueIs
  <2>6. Genuine(r, sent', spans')
    <3>1. route \in Below[route]
      BY <2>1, BelowIsCalls
    <3>. QED  BY <2>1, <2>3, <3>1 DEF Genuine, LoadRequest, Path
  <2>. QED  BY <2>1, <2>2, <2>5, <2>6, TreeKept
<1>2. ASSUME NEW s \in Servers, Accept(s) PROVE TreeInv'
  <2>1. queue[s] # << >> /\ queue' = [queue EXCEPT ![s] = Rest(@)]
    BY <1>2 DEF Accept
  <2>2. /\ 1 \in DOMAIN queue[s] /\ Head(queue[s]) = queue[s][1]
        /\ \A t \in Servers : t # s => queue'[t] = queue[t]
        /\ \A i \in DOMAIN queue'[s] : /\ i \in Nat /\ i > 0 /\ i + 1 \in DOMAIN queue[s]
                                       /\ queue'[s][i] = queue[s][i + 1]
    BY <1>0, <2>1, DequeueIs
  <2>3. PICK r : r = Head(queue[s])
    OBVIOUS
  <2>4. Genuine(r, sent, spans)
    BY <2>2, <2>3 DEF TreeInv
  <2>5. Child(r) = SpanOf(r.id[1], sent, r.op) /\ Rooted(Child(r), sent, spans)
    BY <1>0, <2>4, ChildIs
  <2>6. /\ UNCHANGED sent /\ spans' = spans \union {Child(r)}
        /\ handling'[s].req = r /\ handling'[s].span = Child(r)
        /\ \A t \in Servers : t # s => handling'[t] = handling[t]
    BY <1>2, <2>3 DEF Accept, StateTypes, HandlerTypes
  <2>7. Longer(sent, sent') /\ spans \subseteq spans'
    BY <2>6, LongerSame
  <2>8. Genuine(r, sent', spans') /\ Rooted(Child(r), sent', spans')
    <3>1. PICK st2, sp2 : st2 = sent' /\ sp2 = spans'
      OBVIOUS
    <3>2. PICK x : x = Child(r)
      OBVIOUS
    <3>3. Genuine(r, st2, sp2) /\ Rooted(x, st2, sp2)
      BY <2>4, <2>5, <2>7, <3>1, <3>2, GenuineStays, RootedStays
    <3>. QED  BY <3>1, <3>2, <3>3
  <2>9. handling'[s].span = SpanOf(handling'[s].req.id[1], sent', handling'[s].req.op)
    BY <2>5, <2>6
  <2>10. \A t \in Servers : \A i \in DOMAIN queue'[t] :
            \E j \in DOMAIN queue[t] : queue'[t][i] = queue[t][j]
    BY <2>2
  <2>11. \A x \in spans' : x \in spans \/ Rooted(x, sent', spans')
    BY <2>6, <2>8
  <2>12. \A t \in Servers : handling'[t] # None =>
               \/ /\ handling[t] # None
                  /\ handling'[t].req = handling[t].req /\ handling'[t].span = handling[t].span
               \/ /\ Genuine(handling'[t].req, sent', spans')
                  /\ handling'[t].span
                       = SpanOf(handling'[t].req.id[1], sent', handling'[t].req.op)
    BY <2>6, <2>8, <2>9
  <2>. QED  BY <2>7, <2>10, <2>11, <2>12, TreeKept
<1>3. ASSUME NEW s \in Servers, Calling(s) PROVE TreeInv'
  <2>1. PICK r : r = CallOf(handling[s])
    OBVIOUS
  <2>2. PICK c \in Callees(NextCall(handling[s])) : Enqueue(c, r)
    BY <1>3, <2>1 DEF Calling
  <2>3. r \in Request /\ c \in Servers /\ Genuine(r, sent, spans)
    BY <1>3, <2>1, <2>2, CallOutIs DEF Calling
  <2>4. Enqueue(c, r) /\ UNCHANGED <<sent, spans>>
    BY <1>3, <2>2 DEF Calling, history
  <2>5. \A t \in Servers : \A i \in DOMAIN queue'[t] :
           (i \in DOMAIN queue[t] /\ queue'[t][i] = queue[t][i]) \/ queue'[t][i] = r
    BY <1>0, <2>3, <2>4, EnqueueIs
  <2>6. \A t \in Servers : handling'[t] # None =>
           /\ handling[t] # None
           /\ handling'[t].req = handling[t].req /\ handling'[t].span = handling[t].span
    BY <1>3 DEF Calling
  <2>7. Longer(sent, sent')
    BY <2>4, LongerSame
  <2>8. Genuine(r, sent', spans')
    BY <2>3, <2>4
  <2>. QED  BY <2>4, <2>5, <2>6, <2>7, <2>8, TreeKept
<1>4. ASSUME Quiet PROVE TreeInv'
  <2>1. \A s \in Servers : \A i \in DOMAIN queue'[s] :
           \E j \in DOMAIN queue[s] : queue'[s][i] = queue[s][j]
    <3>1. DOMAIN << >> = {}
      OBVIOUS
    <3>. QED  BY <1>4, <3>1 DEF Quiet
  <2>. QED  BY <1>4, <2>1, TreeKept DEF Quiet
<1>. QED  BY <1>1, <1>2, <1>3, <1>4, StepShapes
----------------------------------------------------------------------------
(***************************************************************************)
(* A request is in one place.  This takes more than itself to be kept: a   *)
(* handler makes each call once, so that what is alive below it is of a    *)
(* call it made, and nothing is alive below a request nobody has accepted  *)
(* yet, also when the load or the handler that called gave it up.          *)
(***************************************************************************)
Live(r) ==
    \E s \in Servers : \/ \E i \in DOMAIN queue[s] : queue[s][i] = r
                       \/ handling[s] # None /\ handling[s].req = r

Strictly(op) == Below[op] \ {op}

Untouched ==
    \A s \in Servers : \A i \in DOMAIN queue[s] : \A r :
        Live(r) /\ r.id[1] = queue[s][i].id[1] => r.op \notin Strictly(queue[s][i].op)

Called ==
    \A s \in Servers : handling[s] # None =>
        \A r : Live(r) /\ r.id[1] = handling[s].req.id[1] /\ r.op \in Strictly(handling[s].req.op)
                 => \E k \in 1..handling[s].made : r.op \in Below[Calls[handling[s].req.op][k]]

CallsInv == OnePlace /\ Untouched /\ Called

LEMMA LiveIs ==
    ASSUME StateTypes, TreeInv, NEW r, Live(r)
    PROVE  /\ Genuine(r, sent, spans) /\ r \in Request
           /\ r.id[1] \in DOMAIN sent /\ sent[r.id[1]] \in GatewayOps
           /\ r.op \in Below[sent[r.id[1]]] /\ r.op \in Ops
<1>1. Genuine(r, sent, spans)
  BY DEF Live, TreeInv
<1>2. r \in Request
  <2>1. \A s \in Servers : \A i \in DOMAIN queue[s] : queue[s][i] \in Request
    <3>1. \A s \in Servers : queue[s] \in Seq(Request)
      BY DEF StateTypes, QueueTypes
    <3>. QED  BY <3>1
  <2>2. \A s \in Servers : handling[s] # None => handling[s].req \in Request
    BY DEF StateTypes, HandlerTypes, Handler
  <2>. QED  BY <2>1, <2>2 DEF Live
<1>3. sent \in Seq(Routes)
  BY DEF StateTypes
<1>. QED  BY <1>1, <1>2, <1>3, GenuineType

\* A request is known by its trace and its operation, and by its name.
LEMMA SameName ==
    ASSUME NEW r, NEW q, NEW st \in Seq(Routes), NEW sp, Genuine(r, st, sp), Genuine(q, st, sp)
    PROVE  /\ r.id[1] = q.id[1] /\ r.op = q.op => r.id = q.id
           /\ r.id = q.id => r.op = q.op
<1>1. /\ r.id[1] \in Nat /\ st[r.id[1]] \in GatewayOps /\ r.op \in Below[st[r.id[1]]]
      /\ r.id = Path(r.id[1], st[r.id[1]], r.op)
      /\ q.id[1] \in Nat /\ st[q.id[1]] \in GatewayOps /\ q.op \in Below[st[q.id[1]]]
      /\ q.id = Path(q.id[1], st[q.id[1]], q.op)
  BY GenuineType
<1>2. ASSUME r.id = q.id PROVE r.op = q.op
  <2>1. PICK n \in Nat : n = r.id[1]
    BY <1>1
  <2>2. PICK g \in GatewayOps : g = st[n]
    BY <1>1, <2>1
  <2>3. PICK o \in Below[g] : o = r.op
    BY <1>1, <2>1, <2>2
  <2>4. PICK p \in Below[g] : p = q.op
    BY <1>1, <1>2, <2>1, <2>2
  <2>5. Path(n, g, o) = Path(n, g, p)
    BY <1>1, <1>2, <2>1, <2>2, <2>3, <2>4
  <2>6. o = p
    BY <2>5, PathsDiffer
  <2>. QED  BY <2>3, <2>4, <2>6
<1>. QED  BY <1>1, <1>2

\* One place, for two servers at a time.
LEMMA PlacesApart ==
    ASSUME OnePlace, NEW s \in Servers, NEW t \in Servers
    PROVE  /\ \A i \in DOMAIN queue[s] : \A j \in DOMAIN queue[t] :
                queue[s][i].id = queue[t][j].id => s = t /\ i = j
           /\ \A i \in DOMAIN queue[s] : handling[t] # None => queue[s][i].id # handling[t].req.id
           /\ handling[s] # None /\ handling[t] # None /\ handling[s].req.id = handling[t].req.id
                => s = t
BY DEF OnePlace

\* One place is kept when the one request that is new is nowhere yet.
Adds(c, e, x) ==
    \A s \in Servers : \A i \in DOMAIN queue'[s] :
        \/ i \in DOMAIN queue[s] /\ queue'[s][i] = queue[s][i]
        \/ s = c /\ i = e /\ queue'[s][i] = x

SameRequests ==
    \A s \in Servers : handling'[s] # None =>
        handling[s] # None /\ handling'[s].req = handling[s].req

Nowhere(x) ==
    \A s \in Servers : /\ \A i \in DOMAIN queue[s] : queue[s][i].id # x.id
                       /\ handling[s] # None => handling[s].req.id # x.id

LEMMA PlacesKept ==
    ASSUME OnePlace, NEW x, NEW c, NEW e, Adds(c, e, x), SameRequests, Nowhere(x)
    PROVE  OnePlace'
<1>. SUFFICES ASSUME NEW s \in Servers, NEW t \in Servers
              PROVE  /\ \A i \in DOMAIN queue'[s] : \A j \in DOMAIN queue'[t] :
                          queue'[s][i].id = queue'[t][j].id => s = t /\ i = j
                     /\ \A i \in DOMAIN queue'[s] : handling'[t] # None =>
                          queue'[s][i].id # handling'[t].req.id
                     /\ handling'[s] # None /\ handling'[t] # None
                          /\ handling'[s].req.id = handling'[t].req.id => s = t
  BY DEF OnePlace
<1>1. ASSUME NEW i \in DOMAIN queue'[s], NEW j \in DOMAIN queue'[t],
             queue'[s][i].id = queue'[t][j].id
      PROVE  s = t /\ i = j
  <2>1. (i \in DOMAIN queue[s] /\ queue'[s][i] = queue[s][i]) \/ (s = c /\ i = e /\ queue'[s][i] = x)
    BY DEF Adds
  <2>2. (j \in DOMAIN queue[t] /\ queue'[t][j] = queue[t][j]) \/ (t = c /\ j = e /\ queue'[t][j] = x)
    BY DEF Adds
  <2>. QED  BY <1>1, <2>1, <2>2, PlacesApart DEF Nowhere
<1>2. ASSUME NEW i \in DOMAIN queue'[s], handling'[t] # None
      PROVE  queue'[s][i].id # handling'[t].req.id
  BY <1>2, PlacesApart DEF Adds, SameRequests, Nowhere
<1>3. handling'[s] # None /\ handling'[t] # None /\ handling'[s].req.id = handling'[t].req.id
        => s = t
  BY PlacesApart DEF SameRequests
<1>. QED  BY <1>1, <1>2, <1>3

LEMMA InitCalls == Init => CallsInv
BY DEF Init, CallsInv, OnePlace, Untouched, Called

\* Fewer requests alive, and more calls made, keep the order of the calls.
LEMMA OrderKept ==
    ASSUME StateTypes, Untouched, Called, \A r : Live(r)' => Live(r),
           \A s \in Servers : \A i \in DOMAIN queue'[s] :
               \E j \in DOMAIN queue[s] : queue'[s][i] = queue[s][j],
           \A s \in Servers : handling'[s] # None =>
               /\ handling[s] # None /\ handling'[s].req = handling[s].req
               /\ handling[s].made <= handling'[s].made,
           HandlerTypes'
    PROVE  Untouched' /\ Called'
<1>1. Untouched'
  BY DEF Untouched
<1>2. Called'
  <2>. SUFFICES ASSUME NEW s \in Servers, handling'[s] # None, NEW r, Live(r)',
                       r.id[1] = handling'[s].req.id[1], r.op \in Strictly(handling'[s].req.op)
                PROVE  \E k \in 1..handling'[s].made :
                           r.op \in Below[Calls[handling'[s].req.op][k]]
    BY DEF Called
  <2>1. /\ handling[s] # None /\ handling'[s].req = handling[s].req
        /\ handling[s].made <= handling'[s].made
    OBVIOUS
  <2>2. PICK k \in 1..handling[s].made : r.op \in Below[Calls[handling[s].req.op][k]]
    BY <2>1 DEF Called
  <2>3. handling[s].made \in Nat /\ handling'[s].made \in Nat
    BY <2>1 DEF StateTypes, HandlerTypes, Handler
  <2>4. PICK m, mm \in Nat : m = handling[s].made /\ mm = handling'[s].made
    BY <2>3
  <2>5. k \in 1..mm
    BY <2>1, <2>4
  <2>. QED  BY <2>1, <2>2, <2>4, <2>5
<1>. QED  BY <1>1, <1>2

LEMMA QuietCalls ==
    ASSUME StateTypes, TreeInv, CallsInv, StateTypes', Quiet
    PROVE  CallsInv'
<1>0. DOMAIN << >> = {}
  OBVIOUS
<1>1. \A r : Live(r)' => Live(r)
  BY <1>0 DEF Live, Quiet
<1>2. \A s \in Servers : \A i \in DOMAIN queue'[s] :
         /\ i \in DOMAIN queue[s] /\ queue'[s] = queue[s]
         /\ \E j \in DOMAIN queue[s] : queue'[s][i] = queue[s][j]
  BY <1>0 DEF Quiet
<1>3. OnePlace'
  BY <1>2 DEF OnePlace, CallsInv, Quiet
<1>4. HandlerTypes'
  BY DEF StateTypes
<1>5. Untouched' /\ Called'
  BY <1>1, <1>2, <1>4, OrderKept DEF Quiet, CallsInv
<1>. QED  BY <1>3, <1>5 DEF CallsInv

\* The load names its requests afresh.
LEMMA SendingCalls ==
    ASSUME StateTypes, TreeInv, CallsInv, NEW route \in Routes, Sending(route)
    PROVE  CallsInv'
<1>. DEFINE n == Len(sent')
<1>1. PICK x : x = LoadRequest(n, route)
  OBVIOUS
<1>2. /\ x \in Request /\ \E g \in Servers : Role[g] = "gateway" /\ Enqueue(g, x)
      /\ n \notin DOMAIN sent /\ x.id[1] = n /\ x.op = route /\ UNCHANGED handling
      /\ queue \in [Servers -> Seq(Request)]
  BY <1>1, LoadSendsIs DEF Sending, LoadSends, LoadRequest, StateTypes, QueueTypes
<1>0. PICK g \in Servers : Role[g] = "gateway" /\ Enqueue(g, x)
  BY <1>2
<1>3. /\ \A s \in Servers : \A i \in DOMAIN queue'[s] :
           \/ i \in DOMAIN queue[s] /\ queue'[s][i] = queue[s][i]
           \/ s = g /\ i = Len(queue[g]) + 1 /\ queue'[s][i] = x
  BY <1>0, <1>2, EnqueueIs
<1>4. \A r : Live(r)' => Live(r) \/ r = x
  BY <1>2, <1>3 DEF Live
<1>5. \A r : Live(r) => r.id[1] # n /\ r.id # x.id
  BY <1>2, LiveIs
<1>6. x.op \in GatewayOps
  BY <1>2, RoutesAssumption DEF GatewayOps
<1>7. OnePlace'
  <2>1. \A s \in Servers : \A i \in DOMAIN queue[s] : queue[s][i].id # x.id
    BY <1>5 DEF Live
  <2>2. \A s \in Servers : handling[s] # None => handling[s].req.id # x.id
    BY <1>5 DEF Live
  <2>3. PICK e : e = Len(queue[g]) + 1
    OBVIOUS
  <2>4. Adds(g, e, x)
    BY <1>3, <2>3 DEF Adds
  <2>5. SameRequests
    BY <1>2 DEF SameRequests
  <2>6. Nowhere(x)
    BY <2>1, <2>2 DEF Nowhere
  <2>. HIDE DEF n
  <2>. QED  BY <2>4, <2>5, <2>6, PlacesKept DEF CallsInv
<1>8. Untouched'
  <2>1. ASSUME NEW s \in Servers, NEW i \in DOMAIN queue'[s], NEW r, Live(r)',
               r.id[1] = queue'[s][i].id[1]
        PROVE  r.op \notin Strictly(queue'[s][i].op)
    <3>1. CASE r = x
      <4>1. queue'[s][i] = x
        <5>1. i \in DOMAIN queue[s] /\ queue'[s][i] = queue[s][i] => queue'[s][i].id[1] # n
          BY <1>5 DEF Live
        <5>. QED  BY <1>2, <1>3, <2>1, <3>1, <5>1
      <4>. QED  BY <3>1, <4>1 DEF Strictly
    <3>2. CASE Live(r)
      <4>1. r.id[1] # n
        BY <1>5, <3>2
      <4>2. i \in DOMAIN queue[s] /\ queue'[s][i] = queue[s][i]
        BY <1>2, <1>3, <2>1, <4>1
      <4>. QED  BY <2>1, <3>2, <4>2 DEF Untouched, CallsInv
    <3>. QED  BY <1>4, <2>1, <3>1, <3>2
  <2>. HIDE DEF n
  <2>. QED  BY <2>1 DEF Untouched
<1>9. Called'
  <2>1. ASSUME NEW s \in Servers, handling[s] # None, NEW r, Live(r)',
               r.id[1] = handling[s].req.id[1]
        PROVE  Live(r)
    <3>1. handling[s].req.id[1] # n
      BY <1>5, <2>1 DEF Live
    <3>. QED  BY <1>2, <1>4, <2>1, <3>1
  <2>. HIDE DEF n
  <2>. QED  BY <1>2, <2>1 DEF Called, CallsInv
<1>. QED  BY <1>7, <1>8, <1>9 DEF CallsInv

\* What is accepted was in the queue, with nothing below it.
LEMMA AcceptCalls ==
    ASSUME StateTypes, TreeInv, CallsInv, NEW s \in Servers, Accept(s)
    PROVE  CallsInv'
<1>1. /\ queue \in [Servers -> Seq(Request)] /\ queue[s] # << >>
      /\ queue' = [queue EXCEPT ![s] = Rest(@)]
  BY DEF Accept, StateTypes, QueueTypes
<1>2. /\ 1 \in DOMAIN queue[s] /\ Head(queue[s]) = queue[s][1]
      /\ \A t \in Servers : t # s => queue'[t] = queue[t]
      /\ \A i \in DOMAIN queue'[s] : /\ i \in Nat /\ i > 0 /\ i + 1 \in DOMAIN queue[s]
                                     /\ queue'[s][i] = queue[s][i + 1]
  BY <1>1, DequeueIs
<1>3. PICK x : x = queue[s][1]
  OBVIOUS
<1>4. /\ handling'[s].req = x /\ handling'[s].made = 0
      /\ \A t \in Servers : t # s => handling'[t] = handling[t]
  BY <1>2, <1>3 DEF Accept, StateTypes, HandlerTypes
<1>5. \A t \in Servers : \A i \in DOMAIN queue'[t] :
         \E j \in DOMAIN queue[t] : queue'[t][i] = queue[t][j]
  BY <1>2
<1>6. Live(x)
  BY <1>2, <1>3 DEF Live
<1>7. \A r : Live(r)' => Live(r)
  <2>1. ASSUME NEW r, NEW t \in Servers, handling'[t] # None, handling'[t].req = r PROVE Live(r)
    BY <1>4, <1>6, <2>1 DEF Live
  <2>2. ASSUME NEW r, NEW t \in Servers, NEW i \in DOMAIN queue'[t], queue'[t][i] = r PROVE Live(r)
    BY <1>5, <2>2 DEF Live
  <2>. QED  BY <2>1, <2>2 DEF Live
<1>8. OnePlace'
  <2>1. ASSUME NEW i \in DOMAIN queue'[s], NEW j \in DOMAIN queue'[s],
               queue'[s][i].id = queue'[s][j].id
        PROVE  i = j
    <3>1. i + 1 = j + 1
      BY <1>2, <2>1 DEF OnePlace, CallsInv
    <3>. QED  BY <1>2, <3>1
  <2>2. ASSUME NEW i \in DOMAIN queue'[s] PROVE queue'[s][i].id # x.id
    <3>1. i + 1 # 1 /\ i + 1 \in DOMAIN queue[s] /\ queue'[s][i] = queue[s][i + 1]
      BY <1>2
    <3>. QED  BY <1>2, <1>3, <3>1 DEF OnePlace, CallsInv
  <2>3. ASSUME NEW t \in Servers, NEW u \in Servers, NEW i \in DOMAIN queue'[t],
               NEW j \in DOMAIN queue'[u], queue'[t][i].id = queue'[u][j].id
        PROVE  t = u /\ i = j
    <3>1. PICK k \in DOMAIN queue[t] : queue'[t][i] = queue[t][k]
      BY <1>5
    <3>2. PICK l \in DOMAIN queue[u] : queue'[u][j] = queue[u][l]
      BY <1>5
    <3>3. t = u
      BY <2>3, <3>1, <3>2, PlacesApart DEF CallsInv
    <3>4. CASE t = s
      BY <2>1, <2>3, <3>3, <3>4
    <3>5. CASE t # s
      BY <1>2, <2>3, <3>3, <3>5, PlacesApart DEF CallsInv
    <3>. QED  BY <3>3, <3>4, <3>5
  <2>4. ASSUME NEW t \in Servers, NEW i \in DOMAIN queue'[t] PROVE queue'[t][i].id # x.id
    <3>1. CASE t = s
      BY <2>2, <3>1
    <3>2. CASE t # s
      BY <1>2, <1>3, <3>2, PlacesApart DEF CallsInv
    <3>. QED  BY <3>1, <3>2
  <2>5. ASSUME NEW t \in Servers, NEW u \in Servers, NEW i \in DOMAIN queue'[t],
               handling'[u] # None
        PROVE  queue'[t][i].id # handling'[u].req.id
    <3>1. PICK k \in DOMAIN queue[t] : queue'[t][i] = queue[t][k]
      BY <1>5
    <3>. QED  BY <1>4, <2>4, <2>5, <3>1, PlacesApart DEF CallsInv
  <2>6. ASSUME NEW t \in Servers, NEW u \in Servers, handling'[t] # None, handling'[u] # None,
               handling'[t].req.id = handling'[u].req.id
        PROVE  t = u
    <3>1. \A v \in Servers : v # s /\ handling'[v] # None => handling'[v].req.id # x.id
      BY <1>2, <1>3, <1>4, PlacesApart DEF CallsInv
    <3>. QED  BY <1>4, <2>6, <3>1, PlacesApart DEF CallsInv
  <2>. QED  BY <2>3, <2>5, <2>6 DEF OnePlace
<1>9. Untouched'
  BY <1>5, <1>7 DEF Untouched, CallsInv
<1>10. Called'
  <2>1. \A r : Live(r)' /\ r.id[1] = x.id[1] => r.op \notin Strictly(x.op)
    BY <1>2, <1>3, <1>7 DEF Untouched, CallsInv
  <2>2. ASSUME NEW t \in Servers, handling'[t] # None, NEW r, Live(r)',
               r.id[1] = handling'[t].req.id[1], r.op \in Strictly(handling'[t].req.op)
        PROVE  \E k \in 1..handling'[t].made : r.op \in Below[Calls[handling'[t].req.op][k]]
    <3>1. t # s
      BY <1>4, <2>1, <2>2
    <3>. QED  BY <1>4, <1>7, <2>2, <3>1 DEF Called, CallsInv
  <2>. QED  BY <2>2 DEF Called
<1>. QED  BY <1>8, <1>9, <1>10 DEF CallsInv

\* A handler's next call is new: nothing of it was alive.
LEMMA CallingIs ==
    ASSUME StateTypes, TreeInv, CallsInv, NEW s \in Servers, Calling(s),
           NEW h, h = handling[s], NEW x, x = CallOf(h)
    PROVE  /\ h # None /\ Live(h.req) /\ h.req.op \in Ops /\ h.made \in Nat
           /\ x \in Request /\ Genuine(x, sent, spans) /\ x.id[1] = h.req.id[1]
           /\ h.made + 1 \in 1..Len(Calls[h.req.op])
           /\ x.op = Calls[h.req.op][h.made + 1]
           /\ x.op \in Strictly(h.req.op)
           /\ \E c \in Servers : Role[c] = Host[x.op] /\ Enqueue(c, x)
           /\ \A r : Live(r) /\ r.id[1] = x.id[1] => r.op \notin Below[x.op]
           /\ \A r : Live(r) => r.id # x.id
<1>1. h # None /\ CallsLeft(h)
  BY DEF Calling
<1>2. PICK g : g = NextCall(h)
  OBVIOUS
<1>3. /\ g.made = h.made + 1 /\ g.req = h.req
      /\ g.made \in 1..Len(Calls[g.req.op])
      /\ x \in Request /\ Genuine(x, sent, spans) /\ x.id[1] = g.req.id[1]
      /\ \A c \in Callees(g) : c \in Servers /\ Host[x.op] = Role[c]
  BY <1>1, <1>2, CallOutIs
<1>4. x.op = Calls[h.req.op][h.made + 1]
  BY DEF CallOf
<1>5. h.made \in Nat /\ h.req.op \in Ops
  BY <1>1, HandlerIs
<1>6. PICK op \in Ops : op = h.req.op
  BY <1>5
<1>7. PICK m \in Nat : m = h.made
  BY <1>5
<1>8. m + 1 \in 1..Len(Calls[op]) /\ Len(Calls[op]) \in Nat
  BY <1>3, <1>6, <1>7, CallsType
<1>9. Below[Calls[op][m + 1]] \subseteq Strictly(op) /\ x.op \in Strictly(op)
  <2>1. PICK k \in 1..Len(Calls[op]) : k = m + 1
    BY <1>8
  <2>2. Below[Calls[op][k]] \subseteq Below[op] \ {op} /\ Calls[op][k] \in Below[Calls[op][k]]
    BY BelowIsCalls
  <2>. QED  BY <1>4, <1>6, <1>7, <2>1, <2>2 DEF Strictly
<1>10. Live(h.req)
  BY <1>1 DEF Live
<1>11. ASSUME NEW r, Live(r), r.id[1] = x.id[1] PROVE r.op \notin Below[x.op]
  <2>. SUFFICES ASSUME r.op \in Below[x.op] PROVE FALSE
    OBVIOUS
  <2>1. r.op \in Strictly(op)
    BY <1>4, <1>6, <1>7, <1>9
  <2>2. PICK k \in 1..m : r.op \in Below[Calls[op][k]]
    BY <1>1, <1>3, <1>6, <1>7, <1>11, <2>1 DEF Called, CallsInv
  <2>3. k \in 1..Len(Calls[op]) /\ k # m + 1
    BY <1>8
  <2>. QED  BY <1>4, <1>6, <1>7, <1>8, <2>2, <2>3, CallsApart
<1>12. ASSUME NEW r, Live(r) PROVE r.id # x.id
  <2>. SUFFICES ASSUME r.id = x.id PROVE FALSE
    OBVIOUS
  <2>1. Genuine(r, sent, spans) /\ sent \in Seq(Routes)
    BY <1>12, LiveIs DEF StateTypes
  <2>2. r.op = x.op
    BY <1>3, <2>1, SameName
  <2>3. x.op \in Below[x.op]
    <3>1. x.op \in Ops
      BY <1>4, <1>6, <1>7, <1>8, CallsType
    <3>. QED  BY <3>1, BelowIsCalls
  <2>. QED  BY <1>11, <1>12, <2>2, <2>3
<1>13. \E c \in Servers : Role[c] = Host[x.op] /\ Enqueue(c, x)
  BY <1>2, <1>3 DEF Calling
<1>. QED  BY <1>1, <1>3, <1>4, <1>5, <1>6, <1>7, <1>9, <1>10, <1>11, <1>12, <1>13

LEMMA CallingCalls ==
    ASSUME StateTypes, TreeInv, CallsInv, NEW s \in Servers, Calling(s)
    PROVE  CallsInv'
<1>1. PICK h : h = handling[s]
  OBVIOUS
<1>2. PICK x : x = CallOf(h)
  OBVIOUS
<1>3. /\ h # None /\ Live(h.req) /\ h.req.op \in Ops /\ h.made \in Nat
      /\ x \in Request /\ Genuine(x, sent, spans) /\ x.id[1] = h.req.id[1]
      /\ h.made + 1 \in 1..Len(Calls[h.req.op])
      /\ x.op = Calls[h.req.op][h.made + 1]
      /\ x.op \in Strictly(h.req.op)
      /\ \E c \in Servers : Role[c] = Host[x.op] /\ Enqueue(c, x)
      /\ \A r : Live(r) /\ r.id[1] = x.id[1] => r.op \notin Below[x.op]
      /\ \A r : Live(r) => r.id # x.id
  BY <1>1, <1>2, CallingIs, SMTT(20)
<1>4. PICK c \in Servers : Role[c] = Host[x.op] /\ Enqueue(c, x)
  BY <1>3
<1>5. \A t \in Servers : \A i \in DOMAIN queue'[t] :
         \/ i \in DOMAIN queue[t] /\ queue'[t][i] = queue[t][i]
         \/ t = c /\ i = Len(queue[c]) + 1 /\ queue'[t][i] = x
  <2>1. queue \in [Servers -> Seq(Request)]
    BY DEF StateTypes, QueueTypes
  <2>2. x \in Request /\ Enqueue(c, x)
    BY <1>3, <1>4
  <2>. QED  BY <2>1, <2>2, EnqueueIs
<1>6. /\ handling'[s].req = h.req /\ handling'[s].made = h.made + 1
      /\ \A t \in Servers : t # s => handling'[t] = handling[t]
      /\ \A t \in Servers : handling'[t] # None => handling[t] # None /\ handling'[t].req = handling[t].req
  BY <1>1 DEF Calling
<1>7. \A r : Live(r)' => Live(r) \/ r = x
  BY <1>5, <1>6 DEF Live
<1>8. OnePlace'
  <2>1. \A t \in Servers : \A i \in DOMAIN queue[t] : queue[t][i].id # x.id
    BY <1>3 DEF Live
  <2>2. \A t \in Servers : handling[t] # None => handling[t].req.id # x.id
    BY <1>3 DEF Live
  <2>3. PICK e : e = Len(queue[c]) + 1
    OBVIOUS
  <2>4. Adds(c, e, x)
    BY <1>5, <2>3 DEF Adds
  <2>5. SameRequests
    BY <1>6 DEF SameRequests
  <2>6. Nowhere(x)
    BY <2>1, <2>2 DEF Nowhere
  <2>. QED  BY <2>4, <2>5, <2>6, PlacesKept DEF CallsInv
\* Who has the new request below it has its caller, too.
<1>9. ASSUME NEW r, Live(r), r.id[1] = x.id[1], x.op \in Strictly(r.op)
      PROVE  h.req.op \in Below[r.op]
  <2>1. /\ sent[r.id[1]] \in GatewayOps /\ r.op \in Below[sent[r.id[1]]]
    BY <1>9, LiveIs
  <2>2. h.req.op \in Below[sent[r.id[1]]] /\ r.id[1] \in DOMAIN sent
    BY <1>3, <1>9, LiveIs
  <2>3. PICK g \in GatewayOps : g = sent[r.id[1]]
    BY <2>1
  <2>4. PICK o \in Below[g] : o = r.op
    BY <2>1, <2>3
  <2>5. PICK p \in Below[o] \ {o} : p = x.op
    BY <1>9, <2>4 DEF Strictly
  <2>6. Caller(g, p) \in Below[o]
    BY BelowHasCaller
  <2>7. Caller(g, p) = h.req.op
    <3>1. PICK op \in Below[g] : op = h.req.op
      BY <2>2, <2>3
    <3>2. PICK k \in 1..Len(Calls[op]) : k = h.made + 1
      BY <1>3, <3>1
    <3>3. p = Calls[op][k]
      BY <1>3, <2>5, <3>1, <3>2
    <3>. QED  BY <3>1, <3>3, PathOfCall
  <2>. QED  BY <2>4, <2>6, <2>7
<1>10. Untouched'
  <2>1. ASSUME NEW t \in Servers, NEW i \in DOMAIN queue'[t], NEW r, Live(r)',
               r.id[1] = queue'[t][i].id[1], r.op \in Strictly(queue'[t][i].op)
        PROVE  FALSE
    <3>1. CASE queue'[t][i] = x
      <4>1. r # x
        BY <2>1, <3>1 DEF Strictly
      <4>. QED  BY <1>3, <1>7, <2>1, <3>1, <4>1 DEF Strictly
    <3>2. CASE i \in DOMAIN queue[t] /\ queue'[t][i] = queue[t][i]
      <4>1. PICK q : q = queue[t][i]
        OBVIOUS
      <4>2. Live(q)
        BY <3>2, <4>1 DEF Live
      <4>3. CASE Live(r)
        BY <2>1, <3>2, <4>3 DEF Untouched, CallsInv
      <4>4. CASE r = x
        <5>1. h.req.op \in Below[q.op]
          BY <1>9, <2>1, <3>2, <4>1, <4>2, <4>4
        <5>2. CASE h.req.op = q.op
          <6>2. q.id = h.req.id
            <7>1. Genuine(q, sent, spans) /\ Genuine(h.req, sent, spans) /\ sent \in Seq(Routes)
              BY <1>3, <4>2, LiveIs DEF StateTypes
            <7>2. q.id[1] = h.req.id[1]
              BY <1>3, <2>1, <3>2, <4>1, <4>4
            <7>. QED  BY <5>2, <7>1, <7>2, SameName
          <6>3. i \in DOMAIN queue[t] /\ queue[t][i].id = handling[s].req.id /\ handling[s] # None
            BY <1>1, <1>3, <3>2, <4>1, <6>2
          <6>. QED  BY <6>3, PlacesApart DEF CallsInv
        <5>3. CASE h.req.op # q.op
          <6>1. h.req.op \in Strictly(q.op) /\ h.req.id[1] = q.id[1]
            BY <1>3, <2>1, <3>2, <4>1, <4>4, <5>1, <5>3 DEF Strictly
          <6>. QED  BY <1>3, <3>2, <4>1, <6>1 DEF Untouched, CallsInv
        <5>. QED  BY <5>2, <5>3
      <4>. QED  BY <1>7, <2>1, <4>3, <4>4
    <3>. QED  BY <1>5, <2>1, <3>1, <3>2
  <2>. QED  BY <2>1 DEF Untouched
<1>11. Called'
  <2>1. ASSUME NEW t \in Servers, handling'[t] # None, NEW r, Live(r)',
               r.id[1] = handling'[t].req.id[1], r.op \in Strictly(handling'[t].req.op)
        PROVE  \E k \in 1..handling'[t].made : r.op \in Below[Calls[handling'[t].req.op][k]]
    <3>1. CASE t = s
      <4>1. PICK m \in Nat : m = h.made
        BY <1>3
      <4>2. CASE Live(r)
        <5>0. \A q : Live(q) /\ q.id[1] = h.req.id[1] /\ q.op \in Strictly(h.req.op)
                       => \E k \in 1..h.made : q.op \in Below[Calls[h.req.op][k]]
          BY <1>1, <1>3 DEF Called, CallsInv
        <5>1. PICK k \in 1..m : r.op \in Below[Calls[h.req.op][k]]
          BY <1>6, <2>1, <3>1, <4>1, <4>2, <5>0
        <5>2. k \in 1..(m + 1)
          OBVIOUS
        <5>. QED  BY <1>6, <3>1, <4>1, <5>1, <5>2
      <4>3. CASE r = x
        <5>1. m + 1 \in 1..(m + 1)
          OBVIOUS
        <5>2. x.op \in Below[x.op]
          <6>1. x.op \in Ops
            BY <1>3, CallsType
          <6>. QED  BY <6>1, BelowIsCalls
        <5>3. handling'[t].made = m + 1 /\ handling'[t].req = h.req
          BY <1>6, <3>1, <4>1
        <5>4. x.op = Calls[h.req.op][m + 1]
          BY <1>3, <4>1
        <5>. QED  BY ONLY <4>3, <5>1, <5>2, <5>3, <5>4
      <4>. QED  BY <1>7, <2>1, <4>2, <4>3
    <3>2. CASE t # s
      <4>1. PICK g : g = handling[t]
        OBVIOUS
      <4>2. /\ g # None /\ handling'[t] = g /\ Live(g.req)
            /\ g.req.op \in Ops /\ g.made \in Nat /\ g.made <= Len(Calls[g.req.op])
        <5>1. g # None /\ handling'[t] = g
          BY <1>6, <2>1, <3>2, <4>1
        <5>2. Live(g.req)
          BY <4>1, <5>1 DEF Live
        <5>. QED  BY <4>1, <5>1, <5>2, HandlerIs
      <4>3. CASE Live(r)
        BY <2>1, <4>1, <4>2, <4>3 DEF Called, CallsInv
      <4>4. CASE r = x
        <5>1. h.req.op \in Below[g.req.op]
          BY <1>9, <2>1, <4>2, <4>4
        <5>2. h.req.op # g.req.op
          <6>. SUFFICES ASSUME h.req.op = g.req.op PROVE FALSE
            OBVIOUS
          <6>1. Genuine(g.req, sent, spans) /\ Genuine(h.req, sent, spans) /\ sent \in Seq(Routes)
            BY <1>3, <4>2, LiveIs DEF StateTypes
          <6>2. g.req.id[1] = h.req.id[1]
            BY <1>3, <2>1, <4>2, <4>4
          <6>3. g.req.id = h.req.id
            BY <6>1, <6>2, SameName
          <6>4. handling[s] # None /\ handling[t] # None /\ handling[t].req.id = handling[s].req.id
            BY <1>1, <1>3, <4>1, <4>2, <6>3
          <6>. QED  BY <3>2, <6>4, PlacesApart DEF CallsInv
        <5>3. h.req.op \in Strictly(g.req.op) /\ h.req.id[1] = g.req.id[1]
          BY <1>3, <2>1, <4>2, <4>4, <5>1, <5>2 DEF Strictly
        <5>0. \A q : Live(q) /\ q.id[1] = g.req.id[1] /\ q.op \in Strictly(g.req.op)
                       => \E k \in 1..g.made : q.op \in Below[Calls[g.req.op][k]]
          BY <4>1, <4>2 DEF Called, CallsInv
        <5>4. PICK k \in 1..g.made : h.req.op \in Below[Calls[g.req.op][k]]
          <6>1. PICK q : q = h.req
            OBVIOUS
          <6>2. Live(q) /\ q.id[1] = g.req.id[1] /\ q.op \in Strictly(g.req.op)
            BY <1>3, <5>3, <6>1
          <6>. QED  BY <5>0, <6>1, <6>2
        <5>5. k \in 1..Len(Calls[g.req.op])
          <6>1. PICK m \in Nat : m = g.made
            BY <4>2
          <6>2. Len(Calls[g.req.op]) \in Nat
            BY <4>2, CallsType
          <6>. QED  BY <4>2, <5>4, <6>1, <6>2
        <5>6. x.op \in Below[Calls[g.req.op][k]]
          <6>1. PICK o \in Ops : o = Calls[g.req.op][k]
            BY <4>2, <5>5, CallsType
          <6>2. Below[h.req.op] \subseteq Below[o]
            BY <1>3, <5>4, <6>1, BelowNests
          <6>. QED  BY <1>3, <6>1, <6>2 DEF Strictly
        <5>. QED  BY <4>2, <4>4, <5>4, <5>6
      <4>. QED  BY <1>7, <2>1, <4>3, <4>4
    <3>. QED  BY <3>1, <3>2
  <2>. QED  BY <2>1 DEF Called
<1>. QED  BY <1>8, <1>10, <1>11 DEF CallsInv

LEMMA StepCalls ==
    ASSUME StateTypes, TreeInv, CallsInv, [Next]_vars
    PROVE  CallsInv'
<1>1. StateTypes'
  BY StepTypes
<1>. QED  BY <1>1, StepShapes, SendingCalls, AcceptCalls, CallingCalls, QuietCalls

Inv == StateTypes /\ TreeInv /\ CallsInv

LEMMA InvHolds == Spec => []Inv
<1>1. Init => Inv
  BY InitTypes, InitTree, InitCalls DEF Inv
<1>2. Inv /\ [Next]_vars => Inv'
  BY StepTypes, StepTree, StepCalls DEF Inv
<1>. QED  BY <1>1, <1>2, PTL DEF Spec

\* Queues, handlers, channels and the load keep their types; a server has only its own
\* operations, a handler makes no more calls than its operation has (main), and a request
\* is once in one queue or with one handler, also after the load gave it up, a call failed
\* or a server died.
THEOREM TypeCorrect == Spec => []TypeOK
<1>1. Inv => TypeOK
  BY DEF Inv, CallsInv, TypeOK
<1>. QED  BY <1>1, InvHolds, PTL
----------------------------------------------------------------------------
(***************************************************************************)
(* A trace is whole.  A handler that no failure has touched has, for each  *)
(* call that came back, the spans of everything the call made run.         *)
(***************************************************************************)
Done(n, op) == \A o \in Below[op] : SpanOf(n, sent, o) \in spans

Worked(h) ==
    \A k \in 1..h.made :
        k < h.made \/ h.phase # "waiting" => Done(h.req.id[1], Calls[h.req.op][k])

WorkInv ==
    /\ \A s \in Servers : handling[s] # None /\ handling[s].req.id[1] \notin spoiled
                            => Worked(handling[s])
    /\ \A n \in DOMAIN answered \ spoiled : Done(n, sent[n])

LEMMA DoneStays ==
    ASSUME NEW n \in DOMAIN sent, NEW op, Done(n, op), Longer(sent, sent'), spans \subseteq spans'
    PROVE  Done(n, op)'
<1>. SUFFICES ASSUME NEW o \in Below[op] PROVE SpanOf(n, sent', o) \in spans'
  BY DEF Done
<1>1. SpanOf(n, sent', o) = SpanOf(n, sent, o)
  BY DEF SpanOf, Longer
<1>. QED  BY <1>1 DEF Done

\* A handler that made no more calls, and waits no longer than it did, has done its work.
LEMMA WorkedStays ==
    ASSUME StateTypes, TreeInv, NEW s \in Servers, handling[s] # None, Worked(handling[s]),
           Longer(sent, sent'), spans \subseteq spans', NEW g,
           g.req = handling[s].req, g.made = handling[s].made,
           g.phase = handling[s].phase \/ handling[s].phase = "working"
    PROVE  \A k \in 1..g.made :
              k < g.made \/ g.phase # "waiting" => Done(g.req.id[1], Calls[g.req.op][k])'
<1>1. PICK n \in DOMAIN sent : n = handling[s].req.id[1]
  BY HandlerIs
<1>. SUFFICES ASSUME NEW k \in 1..g.made, k < g.made \/ g.phase # "waiting"
              PROVE  Done(g.req.id[1], Calls[g.req.op][k])'
  OBVIOUS
<1>2. PICK op : op = Calls[g.req.op][k]
  OBVIOUS
<1>3. Done(n, op)
  BY <1>1, <1>2 DEF Worked
<1>4. Done(n, op)'
  BY <1>3, DoneStays
<1>. QED  BY <1>1, <1>2, <1>4

LEMMA AnswersStay ==
    ASSUME StateTypes, WorkInv, Longer(sent, sent'), spans \subseteq spans', spoiled \subseteq spoiled',
           NEW n \in DOMAIN answered \ spoiled'
    PROVE  Done(n, sent[n])' /\ sent'[n] = sent[n]
<1>1. n \in DOMAIN sent /\ n \in DOMAIN answered \ spoiled
  BY DEF StateTypes
<1>2. PICK r : r = sent[n]
  OBVIOUS
<1>3. Done(n, r)
  BY <1>1, <1>2 DEF WorkInv
<1>4. Done(n, r)'
  BY <1>1, <1>3, DoneStays
<1>. QED  BY <1>1, <1>2, <1>4 DEF Longer

\* Steps that answer nothing.
LEMMA WorkKept ==
    ASSUME StateTypes, TreeInv, WorkInv, Longer(sent, sent'), spans \subseteq spans',
           spoiled \subseteq spoiled', answered' = answered,
           \A s \in Servers : handling'[s] # None /\ handling'[s].req.id[1] \notin spoiled'
                                => handling'[s] = handling[s] \/ Worked(handling[s])'
    PROVE  WorkInv'
<1>1. ASSUME NEW s \in Servers, handling'[s] # None, handling'[s].req.id[1] \notin spoiled'
      PROVE  Worked(handling[s])'
  <2>1. CASE handling'[s] = handling[s]
    <3>1. PICK g : g = handling[s]
      OBVIOUS
    <3>2. handling[s] # None /\ Worked(handling[s])
      BY <1>1, <2>1 DEF WorkInv
    <3>3. \A k \in 1..g.made :
              k < g.made \/ g.phase # "waiting" => Done(g.req.id[1], Calls[g.req.op][k])'
      BY <3>1, <3>2, WorkedStays
    <3>. QED  BY <2>1, <3>1, <3>3 DEF Worked
  <2>. QED  BY <1>1, <2>1
<1>2. ASSUME NEW n \in DOMAIN answered' \ spoiled' PROVE Done(n, sent[n])'
  <2>1. n \in DOMAIN answered \ spoiled'
    BY <1>2
  <2>. QED  BY <2>1, AnswersStay
<1>. QED  BY <1>1, <1>2 DEF WorkInv
\* A handler that failed has its trace spoiled.
LEMMA SpoiltWork ==
    ASSUME StateTypes, TreeInv, WorkInv, NEW s \in Servers, handling[s] # None, NEW h,
           h.req = handling[s].req, handling' = [handling EXCEPT ![s] = h], Spoil(s)
    PROVE  WorkInv'
<1>1. /\ spoiled' = spoiled \union {handling[s].req.id[1]}
      /\ UNCHANGED <<sent, spans, answered>>
  BY DEF Spoil
<1>2. handling'[s] = h /\ \A t \in Servers : t # s => handling'[t] = handling[t]
  BY DEF StateTypes, HandlerTypes
<1>3. Longer(sent, sent') /\ spans \subseteq spans' /\ spoiled \subseteq spoiled'
  BY <1>1, LongerSame
<1>4. ASSUME NEW t \in Servers, handling'[t] # None, handling'[t].req.id[1] \notin spoiled'
      PROVE  handling'[t] = handling[t]
  BY <1>1, <1>2, <1>4
<1>. QED  BY <1>1, <1>3, <1>4, WorkKept

\* A caller that had an answer: it is the answer to its call, and the callee did its work.
LEMMA AnswerIsOfCall ==
    ASSUME StateTypes, TreeInv, NEW h, NEW g, Genuine(h.req, sent, spans), Genuine(g.req, sent, spans),
           g.made \in 1..Len(Calls[g.req.op]), Awaited(g) = h.req.id
    PROVE  h.req.id[1] = g.req.id[1] /\ h.req.op = Calls[g.req.op][g.made]
<1>0. sent \in Seq(Routes)
  BY DEF StateTypes
<1>1. /\ g.req.id[1] \in DOMAIN sent /\ g.req.id[1] \in Nat /\ sent[g.req.id[1]] \in GatewayOps
      /\ g.req.op \in Below[sent[g.req.id[1]]]
      /\ g.req.id = Path(g.req.id[1], sent[g.req.id[1]], g.req.op)
  <2>1. PICK r : r = g.req
    OBVIOUS
  <2>. QED  BY <1>0, <2>1, GenuineType
<1>2. /\ h.req.id[1] \in Nat /\ sent[h.req.id[1]] \in GatewayOps
      /\ h.req.op \in Below[sent[h.req.id[1]]]
      /\ h.req.id = Path(h.req.id[1], sent[h.req.id[1]], h.req.op)
  <2>1. PICK r : r = h.req
    OBVIOUS
  <2>. QED  BY <1>0, <2>1, GenuineType
<1>3. PICK n \in Nat : n = g.req.id[1]
  BY <1>1
<1>4. PICK route \in GatewayOps : route = sent[n]
  BY <1>1, <1>3
<1>5. PICK op \in Below[route] : op = g.req.op
  BY <1>1, <1>3, <1>4
<1>6. PICK k \in 1..Len(Calls[op]) : k = g.made
  BY <1>5
<1>7. /\ Calls[op][k] \in Below[route] \ {route}
      /\ Path(n, route, Calls[op][k]) = Append(Path(n, route, op), k)
      /\ Caller(route, Calls[op][k]) = op
  BY ONLY PathOfCall
<1>8. h.req.id = Path(n, route, Calls[op][k])
  BY <1>1, <1>3, <1>4, <1>5, <1>6, <1>7 DEF Awaited
<1>9. h.req.id[1] = n
  BY <1>3, <1>8, PathType
<1>10. PICK o \in Below[route] : o = h.req.op
  BY <1>2, <1>3, <1>4, <1>9
<1>11. PICK p \in Below[route] : p = Calls[op][k]
  BY <1>7
<1>12. Path(n, route, o) = Path(n, route, p)
  BY <1>2, <1>4, <1>8, <1>9, <1>10, <1>11
<1>13. o = p
  BY <1>12, PathsDiffer
<1>. QED  BY <1>3, <1>5, <1>6, <1>9, <1>10, <1>11, <1>13

LEMMA RespondWork ==
    ASSUME StateTypes, TreeInv, WorkInv, NEW s \in Servers, Respond(s)
    PROVE  WorkInv'
<1>1. PICK h : h = handling[s]
  OBVIOUS
<1>2. PICK hh : hh = [h EXCEPT !.phase = "responded"]
  OBVIOUS
<1>3. /\ h # None /\ h \in Handler /\ h.req.op \in Ops /\ h.phase = "working" /\ ~CallsLeft(h)
      /\ h.req.id[1] \in DOMAIN sent
      /\ handling'[s] = hh
      /\ \A c \in Servers : c # s /\ ~Awaits(c, h.req.id) => handling'[c] = handling[c]
      /\ \A c \in Servers : c # s /\ Awaits(c, h.req.id) =>
           /\ handling[c] # None
           /\ handling[c].phase = "waiting" /\ Awaited(handling[c]) = h.req.id
           /\ handling'[c].req = handling[c].req
           /\ handling'[c].made = handling[c].made /\ handling'[c].phase = "working"
  BY <1>1, <1>2, RespondIs
<1>4. /\ Genuine(h.req, sent, spans) /\ h.made \in Nat /\ h.made <= Len(Calls[h.req.op])
      /\ h.span = SpanOf(h.req.id[1], sent, h.req.op) /\ h.span \in spans
  BY <1>1, <1>3, HandlerIs
<1>5. UNCHANGED <<sent, spans, spoiled>>
  BY DEF Respond
\* The handler's own span, and the spans of its calls.
<1>6. ASSUME h.req.id[1] \notin spoiled PROVE Done(h.req.id[1], h.req.op)
  <2>1. Worked(h)
    BY <1>1, <1>3, <1>6 DEF WorkInv
  <2>2. PICK m, l \in Nat : m = h.made /\ l = Len(Calls[h.req.op])
    BY <1>3, <1>4, CallsType
  <2>3. m = l
    BY <1>3, <1>4, <2>2 DEF CallsLeft
  <2>4. \A k \in 1..Len(Calls[h.req.op]) : Done(h.req.id[1], Calls[h.req.op][k])
    BY <1>3, <2>1, <2>2, <2>3 DEF Worked
  <2>5. \A o \in Below[h.req.op] : o = h.req.op \/ \E k \in 1..Len(Calls[h.req.op]) :
                                                      o \in Below[Calls[h.req.op][k]]
    BY <1>3, BelowIsCalls
  <2>. QED  BY <1>4, <2>4, <2>5 DEF Done
<1>7. ASSUME NEW c \in Servers, handling'[c] # None, handling'[c].req.id[1] \notin spoiled'
      PROVE  handling'[c] = handling[c] \/ Worked(handling[c])'
  <2>1. CASE c = s
    <3>1. hh.req = h.req /\ hh.made = h.made /\ hh.phase = "responded"
      BY <1>2, <1>3 DEF Handler
    <3>2. Worked(handling[s])
      BY <1>1, <1>3, <1>5, <1>7, <2>1, <3>1 DEF WorkInv
    <3>3. \A k \in 1..hh.made :
            k < hh.made \/ hh.phase # "waiting" => Done(hh.req.id[1], Calls[hh.req.op][k])'
      <4>1. Longer(sent, sent') /\ spans \subseteq spans'
        BY <1>5, LongerSame
      <4>2. hh.req = handling[s].req /\ hh.made = handling[s].made /\ handling[s].phase = "working"
            /\ handling[s] # None
        BY <1>1, <1>3, <3>1
      <4>. QED  BY <3>2, <4>1, <4>2, WorkedStays
    <3>. QED  BY <1>3, <2>1, <3>3 DEF Worked
  <2>2. CASE c # s /\ ~Awaits(c, h.req.id)
    BY <1>3, <2>2
  <2>3. CASE c # s /\ Awaits(c, h.req.id)
    <3>1. PICK g : g = handling[c]
      OBVIOUS
    <3>2. /\ g # None /\ g.phase = "waiting" /\ Awaited(g) = h.req.id
          /\ handling'[c].req = g.req /\ handling'[c].made = g.made
          /\ handling'[c].phase = "working"
      BY <1>3, <2>3, <3>1
    <3>3. /\ Genuine(g.req, sent, spans) /\ g.made \in Nat /\ g.made <= Len(Calls[g.req.op])
          /\ g.req.op \in Ops
      BY <3>1, <3>2, HandlerIs
    <3>4. Worked(g)
      BY <1>5, <1>7, <3>1, <3>2 DEF WorkInv
    <3>5. ASSUME NEW k \in 1..g.made PROVE Done(g.req.id[1], Calls[g.req.op][k])
      <4>1. CASE k < g.made
        BY <3>4, <3>5, <4>1 DEF Worked
      <4>2. CASE k = g.made
        <5>1. g.made \in 1..Len(Calls[g.req.op])
          <6>1. PICK m, l \in Nat : m = g.made /\ l = Len(Calls[g.req.op])
            BY <3>3, CallsType
          <6>. QED  BY <3>3, <4>2, <6>1
        <5>2. h.req.id[1] = g.req.id[1] /\ h.req.op = Calls[g.req.op][g.made]
          BY <1>4, <3>2, <3>3, <5>1, AnswerIsOfCall
        <5>. QED  BY <1>5, <1>6, <1>7, <3>2, <4>2, <5>2
      <4>3. k < g.made \/ k = g.made
        BY <3>3
      <4>. QED  BY <4>1, <4>2, <4>3
    <3>6. \A k \in 1..g.made : Done(g.req.id[1], Calls[g.req.op][k])'
      BY <1>5, <3>5 DEF Done
    <3>. QED  BY <3>2, <3>6 DEF Worked
  <2>. QED  BY <2>1, <2>2, <2>3
<1>8. ASSUME NEW n \in DOMAIN answered' \ spoiled' PROVE Done(n, sent[n])
  <2>1. CASE n \in DOMAIN answered
    BY <1>5, <1>8, <2>1 DEF WorkInv
  <2>2. CASE n \notin DOMAIN answered
    <3>1. load = h.req.id /\ n = load[1]
      <4>1. answered' # answered
        BY <1>8, <2>2
      <4>2. load = h.req.id /\ DOMAIN answered' = DOMAIN answered \union {load[1]}
        BY <1>1, <4>1 DEF Respond
      <4>. QED  BY <1>8, <2>2, <4>2
    <3>2. h.req.op = sent[n]
      <4>1. load = <<Len(sent)>> \/ load = None
        BY DEF StateTypes
      <4>2. Len(sent) \in Nat /\ sent \in Seq(Routes)
        BY DEF StateTypes
      <4>3. PICK r : r = h.req
        OBVIOUS
      <4>4. r.id = Path(n, sent[n], r.op) /\ n \in Nat
        BY <1>4, <3>1, <4>2, <4>3, GenuineType
      <4>5. load # None
        <5>1. PICK m \in Nat : m = n
          BY <4>4
        <5>2. PICK route, op : route = sent[n] /\ op = r.op
          OBVIOUS
        <5>3. Path(m, route, op) \in Seq(Nat)
          BY PathType
        <5>4. load = Path(m, route, op)
          BY <3>1, <4>3, <4>4, <5>1, <5>2
        <5>. QED  BY ONLY <5>3, <5>4, NoneAssumption
      <4>6. r.id = <<n>>
        <5>1. PICK l \in Nat : l = Len(sent)
          BY <4>2
        <5>. QED  BY <3>1, <4>1, <4>3, <4>5, <5>1
      <4>7. PICK m \in Nat : m = n
        BY <4>4
      <4>8. PICK route, op : route = sent[n] /\ op = r.op
        OBVIOUS
      <4>9. Path(m, route, op) = <<m>>
        BY <4>4, <4>6, <4>7, <4>8
      <4>10. op = route
        BY <4>9, PathType
      <4>. QED  BY <4>3, <4>8, <4>10
    <3>. QED  BY <1>5, <1>6, <1>8, <3>1, <3>2
  <2>. QED  BY <2>1, <2>2
<1>9. \A n \in DOMAIN answered' \ spoiled' : Done(n, sent[n])'
  BY <1>5, <1>8 DEF Done
<1>10. ASSUME NEW c \in Servers, handling'[c] # None, handling'[c].req.id[1] \notin spoiled'
       PROVE  Worked(handling[c])'
  <2>1. CASE handling'[c] = handling[c]
    <3>1. Worked(handling[c])
      BY <1>5, <1>10, <2>1 DEF WorkInv
    <3>. QED  BY <1>5, <2>1, <3>1 DEF Worked, Done
  <2>. QED  BY <1>7, <1>10, <2>1
<1>. QED  BY <1>9, <1>10 DEF WorkInv

LEMMA InitWork == Init => WorkInv
BY DEF Init, WorkInv

LEMMA StepWork ==
    ASSUME StateTypes, TreeInv, WorkInv, [Next]_vars
    PROVE  WorkInv'
<1>1. ASSUME Longer(sent, sent'), UNCHANGED <<handling, answered, spans, spoiled>> PROVE WorkInv'
  BY <1>1, WorkKept
<1>2. CASE UNCHANGED vars \/ LoadTimesOut \/ LoadReset
  BY <1>1, <1>2, LongerSame DEF vars, servers, history, LoadTimesOut, LoadReset
<1>3. ASSUME NEW route \in Routes, LoadSends(route) PROVE WorkInv'
  <2>1. Longer(sent, sent')
    BY <1>3, LoadSendsIs
  <2>. QED  BY <1>1, <1>3, <2>1 DEF LoadSends
<1>4. ASSUME NEW s \in Servers, Accept(s) PROVE WorkInv'
  <2>1. /\ spans \subseteq spans' /\ UNCHANGED <<sent, answered, spoiled>>
        /\ handling'[s].made = 0
        /\ \A t \in Servers : t # s => handling'[t] = handling[t]
    BY <1>4 DEF Accept, StateTypes, HandlerTypes
  <2>2. Worked(handling[s])'
    BY <2>1 DEF Worked
  <2>. QED  BY <2>1, <2>2, LongerSame, WorkKept
<1>5. ASSUME NEW s \in Servers, CallOut(s) PROVE WorkInv'
  <2>0. handling[s] # None /\ CallsLeft(handling[s])
    BY <1>5 DEF CallOut
  <2>1. PICK h : h = NextCall(handling[s])
    OBVIOUS
  <2>2. h \in Handler /\ h.req = handling[s].req /\ h.made = handling[s].made + 1
    BY <2>0, <2>1, CallOutIs
  <2>3. \/ /\ handling' = [handling EXCEPT ![s] = [h EXCEPT !.phase = "waiting"]]
           /\ UNCHANGED <<items, channel, load, history>>
        \/ handling' = [handling EXCEPT ![s] = h] /\ Spoil(s)
    BY <1>5, <2>1 DEF CallOut, NextCall
  <2>4. CASE handling' = [handling EXCEPT ![s] = h] /\ Spoil(s)
    BY <2>0, <2>2, <2>4, SpoiltWork
  <2>5. CASE /\ handling' = [handling EXCEPT ![s] = [h EXCEPT !.phase = "waiting"]]
             /\ UNCHANGED <<items, channel, load, history>>
    <3>1. PICK g : g = [h EXCEPT !.phase = "waiting"]
      OBVIOUS
    <3>2. g.req = handling[s].req /\ g.made = handling[s].made + 1 /\ g.phase = "waiting"
      BY <2>2, <3>1 DEF Handler
    <3>3. handling'[s] = g /\ \A t \in Servers : t # s => handling'[t] = handling[t]
      BY <2>5, <3>1 DEF StateTypes, HandlerTypes
    <3>4. UNCHANGED <<sent, answered, spans, spoiled>>
      BY <2>5 DEF history
    <3>5. ASSUME handling[s].req.id[1] \notin spoiled PROVE Worked(handling[s])'
      <4>1. PICK m \in Nat : m = handling[s].made
        BY <2>0, HandlerIs
      <4>2. \A k \in 1..m : Done(handling[s].req.id[1], Calls[handling[s].req.op][k])
        BY <2>0, <3>5, <4>1 DEF WorkInv, Worked, CallsLeft
      <4>3. \A k \in 1..(m + 1) : k < m + 1 => k \in 1..m
        OBVIOUS
      <4>4. PICK r : r = handling[s].req
        OBVIOUS
      <4>5. \A k \in 1..(m + 1) : k < m + 1 => Done(r.id[1], Calls[r.op][k])'
        BY <3>4, <4>2, <4>3, <4>4 DEF Done
      <4>. QED  BY <3>2, <3>3, <4>1, <4>4, <4>5 DEF Worked
    <3>6. \A t \in Servers : handling'[t] # None /\ handling'[t].req.id[1] \notin spoiled'
                                => handling'[t] = handling[t] \/ Worked(handling[t])'
      BY <3>2, <3>3, <3>4, <3>5
    <3>. QED  BY <3>4, <3>6, LongerSame, WorkKept
  <2>. QED  BY <2>3, <2>4, <2>5
<1>6. ASSUME NEW s \in Servers, CallReset(s) PROVE WorkInv'
  <2>1. PICK h : h = [handling[s] EXCEPT !.phase = "working"]
    OBVIOUS
  <2>2. handling[s] # None /\ handling[s] \in Handler
    BY <1>6 DEF CallReset, StateTypes, HandlerTypes
  <2>3. h.req = handling[s].req
    BY <2>1, <2>2 DEF Handler
  <2>4. handling' = [handling EXCEPT ![s] = h] /\ Spoil(s)
    BY <1>6, <2>1 DEF CallReset
  <2>. QED  BY <2>2, <2>3, <2>4, SpoiltWork
<1>7. ASSUME NEW s \in Servers, SpanEnds(s) \/ Export(s) \/ Crash(s) PROVE WorkInv'
  <2>1. UNCHANGED <<sent, answered, spans, spoiled>>
    BY <1>7 DEF SpanEnds, Export, Crash, history
  <2>2. \A t \in Servers : handling'[t] = None \/ handling'[t] = handling[t]
    BY <1>7 DEF SpanEnds, Export, Crash, StateTypes, HandlerTypes
  <2>. QED  BY <2>1, <2>2, LongerSame, WorkKept
<1>. QED  BY <1>2, <1>3, <1>4, <1>5, <1>6, <1>7, RespondWork DEF Next, Serve

LEMMA WorkHolds == Spec => []WorkInv
<1>1. WorkInv /\ Inv /\ [Next]_vars => WorkInv'
  BY StepWork DEF Inv
<1>. QED  BY <1>1, InitWork, InvHolds, PTL DEF Spec

\* What a route reaches beside itself is called, and not by the load.
LEMMA ReachedIs ==
    ASSUME NEW route \in GatewayOps
    PROVE  /\ Reached[route] = Below[route] /\ IsFiniteSet(Below[route])
           /\ Host[route] = "gateway"
           /\ \A o \in Below[route] \ {route} :
                /\ Host[o] # "gateway"
                /\ Caller(route, o) \in Below[route]
                /\ \E i \in DOMAIN Calls[Caller(route, o)] : Calls[Caller(route, o)][i] = o
<1>1. Reached[route] = Below[route]
  BY DEF Reached, Below, GatewayOps
<1>2. IsFiniteSet(Below[route])
  <2>1. \E a, b, c : Below[route] = {a, b, c}
    <3>1. \/ Below[route] = {"checkout", "price", "save"}
          \/ Below[route] = {"catalog", "list", "list"}
          \/ Below[route] = {"report", "stats", "list"}
      BY BelowIs DEF GatewayOps
    <3>. QED  BY <3>1
  <2>2. PICK a, b, c : Below[route] = {a, b, c}
    BY <2>1
  <2>3. PICK S : S = {} \union {a}
    OBVIOUS
  <2>4. PICK T : T = S \union {b}
    OBVIOUS
  <2>5. IsFiniteSet(S) /\ IsFiniteSet(T) /\ IsFiniteSet(T \union {c})
    <3>1. IsFiniteSet(S)
      BY <2>3, FS_EmptySet, FS_AddElement
    <3>2. IsFiniteSet(T)
      BY <2>4, <3>1, FS_AddElement
    <3>. QED  BY <3>1, <3>2, FS_AddElement
  <2>6. Below[route] = T \union {c}
    BY <2>2, <2>3, <2>4
  <2>. QED  BY <2>5, <2>6
<1>3. ASSUME NEW o \in Below[route] \ {route}
      PROVE  /\ Host[o] # "gateway" /\ Caller(route, o) \in Below[route]
             /\ \E i \in DOMAIN Calls[Caller(route, o)] : Calls[Caller(route, o)][i] = o
  <2>1. \/ route = "checkout" /\ o = "price"
        \/ route = "checkout" /\ o = "save"
        \/ route = "catalog" /\ o = "list"
        \/ route = "report" /\ o = "stats"
        \/ route = "report" /\ o = "list"
    BY <1>3, BelowIs DEF GatewayOps
  <2>2. /\ 1 \in DOMAIN Calls["checkout"] /\ 2 \in DOMAIN Calls["checkout"]
        /\ 1 \in DOMAIN Calls["catalog"] /\ 1 \in DOMAIN Calls["report"]
        /\ 1 \in DOMAIN Calls["stats"]
    BY CallsAre DEF Ops
  <2>. QED  BY <2>1, <2>2, CallsAre, HostIs, BelowIs DEF Caller, Ops, GatewayOps
<1>. QED  BY <1>1, <1>2, <1>3, HostIs DEF GatewayOps, Ops

\* "one span per served request" (otlp lib.rs:1): spans hang under the spans of their
\* callers, by the traceparent header alone, and an answered request that no failure has
\* touched has one span for each operation its route reaches and no other, however many
\* requests are served before, after or in between.
THEOREM TracesAreWhole == Spec => []TracesWhole
<1>1. ASSUME Inv, WorkInv PROVE TracesWhole
  <2>0. sent \in Seq(Routes) /\ TreeInv /\ StateTypes
    BY <1>1 DEF Inv, StateTypes
  <2>1. ASSUME NEW x \in spans
        PROVE  IF Host[x.op] = "gateway" THEN x.parent = None /\ x.trace = x.id
               ELSE \E p \in spans : /\ p.id = x.parent /\ p.trace = x.trace
                                     /\ \E i \in DOMAIN Calls[p.op] : Calls[p.op][i] = x.op
    <3>0. PICK n \in DOMAIN sent : \E op \in Below[sent[n]] :
              /\ x = SpanOf(n, sent, op)
              /\ op # sent[n] => SpanOf(n, sent, Caller(sent[n], op)) \in spans
      BY <2>0, <2>1 DEF TreeInv, Rooted
    <3>1. PICK op \in Below[sent[n]] :
              /\ x = SpanOf(n, sent, op)
              /\ op # sent[n] => SpanOf(n, sent, Caller(sent[n], op)) \in spans
      BY <3>0
    <3>2. PICK route \in GatewayOps : route = sent[n]
      BY <2>0, SentAre
    <3>3. CASE op = route
      <4>1. x.op = route /\ x.parent = None /\ x.trace = <<n>> /\ x.id = <<n>>
        BY <3>1, <3>2, <3>3 DEF SpanOf, Path
      <4>. QED  BY <4>1, ReachedIs
    <3>4. CASE op # route
      <4>1. PICK o \in Below[route] \ {route} : o = op
        BY <3>1, <3>2, <3>4
      <4>2. /\ Host[o] # "gateway"
            /\ \E i \in DOMAIN Calls[Caller(route, o)] : Calls[Caller(route, o)][i] = o
        BY ReachedIs
      <4>3. PICK p \in spans : p = SpanOf(n, sent, Caller(route, o))
        BY <3>1, <3>2, <4>1
      <4>4. p.id = Path(n, route, Caller(route, o)) /\ p.trace = <<n>> /\ p.op = Caller(route, o)
        BY <3>2, <4>3 DEF SpanOf
      <4>5. x.parent = Path(n, route, Caller(route, o)) /\ x.trace = <<n>> /\ x.op = o
        BY <3>1, <3>2, <4>1 DEF SpanOf
      <4>. QED  BY <4>2, <4>4, <4>5
    <3>. QED  BY <3>3, <3>4
  <2>2. ASSUME NEW n \in DOMAIN answered \ spoiled
        PROVE  LET trace == {x \in spans : x.trace = <<n>>} IN
               /\ {x.op : x \in trace} = Reached[sent[n]]
               /\ Cardinality(trace) = Cardinality(Reached[sent[n]])
    <3>. DEFINE trace == {x \in spans : x.trace = <<n>>}
    <3>1. n \in DOMAIN sent
      BY <2>0, <2>2 DEF StateTypes
    <3>2. PICK route \in GatewayOps : route = sent[n]
      BY <2>0, <3>1, SentAre
    <3>3. \A o \in Below[route] : /\ SpanOf(n, sent, o) \in trace
                                  /\ SpanOf(n, sent, o).op = o
      <4>1. \A o \in Below[route] : SpanOf(n, sent, o) \in spans
        BY <1>1, <2>2, <3>2 DEF WorkInv, Done
      <4>2. \A o \in Below[route] : SpanOf(n, sent, o).op = o /\ SpanOf(n, sent, o).trace = <<n>>
        BY DEF SpanOf
      <4>. QED  BY <4>1, <4>2
    <3>4. ASSUME NEW x \in trace PROVE x.op \in Below[route] /\ x = SpanOf(n, sent, x.op)
      <4>0. PICK m \in DOMAIN sent : \E op \in Below[sent[m]] : x = SpanOf(m, sent, op)
        BY <2>0, <3>4 DEF TreeInv, Rooted
      <4>1. PICK op \in Below[sent[m]] : x = SpanOf(m, sent, op)
        BY <4>0
      <4>2. <<m>> = <<n>>
        BY <3>4, <4>1 DEF SpanOf
      <4>3. m = n
        BY <4>2
      <4>4. x.op = op
        BY <4>1 DEF SpanOf
      <4>. QED  BY <3>2, <4>1, <4>3, <4>4
    <3>. HIDE DEF trace
    <3>5. {x.op : x \in trace} = Below[route]
      BY <3>3, <3>4
    <3>6. Cardinality(trace) = Cardinality(Below[route])
      <4>. DEFINE f == [o \in Below[route] |-> SpanOf(n, sent, o)]
      <4>1. f \in Bijection(Below[route], trace)
        <5>1. f \in [Below[route] -> trace]
          BY <3>3
        <5>2. \A a, b \in Below[route] : f[a] = f[b] => a = b
          BY <3>3
        <5>3. \A x \in trace : \E a \in Below[route] : f[a] = x
          BY <3>4
        <5>. HIDE DEF f
        <5>. QED  BY <5>1, <5>2, <5>3, Fun_IsBij
      <4>2. ExistsBijection(Below[route], trace)
        BY <4>1 DEF ExistsBijection
      <4>3. IsFiniteSet(Below[route])
        BY ReachedIs
      <4>. QED  BY <4>2, <4>3, FS_Bijection
    <3>7. Reached[route] = Below[route]
      BY ReachedIs
    <3>. QED  BY <3>2, <3>5, <3>6, <3>7 DEF trace
  <2>. QED  BY <2>1, <2>2 DEF TracesWhole
<1>. QED  BY <1>1, InvHolds, WorkHolds, PTL
----------------------------------------------------------------------------
(***************************************************************************)
(* Confirmed orders are kept.  For a request of the load, a store saves at *)
(* most once; its order is held by the one handler that had it from there, *)
(* until the load is answered.  On the way to the store, the request       *)
(* carries the price its caller has.                                       *)
(***************************************************************************)
\* Once a store has saved for a request, nothing that could make it save again is alive.
DoneSaving(h) ==
    /\ h.req.op = "checkout" => h.made = 2
    /\ h.req.op = "save" => h.phase = "responded"

SavedOnce ==
    \A s \in Servers :
        /\ \A i \in DOMAIN queue[s] :
             queue[s][i].id[1] \in DOMAIN saver => queue[s][i].op \notin {"checkout", "save"}
        /\ handling[s] # None /\ handling[s].req.id[1] \in DOMAIN saver => DoneSaving(handling[s])

\* While a save is alive, its request of the load has no other, and its caller made no more calls.
LEMMA SaveIsAlone ==
    ASSUME Inv, NEW s \in Servers, handling[s] # None, NEW h, h = handling[s], h.req.op = "save"
    PROVE  /\ \A t \in Servers : \A i \in DOMAIN queue[t] :
                queue[t][i].id[1] = h.req.id[1] => queue[t][i].op \notin {"checkout", "save"}
           /\ \A t \in Servers : handling[t] # None /\ handling[t].req.id[1] = h.req.id[1] =>
                /\ handling[t].req.op = "checkout" => handling[t].made = 2
                /\ handling[t].req.op = "save" => t = s
<1>0. StateTypes /\ TreeInv /\ CallsInv /\ OnePlace /\ sent \in Seq(Routes)
  BY DEF Inv, CallsInv, StateTypes
<1>1. Live(h.req) /\ Genuine(h.req, sent, spans)
  <2>1. Live(h.req)
    BY DEF Live
  <2>. QED  BY <1>0, <2>1, LiveIs
<1>2. "save" \in Strictly("checkout")
  BY BelowIs DEF Strictly
<1>3. ASSUME NEW q, Genuine(q, sent, spans), q.id[1] = h.req.id[1], q.op = "save"
      PROVE  q.id = h.req.id
  BY <1>0, <1>1, <1>3, SameName
<1>4. ASSUME NEW t \in Servers, NEW i \in DOMAIN queue[t], queue[t][i].id[1] = h.req.id[1]
      PROVE  queue[t][i].op \notin {"checkout", "save"}
  <2>1. queue[t][i].op # "checkout"
    BY <1>0, <1>1, <1>2, <1>4 DEF Untouched, CallsInv
  <2>2. queue[t][i].op # "save"
    <3>. SUFFICES ASSUME queue[t][i].op = "save" PROVE FALSE
      OBVIOUS
    <3>1. Genuine(queue[t][i], sent, spans)
      BY <1>0 DEF TreeInv
    <3>2. queue[t][i].id = h.req.id
      BY <1>3, <1>4, <3>1
    <3>. QED  BY <1>0, <3>2, PlacesApart
  <2>. QED  BY <2>1, <2>2
<1>5. ASSUME NEW t \in Servers, handling[t] # None, handling[t].req.id[1] = h.req.id[1]
      PROVE  /\ handling[t].req.op = "checkout" => handling[t].made = 2
             /\ handling[t].req.op = "save" => t = s
  <2>1. PICK g : g = handling[t]
    OBVIOUS
  <2>2. /\ Genuine(g.req, sent, spans) /\ g.made \in Nat /\ g.made <= Len(Calls[g.req.op])
    BY <1>0, <1>5, <2>1, HandlerIs
  <2>3. CASE g.req.op = "checkout"
    <3>1. PICK k \in 1..g.made : h.req.op \in Below[Calls["checkout"][k]]
      BY <1>0, <1>1, <1>2, <1>5, <2>1, <2>3 DEF Called, CallsInv
    <3>2. PICK m \in Nat : m = g.made /\ m <= 2
      BY <2>2, <2>3, CallsAre
    <3>3. k = 1 \/ (k = 2 /\ m = 2)
      BY <3>1, <3>2
    <3>4. k # 1
      BY <3>1, CallsAre, BelowIs
    <3>. QED  BY <2>1, <2>3, <3>2, <3>3, <3>4
  <2>4. CASE g.req.op = "save"
    <3>1. g.req.id = h.req.id
      BY <1>3, <1>5, <2>1, <2>2, <2>4
    <3>. QED  BY <1>0, <1>5, <2>1, <2>4, <3>1, PlacesApart
  <2>. QED  BY <2>1, <2>3, <2>4
<1>. QED  BY <1>4, <1>5

\* Steps that save nothing.
LEMMA SavedStays ==
    ASSUME SavedOnce, UNCHANGED saver,
           \A s \in Servers : \A i \in DOMAIN queue'[s] :
               \/ \E j \in DOMAIN queue[s] : queue'[s][i] = queue[s][j]
               \/ queue'[s][i].id[1] \in DOMAIN saver => queue'[s][i].op \notin {"checkout", "save"},
           \A s \in Servers : handling'[s] # None =>
               \/ handling'[s] = handling[s]
               \/ handling'[s].req.id[1] \in DOMAIN saver => DoneSaving(handling'[s])
    PROVE  SavedOnce'
<1>1. ASSUME NEW s \in Servers, NEW i \in DOMAIN queue'[s], queue'[s][i].id[1] \in DOMAIN saver'
      PROVE  queue'[s][i].op \notin {"checkout", "save"}
  BY <1>1 DEF SavedOnce
<1>2. ASSUME NEW s \in Servers, handling'[s] # None, handling'[s].req.id[1] \in DOMAIN saver'
      PROVE  DoneSaving(handling'[s])
  BY <1>2 DEF SavedOnce
<1>. QED  BY <1>1, <1>2 DEF SavedOnce, DoneSaving

LEMMA CallOutSaved ==
    ASSUME Inv, SavedOnce, NEW s \in Servers, CallOut(s)
    PROVE  SavedOnce'
<1>0. StateTypes /\ TreeInv /\ queue \in [Servers -> Seq(Request)] /\ DOMAIN handling = Servers
  BY DEF Inv, StateTypes, QueueTypes, HandlerTypes
<1>1. PICK h : h = NextCall(handling[s])
  OBVIOUS
<1>2. PICK x : x = CallOf(handling[s])
  OBVIOUS
<1>3. handling[s] # None /\ CallsLeft(handling[s])
  BY DEF CallOut
<1>4. /\ h \in Handler /\ h.made = handling[s].made + 1 /\ h.req = handling[s].req
      /\ h.made \in 1..Len(Calls[h.req.op])
      /\ CallOf(handling[s]) = [id |-> Awaited(h), op |-> Calls[h.req.op][h.made],
            price |-> IF h.got.price = None THEN 0 ELSE h.got.price, tp |-> Traceparent(h)]
      /\ x \in Request /\ x.id[1] = h.req.id[1] /\ x.op = Calls[h.req.op][h.made]
      /\ \A c \in Callees(h) : c \in Servers /\ Host[x.op] = Role[c]
  BY <1>0, <1>1, <1>2, <1>3, CallOutIs
<1>5. h.req.op \in Ops
  BY <1>0, <1>3, <1>4, HandlerIs
<1>6. PICK g : g = [h EXCEPT !.phase = "waiting"]
  OBVIOUS
<1>7. g.req = h.req /\ g.made = h.made
  BY <1>4, <1>6 DEF Handler
\* It has calls left, so it is no checkout that has saved, and no save.
<1>8. h.req.id[1] \in DOMAIN saver => h.req.op \notin {"checkout", "save"}
  <2>1. h.req.op # "save"
    <3>1. PICK op \in Ops : op = h.req.op
      BY <1>5
    <3>2. PICK k \in 1..Len(Calls[op]) : k = h.made
      BY <1>4, <3>1
    <3>. QED  BY <3>1, <3>2, CallCases
  <2>2. ASSUME h.req.id[1] \in DOMAIN saver, h.req.op = "checkout" PROVE FALSE
    <3>1. handling[s].made = 2
      BY <1>3, <1>4, <2>2 DEF SavedOnce, DoneSaving
    <3>. QED  BY <1>3, <1>4, <2>2, <3>1, CallsAre DEF CallsLeft
  <2>. QED  BY <2>1, <2>2
<1>9. x.id[1] \in DOMAIN saver => x.op \notin {"checkout", "save"}
  <2>1. PICK op \in Ops : op = h.req.op
    BY <1>5
  <2>2. PICK k \in 1..Len(Calls[op]) : k = h.made
    BY <1>4, <2>1
  <2>3. x.id[1] = h.req.id[1] /\ x.op = Calls[op][k]
    BY <1>4, <2>1, <2>2
  <2>4. op # "checkout" => Calls[op][k] \in {"list", "stats"}
    BY CallCases
  <2>. QED  BY <1>8, <2>1, <2>3, <2>4
<1>10. /\ handling' = [handling EXCEPT ![s] = g] \/ handling' = [handling EXCEPT ![s] = h]
       /\ UNCHANGED queue \/ \E c \in Callees(h) : Enqueue(c, x)
       /\ UNCHANGED saver
  <2>1. \/ /\ handling' = [handling EXCEPT ![s] = g]
           /\ \E c \in Callees(h) : Enqueue(c, x)
           /\ UNCHANGED <<items, channel, load, history>>
        \/ handling' = [handling EXCEPT ![s] = h] /\ Spoil(s)
    <3>1. \/ /\ handling' = [handling EXCEPT ![s] = [h EXCEPT !.phase = "waiting"]]
             /\ \E c \in Callees(h) : Enqueue(c, CallOf(handling[s]))
             /\ UNCHANGED <<items, channel, load, history>>
          \/ handling' = [handling EXCEPT ![s] = h] /\ Spoil(s)
      <4>1. CallOf(handling[s]) = [id |-> Awaited(h), op |-> Calls[h.req.op][h.made],
                 price |-> IF h.got.price = None THEN 0 ELSE h.got.price, tp |-> Traceparent(h)]
        BY <1>4
      <4>. QED  BY <1>1, <4>1, CallOutEither, Zenon
    <3>. QED  BY <1>2, <1>6, <3>1
  <2>. QED  BY <2>1 DEF Spoil, history
<1>11. ASSUME NEW t \in Servers, NEW i \in DOMAIN queue'[t]
       PROVE  \/ \E j \in DOMAIN queue[t] : queue'[t][i] = queue[t][j]
              \/ queue'[t][i].id[1] \in DOMAIN saver => queue'[t][i].op \notin {"checkout", "save"}
  <2>1. CASE UNCHANGED queue
    BY <1>11, <2>1
  <2>2. CASE \E c \in Callees(h) : Enqueue(c, x)
    <3>1. PICK c \in Servers : Enqueue(c, x)
      BY <1>4, <2>2
    <3>2. (i \in DOMAIN queue[t] /\ queue'[t][i] = queue[t][i]) \/ queue'[t][i] = x
      BY <1>0, <1>4, <1>11, <3>1, EnqueueIs
    <3>. QED  BY <1>9, <3>2
  <2>. QED  BY <1>10, <2>1, <2>2
<1>12. ASSUME NEW t \in Servers, handling'[t] # None
       PROVE  \/ handling'[t] = handling[t]
              \/ handling'[t].req.id[1] \in DOMAIN saver => DoneSaving(handling'[t])
  <2>1. t # s => handling'[t] = handling[t]
    BY <1>0, <1>10
  <2>2. handling'[s].req = h.req
    BY <1>0, <1>7, <1>10
  <2>. QED  BY <1>8, <2>1, <2>2 DEF DoneSaving
<1>. QED  BY <1>10, <1>11, <1>12, SavedStays

LEMMA RespondSaved ==
    ASSUME Inv, SavedOnce, NEW s \in Servers, Respond(s)
    PROVE  SavedOnce'
<1>0. StateTypes /\ TreeInv
  BY DEF Inv
<1>1. PICK h : h = handling[s]
  OBVIOUS
<1>2. PICK hh : hh = [h EXCEPT !.phase = "responded"]
  OBVIOUS
<1>3. /\ h # None /\ h \in Handler /\ h.phase = "working"
      /\ handling'[s] = hh
      /\ \A c \in Servers : c # s /\ ~Awaits(c, h.req.id) => handling'[c] = handling[c]
      /\ \A c \in Servers : c # s /\ Awaits(c, h.req.id) =>
           /\ handling[c] # None /\ handling[c].phase = "waiting"
           /\ handling'[c].req = handling[c].req /\ handling'[c].made = handling[c].made
  BY <1>0, <1>1, <1>2, RespondIs
<1>4. hh.req = h.req /\ hh.made = h.made /\ hh.phase = "responded"
  BY <1>2, <1>3 DEF Handler
<1>5. UNCHANGED queue
  BY DEF Respond
<1>6. PICK n : n = h.req.id[1]
  OBVIOUS
<1>7. /\ h.req.op # "save" => saver' = saver
      /\ DOMAIN saver' = DOMAIN saver \/ DOMAIN saver' = DOMAIN saver \union {n}
  BY <1>1, <1>6 DEF Respond
\* A handler other than s is as far as it was.
<1>8. ASSUME NEW t \in Servers, t # s, handling'[t] # None
      PROVE  /\ handling[t] # None /\ handling'[t].req = handling[t].req
             /\ DoneSaving(handling[t]) => DoneSaving(handling'[t])
             /\ handling'[t].made = handling[t].made
  BY <1>3, <1>8 DEF DoneSaving
<1>9. CASE saver' = saver
  <2>1. ASSUME NEW t \in Servers, handling'[t] # None
        PROVE  \/ handling'[t] = handling[t]
               \/ handling'[t].req.id[1] \in DOMAIN saver => DoneSaving(handling'[t])
    <3>1. CASE t # s
      BY <1>8, <2>1, <3>1 DEF SavedOnce
    <3>2. CASE t = s
      BY <1>1, <1>3, <1>4, <3>2 DEF SavedOnce, DoneSaving
    <3>. QED  BY <3>1, <3>2
  <2>. QED  BY <1>5, <1>9, <2>1, SavedStays
<1>10. CASE h.req.op = "save"
  <2>1. /\ \A t \in Servers : \A i \in DOMAIN queue[t] :
             queue[t][i].id[1] = n => queue[t][i].op \notin {"checkout", "save"}
        /\ \A t \in Servers : handling[t] # None /\ handling[t].req.id[1] = n =>
             /\ handling[t].req.op = "checkout" => handling[t].made = 2
             /\ handling[t].req.op = "save" => t = s
    BY <1>1, <1>3, <1>6, <1>10, SaveIsAlone
  <2>2. ASSUME NEW t \in Servers, NEW i \in DOMAIN queue'[t], queue'[t][i].id[1] \in DOMAIN saver'
        PROVE  queue'[t][i].op \notin {"checkout", "save"}
    BY <1>5, <1>7, <2>1, <2>2 DEF SavedOnce
  <2>3. ASSUME NEW t \in Servers, handling'[t] # None, handling'[t].req.id[1] \in DOMAIN saver'
        PROVE  DoneSaving(handling'[t])
    <3>1. CASE t = s
      BY <1>3, <1>4, <1>10, <3>1 DEF DoneSaving
    <3>2. CASE t # s /\ handling[t].req.id[1] = n
      BY <1>8, <2>1, <2>3, <3>2 DEF DoneSaving
    <3>3. CASE t # s /\ handling[t].req.id[1] # n
      BY <1>7, <1>8, <2>3, <3>3 DEF SavedOnce
    <3>. QED  BY <3>1, <3>2, <3>3
  <2>. QED  BY <2>2, <2>3 DEF SavedOnce, DoneSaving
<1>. QED  BY <1>7, <1>9, <1>10

LEMMA StepSaved == Inv /\ SavedOnce /\ [Next]_vars => SavedOnce'
<1>. SUFFICES ASSUME Inv, SavedOnce, [Next]_vars PROVE SavedOnce'
  OBVIOUS
<1>0. /\ StateTypes /\ TreeInv /\ queue \in [Servers -> Seq(Request)] /\ DOMAIN handling = Servers
      /\ DOMAIN saver \subseteq DOMAIN sent
  BY DEF Inv, StateTypes, QueueTypes, HandlerTypes
\* No request is new, and no handler but for those that end.
<1>1. ASSUME UNCHANGED saver, \A s \in Servers : queue'[s] = queue[s] \/ queue'[s] = << >>,
             \A s \in Servers : handling'[s] = None \/ handling'[s] = handling[s]
      PROVE  SavedOnce'
  <2>1. DOMAIN << >> = {}
    OBVIOUS
  <2>. QED  BY <1>1, <2>1, SavedStays
<1>2. CASE UNCHANGED vars \/ LoadTimesOut \/ LoadReset
  BY <1>1, <1>2 DEF vars, servers, history, LoadTimesOut, LoadReset
<1>3. ASSUME NEW route \in Routes, LoadSends(route) PROVE SavedOnce'
  <2>1. PICK x : x = LoadRequest(Len(sent'), route)
    OBVIOUS
  <2>2. /\ x \in Request /\ Len(sent') \notin DOMAIN sent
        /\ UNCHANGED queue \/ \E g \in Servers : Enqueue(g, x)
    BY <1>0, <1>3, <2>1, LoadSendsIs
  <2>3. x.id[1] = Len(sent')
    BY <2>1 DEF LoadRequest
  <2>4. UNCHANGED <<handling, saver>>
    BY <1>3 DEF LoadSends
  <2>5. ASSUME NEW t \in Servers, NEW i \in DOMAIN queue'[t]
        PROVE  \/ \E j \in DOMAIN queue[t] : queue'[t][i] = queue[t][j]
               \/ queue'[t][i].id[1] \notin DOMAIN saver
    <3>1. CASE UNCHANGED queue
      BY <2>5, <3>1
    <3>2. CASE \E g \in Servers : Enqueue(g, x)
      <4>1. PICK g \in Servers : Enqueue(g, x)
        BY <3>2
      <4>2. (i \in DOMAIN queue[t] /\ queue'[t][i] = queue[t][i]) \/ queue'[t][i] = x
        BY <1>0, <2>2, <2>5, <4>1, EnqueueIs
      <4>. QED  BY <1>0, <2>2, <2>3, <4>2
    <3>. QED  BY <2>2, <3>1, <3>2
  <2>. QED  BY <2>4, <2>5, SavedStays
<1>4. ASSUME NEW s \in Servers, Accept(s) PROVE SavedOnce'
  <2>1. queue[s] # << >> /\ queue' = [queue EXCEPT ![s] = Rest(@)]
    BY <1>4 DEF Accept
  <2>2. /\ 1 \in DOMAIN queue[s] /\ Head(queue[s]) = queue[s][1]
        /\ \A t \in Servers : t # s => queue'[t] = queue[t]
        /\ \A i \in DOMAIN queue'[s] : i + 1 \in DOMAIN queue[s] /\ queue'[s][i] = queue[s][i + 1]
    BY <1>0, <2>1, DequeueIs
  <2>3. /\ handling'[s].req = queue[s][1] /\ UNCHANGED saver
        /\ \A t \in Servers : t # s => handling'[t] = handling[t]
    BY <1>0, <1>4, <2>2 DEF Accept
  <2>4. \A t \in Servers : \A i \in DOMAIN queue'[t] :
            \E j \in DOMAIN queue[t] : queue'[t][i] = queue[t][j]
    BY <2>2
  <2>5. handling'[s].req.id[1] \in DOMAIN saver => DoneSaving(handling'[s])
    BY <2>2, <2>3 DEF SavedOnce, DoneSaving
  <2>. QED  BY <2>3, <2>4, <2>5, SavedStays
<1>5. ASSUME NEW s \in Servers, CallReset(s) PROVE SavedOnce'
  <2>1. PICK h : h = [handling[s] EXCEPT !.phase = "working"]
    OBVIOUS
  <2>2. handling[s] # None /\ handling[s] \in Handler /\ handling[s].phase = "waiting"
    BY <1>0, <1>5 DEF CallReset, StateTypes, HandlerTypes
  <2>3. h.req = handling[s].req /\ h.made = handling[s].made
    BY <2>1, <2>2 DEF Handler
  <2>4. /\ handling'[s] = h /\ (\A t \in Servers : t # s => handling'[t] = handling[t])
        /\ UNCHANGED <<queue, saver>>
    BY <1>0, <1>5, <2>1 DEF CallReset, Spoil
  <2>5. h.req.id[1] \in DOMAIN saver => DoneSaving(h)
    BY <2>2, <2>3 DEF SavedOnce, DoneSaving
  <2>. QED  BY <2>4, <2>5, SavedStays
<1>6. ASSUME NEW s \in Servers, SpanEnds(s) \/ Export(s) PROVE SavedOnce'
  <2>1. UNCHANGED <<queue, saver>>
    BY <1>6 DEF SpanEnds, Export, history
  <2>2. \A t \in Servers : handling'[t] = None \/ handling'[t] = handling[t]
    BY <1>0, <1>6 DEF SpanEnds, Export
  <2>. QED  BY <1>1, <2>1, <2>2
<1>7. ASSUME NEW s \in Servers, Crash(s) PROVE SavedOnce'
  BY <1>0, <1>1, <1>7 DEF Crash
<1>. QED  BY <1>2, <1>3, <1>4, <1>5, <1>6, <1>7, CallOutSaved, RespondSaved DEF Next, Serve
----------------------------------------------------------------------------
(***************************************************************************)
(* What was saved stays: stores that live grow, and a save is by one store.*)
(***************************************************************************)
Stand ==
    /\ \A n \in DOMAIN saver : n \in DOMAIN saver' /\ saver'[n] = saver[n]
    /\ CrashedServers \subseteq CrashedServers'
    /\ \A t \in Servers : t \notin CrashedServers' =>
         \A i \in DOMAIN items[t] : i \in DOMAIN items'[t] /\ items'[t][i] = items[t][i]

LEMMA StepStand == Inv /\ SavedOnce /\ [Next]_vars => Stand
<1>. SUFFICES ASSUME Inv, SavedOnce, [Next]_vars PROVE Stand
  OBVIOUS
<1>0. StateTypes /\ items \in [Servers -> Seq(0..1)] /\ crashes \in Seq(Servers)
  BY DEF Inv, StateTypes
<1>1. CASE UNCHANGED <<items, saver, crashes>>
  BY <1>1 DEF Stand, CrashedServers
<1>2. ASSUME NEW s \in Servers, Respond(s) PROVE Stand
  <2>1. PICK h : h = handling[s]
    OBVIOUS
  <2>2. PICK n, p : n = h.req.id[1] /\ p = h.req.price
    OBVIOUS
  <2>3. CASE UNCHANGED <<items, saver>>
    BY <1>1, <1>2, <2>3 DEF Respond
  <2>4. CASE h.req.op = "save"
    <3>1. /\ items' = [items EXCEPT ![s] = Append(items[s], p)] /\ crashes' = crashes
          /\ saver' = [m \in DOMAIN saver \union {n} |-> IF m = n THEN s ELSE saver[m]]
      BY <1>2, <2>1, <2>2, <2>4 DEF Respond
    <3>2. n \notin DOMAIN saver
      BY <1>2, <2>1, <2>2, <2>4 DEF Respond, SavedOnce, DoneSaving
    <3>3. p \in 0..1
      BY <1>0, <1>2, <2>1, <2>2 DEF Respond, StateTypes, HandlerTypes, Handler, Request
    <3>4. \A i \in DOMAIN items[s] :
             i \in DOMAIN Append(items[s], p) /\ Append(items[s], p)[i] = items[s][i]
      BY <1>0, <3>3
    <3>5. \A t \in Servers : \A i \in DOMAIN items[t] : i \in DOMAIN items'[t] /\ items'[t][i] = items[t][i]
      BY <1>0, <3>1, <3>4
    <3>. QED  BY <3>1, <3>2, <3>5 DEF Stand, CrashedServers
  <2>. QED  BY <1>2, <2>1, <2>3, <2>4 DEF Respond
<1>3. ASSUME NEW s \in Servers, Crash(s) PROVE Stand
  <2>1. /\ items' = [items EXCEPT ![s] = << >>] /\ saver' = saver /\ crashes' = Append(crashes, s)
    BY <1>3 DEF Crash
  <2>2. /\ \A i \in DOMAIN crashes : i \in DOMAIN crashes' /\ crashes'[i] = crashes[i]
        /\ Len(crashes) + 1 \in DOMAIN crashes' /\ crashes'[Len(crashes) + 1] = s
    BY <1>0, <2>1
  <2>3. s \in CrashedServers' /\ CrashedServers \subseteq CrashedServers'
    BY <2>2 DEF CrashedServers
  <2>4. \A t \in Servers : t # s => items'[t] = items[t]
    BY <1>0, <2>1
  <2>. QED  BY <2>1, <2>3, <2>4 DEF Stand
<1>4. \/ UNCHANGED <<items, saver, crashes>>
      \/ \E s \in Servers : Respond(s) \/ Crash(s)
  BY DEF Next, Serve, vars, history, servers, LoadSends, LoadTimesOut, LoadReset, Accept, CallOut,
         Spoil, CallReset, SpanEnds, Export
<1>. QED  BY <1>1, <1>2, <1>3, <1>4
----------------------------------------------------------------------------
PriceOf(got) == IF got.price = None THEN 0 ELSE got.price

\* The order an answer names is with the store that saved for the n-th request.
Kept(n, a) ==
    /\ n \in DOMAIN saver
    /\ saver[n] \notin CrashedServers =>
         /\ a.order \in DOMAIN items[saver[n]]
         /\ items[saver[n]][a.order] = PriceOf(a)

OrderHeld(h) ==
    h.got.order # None =>
        h.req.op = "checkout" /\ h.made = 2 /\ h.phase # "waiting" /\ Kept(h.req.id[1], h.got)

Priced(h) ==
    h.req.op = "checkout" /\ h.made = 2 /\ h.phase = "waiting" =>
        \A r : Live(r) /\ r.id = Awaited(h) => r.price = PriceOf(h.got)

HeldInv == \A s \in Servers : handling[s] # None => OrderHeld(handling[s]) /\ Priced(handling[s])

AnsweredInv ==
    \A n \in DOMAIN answered :
        sent[n] = "checkout" /\ answered[n].order # None => Kept(n, answered[n])

\* An order a request was told of: its handler has it, or the load.
Told(n, o) ==
    \/ n \in DOMAIN answered /\ sent[n] = "checkout" /\ answered[n].order = o
    \/ \E s \in Servers :
         handling[s] # None /\ handling[s].req.id[1] = n /\ handling[s].got.order = o

\* A store that lives has named no order twice.
Distinct ==
    \A n, m, o : o # None /\ Told(n, o) /\ Told(m, o) /\ n # m =>
        saver[n] # saver[m] \/ saver[n] \in CrashedServers

OrderInv == HeldInv /\ AnsweredInv /\ Distinct

LEMMA ToldKept ==
    ASSUME HeldInv, AnsweredInv, NEW n, NEW o, o # None, Told(n, o)
    PROVE  /\ n \in DOMAIN saver
           /\ saver[n] \notin CrashedServers => o \in DOMAIN items[saver[n]]
<1>1. CASE n \in DOMAIN answered /\ sent[n] = "checkout" /\ answered[n].order = o
  BY <1>1 DEF AnsweredInv, Kept
<1>2. CASE \E s \in Servers : handling[s] # None /\ handling[s].req.id[1] = n
                                /\ handling[s].got.order = o
  BY <1>2 DEF HeldInv, OrderHeld, Kept
<1>. QED  BY <1>1, <1>2 DEF Told

LEMMA KeptStays ==
    ASSUME StateTypes, Stand, NEW n, NEW a, Kept(n, a)
    PROVE  Kept(n, a)'
<1>1. n \in DOMAIN saver /\ saver[n] \in Servers
  BY DEF Kept, StateTypes
<1>2. PICK t \in Servers : t = saver[n]
  BY <1>1
<1>3. n \in DOMAIN saver' /\ saver'[n] = t
  BY <1>1, <1>2 DEF Stand
<1>4. ASSUME t \notin CrashedServers'
      PROVE  a.order \in DOMAIN items'[t] /\ items'[t][a.order] = PriceOf(a)
  <2>1. t \notin CrashedServers
    BY <1>4 DEF Stand
  <2>2. a.order \in DOMAIN items[t] /\ items[t][a.order] = PriceOf(a)
    BY <1>2, <2>1 DEF Kept
  <2>. QED  BY <1>4, <2>2 DEF Stand
<1>. QED  BY <1>3, <1>4 DEF Kept, PriceOf

\* When nobody is told of an order that was not told of before, orders stay apart.
LEMMA DistinctStays ==
    ASSUME Stand, HeldInv, AnsweredInv, Distinct, \A n, o : o # None /\ Told(n, o)' => Told(n, o)
    PROVE  Distinct'
<1>. SUFFICES ASSUME NEW n, NEW m, NEW o, o # None, Told(n, o)', Told(m, o)', n # m
              PROVE  saver'[n] # saver'[m] \/ saver'[n] \in CrashedServers'
  BY DEF Distinct
<1>1. Told(n, o) /\ Told(m, o)
  OBVIOUS
<1>2. saver[n] # saver[m] \/ saver[n] \in CrashedServers
  BY <1>1 DEF Distinct
<1>3. n \in DOMAIN saver /\ m \in DOMAIN saver
  BY <1>1, ToldKept
<1>. QED  BY <1>2, <1>3 DEF Stand

\* Steps that answer nothing, and change no handler but for some that hold no order.
LEMMA OrdersStay ==
    ASSUME StateTypes, OrderInv, Stand, Longer(sent, sent'), UNCHANGED answered,
           \A s \in Servers : handling'[s] # None =>
               \/ /\ handling'[s] = handling[s]
                  /\ \A r : Live(r)' /\ r.id = Awaited(handling[s]) => Live(r)
               \/ handling'[s].got.order = None /\ Priced(handling[s])'
    PROVE  OrderInv'
<1>0. HeldInv /\ AnsweredInv /\ Distinct
  BY DEF OrderInv
<1>1. \A n \in DOMAIN answered : sent'[n] = sent[n]
  BY DEF StateTypes, Longer
<1>2. AnsweredInv'
  <2>. SUFFICES ASSUME NEW n \in DOMAIN answered, sent[n] = "checkout", answered[n].order # None
                PROVE  Kept(n, answered[n])'
    BY <1>1 DEF AnsweredInv
  <2>1. PICK a : a = answered[n]
    OBVIOUS
  <2>2. Kept(n, a)
    BY <1>0, <2>1 DEF AnsweredInv
  <2>3. Kept(n, a)'
    BY <2>2, KeptStays
  <2>. QED  BY <2>1, <2>3
<1>3. HeldInv'
  <2>. SUFFICES ASSUME NEW s \in Servers, handling'[s] # None
                PROVE  OrderHeld(handling[s])' /\ Priced(handling[s])'
    BY DEF HeldInv
  <2>1. CASE /\ handling'[s] = handling[s]
             /\ \A r : Live(r)' /\ r.id = Awaited(handling[s]) => Live(r)
    <3>1. PICK h : h = handling[s]
      OBVIOUS
    <3>2. OrderHeld(h) /\ Priced(h)
      BY <1>0, <2>1, <3>1 DEF HeldInv
    <3>3. PICK n, a : n = h.req.id[1] /\ a = h.got
      OBVIOUS
    <3>4. Kept(n, a) => Kept(n, a)'
      BY KeptStays
    <3>5. OrderHeld(h)'
      BY <3>2, <3>3, <3>4 DEF OrderHeld
    <3>6. Priced(h)'
      BY <2>1, <3>1, <3>2 DEF Priced, Awaited
    <3>. QED  BY <2>1, <3>1, <3>5, <3>6
  <2>2. CASE handling'[s].got.order = None /\ Priced(handling[s])'
    BY <2>2 DEF OrderHeld
  <2>. QED  BY <2>1, <2>2
<1>4. ASSUME NEW n, NEW o, o # None, Told(n, o)' PROVE Told(n, o)
  <2>1. CASE n \in DOMAIN answered' /\ sent'[n] = "checkout" /\ answered'[n].order = o
    BY <1>1, <2>1 DEF Told
  <2>2. CASE \E s \in Servers : handling'[s] # None /\ handling'[s].req.id[1] = n
                                  /\ handling'[s].got.order = o
    BY <1>4, <2>2 DEF Told
  <2>. QED  BY <1>4, <2>1, <2>2 DEF Told
<1>5. Distinct'
  BY <1>0, <1>4, DistinctStays
<1>. QED  BY <1>2, <1>3, <1>5 DEF OrderInv

\* Who waits has made a call.
WaitInv == \A s \in Servers : handling[s] # None /\ handling[s].phase = "waiting"
                                => handling[s].made > 0

LEMMA StepWait == StateTypes /\ TreeInv /\ WaitInv /\ [Next]_vars => WaitInv'
<1>. SUFFICES ASSUME StateTypes, TreeInv, WaitInv, [Next]_vars PROVE WaitInv'
  OBVIOUS
<1>0. DOMAIN handling = Servers
  BY DEF StateTypes, HandlerTypes
<1>1. CASE UNCHANGED vars \/ LoadTimesOut \/ LoadReset \/ \E route \in Routes : LoadSends(route)
  BY <1>1 DEF vars, servers, history, LoadTimesOut, LoadReset, LoadSends, WaitInv
<1>2. ASSUME NEW s \in Servers, Accept(s) PROVE WaitInv'
  <2>1. /\ handling'[s].phase = "working"
        /\ \A t \in Servers : t # s => handling'[t] = handling[t]
    BY <1>0, <1>2 DEF Accept
  <2>. QED  BY <2>1 DEF WaitInv
<1>3. ASSUME NEW s \in Servers, CallOut(s) PROVE WaitInv'
  <2>0. handling[s] # None /\ CallsLeft(handling[s])
    BY <1>3 DEF CallOut
  <2>1. PICK h : h = NextCall(handling[s])
    OBVIOUS
  <2>2. h \in Handler /\ h.made = handling[s].made + 1
    BY <2>0, <2>1, CallOutIs
  <2>3. PICK g : g = [h EXCEPT !.phase = "waiting"]
    OBVIOUS
  <2>4. g.made = h.made
    BY <2>2, <2>3 DEF Handler
  <2>5. handling' = [handling EXCEPT ![s] = g] \/ handling' = [handling EXCEPT ![s] = h]
    BY <1>3, <2>1, <2>3 DEF CallOut, NextCall
  <2>6. (handling'[s] = g \/ handling'[s] = h) /\ \A t \in Servers : t # s => handling'[t] = handling[t]
    BY <1>0, <2>5
  <2>7. h.made > 0
    <3>1. PICK m \in Nat : m = handling[s].made
      BY <2>0, HandlerIs
    <3>. QED  BY <2>2, <3>1
  <2>. QED  BY <2>4, <2>6, <2>7 DEF WaitInv
<1>4. ASSUME NEW s \in Servers, CallReset(s) PROVE WaitInv'
  <2>1. PICK h : h = [handling[s] EXCEPT !.phase = "working"]
    OBVIOUS
  <2>2. handling[s] \in Handler
    BY <1>4 DEF CallReset, StateTypes, HandlerTypes
  <2>3. h.phase = "working"
    BY <2>1, <2>2 DEF Handler
  <2>4. handling'[s] = h /\ \A t \in Servers : t # s => handling'[t] = handling[t]
    BY <1>0, <1>4, <2>1 DEF CallReset
  <2>. QED  BY <2>3, <2>4 DEF WaitInv
<1>5. ASSUME NEW s \in Servers, Respond(s) PROVE WaitInv'
  <2>1. PICK h : h = handling[s]
    OBVIOUS
  <2>2. PICK g : g = [h EXCEPT !.phase = "responded"]
    OBVIOUS
  <2>3. /\ h \in Handler /\ handling'[s] = g
        /\ \A c \in Servers : c # s /\ ~Awaits(c, h.req.id) => handling'[c] = handling[c]
        /\ \A c \in Servers : c # s /\ Awaits(c, h.req.id) => handling'[c].phase = "working"
    BY <1>5, <2>1, <2>2, RespondIs
  <2>4. g.phase = "responded"
    BY <2>2, <2>3 DEF Handler
  <2>5. \A c \in Servers : handling'[c] = handling[c] \/ handling'[c].phase # "waiting"
    BY <2>3, <2>4
  <2>. QED  BY <2>5 DEF WaitInv
<1>6. ASSUME NEW s \in Servers, SpanEnds(s) \/ Export(s) \/ Crash(s) PROVE WaitInv'
  <2>1. \A t \in Servers : handling'[t] = None \/ handling'[t] = handling[t]
    BY <1>0, <1>6 DEF SpanEnds, Export, Crash
  <2>. QED  BY <2>1 DEF WaitInv
<1>. QED  BY <1>1, <1>2, <1>3, <1>4, <1>5, <1>6 DEF Next, Serve

\* A call is in the trace of its caller, whatever its number.
LEMMA AwaitedTrace ==
    ASSUME StateTypes, TreeInv, NEW s \in Servers, handling[s] # None
    PROVE  Awaited(handling[s])[1] = handling[s].req.id[1]
<1>1. /\ handling[s].req \in Request /\ handling[s].made \in Nat
      /\ Genuine(handling[s].req, sent, spans) /\ sent \in Seq(Routes)
  BY HandlerIs DEF StateTypes
<1>2. PICK r : r = handling[s].req
  OBVIOUS
<1>3. PICK id : id = r.id
  OBVIOUS
<1>4. id \in Seq(Nat)
  BY <1>1, <1>2, <1>3 DEF Request
<1>5. Len(id) >= 1
  <2>1. r.id = Path(r.id[1], sent[r.id[1]], r.op) /\ r.id[1] \in Nat
    BY <1>1, <1>2, GenuineType
  <2>2. \A n \in Nat : \A route, op : Len(Path(n, route, op)) >= 1
    BY DEF Path
  <2>3. PICK n \in Nat : n = r.id[1]
    BY <2>1
  <2>4. PICK p : p = Path(n, sent[n], r.op)
    OBVIOUS
  <2>. QED  BY <1>3, <2>1, <2>2, <2>3, <2>4
<1>6. \A k \in Nat : Append(id, k)[1] = id[1]
  BY <1>4, <1>5
<1>. QED  BY <1>1, <1>2, <1>3, <1>6 DEF Awaited

\* A new call awaits what nobody else awaits.
LEMMA AwaitedApart ==
    ASSUME Inv, NEW s \in Servers, handling[s] # None,
           NEW t \in Servers, handling[t] # None, t # s, NEW k \in Nat
    PROVE  Awaited(handling[t]) # Append(handling[s].req.id, k)
<1>0. StateTypes /\ TreeInv /\ OnePlace
  BY DEF Inv, CallsInv
<1>1. PICK h, g : h = handling[s] /\ g = handling[t]
  OBVIOUS
<1>2. h.req \in Request /\ g.req \in Request /\ g.made \in Nat
  BY <1>0, <1>1, HandlerIs
<1>3. h.req.id # g.req.id
  BY <1>0, <1>1, PlacesApart
<1>4. h.req.id \in Seq(Nat) /\ g.req.id \in Seq(Nat)
  BY <1>2 DEF Request
<1>5. PICK a, b \in Seq(Nat) : a = h.req.id /\ b = g.req.id
  BY <1>4
<1>6. PICK m \in Nat : m = g.made
  BY <1>2
<1>7. Append(b, m) = Append(a, k) <=> b = a /\ m = k
  BY ONLY AppendInjective
<1>8. Append(b, m) # Append(a, k)
  BY <1>3, <1>5, <1>7
<1>. QED  BY <1>1, <1>5, <1>6, <1>8 DEF Awaited

LEMMA CallingOrders ==
    ASSUME Inv, OrderInv, Stand, NEW s \in Servers, Calling(s)
    PROVE  OrderInv'
<1>0. StateTypes /\ TreeInv /\ CallsInv /\ HeldInv
  BY DEF Inv, OrderInv
<1>1. PICK h : h = handling[s]
  OBVIOUS
<1>2. PICK x : x = CallOf(h)
  OBVIOUS
<1>3. /\ h # None /\ h.made \in Nat
      /\ \E c \in Servers : Role[c] = Host[x.op] /\ Enqueue(c, x)
      /\ x \in Request
      /\ h.made + 1 \in 1..Len(Calls[h.req.op])
      /\ \A r : Live(r) => r.id # x.id
  BY <1>0, <1>1, <1>2, CallingIs
<1>4. /\ handling'[s].req = h.req /\ handling'[s].made = h.made + 1 /\ handling'[s].got = h.got
      /\ CallsLeft(h)
      /\ \A t \in Servers : t # s => handling'[t] = handling[t]
      /\ UNCHANGED <<answered, sent>>
  BY <1>1 DEF Calling, history
<1>5. x.id = Append(h.req.id, h.made + 1) /\ x.price = PriceOf(h.got)
  BY <1>2 DEF CallOf, PriceOf
<1>6. \A r : Live(r)' => Live(r) \/ r = x
  <2>1. queue \in [Servers -> Seq(Request)]
    BY <1>0 DEF StateTypes, QueueTypes
  <2>2. PICK c \in Servers : Enqueue(c, x)
    BY <1>3
  <2>3. \A t \in Servers : \A i \in DOMAIN queue'[t] :
           \/ i \in DOMAIN queue[t] /\ queue'[t][i] = queue[t][i]
           \/ t = c /\ i = Len(queue[c]) + 1 /\ queue'[t][i] = x
    <3>1. x \in Request /\ Enqueue(c, x)
      BY <1>3, <2>2
    <3>. QED  BY ONLY <2>1, <3>1, c \in Servers, EnqueueIs
  <2>. QED  BY <1>1, <1>3, <1>4, <2>3 DEF Live
\* Who has the order has made its last call.
<1>7. h.got.order = None
  <2>. SUFFICES ASSUME h.got.order # None PROVE FALSE
    OBVIOUS
  <2>1. OrderHeld(h)
    BY <1>0, <1>1, <1>3 DEF HeldInv
  <2>2. h.req.op = "checkout" /\ h.made = 2
    BY <2>1 DEF OrderHeld
  <2>. QED  BY <1>4, <2>2, CallsAre DEF CallsLeft
<1>8. Priced(handling[s])'
  <2>1. Awaited(handling[s])' = x.id
    BY <1>4, <1>5 DEF Awaited
  <2>2. \A r : Live(r)' /\ r.id = Awaited(handling[s])' => r.price = PriceOf(handling'[s].got)
    BY <1>3, <1>4, <1>5, <1>6, <2>1
  <2>. QED  BY <2>2 DEF Priced
<1>9. ASSUME NEW t \in Servers, t # s, handling'[t] # None, NEW r, Live(r)', r.id = Awaited(handling[t])
      PROVE  Live(r)
  <2>1. handling[t] # None
    BY <1>4, <1>9
  <2>2. PICK k \in Nat : k = h.made + 1
    BY <1>3
  <2>3. Awaited(handling[t]) # Append(handling[s].req.id, k)
    BY <1>1, <1>3, <1>9, <2>1, AwaitedApart
  <2>. QED  BY <1>1, <1>5, <1>6, <1>9, <2>2, <2>3
<1>10. \A t \in Servers : handling'[t] # None =>
           \/ /\ handling'[t] = handling[t]
              /\ \A r : Live(r)' /\ r.id = Awaited(handling[t]) => Live(r)
           \/ handling'[t].got.order = None /\ Priced(handling[t])'
  BY <1>4, <1>7, <1>8, <1>9
<1>. QED  BY <1>0, <1>4, <1>10, LongerSame, OrdersStay

LEMMA SendingOrders ==
    ASSUME Inv, OrderInv, Stand, NEW route \in Routes, LoadSends(route)
    PROVE  OrderInv'
<1>0. StateTypes /\ TreeInv
  BY DEF Inv
<1>1. /\ Longer(sent, sent') /\ Len(sent') \notin DOMAIN sent
      /\ LoadRequest(Len(sent'), route) \in Request
      /\ \/ \E g \in Servers : Enqueue(g, LoadRequest(Len(sent'), route))
         \/ UNCHANGED queue
  BY <1>0, LoadSendsIs
<1>2. UNCHANGED <<handling, answered>>
  BY DEF LoadSends
<1>3. PICK x : x = LoadRequest(Len(sent'), route)
  OBVIOUS
<1>4. \A r : Live(r)' => Live(r) \/ r = x
  <2>1. CASE UNCHANGED queue
    BY <1>2, <2>1 DEF Live
  <2>2. CASE \E g \in Servers : Enqueue(g, x)
    <3>0. PICK g \in Servers : Enqueue(g, x)
      BY <2>2
    <3>1. queue \in [Servers -> Seq(Request)]
      BY <1>0 DEF StateTypes, QueueTypes
    <3>2. \A t \in Servers : \A i \in DOMAIN queue'[t] :
             (i \in DOMAIN queue[t] /\ queue'[t][i] = queue[t][i]) \/ queue'[t][i] = x
      BY <1>1, <1>3, <3>0, <3>1, EnqueueIs
    <3>. QED  BY <1>2, <3>2 DEF Live
  <2>. QED  BY <1>1, <1>3, <2>1, <2>2
<1>5. ASSUME NEW s \in Servers, handling[s] # None, NEW r, Live(r)', r.id = Awaited(handling[s])
      PROVE  Live(r)
  <2>1. Awaited(handling[s])[1] \in DOMAIN sent
    BY <1>0, <1>5, AwaitedTrace, HandlerIs
  <2>2. x.id[1] = Len(sent')
    BY <1>3 DEF LoadRequest
  <2>. QED  BY <1>1, <1>4, <1>5, <2>1, <2>2
<1>6. \A s \in Servers : handling'[s] # None =>
         /\ handling'[s] = handling[s]
         /\ \A r : Live(r)' /\ r.id = Awaited(handling[s]) => Live(r)
  BY <1>2, <1>5
<1>. QED  BY <1>0, <1>1, <1>2, <1>6, OrdersStay

\* The load has its answer from the handler of the request it waits for.
LEMMA AnswerIsOfLoad ==
    ASSUME StateTypes, TreeInv, NEW s \in Servers, Respond(s), NEW h, h = handling[s],
           load = h.req.id
    PROVE  /\ load[1] = h.req.id[1] /\ h.req.id[1] \in DOMAIN sent
           /\ h.req.op = sent[h.req.id[1]] /\ h.req.op \in GatewayOps
<1>0. h # None
  BY DEF Respond
<1>1. Genuine(h.req, sent, spans) /\ sent \in Seq(Routes) /\ h.req.op \in Ops
  BY <1>0, HandlerIs DEF StateTypes
<1>2. PICK r : r = h.req
  OBVIOUS
<1>3. /\ r.id[1] \in DOMAIN sent /\ r.id[1] \in Nat /\ sent[r.id[1]] \in GatewayOps
      /\ r.id = Path(r.id[1], sent[r.id[1]], r.op)
  BY <1>1, <1>2, GenuineType
<1>4. PICK n \in Nat : n = r.id[1]
  BY <1>3
<1>5. PICK route, op : route = sent[n] /\ op = r.op
  OBVIOUS
<1>6. Path(n, route, op) \in Seq(Nat)
  BY PathType
<1>7. r.id = <<n>>
  <2>1. load = <<Len(sent)>>
    BY <1>2, <1>3, <1>4, <1>5, <1>6, NoneAssumption DEF StateTypes
  <2>2. PICK l \in Nat : l = Len(sent)
    BY <1>1
  <2>. QED  BY <1>2, <1>4, <2>1, <2>2
<1>8. Path(n, route, op) = <<n>>
  BY <1>3, <1>4, <1>5, <1>7
<1>9. op = route
  BY <1>8, PathType
<1>. QED  BY <1>1, <1>2, <1>3, <1>4, <1>5, <1>9

\* What handlers answer: only a store names an order.
LEMMA BodyIs ==
    ASSUME StateTypes, TreeInv, NEW s \in Servers, handling[s] # None, NEW h, h = handling[s],
           OrderHeld(h)
    PROVE  /\ h.req.op = "save" => Body(s, h).order = Len(items[s]) + 1 /\ Body(s, h).price = None
           /\ h.req.op \in GatewayOps => Body(s, h) = h.got
           /\ h.req.op \notin GatewayOps \union {"save"} => Body(s, h).order = None
<1>1. h.got \in Answer /\ h.req.op \in Ops
  BY HandlerIs
<1>2. h.req.op = "save" => Body(s, h).order = Len(items[s]) + 1 /\ Body(s, h).price = None
  BY DEF Body, Unanswered, OrderId
<1>3. h.req.op \in GatewayOps => Body(s, h) = h.got
  BY DEF Body, GatewayOps
<1>4. CASE h.req.op = "stats"
  <2>1. h.got.order = None
    BY <1>4 DEF OrderHeld
  <2>2. Body(s, h) = [h.got EXCEPT !.count = IF h.got.count = None THEN 0 ELSE h.got.count]
    BY <1>4 DEF Body
  <2>3. Body(s, h).order = h.got.order
    BY <1>1, <2>2 DEF Answer
  <2>. QED  BY <1>2, <1>3, <2>1, <2>3
<1>5. CASE h.req.op \in {"price", "list"}
  BY <1>2, <1>3, <1>5 DEF Body, Unanswered
<1>. QED  BY <1>1, <1>2, <1>3, <1>4, <1>5 DEF Ops, GatewayOps

\* An answer takes nothing from what a handler has.
LEMMA MergedIs ==
    ASSUME NEW got \in Answer, NEW b \in Answer
    PROVE  /\ b.order = None => Merged(got, b).order = got.order
           /\ b.order # None => Merged(got, b).order = b.order
           /\ b.price = None => Merged(got, b).price = got.price
BY DEF Answer, Merged

\* What the caller of s gets.
LEMMA CallerGets ==
    ASSUME StateTypes, TreeInv, NEW s \in Servers, Respond(s), NEW h, h = handling[s],
           NEW c \in Servers, c # s, Awaits(c, h.req.id)
    PROVE  /\ h # None /\ h.req.op \in Ops
           /\ handling[c] # None /\ handling[c].phase = "waiting" /\ Awaited(handling[c]) = h.req.id
           /\ handling'[c].req = handling[c].req
           /\ handling'[c].made = handling[c].made /\ handling'[c].phase = "working"
           /\ handling'[c].got = Merged(handling[c].got, Body(s, h))
<1>1. /\ h # None /\ h.req.op \in Ops
  <2>1. h # None
    BY DEF Respond
  <2>. QED  BY <2>1, HandlerIs
<1>2. handling[c] # None /\ handling[c].phase = "waiting" /\ Awaited(handling[c]) = h.req.id
  BY DEF Awaits
<1>3. handling[c] \in Handler
  BY <1>2, HandlerIs DEF StateTypes, HandlerTypes
<1>4. PICK g, m : g = handling[c] /\ m = Merged(handling[c].got, Body(s, h))
  OBVIOUS
<1>5. handling'[c] = [g EXCEPT !.phase = "working", !.got = m]
  BY <1>4 DEF Respond
<1>6. /\ handling'[c].req = g.req /\ handling'[c].made = g.made
      /\ handling'[c].phase = "working" /\ handling'[c].got = m
  BY <1>3, <1>4, <1>5 DEF Handler
<1>. QED  BY <1>1, <1>2, <1>4, <1>6

\* Who waits for what s answers, and what it has then: an order is saved at the price it sent.
LEMMA AnswerOrders ==
    ASSUME Inv, HeldInv, WaitInv, NEW s \in Servers, Respond(s), NEW h, h = handling[s],
           NEW b \in Answer, b = Body(s, h),
           NEW c \in Servers, c # s, Awaits(c, h.req.id)
    PROVE  /\ handling'[c].req = handling[c].req /\ handling'[c].phase = "working"
           /\ handling[c].req.id[1] = h.req.id[1] /\ handling[c].got.order = None
           /\ h.req.op # "save" => handling'[c].got.order = None
           /\ h.req.op = "save" =>
                /\ handling'[c].req.op = "checkout" /\ handling'[c].made = 2
                /\ handling'[c].got.order = Len(items[s]) + 1
                /\ PriceOf(handling'[c].got) = h.req.price
<1>0. StateTypes /\ TreeInv
  BY DEF Inv
<1>1. PICK g : g = handling[c]
  OBVIOUS
<1>2. PICK gg : gg = handling'[c]
  OBVIOUS
<1>3. /\ h # None /\ h.req.op \in Ops
      /\ g # None /\ g.phase = "waiting" /\ Awaited(g) = h.req.id
      /\ gg.req = g.req /\ gg.made = g.made /\ gg.phase = "working" /\ gg.got = Merged(g.got, b)
  BY <1>0, <1>1, <1>2, CallerGets
<1>4. /\ Genuine(g.req, sent, spans) /\ g.made \in Nat /\ g.made <= Len(Calls[g.req.op])
      /\ g.req.op \in Ops /\ g.got \in Answer /\ Genuine(h.req, sent, spans)
  BY <1>0, <1>1, <1>3, HandlerIs
<1>5. g.made \in 1..Len(Calls[g.req.op])
  <2>1. PICK m, l \in Nat : m = g.made /\ l = Len(Calls[g.req.op])
    BY <1>4, CallsType
  <2>2. m > 0
    BY <1>1, <1>3, <2>1 DEF WaitInv
  <2>. QED  BY <1>4, <2>1, <2>2
<1>6. h.req.id[1] = g.req.id[1] /\ h.req.op = Calls[g.req.op][g.made]
  BY <1>0, <1>3, <1>4, <1>5, AnswerIsOfCall
<1>7. OrderHeld(g) /\ Priced(g) /\ OrderHeld(h)
  BY <1>1, <1>3 DEF HeldInv
<1>8. g.got.order = None
  BY <1>3, <1>7 DEF OrderHeld
<1>9. /\ h.req.op = "save" => b.order = Len(items[s]) + 1 /\ b.price = None
      /\ h.req.op \notin GatewayOps \union {"save"} => b.order = None
  BY <1>0, <1>3, <1>7, BodyIs
<1>10. PICK op \in Ops : op = g.req.op
  BY <1>4
<1>11. PICK k \in 1..Len(Calls[op]) : k = g.made
  BY <1>5, <1>10
<1>12. CASE h.req.op = "save"
  <2>1. g.req.op = "checkout" /\ g.made = 2
    BY <1>6, <1>10, <1>11, <1>12, CallCases
  <2>2. h.req.price = PriceOf(g.got)
    <3>1. Live(h.req)
      BY <1>3 DEF Live
    <3>. QED  BY <1>3, <1>7, <2>1, <3>1 DEF Priced
  <2>3. PICK n \in Nat : n = Len(items[s]) + 1
    <3>1. Len(items[s]) \in Nat
      BY <1>0 DEF StateTypes
    <3>. QED  BY <3>1
  <2>4. gg.got.order = n /\ gg.got.price = g.got.price
    BY <1>3, <1>4, <1>9, <1>12, <2>3, MergedIs, NoneAssumption
  <2>. QED  BY <1>1, <1>2, <1>3, <1>6, <1>8, <1>12, <2>1, <2>2, <2>3, <2>4 DEF PriceOf
<1>13. CASE h.req.op # "save"
  <2>1. h.req.op \notin GatewayOps
    BY <1>6, <1>10, <1>11, CallCases DEF GatewayOps
  <2>2. gg.got.order = None
    BY <1>3, <1>4, <1>8, <1>9, <1>13, <2>1, MergedIs
  <2>. QED  BY <1>1, <1>2, <1>3, <1>6, <1>8, <1>13, <2>2
<1>. QED  BY <1>12, <1>13

\* A save: nobody was told of the order before, and it is where its answer says.
SavedNow(s, h) ==
    /\ saver'[h.req.id[1]] = s /\ h.req.id[1] \in DOMAIN saver'
    /\ Len(items[s]) + 1 \in DOMAIN items'[s] /\ items'[s][Len(items[s]) + 1] = h.req.price
    /\ Len(items[s]) + 1 \notin DOMAIN items[s] /\ Len(items[s]) + 1 # None

LEMMA SaveIs ==
    ASSUME StateTypes, TreeInv, NEW s \in Servers, Respond(s), NEW h, h = handling[s],
           h.req.op = "save"
    PROVE  SavedNow(s, h)
<1>1. /\ items \in [Servers -> Seq(0..1)] /\ h.req.price \in 0..1
  <2>1. h.req \in Request
    BY RespondIs
  <2>. QED  BY <2>1 DEF StateTypes, Request
<1>2. PICK n, p : n = h.req.id[1] /\ p = h.req.price
  OBVIOUS
<1>3. PICK q \in Seq(0..1) : q = items[s]
  BY <1>1
<1>4. /\ items' = [items EXCEPT ![s] = Append(q, p)]
      /\ saver' = [m \in DOMAIN saver \union {n} |-> IF m = n THEN s ELSE saver[m]]
  BY <1>2, <1>3 DEF Respond
<1>5. /\ Len(q) + 1 \in DOMAIN Append(q, p) /\ Append(q, p)[Len(q) + 1] = p
      /\ Len(q) + 1 \notin DOMAIN q /\ Len(q) + 1 \in Nat
  BY <1>1, <1>2
<1>6. items'[s] = Append(q, p)
  BY <1>1, <1>4
<1>7. saver'[n] = s /\ n \in DOMAIN saver'
  BY <1>4
<1>. QED  BY <1>2, <1>3, <1>5, <1>6, <1>7, NoneAssumption DEF SavedNow

LEMMA RespondOrders ==
    ASSUME Inv, OrderInv, WaitInv, Stand, NEW s \in Servers, Respond(s)
    PROVE  OrderInv'
<1>0. StateTypes /\ TreeInv /\ HeldInv /\ AnsweredInv /\ Distinct
  BY DEF Inv, OrderInv
<1>1. PICK h : h = handling[s]
  OBVIOUS
<1>2. PICK hh : hh = [h EXCEPT !.phase = "responded"]
  OBVIOUS
<1>3. PICK b \in Answer : b = Body(s, h)
  BY <1>0, <1>1, RespondIs
<1>4. PICK n : n = h.req.id[1]
  OBVIOUS
<1>5. /\ h # None /\ h \in Handler /\ h.req.op \in Ops /\ h.phase = "working"
      /\ handling'[s] = hh
      /\ \A c \in Servers : c # s /\ ~Awaits(c, h.req.id) => handling'[c] = handling[c]
      /\ \A c \in Servers : c # s /\ Awaits(c, h.req.id) => handling[c] # None
  BY <1>0, <1>1, <1>2, RespondIs
<1>6. /\ hh.req = h.req /\ hh.made = h.made /\ hh.got = h.got /\ hh.phase = "responded"
  BY <1>2, <1>5 DEF Handler
<1>7. OrderHeld(h) /\ Priced(h)
  BY <1>0, <1>1, <1>5 DEF HeldInv
<1>8. UNCHANGED <<queue, sent>>
  BY DEF Respond
<1>9. ASSUME NEW c \in Servers, c # s, Awaits(c, h.req.id)
      PROVE  /\ handling'[c].req = handling[c].req /\ handling'[c].phase = "working"
             /\ handling[c].req.id[1] = n /\ handling[c].got.order = None
             /\ h.req.op # "save" => handling'[c].got.order = None
             /\ h.req.op = "save" =>
                  /\ handling'[c].req.op = "checkout" /\ handling'[c].made = 2
                  /\ handling'[c].got.order = Len(items[s]) + 1
                  /\ PriceOf(handling'[c].got) = h.req.price
  BY <1>0, <1>1, <1>3, <1>4, <1>9, AnswerOrders
<1>10. \A r : Live(r)' => Live(r)
  <2>1. \A c \in Servers : handling'[c] # None => handling[c] # None /\ handling'[c].req = handling[c].req
    BY <1>1, <1>5, <1>6, <1>9
  <2>. QED  BY <1>8, <2>1 DEF Live
<1>11. h.req.op = "save" => SavedNow(s, h)
  BY <1>0, <1>1, SaveIs
<1>12. HeldInv'
  <2>. SUFFICES ASSUME NEW c \in Servers, handling'[c] # None
                PROVE  OrderHeld(handling[c])' /\ Priced(handling[c])'
    BY DEF HeldInv
  <2>1. CASE c = s
    <3>1. PICK m, a : m = h.req.id[1] /\ a = h.got
      OBVIOUS
    <3>2. Kept(m, a) => Kept(m, a)'
      BY <1>0, KeptStays
    <3>3. handling'[c] = hh
      BY <1>5, <2>1
    <3>. QED  BY <1>6, <1>7, <3>1, <3>2, <3>3 DEF OrderHeld, Priced
  <2>2. CASE c # s /\ Awaits(c, h.req.id) /\ h.req.op # "save"
    <3>1. handling'[c].got.order = None /\ handling'[c].phase = "working"
      BY <1>9, <2>2
    <3>. QED  BY <3>1 DEF OrderHeld, Priced
  <2>3. CASE c # s /\ Awaits(c, h.req.id) /\ h.req.op = "save"
    <3>1. PICK gg : gg = handling'[c]
      OBVIOUS
    <3>2. /\ gg.req.id[1] = n /\ gg.phase = "working" /\ gg.req.op = "checkout" /\ gg.made = 2
          /\ gg.got.order = Len(items[s]) + 1 /\ PriceOf(gg.got) = h.req.price
      BY <1>9, <2>3, <3>1
    <3>3. n \in DOMAIN saver' /\ saver'[n] = s
      BY <1>4, <1>11, <2>3 DEF SavedNow
    <3>4. gg.got.order \in DOMAIN items'[s] /\ items'[s][gg.got.order] = PriceOf(gg.got)
      BY <1>11, <2>3, <3>2 DEF SavedNow
    <3>5. PICK a : a = gg.got
      OBVIOUS
    <3>6. Kept(n, a)'
      BY <3>3, <3>4, <3>5 DEF Kept, PriceOf
    <3>. QED  BY <3>1, <3>2, <3>5, <3>6 DEF OrderHeld, Priced
  <2>4. CASE c # s /\ ~Awaits(c, h.req.id)
    <3>1. PICK g : g = handling[c]
      OBVIOUS
    <3>2. g # None /\ handling'[c] = g /\ OrderHeld(g) /\ Priced(g)
      BY <1>0, <1>5, <2>4, <3>1 DEF HeldInv
    <3>3. PICK m, a : m = g.req.id[1] /\ a = g.got
      OBVIOUS
    <3>4. Kept(m, a) => Kept(m, a)'
      BY <1>0, KeptStays
    <3>5. OrderHeld(g)'
      BY <3>2, <3>3, <3>4 DEF OrderHeld
    <3>6. Priced(g)'
      BY <1>10, <3>2 DEF Priced, Awaited
    <3>. QED  BY <3>2, <3>5, <3>6
  <2>. QED  BY <2>1, <2>2, <2>3, <2>4
<1>13. load = h.req.id => /\ load[1] = n /\ h.req.op = sent[n] /\ b = h.got
                          /\ answered' = [m \in DOMAIN answered \union {n} |->
                                            IF m = n THEN b ELSE answered[m]]
  <2>. SUFFICES ASSUME load = h.req.id
                PROVE  /\ load[1] = n /\ h.req.op = sent[n] /\ b = h.got
                       /\ answered' = [m \in DOMAIN answered \union {n} |->
                                         IF m = n THEN b ELSE answered[m]]
    OBVIOUS
  <2>1. load[1] = n /\ h.req.op = sent[n] /\ h.req.op \in GatewayOps
    BY <1>0, <1>1, <1>4, AnswerIsOfLoad
  <2>2. b = h.got
    BY <1>0, <1>1, <1>3, <1>5, <1>7, <2>1, BodyIs
  <2>3. answered' = [m \in DOMAIN answered \union {load[1]} |->
                       IF m = load[1] THEN b ELSE answered[m]]
    BY <1>1, <1>3 DEF Respond
  <2>. QED  BY <2>1, <2>2, <2>3
<1>14. load # h.req.id => answered' = answered
  BY <1>1 DEF Respond
\* The load is told what its handler had.
<1>15. ASSUME NEW m \in DOMAIN answered'
       PROVE  \/ m \in DOMAIN answered /\ answered'[m] = answered[m]
              \/ m = n /\ answered'[m] = h.got /\ h.req.op = sent[n]
  BY <1>13, <1>14, <1>15
<1>16. AnsweredInv'
  <2>. SUFFICES ASSUME NEW m \in DOMAIN answered', sent[m] = "checkout", answered'[m].order # None
                PROVE  Kept(m, answered[m])'
    BY <1>8 DEF AnsweredInv
  <2>1. PICK a : a = answered'[m]
    OBVIOUS
  <2>2. Kept(m, a)
    <3>1. CASE m \in DOMAIN answered /\ answered'[m] = answered[m]
      BY <1>0, <2>1, <3>1 DEF AnsweredInv
    <3>2. CASE m = n /\ answered'[m] = h.got /\ h.req.op = sent[n]
      BY <1>4, <1>7, <2>1, <3>2 DEF OrderHeld
    <3>. QED  BY <1>15, <3>1, <3>2
  <2>3. Kept(m, a)'
    BY <1>0, <2>2, KeptStays
  <2>. QED  BY <2>1, <2>3
<1>17. ASSUME NEW m, NEW o, o # None, Told(m, o)'
       PROVE  Told(m, o) \/ (h.req.op = "save" /\ m = n /\ o = Len(items[s]) + 1)
  <2>1. CASE m \in DOMAIN answered' /\ sent'[m] = "checkout" /\ answered'[m].order = o
    <3>1. CASE m \in DOMAIN answered /\ answered'[m] = answered[m]
      BY <1>8, <2>1, <3>1 DEF Told
    <3>2. CASE m = n /\ answered'[m] = h.got
      BY <1>1, <1>4, <1>5, <2>1, <3>2 DEF Told
    <3>. QED  BY <1>15, <2>1, <3>1, <3>2
  <2>2. CASE \E c \in Servers : handling'[c] # None /\ handling'[c].req.id[1] = m
                                  /\ handling'[c].got.order = o
    <3>1. PICK c \in Servers : handling'[c] # None /\ handling'[c].req.id[1] = m
                                 /\ handling'[c].got.order = o
      BY <2>2
    <3>2. CASE c = s
      BY <1>1, <1>5, <1>6, <3>1, <3>2 DEF Told
    <3>3. CASE c # s /\ ~Awaits(c, h.req.id)
      BY <1>5, <3>1, <3>3 DEF Told
    <3>4. CASE c # s /\ Awaits(c, h.req.id)
      BY <1>9, <1>17, <3>1, <3>4
    <3>. QED  BY <3>2, <3>3, <3>4
  <2>. QED  BY <1>17, <2>1, <2>2 DEF Told
<1>18. Distinct'
  <2>1. CASE h.req.op # "save"
    BY <1>0, <1>17, <2>1, DistinctStays
  <2>2. CASE h.req.op = "save"
    <3>. SUFFICES ASSUME NEW m, NEW l, NEW o, o # None, Told(m, o)', Told(l, o)', m # l
                  PROVE  saver'[m] # saver'[l] \/ saver'[m] \in CrashedServers'
      BY DEF Distinct
    <3>1. (Told(m, o) \/ (m = n /\ o = Len(items[s]) + 1)) /\ (Told(l, o) \/ (l = n /\ o = Len(items[s]) + 1))
      BY <1>17
    \* Who was told before was told of an order that the store had then.
    <3>2. ASSUME NEW k, Told(k, Len(items[s]) + 1), saver'[k] = s PROVE s \in CrashedServers'
      <4>1. Len(items[s]) + 1 # None /\ Len(items[s]) + 1 \notin DOMAIN items[s]
        BY <1>11, <2>2 DEF SavedNow
      <4>2. PICK e : e = Len(items[s]) + 1
        OBVIOUS
      <4>3. k \in DOMAIN saver /\ (saver[k] \notin CrashedServers => e \in DOMAIN items[saver[k]])
        BY <1>0, <3>2, <4>1, <4>2, ToldKept
      <4>. QED  BY <3>2, <4>1, <4>2, <4>3 DEF Stand
    <3>3. saver'[n] = s
      BY <1>4, <1>11, <2>2 DEF SavedNow
    <3>4. CASE Told(m, o) /\ Told(l, o)
      <4>1. saver[m] # saver[l] \/ saver[m] \in CrashedServers
        BY <1>0, <3>4 DEF Distinct
      <4>2. m \in DOMAIN saver /\ l \in DOMAIN saver
        BY <1>0, <3>4, ToldKept
      <4>. QED  BY <4>1, <4>2 DEF Stand
    <3>5. CASE m = n /\ o = Len(items[s]) + 1 /\ Told(l, o)
      BY <3>2, <3>3, <3>5
    <3>6. CASE l = n /\ o = Len(items[s]) + 1 /\ Told(m, o)
      BY <3>2, <3>3, <3>6
    <3>. QED  BY <3>1, <3>4, <3>5, <3>6
  <2>. QED  BY <2>1, <2>2
<1>. QED  BY <1>12, <1>16, <1>18 DEF OrderInv

\* Steps that change no handler but for those that end or make room, and add no request.
LEMMA StepOrders ==
    ASSUME Inv, OrderInv, WaitInv, SavedOnce, [Next]_vars
    PROVE  OrderInv'
<1>0. StateTypes /\ TreeInv /\ Stand
  BY StepStand DEF Inv
<1>1. \A s \in Servers : handling[s] # None => OrderHeld(handling[s]) /\ Priced(handling[s])
  BY DEF OrderInv, HeldInv
<1>2. DOMAIN handling = Servers
  BY <1>0 DEF StateTypes, HandlerTypes
\* No request is new.
<1>3. ASSUME UNCHANGED <<answered, sent>>,
             \A s \in Servers : queue'[s] = queue[s] \/ queue'[s] = << >>,
             \A s \in Servers : handling'[s] # None =>
                 \/ handling'[s] = handling[s]
                 \/ /\ handling[s] # None /\ handling'[s].req = handling[s].req
                    /\ handling'[s].got.order = None /\ handling'[s].phase # "waiting"
      PROVE  OrderInv'
  <2>1. \A r : Live(r)' => Live(r)
    BY <1>3 DEF Live
  <2>2. \A s \in Servers : handling'[s] # None =>
            \/ /\ handling'[s] = handling[s]
               /\ \A r : Live(r)' /\ r.id = Awaited(handling[s]) => Live(r)
            \/ handling'[s].got.order = None /\ Priced(handling[s])'
    BY <1>3, <2>1 DEF Priced
  <2>. QED  BY <1>0, <1>3, <2>2, LongerSame, OrdersStay
<1>4. CASE UNCHANGED vars \/ LoadTimesOut \/ LoadReset
  BY <1>3, <1>4 DEF vars, servers, history, LoadTimesOut, LoadReset
<1>5. ASSUME NEW s \in Servers, Accept(s) PROVE OrderInv'
  <2>1. PICK r : r = Head(queue[s])
    OBVIOUS
  <2>2. /\ handling'[s].got.order = None /\ handling'[s].phase = "working"
        /\ handling'[s].req = r
        /\ \A t \in Servers : t # s => handling'[t] = handling[t]
    BY <1>2, <1>5, <2>1 DEF Accept, Unanswered
  <2>3. \A x : Live(x)' => Live(x)
    <3>1. queue \in [Servers -> Seq(Request)] /\ queue[s] # << >>
          /\ queue' = [queue EXCEPT ![s] = Rest(@)]
      BY <1>0, <1>5 DEF StateTypes, QueueTypes, Accept
    <3>2. /\ 1 \in DOMAIN queue[s] /\ queue[s][1] = r
          /\ \A t \in Servers : t # s => queue'[t] = queue[t]
          /\ \A i \in DOMAIN queue'[s] : /\ i \in Nat /\ i > 0 /\ i + 1 \in DOMAIN queue[s]
                                         /\ queue'[s][i] = queue[s][i + 1]
      BY <2>1, <3>1, DequeueIs
    <3>3. ASSUME NEW t \in Servers, NEW i \in DOMAIN queue'[t]
          PROVE  \E j \in DOMAIN queue[t] : queue'[t][i] = queue[t][j]
      <4>1. CASE t = s
        BY <3>2, <3>3, <4>1
      <4>2. CASE t # s
        BY <3>2, <3>3, <4>2
      <4>. QED  BY <4>1, <4>2
    <3>. QED  BY <2>2, <3>2, <3>3 DEF Live
  <2>4. Priced(handling[s])'
    BY <2>2 DEF Priced
  <2>5. UNCHANGED <<answered, sent>>
    BY <1>5 DEF Accept
  <2>6. \A t \in Servers : handling'[t] # None =>
            \/ /\ handling'[t] = handling[t]
               /\ \A x : Live(x)' /\ x.id = Awaited(handling[t]) => Live(x)
            \/ handling'[t].got.order = None /\ Priced(handling[t])'
    BY <2>2, <2>3, <2>4
  <2>. QED  BY <1>0, <2>5, <2>6, LongerSame, OrdersStay
<1>6. ASSUME NEW s \in Servers, CallOut(s) PROVE OrderInv'
  <2>0. handling[s] # None /\ CallsLeft(handling[s])
    BY <1>6 DEF CallOut
  <2>1. CASE Calling(s)
    BY <1>0, <2>1, CallingOrders
  <2>2. CASE ~Calling(s)
    <3>1. PICK h : h = NextCall(handling[s])
      OBVIOUS
    <3>2. /\ h \in Handler /\ h.req = handling[s].req /\ h.got = handling[s].got
          /\ h.span = handling[s].span /\ h.made = handling[s].made + 1
          /\ h.phase = handling[s].phase
          /\ CallOf(handling[s]) = [id |-> Awaited(h), op |-> Calls[h.req.op][h.made],
               price |-> IF h.got.price = None THEN 0 ELSE h.got.price, tp |-> Traceparent(h)]
      BY <1>0, <2>0, <3>1, CallOutIs
    <3>3. PICK g : g = [h EXCEPT !.phase = "waiting"]
      OBVIOUS
    <3>4. /\ g.req = h.req /\ g.span = h.span /\ g.made = h.made /\ g.got = h.got
          /\ g.phase = "waiting"
      BY <3>2, <3>3 DEF Handler
    <3>5. \/ /\ handling' = [handling EXCEPT ![s] = g]
             /\ \E c \in Callees(h) : Enqueue(c, CallOf(handling[s]))
             /\ UNCHANGED <<items, channel, load, history>>
          \/ handling' = [handling EXCEPT ![s] = h] /\ Spoil(s)
      BY <1>6, <3>1, <3>2, <3>3, CallOutEither
    <3>6. ASSUME handling' = [handling EXCEPT ![s] = g],
                 \E c \in Callees(h) : Enqueue(c, CallOf(handling[s])),
                 UNCHANGED <<items, channel, load, history>>
          PROVE  FALSE
      <4>1. handling'[s] = g /\ \A t \in Servers : t # s => handling'[t] = handling[t]
        BY <1>2, <3>6
      <4>. QED  BY <2>0, <2>2, <3>1, <3>2, <3>4, <3>6, <4>1 DEF Calling
    <3>7. handling'[s] = h /\ (\A t \in Servers : t # s => handling'[t] = handling[t]) /\ Spoil(s)
      BY <1>2, <3>5, <3>6
    <3>8. h.got.order = None
      <4>. SUFFICES ASSUME handling[s].got.order # None PROVE FALSE
        BY <3>2
      <4>1. handling[s].req.op = "checkout" /\ handling[s].made = 2
        BY <1>1, <2>0 DEF OrderHeld
      <4>. QED  BY <2>0, <4>1, CallsAre DEF CallsLeft
    <3>9. h.phase # "waiting"
      BY <2>0, <3>2 DEF CallsLeft
    <3>10. UNCHANGED <<answered, sent, queue>>
      BY <3>7 DEF Spoil
    <3>. QED  BY <1>3, <2>0, <3>2, <3>7, <3>8, <3>9, <3>10
  <2>. QED  BY <2>1, <2>2
<1>7. ASSUME NEW s \in Servers, CallReset(s) PROVE OrderInv'
  <2>1. PICK h : h = [handling[s] EXCEPT !.phase = "working"]
    OBVIOUS
  <2>2. handling[s] # None /\ handling[s] \in Handler /\ handling[s].phase = "waiting"
    BY <1>0, <1>7 DEF CallReset, StateTypes, HandlerTypes
  <2>3. h.req = handling[s].req /\ h.got = handling[s].got /\ h.phase = "working"
    BY <2>1, <2>2 DEF Handler
  <2>4. /\ handling'[s] = h /\ (\A t \in Servers : t # s => handling'[t] = handling[t])
        /\ UNCHANGED <<answered, sent, queue>>
    BY <1>2, <1>7, <2>1 DEF CallReset, Spoil
  <2>5. h.got.order = None
    BY <1>1, <2>2, <2>3 DEF OrderHeld
  <2>. QED  BY <1>3, <2>2, <2>3, <2>4, <2>5
<1>8. ASSUME NEW s \in Servers, SpanEnds(s) \/ Export(s) PROVE OrderInv'
  <2>1. UNCHANGED <<answered, sent, queue>>
    BY <1>8 DEF SpanEnds, Export, history
  <2>2. \A t \in Servers : handling'[t] = None \/ handling'[t] = handling[t]
    BY <1>2, <1>8 DEF SpanEnds, Export
  <2>. QED  BY <1>3, <2>1, <2>2
<1>9. ASSUME NEW s \in Servers, Crash(s) PROVE OrderInv'
  <2>1. UNCHANGED <<answered, sent>>
    BY <1>9 DEF Crash
  <2>2. /\ \A t \in Servers : handling'[t] = None \/ handling'[t] = handling[t]
        /\ \A t \in Servers : queue'[t] = << >> \/ queue'[t] = queue[t]
    BY <1>0, <1>2, <1>9 DEF Crash, StateTypes, QueueTypes
  <2>. QED  BY <1>3, <2>1, <2>2
<1>. QED  BY <1>0, <1>4, <1>5, <1>6, <1>7, <1>8, <1>9, SendingOrders, RespondOrders DEF Next, Serve

LEMMA OrdersHold ==
    ASSUME HeldInv, AnsweredInv, Distinct
    PROVE  OrdersKept
<1>1. ASSUME NEW n \in DOMAIN answered, sent[n] = "checkout", answered[n].order # None
      PROVE  n \in DOMAIN saver
  BY <1>1 DEF AnsweredInv, Kept
<1>2. ASSUME NEW s \in Servers \ CrashedServers, NEW n \in Confirmed(s)
      PROVE  LET a == answered[n] IN
             /\ a.order \in DOMAIN items[s]
             /\ items[s][a.order] = (IF a.price = None THEN 0 ELSE a.price)
             /\ \A o \in Confirmed(s) \ {n} : answered[o].order # a.order
  <2>1. /\ n \in DOMAIN answered /\ sent[n] = "checkout" /\ answered[n].order # None /\ saver[n] = s
    BY <1>2 DEF Confirmed
  <2>2. PICK a : a = answered[n]
    OBVIOUS
  <2>3. a.order \in DOMAIN items[s] /\ items[s][a.order] = PriceOf(a)
    BY <1>2, <2>1, <2>2 DEF AnsweredInv, Kept
  <2>4. ASSUME NEW o \in Confirmed(s) \ {n}, answered[o].order = a.order PROVE FALSE
    <3>1. o \in DOMAIN answered /\ sent[o] = "checkout" /\ saver[o] = s /\ o # n
      BY <2>4 DEF Confirmed
    <3>2. PICK e : e = a.order
      OBVIOUS
    <3>3. Told(n, e) /\ Told(o, e) /\ e # None
      BY <2>1, <2>2, <2>4, <3>1, <3>2 DEF Told
    <3>. QED  BY <1>2, <2>1, <3>1, <3>3 DEF Distinct
  <2>. QED  BY <2>2, <2>3, <2>4 DEF PriceOf
<1>. QED  BY <1>1, <1>2, Zenon DEF OrdersKept

\* A confirmed order was saved, and is with the replica that saved it for as long as that
\* lives, at the price it was confirmed with, under an id that replica confirmed to no other
\* request (main, the handlers of checkout and save): neither a request that was given up nor
\* one whose price could not be had takes its place, for every number of requests and
\* replicas, and whatever else fails.
THEOREM OrdersAreKept == Spec => []OrdersKept
<1>1. Init => WaitInv /\ SavedOnce /\ OrderInv
  <2>1. DOMAIN << >> = {}
    OBVIOUS
  <2>. QED  BY <2>1 DEF Init, WaitInv, SavedOnce, OrderInv, HeldInv, AnsweredInv, Distinct, Told
<1>2. Inv /\ WaitInv /\ SavedOnce /\ OrderInv /\ [Next]_vars
        => WaitInv' /\ SavedOnce' /\ OrderInv'
  BY StepWait, StepSaved, StepOrders DEF Inv
<1>3. OrderInv => OrdersKept
  BY OrdersHold DEF OrderInv
<1>. QED  BY <1>1, <1>2, <1>3, InvHolds, PTL DEF Spec
=============================================================================
