------------------------------ MODULE TracedApp ------------------------------
(***************************************************************************)
(* The demo application (src/crates/app/src/main.rs) with its tracer       *)
(* (src/crates/otlp/src/lib.rs): a load generator that gives up on a       *)
(* request after ten seconds, and servers of one thread each, which take   *)
(* requests in order and wait for their own calls without a timeout.  A    *)
(* server has one of three roles; servers of one role are its replicas     *)
(* (src/deploy/apps/rust-demo.yaml:74), each with its own memory, and      *)
(* every call opens a connection, to whichever.  A span goes from the      *)
(* handler into an unbounded channel; a thread exports it to a collector   *)
(* that may be slow, or gone.                                              *)
(*                                                                         *)
(* Requests are named by their path: <<n>> is the n-th of the load, and    *)
(* the i-th call made for r is r \o <<i>>.  Span ids are random enough not *)
(* to collide, so a span goes by the name of its request.                  *)
(***************************************************************************)
EXTENDS Integers, Sequences, FiniteSets

CONSTANTS
    None,           \* no request, no parent, JSON's null
    Servers, Role,  \* processes, and what each is started as
    Routes,         \* routes the load asks for
    Faults,
    MaxRequests,    \* bound: requests of the load
    MaxCrashes      \* bound: servers that die

Roles == {"gateway", "compute", "store"}

ASSUME RoleAssumption ==
    Role \in [Servers -> Roles] /\ \A r \in Roles : \E s \in Servers : Role[s] = r
ASSUME RoutesAssumption == Routes \subseteq {"checkout", "catalog", "report"}
ASSUME FaultsAssumption ==
    Faults \subseteq {"timeout",    \* the load gives up
                      "call",       \* a call does not reach its server
                      "crash"}      \* a server is killed and restarted
ASSUME BoundsAssumption == MaxRequests \in Nat /\ MaxCrashes \in Nat

\* The role that serves an operation.
Host == [checkout |-> "gateway", catalog |-> "gateway", report |-> "gateway",
         price |-> "compute", stats |-> "compute", save |-> "store", list |-> "store"]

Calls == [checkout |-> <<"price", "save">>, catalog |-> <<"list">>, report |-> <<"stats">>,
          stats |-> <<"list">>, price |-> << >>, save |-> << >>, list |-> << >>]

\* A request carries its caller's trace and span, or no header; a handler has the request,
\* its span, and what its calls brought.
Context == [trace : Seq(Nat), span : Seq(Nat)]
Request == [id : Seq(Nat), op : DOMAIN Host, price : 0..1, tp : {None} \union Context]
Span    == [id : Seq(Nat), op : DOMAIN Host, trace : Seq(Nat), parent : {None} \union Seq(Nat)]
Answer  == [price : {None, 1}, order : {None} \union Nat, count : {None} \union Nat]
Handler == [req : Request, span : Span, phase : {"working", "waiting", "responded"},
            made : Nat, got : Answer]

ASSUME NoneAssumption == None \notin Nat \union Seq(Nat) \union Context

VARIABLES
    queue,          \* per server, requests in order of arrival
    handling,       \* per server, the request in progress, or None
    items,          \* per server, what it has saved: prices
    channel,        \* per server, spans that ended
    load,           \* the request the load waits for, or None
    \* history
    sent,           \* routes of the load's requests
    answered,       \* n -> what the n-th request was answered
    spans,          \* all spans started
    saver,          \* n -> the store that saved for the n-th request
    spoiled,        \* the load's requests a failure has touched
    crashes         \* servers that died, in order

servers == <<queue, handling, items, channel>>
history == <<sent, answered, spans, saver, spoiled, crashes>>
vars == <<servers, load, history>>

Init ==
    /\ queue = [s \in Servers |-> << >>] /\ handling = [s \in Servers |-> None]
    /\ items = [s \in Servers |-> << >>]
    /\ channel = [s \in Servers |-> << >>]
    /\ load = None
    /\ sent = << >> /\ answered = << >> /\ spans = {} /\ saver = << >> /\ spoiled = {} /\ crashes = << >>
----------------------------------------------------------------------------
(***************************************************************************)
(* The load: one request at a time.                                        *)
(***************************************************************************)
Enqueue(s, r) == queue' = [queue EXCEPT ![s] = Append(@, r)]

LoadSends(route) ==
    /\ load = None
    /\ Len(sent) < MaxRequests
    /\ sent' = Append(sent, route)
    /\ LET id == <<Len(sent')>> IN
       \/ /\ \E s \in Servers :
               Role[s] = "gateway" /\ Enqueue(s, [id |-> id, op |-> route, price |-> 0, tp |-> None])
          /\ load' = id
       \/ "call" \in Faults /\ UNCHANGED <<queue, load>>
    /\ UNCHANGED <<handling, items, channel, answered, spans, saver, spoiled, crashes>>

\* The request stays with its gateway, which serves it all the same.
LoadTimesOut ==
    /\ "timeout" \in Faults
    /\ load # None
    /\ load' = None
    /\ UNCHANGED <<servers, history>>

\* The connection of a request breaks with the server that had it.
Gone(id) ==
    \A s \in Servers :
        /\ \A i \in DOMAIN queue[s] : queue[s][i].id # id
        /\ handling[s] # None /\ handling[s].req.id = id => handling[s].phase = "responded"

LoadReset ==
    /\ load # None
    /\ Gone(load)
    /\ load' = None
    /\ UNCHANGED <<servers, history>>
----------------------------------------------------------------------------
(***************************************************************************)
(* A server.                                                               *)
(***************************************************************************)
\* Tracer::child: a span under the caller's, or the root of a new trace.
Child(r) ==
    [id |-> r.id, op |-> r.op,
     trace  |-> IF r.tp = None THEN r.id ELSE r.tp.trace,
     parent |-> IF r.tp = None THEN None ELSE r.tp.span]

\* Mutant: the header that came in is passed on.
TraceparentIncoming(h) == h.req.tp

Traceparent(h) == [trace |-> h.span.trace, span |-> h.span.id]

Unanswered == [price |-> None, order |-> None, count |-> None]

\* Mutant: a request stays queued while it is served.
RestWithHead(q) == q

Rest(q) == Tail(q)

Accept(s) ==
    /\ handling[s] = None /\ queue[s] # << >>
    /\ LET r == Head(queue[s]) IN
       /\ handling' = [handling EXCEPT ![s] =
                         [req |-> r, span |-> Child(r), phase |-> "working",
                          made |-> 0, got |-> Unanswered]]
       /\ spans' = spans \union {Child(r)}
    /\ queue' = [queue EXCEPT ![s] = Rest(@)]
    /\ UNCHANGED <<items, channel, load, sent, answered, saver, spoiled, crashes>>

\* The call a handler makes next, or waits for.
CallsLeft(h) == h.phase = "working" /\ h.made < Len(Calls[h.req.op])
Awaited(h)   == Append(h.req.id, h.made)
Callees(h)   == {s \in Servers : Role[s] = Host[Calls[h.req.op][h.made]]}

\* What failed reads as null, and the handler goes on.
Spoil(s) ==
    /\ spoiled' = spoiled \union {handling[s].req.id[1]}
    /\ UNCHANGED <<queue, items, channel, load, sent, answered, spans, saver, crashes>>

\* get_json, without a timeout.
CallOut(s) ==
    /\ handling[s] # None /\ CallsLeft(handling[s])
    /\ LET h == [handling[s] EXCEPT !.made = @ + 1] IN
       \/ /\ handling' = [handling EXCEPT ![s] = [h EXCEPT !.phase = "waiting"]]
          /\ \E c \in Callees(h) :
               Enqueue(c, [id |-> Awaited(h), op |-> Calls[h.req.op][h.made],
                           price |-> IF h.got.price = None THEN 0 ELSE h.got.price,
                           tp |-> Traceparent(h)])
          /\ UNCHANGED <<items, channel, load, history>>
       \/ /\ "call" \in Faults
          /\ handling' = [handling EXCEPT ![s] = h]
          /\ Spoil(s)

CallReset(s) ==
    /\ handling[s] # None /\ handling[s].phase = "waiting"
    /\ Gone(Awaited(handling[s]))
    /\ handling' = [handling EXCEPT ![s].phase = "working"]
    /\ Spoil(s)

\* Mutant: ids start at 0.
OrderIdFromZero(s) == Len(items[s])

OrderId(s) == Len(items[s]) + 1

Body(s, h) ==
    CASE h.req.op = "price" -> [Unanswered EXCEPT !.price = 1]
      [] h.req.op = "save"  -> [Unanswered EXCEPT !.order = OrderId(s)]
      [] h.req.op = "list"  -> [Unanswered EXCEPT !.count = Len(items[s])]
      [] h.req.op = "stats" -> [h.got EXCEPT !.count = IF @ = None THEN 0 ELSE @]
      [] OTHER -> h.got

Merged(got, body) == [f \in DOMAIN got |-> IF body[f] = None THEN got[f] ELSE body[f]]

\* The answer reaches a caller that still waits for it, and nobody else.
Awaits(c, id) ==
    handling[c] # None /\ handling[c].phase = "waiting" /\ Awaited(handling[c]) = id

Respond(s) ==
    /\ handling[s] # None
    /\ handling[s].phase = "working" /\ ~CallsLeft(handling[s])
    /\ LET h == handling[s] IN
       /\ IF h.req.op = "save"
          THEN /\ items' = [items EXCEPT ![s] = Append(@, h.req.price)]
               /\ saver' = [n \in DOMAIN saver \union {h.req.id[1]} |->
                              IF n = h.req.id[1] THEN s ELSE saver[n]]
          ELSE UNCHANGED <<items, saver>>
       /\ handling' =
            [c \in Servers |->
               IF c = s THEN [h EXCEPT !.phase = "responded"]
               ELSE IF Awaits(c, h.req.id)
               THEN [handling[c] EXCEPT !.phase = "working", !.got = Merged(@, Body(s, h))]
               ELSE handling[c]]
       /\ IF load = h.req.id
          THEN load' = None /\ answered' = [n \in DOMAIN answered \union {load[1]} |->
                                              IF n = load[1] THEN Body(s, h) ELSE answered[n]]
          ELSE UNCHANGED <<load, answered>>
    /\ UNCHANGED <<queue, channel, sent, spans, spoiled, crashes>>

\* Mutant: the channel is bounded, and full with one span.
HasRoomForOne(s) == channel[s] = << >>

\* Drop sends the span into an unbounded channel, after the response.
HasRoom(s) == TRUE

SpanEnds(s) ==
    /\ handling[s] # None /\ handling[s].phase = "responded"
    /\ HasRoom(s)
    /\ channel' = [channel EXCEPT ![s] = Append(@, handling[s].span)]
    /\ handling' = [handling EXCEPT ![s] = None]
    /\ UNCHANGED <<queue, items, load, history>>

Serve(s) == Accept(s) \/ CallOut(s) \/ CallReset(s) \/ Respond(s) \/ SpanEnds(s)

\* The tracer's thread posts a span, once, and ignores what becomes of it.
Export(s) ==
    /\ channel[s] # << >>
    /\ channel' = [channel EXCEPT ![s] = Tail(@)]
    /\ UNCHANGED <<queue, handling, items, load, history>>

\* Everything a server has is in memory.
Crash(s) ==
    /\ "crash" \in Faults /\ Len(crashes) < MaxCrashes
    /\ queue' = [queue EXCEPT ![s] = << >>]
    /\ handling' = [handling EXCEPT ![s] = None]
    /\ items' = [items EXCEPT ![s] = << >>]
    /\ channel' = [channel EXCEPT ![s] = << >>]
    /\ crashes' = Append(crashes, s)
    /\ UNCHANGED <<load, sent, answered, spans, saver, spoiled>>

Next ==
    \/ \E r \in Routes : LoadSends(r)
    \/ LoadTimesOut \/ LoadReset
    \/ \E s \in Servers : Serve(s) \/ Export(s) \/ Crash(s)

Spec == Init /\ [][Next]_vars

\* Servers run and broken connections are noticed; nothing is asked of the load's clock,
\* and nothing of the collector.
FairSpec ==
    /\ Spec
    /\ \A s \in Servers : WF_vars(Serve(s))
    /\ WF_vars(LoadReset)
----------------------------------------------------------------------------
CrashedServers == {crashes[i] : i \in DOMAIN crashes}

\* The types of the variables; each server holds its own operations, and makes no more
\* calls than they have.
QueueTypes ==
    /\ queue \in [Servers -> Seq(Request)]
    /\ \A s \in Servers : \A i \in DOMAIN queue[s] : Host[queue[s][i].op] = Role[s]

HandlerTypes ==
    /\ DOMAIN handling = Servers
    /\ \A s \in Servers : handling[s] # None =>
         /\ handling[s] \in Handler
         /\ handling[s].made <= Len(Calls[handling[s].req.op])
         /\ Host[handling[s].req.op] = Role[s]
         /\ handling[s].span \in spans

ChannelTypes ==
    /\ channel \in [Servers -> Seq(Span)]
    /\ \A s \in Servers : \A i \in DOMAIN channel[s] :
         channel[s][i] \in spans /\ Host[channel[s][i].op] = Role[s]

StateTypes ==
    /\ QueueTypes /\ HandlerTypes /\ ChannelTypes
    /\ items \in [Servers -> Seq(0..1)]
    /\ load = None \/ load = <<Len(sent)>>
    /\ sent \in Seq(Routes)
    /\ DOMAIN answered \subseteq DOMAIN sent /\ \A n \in DOMAIN answered : answered[n] \in Answer
    /\ spans \subseteq Span
    /\ DOMAIN saver \subseteq DOMAIN sent /\ \A n \in DOMAIN saver : saver[n] \in Servers
    /\ spoiled \subseteq DOMAIN sent
    /\ crashes \in Seq(Servers) /\ Len(crashes) <= MaxCrashes

\* A request is in one place: once in the queue of one server, or in progress there.
OnePlace ==
    \A s, t \in Servers :
        /\ \A i \in DOMAIN queue[s] :
             /\ \A j \in DOMAIN queue[t] : queue[s][i].id = queue[t][j].id => s = t /\ i = j
             /\ handling[t] # None => queue[s][i].id # handling[t].req.id
        /\ handling[s] # None /\ handling[t] # None /\ handling[s].req.id = handling[t].req.id
             => s = t

TypeOK == StateTypes /\ OnePlace

\* What a route makes run, with itself.
Reached == [checkout |-> {"checkout", "price", "save"}, catalog |-> {"catalog", "list"},
            report |-> {"report", "stats", "list"}]

\* "one span per served request" (otlp lib.rs:1): every span but a gateway's hangs under
\* the span that called it, in its trace, and an answered request that no failure has
\* touched has one span for every operation its route reaches and no other, also when
\* abandoned requests are served before, after or in between.
TracesWhole ==
    /\ \A x \in spans :
         IF Host[x.op] = "gateway" THEN x.parent = None /\ x.trace = x.id
         ELSE \E p \in spans : /\ p.id = x.parent /\ p.trace = x.trace
                               /\ \E i \in DOMAIN Calls[p.op] : Calls[p.op][i] = x.op
    /\ \A n \in DOMAIN answered \ spoiled :
         LET trace == {x \in spans : x.trace = <<n>>} IN
         /\ {x.op : x \in trace} = Reached[sent[n]]
         /\ Cardinality(trace) = Cardinality(Reached[sent[n]])

\* Orders that were confirmed, and saved by this store.
Confirmed(s) ==
    {n \in DOMAIN answered \intersect DOMAIN saver :
        sent[n] = "checkout" /\ answered[n].order # None /\ saver[n] = s}

\* A confirmed order was saved, and as long as the replica that saved it lives, the order is
\* there at the price it was confirmed with, under an id which that replica has confirmed to
\* no other request: neither a request that was given up nor one whose price could not be
\* had takes its place.  (Another replica gives the same id to an order of its own.)
OrdersKept ==
    /\ \A n \in DOMAIN answered :
         sent[n] = "checkout" /\ answered[n].order # None => n \in DOMAIN saver
    /\ \A s \in Servers \ CrashedServers : \A n \in Confirmed(s) :
         LET a == answered[n] IN
         /\ a.order \in DOMAIN items[s]
         /\ items[s][a.order] = (IF a.price = None THEN 0 ELSE a.price)
         /\ \A o \in Confirmed(s) \ {n} : answered[o].order # a.order

\* "a slow collector never blocks the handler" (otlp lib.rs:2), and neither do the servers
\* block each other: though calls have no timeout, each handler and each wait of the load
\* ends when servers run, whatever the collector does.
EveryCallEnds ==
    /\ \A s \in Servers : []<>(handling[s] = None)
    /\ []<>(load = None)
=============================================================================
