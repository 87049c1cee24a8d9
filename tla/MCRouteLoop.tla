---------------------------- MODULE MCRouteLoop ----------------------------
(***************************************************************************)
(* Instances of RouteLoop.  A fit needs three samples of one route, or     *)
(* four of two, so the clock goes a little further than that.  One route   *)
(* changes its rate, the other starts at some tick.                        *)
(***************************************************************************)
EXTENDS RouteLoop, TLC

CONSTANTS s1, r1, r2

OneRoute  == Partial({r1}, Rates)
TwoRoutes == OneRoute \union {r2 :> 1}
             \union {(r1 :> n) @@ (r2 :> 1) : n \in Rates}
=============================================================================
