--------------------------- MODULE MCLeastSquares ---------------------------
(***************************************************************************)
(* An instance of LeastSquares: designs of one and of two routes, up to    *)
(* the order of their samples, and some with a sample of another length.   *)
(* A sample is the i-th of the watts 0 and 2, and of the rates 0, 2 and 3, *)
(* for one route also 1: in halves, so that 2 is 1.                        *)
(***************************************************************************)
EXTENDS LeastSquares

Point(i, rates) == [watts |-> 2 * (i % 2), rps |-> rates]
Rate(i) == <<0, 2, 3, 1>>[i + 1]
OneRoute(i)  == Point(i, <<Rate(i \div 2)>>)
TwoRoutes(i) == Point(i, <<Rate((i \div 2) % 3), Rate(i \div 6)>>)

Sorted(n, size) == {f \in [1..n -> 0..(size - 1)] : \A i \in 1..(n - 1) : f[i] <= f[i + 1]}
Samples(point(_), n, size) == {[i \in 1..n |-> point(f[i])] : f \in Sorted(n, size)}

MCDesigns ==
    {1} \X UNION {Samples(OneRoute, n, 8) : n \in 2..4}
      \union {2} \X (Samples(TwoRoutes, 4, 18) \union
                     {Append(d, OneRoute(0)) : d \in Samples(TwoRoutes, 3, 4)})
=============================================================================
