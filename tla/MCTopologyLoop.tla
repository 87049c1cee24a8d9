--------------------------- MODULE MCTopologyLoop ---------------------------
(***************************************************************************)
(* Instances of TopologyLoop: a namespace with a pod that a deployment     *)
(* owns and one that nothing owns, as of a StatefulSet, and up to two      *)
(* containers.                                                             *)
(***************************************************************************)
EXTENDS TopologyLoop, TLC

CONSTANTS n1, p1, p2, c1, c2, c3, d1, s1, k1, r1

MCNsOf    == [x \in Pods \union Deployments \union Services \union Routes |-> n1]
MCPodOf   == c1 :> p1 @@ c2 :> p1 @@ c3 :> p2
MCOwnerOf == p1 :> d1 @@ p2 :> None
\* A deployment with its pod and the service in front of it; or only the pod nothing owns.
Owned   == [placed |-> p1 :> k1, exist |-> {d1, k1}, selects |-> [s \in Services |-> d1]]
Unowned == [placed |-> p2 :> k1, exist |-> {k1}, selects |-> Empty]
BothClusters == {Owned, Unowned}
\* All queries are answered; or any may fail.
Answered == [cpu : {1}, watts : {1}]
MayFail  == [cpu : {0, 1}, watts : {0, 1}]
=============================================================================
