---------------------------- MODULE MCScaleLoop ----------------------------
(***************************************************************************)
(* Instances of ScaleLoop for TLC, one deployment each: the operator is    *)
(* single-threaded and no step relates two deployments.  The cluster holds *)
(* zero or one replica unless it is scaled to two; a load of 2 fits on two *)
(* replicas at Limit 1 and not on one, a load of 0 always fits.            *)
(***************************************************************************)
EXTENDS ScaleLoop

CONSTANT d1
=============================================================================
