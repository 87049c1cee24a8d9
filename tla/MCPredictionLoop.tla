-------------------------- MODULE MCPredictionLoop --------------------------
(***************************************************************************)
(* An instance of PredictionLoop: down from 20 to 19 is exactly a          *)
(* twentieth of the mean, up from 19 to 20 is more, and one of each puts   *)
(* the newest exactly at sigma; three samples fill the window.             *)
(***************************************************************************)
EXTENDS PredictionLoop
=============================================================================
