----------------------------- MODULE MCTracedApp -----------------------------
(***************************************************************************)
(* An instance of TracedApp: the store has two replicas, as deployed.      *)
(***************************************************************************)
EXTENDS TracedApp, TLC

MCServers == {"gateway", "compute", "store-0", "store-1"}
MCRole == [gateway |-> "gateway", compute |-> "compute"]
            @@ ("store-0" :> "store" @@ "store-1" :> "store")
=============================================================================
