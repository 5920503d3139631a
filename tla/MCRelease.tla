----------------------------- MODULE MCRelease ------------------------------
(* A chain of two environments; the second has two gateways.               *)
EXTENDS Release, TLC

MCEnvs == {"dev", "test"}
MCPredecessor == "dev" :> "noenv" @@ "test" :> "dev"
MCEnvOf == "d1" :> "dev" @@ "t1" :> "test" @@ "t2" :> "test"
=============================================================================
