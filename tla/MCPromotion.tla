---------------------------- MODULE MCPromotion -----------------------------
(* A chain of two environments with one gateway each.                      *)
EXTENDS Promotion, TLC

MCEnvs == {"dev", "test"}
MCPredecessor == "dev" :> "noenv" @@ "test" :> "dev"
MCEnvOf == "d1" :> "dev" @@ "t1" :> "test"
MCDevOnly == {"dev"}
MCDevAlone == "dev" :> "noenv"
MCDevEnvOf == "d1" :> "dev"

(* Nothing tells one revision from another. *)
MCSymmetry == Permutations(Revs)
=============================================================================
