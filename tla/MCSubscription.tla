--------------------------- MODULE MCSubscription ---------------------------
(* One product, its publisher and a consumer; one gateway, or two.         *)
EXTENDS Subscription, TLC

MCGatewayOf == "i1" :> "g1" @@ "i2" :> "g2"
MCMaxGen == "primary" :> 2 @@ "secondary" :> 1
MCOneGen == "primary" :> 1 @@ "secondary" :> 1
MCLoneGatewayOf == "i1" :> "g1"
=============================================================================
