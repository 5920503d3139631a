--------------------------- MODULE MCConfigClient ---------------------------
(* Three documents that differ in everything activation asks of one:       *)
(* "plain" serves both subscriptions, "big" drops one and needs a roomy    *)
(* container, "mtls" drops both and needs a trust boundary.                *)
EXTENDS ConfigClient, TLC

MCDocs == {"plain", "big", "mtls"}
MCSubs == {"s1", "s2"}
MCSubsOf == "plain" :> {"s1", "s2"} @@ "big" :> {"s1"} @@ "mtls" :> {}
MCDemanding == {"big"}
MCNeedsCert == {"mtls"}
=============================================================================
