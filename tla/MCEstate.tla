------------------------------ MODULE MCEstate ------------------------------
(* The estate an administrator and the owners edit, one subject at a time: *)
(* addresses and drafts, revisions and retention, an API's policy units,   *)
(* the tiers of policy, and the parts of the trust store.                  *)
EXTENDS Attention, Trust

VARIABLE subject

MCBundleOf == "d1" :> "b1" @@ "d2" :> "b1" @@ "d3" :> ""
MCDraftSymmetry == Permutations(Drafters)

MCKindOf == "orders" :> "rest" @@ "billing" :> "soap"
Rate == [calls |-> 5, periodSec |-> 60, per |-> "instance", by |-> "subscription", scope |-> "route"]
Check == [name |-> "X-Key", equals |-> "portal"]
Lint(n) == [length |-> n, bound |-> 0, compiles |-> TRUE, backreference |-> FALSE,
            lookaround |-> FALSE, nested |-> n = 9]
Deny == [status |-> 403, reason |-> "missing"]
Offer(k, v) == [key |-> k, value |-> v]
TierOffers ==
    {Offer("auth.subscriptionKey", [in |-> "header", name |-> "X-Api-Key"]),
     Offer("rateLimit", Rate),
     Offer("passthrough", [websocket |-> TRUE]),
     Offer("validate", [request |-> "blocking"]),
     Offer("validate", [request |-> "disabled", downgradeReason |-> "long enough"]),
     Offer("disabled", [units |-> {"rateLimit", "validate", "auth.subscriptionKey"}])}
MCOffers == TierOffers \cup
    {Offer("auth.subscriptionKey", [in |-> "query", name |-> "key"]),
     Offer("auth.subscriptionKey", [in |-> "header", name |-> "bad name"]),
     Offer("auth.basic", [credentialRef |-> "app:team:login", realm |-> "api"]),
     Offer("auth.basic", [credentialRef |-> ""]),
     Offer("auth.jwt", [issuerRef |-> "idp", headerName |-> "X-Key", clockSkewSec |-> 300]),
     Offer("auth.introspection", [issuerRef |-> "idp", cacheTtlSec |-> 60]),
     Offer("auth.mtls", [allowedIssuers |-> {}, allowedSubjectCns |-> {"cn"}]),
     Offer("auth.mtls", [allowedSubjectCns |-> {"cn"}, acknowledgeCnOnly |-> TRUE]),
     Offer("ipAllow", [ranges |-> {[ip |-> <<10, 0, 0, 0>>, bits |-> 8]}]),
     Offer("ipAllow", [ranges |-> {[ip |-> <<10, 0, 0, 256>>, bits |-> 33]}]),
     Offer("cors", [origins |-> {"*"}, credentials |-> TRUE]),
     Offer("cors", [origins |-> {"https://portal"}, methods |-> {"GET"}, maxAgeSec |-> 600]),
     Offer("preconditions", [rules |-> {[requireHeader |-> Check, deny |-> Deny]}]),
     Offer("preconditions", [rules |-> {[requireQuery |-> [name |-> "q", pattern |-> Lint(9)], deny |-> Deny]}]),
     Offer("preconditions", [rules |-> {[requireOperation |-> [methods |-> {"GET"}], deny |-> Deny],
                                        [requireClientCert |-> [sans |-> {"san"}], deny |-> Deny]}]),
     Offer("validate", [request |-> "warning", response |-> "warning", downgradeReason |-> "long enough",
                        sample |-> [rate |-> 10], always |-> [maxDepth |-> 32, json |-> [duplicateKeys |-> "reject"]]]),
     Offer("op.validate", [always |-> [maxDepth |-> 32]]),
     Offer("op.validate", [response |-> "blocking"]), Offer("op.rateLimit", Rate),
     Offer("op.quota", [Rate EXCEPT !.per = "fleet"]), Offer("op.timeoutMs", [ms |-> 240001]),
     Offer("op.cache", [ttlSec |-> 60]), Offer("stale.cache", [ttlSec |-> 60]),
     Offer("op.cors", [origins |-> {"https://portal"}]),
     Offer("rewrite", [stripBasePath |-> TRUE, path |-> "/template"]),
     Offer("headers.request", [set |-> {[name |-> "X-Key", ok |-> TRUE]}]),
     Offer("headers.response", [append |-> {[name |-> "X-Key", ok |-> FALSE]}]),
     Offer("transform", [response |-> "soap-to-json"]),
     Offer("kafkaProduce", [clusterId |-> "idp"]), Offer("cache", [ttlSec |-> 0]),
     Offer("cache", [ttlSec |-> 60, downstream |-> "private", vary |-> {"X-Key"}]),
     Offer("quota", [Rate EXCEPT !.per = "fleet"]), Offer("timeoutMs", [ms |-> 120000]),
     Offer("retries", [attempts |-> 1, on |-> {"503", "timeout"}]),
     Offer("circuitBreaker", [failures |-> 5, windowSec |-> 60, openSec |-> 30]),
     Offer("concurrency", [maxInFlight |-> 64, per |-> "instance"]),
     Offer("backendAuth", [type |-> "apikey", credentialRef |-> "app:team:login", in |-> "header", name |-> "X-Key"]),
     Offer("backendAuth", [type |-> "oauth2", tokenProviderRef |-> "idp"]),
     Offer("passthrough", [sse |-> TRUE, maxConnectionSec |-> 3600]), Offer("passthrough", [sse |-> FALSE]),
     Offer("errorFormat", [shape |-> "soap-fault", soapVersion |-> "1.1"]),
     Offer("errorFormat", [shape |-> "jsonrpc"])}

Member(n, h, p) == [name |-> n, scheme |-> "https", host |-> h, port |-> p, plain |-> TRUE]
MCBackends == {Member("one", <<"one", "corp">>, 443), Member("two", <<"two", "corp">>, 8443),
               [Member("self", <<"portal">>, 443) EXCEPT !.scheme = "http"],
               [Member("bad", <<"three">>, 443) EXCEPT !.plain = FALSE]}
DenyRule(suffix, labels, ports) == [env |-> "*", scheme |-> "*", ports |-> ports,
                                pattern |-> [suffix |-> suffix, labels |-> labels]]
MCRules == {DenyRule(TRUE, <<"corp">>, {8443}), DenyRule(FALSE, <<"one", "corp">>, {}),
            [DenyRule(FALSE, <<"two", "corp">>, {}) EXCEPT !.env = Away], DenyRule(TRUE, <<>>, {})}
Pem(t, u) == [thumb |-> t, until |-> u, blocks |-> 1, key |-> FALSE, ca |-> TRUE]
MCPems == {Pem("ca1", 2), Pem("ca2", 3), [Pem("leaf", 4) EXCEPT !.ca = FALSE]}
EndCert(s, t, u) == [subject |-> s, thumb |-> t, until |-> u, paired |-> TRUE, chained |-> TRUE]
MCLeaves == {EndCert("client", "t1", 1), EndCert("client", "t2", 2), EndCert("other", "t3", 3),
             [EndCert("client", "t4", 3) EXCEPT !.paired = FALSE]}
MCUses == {<<"hash", "app:a:x">>, <<"hmac", "app:a:x">>, <<"issuer", "idp">>}
MCRegistered == {<<"issuer", "idp">>}
MCPublicHost == <<"portal">>
Lone == {{b \in MCBackends : b.name = "one"}}
Pair == {b \in MCBackends : b.name \in {"one", "two"}}
Pools == {{b} : b \in MCBackends} \cup {Pair}

NamedUses == {{}, {<<"hash", "app:a:x">>}, {<<"hmac", "app:a:x">>, <<"issuer", "idp">>}}

TrustSubjects == {"anchors", "exceptions", "rules", "certificates", "credentials"}
TrustNext ==
    \/ subject = "anchors" /\ AnchorNext
    \/ subject = "exceptions" /\ (ExceptionNext \/ BindNext(Lone \cup {Pair}, {"none"}))
    \/ subject = "rules" /\ (RuleNext \/ BindNext(Pools, {"none"}))
    \/ subject = "certificates" /\ (\/ CertificateNext \/ NextDay \/ BindNext(Lone, CertIds)
                                    \/ ConfigureNext(CertIds \cup {"none"}, {{}}))
    \/ subject = "credentials" /\ (\/ CredentialNext \/ BindNext(Lone, {"none"})
                                   \/ ConfigureNext({"none"}, NamedUses))

Init == subject \in {"address", "revisions", "units", "tiers"} \cup TrustSubjects
        /\ DraftsInit /\ PolicyInit /\ TrustInit
        /\ (subject \notin {"address", "revisions"} => revision[First] = <<>>)
Next ==
    \/ /\ \/ subject = "address" /\ (AddressNext \/ RetentionNext)
          \/ subject = "revisions" /\ (RevisionNext \/ RetentionNext)
       /\ UNCHANGED <<subject, pvars, tvars>>
    \/ /\ \/ subject = "units" /\ OwnNext({"owner"}, MCOffers, PolicyApis, {"dev"})
          \/ subject = "tiers" /\ OwnNext({"owner", "admin"}, TierOffers, {"orders"}, PolicyEnvs)
          \/ subject = "tiers" /\ (GlobalNext(TierOffers) \/ QueueNext(TierOffers, {"orders"}, {"dev"}))
       /\ UNCHANGED <<subject, dvars, tvars>>
    \/ TrustNext /\ UNCHANGED <<subject, dvars, pvars>>
Spec == Init /\ [][Next]_<<subject, dvars, pvars, tvars>>
=============================================================================
