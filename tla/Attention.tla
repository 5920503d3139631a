------------------------------ MODULE Attention ------------------------------
(***************************************************************************)
(* What the portal says needs attention about an API: rules that read the  *)
(* tables again, beside the code that serves them                          *)
(* (control-plane/src/attention.ts, dashboard.ts; shared/attention.ts).    *)
(* Only the rules over the rows Drafts and Policy keep are here.           *)
(***************************************************************************)
EXTENDS Drafts, Policy

CONSTANTS MaxAttention    \* 50 in the code
ASSUME AttentionAssumption == MaxAttention \in Nat

AuthUnits == {"auth.subscriptionKey", "auth.basic", "auth.jwt", "auth.introspection", "auth.mtls"}

(* By severity, and within one as ATTENTION_CODES has them. *)
Places == <<"no-definition", "no-route", "release-failed",
            "never-released", "no-auth-policy", "validation-downgraded",
            "no-concurrency-ceiling", "unreleased-revision">>
Codes == {Places[i] : i \in DOMAIN Places}

InState(a, states) == \E k \in DOMAIN release[a] : release[a][k].state \in states
LiveRevisions(a) == {release[a][k].rev : k \in {k \in DOMAIN release[a] : release[a][k].state = "converged"}}
Newest(a) == {n \in DOMAIN revision[a] : /\ ~revision[a][n].pruned
                /\ \A m \in DOMAIN revision[a] : revision[a][m].pruned \/ m <= n}

(* ownerAttention, of one API in one environment.  The newest release      *)
(* alone decides whether a failure is still worth saying.                  *)
NeverReleased(a) == revision[a] # <<>> /\ release[a] = <<>>
\* mutant: only an overtaken release is reported
FailedIfStale(a) == release[a] # <<>> /\ Last(release[a]).state = "stale"
ReleaseFailed(a) == release[a] # <<>> /\ Last(release[a]).state \in {"failed", "stale"}
OwnerRule(a, code) ==
    \/ code = "no-definition" /\ revision[a] = <<>>
    \/ code = "no-route" /\ release[a] # <<>> /\ route[a] = NoRoute
    \/ code = "never-released" /\ NeverReleased(a)
    \/ code = "release-failed" /\ ReleaseFailed(a)
    \/ code = "unreleased-revision" /\ LiveRevisions(a) # {} /\ Newest(a) # {}
                                     /\ Newest(a) \cap LiveRevisions(a) = {}
OwnerRows(a) == {code \in Codes : api[a].known /\ OwnerRule(a, code)}

(* The two anti-joins over the policy tiers.  `disabled` is read from the  *)
(* API's own row alone.                                                    *)
SwitchedOff(a, e) == Get(Get(own[a][e], DisabledKey, Nothing), "units", {})
\* mutant: attached is read from the row
AttachedInRow(a, e, units) == units \cap (DOMAIN own[a][e] \cup DOMAIN global[e])
Attached(a, e, units) == (units \cap (DOMAIN own[a][e] \cup DOMAIN global[e])) \ SwitchedOff(a, e)
PolicyRule(a, e, code) ==
    \/ code = "no-auth-policy" /\ Attached(a, e, AuthUnits) = {}
    \/ code = "no-concurrency-ceiling" /\ Attached(a, e, {"concurrency"}) = {}
    \/ code = "validation-downgraded"
       /\ Get(Get(own[a][e], "validate", Nothing), "request", "blocking") # "blocking"
PolicyRows(a, e) == {code \in Codes : PolicyRule(a, e, code)}

(* sortAttention; rows of one code go by name, so either of two may come   *)
(* first.                                                                  *)
MayPrecede(x, y) == \E i, j \in DOMAIN Places : i <= j /\ Places[i] = x[1] /\ Places[j] = y[1]
(* bounded: the rows the dashboard shows whatever the names are. *)
Bounded(rows) == {y \in rows : Cardinality({x \in rows \ {y} : MayPrecede(x, y)}) < MaxAttention}

-----------------------------------------------------------------------------
(* An API that nobody can call, and that nothing under way will change,    *)
(* has a row that says why (there is no definition, no release, or the     *)
(* last release did not land), whatever order its releases finished in,    *)
(* and the row survives the dashboard's cut.                               *)
StuckIsSaid ==
    LET rows == UNION {OwnerRows(a) \X {a} : a \in Apis}
        list == Bounded(rows)
    IN \A a \in Apis :
          (/\ api[a].known /\ ~InState(a, {"converged", "pending", "withdrawn"})
           /\ \A n \in DOMAIN revision[a] : Id(a, n) \notin queued)
          => list \cap ({"no-definition", "never-released", "release-failed"} \X {a}) # {}

(* Where the environment switches nothing off, an API is listed as open    *)
(* exactly when the document its gateways apply names no authentication,   *)
(* whichever tier attached or switched off what.                           *)
OpenIsListed ==
    \A a \in PolicyApis, e \in PolicyEnvs : DisabledKey \notin DOMAIN global[e] =>
       ("no-auth-policy" \in PolicyRows(a, e) <=> AuthUnits \cap DOMAIN ActiveDocument(PolicyFor(a, e)) = {})

(* The list tells what is wrong with an API: that nobody can call it, or   *)
(* that anybody can.                                                       *)
TroubleIsListed == StuckIsSaid /\ OpenIsListed

(* "so `off` cannot mean one thing on a screen and another at the gateway" *)
(* (shared/policy.ts:131): an API its gateways serve without any           *)
(* authentication is listed, whoever switched the unit off.                *)
OffMeansOff ==
    \A a \in PolicyApis, e \in PolicyEnvs :
       AuthUnits \cap DOMAIN ActiveDocument(PolicyFor(a, e)) = {} => "no-auth-policy" \in PolicyRows(a, e)
=============================================================================
