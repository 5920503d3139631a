------------------------------- MODULE Trust --------------------------------
(***************************************************************************)
(* What a gateway may reach and how it proves it: trust anchors, TLS       *)
(* exceptions, client certificates, egress deny rules and the credentials  *)
(* a policy names (control-plane/src/api/trust.ts, trust-store.ts,         *)
(* deny-rules.ts, egress.ts, credentials.ts, api/credentials.ts,           *)
(* certificates.ts, config-build.ts; data-plane/src/trust.ts and           *)
(* tlsOptionsFor).  Every API of the model has a converged release.  A PEM *)
(* is known by its thumbprint, a host is the sequence of its labels.       *)
(***************************************************************************)
EXTENDS Naturals, Sequences, FiniteSets, TLC, SequencesExt

CONSTANTS
    TrustApis,
    Home, Away,       \* the environment whose gateways are modelled, another one
    Backends,         \* pool members: [name, scheme, host, port]
    PublicHost,       \* the host of PUBLIC_URL
    Rules,            \* rules somebody may write
    Pems,             \* CA files somebody may upload
    Leaves,           \* client certificates somebody may upload
    CertIds,
    AppRefs,          \* app:<application>:<name> references
    Registered,       \* the <<use, ref>> pairs INTEGRATIONS resolves
    Uses,             \* the <<use, ref>> pairs a policy may name
    Modes,            \* TLS exception modes
    MaxAnchors, MaxRules, MaxDays, BundleTtl,
    LastDay, MaxRows, MaxExceptions \* bounds: the clock, and rows of a table

ASSUME TrustAssumption ==
    /\ Home # Away /\ CertIds \cap {"none"} = {}
    /\ {MaxAnchors, MaxRules, MaxDays, BundleTtl, LastDay, MaxRows, MaxExceptions} \subseteq Nat
    /\ Modes \subseteq {"pin", "skip-hostname", "insecure"}
    /\ \A pem \in Pems : pem.until \in Nat

VARIABLES
    day,         \* the clock
    anchor,      \* trust_anchor rows, in the order they were added
    cpBundle,    \* BUNDLE_CACHE: [pems, until], or NoCache
    exception,   \* tls_exception rows
    rule,        \* egress_deny_rule rows
    ruleCache,   \* CACHE of deny-rules.ts, or NoCache
    cert,        \* certificate rows by id
    credential,  \* app_credential kinds by reference, "none" when absent
    binding,     \* api -> [pool, cert]
    names,       \* api -> the references its own policy entries name
    globals,     \* the references the environment's global entries name
    waiting,     \* the request that is waiting for its body or for DNS
    snapshot,    \* api -> what a queued configure will write, or Unasked
    document,    \* the document the gateway serves
    trust        \* the gateway's TrustSet: [pems, until]

tvars == <<day, anchor, cpBundle, exception, rule, ruleCache, cert, credential, binding,
           names, globals, waiting, snapshot, document, trust>>

-----------------------------------------------------------------------------
NoCache == [pems |-> {"nothing"}, until |-> 0]
NoRules == [filled |-> FALSE, rules |-> {}]
Unasked == [op |-> "none"]
Forever == LastDay + MaxDays + BundleTtl + 1
Unbound == [pool |-> {}, cert |-> "none"]
Smallest(S, otherwise) == IF S = {} THEN otherwise ELSE CHOOSE x \in S : \A y \in S : x <= y

NoCert == [known |-> FALSE, subject |-> "none", thumb |-> "none", until |-> 0]

(* parseCertificate: the key belongs to the leaf, the leaf has not expired *)
(* and each certificate of the chain was issued by the next.               *)
ParseCertificate(leaf) == leaf.paired /\ leaf.chained /\ leaf.until > day
(* parseAnchor: one certificate, of an authority, not expired, and no      *)
(* private key beside it.                                                  *)
ParseAnchor(pem) == pem.blocks = 1 /\ ~pem.key /\ pem.ca /\ pem.until > day

-----------------------------------------------------------------------------
(* Trust anchors. *)
LiveRow(r) == ~r.removed
AnchorsIn(env) == {n \in DOMAIN anchor : anchor[n].env = env /\ LiveRow(anchor[n])}
Thumbs(env) == {anchor[n].thumb : n \in AnchorsIn(env)}

(* What the Trust screen lists as live. *)
AnchorView(n) == LiveRow(anchor[n]) /\ anchor[n].until > day
ListedAnchors(env) == {anchor[n].thumb : n \in {n \in AnchorsIn(env) : AnchorView(n)}}

(* liveAnchorsFor, and caBundleFor over it. *)
LiveAnchorsFor(env) == {[thumb |-> anchor[n].thumb, until |-> anchor[n].until] :
                        n \in {n \in AnchorsIn(env) : anchor[n].until > day}}

AnchorRoom(env, adding) == Cardinality(AnchorsIn(env)) + adding <= MaxAnchors

AnchorsChange == cpBundle' = NoCache
                 /\ UNCHANGED <<day, exception, rule, ruleCache, cert, credential, binding,
                                names, globals, waiting, snapshot, document, trust>>

(* POST /api/trust/anchors: the unique index is over live rows only. *)
AddAnchor(env, pem) ==
    /\ Len(anchor) < MaxRows
    /\ ParseAnchor(pem) /\ AnchorRoom(env, 1) /\ pem.thumb \notin Thumbs(env)
    /\ anchor' = Append(anchor, [env |-> env, thumb |-> pem.thumb, until |-> pem.until,
                                 removed |-> FALSE])
    /\ AnchorsChange

(* DELETE /api/trust/anchors/:id; a second one changes nothing. *)
RemoveAnchor(n) ==
    /\ n \in DOMAIN anchor /\ LiveRow(anchor[n])
    /\ anchor' = [anchor EXCEPT ![n].removed = TRUE]
    /\ AnchorsChange

(* POST /api/trust/anchors/copy-from: an anchor that is not live in the    *)
(* source, is trusted already or has expired is skipped; room is asserted  *)
(* for the rest together.                                                  *)
Copyable(from, to, ids) ==
    {n \in ids \cap AnchorsIn(from) : anchor[n].thumb \notin Thumbs(to) /\ anchor[n].until > day}
CopyAnchors(from, to, ids) ==
    /\ Len(anchor) + Cardinality(ids) <= MaxRows /\ ids # {}
    /\ LET copy == SetToSeq(Copyable(from, to, ids))
       IN /\ AnchorRoom(to, Len(copy))
          /\ anchor' = anchor \o [i \in DOMAIN copy |-> [anchor[copy[i]] EXCEPT !.env = to]]
    /\ AnchorsChange

(* controlPlaneCaBundle: the union over every environment, kept for the    *)
(* TTL or until the first of its anchors expires.                          *)
\* mutant
ComposedForTtl(live, until) == [pems |-> {a.thumb : a \in live}, until |-> until]
Composed(live, until) ==
    [pems |-> {a.thumb : a \in live}, until |-> Smallest({a.until : a \in live} \cup {until}, until)]
CachedBundle(c) == IF c # NoCache /\ c.until > day THEN c
                   ELSE Composed(LiveAnchorsFor(Home) \cup LiveAnchorsFor(Away), day + BundleTtl)
(* trustedFetch: discovery, definition fetches and webhooks ask for it. *)
TrustedFetch ==
    /\ cpBundle' = CachedBundle(cpBundle) /\ cpBundle' # cpBundle
    /\ UNCHANGED <<day, anchor, exception, rule, ruleCache, cert, credential, binding, names,
                   globals, waiting, snapshot, document, trust>>

(* The gateway's TrustSet.bundle: composed when its document was activated *)
(* and again when the first anchor it holds expires.                       *)
TrustSet(anchors) == Composed({a \in anchors : a.until > day}, Forever)
GatewayBundle == IF day >= trust.until THEN TrustSet(document.anchors) ELSE trust
GatewayDial ==
    /\ trust' = GatewayBundle /\ trust' # trust
    /\ UNCHANGED <<day, anchor, cpBundle, exception, rule, ruleCache, cert, credential,
                   binding, names, globals, waiting, snapshot, document>>

-----------------------------------------------------------------------------
(* TLS exceptions. *)
LiveException(e) == ~e.revoked /\ e.until > day

(* POST /api/trust/exceptions: an end at most TLS_EXCEPTION_MAX_DAYS out,  *)
(* and a backend that is in the pool, or none for all of them.             *)
CreateException(a, backend, mode, until) ==
    /\ Len(exception) < MaxExceptions
    /\ until > day /\ until <= day + MaxDays
    /\ backend = "all" \/ \E b \in binding[a].pool : b.name = backend
    /\ exception' = Append(exception, [api |-> a, backend |-> backend, mode |-> mode,
                                       until |-> until, revoked |-> FALSE])
    /\ UNCHANGED <<day, anchor, cpBundle, rule, ruleCache, cert, credential, binding, names,
                   globals, waiting, snapshot, document, trust>>

(* DELETE /api/trust/exceptions/:id. *)
RevokeException(n) ==
    /\ n \in DOMAIN exception /\ ~exception[n].revoked
    /\ exception' = [exception EXCEPT ![n].revoked = TRUE]
    /\ UNCHANGED <<day, anchor, cpBundle, rule, ruleCache, cert, credential, binding, names,
                   globals, waiting, snapshot, document, trust>>

(* tlsFor: a live exception naming a backend before one for the pool, then *)
(* the one that ends first; its mode is the whole route's.                 *)
Verify == [mode |-> "verify", until |-> Forever]
TlsFor(a) ==
    LET live == {n \in DOMAIN exception : exception[n].api = a /\ LiveException(exception[n])}
        narrow == {n \in live : exception[n].backend # "all"}
        from == IF narrow # {} THEN narrow ELSE live
    IN IF live = {} THEN Verify
       ELSE LET n == CHOOSE n \in from : \A m \in from : exception[n].until <= exception[m].until
            IN [mode |-> exception[n].mode, until |-> exception[n].until]

(* tlsOptionsFor on a gateway: the exception ends on the gateway's own     *)
(* clock, and the backend being dialled is not looked at.                  *)
\* mutant
TlsModeAsDelivered(a, b) == document.tls[a].mode
TlsMode(a, b) == IF document.tls[a].until <= day THEN "verify" ELSE document.tls[a].mode

-----------------------------------------------------------------------------
(* Egress deny rules. *)
HostMatches(host, pattern) ==
    IF pattern.suffix
    THEN Len(host) > Len(pattern.labels) /\ IsSuffix(pattern.labels, host)
    ELSE host = pattern.labels
PortMatches(r, port) == r.ports = {} \/ port \in r.ports
Matches(r, b) == /\ r.env \in {"*", Home} /\ r.scheme \in {"*", b.scheme}
                 /\ HostMatches(b.host, r.pattern) /\ PortMatches(r, b.port)
(* selfRule denies the portal's own address. *)
SelfRule == [env |-> "*", scheme |-> "*", pattern |-> [suffix |-> FALSE, labels |-> PublicHost],
             ports |-> {}]
LiveRules == {rule[n].draft : n \in {n \in DOMAIN rule : LiveRow(rule[n])}}
CachedRules == IF ruleCache.filled THEN ruleCache.rules ELSE LiveRules
Filled == [filled |-> TRUE, rules |-> CachedRules]
DenyRulesFor == CachedRules \cup {SelfRule}
RuleKey(r) == <<r.env, r.scheme, r.pattern>>
(* routesMatchingRule: one blocked member takes the route out. *)
RoutesMatchingRule(r) == {a \in TrustApis : \E b \in binding[a].pool : Matches(r, b)}

(* GET /api/governance/exceptions: what is relaxed and what is blocked,    *)
(* estate wide.                                                            *)
GovernanceReport ==
    [relaxed |-> {exception[n].api : n \in {n \in DOMAIN exception : LiveException(exception[n])}},
     blocked |-> UNION {RoutesMatchingRule(r) : r \in DenyRulesFor}]

(* parseDenyRuleDraft: a host or a *.suffix of one, never every host. *)
ParseDenyRule(r) == Len(r.pattern.labels) > 0 /\ r.ports \subseteq 1..65535

RulesChange == UNCHANGED <<day, anchor, cpBundle, exception, cert, credential, binding, names,
                           globals, waiting, snapshot, document, trust>>
\* mutant
CreateDenyRuleCached(r) ==
    /\ ParseDenyRule(r) /\ Len(rule) < MaxRows
    /\ Cardinality(CachedRules) < MaxRules
    /\ RuleKey(r) \notin {RuleKey(s) : s \in LiveRules}
    /\ rule' = Append(rule, [draft |-> r, removed |-> FALSE])
    /\ ruleCache' = Filled /\ RulesChange
(* POST /api/trust/deny-rules: the cache is dropped and filled again by    *)
(* the next reader.                                                        *)
CreateDenyRule(r) ==
    /\ ParseDenyRule(r) /\ Len(rule) < MaxRows
    /\ Cardinality(CachedRules) < MaxRules
    /\ RuleKey(r) \notin {RuleKey(s) : s \in LiveRules}
    /\ rule' = Append(rule, [draft |-> r, removed |-> FALSE])
    /\ ruleCache' = NoRules /\ RulesChange
(* DELETE /api/trust/deny-rules/:id; the self rule is no row. *)
RemoveDenyRule(n) ==
    /\ n \in DOMAIN rule /\ LiveRow(rule[n])
    /\ rule' = [rule EXCEPT ![n].removed = TRUE]
    /\ ruleCache' = NoRules /\ RulesChange

(* checkEgress over a pool: a rule of the scope captured before DNS, then  *)
(* the addresses DNS gives now.                                            *)
CheckEgress(pool, scope, denied) ==
    /\ \A b \in pool : b.plain /\ b.scheme \in {"http", "https"}
    /\ \A b \in pool, r \in scope : ~Matches(r, b)
    /\ pool \cap denied = {}

-----------------------------------------------------------------------------
(* Client certificates. *)
CertsChange == UNCHANGED <<day, anchor, cpBundle, exception, rule, ruleCache, credential,
                           binding, names, globals, snapshot, document, trust>>
CertRow(leaf) == [known |-> TRUE, subject |-> leaf.subject, thumb |-> leaf.thumb, until |-> leaf.until]

(* POST /api/certificates. *)
UploadCertificate(c, leaf) ==
    /\ ~cert[c].known /\ ParseCertificate(leaf)
    /\ cert' = [cert EXCEPT ![c] = CertRow(leaf)]
    /\ UNCHANGED waiting /\ CertsChange

(* POST /api/certificates/:id/renew: compared with the row read before the *)
(* body, written by id.                                                    *)
RenewBegin(c) ==
    /\ cert[c].known /\ waiting = Unasked
    /\ waiting' = [op |-> "renew", id |-> c, row |-> cert[c]]
    /\ UNCHANGED cert /\ CertsChange
Renewable(leaf, row) ==
    /\ ParseCertificate(leaf) /\ leaf.thumb # row.thumb
    /\ leaf.subject = row.subject /\ leaf.until > row.until
RenewEnd(leaf) ==
    /\ waiting.op = "renew" /\ waiting' = Unasked
    /\ cert' = IF Renewable(leaf, waiting.row) /\ cert[waiting.id].known
               THEN [cert EXCEPT ![waiting.id] = CertRow(leaf)] ELSE cert
    /\ CertsChange

(* DELETE /api/certificates/:id: refused while a binding row names it. *)
BindingsUsing(c) == {a \in TrustApis : binding[a].cert = c}
DeleteCertificate(c) ==
    /\ cert[c].known /\ BindingsUsing(c) = {}
    /\ cert' = [cert EXCEPT ![c] = NoCert]
    /\ UNCHANGED waiting /\ CertsChange

-----------------------------------------------------------------------------
(* Bindings: PUT /api/resources/:id/binding takes its scope, waits for DNS *)
(* and looks the certificate up afterwards.                                *)
PutBindingBegin(a, pool, c) ==
    /\ waiting = Unasked /\ pool # {}
    /\ CheckEgress(pool, DenyRulesFor, {})
    /\ ruleCache' = Filled
    /\ waiting' = [op |-> "bind", api |-> a, pool |-> pool, cert |-> c]
    /\ UNCHANGED <<day, anchor, cpBundle, exception, rule, cert, credential, binding, names,
                   globals, snapshot, document, trust>>
PutBindingEnd(denied) ==
    /\ waiting.op = "bind" /\ waiting' = Unasked
    /\ binding' = IF /\ CheckEgress(waiting.pool, {}, denied)
                     /\ waiting.cert = "none" \/ cert[waiting.cert].known
                  THEN [binding EXCEPT ![waiting.api] = [pool |-> waiting.pool, cert |-> waiting.cert]]
                  ELSE binding
    /\ UNCHANGED <<day, anchor, cpBundle, exception, rule, ruleCache, cert, credential, names,
                   globals, snapshot, document, trust>>

(* configure checks the certificate and the references it queues; the      *)
(* operation writes them when it runs.                                     *)
QueueConfigure(a, c, refs) ==
    /\ snapshot[a] = Unasked /\ binding[a].pool # {}
    /\ c # "none" => cert[c].known /\ cert[c].until > day
    /\ snapshot' = [snapshot EXCEPT ![a] = [op |-> "configure", cert |-> c, refs |-> refs]]
    /\ UNCHANGED <<day, anchor, cpBundle, exception, rule, ruleCache, cert, credential,
                   binding, names, globals, waiting, document, trust>>
ApplyConfigure(a) ==
    /\ snapshot[a].op = "configure"
    /\ binding' = [binding EXCEPT ![a].cert = snapshot[a].cert]
    /\ names' = [names EXCEPT ![a] = snapshot[a].refs]
    /\ snapshot' = [snapshot EXCEPT ![a] = Unasked]
    /\ UNCHANGED <<day, anchor, cpBundle, exception, rule, ruleCache, cert, credential,
                   globals, waiting, document, trust>>

-----------------------------------------------------------------------------
(* Credentials. *)
Kinds == {"basic", "secret", "hmac"}
CredentialsChange == UNCHANGED <<day, anchor, cpBundle, exception, rule, ruleCache, cert,
                                 binding, names, globals, waiting, snapshot, document, trust>>
(* POST /api/credentials; a rotation replaces the secret and keeps the     *)
(* kind, so it changes nothing the model holds.                            *)
CreateCredential(ref, kind) ==
    /\ credential[ref] = "none"
    /\ credential' = [credential EXCEPT ![ref] = kind] /\ CredentialsChange
(* credentialUsageIndex: own entries and global entries of the             *)
(* environment, whichever unit names it.                                   *)
CredentialsUsing(ref) == {a \in TrustApis : \E u \in names[a] : u[2] = ref}
                         \cup {"global" : u \in {u \in globals : u[2] = ref}}
(* DELETE /api/credentials/:id. *)
DeleteCredential(ref) ==
    /\ credential[ref] # "none" /\ CredentialsUsing(ref) = {}
    /\ credential' = [credential EXCEPT ![ref] = "none"] /\ CredentialsChange
(* An administrator's global entry naming a reference. *)
NameGlobally(refs) ==
    /\ globals' = refs /\ refs # globals
    /\ UNCHANGED <<day, anchor, cpBundle, exception, rule, ruleCache, cert, credential,
                   binding, names, waiting, snapshot, document, trust>>

(* credentialVault: a basic or secret credential presents a secret, an     *)
(* hmac one a key pair, and neither stands in for the other.               *)
\* mutant
VaultHolds(use, ref) == credential[ref] # "none"
Vault(use, ref) == IF use = "hmac" THEN credential[ref] = "hmac"
                   ELSE use \in {"hash", "secret"} /\ credential[ref] \in {"basic", "secret"}
(* buildReferences. *)
Resolves(u) == IF u[2] \in AppRefs THEN Vault(u[1], u[2]) ELSE u \in Registered
Unresolved(a) == {u \in names[a] \cup globals : ~Resolves(u)}

-----------------------------------------------------------------------------
(* buildRoutes and buildConfig: a route with a denied backend is left out  *)
(* and reported, one with an unresolved reference is kept and reported.    *)
Bound == {a \in TrustApis : binding[a].pool # {}}
Blocked(a) == \E b \in binding[a].pool, r \in DenyRulesFor : Matches(r, b)
BuildConfig ==
    LET routes == {a \in Bound : ~Blocked(a)}
    IN [routes |-> routes,
        errors |-> (Bound \ routes) \cup {a \in routes : Unresolved(a) # {}},
        tls |-> [a \in TrustApis |-> TlsFor(a)],
        certs |-> {c \in CertIds : cert[c].known /\ BindingsUsing(c) # {}},
        refs |-> {u \in UNION {names[a] \cup globals : a \in routes} : Resolves(u)},
        using |-> [a \in TrustApis |-> names[a] \cup globals],
        anchors |-> LiveAnchorsFor(Home)]

(* A gateway polls and activates what it was given. *)
PollDocument ==
    /\ document' = BuildConfig /\ document' # document
    /\ ruleCache' = Filled
    /\ trust' = TrustSet(document'.anchors)
    /\ UNCHANGED <<day, anchor, cpBundle, exception, rule, cert, credential, binding, names,
                   globals, waiting, snapshot>>

NextDay ==
    /\ day < LastDay /\ day' = day + 1
    /\ UNCHANGED <<anchor, cpBundle, exception, rule, ruleCache, cert, credential, binding,
                   names, globals, waiting, snapshot, document, trust>>

NoDocument == [routes |-> {}, errors |-> {}, tls |-> [a \in TrustApis |-> Verify], certs |-> {},
               refs |-> {}, using |-> [a \in TrustApis |-> {}], anchors |-> {}]
TrustInit ==
    /\ day = 0 /\ anchor = <<>> /\ cpBundle = NoCache /\ exception = <<>>
    /\ rule = <<>> /\ ruleCache = NoRules
    /\ cert = [c \in CertIds |-> NoCert] /\ credential = [r \in AppRefs |-> "none"]
    /\ binding = [a \in TrustApis |-> Unbound]
    /\ names = [a \in TrustApis |-> {}] /\ globals = {}
    /\ waiting = Unasked /\ snapshot = [a \in TrustApis |-> Unasked]
    /\ document = NoDocument /\ trust = [pems |-> {}, until |-> Forever]

AnchorNext ==
    \/ \E env \in {Home, Away}, pem \in Pems : AddAnchor(env, pem)
    \/ \E n \in 1..MaxRows : RemoveAnchor(n)
    \/ \E ids \in SUBSET (1..Len(anchor)) : CopyAnchors(Home, Away, ids) \/ CopyAnchors(Away, Home, ids)
    \/ TrustedFetch \/ GatewayDial \/ PollDocument \/ NextDay
BindNext(pools, certs) ==
    \/ \E a \in TrustApis, pool \in pools, c \in certs : PutBindingBegin(a, pool, c)
    \/ \E denied \in {{}, Backends} : PutBindingEnd(denied)
ExceptionNext ==
    \/ \E a \in TrustApis, backend \in {"all"} \cup {b.name : b \in Backends}, mode \in Modes,
          until \in 1..(LastDay + MaxDays) : CreateException(a, backend, mode, until)
    \/ \E n \in 1..MaxExceptions : RevokeException(n)
    \/ PollDocument \/ NextDay
RuleNext ==
    \/ \E r \in Rules : CreateDenyRule(r)
    \/ \E n \in 1..MaxRows : RemoveDenyRule(n)
    \/ PollDocument
ConfigureNext(certs, refsets) ==
    \/ \E a \in TrustApis, c \in certs, refs \in refsets : QueueConfigure(a, c, refs)
    \/ \E a \in TrustApis : ApplyConfigure(a)
    \/ PollDocument
CertificateNext ==
    \/ \E c \in CertIds, leaf \in Leaves : UploadCertificate(c, leaf)
    \/ \E c \in CertIds : RenewBegin(c) \/ DeleteCertificate(c)
    \/ \E leaf \in Leaves : RenewEnd(leaf)
CredentialNext ==
    \/ \E ref \in AppRefs, kind \in Kinds : CreateCredential(ref, kind)
    \/ \E ref \in AppRefs : DeleteCredential(ref)
    \/ \E u \in Uses : NameGlobally({u})

(* Everybody edits at once. *)
TrustEdits ==
    \/ AnchorNext \/ ExceptionNext \/ RuleNext \/ CertificateNext \/ CredentialNext
    \/ BindNext(SUBSET Backends, CertIds \cup {"none"})
    \/ ConfigureNext(CertIds \cup {"none"}, SUBSET Uses)
TrustSpec == TrustInit /\ [][TrustEdits]_tvars

-----------------------------------------------------------------------------
(* What the control plane and a gateway verify with is what the Trust      *)
(* screen shows as live: neither cache outlives an anchor, and a removal   *)
(* or an addition is seen by the next fetch (controlPlaneCaBundle,         *)
(* TrustSet.bundle, anchorView).                                           *)
BundlesAreLive ==
    /\ CachedBundle(cpBundle).pems = ListedAnchors(Home) \cup ListedAnchors(Away)
    /\ GatewayBundle.pems = {a.thumb : a \in {a \in document.anchors : a.until > day}}

(* A gateway relaxes verification only while an exception somebody made    *)
(* for that API has not ended, however old its document is                 *)
(* (tlsOptionsFor: it ends on this instance's own clock); and a document   *)
(* built now relaxes exactly the APIs the governance report names.         *)
ExceptionsEnd ==
    /\ {a \in TrustApis : TlsFor(a).mode # "verify"} = GovernanceReport.relaxed
    /\ \A a \in TrustApis, b \in Backends :
          TlsMode(a, b) # "verify" =>
              \E n \in DOMAIN exception : exception[n].api = a /\ exception[n].until > day

(* Trust given for a time ends with it, on the control plane and on a      *)
(* gateway that nobody has told.                                           *)
TrustEnds == BundlesAreLive /\ ExceptionsEnd

(* A document never carries a route to a backend a live rule denies, even  *)
(* one bound while the rule was being written, and it reports that route   *)
(* and the governance report names it too (buildRoutes, PUT binding,       *)
(* invalidateDenyRules, routesMatchingRule).                               *)
BlockedIsLeftOut ==
    LET denied == UNION {RoutesMatchingRule(r) : r \in LiveRules \cup {SelfRule}}
    IN /\ BuildConfig.routes = Bound \ denied
       /\ denied \subseteq BuildConfig.errors \cap GovernanceReport.blocked

(* Every route of a document either has each reference it names resolved   *)
(* to material its unit can use, or is reported (buildReferences,          *)
(* credentialVault); a credential deleted, or replaced by one of another   *)
(* kind, while an operation naming it was queued included.                 *)
Material(u) == IF u[2] \in AppRefs
               THEN IF u[1] = "hmac" THEN credential[u[2]] = "hmac" ELSE credential[u[2]] \in {"basic", "secret"}
               ELSE u \in Registered
UnresolvedIsReported ==
    [][document' # document =>
         \A a \in document'.routes : (\A u \in names[a] \cup globals : Material(u)) \/ a \in document'.errors]_tvars

(* "A backend_url of NULL covers every backend in the binding's pool; a    *)
(* value covers exactly one" (config-build.ts:193): a backend is dialled   *)
(* unverified only under an exception that covers it.                      *)
ExceptionCovers ==
    \A a \in document.routes, b \in Backends :
        b \in binding[a].pool /\ TlsMode(a, b) # "verify" =>
            \E n \in DOMAIN exception : exception[n].api = a /\ exception[n].backend \in {"all", b.name}
=============================================================================
