---------------------------- MODULE ConfigClient ----------------------------
(***************************************************************************)
(* One gateway instance's poll loop and the control-plane answers it       *)
(* activates (data-plane/src/config-client.ts, with the parts of server.ts *)
(* and stream.ts its activation reaches and the poll handler of            *)
(* control-plane/src/api/gateway.ts).                                      *)
(*                                                                         *)
(* A process is single threaded: a step is what runs between two awaits.   *)
(* The awaits of a poll (the request, the artifact prefetch) are the       *)
(* stages of a record in polls, so anything else may happen in between: a  *)
(* timer tick, a control-plane change, traffic, a crash.                   *)
(*                                                                         *)
(* Documents are identified by their digest and are described by what the  *)
(* code asks of them.  Left out: telemetry, validation counters and quota  *)
(* deltas, which ride the same poll, and the text of errors and logs.      *)
(***************************************************************************)
EXTENDS Naturals, Sequences, FiniteSets

CONSTANTS
    Docs,        \* configuration documents a control plane may build
    NoDoc,       \* no document
    Subs,        \* subscriptions
    SubsOf,      \* SubsOf[d]: subscriptions the document d names
    Demanding,   \* documents whose settings a small container cannot honour
    NeedsCert,   \* documents with a route identified by client certificate
    TrustedProxyConfigured,  \* TRUSTED_PROXY_CIDRS is not empty here
    MaxWire,     \* newest wire version (bound)
    MaxHist      \* control-plane states considered (bound)

ASSUME DocsAssumption ==
    /\ NoDoc \notin Docs
    /\ SubsOf \in [Docs -> SUBSET Subs]
    /\ Demanding \subseteq Docs
    /\ NeedsCert \subseteq Docs
    /\ TrustedProxyConfigured \in BOOLEAN
    /\ MaxWire \in Nat \ {0}
    /\ MaxHist \in Nat \ {0}

VARIABLES
    (* the control plane, as this instance can observe it *)
    hist,        \* successive [doc, revoked] states; the last is current; revoked:
                 \* the token this container is configured with is refused
    cpWire,      \* wire version the control plane speaks
    (* the container, fixed while the process runs *)
    phase,       \* "down", "starting" (first poll, no listener), "serving"
    wire,        \* wire version of this build
    roomy,       \* BUN_CONFIG_MAX_HTTP_REQUESTS honours every document
    cacheFile,   \* GATEWAY_CONFIG_CACHE: [doc, wire], doc = NoDoc if unusable
    (* ConfigClient *)
    table, decommissioned, fromCache, activationBlocked, servingRefusal,
    inFlight,    \* the guard of pollOnce
    polls,       \* polls between send and return; see Poll
    settings,    \* document whose settings are in force, NoDoc = defaults
    (* StreamRegistry and the requests that will register there *)
    requests,    \* subscriptions with a request awaiting its backend
    streams,     \* subscriptions with an open stream
    (* history variable *)
    at           \* position in hist of the newest answer acted on

cpVars == <<hist, cpWire>>
containerVars == <<phase, wire, roomy, cacheFile>>
clientVars == <<table, decommissioned, fromCache, activationBlocked,
                servingRefusal, inFlight, polls, settings>>
trafficVars == <<requests, streams>>
vars == <<cpVars, containerVars, clientVars, trafficVars, at>>

-----------------------------------------------------------------------------
None == "none"
Reasons == {None, "wire", "settings", "proxy", "artifacts"}
Wires == 1..MaxWire
Published == [doc : Docs, revoked : BOOLEAN]

(* A poll in flight.  digest is the activeDigest its body carried, n the   *)
(* control-plane state its answer was built from (0 until answered).       *)
Poll == [stage : {"sent", "revoked", "wire", "unchanged", "config", "fetching"},
         digest : Docs \cup {NoDoc},
         n : 0..MaxHist]

Current == hist[Len(hist)]

TypeOK ==
    /\ hist \in Seq(Published) /\ Len(hist) \in 1..MaxHist
    /\ cpWire \in Wires
    /\ phase \in {"down", "starting", "serving"}
    /\ wire \in Wires
    /\ roomy \in BOOLEAN
    /\ cacheFile \in [doc : Docs \cup {NoDoc}, wire : Wires]
    /\ table \in Docs \cup {NoDoc}
    /\ decommissioned \in BOOLEAN
    /\ fromCache \in BOOLEAN
    /\ activationBlocked \in Reasons
    /\ servingRefusal \in Reasons
    /\ inFlight \in BOOLEAN
    /\ polls \in SUBSET Poll
    /\ settings \in Docs \cup {NoDoc}
    /\ requests \in SUBSET Subs
    /\ streams \in SUBSET Subs
    /\ at \in 1..MaxHist

(* settingsBlocker: can this container honour the document's settings?     *)
Refused(d, r) == d \in Demanding /\ ~r

-----------------------------------------------------------------------------
(* The control plane *)

Advance(s) ==
    /\ Len(hist) < MaxHist
    /\ hist' = Append(hist, s)
    /\ UNCHANGED <<cpWire, containerVars, clientVars, trafficVars, at>>

(* Anything that changes what buildConfig returns for this instance.       *)
Publish(d) == d # Current.doc /\ Advance([Current EXCEPT !.doc = d])

(* The token this container is configured with stops being accepted: an    *)
(* administrator revokes the instance, or the seed mints it another token. *)
Revoke == ~Current.revoked /\ Advance([Current EXCEPT !.revoked = TRUE])

(* The stopped container is configured with the token the seed minted.     *)
Reinstate == /\ phase = "down"
             /\ Current.revoked
             /\ Advance([Current EXCEPT !.revoked = FALSE])

UpgradeControlPlane ==
    /\ cpWire < MaxWire
    /\ cpWire' = cpWire + 1
    /\ UNCHANGED <<hist, containerVars, clientVars, trafficVars, at>>

(* The poll handler: authenticate, refuse another wire version, else build *)
(* this instance's document and compare digests.                           *)
AnswerStage(p) ==
    IF Current.revoked THEN "revoked"
    ELSE IF wire # cpWire THEN "wire"
    ELSE IF p.digest = Current.doc THEN "unchanged" ELSE "config"

Answer(p) ==
    /\ p.stage = "sent"
    /\ polls' = (polls \ {p}) \cup
                {[stage |-> AnswerStage(p), digest |-> p.digest, n |-> Len(hist)]}
    /\ UNCHANGED <<cpVars, containerVars, table, decommissioned, fromCache,
                   activationBlocked, servingRefusal, inFlight, settings,
                   trafficVars, at>>

-----------------------------------------------------------------------------
(* The poll loop *)

SentReason(d) == [stage |-> "sent", digest |-> activationBlocked, n |-> 0]  \* mutant

(* body: the poll carries the digest of the table it was built from.       *)
Sent(d) == [stage |-> "sent", digest |-> d, n |-> 0]

(* What a start finds in the fail-static cache: a document of this build's *)
(* wire version, or nothing.                                               *)
CachedDoc(w) == IF cacheFile.wire = w THEN cacheFile.doc ELSE NoDoc

CachedSettingsForced(d, refusal) == d                              \* mutant

(* The settings a cached document brings back, unless they are refused.    *)
CachedSettings(d, refusal) == IF refusal = None THEN d ELSE NoDoc

(* start: loadFromCache, then the first poll.  The container may be        *)
(* another one (a newer build, another outbound ceiling).  A cached        *)
(* document whose settings are refused is served all the same, with the    *)
(* defaults in force and the reason recorded.                              *)
Start(w, r) ==
    LET d == CachedDoc(w)
        refusal == IF d # NoDoc /\ Refused(d, r) THEN "settings" ELSE None
    IN  /\ phase = "down"
        /\ phase' = "starting"
        /\ w >= wire /\ wire' = w
        /\ roomy' = r
        /\ table' = d
        /\ fromCache' = (d # NoDoc)
        /\ servingRefusal' = refusal
        /\ activationBlocked' = refusal
        /\ settings' = CachedSettings(d, refusal)
        /\ decommissioned' = FALSE
        /\ inFlight' = TRUE
        /\ polls' = {Sent(d)}
        /\ UNCHANGED <<cpVars, cacheFile, trafficVars, at>>

PollGuardDropped == TRUE                                           \* mutant

(* The guard of pollOnce: one poll at a time.                              *)
PollGuard == ~inFlight

(* The interval fires; a tick during a poll is skipped.                    *)
PollOnce ==
    /\ phase = "serving"
    /\ PollGuard
    /\ inFlight' = TRUE
    /\ polls' = polls \cup {Sent(table)}
    /\ UNCHANGED <<cpVars, containerVars, table, decommissioned, fromCache,
                   activationBlocked, servingRefusal, settings, trafficVars, at>>

ReturnWithoutFinally(p) ==                                         \* mutant
    /\ polls' = polls \ {p}
    /\ inFlight' = inFlight
    /\ phase' = "serving"

(* pollExclusive returns: pollOnce's finally, and, after the first poll,   *)
(* the listener of startDataPlane.                                         *)
Return(p) ==
    /\ polls' = polls \ {p}
    /\ inFlight' = FALSE
    /\ phase' = "serving"

PollFailsClosed(p) ==                                              \* mutant
    /\ p.stage # "fetching"
    /\ Return(p)
    /\ table' = NoDoc
    /\ UNCHANGED <<cpVars, wire, roomy, cacheFile, decommissioned, fromCache,
                   activationBlocked, servingRefusal, settings, trafficVars, at>>

(* The request fails or times out, its answer is lost or unreadable, or    *)
(* the control plane answers an error that is not a refusal.               *)
PollFails(p) ==
    /\ p.stage # "fetching"
    /\ Return(p)
    /\ UNCHANGED <<cpVars, wire, roomy, cacheFile, table, decommissioned,
                   fromCache, activationBlocked, servingRefusal, settings,
                   trafficVars, at>>

(* 401 or 403: fail closed.  The cache file stays.                         *)
ReceiveRevoked(p) ==
    /\ p.stage = "revoked"
    /\ Return(p)
    /\ decommissioned' = TRUE
    /\ table' = NoDoc
    /\ streams' = {}
    /\ at' = p.n
    /\ UNCHANGED <<cpVars, wire, roomy, cacheFile, fromCache, activationBlocked,
                   servingRefusal, settings, requests>>

(* Another wire version: keep serving, and say why.                        *)
ReceiveWire(p) ==
    /\ p.stage = "wire"
    /\ Return(p)
    /\ activationBlocked' = "wire"
    /\ at' = p.n
    /\ UNCHANGED <<cpVars, wire, roomy, cacheFile, table, decommissioned,
                   fromCache, servingRefusal, settings, trafficVars>>

ReasonWhenUnchangedCleared == None                                 \* mutant

(* The document offered is the one served: only a cached refusal remains.  *)
ReasonWhenUnchanged == servingRefusal

ReceiveUnchanged(p) ==
    /\ p.stage = "unchanged"
    /\ Return(p)
    /\ decommissioned' = FALSE
    /\ activationBlocked' = ReasonWhenUnchanged
    /\ at' = p.n
    /\ UNCHANGED <<cpVars, wire, roomy, cacheFile, table, fromCache,
                   servingRefusal, settings, trafficVars>>

(* The synchronous half of blockerFor, in its order.                       *)
EarlyBlocker(d) ==
    IF Refused(d, roomy) THEN "settings"
    ELSE IF ~TrustedProxyConfigured /\ d \in NeedsCert THEN "proxy" ELSE None

(* A new document that may not be activated: whatever serves keeps         *)
(* serving.  With nothing to serve a missing trust boundary throws, which  *)
(* ends the process when it is the first poll and is logged otherwise.     *)
ReceiveBlocked(p) ==
    LET d == hist[p.n].doc
        fatal == EarlyBlocker(d) = "proxy" /\ table = NoDoc /\ phase = "starting"
    IN  /\ p.stage = "config"
        /\ EarlyBlocker(d) # None
        /\ polls' = polls \ {p}
        /\ inFlight' = FALSE
        /\ phase' = IF fatal THEN "down" ELSE "serving"
        /\ decommissioned' = FALSE
        /\ activationBlocked' = EarlyBlocker(d)
        /\ at' = p.n
        /\ UNCHANGED <<cpVars, wire, roomy, cacheFile, table, fromCache,
                       servingRefusal, settings, trafficVars>>

(* A new document whose artifacts are now awaited.                         *)
ReceiveConfig(p) ==
    /\ p.stage = "config"
    /\ EarlyBlocker(hist[p.n].doc) = None
    /\ polls' = (polls \ {p}) \cup {[p EXCEPT !.stage = "fetching"]}
    /\ decommissioned' = FALSE
    /\ at' = p.n
    /\ UNCHANGED <<cpVars, containerVars, table, fromCache, activationBlocked,
                   servingRefusal, inFlight, settings, trafficVars>>

(* prefetch returns with something missing.                                *)
PrefetchMisses(p) ==
    /\ p.stage = "fetching"
    /\ Return(p)
    /\ activationBlocked' = "artifacts"
    /\ UNCHANGED <<cpVars, wire, roomy, cacheFile, table, decommissioned,
                   fromCache, servingRefusal, settings, trafficVars, at>>

CloseRevokedSkipped(d) == streams                                  \* mutant

(* closeRevoked: the streams that survive the swap to d.                   *)
CloseRevoked(d) == streams \cap SubsOf[d]

(* prefetch has everything: activate, persist (a write may fail or be      *)
(* torn), and invalidate what the swap outdates.                           *)
Activate(p) ==
    LET d == hist[p.n].doc
    IN  /\ p.stage = "fetching"
        /\ Return(p)
        /\ activationBlocked' = None
        /\ servingRefusal' = None
        /\ fromCache' = FALSE
        /\ table' = d
        /\ cacheFile' \in {[doc |-> d, wire |-> wire], cacheFile,
                           [doc |-> NoDoc, wire |-> wire]}
        /\ settings' = d
        /\ streams' = CloseRevoked(d)
        /\ UNCHANGED <<cpVars, wire, roomy, decommissioned, requests, at>>

(* The process is stopped or killed.                                       *)
Crash ==
    /\ phase # "down"
    /\ phase' = "down"
    /\ table' = NoDoc /\ decommissioned' = FALSE /\ fromCache' = FALSE
    /\ activationBlocked' = None /\ servingRefusal' = None
    /\ inFlight' = FALSE /\ polls' = {} /\ settings' = NoDoc
    /\ requests' = {} /\ streams' = {}
    /\ UNCHANGED <<cpVars, wire, roomy, cacheFile, at>>

-----------------------------------------------------------------------------
(* Traffic on a streaming route *)

(* serve: the table is read once, and the subscription found in it.        *)
BeginRequest(s) ==
    /\ phase = "serving"
    /\ ~decommissioned
    /\ table # NoDoc
    /\ s \in SubsOf[table]
    /\ requests' = requests \cup {s}
    /\ UNCHANGED <<cpVars, containerVars, clientVars, streams, at>>

(* The backend answers with an event stream: superviseSse registers it.    *)
OpenStream(s) ==
    /\ s \in requests
    /\ requests' = requests \ {s}
    /\ streams' = streams \cup {s}
    /\ UNCHANGED <<cpVars, containerVars, clientVars, at>>

(* ... or with an ordinary response.                                       *)
EndRequest(s) ==
    /\ s \in requests
    /\ requests' = requests \ {s}
    /\ UNCHANGED <<cpVars, containerVars, clientVars, streams, at>>

CloseStream(s) ==
    /\ s \in streams
    /\ streams' = streams \ {s}
    /\ UNCHANGED <<cpVars, containerVars, clientVars, requests, at>>

-----------------------------------------------------------------------------
Init ==
    /\ hist \in {<<[doc |-> d, revoked |-> FALSE]>> : d \in Docs}
    /\ cpWire = 1 /\ wire = 1
    /\ phase = "down"
    /\ roomy = TRUE
    /\ cacheFile = [doc |-> NoDoc, wire |-> 1]
    /\ table = NoDoc /\ decommissioned = FALSE /\ fromCache = FALSE
    /\ activationBlocked = None /\ servingRefusal = None
    /\ inFlight = FALSE /\ polls = {} /\ settings = NoDoc
    /\ requests = {} /\ streams = {}
    /\ at = 1

PollStep ==
    \E p \in polls : \/ Answer(p)
                     \/ PollFails(p)
                     \/ ReceiveRevoked(p)
                     \/ ReceiveWire(p)
                     \/ ReceiveUnchanged(p)
                     \/ ReceiveBlocked(p)
                     \/ ReceiveConfig(p)
                     \/ PrefetchMisses(p)
                     \/ Activate(p)

Next ==
    \/ \E d \in Docs : Publish(d)
    \/ Revoke
    \/ Reinstate
    \/ UpgradeControlPlane
    \/ \E w \in Wires, r \in BOOLEAN : Start(w, r)
    \/ PollOnce
    \/ PollStep
    \/ Crash
    \/ \E s \in Subs : \/ BeginRequest(s)
                       \/ OpenStream(s)
                       \/ EndRequest(s)
                       \/ CloseStream(s)

Spec == Init /\ [][Next]_vars

(***************************************************************************)
(* The interval keeps firing, a stopped container is started again by its  *)
(* supervisor, and the network and the artifact channel do not fail for    *)
(* ever: a poll that is retried often enough is answered, its answer read, *)
(* and its artifacts fetched.                                              *)
(***************************************************************************)
Fairness ==
    /\ WF_vars(PollOnce)
    /\ WF_vars(\E w \in Wires, r \in BOOLEAN : Start(w, r))
    /\ SF_vars(\E p \in polls : Answer(p))
    /\ SF_vars(\E p \in polls : \/ ReceiveRevoked(p) \/ ReceiveWire(p)
                               \/ ReceiveUnchanged(p) \/ ReceiveBlocked(p)
                               \/ ReceiveConfig(p))
    /\ SF_vars(\E p \in polls : Activate(p))

FairSpec == Spec /\ Fairness

-----------------------------------------------------------------------------
(* Properties *)

(* Answers take effect in the order the control plane gave them: an answer *)
(* built from an older control-plane state is never acted on after one     *)
(* built from a newer state, whatever polls overlap, fail or are retried   *)
(* (the reason pollOnce skips a tick while a poll is in flight).           *)
AnswersInOrder == [][at' >= at]_vars

(* A processed 401 stands for as long as the process runs: no 200 that     *)
(* left the control plane before the revocation and arrives late puts the  *)
(* routes back.                                                            *)
RevocationHolds ==
    [][decommissioned /\ phase' # "down" => decommissioned' /\ table' = NoDoc]_vars

(* Fail static: a running instance that serves a document stops serving it *)
(* only for another document or because it was revoked.                    *)
FailStatic ==
    [][table # NoDoc /\ table' = NoDoc => decommissioned' \/ phase' = "down"]_vars

(* Fail closed: a decommissioned instance has no table, its token really   *)
(* is refused, and no poll still in flight carries a document that would   *)
(* bring the routes back.                                                  *)
FailClosed ==
    decommissioned => /\ table = NoDoc
                      /\ Current.revoked
                      /\ \A p \in polls : p.stage \in {"sent", "revoked"}

(* What an instance cannot enforce is on record for as long as it matters: *)
(* while a cached document is served with the default settings instead of  *)
(* its own, the next poll and /healthz name a reason, "unchanged" answers  *)
(* included.                                                               *)
RefusalIsReported ==
    servingRefusal # None => activationBlocked # None

(* The settings in force are those of the document served, unless the      *)
(* refusal of that very document is on record, through restarts on other   *)
(* containers, cached starts, blocked documents and activations.           *)
SettingsMatchTable ==
    table # NoDoc => IF servingRefusal = None
                     THEN settings = table
                     ELSE fromCache /\ settings = NoDoc /\ Refused(table, roomy)

(* A swap closes the streams of every subscription that left the document, *)
(* and a revocation closes all of them.                                    *)
SwapClosesStreams ==
    [][table' # table => streams' \subseteq IF table' = NoDoc THEN {}
                                            ELSE SubsOf[table']]_vars

(* An instance is sound at every moment: it serves nothing once it is      *)
(* revoked, and what it enforces is either the document's or known not to  *)
(* be.                                                                     *)
InstanceSound == TypeOK /\ FailClosed /\ RefusalIsReported /\ SettingsMatchTable

(* What an answer did stands: a later one is newer, a revocation is not    *)
(* undone, a table is not dropped without one, and a swap closes what the  *)
(* new document does not carry.                                            *)
AnswersStand == AnswersInOrder /\ RevocationHolds /\ FailStatic /\ SwapClosesStreams

(* Once the control plane stops changing and its document can be served    *)
(* here, the instance serves it and keeps serving it.                      *)
Servable ==
    /\ phase # "down"
    /\ ~Current.revoked
    /\ wire = cpWire
    /\ EarlyBlocker(Current.doc) = None

Converges == <>[]Servable => <>[](table = Current.doc)

(* The instance keeps the promise the rest of the system relies on.        *)
Promise == INSTANCE ServedDocument WITH up <- phase # "down", serving <- table

KeepsPromise == Promise!Spec

(* stream.ts: an open stream belongs to a subscription that is in the      *)
(* document being served.                                                  *)
StreamsFollowDocument ==
    phase = "serving" =>
        streams \subseteq IF table = NoDoc THEN {} ELSE SubsOf[table]
=============================================================================
