-------------------------------- MODULE Edge --------------------------------
(***************************************************************************)
(* What a gateway keeps beside its route table: the issuer's keys and the  *)
(* answers about tokens (data-plane/src/identity.ts, shared/jwt.ts), the   *)
(* tokens it presents to backends (backend-auth.ts), the validators on its *)
(* volume (artifacts.ts) and the access log (accesslog.ts).  Time is kept  *)
(* as ages and remaining lifetimes, so that no clock has to end.           *)
(***************************************************************************)
EXTENDS Integers, Sequences, FiniteSets, SequencesExt, FiniteSetsExt, Sublists

CONSTANTS
    Kids, Presented,        \* signing keys, and the tokens callers present
    Cooldown,               \* minRefetchMs
    Opaque, Units,          \* tokens to introspect, and the cacheTtlSec of the routes
    Timeout, MaxAnswers,    \* the request's timeout, the cache's limit
    ExpiresIn, Skew,        \* of the backend's token provider
    Documents, Needs,       \* documents offered, and the artifacts each names
    Ceilings,               \* artifactCacheMaxBytes, in artifacts
    LogMax, Keeps, HighWater, MaxLines

ASSUME EdgeAssumption ==
    /\ {Cooldown, Timeout, MaxAnswers, Skew, HighWater, MaxLines} \subseteq Nat
    /\ Units \subseteq Nat /\ Units # {} /\ IsFiniteSet(Units)
    /\ Keeps \subseteq Nat \ {0} /\ Keeps # {} /\ IsFiniteSet(Keeps) /\ LogMax \in Nat \ {0}
    /\ ExpiresIn \subseteq Nat /\ Ceilings \subseteq Nat /\ "none" \notin Documents
    /\ Needs \in [Documents -> SUBSET UNION {Needs[d] : d \in Documents}]

VARIABLES
    published, known, sinceFetch, fetch, waiting, verdict, \* JwksCache
    standing, entries, asking, lag,                        \* IntrospectionCache
    token, getting, overdue,                               \* TokenCache
    disk, memory, pinned, ceiling, served, complete,       \* ArtifactCache
    prefetch,                                              \* the document being prefetched, and what is missing
    files, current, unflushed, keep, written, dropped, lowered   \* RotatingFileSink

jwksVars == <<published, known, sinceFetch, fetch, waiting, verdict>>
introVars == <<standing, entries, asking, lag>>
tokenVars == <<token, getting, overdue>>
artifactVars == <<disk, memory, pinned, ceiling, served, complete, prefetch>>
logVars == <<files, current, unflushed, keep, written, dropped, lowered>>
evars == <<jwksVars, introVars, tokenVars, artifactVars, logVars>>

Least(a, b) == IF a < b THEN a ELSE b
Most(a, b) == IF a > b THEN a ELSE b

-----------------------------------------------------------------------------
(* Callers' JWTs. *)
(* verifyJwt, beside the signature: the algorithm is the issuer's, then    *)
(* the window, the issuer, the audience; a missing scope is a 403.         *)
Claims(t) ==
    IF ~t.alg \/ ~t.window \/ ~t.iss \/ ~t.aud THEN "401"
    ELSE IF ~t.scope THEN "403" ELSE "ok"
Outcome(t, keys) == IF t.alg /\ t.kid \in keys THEN Claims(t) ELSE "401"

(* keyFor: a key that is known is used whatever its age; for one that is   *)
(* not, the set is fetched at most once per cooldown, by whoever asks      *)
(* first.                                                                  *)
\* mutant: a set that was fetched is not fetched again
MayFetchOnce == known = {}
MayFetch == sinceFetch >= Cooldown
Present(t) ==
    IF ~t.alg \/ t.kid \in known \/ ~MayFetch
    THEN /\ verdict' = [verdict EXCEPT ![t] = Outcome(t, known)]
         /\ UNCHANGED <<published, known, sinceFetch, fetch, waiting>>
    ELSE /\ fetch' = IF fetch = {} THEN {published} ELSE fetch
         /\ waiting' = waiting \cup {t} /\ UNCHANGED <<published, known, sinceFetch, verdict>>
(* refresh: whether it worked or not, the cooldown starts again. *)
FetchEnds(ok) ==
    /\ fetch # {} /\ fetch' = {} /\ waiting' = {} /\ sinceFetch' = 0
    /\ \E set \in fetch \cup {published} : known' = IF ok THEN set ELSE known
    /\ verdict' = [t \in Presented |-> IF t \in waiting THEN Outcome(t, known') ELSE verdict[t]]
    /\ UNCHANGED published
Rotate(set) == set # published /\ published' = set /\ UNCHANGED <<known, sinceFetch, fetch, waiting, verdict>>
JwksTick ==
    /\ sinceFetch < Cooldown /\ sinceFetch' = sinceFetch + 1
    /\ UNCHANGED <<published, known, fetch, waiting, verdict>>

JwksInit ==
    /\ published \in SUBSET Kids /\ known = {} /\ sinceFetch = Cooldown /\ fetch = {} /\ waiting = {}
    /\ verdict = [t \in Presented |-> "none"]
JwksNext ==
    /\ \/ \E t \in Presented : Present(t)
       \/ \E ok \in BOOLEAN : FetchEnds(ok)
       \/ \E set \in SUBSET Kids : Rotate(set)
       \/ JwksTick
    /\ UNCHANGED <<introVars, tokenVars, artifactVars, logVars>>

-----------------------------------------------------------------------------
(* Introspection.  standing[o] is the token's at the issuer and, once it   *)
(* was revoked, for how long; an entry is [token, active, left].           *)
NotAsking == [ttls |-> {}, first |-> 0, active |-> FALSE, age |-> 0]
Horizon == Timeout + Max(Units) + 2
Position(o) == {i \in DOMAIN entries : entries[i].token = o}
Lasting(o) == \E i \in Position(o) : entries[i].left > 0
Without(o) == Only(entries, {e \in Range(entries) : e.token # o})
(* A hit moves the entry to the end. *)
\* mutant: and counts its time again
HitAgain(o) == LET e == entries[CHOOSE i \in Position(o) : TRUE] IN Append(Without(o), [e EXCEPT !.left = Max(Units)])
Hit(o) == LET e == entries[CHOOSE i \in Position(o) : TRUE] IN Append(Without(o), e)
(* The oldest make room; an expired entry of the token keeps its place. *)
Room == IF Len(entries) >= MaxAnswers THEN SubSeq(entries, Len(entries) - MaxAnswers + 2, Len(entries)) ELSE entries
Stored(e) ==
    IF \E i \in DOMAIN Room : Room[i].token = e.token
    THEN [i \in DOMAIN Room |-> IF Room[i].token = e.token THEN e ELSE Room[i]]
    ELSE Append(Room, e)
(* lag: for how long after its revocation a token was admitted, at most,   *)
(* by the routes with each TTL.                                            *)
Admit(o, ttls, active) ==
    lag' = IF active /\ standing[o].revoked
           THEN [ttl \in Units |-> IF ttl \in ttls THEN Most(lag[ttl], standing[o].since) ELSE lag[ttl]] ELSE lag

Joined(q, o, ttl) ==
    IF q.ttls # {} THEN [q EXCEPT !.ttls = @ \cup {ttl}]
    ELSE [ttls |-> {ttl}, first |-> ttl, active |-> ~standing[o].revoked, age |-> 0]
(* check: a fresh answer is used, whichever route asked for it; otherwise  *)
(* the first caller's request is shared, and its TTL is the first's.       *)
Introspect(o, ttl) ==
    IF Lasting(o)
    THEN /\ entries' = Hit(o) /\ Admit(o, {ttl}, Last(entries').active) /\ UNCHANGED <<standing, asking>>
    ELSE asking' = [asking EXCEPT ![o] = Joined(asking[o], o, ttl)] /\ UNCHANGED <<standing, entries, lag>>
(* introspect: a failure denies everybody who waited and is not kept. *)
IntrospectEnds(o, ok) ==
    LET a == asking[o] IN
    /\ a.ttls # {} /\ asking' = [asking EXCEPT ![o] = NotAsking]
    /\ IF ok
       THEN /\ entries' = Stored([token |-> o, active |-> a.active, left |-> a.first])
            /\ Admit(o, a.ttls, a.active)
       ELSE UNCHANGED <<entries, lag>>
    /\ UNCHANGED standing
Revoke(o) ==
    /\ ~standing[o].revoked /\ standing' = [standing EXCEPT ![o].revoked = TRUE]
    /\ UNCHANGED <<entries, asking, lag>>
IntroTick ==
    /\ \A o \in Opaque : asking[o].ttls # {} => asking[o].age < Timeout
    /\ standing' = [o \in Opaque |-> [standing[o] EXCEPT !.since =
           IF standing[o].revoked THEN Least(@ + 1, Horizon) ELSE @]]
    /\ entries' = [i \in DOMAIN entries |-> [entries[i] EXCEPT !.left = Most(@ - 1, 0)]]
    /\ asking' = [o \in Opaque |-> IF asking[o].ttls # {} THEN [asking[o] EXCEPT !.age = @ + 1] ELSE asking[o]]
    /\ UNCHANGED lag

IntroInit ==
    /\ standing = [o \in Opaque |-> [revoked |-> FALSE, since |-> 0]] /\ entries = <<>>
    /\ asking = [o \in Opaque |-> NotAsking] /\ lag = [ttl \in Units |-> 0]
IntroNext ==
    /\ \/ \E o \in Opaque : Revoke(o) \/ (\E ttl \in Units : Introspect(o, ttl)) \/ (\E ok \in BOOLEAN : IntrospectEnds(o, ok))
       \/ IntroTick
    /\ UNCHANGED <<jwksVars, tokenVars, artifactVars, logVars>>

-----------------------------------------------------------------------------
(* Tokens for backends: [ages since the provider issued it, its expires_in, *)
(* left in the cache], or none.                                             *)
\* mutant: kept for as long as the provider said
LifetimeWhole(expiresIn) == Most(1, expiresIn)
Lifetime(expiresIn) == Most(1, expiresIn - Skew)
NoToken == [age |-> 0, expiresIn |-> 0, left |-> 0]
(* get: single flight; every caller waits for the one request. *)
UseToken ==
    IF token.left > 0
    THEN overdue' = (overdue \/ (token.expiresIn > Skew /\ token.age >= token.expiresIn)) /\ UNCHANGED <<token, getting>>
    ELSE getting' = (IF getting = NoToken THEN [NoToken EXCEPT !.left = 1] ELSE getting) /\ UNCHANGED <<token, overdue>>
(* The provider issues it; the answer takes its time, or fails (503). *)
Issue(e) ==
    /\ getting.left = 1 /\ getting.expiresIn = 0
    /\ getting' = [getting EXCEPT !.expiresIn = e, !.age = 0] /\ UNCHANGED <<token, overdue>>
TokenArrives ==
    /\ getting.expiresIn > 0 /\ getting' = NoToken
    /\ token' = [age |-> getting.age, expiresIn |-> getting.expiresIn, left |-> Lifetime(getting.expiresIn)]
    /\ overdue' = (overdue \/ (token'.expiresIn > Skew /\ token'.age >= token'.expiresIn))
TokenFails == getting # NoToken /\ getting' = NoToken /\ UNCHANGED <<token, overdue>>
(* invalidateOnStatus: the backend refused it. *)
Invalidate == token # NoToken /\ token' = NoToken /\ UNCHANGED <<getting, overdue>>
TokenTick ==
    /\ getting.expiresIn > 0 => getting.age < Timeout
    /\ getting' = IF getting.expiresIn > 0 THEN [getting EXCEPT !.age = @ + 1] ELSE getting
    /\ token' = IF token.left > 0 THEN [token EXCEPT !.age = @ + 1, !.left = @ - 1] ELSE NoToken
    /\ UNCHANGED overdue

TokenInit == token = NoToken /\ getting = NoToken /\ overdue = FALSE
TokenNext ==
    /\ \/ UseToken \/ TokenArrives \/ TokenFails \/ Invalidate \/ TokenTick
       \/ \E e \in ExpiresIn : Issue(e)
    /\ UNCHANGED <<jwksVars, introVars, artifactVars, logVars>>

-----------------------------------------------------------------------------
(* Validators.  disk is in order of last use, oldest first; a file may be  *)
(* damaged on the volume.  complete: what is served is what was prefetched *)
(* last, in this process, and nothing of it was found damaged.             *)
OnDisk == {disk[i].name : i \in DOMAIN disk}
File(a) == CHOOSE i \in DOMAIN disk : disk[i].name = a
Deleted(d, a) == Only(d, {f \in Range(d) : f.name # a})
(* get: the copy in memory, or the file if it still has its digest. *)
\* mutant: the digest is checked on download only
SoundAlways(f) == TRUE
Sound(f) == f.good
(* enforceCeiling: the least recently used go first, pinned ones never. *)
Evicted(d, pins, max) ==
    LET free == Only(d, {f \in Range(d) : f.name \notin pins})
        n == Least(Len(free), Most(0, Len(d) - max))
        out == {free[i].name : i \in 1..n}
    IN Only(d, {f \in Range(d) : f.name \notin out})
InMemory(d) == {m \in memory : m.name \in {d[i].name : i \in DOMAIN d}}

Get(a) ==
    \/ /\ \E m \in memory : m.name = a
       /\ disk' = (IF a \in OnDisk THEN Append(Deleted(disk, a), disk[File(a)]) ELSE disk)
       /\ UNCHANGED <<memory, complete>>
    \/ /\ ~\E m \in memory : m.name = a
       /\ a \in OnDisk /\ Sound(disk[File(a)])
       /\ memory' = memory \cup {disk[File(a)]} /\ disk' = Append(Deleted(disk, a), disk[File(a)])
       /\ UNCHANGED complete
Missed(a) == (~\E m \in memory : m.name = a) /\ (a \in OnDisk => ~Sound(disk[File(a)]))

(* A request that needs the validator: without it the route fails closed. *)
Validate(a) ==
    /\ served # "none" /\ a \in Needs[served]
    /\ \/ Get(a)
       \/ Missed(a) /\ disk' = Deleted(disk, a) /\ complete' = (complete /\ a \notin OnDisk) /\ UNCHANGED memory
    /\ UNCHANGED <<pinned, ceiling, served, prefetch>>

(* blockerFor: one document at a time; prefetch goes through its artifacts, *)
(* each there, downloaded or missing.                                       *)
Offer(d) ==
    /\ prefetch.doc = "none" /\ d # served
    /\ prefetch' = [doc |-> d, todo |-> Needs[d], missing |-> {}]
    /\ UNCHANGED <<disk, memory, pinned, ceiling, served, complete>>
PrefetchOne(a) ==
    /\ a \in prefetch.todo
    /\ \/ Get(a) /\ prefetch' = [prefetch EXCEPT !.todo = @ \ {a}]
       \/ /\ Missed(a) /\ UNCHANGED complete
          /\ \/ /\ disk' = Append(Deleted(disk, a), [name |-> a, good |-> TRUE])
                /\ memory' = memory \cup {[name |-> a, good |-> TRUE]}
                /\ prefetch' = [prefetch EXCEPT !.todo = @ \ {a}]
             \/ /\ disk' = Deleted(disk, a) /\ UNCHANGED memory
                /\ prefetch' = [prefetch EXCEPT !.todo = @ \ {a}, !.missing = @ \cup {a}]
    /\ UNCHANGED <<pinned, ceiling, served>>
(* The document's artifacts are pinned whether or not it is activated;     *)
(* activation then applies its ceiling.                                    *)
\* mutant: the pins of the document before stand while room is made
PinsBefore == pinned
Pins == Needs[prefetch.doc]
PrefetchEnds(max) ==
    /\ prefetch.doc # "none" /\ prefetch.todo = {} /\ pinned' = Needs[prefetch.doc]
    /\ prefetch' = [doc |-> "none", todo |-> {}, missing |-> {}]
    /\ LET made == Evicted(disk, Pins, ceiling) IN
       IF prefetch.missing = {}
       THEN /\ served' = prefetch.doc /\ complete' = TRUE /\ ceiling' = max
            /\ disk' = Evicted(made, pinned', max)
       ELSE disk' = made /\ complete' = FALSE /\ UNCHANGED <<served, ceiling>>
    /\ memory' = InMemory(disk')
(* loadFromCache: the document comes back, the pins do not. *)
RestartGateway ==
    /\ memory' = {} /\ pinned' = {} /\ complete' = FALSE
    /\ prefetch' = [doc |-> "none", todo |-> {}, missing |-> {}]
    /\ \E order \in [DOMAIN disk -> Range(disk)] :
          /\ Range(order) = Range(disk) /\ disk' = Evicted(order, {}, ceiling)
    /\ UNCHANGED <<ceiling, served>>
Damage(a) ==
    /\ a \in OnDisk /\ disk' = [disk EXCEPT ![File(a)].good = FALSE]
    /\ UNCHANGED <<memory, pinned, ceiling, served, complete, prefetch>>

ArtifactInit ==
    /\ disk = <<>> /\ memory = {} /\ pinned = {} /\ ceiling \in Ceilings /\ served = "none" /\ complete = FALSE
    /\ prefetch = [doc |-> "none", todo |-> {}, missing |-> {}]
ArtifactNext ==
    /\ \/ \E d \in Documents : Offer(d) \/ (\E a \in Needs[d] : Validate(a) \/ PrefetchOne(a) \/ Damage(a))
       \/ \E max \in Ceilings : PrefetchEnds(max)
       \/ RestartGateway
    /\ UNCHANGED <<jwksVars, introVars, tokenVars, logVars>>

-----------------------------------------------------------------------------
(* The access log: files[n] is access.log.n, current the file written to;  *)
(* lines are numbered.                                                     *)
MaxKeep == Max(Keeps)
(* rotate: from the oldest down to from, each file takes the next name.    *)
Shifted(fs, from) ==
    [n \in DOMAIN fs |-> CASE n = from -> <<>> [] n \in (from + 1)..keep -> fs[n - 1] [] OTHER -> fs[n]]
(* A step that fails leaves the rest, and the current file, where they     *)
(* were; the file is opened again in any case.                             *)
\* mutant: opened for writing rather than appending
RotatedAfresh(fs, cur, from, done) ==
    [fs |-> IF done THEN [Shifted(fs, 1) EXCEPT ![1] = cur] ELSE Shifted(fs, from), cur |-> <<>>]
Rotated(fs, cur, from, done) ==
    IF done THEN [fs |-> [Shifted(fs, 1) EXCEPT ![1] = cur], cur |-> <<>>]
    ELSE [fs |-> Shifted(fs, from), cur |-> cur]
(* flush: a write that fails drops the buffer; a file over its size is     *)
(* rotated.                                                                *)
Flushed(lines, ok) ==
    IF ~ok THEN /\ dropped' = dropped \cup Range(lines) /\ UNCHANGED <<files, current>>
    ELSE /\ UNCHANGED dropped
         /\ IF Len(current \o lines) < LogMax THEN current' = current \o lines /\ UNCHANGED files
            ELSE \E from \in 1..keep, done \in BOOLEAN :
                    LET r == Rotated(files, current \o lines, from, done) IN files' = r.fs /\ current' = r.cur
(* write, on every request; the buffer is flushed at its high water mark. *)
WriteLine ==
    /\ written < MaxLines /\ written' = written + 1
    /\ IF Len(unflushed) + 1 >= HighWater
       THEN unflushed' = <<>> /\ \E ok \in BOOLEAN : Flushed(Append(unflushed, written'), ok)
       ELSE unflushed' = Append(unflushed, written') /\ UNCHANGED <<files, current, dropped>>
    /\ UNCHANGED <<keep, lowered>>
(* The interval, and close when the log is switched off or the gateway     *)
(* stops; opening it again finds the same file.                            *)
Flush ==
    /\ unflushed # <<>> /\ unflushed' = <<>> /\ \E ok \in BOOLEAN : Flushed(unflushed, ok)
    /\ UNCHANGED <<keep, written, lowered>>
Kill == unflushed # <<>> /\ unflushed' = <<>> /\ dropped' = dropped \cup Range(unflushed) /\ UNCHANGED <<files, current, keep, written, lowered>>
ResizeLog(k) ==
    /\ k # keep /\ keep' = k /\ lowered' = (lowered \/ k < keep)
    /\ UNCHANGED <<files, current, unflushed, written, dropped>>

LogInit ==
    /\ files = [n \in 1..MaxKeep |-> <<>>] /\ current = <<>> /\ unflushed = <<>> /\ keep \in Keeps
    /\ written = 0 /\ dropped = {} /\ lowered = FALSE
LogNext ==
    /\ WriteLine \/ Flush \/ Kill \/ \E k \in Keeps : ResizeLog(k)
    /\ UNCHANGED <<jwksVars, introVars, tokenVars, artifactVars>>

EdgeInit == JwksInit /\ IntroInit /\ TokenInit /\ ArtifactInit /\ LogInit
EdgeNext == JwksNext \/ IntroNext \/ TokenNext \/ ArtifactNext \/ LogNext
EdgeSpec == EdgeInit /\ [][EdgeNext]_evars

-----------------------------------------------------------------------------
(* A token whose key the issuer publishes for good, and that is otherwise  *)
(* in order, is in time accepted for good, whatever other keys are asked   *)
(* for meanwhile and although an answer may predate the rotation ("a       *)
(* rotated key is picked up without a restart", shared/jwt.ts).            *)
RotationHeals ==
    \A t \in Presented : <>[](t.kid \in published) /\ Claims(t) = "ok" => <>[](verdict[t] = "ok")

(* No token is admitted longer after it was revoked than the longest TTL   *)
(* and one request's timeout, whichever routes share the cached answer,    *)
(* however often it is hit and whatever is evicted beside it.              *)
RevokedLapses == \A ttl \in Units : lag[ttl] <= Timeout + Max(Units)
(* The TTL "bounds revocation lag, which is stated in the UI beside the    *)
(* field" (identity.ts:202), for the route it is set on.                   *)
LagIsTheRoutes == \A ttl \in Units : lag[ttl] <= Timeout + ttl

(* A backend token is never presented after the provider's own expiry when *)
(* the skew covers the time an answer takes.                               *)
TokenStillValid == ~overdue

(* No validator was read from a file without its digest, and while the     *)
(* document served is the one prefetched last, all of its validators are   *)
(* on the volume, whatever the ceiling.                                    *)
ValidatorsSound ==
    /\ \A m \in memory : m.good
    /\ complete => Needs[served] \subseteq OnDisk
(* "Pinned entries - the ones the current configuration references - are   *)
(* never evicted" (artifacts.ts:299).                                      *)
ActiveIsKept == [][served # "none" /\ served' = served /\ (\A i \in DOMAIN disk : disk[i].good)
                     => Needs[served] \cap OnDisk \subseteq OnDisk']_evars

(* The log from its newest part to its oldest: what is not yet written,    *)
(* the current file, access.log.1 and so on.                               *)
Parts == -1..MaxKeep
Part(n) == IF n = -1 THEN unflushed ELSE IF n = 0 THEN current ELSE files[n]
Logged == UNION {Range(Part(n)) : n \in Parts}
(* From the oldest line on disk on, every line is on disk, in the order of *)
(* the files, or in the buffer, or was reported lost, unless keep was ever *)
(* lowered; failed rotations included.                                     *)
LogIsWhole ==
    /\ \A n \in Parts : \A i, j \in DOMAIN Part(n) : i < j => Part(n)[i] < Part(n)[j]
    /\ \A n, m \in Parts : n < m => \A x \in Range(Part(n)), y \in Range(Part(m)) : y < x
    /\ ~lowered => \A x \in Logged : x..written \subseteq Logged \cup dropped

(* What the edge keeps for later - an answer about a token, a token for a  *)
(* backend, a validator - is still good when it is used.                   *)
KeptIsGood == RevokedLapses /\ TokenStillValid /\ ValidatorsSound
=============================================================================
