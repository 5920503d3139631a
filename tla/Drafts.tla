------------------------------- MODULE Drafts -------------------------------
(***************************************************************************)
(* An API before and behind its releases: the resource row and its         *)
(* address, the revisions, the validation bundles compiled from them, and  *)
(* the retention that empties them (control-plane/src/api/resources.ts,    *)
(* api/common.ts, artifacts.ts, retention.ts).  A handler that waits for   *)
(* its body, a fetch or a discovery is two actions; what it read before    *)
(* the wait travels in its request.  One environment stands for each; a    *)
(* definition is known by its digest.                                      *)
(***************************************************************************)
EXTENDS Naturals, Sequences, FiniteSets, SequencesExt

CONSTANTS
    Apis, First,      \* resource ids; the one that exists at the start
    Applications,
    Versions,         \* apiVersion, which is also the last segment of a path
    Domains,
    Texts,            \* what PATCH may write beside the address
    Definitions,      \* definitions somebody may upload, by digest
    BundleOf,         \* the bundle compiled from each, "" when it has no schema
    Drafters,         \* slots for requests that are waiting
    KeepCount,        \* REVISION_KEEP_COUNT
    MaxRevisions, MaxReleases, MaxDrafts \* bounds

ASSUME DraftsAssumption ==
    /\ First \in Apis
    /\ {KeepCount, MaxRevisions} \subseteq Nat \ {0} /\ {MaxReleases, MaxDrafts} \subseteq Nat
    /\ {} \notin {Applications, Versions, Domains, Texts, Definitions}
    /\ DOMAIN BundleOf = Definitions /\ "empty" \notin Definitions

VARIABLES
    api,       \* resource rows
    route,     \* resource -> its address, or NoRoute
    revision,  \* resource -> its revisions, oldest first
    bundle,    \* the artifact table, by digest
    release,   \* resource -> its releases, oldest first
    planned,   \* revisions a live release plan names
    queued,    \* revisions an unfinished operation's snapshot names
    draft,     \* slot -> what a waiting request holds
    drafted    \* requests begun so far

dvars == <<api, route, revision, bundle, release, planned, queued, draft, drafted>>

-----------------------------------------------------------------------------
Empty == "empty"      \* model = '' after pruning
Unset == "unset"      \* artifact_digest IS NULL: not compiled yet
NoRoute == [domain |-> "none", tail |-> "none"]
Waiting == [op |-> "none"]
Live == {"pending", "converged"}
Reached == {"converged", "superseded", "withdrawn"}

ApiRow == [known : BOOLEAN, owner : Applications, version : Versions,
           domain : Domains, text : Texts]
Revision == [digest : Definitions, body : Definitions \cup {Empty},
             bundle : {BundleOf[d] : d \in Definitions} \cup {Unset, ""},
             frozen : BOOLEAN, pruned : BOOLEAN, old : BOOLEAN]

DraftsTypeOK ==
    /\ api \in [Apis -> ApiRow]
    /\ route \in [Apis -> {NoRoute} \cup [domain : Domains, tail : Versions]]
    /\ \A a \in Apis : /\ \A n \in DOMAIN revision[a] : revision[a][n] \in Revision
                       /\ \A n \in DOMAIN release[a] :
                             release[a][n].rev \in DOMAIN revision[a]
    /\ bundle \subseteq {BundleOf[d] : d \in Definitions} \ {""}

Fresh(d, b) == [digest |-> d, body |-> d, bundle |-> b, frozen |-> FALSE,
                pruned |-> FALSE, old |-> FALSE]
AnyOf(S) == CHOOSE x \in S : TRUE

(* A database migrated from v2 holds a revision whose bundle is not        *)
(* compiled yet; a new one starts with none.                               *)
DraftsInit ==
    /\ api = [a \in Apis |-> [known |-> a = First, owner |-> AnyOf(Applications),
                              version |-> AnyOf(Versions), domain |-> AnyOf(Domains),
                              text |-> AnyOf(Texts)]]
    /\ route = [a \in Apis |-> NoRoute]
    /\ \E first \in {<<>>, <<[Fresh(AnyOf(Definitions), Unset) EXCEPT !.old = TRUE]>>} :
          revision = [a \in Apis |-> IF a = First THEN first ELSE <<>>]
    /\ bundle = {} /\ release = [a \in Apis |-> <<>>]
    /\ planned = {} /\ queued = {}
    /\ draft = [r \in Drafters |-> Waiting] /\ drafted = 0

-----------------------------------------------------------------------------
Begin(r, held) ==
    /\ draft[r] = Waiting /\ drafted < MaxDrafts
    /\ drafted' = drafted + 1
    /\ draft' = [draft EXCEPT ![r] = held]
    /\ UNCHANGED <<api, route, revision, bundle, release, planned, queued>>
Done(r) == draft' = [draft EXCEPT ![r] = Waiting] /\ UNCHANGED drafted
Refuse(r) == Done(r) /\ UNCHANGED <<api, route, revision, bundle, release, planned, queued>>

(* UNIQUE(application_id, name, api_version); one family, so one name.     *)
Taken(a, owner, version) ==
    \E b \in Apis \ {a} : api[b].known /\ api[b].owner = owner /\ api[b].version = version
(* UNIQUE(environment, host, base_path). *)
Occupied(a, at) == \E b \in Apis \ {a} : route[b] = at

(* POST /api/resources. *)
CreateApi(a, owner, version, domain) ==
    /\ ~api[a].known /\ revision[a] = <<>> /\ ~Taken(a, owner, version)
    /\ drafted < MaxDrafts /\ drafted' = drafted + 1
    /\ api' = [api EXCEPT ![a] = [known |-> TRUE, owner |-> owner, version |-> version,
                                  domain |-> domain, text |-> AnyOf(Texts)]]
    /\ UNCHANGED <<route, revision, bundle, release, planned, queued, draft>>

(* PATCH /api/resources/:id.  assertIfMatch compares with the row read     *)
(* before the body arrives, and every column the body leaves out is        *)
(* written back from that row.                                             *)
PatchBegin(r, a) == api[a].known /\ Begin(r, [op |-> "patch", a |-> a, row |-> api[a]])
PatchEnd(r) ==
    /\ draft[r].op = "patch"
    /\ LET a == draft[r].a
           row == draft[r].row
       IN \E version \in Versions, domain \in Domains, text \in Texts :
          IF \/ domain # row.domain /\ route[a] # NoRoute
             \/ Taken(a, api[a].owner, version)
          THEN Refuse(r)
          ELSE /\ api' = [api EXCEPT ![a] = [@ EXCEPT !.version = version,
                                             !.domain = domain, !.text = text]]
               /\ Done(r)
               /\ UNCHANGED <<route, revision, bundle, release, planned, queued>>

(* PUT /api/resources/:id/routes: under the domain of the row read before  *)
(* the body.                                                               *)
RouteBegin(r, a) == api[a].known /\ Begin(r, [op |-> "route", a |-> a, row |-> api[a]])
RouteEnd(r, tail) ==
    /\ draft[r].op = "route"
    /\ LET a == draft[r].a
           at == [domain |-> draft[r].row.domain, tail |-> tail]
       IN IF draft[r].row.domain = "none" \/ Occupied(a, at) THEN Refuse(r)
          ELSE /\ route' = [route EXCEPT ![a] = at]
               /\ Done(r) /\ UNCHANGED <<api, revision, bundle, release, planned, queued>>

-----------------------------------------------------------------------------
(* Where a definition comes from (revisionSource): uploaded, fetched or    *)
(* discovered, all after the row was read, and refused when it does not    *)
(* parse as the resource's kind.                                           *)
Latest(a) == revision[a][Len(revision[a])]
Id(a, n) == <<a, n>>

(* compileAndStore is content addressed: a definition without a schema     *)
(* stores nothing and its revision carries the empty digest.               *)
Stored(d) == bundle \cup ({BundleOf[d]} \ {""})

(* writeRevision.  The latest revision is read here, after every wait, and *)
(* a definition with its digest adds nothing.                              *)
WriteRevision(a, d) ==
    IF revision[a] # <<>> /\ Latest(a).digest = d
    THEN UNCHANGED <<revision, bundle>>
    ELSE /\ bundle' = Stored(d)
         /\ revision' = [revision EXCEPT ![a] = Append(@, Fresh(d, BundleOf[d]))]

UploadBegin(r, a) == api[a].known /\ Begin(r, [op |-> "upload", a |-> a])
UploadEnd(r) ==
    /\ draft[r].op = "upload"
    /\ LET a == draft[r].a
       IN \/ Refuse(r)
          \/ /\ Len(revision[a]) < MaxRevisions
             /\ \E d \in Definitions : WriteRevision(a, d)
             /\ Done(r) /\ UNCHANGED <<api, route, release, planned, queued>>

(* PUT /api/revisions/:id/spec.  What was checked before the waits is      *)
(* checked again by the statement that writes.                             *)
Fixed(rev) == rev.pruned \/ rev.frozen
CorrectBegin(r, a, n) ==
    /\ n \in DOMAIN revision[a] /\ ~Fixed(revision[a][n])
    /\ Begin(r, [op |-> "correct", a |-> a, n |-> n, digest |-> revision[a][n].digest])
StillSameDigest(rev, held) == rev.digest = held \* mutant: the UPDATE forgets frozen_at
StillCorrectable(rev, held) == ~Fixed(rev) /\ rev.digest = held
CorrectEnd(r) ==
    /\ draft[r].op = "correct"
    /\ LET a == draft[r].a
           n == draft[r].n
       IN \E d \in Definitions :
          IF d = draft[r].digest THEN Refuse(r)
          ELSE /\ bundle' = Stored(d)
               /\ IF StillCorrectable(revision[a][n], draft[r].digest)
                  THEN revision' = [revision EXCEPT ![a][n] =
                              [@ EXCEPT !.digest = d, !.body = d, !.bundle = BundleOf[d]]]
                  ELSE UNCHANGED revision
               /\ Done(r) /\ UNCHANGED <<api, route, release, planned, queued>>

(* POST /api/resources/:id/versions: the row is the one read before the    *)
(* body, the revision copied is the latest one now, whatever is left of    *)
(* it, and an address already taken is skipped.                            *)
VersionBegin(r, a) == api[a].known /\ Begin(r, [op |-> "version", a |-> a, row |-> api[a]])
VersionEnd(r, b, version) ==
    /\ draft[r].op = "version"
    /\ LET a == draft[r].a
           row == draft[r].row
           at == [domain |-> row.domain, tail |-> version]
       IN IF \/ version = row.version \/ revision[a] = <<>>
             \/ Taken(b, row.owner, version)
          THEN Refuse(r)
          ELSE /\ ~api[b].known
               /\ api' = [api EXCEPT ![b] = [row EXCEPT !.version = version]]
               /\ revision' = [revision EXCEPT ![b] =
                     <<[Fresh(Latest(a).digest, Latest(a).bundle) EXCEPT !.body = Latest(a).body]>>]
               /\ \/ UNCHANGED route
                  \/ /\ route[a] # NoRoute /\ ~Occupied(b, at)
                     /\ route' = [route EXCEPT ![b] = at]
               /\ Done(r) /\ UNCHANGED <<bundle, release, planned, queued>>

-----------------------------------------------------------------------------
(* What keeps a revision alive.  revisionFor refuses a tombstone; queue    *)
(* and POST releases freeze what they name.                                *)
Freeze(a, n) == [revision EXCEPT ![a][n].frozen = TRUE]
PlanRelease(a, n) ==
    /\ n \in DOMAIN revision[a] /\ ~revision[a][n].pruned
    /\ planned' = planned \cup {Id(a, n)}
    /\ UNCHANGED <<api, route, revision, bundle, release, queued, draft, drafted>>
PlanLapses ==
    /\ planned # {} /\ planned' = {}
    /\ UNCHANGED <<api, route, revision, bundle, release, queued, draft, drafted>>
ReleaseRevision(a, n) ==
    /\ n \in DOMAIN revision[a] /\ ~revision[a][n].pruned
    /\ Len(release[a]) < MaxReleases
    /\ release' = [release EXCEPT ![a] = Append(@, [rev |-> n, state |-> "pending"])]
    /\ revision' = Freeze(a, n)
    /\ UNCHANGED <<api, route, bundle, planned, queued, draft, drafted>>

(* The reconciler: the newest release converges and supersedes, fails, or  *)
(* is withdrawn.                                                           *)
Supersede(list) == [k \in DOMAIN list |->
    IF list[k].state = "converged" THEN [list[k] EXCEPT !.state = "superseded"] ELSE list[k]]
Reconcile(a) ==
    /\ \E k \in DOMAIN release[a] :
          \/ /\ release[a][k].state = "pending"
             /\ \/ release' = [release EXCEPT ![a] =
                      [Supersede(@) EXCEPT ![k].state = "converged"]]
                \/ release' = [release EXCEPT ![a][k].state = "failed"]
          \/ /\ release[a][k].state = "converged"
             /\ release' = [release EXCEPT ![a][k].state = "withdrawn"]
    /\ UNCHANGED <<api, route, revision, bundle, planned, queued, draft, drafted>>

(* PUT configuration: the definition, when the body carries one, goes      *)
(* through writeRevision, and the operation names the revision that is     *)
(* then the latest; without one it names the live release's.               *)
Configure(a, n) ==
    /\ \E k \in DOMAIN release[a] : release[a][k].state = "converged"
    /\ drafted < MaxDrafts /\ drafted' = drafted + 1
    /\ \/ /\ \E k \in DOMAIN release[a] : release[a][k].state = "converged" /\ release[a][k].rev = n
          /\ UNCHANGED bundle /\ revision' = Freeze(a, n)
       \/ \E d \in Definitions :
             LET again == Latest(a).digest = d
                 after == IF again THEN revision[a] ELSE Append(revision[a], Fresh(d, BundleOf[d]))
             IN /\ Len(after) <= MaxRevisions /\ n = Len(after)
                /\ bundle' = IF again THEN bundle ELSE Stored(d)
                /\ revision' = [revision EXCEPT ![a] = [after EXCEPT ![n].frozen = TRUE]]
    /\ queued' = queued \cup {Id(a, n)}
    /\ UNCHANGED <<api, route, release, planned, draft>>
(* applyOperation, or the supersession of one that waits. *)
Apply(a, n) ==
    /\ Id(a, n) \in queued /\ queued' = queued \ {Id(a, n)}
    /\ \/ UNCHANGED release
       \/ /\ Len(release[a]) < MaxReleases
          /\ release' = [release EXCEPT ![a] =
                Append(Supersede(@), [rev |-> n, state |-> "converged"])]
    /\ UNCHANGED <<api, route, revision, bundle, planned, draft, drafted>>

-----------------------------------------------------------------------------
(* prunableRevisions. *)
Rank(a, n) == Cardinality({m \in DOMAIN revision[a] : m >= n /\ ~revision[a][m].pruned})
Recency(a, k) == Cardinality({m \in DOMAIN release[a] : m >= k /\ release[a][m].state \in Reached})
\* mutant: the live one only
RecentOne(a) == {release[a][k].rev : k \in
    {k \in DOMAIN release[a] : release[a][k].state \in Reached /\ Recency(a, k) <= 1}}
Recent(a) == {release[a][k].rev : k \in
    {k \in DOMAIN release[a] : release[a][k].state \in Reached /\ Recency(a, k) <= 2}}
Needed(a, n) ==
    \/ n \in Recent(a)
    \/ \E k \in DOMAIN release[a] : release[a][k].rev = n /\ release[a][k].state \in Live
    \/ Id(a, n) \in planned \/ Id(a, n) \in queued
Prunable(a) == {n \in DOMAIN revision[a] : /\ ~revision[a][n].pruned
                                           /\ Rank(a, n) > KeepCount \/ revision[a][n].old
                                           /\ ~Needed(a, n)}

(* pruneRevisions: tombstones first, then the bundles no other row names.  *)
ReferencesFrozen(revs) == {revs[q[1]][q[2]].bundle : q \in \* mutant: counts released rows only
    {p \in Apis \X (1..MaxRevisions) : p[2] \in DOMAIN revs[p[1]] /\ revs[p[1]][p[2]].frozen}}
References(revs) == {revs[q[1]][q[2]].bundle : q \in
    {p \in Apis \X (1..MaxRevisions) : p[2] \in DOMAIN revs[p[1]] /\ ~revs[p[1]][p[2]].pruned}}
PruneRevisions ==
    /\ \E a \in Apis : Prunable(a) # {}
    /\ revision' = [a \in Apis |-> [n \in DOMAIN revision[a] |->
          IF n \in Prunable(a) THEN [revision[a][n] EXCEPT !.body = Empty, !.pruned = TRUE]
          ELSE revision[a][n]]]
    /\ bundle' = bundle \cap References(revision')
    /\ UNCHANGED <<api, route, release, planned, queued, draft, drafted>>
KeepDaysPass ==
    /\ \E a \in Apis : \E n \in DOMAIN revision[a] : ~revision[a][n].old
    /\ revision' = [a \in Apis |-> [n \in DOMAIN revision[a] |->
                                       [revision[a][n] EXCEPT !.old = TRUE]]]
    /\ UNCHANGED <<api, route, bundle, release, planned, queued, draft, drafted>>

(* compileMissingArtifacts: every revision that is not a tombstone and has *)
(* no bundle yet, the definition that cannot be compiled included.         *)
CompileMissing ==
    LET todo == {p \in Apis \X (1..MaxRevisions) :
                    /\ p[2] \in DOMAIN revision[p[1]] /\ ~revision[p[1]][p[2]].pruned
                    /\ revision[p[1]][p[2]].bundle = Unset}
        made(p) == IF revision[p[1]][p[2]].body = Empty THEN "" ELSE BundleOf[revision[p[1]][p[2]].body]
    IN /\ todo # {}
       /\ revision' = [a \in Apis |-> [n \in DOMAIN revision[a] |->
             IF <<a, n>> \in todo THEN [revision[a][n] EXCEPT !.bundle = made(<<a, n>>)]
             ELSE revision[a][n]]]
       /\ bundle' = bundle \cup ({made(p) : p \in todo} \ {""})
       /\ UNCHANGED <<api, route, release, planned, queued, draft, drafted>>

-----------------------------------------------------------------------------
(* The row and its address; its revisions; what retention does to both.    *)
AddressNext ==
    \/ \E a \in Apis, o \in Applications, v \in Versions, d \in Domains : CreateApi(a, o, v, d)
    \/ \E r \in Drafters, a \in Apis : PatchBegin(r, a) \/ RouteBegin(r, a) \/ VersionBegin(r, a)
    \/ \E r \in Drafters, v \in Versions : PatchEnd(r) \/ RouteEnd(r, v)
    \/ \E r \in Drafters, b \in Apis, v \in Versions : VersionEnd(r, b, v)
RevisionNext ==
    \/ \E r \in Drafters, a \in Apis : UploadBegin(r, a)
    \/ \E r \in Drafters, a \in Apis, n \in 1..MaxRevisions : CorrectBegin(r, a, n)
    \/ \E r \in Drafters : UploadEnd(r) \/ CorrectEnd(r)
    \/ \E a \in Apis, n \in 1..MaxRevisions :
          PlanRelease(a, n) \/ ReleaseRevision(a, n) \/ Configure(a, n) \/ Apply(a, n)
    \/ \E a \in Apis : Reconcile(a)
    \/ PlanLapses
RetentionNext == PruneRevisions \/ KeepDaysPass \/ CompileMissing

DraftsSpec == DraftsInit /\ [][AddressNext \/ RevisionNext \/ RetentionNext]_dvars

-----------------------------------------------------------------------------
(* A revision that has been released, or queued for publishing, keeps the  *)
(* definition somebody confirmed: no correction that began earlier changes *)
(* it, and pruning only empties it.                                        *)
FrozenStands ==
    [][\A a \in Apis : \A n \in DOMAIN revision[a] :
          revision[a][n].frozen =>
             /\ revision'[a][n].frozen /\ revision'[a][n].digest = revision[a][n].digest
             /\ revision'[a][n].body \in {revision[a][n].body, Empty}]_dvars

(* Retention never empties the revision an environment serves, the one a   *)
(* rollback would return to, or one that a release, a live plan or an      *)
(* unfinished operation will still publish.                                *)
RollbackTarget(a) == {n \in DOMAIN revision[a] : \E k \in DOMAIN release[a] :
    /\ release[a][k].rev = n /\ release[a][k].state \in Reached
    /\ ~\E i, j \in DOMAIN release[a] :
          k < i /\ i < j /\ {release[a][i].state, release[a][j].state} \subseteq Reached}
PruningSparesNeeded ==
    [][\A a \in Apis : \A n \in DOMAIN revision[a] :
          revision'[a][n].body = Empty /\ revision[a][n].body # Empty =>
             /\ n \notin RollbackTarget(a)
             /\ Id(a, n) \notin planned \cup queued
             /\ \A k \in DOMAIN release[a] :
                   release[a][k].rev = n => release[a][k].state \in {"failed"} \cup Reached]_dvars

(* Every bundle that the revision of a release in force names is stored,   *)
(* so that the gateways can fetch it.                                      *)
BundlesKept ==
    \A a \in Apis : \A n \in DOMAIN revision[a] :
       revision[a][n].body # Empty /\ ~revision[a][n].pruned
       /\ revision[a][n].bundle \notin {"", Unset} => revision[a][n].bundle \in bundle

(* So what was confirmed is what can be served and gone back to, and the   *)
(* validators compiled from it are there.                                  *)
RevisionsStand == FrozenStands /\ PruningSparesNeeded /\ [](DraftsTypeOK /\ BundlesKept)

(* What is released, or queued to be, still has a definition: a gateway    *)
(* never serves a route with no operations.                                *)
PublishedHasDefinition ==
    \A a \in Apis :
       /\ \A k \in DOMAIN release[a] :
             release[a][k].state \in Live => revision[a][release[a][k].rev].body # Empty
       /\ \A n \in DOMAIN revision[a] : Id(a, n) \in queued => revision[a][n].body # Empty
=============================================================================
