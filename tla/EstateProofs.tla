---------------------------- MODULE EstateProofs ----------------------------
(***************************************************************************)
(* Proofs about the estate, a section each: what a gateway may reach and   *)
(* how it proves it (Trust), the two tiers of policy (Policy), revisions   *)
(* and their retention (Drafts), and the list of what is wrong with an API *)
(* (Attention).  The specification of each lets every subject of its run   *)
(* be edited at the same time, over any number of APIs, anchors,           *)
(* exceptions, rules, documents and requests.                              *)
(***************************************************************************)
EXTENDS Attention, Trust, FiniteSetTheorems, SequenceTheorems, WellFoundedInduction, TLAPS

(* A nonempty set of naturals has a least member.                          *)
LEMMA LeastNat ==
    ASSUME NEW T \in SUBSET Nat, T # {}
    PROVE  \E m \in T : \A n \in T : m <= n
  <1> DEFINE R == OpToRel(<, Nat)
  <1>1. IsWellFoundedOn(R, Nat)
    BY NatLessThanWellFounded
  <1>2. \A x, y \in Nat : y < x => <<y, x>> \in R
    BY DEF OpToRel
  <1> HIDE DEF R
  <1>3. PICK x \in T : \A y \in T : ~(<<y, x>> \in R)
    BY <1>1, WFMin
  <1>4. ASSUME NEW n \in T PROVE x <= n
    <2>1. x \in Nat /\ n \in Nat
      OBVIOUS
    <2>2. ~(n < x)
      BY <1>2, <1>3, <2>1
    <2> QED BY <2>1, <2>2
  <1> QED BY <1>4

-----------------------------------------------------------------------------
(* Trust.  The rows are shaped, and each cache is what it was filled from  *)
(* for as long as it is used: the control plane's bundle and a gateway's   *)
(* hold the anchors in force and end no later than the first of them, the  *)
(* cached rules are the live rows, and an exception a document carries has *)
(* a row that ends with it.                                                *)
AnchorRow == [env : {Home, Away}, thumb : {pem.thumb : pem \in Pems}, until : Nat, removed : BOOLEAN]
ExceptionRow == [api : TrustApis, backend : {"all"} \cup {b.name : b \in Backends}, mode : Modes,
                 until : Nat, revoked : BOOLEAN]
InForce == {n \in DOMAIN anchor : LiveRow(anchor[n]) /\ anchor[n].until > day}
Carried == {a \in document.anchors : a.until > day}

RowsShaped ==
    /\ day \in Nat /\ anchor \in Seq(AnchorRow) /\ exception \in Seq(ExceptionRow)
    /\ \A a \in document.anchors : a.until \in Nat
    /\ cpBundle.until \in Nat /\ trust.until \in Nat
PortalBundleFresh ==
    cpBundle # NoCache /\ cpBundle.until > day =>
        /\ cpBundle.pems = {anchor[n].thumb : n \in InForce}
        /\ \A n \in InForce : cpBundle.until <= anchor[n].until
GatewayBundleFresh ==
    day < trust.until =>
        /\ trust.pems = {a.thumb : a \in Carried}
        /\ \A a \in Carried : trust.until <= a.until
RulesFresh == ruleCache.filled => ruleCache.rules = LiveRules
ExceptionsHaveRows ==
    \A a \in TrustApis :
        document.tls[a].mode # "verify" =>
            \E n \in DOMAIN exception :
                exception[n].api = a /\ exception[n].until = document.tls[a].until
TInv == RowsShaped /\ PortalBundleFresh /\ GatewayBundleFresh /\ RulesFresh /\ ExceptionsHaveRows

(* What Smallest picks.                                                    *)
LEMMA SmallestIsLeast ==
    ASSUME NEW S \in SUBSET Nat, S # {}, NEW otherwise
    PROVE  /\ Smallest(S, otherwise) \in S
           /\ \A y \in S : Smallest(S, otherwise) <= y
  <1>1. \E x \in S : \A y \in S : x <= y
    BY LeastNat
  <1> QED BY <1>1 DEF Smallest

(* A composed bundle holds what it was composed from and ends with the     *)
(* first of it.                                                            *)
LEMMA ComposedEnds ==
    ASSUME NEW live, \A a \in live : a.until \in Nat, NEW until \in Nat
    PROVE  /\ Composed(live, until).pems = {a.thumb : a \in live}
           /\ Composed(live, until).until \in Nat
           /\ \A a \in live : Composed(live, until).until <= a.until
  <1> DEFINE S == {a.until : a \in live} \cup {until}
  <1>1. S \in SUBSET Nat /\ S # {}
    OBVIOUS
  <1>2. \A a \in live : a.until \in S
    OBVIOUS
  <1>3. Composed(live, until).until = Smallest(S, until)
    BY DEF Composed
  <1>4. Composed(live, until).pems = {a.thumb : a \in live}
    BY DEF Composed
  <1> HIDE DEF S
  <1>5. Smallest(S, until) \in S /\ \A y \in S : Smallest(S, until) <= y
    BY <1>1, SmallestIsLeast
  <1> QED BY <1>1, <1>2, <1>3, <1>4, <1>5

(* A row of either table is in shape.                                      *)
LEMMA RowsInShape ==
    ASSUME RowsShaped
    PROVE  /\ \A n \in DOMAIN anchor : anchor[n] \in AnchorRow
           /\ \A n \in DOMAIN exception : exception[n] \in ExceptionRow
  <1>1. /\ \A n \in 1..Len(anchor) : anchor[n] \in AnchorRow
        /\ \A n \in 1..Len(exception) : exception[n] \in ExceptionRow
    BY DEF RowsShaped
  <1>2. DOMAIN anchor = 1..Len(anchor) /\ DOMAIN exception = 1..Len(exception)
    BY DEF RowsShaped
  <1> QED BY <1>1, <1>2

(* The anchors of both environments are all there are.                     *)
LEMMA AnchorsOfBoth ==
    ASSUME RowsShaped
    PROVE  /\ ListedAnchors(Home) \cup ListedAnchors(Away) = {anchor[n].thumb : n \in InForce}
           /\ {a.thumb : a \in LiveAnchorsFor(Home) \cup LiveAnchorsFor(Away)}
                = {anchor[n].thumb : n \in InForce}
           /\ \A a \in LiveAnchorsFor(Home) \cup LiveAnchorsFor(Away) : a.until \in Nat
           /\ \A n \in InForce : \E a \in LiveAnchorsFor(Home) \cup LiveAnchorsFor(Away) :
                 a.until = anchor[n].until
  <1>1. \A n \in DOMAIN anchor : anchor[n].env \in {Home, Away} /\ anchor[n].until \in Nat
    BY RowsInShape DEF AnchorRow
  <1>2. InForce = {n \in AnchorsIn(Home) : anchor[n].until > day}
                  \cup {n \in AnchorsIn(Away) : anchor[n].until > day}
    BY <1>1 DEF InForce, AnchorsIn
  <1>3. \A env : {n \in AnchorsIn(env) : AnchorView(n)} = {n \in AnchorsIn(env) : anchor[n].until > day}
    BY DEF AnchorsIn, AnchorView
  <1>4. ListedAnchors(Home) \cup ListedAnchors(Away) = {anchor[n].thumb : n \in InForce}
    BY <1>2, <1>3 DEF ListedAnchors
  <1>5. \A env : \A a \in LiveAnchorsFor(env) : \E n \in AnchorsIn(env) :
           anchor[n].until > day /\ a.thumb = anchor[n].thumb /\ a.until = anchor[n].until
    BY DEF LiveAnchorsFor
  <1>6. \A env : \A n \in AnchorsIn(env) : anchor[n].until > day =>
           \E a \in LiveAnchorsFor(env) : a.thumb = anchor[n].thumb /\ a.until = anchor[n].until
    <2> SUFFICES ASSUME NEW env, NEW n \in AnchorsIn(env), anchor[n].until > day
                 PROVE  \E a \in LiveAnchorsFor(env) :
                           a.thumb = anchor[n].thumb /\ a.until = anchor[n].until
      OBVIOUS
    <2>1. PICK a : a = [thumb |-> anchor[n].thumb, until |-> anchor[n].until]
      OBVIOUS
    <2>2. a \in LiveAnchorsFor(env)
      BY <2>1 DEF LiveAnchorsFor
    <2> QED BY <2>1, <2>2
  <1>7. \A a \in LiveAnchorsFor(Home) \cup LiveAnchorsFor(Away) :
           \E n \in InForce : a.thumb = anchor[n].thumb /\ a.until = anchor[n].until
    BY <1>2, <1>5
  <1>8. \A n \in InForce : \E a \in LiveAnchorsFor(Home) \cup LiveAnchorsFor(Away) :
           a.thumb = anchor[n].thumb /\ a.until = anchor[n].until
    BY <1>2, <1>6
  <1>9. \A n \in InForce : n \in DOMAIN anchor
    BY DEF InForce
  <1>10. {a.thumb : a \in LiveAnchorsFor(Home) \cup LiveAnchorsFor(Away)} = {anchor[n].thumb : n \in InForce}
    BY <1>7, <1>8
  <1> QED BY <1>1, <1>4, <1>7, <1>8, <1>9, <1>10

(* Both bundles are what the invariant says they are when they are asked   *)
(* for.                                                                    *)
LEMMA PortalBundleNow ==
    ASSUME TInv
    PROVE  /\ CachedBundle(cpBundle).pems = {anchor[n].thumb : n \in InForce}
           /\ CachedBundle(cpBundle).until \in Nat
           /\ \A n \in InForce : CachedBundle(cpBundle).until <= anchor[n].until
  <1> DEFINE live == LiveAnchorsFor(Home) \cup LiveAnchorsFor(Away)
  <1>1. RowsShaped /\ PortalBundleFresh
    BY DEF TInv
  <1>2. CASE cpBundle # NoCache /\ cpBundle.until > day
    BY <1>1, <1>2 DEF CachedBundle, PortalBundleFresh, RowsShaped
  <1>3. CASE ~(cpBundle # NoCache /\ cpBundle.until > day)
    <2>1. day + BundleTtl \in Nat
      BY <1>1, TrustAssumption DEF RowsShaped
    <2>2. CachedBundle(cpBundle) = Composed(live, day + BundleTtl)
      BY <1>3 DEF CachedBundle
    <2>3. /\ {a.thumb : a \in live} = {anchor[n].thumb : n \in InForce}
          /\ \A a \in live : a.until \in Nat
          /\ \A n \in InForce : \E a \in live : a.until = anchor[n].until
      BY <1>1, AnchorsOfBoth
    <2> HIDE DEF live
    <2>4. /\ Composed(live, day + BundleTtl).pems = {a.thumb : a \in live}
          /\ Composed(live, day + BundleTtl).until \in Nat
          /\ \A a \in live : Composed(live, day + BundleTtl).until <= a.until
      BY <2>1, <2>3, ComposedEnds
    <2> QED BY <2>2, <2>3, <2>4
  <1> QED BY <1>2, <1>3

LEMMA TrustSetNow ==
    ASSUME NEW anchors, \A a \in anchors : a.until \in Nat
    PROVE  /\ TrustSet(anchors).pems = {a.thumb : a \in {b \in anchors : b.until > day}}
           /\ TrustSet(anchors).until \in Nat
           /\ \A a \in anchors : a.until > day => TrustSet(anchors).until <= a.until
  <1> DEFINE live == {b \in anchors : b.until > day}
  <1>1. Forever \in Nat
    BY TrustAssumption DEF Forever
  <1>2. TrustSet(anchors) = Composed(live, Forever) /\ \A a \in live : a.until \in Nat
    BY DEF TrustSet
  <1>3. \A a \in anchors : a.until > day => a \in live
    OBVIOUS
  <1> HIDE DEF live
  <1>4. /\ Composed(live, Forever).pems = {a.thumb : a \in live}
        /\ Composed(live, Forever).until \in Nat
        /\ \A a \in live : Composed(live, Forever).until <= a.until
    BY <1>1, <1>2, ComposedEnds
  <1> QED BY <1>2, <1>3, <1>4 DEF live

LEMMA GatewayBundleNow ==
    ASSUME TInv
    PROVE  /\ GatewayBundle.pems = {a.thumb : a \in Carried}
           /\ GatewayBundle.until \in Nat
           /\ \A a \in Carried : GatewayBundle.until <= a.until
  <1>1. RowsShaped /\ GatewayBundleFresh
    BY DEF TInv
  <1>2. CASE day >= trust.until
    BY <1>1, <1>2, TrustSetNow DEF GatewayBundle, Carried, RowsShaped
  <1>3. CASE ~(day >= trust.until)
    BY <1>1, <1>3 DEF GatewayBundle, GatewayBundleFresh, RowsShaped
  <1> QED BY <1>2, <1>3

(* A route is relaxed by a live exception of its API and by nothing else,  *)
(* and for as long as one of them lasts.                                   *)
LEMMA TlsForIsARow ==
    ASSUME RowsShaped, NEW a \in TrustApis
    PROVE  /\ TlsFor(a).mode # "verify" <=>
                 \E n \in DOMAIN exception : exception[n].api = a /\ LiveException(exception[n])
           /\ TlsFor(a).mode # "verify" =>
                 \E n \in DOMAIN exception :
                    exception[n].api = a /\ exception[n].until = TlsFor(a).until
  <1> DEFINE live == {n \in DOMAIN exception : exception[n].api = a /\ LiveException(exception[n])}
             narrow == {n \in live : exception[n].backend # "all"}
             from == IF narrow # {} THEN narrow ELSE live
             ends == {exception[n].until : n \in from}
             first == CHOOSE n \in from : \A m \in from : exception[n].until <= exception[m].until
  <1>1. \A n \in DOMAIN exception : exception[n].until \in Nat /\ exception[n].mode \in Modes
    BY RowsInShape DEF ExceptionRow
  <1>2. "verify" \notin Modes
    BY TrustAssumption
  <1>3. CASE live = {}
    <2>1. TlsFor(a) = Verify
      BY <1>3 DEF TlsFor
    <2> QED BY <1>3, <2>1 DEF Verify
  <1>4. CASE live # {}
    <2>1. from # {} /\ from \subseteq live
      BY <1>4
    <2>2. TlsFor(a) = [mode |-> exception[first].mode, until |-> exception[first].until]
      BY <1>4 DEF TlsFor
    <2> HIDE DEF from
    <2>3. ends \in SUBSET Nat /\ ends # {}
      BY <1>1, <2>1
    <2>4. \E n \in from : \A m \in from : exception[n].until <= exception[m].until
      <3>1. PICK least \in ends : \A e \in ends : least <= e
        <4> HIDE DEF ends
        <4> QED BY <2>3, LeastNat
      <3>2. PICK n \in from : exception[n].until = least
        BY <3>1
      <3> QED BY <3>1, <3>2
    <2>5. first \in from
      BY <2>4
    <2> HIDE DEF first
    <2>6. first \in DOMAIN exception /\ exception[first].api = a /\ LiveException(exception[first])
      BY <2>1, <2>5
    <2>7. TlsFor(a).mode = exception[first].mode /\ TlsFor(a).until = exception[first].until
      BY <2>2
    <2> QED BY <1>1, <1>2, <2>6, <2>7
  <1> QED BY <1>3, <1>4

(* The rules in use are the live ones.                                     *)
LEMMA RulesNow ==
    ASSUME TInv
    PROVE  CachedRules = LiveRules
  BY DEF TInv, RulesFresh, CachedRules

LEMMA TInvEnds ==
    ASSUME TInv
    PROVE  TrustEnds
  <1>1. RowsShaped /\ ExceptionsHaveRows
    BY DEF TInv
  <1>2. BundlesAreLive
    BY <1>1, PortalBundleNow, GatewayBundleNow, AnchorsOfBoth DEF BundlesAreLive, Carried
  <1>3. {a \in TrustApis : TlsFor(a).mode # "verify"} = GovernanceReport.relaxed
    <2>1. GovernanceReport.relaxed =
             {exception[n].api : n \in {n \in DOMAIN exception : LiveException(exception[n])}}
      BY DEF GovernanceReport
    <2>2. \A n \in DOMAIN exception : exception[n].api \in TrustApis
      BY <1>1, RowsInShape DEF ExceptionRow
    <2>3. \A a \in TrustApis : TlsFor(a).mode # "verify" <=>
             \E n \in DOMAIN exception : exception[n].api = a /\ LiveException(exception[n])
      BY <1>1, TlsForIsARow
    <2> QED BY <2>1, <2>2, <2>3
  <1>4. ASSUME NEW a \in TrustApis, NEW b \in Backends, TlsMode(a, b) # "verify"
        PROVE  \E n \in DOMAIN exception : exception[n].api = a /\ exception[n].until > day
    <2>1. ~(document.tls[a].until <= day) /\ document.tls[a].mode # "verify"
      BY <1>4 DEF TlsMode
    <2>2. PICK n \in DOMAIN exception : exception[n].api = a /\ exception[n].until = document.tls[a].until
      BY <1>1, <2>1 DEF ExceptionsHaveRows
    <2>3. exception[n].until \in Nat /\ day \in Nat
      BY <1>1, RowsInShape DEF ExceptionRow, RowsShaped
    <2> QED BY <2>1, <2>2, <2>3
  <1> QED BY <1>2, <1>3, <1>4 DEF TrustEnds, ExceptionsEnd

LEMMA TInvLeavesOut ==
    ASSUME TInv
    PROVE  BlockedIsLeftOut
  <1> DEFINE rules == LiveRules \cup {SelfRule}
             denied == UNION {RoutesMatchingRule(r) : r \in rules}
             routes == {a \in Bound : ~Blocked(a)}
  <1>1. DenyRulesFor = rules
    BY RulesNow DEF DenyRulesFor
  <1>2. \A a \in TrustApis : Blocked(a) <=> a \in denied
    BY <1>1 DEF Blocked, RoutesMatchingRule
  <1>3. denied \subseteq Bound
    BY DEF RoutesMatchingRule, Bound
  <1>4. BuildConfig.routes = routes /\ Bound \ routes \subseteq BuildConfig.errors
    BY DEF BuildConfig
  <1>5. GovernanceReport.blocked = denied
    BY <1>1 DEF GovernanceReport
  <1>6. Bound \subseteq TrustApis
    BY DEF Bound
  <1> HIDE DEF denied
  <1>7. routes = Bound \ denied /\ denied \subseteq Bound \ routes
    BY <1>2, <1>3, <1>6
  <1>8. BuildConfig.routes = Bound \ denied /\ denied \subseteq BuildConfig.errors \cap GovernanceReport.blocked
    BY <1>4, <1>5, <1>7
  <1> QED BY <1>8 DEF BlockedIsLeftOut, denied

LEMMA TInvInit ==
    ASSUME TrustInit
    PROVE  TInv
  <1>1. Forever \in Nat
    BY TrustAssumption DEF Forever
  <1>2. document.anchors = {} /\ document.tls = [a \in TrustApis |-> Verify]
    BY DEF TrustInit, NoDocument
  <1>3. cpBundle.until = 0 /\ trust.until = Forever /\ trust.pems = {} /\ cpBundle = NoCache
    BY DEF TrustInit, NoCache
  <1>4. ruleCache.filled = FALSE
    BY DEF TrustInit, NoRules
  <1>5. RowsShaped
    BY <1>1, <1>2, <1>3 DEF TrustInit, RowsShaped
  <1>6. PortalBundleFresh /\ RulesFresh
    BY <1>3, <1>4 DEF PortalBundleFresh, RulesFresh
  <1>7. GatewayBundleFresh
    BY <1>2, <1>3 DEF GatewayBundleFresh, Carried
  <1>8. ExceptionsHaveRows
    BY <1>2 DEF ExceptionsHaveRows, Verify
  <1> QED BY <1>5, <1>6, <1>7, <1>8 DEF TInv

(* A step that leaves the trusted tables and every copy of them alone, but *)
(* for the rule cache, which it may fill.                                  *)
TablesStand == UNCHANGED <<day, anchor, cpBundle, exception, rule, document, trust>>
LEMMA StandingKeeps ==
    ASSUME TInv, TablesStand, ruleCache' = ruleCache \/ ruleCache' = Filled
    PROVE  TInv'
  <1>1. RowsShaped' /\ PortalBundleFresh'
    BY DEF TInv, TablesStand, RowsShaped, PortalBundleFresh, InForce
  <1>2. GatewayBundleFresh' /\ ExceptionsHaveRows'
    BY DEF TInv, TablesStand, GatewayBundleFresh, ExceptionsHaveRows, Carried
  <1>3. LiveRules' = LiveRules
    BY DEF TablesStand, LiveRules
  <1>4. RulesFresh'
    <2>1. CASE ruleCache' = ruleCache
      BY <1>3, <2>1 DEF TInv, RulesFresh
    <2>2. CASE ruleCache' = Filled
      <3>1. ruleCache'.rules = CachedRules
        BY <2>2 DEF Filled
      <3> QED BY <1>3, <3>1, RulesNow DEF RulesFresh
    <2> QED BY <2>1, <2>2
  <1> QED BY <1>1, <1>2, <1>4 DEF TInv

LEMMA AnchorsChangeKeeps ==
    ASSUME TInv, AnchorsChange, anchor' \in Seq(AnchorRow)
    PROVE  TInv'
  <1>1. cpBundle' = NoCache /\ cpBundle'.until = 0
    BY DEF AnchorsChange, NoCache
  <1>2. RowsShaped'
    BY <1>1 DEF TInv, RowsShaped, AnchorsChange
  <1>3. PortalBundleFresh'
    BY <1>1 DEF PortalBundleFresh, NoCache
  <1>4. GatewayBundleFresh' /\ ExceptionsHaveRows'
    BY DEF TInv, AnchorsChange, GatewayBundleFresh, ExceptionsHaveRows, Carried
  <1>5. RulesFresh'
    BY DEF TInv, AnchorsChange, RulesFresh, LiveRules
  <1> QED BY <1>2, <1>3, <1>4, <1>5 DEF TInv

LEMMA AddAnchorKeeps ==
    ASSUME TInv, NEW env \in {Home, Away}, NEW pem \in Pems, AddAnchor(env, pem)
    PROVE  TInv'
  <1>1. [env |-> env, thumb |-> pem.thumb, until |-> pem.until, removed |-> FALSE] \in AnchorRow
    BY TrustAssumption DEF AnchorRow
  <1>2. anchor \in Seq(AnchorRow)
    BY DEF TInv, RowsShaped
  <1>3. anchor' \in Seq(AnchorRow)
    BY <1>1, <1>2 DEF AddAnchor
  <1> QED BY <1>3, AnchorsChangeKeeps DEF AddAnchor

LEMMA RemoveAnchorKeeps ==
    ASSUME TInv, NEW n, RemoveAnchor(n)
    PROVE  TInv'
  <1>1. anchor \in Seq(AnchorRow) /\ n \in DOMAIN anchor
    BY DEF TInv, RowsShaped, RemoveAnchor
  <1>2. [anchor[n] EXCEPT !.removed = TRUE] \in AnchorRow
    <2>1. anchor[n] \in AnchorRow
      BY <1>1, RowsInShape DEF TInv
    <2> QED BY <2>1 DEF AnchorRow
  <1>3. anchor' = [anchor EXCEPT ![n] = [anchor[n] EXCEPT !.removed = TRUE]]
    BY DEF RemoveAnchor
  <1>4. anchor' \in Seq(AnchorRow)
    BY <1>1, <1>2, <1>3
  <1> QED BY <1>4, AnchorsChangeKeeps DEF RemoveAnchor

LEMMA FunctionIsSeq ==
    ASSUME NEW k \in Nat, NEW T, NEW f \in [1..k -> T]
    PROVE  f \in Seq(T)
  OBVIOUS

(* SetToSeq lists the members of a finite set.                             *)
LEMMA SetToSeqLists ==
    ASSUME NEW S, IsFiniteSet(S)
    PROVE  /\ Cardinality(S) \in Nat
           /\ SetToSeq(S) \in [1..Cardinality(S) -> S]
  <1>1. Cardinality(S) \in Nat
    BY FS_CardinalityType
  <1>2. PICK f : f \in [1..Cardinality(S) -> S] /\ IsInjective(f)
    <2>1. ExistsBijection(1..Cardinality(S), S)
      BY FS_CardinalityType
    <2>2. PICK f : f \in Bijection(1..Cardinality(S), S)
      BY <2>1 DEF ExistsBijection
    <2> QED BY <2>2 DEF Bijection, Injection, IsInjective
  <1> QED BY <1>1, <1>2 DEF SetToSeq

LEMMA CopyAnchorsKeeps ==
    ASSUME TInv, NEW from, NEW to \in {Home, Away}, NEW ids \in SUBSET (1..Len(anchor)),
           CopyAnchors(from, to, ids)
    PROVE  TInv'
  <1> DEFINE some == Copyable(from, to, ids)
             copy == SetToSeq(some)
             rows == [i \in DOMAIN copy |-> [anchor[copy[i]] EXCEPT !.env = to]]
  <1>1. anchor \in Seq(AnchorRow)
    BY DEF TInv, RowsShaped
  <1>2. some \subseteq DOMAIN anchor /\ some \subseteq 1..Len(anchor)
    BY DEF Copyable, AnchorsIn
  <1>3. IsFiniteSet(some)
    <2>1. IsFiniteSet(1..Len(anchor))
      BY <1>1, FS_Interval
    <2> QED BY <1>2, <2>1, FS_Subset
  <1>4. anchor' = anchor \o rows
    BY DEF CopyAnchors
  <1> HIDE DEF some
  <1>5. Cardinality(some) \in Nat /\ copy \in [1..Cardinality(some) -> some]
    BY <1>3, SetToSeqLists
  <1>6. ASSUME NEW i \in 1..Cardinality(some)
        PROVE  [anchor[copy[i]] EXCEPT !.env = to] \in AnchorRow
    <2>1. anchor[copy[i]] \in AnchorRow
      BY <1>2, <1>5, RowsInShape DEF TInv
    <2> QED BY <2>1 DEF AnchorRow
  <1>7. rows \in Seq(AnchorRow)
    <2>1. rows \in [1..Cardinality(some) -> AnchorRow]
      BY <1>5, <1>6
    <2> HIDE DEF rows
    <2> QED BY <1>5, <2>1, FunctionIsSeq
  <1>8. anchor' \in Seq(AnchorRow)
    BY <1>1, <1>4, <1>7
  <1> QED BY <1>8, AnchorsChangeKeeps DEF CopyAnchors

LEMMA TrustedFetchKeeps ==
    ASSUME TInv, TrustedFetch
    PROVE  TInv'
  <1>1. /\ cpBundle' = CachedBundle(cpBundle) /\ InForce' = InForce
        /\ UNCHANGED <<day, anchor, exception, rule, ruleCache, document, trust>>
    BY DEF TrustedFetch, InForce
  <1>2. RowsShaped' /\ PortalBundleFresh'
    BY <1>1, PortalBundleNow DEF TInv, RowsShaped, PortalBundleFresh
  <1>3. GatewayBundleFresh' /\ ExceptionsHaveRows'
    BY <1>1 DEF TInv, GatewayBundleFresh, ExceptionsHaveRows, Carried
  <1>4. RulesFresh'
    BY <1>1 DEF TInv, RulesFresh, LiveRules
  <1> QED BY <1>2, <1>3, <1>4 DEF TInv

LEMMA GatewayDialKeeps ==
    ASSUME TInv, GatewayDial
    PROVE  TInv'
  <1>1. /\ trust' = GatewayBundle /\ Carried' = Carried
        /\ UNCHANGED <<day, anchor, cpBundle, exception, rule, ruleCache, document>>
    BY DEF GatewayDial, Carried
  <1>2. RowsShaped' /\ GatewayBundleFresh'
    BY <1>1, GatewayBundleNow DEF TInv, RowsShaped, GatewayBundleFresh
  <1>3. PortalBundleFresh' /\ ExceptionsHaveRows'
    BY <1>1 DEF TInv, PortalBundleFresh, ExceptionsHaveRows, InForce
  <1>4. RulesFresh'
    BY <1>1 DEF TInv, RulesFresh, LiveRules
  <1> QED BY <1>2, <1>3, <1>4 DEF TInv

(* Exceptions are added and revoked; no row goes and none is prolonged.    *)
LEMMA ExceptionsChangeKeep ==
    ASSUME TInv, exception' \in Seq(ExceptionRow),
           \A n \in DOMAIN exception : /\ n \in DOMAIN exception'
                                       /\ exception'[n].api = exception[n].api
                                       /\ exception'[n].until = exception[n].until,
           UNCHANGED <<day, anchor, cpBundle, rule, ruleCache, document, trust>>
    PROVE  TInv'
  <1>1. RowsShaped' /\ PortalBundleFresh'
    BY DEF TInv, RowsShaped, PortalBundleFresh, InForce
  <1>2. GatewayBundleFresh'
    BY DEF TInv, GatewayBundleFresh, Carried
  <1>3. RulesFresh'
    BY DEF TInv, RulesFresh, LiveRules
  <1>4. ExceptionsHaveRows'
    <2>1. ASSUME NEW a \in TrustApis, document.tls[a].mode # "verify"
          PROVE  \E n \in DOMAIN exception' :
                    exception'[n].api = a /\ exception'[n].until = document.tls[a].until
      <3>1. PICK n \in DOMAIN exception : exception[n].api = a /\ exception[n].until = document.tls[a].until
        BY <2>1 DEF TInv, ExceptionsHaveRows
      <3> QED BY <3>1
    <2> QED BY <2>1 DEF ExceptionsHaveRows
  <1> QED BY <1>1, <1>2, <1>3, <1>4 DEF TInv

LEMMA CreateExceptionKeeps ==
    ASSUME TInv, NEW a \in TrustApis, NEW backend \in {"all"} \cup {b.name : b \in Backends},
           NEW mode \in Modes, NEW until \in Nat, CreateException(a, backend, mode, until)
    PROVE  TInv'
  <1>1. PICK row : row = [api |-> a, backend |-> backend, mode |-> mode, until |-> until, revoked |-> FALSE]
    OBVIOUS
  <1>2. row \in ExceptionRow
    BY <1>1 DEF ExceptionRow
  <1>3. exception \in Seq(ExceptionRow)
    BY DEF TInv, RowsShaped
  <1>4. exception' = Append(exception, row)
    BY <1>1 DEF CreateException
  <1>5. exception' \in Seq(ExceptionRow)
    BY <1>2, <1>3, <1>4
  <1>6. \A n \in DOMAIN exception : n \in DOMAIN exception' /\ exception'[n] = exception[n]
    BY <1>2, <1>3, <1>4
  <1> QED BY <1>5, <1>6, ExceptionsChangeKeep DEF CreateException

LEMMA RevokeExceptionKeeps ==
    ASSUME TInv, NEW n, RevokeException(n)
    PROVE  TInv'
  <1>1. exception \in Seq(ExceptionRow) /\ n \in DOMAIN exception
    BY DEF TInv, RowsShaped, RevokeException
  <1>2. PICK row : row = [exception[n] EXCEPT !.revoked = TRUE]
    OBVIOUS
  <1>3. row \in ExceptionRow /\ row.api = exception[n].api /\ row.until = exception[n].until
    <2>1. exception[n] \in ExceptionRow
      BY <1>1, RowsInShape DEF TInv
    <2> QED BY <1>2, <2>1 DEF ExceptionRow
  <1>4. exception' = [exception EXCEPT ![n] = row]
    BY <1>2 DEF RevokeException
  <1>5. exception' \in Seq(ExceptionRow)
    BY <1>1, <1>3, <1>4
  <1>6. \A m \in DOMAIN exception : /\ m \in DOMAIN exception'
                                    /\ exception'[m].api = exception[m].api
                                    /\ exception'[m].until = exception[m].until
    BY <1>1, <1>3, <1>4
  <1> QED BY <1>5, <1>6, ExceptionsChangeKeep DEF RevokeException

(* A rule that is written or removed drops the cache.                      *)
LEMMA RulesChangeKeep ==
    ASSUME TInv, RulesChange, ruleCache' = NoRules
    PROVE  TInv'
  <1>1. RowsShaped' /\ PortalBundleFresh'
    BY DEF TInv, RulesChange, RowsShaped, PortalBundleFresh, InForce
  <1>2. GatewayBundleFresh' /\ ExceptionsHaveRows'
    BY DEF TInv, RulesChange, GatewayBundleFresh, ExceptionsHaveRows, Carried
  <1>3. ruleCache'.filled = FALSE
    BY DEF NoRules
  <1>4. RulesFresh'
    BY <1>3 DEF RulesFresh
  <1> QED BY <1>1, <1>2, <1>4 DEF TInv

(* The document a poll brings is built from the tables as they are.        *)
LEMMA PollDocumentKeeps ==
    ASSUME TInv, PollDocument
    PROVE  TInv'
  <1>1. /\ document' = BuildConfig /\ ruleCache' = Filled
        /\ UNCHANGED <<day, anchor, cpBundle, exception, rule>>
    BY DEF PollDocument
  <1>2. /\ BuildConfig.anchors = LiveAnchorsFor(Home)
        /\ BuildConfig.tls = [a \in TrustApis |-> TlsFor(a)]
    BY DEF BuildConfig
  <1>3. \A a \in LiveAnchorsFor(Home) : a.until \in Nat
    BY AnchorsOfBoth DEF TInv
  <1>4. PICK anchors : anchors = LiveAnchorsFor(Home)
    OBVIOUS
  <1>5. document'.anchors = anchors /\ trust' = TrustSet(anchors)
    <2>1. trust' = TrustSet(document.anchors')
      BY DEF PollDocument
    <2> QED BY <1>1, <1>2, <1>4, <2>1
  <1>6. /\ trust'.pems = {a.thumb : a \in {b \in anchors : b.until > day}}
        /\ trust'.until \in Nat
        /\ \A a \in anchors : a.until > day => trust'.until <= a.until
    BY <1>3, <1>4, <1>5, TrustSetNow
  <1>7. RowsShaped' /\ GatewayBundleFresh'
    BY <1>1, <1>3, <1>4, <1>5, <1>6 DEF TInv, RowsShaped, GatewayBundleFresh, Carried
  <1>8. PortalBundleFresh'
    BY <1>1 DEF TInv, PortalBundleFresh, InForce
  <1>9. RulesFresh'
    <2>1. LiveRules' = LiveRules
      BY <1>1 DEF LiveRules
    <2>2. ruleCache'.rules = CachedRules
      BY <1>1 DEF Filled
    <2> QED BY <2>1, <2>2, RulesNow DEF RulesFresh
  <1>10. ExceptionsHaveRows'
    BY <1>1, <1>2, TlsForIsARow DEF TInv, ExceptionsHaveRows
  <1> QED BY <1>7, <1>8, <1>9, <1>10 DEF TInv

(* A day passes: what a bundle in use still holds has a day left.          *)
LEMMA NextDayKeeps ==
    ASSUME TInv, NextDay
    PROVE  TInv'
  <1>1. /\ day' = day + 1 /\ day \in Nat
        /\ UNCHANGED <<anchor, cpBundle, exception, rule, ruleCache, document, trust>>
    BY DEF TInv, RowsShaped, NextDay
  <1>2. RowsShaped'
    BY <1>1 DEF TInv, RowsShaped
  <1>3. PortalBundleFresh'
    <2> SUFFICES ASSUME cpBundle # NoCache, cpBundle.until > day + 1
                 PROVE  /\ cpBundle.pems = {anchor[n].thumb : n \in InForce'}
                        /\ \A n \in InForce' : cpBundle.until <= anchor[n].until
      BY <1>1 DEF PortalBundleFresh
    <2>1. cpBundle.until \in Nat /\ \A n \in DOMAIN anchor : anchor[n].until \in Nat
      BY RowsInShape DEF TInv, RowsShaped, AnchorRow
    <2>2. /\ cpBundle.pems = {anchor[n].thumb : n \in InForce}
          /\ \A n \in InForce : cpBundle.until <= anchor[n].until
      BY <1>1, <2>1 DEF TInv, PortalBundleFresh
    <2>3. InForce' = InForce
      BY <1>1, <2>1, <2>2 DEF InForce
    <2> QED BY <2>2, <2>3
  <1>4. GatewayBundleFresh'
    <2> SUFFICES ASSUME day + 1 < trust.until
                 PROVE  /\ trust.pems = {a.thumb : a \in Carried'}
                        /\ \A a \in Carried' : trust.until <= a.until
      BY <1>1 DEF GatewayBundleFresh
    <2>1. trust.until \in Nat /\ \A a \in document.anchors : a.until \in Nat
      BY DEF TInv, RowsShaped
    <2>2. trust.pems = {a.thumb : a \in Carried} /\ \A a \in Carried : trust.until <= a.until
      BY <1>1, <2>1 DEF TInv, GatewayBundleFresh
    <2>3. Carried' = Carried
      BY <1>1, <2>1, <2>2 DEF Carried
    <2> QED BY <2>2, <2>3
  <1>5. RulesFresh' /\ ExceptionsHaveRows'
    BY <1>1 DEF TInv, RulesFresh, LiveRules, ExceptionsHaveRows
  <1> QED BY <1>2, <1>3, <1>4, <1>5 DEF TInv

LEMMA TrustStep ==
    ASSUME TInv, TrustEdits
    PROVE  TInv'
  <1>1. CASE AnchorNext
    <2>1. ASSUME NEW env \in {Home, Away}, NEW pem \in Pems, AddAnchor(env, pem) PROVE TInv'
      BY <2>1, AddAnchorKeeps
    <2>2. ASSUME NEW n \in 1..MaxRows, RemoveAnchor(n) PROVE TInv'
      BY <2>2, RemoveAnchorKeeps
    <2>3. ASSUME NEW ids \in SUBSET (1..Len(anchor)),
                 CopyAnchors(Home, Away, ids) \/ CopyAnchors(Away, Home, ids)
          PROVE  TInv'
      BY <2>3, CopyAnchorsKeeps
    <2> QED BY <1>1, <2>1, <2>2, <2>3, TrustedFetchKeeps, GatewayDialKeeps, PollDocumentKeeps, NextDayKeeps
            DEF AnchorNext
  <1>2. CASE ExceptionNext
    <2>1. ASSUME NEW a \in TrustApis, NEW backend \in {"all"} \cup {b.name : b \in Backends},
                 NEW mode \in Modes, NEW until \in 1..(LastDay + MaxDays),
                 CreateException(a, backend, mode, until)
          PROVE  TInv'
      <3>1. until \in Nat
        OBVIOUS
      <3> QED BY <2>1, <3>1, CreateExceptionKeeps
    <2>2. ASSUME NEW n \in 1..MaxExceptions, RevokeException(n) PROVE TInv'
      BY <2>2, RevokeExceptionKeeps
    <2> QED BY <1>2, <2>1, <2>2, PollDocumentKeeps, NextDayKeeps DEF ExceptionNext
  <1>3. CASE RuleNext
    <2>1. ASSUME NEW r \in Rules, CreateDenyRule(r) PROVE TInv'
      BY <2>1, RulesChangeKeep DEF CreateDenyRule
    <2>2. ASSUME NEW n \in 1..MaxRows, RemoveDenyRule(n) PROVE TInv'
      BY <2>2, RulesChangeKeep DEF RemoveDenyRule
    <2> QED BY <1>3, <2>1, <2>2, PollDocumentKeeps DEF RuleNext
  <1>4. CASE CertificateNext
    <2>1. TablesStand /\ ruleCache' = ruleCache
      BY <1>4 DEF CertificateNext, UploadCertificate, RenewBegin, RenewEnd, DeleteCertificate,
                  CertsChange, TablesStand
    <2> QED BY <2>1, StandingKeeps
  <1>5. CASE CredentialNext
    <2>1. TablesStand /\ ruleCache' = ruleCache
      BY <1>5 DEF CredentialNext, CreateCredential, DeleteCredential, NameGlobally,
                  CredentialsChange, TablesStand
    <2> QED BY <2>1, StandingKeeps
  <1>6. CASE BindNext(SUBSET Backends, CertIds \cup {"none"})
    <2>1. TablesStand /\ (ruleCache' = ruleCache \/ ruleCache' = Filled)
      BY <1>6 DEF BindNext, PutBindingBegin, PutBindingEnd, TablesStand
    <2> QED BY <2>1, StandingKeeps
  <1>7. CASE ConfigureNext(CertIds \cup {"none"}, SUBSET Uses)
    <2>1. PollDocument \/ (TablesStand /\ ruleCache' = ruleCache)
      BY <1>7 DEF ConfigureNext, QueueConfigure, ApplyConfigure, TablesStand
    <2> QED BY <2>1, StandingKeeps, PollDocumentKeeps
  <1> QED BY <1>1, <1>2, <1>3, <1>4, <1>5, <1>6, <1>7 DEF TrustEdits

LEMMA TrustStutters ==
    ASSUME TInv, UNCHANGED tvars
    PROVE  TInv'
  BY StandingKeeps DEF tvars, TablesStand

(* The tables are in shape and no copy of them outlives what it was made   *)
(* from, whatever is edited meanwhile (api/trust.ts, trust-store.ts,       *)
(* deny-rules.ts, config-build.ts; data-plane/src/trust.ts).               *)
THEOREM TrustInvariant == TrustSpec => []TInv
  <1>1. TrustInit => TInv
    BY TInvInit
  <1>2. TInv /\ [TrustEdits]_tvars => TInv'
    BY TrustStep, TrustStutters
  <1> QED BY <1>1, <1>2, PTL DEF TrustSpec

(* Trust given for a time ends with it: the control plane and a gateway    *)
(* verify with the anchors in force and no other, and verification is      *)
(* relaxed only while an exception lasts, however old the document.        *)
THEOREM Trust_Ends == TrustSpec => []TrustEnds
  <1>1. TInv => TrustEnds
    BY TInvEnds
  <1> QED BY <1>1, TrustInvariant, PTL

(* A document never carries a route to a backend a live rule denies, and   *)
(* both it and the governance report say which routes those are.           *)
THEOREM Blocked_Left_Out == TrustSpec => []BlockedIsLeftOut
  <1>1. TInv => BlockedIsLeftOut
    BY TInvLeavesOut
  <1> QED BY <1>1, TrustInvariant, PTL

(* Every route of a new document has the material for each reference it    *)
(* names, or is reported.                                                  *)
LEMMA ReportedStep ==
    ASSUME TrustEdits, document' # document
    PROVE  \A a \in document'.routes :
              (\A u \in names[a] \cup globals : Material(u)) \/ a \in document'.errors
  <1>1. PollDocument
    BY DEF TrustEdits, AnchorNext, AddAnchor, RemoveAnchor, CopyAnchors, AnchorsChange, TrustedFetch,
           GatewayDial, NextDay, ExceptionNext, CreateException, RevokeException, RuleNext,
           CreateDenyRule, RemoveDenyRule, RulesChange, CertificateNext, UploadCertificate, RenewBegin,
           RenewEnd, DeleteCertificate, CertsChange, CredentialNext, CreateCredential,
           DeleteCredential, NameGlobally, CredentialsChange, BindNext, PutBindingBegin,
           PutBindingEnd, ConfigureNext, QueueConfigure, ApplyConfigure
  <1>2. document' = BuildConfig
    BY <1>1 DEF PollDocument
  <1>3. {a \in BuildConfig.routes : Unresolved(a) # {}} \subseteq BuildConfig.errors
    BY DEF BuildConfig
  <1>4. \A u : Resolves(u) => Material(u)
    BY DEF Resolves, Material, Vault
  <1>5. ASSUME NEW a \in BuildConfig.routes, Unresolved(a) = {}
        PROVE  \A u \in names[a] \cup globals : Material(u)
    BY <1>4, <1>5 DEF Unresolved
  <1> QED BY <1>2, <1>3, <1>5

(* A credential deleted or replaced while an operation naming it was       *)
(* queued is reported by the next document (buildReferences,               *)
(* credentialVault).                                                       *)
THEOREM Unresolved_Reported == TrustSpec => UnresolvedIsReported
  <1>1. [TrustEdits]_tvars =>
          [document' # document =>
             \A a \in document'.routes :
                (\A u \in names[a] \cup globals : Material(u)) \/ a \in document'.errors]_tvars
    BY ReportedStep DEF tvars
  <1> QED BY <1>1, PTL DEF TrustSpec, UnresolvedIsReported

-----------------------------------------------------------------------------
(* Policy.  The two tables are shaped, and every list of switched-off      *)
(* units is a list.                                                        *)
Lists(doc) == Has(doc, DisabledKey) => "units" \in DOMAIN doc[DisabledKey]
PoliciesShaped ==
    /\ own = [a \in PolicyApis |-> [e \in PolicyEnvs |-> own[a][e]]]
    /\ global = [e \in PolicyEnvs |-> global[e]]
    /\ \A o \in queue : o.api \in PolicyApis /\ o.env \in PolicyEnvs
DisabledAreLists ==
    /\ \A a \in PolicyApis, e \in PolicyEnvs : Lists(own[a][e])
    /\ \A e \in PolicyEnvs : Lists(global[e])
    /\ \A o \in queue : Lists(o.policy)
YInv == PoliciesShaped /\ DisabledAreLists

(* What a document holds without some units, its list among what stays.    *)
LEMMA WithoutHolds ==
    ASSUME NEW doc, NEW ks
    PROVE  /\ DOMAIN Without(doc, ks) = DOMAIN doc \ ks
           /\ \A j \in DOMAIN doc \ ks : Without(doc, ks)[j] = doc[j]
           /\ Lists(doc) => Lists(Without(doc, ks))
  BY DEF Without, Restrict, Lists, Has

(* Documents with the same keys and values are one document.               *)
LEMMA SameOver ==
    ASSUME NEW t1, NEW b1, NEW t2, NEW b2,
           DOMAIN t1 \cup DOMAIN b1 = DOMAIN t2 \cup DOMAIN b2,
           \A k \in DOMAIN t1 \cup DOMAIN b1 : Over(t1, b1)[k] = Over(t2, b2)[k]
    PROVE  Over(t1, b1) = Over(t2, b2)
  BY DEF Over

LEMMA InheritedHolds ==
    ASSUME NEW doc
    PROVE  /\ DOMAIN InheritedUnits(doc) = {k \in DOMAIN doc : IsGloballyAttachable(k)}
           /\ \A k \in DOMAIN InheritedUnits(doc) : InheritedUnits(doc)[k] = doc[k]
           /\ Lists(doc) => Lists(InheritedUnits(doc))
  BY DEF InheritedUnits, Restrict, Lists, Has

(* Switching off twice is switching off once, and what is left of a valid  *)
(* document is valid.                                                      *)
LEMMA ActiveHolds ==
    ASSUME NEW doc
    PROVE  /\ DOMAIN ActiveDocument(doc) = DOMAIN doc \ (DisabledUnits(doc) \cup {DisabledKey})
           /\ \A k \in DOMAIN ActiveDocument(doc) : ActiveDocument(doc)[k] = doc[k]
           /\ ActiveDocument(ActiveDocument(doc)) = ActiveDocument(doc)
  <1> DEFINE x == ActiveDocument(doc)
             S == DOMAIN doc \ (DisabledUnits(doc) \cup {DisabledKey})
  <1>1. x = [k \in S |-> doc[k]]
    BY DEF ActiveDocument, Without, Restrict
  <1>2. DisabledUnits(x) = {}
    BY <1>1 DEF DisabledUnits, Has
  <1>3. ActiveDocument(x) = [k \in (DOMAIN x \ (DisabledUnits(x) \cup {DisabledKey})) |-> x[k]]
    BY DEF ActiveDocument, Without, Restrict
  <1> HIDE DEF x
  <1>4. DOMAIN x \ (DisabledUnits(x) \cup {DisabledKey}) = S
    BY <1>1, <1>2
  <1>5. ActiveDocument(x) = x
    BY <1>1, <1>3, <1>4
  <1> QED BY <1>1, <1>5 DEF x

LEMMA ActiveIsOk ==
    ASSUME NEW doc, NEW kind, DocumentOk(doc, kind)
    PROVE  DocumentOk(ActiveDocument(doc), kind)
  <1>1. PICK x : x = ActiveDocument(doc)
    OBVIOUS
  <1>2. /\ DOMAIN x \subseteq DOMAIN doc /\ \A k \in DOMAIN x : x[k] = doc[k]
        /\ ActiveDocument(x) = x
    BY <1>1, ActiveHolds
  <1>3. \A k \in DOMAIN doc : UnitOk(k, doc[k])
    BY DEF DocumentOk
  <1>4. \A k \in DOMAIN x : UnitOk(k, x[k])
    BY <1>2, <1>3
  <1>5. DocumentOk(x, kind)
    BY <1>1, <1>2, <1>4 DEF DocumentOk
  <1> QED BY <1>1, <1>5

LEMMA PolicyForHolds ==
    ASSUME NEW a, NEW e
    PROVE  /\ DOMAIN InheritedUnits(global[e]) \subseteq DOMAIN PolicyFor(a, e)
           /\ DOMAIN PolicyFor(a, e) = DOMAIN own[a][e] \cup DOMAIN InheritedUnits(global[e])
           /\ \A k \in DOMAIN own[a][e] : PolicyFor(a, e)[k] = own[a][e][k]
           /\ \A k \in DOMAIN InheritedUnits(global[e]) \ DOMAIN own[a][e] :
                 PolicyFor(a, e)[k] = InheritedUnits(global[e])[k]
           /\ Lists(own[a][e]) /\ Lists(global[e]) => Lists(PolicyFor(a, e))
  <1>1. Lists(global[e]) => Lists(InheritedUnits(global[e]))
    BY InheritedHolds
  <1>2. PolicyFor(a, e) = Over(own[a][e], InheritedUnits(global[e]))
    BY DEF PolicyFor, Effective
  <1> QED BY <1>1, <1>2 DEF Over, Lists, Has

(* One document of the table of own units is written.                      *)
LEMMA OwnWriteHolds ==
    ASSUME PoliciesShaped, NEW a \in PolicyApis, NEW e \in PolicyEnvs, NEW doc,
           own' = [own EXCEPT ![a][e] = doc]
    PROVE  /\ own'[a][e] = doc
           /\ \A b \in PolicyApis, f \in PolicyEnvs : b # a \/ f # e => own'[b][f] = own[b][f]
           /\ own' = [b \in PolicyApis |-> [f \in PolicyEnvs |-> own'[b][f]]]
  <1>1. own' = [own EXCEPT ![a] = [own[a] EXCEPT ![e] = doc]]
    OBVIOUS
  <1>2. \A b \in PolicyApis : own[b] = [f \in PolicyEnvs |-> own[b][f]]
    BY DEF PoliciesShaped
  <1>3. own'[a] = [own[a] EXCEPT ![e] = doc] /\ \A b \in PolicyApis : b # a => own'[b] = own[b]
    BY <1>1 DEF PoliciesShaped
  <1>4. own'[a][e] = doc /\ \A f \in PolicyEnvs : f # e => own'[a][f] = own[a][f]
    <2>1. PICK row : row = own[a]
      OBVIOUS
    <2>2. DOMAIN row = PolicyEnvs
      BY <1>2, <2>1
    <2>3. PICK new : new = own'[a]
      OBVIOUS
    <2>4. new = [row EXCEPT ![e] = doc]
      BY <1>3, <2>1, <2>3
    <2>5. new[e] = doc /\ \A f \in PolicyEnvs : f # e => new[f] = row[f]
      BY <2>2, <2>4
    <2> QED BY <2>1, <2>3, <2>5
  <1>5. DOMAIN own = PolicyApis /\ DOMAIN own[a] = PolicyEnvs
    BY <1>2 DEF PoliciesShaped
  <1>6. own'[a] = [f \in PolicyEnvs |-> own'[a][f]]
    BY <1>3, <1>5
  <1>7. own' = [b \in PolicyApis |-> own'[b]]
    BY <1>1, <1>5
  <1>8. \A b \in PolicyApis : own'[b] = [f \in PolicyEnvs |-> own'[b][f]]
    BY <1>2, <1>3, <1>6
  <1>9. own' = [b \in PolicyApis |-> [f \in PolicyEnvs |-> own'[b][f]]]
    BY <1>7, <1>8
  <1> QED BY <1>3, <1>4, <1>9

(* A unit written to the API's own document is written to the effective    *)
(* one.                                                                    *)
LEMMA PutShows ==
    ASSUME NEW mine, NEW wide, NEW k, NEW v
    PROVE  Effective(With(mine, k, v), wide) = With(Effective(mine, wide), k, v)
  <1> DEFINE in == InheritedUnits(wide)
             one == [x \in {k} |-> v]
  <1>1. /\ Effective(With(mine, k, v), wide) = Over(With(mine, k, v), in)
        /\ With(Effective(mine, wide), k, v) = Over(one, Over(mine, in))
        /\ With(mine, k, v) = Over(one, mine)
    BY DEF Effective, With
  <1> HIDE DEF in
  <1>2. /\ DOMAIN Over(one, mine) = {k} \cup DOMAIN mine
        /\ DOMAIN Over(mine, in) = DOMAIN mine \cup DOMAIN in
    BY DEF Over
  <1>3. ASSUME NEW j \in {k} \cup DOMAIN mine \cup DOMAIN in
        PROVE  Over(Over(one, mine), in)[j] = Over(one, Over(mine, in))[j]
    BY <1>2 DEF Over
  <1>4. Over(Over(one, mine), in) = Over(one, Over(mine, in))
    BY <1>2, <1>3, SameOver
  <1> QED BY <1>1, <1>4

(* A unit taken from the API's own document is taken from the effective    *)
(* one, unless the environment sets it; then the environment's shows.      *)
LEMMA DropShows ==
    ASSUME NEW mine, NEW wide, NEW k
    PROVE  /\ k \notin DOMAIN InheritedUnits(wide) =>
                 Effective(Without(mine, {k}), wide) = Without(Effective(mine, wide), {k})
           /\ k \in DOMAIN InheritedUnits(wide) /\ InheritedUnits(wide)[k] = Effective(mine, wide)[k] =>
                 Effective(Without(mine, {k}), wide) = Effective(mine, wide)
  <1> DEFINE in == InheritedUnits(wide)
             less == Without(mine, {k})
  <1>1. /\ Effective(less, wide) = Over(less, in)
        /\ Effective(mine, wide) = Over(mine, in)
    BY DEF Effective
  <1> HIDE DEF in
  <1>2. DOMAIN less = DOMAIN mine \ {k} /\ \A j \in DOMAIN mine \ {k} : less[j] = mine[j]
    BY WithoutHolds
  <1> HIDE DEF less
  <1>3. CASE k \notin DOMAIN in
    <2>1. Without(Over(mine, in), {k}) = [j \in (DOMAIN Over(mine, in)) \ {k} |-> Over(mine, in)[j]]
      BY DEF Without, Restrict
    <2>2. (DOMAIN Over(mine, in)) \ {k} = DOMAIN less \cup DOMAIN in
      BY <1>2, <1>3 DEF Over
    <2>3. \A j \in DOMAIN less \cup DOMAIN in : Over(mine, in)[j] = Over(less, in)[j]
      BY <1>2, <1>3 DEF Over
    <2>4. Over(less, in) = [j \in DOMAIN less \cup DOMAIN in |-> Over(less, in)[j]]
      BY DEF Over
    <2> QED BY <1>1, <1>3, <2>1, <2>2, <2>3, <2>4 DEF in, less
  <1>4. CASE k \in DOMAIN in
    <2>1. ASSUME in[k] = Over(mine, in)[k]
          PROVE  Over(less, in) = Over(mine, in)
      <3>1. DOMAIN less \cup DOMAIN in = DOMAIN mine \cup DOMAIN in
        BY <1>2, <1>4
      <3>2. \A j \in DOMAIN less \cup DOMAIN in : Over(less, in)[j] = Over(mine, in)[j]
        BY <1>2, <1>4, <2>1 DEF Over
      <3> QED BY <3>1, <3>2, SameOver
    <2> QED BY <1>1, <1>4, <2>1 DEF in, less
  <1> QED BY <1>3, <1>4

(* An owner's detach that moves nothing of the environment's leaves what   *)
(* the document without the unit says, or all of it.                       *)
LEMMA OwnerDrops ==
    ASSUME NEW a, NEW e, NEW k,
           MayMove("owner", e, PolicyFor(a, e), Without(PolicyFor(a, e), {k}))
    PROVE  Effective(Without(own[a][e], {k}), global[e])
             \in {PolicyFor(a, e), Without(PolicyFor(a, e), {k})}
  <1> DEFINE wide == InheritedUnits(global[e])
             before == PolicyFor(a, e)
             after == Without(before, {k})
  <1>1. before = Effective(own[a][e], global[e])
    BY DEF PolicyFor
  <1>2. CASE k \notin DOMAIN wide
    <2>1. Effective(Without(own[a][e], {k}), global[e]) = Without(Effective(own[a][e], global[e]), {k})
      <3>1. k \notin DOMAIN InheritedUnits(global[e])
        BY <1>2
      <3> QED BY ONLY <3>1, DropShows, ZenonT(40)
    <2> QED BY <1>1, <2>1
  <1>3. CASE k \in DOMAIN wide
    <2>1. Signature(wide, before, k) = Signature(wide, after, k)
      BY <1>3 DEF MayMove, GlobalUnitChanges
    <2>2. Signature(wide, before, k).value = before[k]
      BY <1>3, PolicyForHolds DEF Signature, Has
    <2>3. Signature(wide, after, k).value = wide[k]
      <3>1. k \notin DOMAIN after
        BY DEF Without, Restrict
      <3> HIDE DEF after
      <3> QED BY <3>1 DEF Signature, Has
    <2>4. wide[k] = before[k]
      BY <2>1, <2>2, <2>3
    <2> QED BY <1>1, <1>3, <2>4, DropShows
  <1> QED BY <1>2, <1>3

(* Every write of an API's own units is judged on some document, and an    *)
(* owner's leaves the effective document as it was or makes it that one.   *)
LEMMA OwnWriteShows ==
    ASSUME YInv, NEW by \in {"owner", "admin"}, NEW a \in PolicyApis, NEW e \in PolicyEnvs,
           \/ \E x \in Offers : PutUnit(by, a, e, x.key, x.value)
           \/ \E k \in DOMAIN own[a][e] : DeleteUnit(by, a, e, k)
           \/ \E from \in PolicyEnvs : \E k : CopyUnit(by, a, from, e, k)
    PROVE  \E doc, after :
              /\ WriteOwn(by, a, e, doc) /\ Lists(doc)
              /\ MayMove(by, e, PolicyFor(a, e), after) /\ DocumentOk(after, KindOf[a])
              /\ by = "owner" => Effective(doc, global[e]) \in {PolicyFor(a, e), after}
  <1> DEFINE before == PolicyFor(a, e)
  <1>1. Lists(own[a][e]) /\ \A f \in PolicyEnvs : Lists(own[a][f]) /\ Lists(global[f])
    BY DEF YInv, DisabledAreLists
  <1>2. before = Effective(own[a][e], global[e])
    BY DEF PolicyFor
  <1>3. ASSUME NEW x \in Offers, PutUnit(by, a, e, x.key, x.value)
        PROVE  /\ WriteOwn(by, a, e, With(own[a][e], x.key, x.value))
               /\ Lists(With(own[a][e], x.key, x.value))
               /\ MayMove(by, e, before, With(before, x.key, x.value))
               /\ DocumentOk(With(before, x.key, x.value), KindOf[a])
               /\ Effective(With(own[a][e], x.key, x.value), global[e]) = With(before, x.key, x.value)
    <2>1. x.key = DisabledKey => "units" \in DOMAIN x.value
      BY PolicyAssumption DEF DisabledKey
    <2>2. Lists(With(own[a][e], x.key, x.value))
      BY <1>1, <2>1 DEF With, Over, Lists, Has
    <2>3. Effective(With(own[a][e], x.key, x.value), global[e]) = With(before, x.key, x.value)
      <3>1. PICK mine, wide : mine = own[a][e] /\ wide = global[e]
        OBVIOUS
      <3>2. Effective(With(mine, x.key, x.value), wide) = With(Effective(mine, wide), x.key, x.value)
        BY PutShows
      <3> QED BY <1>2, <3>1, <3>2
    <2> QED BY <1>3, <2>2, <2>3 DEF PutUnit
  <1>4. ASSUME NEW k, WriteOwn(by, a, e, Without(own[a][e], {k})),
               MayMove(by, e, before, Without(before, {k})), DocumentOk(Without(before, {k}), KindOf[a])
        PROVE  /\ Lists(Without(own[a][e], {k}))
               /\ by = "owner" => Effective(Without(own[a][e], {k}), global[e]) \in {before, Without(before, {k})}
    <2>1. Lists(Without(own[a][e], {k}))
      BY <1>1 DEF Without, Restrict, Lists, Has
    <2>2. CASE by = "owner"
      BY <1>4, <2>1, <2>2, OwnerDrops
    <2> QED BY <2>1, <2>2
  <1>5. ASSUME NEW k \in DOMAIN own[a][e], DeleteUnit(by, a, e, k)
        PROVE  /\ WriteOwn(by, a, e, Without(own[a][e], {k}))
               /\ MayMove(by, e, before, Without(before, {k})) /\ DocumentOk(Without(before, {k}), KindOf[a])
    BY <1>5 DEF DeleteUnit
  <1>6. ASSUME NEW from \in PolicyEnvs, NEW k, CopyUnit(by, a, from, e, k),
               ~Has(PolicyFor(a, from), k)
        PROVE  /\ WriteOwn(by, a, e, Without(own[a][e], {k}))
               /\ MayMove(by, e, before, Without(before, {k})) /\ DocumentOk(Without(before, {k}), KindOf[a])
    BY <1>6 DEF CopyUnit
  <1>7. ASSUME NEW from \in PolicyEnvs, NEW k, CopyUnit(by, a, from, e, k),
               Has(PolicyFor(a, from), k)
        PROVE  /\ WriteOwn(by, a, e, With(own[a][e], k, PolicyFor(a, from)[k]))
               /\ Lists(With(own[a][e], k, PolicyFor(a, from)[k]))
               /\ MayMove(by, e, before, With(before, k, PolicyFor(a, from)[k]))
               /\ DocumentOk(With(before, k, PolicyFor(a, from)[k]), KindOf[a])
               /\ Effective(With(own[a][e], k, PolicyFor(a, from)[k]), global[e])
                    = With(before, k, PolicyFor(a, from)[k])
    <2>1. Lists(PolicyFor(a, from))
      BY <1>1, PolicyForHolds
    <2>2. PICK v : v = PolicyFor(a, from)[k]
      OBVIOUS
    <2>3. k = DisabledKey => "units" \in DOMAIN v
      BY <1>7, <2>1, <2>2 DEF Lists
    <2>4. Lists(With(own[a][e], k, v))
      BY <1>1, <2>3 DEF With, Over, Lists, Has
    <2>5. Effective(With(own[a][e], k, v), global[e]) = With(before, k, v)
      <3>1. PICK mine, wide : mine = own[a][e] /\ wide = global[e]
        OBVIOUS
      <3>2. Effective(With(mine, k, v), wide) = With(Effective(mine, wide), k, v)
        BY PutShows
      <3> QED BY <1>2, <3>1, <3>2
    <2>6. /\ WriteOwn(by, a, e, With(own[a][e], k, v))
          /\ MayMove(by, e, before, With(before, k, v)) /\ DocumentOk(With(before, k, v), KindOf[a])
      BY <1>7, <2>2 DEF CopyUnit
    <2> QED BY <2>2, <2>4, <2>5, <2>6
  <1>8. CASE \E x \in Offers : PutUnit(by, a, e, x.key, x.value)
    BY <1>3, <1>8, Zenon
  <1>9. CASE \E k \in DOMAIN own[a][e] : DeleteUnit(by, a, e, k)
    BY <1>4, <1>5, <1>9, Zenon
  <1>10. CASE \E from \in PolicyEnvs : \E k : CopyUnit(by, a, from, e, k)
    <2>4. PICK from \in PolicyEnvs : \E k : CopyUnit(by, a, from, e, k)
      BY <1>10
    <2>1. PICK k : CopyUnit(by, a, from, e, k)
      BY <2>4
    <2>2. CASE Has(PolicyFor(a, from), k)
      BY <1>7, <2>1, <2>2, Zenon
    <2>3. CASE ~Has(PolicyFor(a, from), k)
      BY <1>4, <1>6, <2>1, <2>3, Zenon
    <2> QED BY <2>2, <2>3
  <1> QED BY <1>8, <1>9, <1>10

(* A document that moves nothing of the environment's hands on each of its *)
(* units as before.                                                        *)
LEMMA UnmovedIsSeen ==
    ASSUME NEW e, NEW before, NEW after, MayMove("owner", e, before, after),
           NEW k \in DOMAIN InheritedUnits(global[e]) \ {DisabledKey},
           k \in DOMAIN before, k \in DOMAIN after
    PROVE  Get(ActiveDocument(after), k, Nothing) = Get(ActiveDocument(before), k, Nothing)
  <1> DEFINE wide == InheritedUnits(global[e])
  <1>1. Signature(wide, before, k) = Signature(wide, after, k)
    BY DEF MayMove, GlobalUnitChanges
  <1>2. before[k] = after[k]
    <2>1. Signature(wide, before, k).value = before[k] /\ Signature(wide, after, k).value = after[k]
      BY DEF Signature, Has
    <2> QED BY <1>1, <2>1
  <1>3. k \in DisabledUnits(before) <=> k \in DisabledUnits(after)
    <2>1. /\ Signature(wide, before, k).off = (k # DisabledKey /\ k \in DisabledUnits(before))
          /\ Signature(wide, after, k).off = (k # DisabledKey /\ k \in DisabledUnits(after))
      BY Zenon DEF Signature
    <2>2. (k # DisabledKey /\ k \in DisabledUnits(before)) = (k # DisabledKey /\ k \in DisabledUnits(after))
      BY <1>1, <2>1, Zenon
    <2> QED BY <2>2, Zenon
  <1> QED BY <1>2, <1>3, ActiveHolds DEF Get, Has

LEMMA YInvInit ==
    ASSUME PolicyInit
    PROVE  YInv
  <1>1. DOMAIN Nothing = {}
    BY DEF Nothing
  <1>2. Lists(Nothing)
    BY <1>1 DEF Lists, Has
  <1>3. PoliciesShaped
    BY DEF PolicyInit, PoliciesShaped
  <1>4. DisabledAreLists
    BY <1>2 DEF PolicyInit, DisabledAreLists
  <1> QED BY <1>3, <1>4 DEF YInv

LEMMA OwnNextKeeps ==
    ASSUME YInv, NEW by, NEW a \in PolicyApis, NEW e \in PolicyEnvs, NEW doc,
           WriteOwn(by, a, e, doc), Lists(doc)
    PROVE  YInv'
  <1>1. own' = [own EXCEPT ![a][e] = doc] /\ global' = global /\ queue' = queue
    BY DEF WriteOwn
  <1>2. /\ own'[a][e] = doc
        /\ \A b \in PolicyApis, f \in PolicyEnvs : b # a \/ f # e => own'[b][f] = own[b][f]
        /\ own' = [b \in PolicyApis |-> [f \in PolicyEnvs |-> own'[b][f]]]
    BY <1>1, OwnWriteHolds DEF YInv
  <1>3. PoliciesShaped'
    BY <1>1, <1>2 DEF YInv, PoliciesShaped
  <1>4. \A b \in PolicyApis, f \in PolicyEnvs : Lists(own'[b][f])
    BY <1>2 DEF YInv, DisabledAreLists
  <1>5. \A f \in PolicyEnvs : Lists(global'[f])
    BY <1>1 DEF YInv, DisabledAreLists
  <1>6. \A o \in queue' : Lists(o.policy)
    BY <1>1 DEF YInv, DisabledAreLists
  <1>7. DisabledAreLists'
    BY <1>4, <1>5, <1>6 DEF DisabledAreLists, Lists, Has
  <1> QED BY <1>3, <1>7 DEF YInv

LEMMA GlobalNextKeeps ==
    ASSUME YInv, GlobalNext(Offers)
    PROVE  YInv'
  <1>1. PICK e \in PolicyEnvs :
          \/ \E x \in Offers : PutGlobal(e, x.key, x.value)
          \/ \E k \in DOMAIN global[e] : DeleteGlobal(e, k)
          \/ \E from \in PolicyEnvs : CopyGlobal(from, e)
    BY DEF GlobalNext
  <1>2. \A f \in PolicyEnvs : Lists(global[f])
    BY DEF YInv, DisabledAreLists
  <1>3. \E doc : WriteGlobal(e, doc) /\ Lists(doc)
    <2>1. ASSUME NEW x \in Offers, PutGlobal(e, x.key, x.value)
          PROVE  WriteGlobal(e, With(global[e], x.key, x.value)) /\ Lists(With(global[e], x.key, x.value))
      <3>1. x.key = DisabledKey => "units" \in DOMAIN x.value
        BY PolicyAssumption DEF DisabledKey
      <3>2. Lists(With(global[e], x.key, x.value))
        BY <1>2, <3>1 DEF With, Over, Lists, Has
      <3> QED BY <2>1, <3>2 DEF PutGlobal
    <2>2. ASSUME NEW k \in DOMAIN global[e], DeleteGlobal(e, k)
          PROVE  WriteGlobal(e, Without(global[e], {k})) /\ Lists(Without(global[e], {k}))
      <3>1. Lists(Without(global[e], {k}))
        BY <1>2 DEF Without, Restrict, Lists, Has
      <3> QED BY <2>2, <3>1 DEF DeleteGlobal
    <2>3. ASSUME NEW from \in PolicyEnvs, CopyGlobal(from, e)
          PROVE  WriteGlobal(e, Over(global[from], global[e])) /\ Lists(Over(global[from], global[e]))
      <3>1. Lists(Over(global[from], global[e]))
        BY <1>2 DEF Over, Lists, Has
      <3> QED BY <2>3, <3>1 DEF CopyGlobal
    <2> QED BY <1>1, <2>1, <2>2, <2>3, Zenon
  <1>4. PICK doc : WriteGlobal(e, doc) /\ Lists(doc)
    BY <1>3
  <1>5. own' = own /\ queue' = queue /\ global' = [global EXCEPT ![e] = doc]
    BY <1>4 DEF WriteGlobal
  <1>6. DOMAIN global = PolicyEnvs
    BY DEF YInv, PoliciesShaped
  <1>7. /\ global' = [f \in PolicyEnvs |-> global'[f]]
        /\ \A f \in PolicyEnvs : global'[f] = IF f = e THEN doc ELSE global[f]
    BY <1>5, <1>6
  <1>8. PoliciesShaped'
    BY <1>5, <1>7 DEF YInv, PoliciesShaped
  <1>9. \A f \in PolicyEnvs : Lists(global'[f])
    BY <1>2, <1>4, <1>7
  <1>10. DisabledAreLists'
    BY <1>5, <1>9 DEF YInv, DisabledAreLists, Lists, Has
  <1> QED BY <1>8, <1>10 DEF YInv

LEMMA SendDocumentKeeps ==
    ASSUME YInv, NEW by \in {"owner", "admin"}, NEW a \in PolicyApis, NEW e \in PolicyEnvs,
           NEW sent, Lists(sent), SendDocument(by, a, e, sent)
    PROVE  YInv'
  <1>1. PICK key : queue' = {[api |-> a, env |-> e, by |-> by,
                              policy |-> IF by = "admin" THEN sent ELSE With(sent, "auth.subscriptionKey", key)]}
    BY DEF SendDocument
  <1>2. PICK policy : policy = IF by = "admin" THEN sent ELSE With(sent, "auth.subscriptionKey", key)
    OBVIOUS
  <1>3. Lists(policy)
    <2>1. Lists(With(sent, "auth.subscriptionKey", key))
      BY DEF With, Over, Lists, Has, DisabledKey
    <2> QED BY <1>2, <2>1
  <1>4. \A o \in queue' : o.api = a /\ o.env = e /\ o.policy = policy
    BY <1>1, <1>2
  <1>5. own' = own /\ global' = global
    BY DEF SendDocument
  <1>6. PoliciesShaped'
    BY <1>4, <1>5 DEF YInv, PoliciesShaped
  <1>7. DisabledAreLists'
    BY <1>3, <1>4, <1>5 DEF YInv, DisabledAreLists, Lists, Has
  <1> QED BY <1>6, <1>7 DEF YInv

LEMMA ActivateKeeps ==
    ASSUME YInv, NEW o \in queue, Activate(o)
    PROVE  YInv'
  <1>1. PICK S : S \subseteq DOMAIN o.policy /\ own' = [own EXCEPT ![o.api][o.env] = Restrict(o.policy, S)]
    <2> DEFINE wide == InheritedUnits(global[o.env])
               S == {k \in DOMAIN o.policy : ~(Has(wide, k) /\ wide[k] = o.policy[k])}
    <2>1. own' = [own EXCEPT ![o.api][o.env] = Restrict(o.policy, S)]
      BY DEF Activate
    <2> QED BY <2>1
  <1>2. queue' \subseteq queue /\ global' = global /\ o.api \in PolicyApis /\ o.env \in PolicyEnvs /\ Lists(o.policy)
    BY DEF Activate, YInv, PoliciesShaped, DisabledAreLists
  <1>3. Lists(Restrict(o.policy, S))
    BY <1>1, <1>2 DEF Restrict, Lists, Has
  <1>4. /\ own'[o.api][o.env] = Restrict(o.policy, S)
        /\ \A b \in PolicyApis, f \in PolicyEnvs : b # o.api \/ f # o.env => own'[b][f] = own[b][f]
        /\ own' = [b \in PolicyApis |-> [f \in PolicyEnvs |-> own'[b][f]]]
    BY <1>1, <1>2, OwnWriteHolds DEF YInv
  <1>5. PoliciesShaped'
    BY <1>2, <1>4 DEF YInv, PoliciesShaped
  <1>6. \A b \in PolicyApis, f \in PolicyEnvs : Lists(own'[b][f])
    BY <1>3, <1>4 DEF YInv, DisabledAreLists
  <1>7. DisabledAreLists'
    BY <1>2, <1>6 DEF YInv, DisabledAreLists, Lists, Has
  <1> QED BY <1>5, <1>7 DEF YInv

(* An edit is a write of one API's own units, of an environment's, a       *)
(* document that is sent, or one that is applied.                          *)
LEMMA EditKinds ==
    ASSUME YInv, PolicyEdits
    PROVE  \/ \E by \in {"owner", "admin"}, a \in PolicyApis, e \in PolicyEnvs :
                 \E doc, after :
                    /\ WriteOwn(by, a, e, doc) /\ Lists(doc)
                    /\ MayMove(by, e, PolicyFor(a, e), after) /\ DocumentOk(after, KindOf[a])
                    /\ by = "owner" => Effective(doc, global[e]) \in {PolicyFor(a, e), after}
           \/ GlobalNext(Offers)
           \/ \E by \in {"owner", "admin"}, a \in PolicyApis, e \in PolicyEnvs :
                 \E sent : Lists(sent) /\ SendDocument(by, a, e, sent)
           \/ \E o \in queue : Activate(o)
  <1>1. CASE OwnNext({"owner", "admin"}, Offers, PolicyApis, PolicyEnvs)
    <2>1. PICK by \in {"owner", "admin"}, a \in PolicyApis, e \in PolicyEnvs :
             \/ \E x \in Offers : PutUnit(by, a, e, x.key, x.value)
             \/ \E k \in DOMAIN own[a][e] : DeleteUnit(by, a, e, k)
             \/ \E from \in PolicyEnvs : \E k : CopyUnit(by, a, from, e, k)
      BY <1>1 DEF OwnNext
    <2> QED BY <2>1, OwnWriteShows
  <1>2. CASE QueueNext(Offers, PolicyApis, PolicyEnvs)
    <2>1. CASE \E o \in queue : Activate(o)
      BY <2>1
    <2>2. ASSUME NEW by \in {"owner", "admin"}, NEW a \in PolicyApis, NEW e \in PolicyEnvs, NEW sent,
                 sent \in {PolicyFor(a, e)} \cup {With(PolicyFor(a, e), x.key, x.value) : x \in Offers}
                          \cup {Without(PolicyFor(a, e), {k}) : k \in DOMAIN PolicyFor(a, e)}
          PROVE  Lists(sent)
      <3>1. Lists(PolicyFor(a, e))
        BY PolicyForHolds DEF YInv, DisabledAreLists
      <3>2. CASE sent = PolicyFor(a, e)
        BY <3>1, <3>2
      <3>3. CASE sent \in {With(PolicyFor(a, e), x.key, x.value) : x \in Offers}
        <4>1. PICK x \in Offers : sent = With(PolicyFor(a, e), x.key, x.value)
          BY <3>3
        <4>2. x.key = DisabledKey => "units" \in DOMAIN x.value
          BY PolicyAssumption DEF DisabledKey
        <4> QED BY <3>1, <4>1, <4>2 DEF With, Over, Lists, Has
      <3>4. CASE sent \in {Without(PolicyFor(a, e), {k}) : k \in DOMAIN PolicyFor(a, e)}
        <4>1. PICK k : sent = Without(PolicyFor(a, e), {k})
          BY <3>4
        <4> QED BY <3>1, <4>1 DEF Without, Restrict, Lists, Has
      <3> QED BY <2>2, <3>2, <3>3, <3>4
    <2>3. CASE \E by \in {"owner", "admin"}, a \in PolicyApis, e \in PolicyEnvs :
                  \E sent \in {PolicyFor(a, e)} \cup {With(PolicyFor(a, e), x.key, x.value) : x \in Offers}
                              \cup {Without(PolicyFor(a, e), {k}) : k \in DOMAIN PolicyFor(a, e)} :
                     SendDocument(by, a, e, sent)
      BY <2>2, <2>3
    <2> QED BY <1>2, <2>1, <2>3 DEF QueueNext
  <1> QED BY <1>1, <1>2 DEF PolicyEdits

LEMMA PolicyStep ==
    ASSUME YInv, PolicyEdits
    PROVE  YInv'
  BY EditKinds, OwnNextKeeps, GlobalNextKeeps, SendDocumentKeeps, ActivateKeeps

(* The two tables of policy units stay in shape.                           *)
THEOREM PolicyInvariant == PolicySpec => []YInv
  <1>1. PolicyInit => YInv
    BY YInvInit
  <1>2. YInv /\ [PolicyEdits]_pvars => YInv'
    <2>1. ASSUME YInv, UNCHANGED pvars PROVE YInv'
      BY <2>1 DEF pvars, YInv, PoliciesShaped, DisabledAreLists, Lists, Has
    <2> QED BY <2>1, PolicyStep
  <1> QED BY <1>1, <1>2, PTL DEF PolicySpec

LEMMA WriteOwnShows ==
    ASSUME YInv, NEW by, NEW a \in PolicyApis, NEW e \in PolicyEnvs, NEW doc,
           WriteOwn(by, a, e, doc)
    PROVE  /\ own'[a][e] = doc
           /\ \A b \in PolicyApis, f \in PolicyEnvs : b # a \/ f # e => own'[b][f] = own[b][f]
  <1>1. own' = [own EXCEPT ![a][e] = doc]
    BY DEF WriteOwn
  <1>2. /\ own'[a][e] = doc
        /\ \A b \in PolicyApis, f \in PolicyEnvs : b # a \/ f # e => own'[b][f] = own[b][f]
        /\ own' = [b \in PolicyApis |-> [f \in PolicyEnvs |-> own'[b][f]]]
    BY <1>1, OwnWriteHolds DEF YInv
  <1> QED BY <1>2

LEMMA OwnersStep ==
    ASSUME YInv, PolicyEdits, edit' = [by |-> "owner", tier |-> "own"],
           NEW a \in PolicyApis, NEW e \in PolicyEnvs, PolicyFor(a, e)' # PolicyFor(a, e),
           NEW k \in DOMAIN InheritedUnits(global[e]) \ {DisabledKey}
    PROVE  Get(ActiveDocument(PolicyFor(a, e))', k, Nothing) = Get(ActiveDocument(PolicyFor(a, e)), k, Nothing)
  <1>1. PICK by \in {"owner", "admin"}, b \in PolicyApis, f \in PolicyEnvs :
           \E doc, after :
              /\ WriteOwn(by, b, f, doc) /\ Lists(doc)
              /\ MayMove(by, f, PolicyFor(b, f), after) /\ DocumentOk(after, KindOf[b])
              /\ by = "owner" => Effective(doc, global[f]) \in {PolicyFor(b, f), after}
    <2>1. ~GlobalNext(Offers)
      <3>1. GlobalNext(Offers) => edit' = [by |-> "admin", tier |-> "global"]
        BY DEF GlobalNext, PutGlobal, DeleteGlobal, CopyGlobal, WriteGlobal
      <3> QED BY <3>1
    <2>2. ASSUME NEW x, NEW y, NEW z, NEW sent PROVE ~SendDocument(x, y, z, sent)
      BY DEF SendDocument
    <2>3. ASSUME NEW o PROVE ~Activate(o)
      BY DEF Activate
    <2> QED BY <2>1, <2>2, <2>3, EditKinds
  <1>2. PICK doc, after :
              /\ WriteOwn(by, b, f, doc) /\ Lists(doc)
              /\ MayMove(by, f, PolicyFor(b, f), after) /\ DocumentOk(after, KindOf[b])
              /\ by = "owner" => Effective(doc, global[f]) \in {PolicyFor(b, f), after}
    BY <1>1
  <1>3. /\ own' = [own EXCEPT ![b][f] = doc] /\ global' = global
        /\ edit' = [by |-> by, tier |-> "own"]
    BY <1>2 DEF WriteOwn
  <1>4. by = "owner"
    BY <1>3
  <1>5. own'[b][f] = doc /\ \A c \in PolicyApis, g \in PolicyEnvs : c # b \/ g # f => own'[c][g] = own[c][g]
    <2>1. WriteOwn(by, b, f, doc)
      BY <1>2
    <2> QED BY <2>1, WriteOwnShows
  <1>6. a = b /\ e = f
    BY <1>3, <1>5 DEF PolicyFor
  <1>7. PolicyFor(a, e)' = Effective(doc, global[e])
    BY <1>3, <1>5, <1>6 DEF PolicyFor
  <1>8. PolicyFor(a, e)' = after
    BY <1>2, <1>4, <1>6, <1>7
  <1>9. k \in DOMAIN PolicyFor(a, e)
    BY PolicyForHolds
  <1>10. k \in DOMAIN after
    <2>1. after = Over(doc, InheritedUnits(global[e]))
      BY <1>7, <1>8 DEF Effective
    <2> QED BY <2>1 DEF Over
  <1>11. Get(ActiveDocument(after), k, Nothing) = Get(ActiveDocument(PolicyFor(a, e)), k, Nothing)
    <2>1. MayMove("owner", e, PolicyFor(a, e), after)
      BY <1>2, <1>4, <1>6
    <2> QED BY <1>9, <1>10, <2>1, UnmovedIsSeen
  <1>12. ActiveDocument(PolicyFor(a, e))' = ActiveDocument(after)
    <2>1. ActiveDocument(PolicyFor(a, e))' = ActiveDocument(PolicyFor(a, e)')
      BY DEF ActiveDocument, Without, Restrict, DisabledUnits, Has
    <2> QED BY <1>8, <2>1
  <1> QED BY <1>11, <1>12

(* An owner's write never changes how a unit the environment sets reaches  *)
(* an API (MayMove's signature, api/resources.ts, api/promotion.ts).       *)
THEOREM Owners_Leave_Globals == PolicySpec => OwnersLeaveGlobals
  <1>1. YInv /\ [PolicyEdits]_pvars =>
          [edit' = [by |-> "owner", tier |-> "own"] =>
             \A a \in PolicyApis, e \in PolicyEnvs : PolicyFor(a, e)' # PolicyFor(a, e) =>
                \A k \in DOMAIN InheritedUnits(global[e]) \ {DisabledKey} :
                   Get(ActiveDocument(PolicyFor(a, e))', k, Nothing) =
                   Get(ActiveDocument(PolicyFor(a, e)), k, Nothing)]_pvars
    BY OwnersStep
  <1> QED BY <1>1, PolicyInvariant, PTL DEF PolicySpec, OwnersLeaveGlobals

LEMMA ServingStep ==
    ASSUME YInv, PolicyEdits, edit' # [by |-> "admin", tier |-> "own"],
           NEW a \in PolicyApis, NEW e \in PolicyEnvs, PolicyFor(a, e)' # PolicyFor(a, e)
    PROVE  Served(a, e)'
  <1>1. SUFFICES DocumentOk(ActiveDocument(PolicyFor(a, e)'), KindOf[a])
    BY DEF Served
  <1>2. ASSUME DocumentOk(PolicyFor(a, e)', KindOf[a])
        PROVE  DocumentOk(ActiveDocument(PolicyFor(a, e)'), KindOf[a])
    BY <1>2, ActiveIsOk
  <1>3. ASSUME NEW by \in {"owner", "admin"}, NEW b \in PolicyApis, NEW f \in PolicyEnvs,
               NEW doc, NEW after,
               WriteOwn(by, b, f, doc), DocumentOk(after, KindOf[b]),
               by = "owner" => Effective(doc, global[f]) \in {PolicyFor(b, f), after}
        PROVE  DocumentOk(PolicyFor(a, e)', KindOf[a])
    <2>1. /\ own' = [own EXCEPT ![b][f] = doc] /\ global' = global
          /\ edit' = [by |-> by, tier |-> "own"]
      BY <1>3 DEF WriteOwn
    <2>2. by = "owner"
      BY <2>1
    <2>3. own'[b][f] = doc /\ \A c \in PolicyApis, g \in PolicyEnvs : c # b \/ g # f => own'[c][g] = own[c][g]
      BY <1>3, WriteOwnShows
    <2>4. a = b /\ e = f
      BY <2>1, <2>3 DEF PolicyFor
    <2>5. PolicyFor(a, e)' = Effective(doc, global[e])
      BY <2>1, <2>3, <2>4 DEF PolicyFor
    <2> QED BY <1>3, <2>2, <2>4, <2>5
  <1>4. ASSUME GlobalNext(Offers)
        PROVE  DocumentOk(PolicyFor(a, e)', KindOf[a])
    <2>1. PICK f \in PolicyEnvs : \E doc : WriteGlobal(f, doc)
      BY <1>4 DEF GlobalNext, PutGlobal, DeleteGlobal, CopyGlobal
    <2>2. PICK doc : WriteGlobal(f, doc)
      BY <2>1
    <2>3. own' = own /\ global' = [global EXCEPT ![f] = doc] /\ DOMAIN global = PolicyEnvs
      BY <2>2 DEF WriteGlobal, YInv, PoliciesShaped
    <2>4. e = f /\ global'[e] = doc
      BY <2>3 DEF PolicyFor
    <2>5. PolicyFor(a, e)' = Effective(own[a][e], doc)
      BY <2>3, <2>4 DEF PolicyFor
    <2>6. a \notin Conflicts(e, doc)
      BY <2>2, <2>4 DEF WriteGlobal
    <2> QED BY <2>5, <2>6 DEF Conflicts
  <1>5. ASSUME NEW by, NEW b, NEW f, NEW sent PROVE ~SendDocument(by, b, f, sent)
    BY DEF SendDocument, PolicyFor
  <1>6. ASSUME NEW o \in queue, Activate(o)
        PROVE  DocumentOk(ActiveDocument(PolicyFor(a, e)'), KindOf[a])
    <2>1. o.api \in PolicyApis /\ o.env \in PolicyEnvs
      BY DEF YInv, PoliciesShaped
    <2>2. PICK kept : own' = [own EXCEPT ![o.api][o.env] = kept]
      BY <1>6 DEF Activate
    <2>3. global' = global
      BY <1>6 DEF Activate
    <2>4. \A c \in PolicyApis, g \in PolicyEnvs : c # o.api \/ g # o.env => own'[c][g] = own[c][g]
      BY <2>1, <2>2, OwnWriteHolds DEF YInv
    <2>5. e = o.env
      BY <2>3, <2>4 DEF PolicyFor
    <2>6. PolicyFor(a, e)' = Effective(own'[a][o.env], global[o.env])
      BY <2>3, <2>5 DEF PolicyFor
    <2>7. DocumentOk(ActiveDocument(Effective(own'[a][o.env], global[o.env])), KindOf[a])
      BY <1>6 DEF Activate
    <2> QED BY <2>6, <2>7
  <1> QED BY <1>2, <1>3, <1>4, <1>5, <1>6, EditKinds

(* No write but an administrator's of one API's own units makes the build  *)
(* leave out an API it served, one applied after both tiers changed        *)
(* included (validateDocument, assertNoGlobalConflict, runOperations).     *)
THEOREM Writes_Keep_Serving == PolicySpec => WritesKeepServing
  <1>1. YInv /\ [PolicyEdits]_pvars =>
          [pvars' # pvars /\ edit' # [by |-> "admin", tier |-> "own"] =>
             \A a \in PolicyApis, e \in PolicyEnvs :
                PolicyFor(a, e)' # PolicyFor(a, e) /\ Served(a, e) => Served(a, e)']_pvars
    BY ServingStep
  <1> QED BY <1>1, PolicyInvariant, PTL DEF PolicySpec, WritesKeepServing

-----------------------------------------------------------------------------
(* Drafts.  The tables are shaped, what a release, an operation or a       *)
(* request under way names is there, only an API that exists has           *)
(* revisions, a tombstone is empty, and a release that was superseded was  *)
(* superseded by one that reached the fleet.                               *)
ReleaseRow == [rev : Nat, state : {"pending", "converged", "failed", "superseded", "withdrawn"}]
Digests == {BundleOf[d] : d \in Definitions}
Held(h) ==
    \/ h.op = "none"
    \/ h.op \in {"patch", "route", "version"} /\ h.a \in Apis /\ h.row \in ApiRow /\ h.row.known
    \/ h.op = "upload" /\ h.a \in Apis
    \/ h.op = "correct" /\ h.a \in Apis /\ h.digest \in Definitions
RowsOK ==
    /\ api \in [Apis -> ApiRow]
    /\ route \in [Apis -> {NoRoute} \cup [domain : Domains, tail : Versions]]
    /\ revision \in [Apis -> Seq(Revision)] /\ release \in [Apis -> Seq(ReleaseRow)]
    /\ bundle \subseteq Digests \ {""}
RequestsOK ==
    /\ DOMAIN draft = Drafters
    /\ \A r \in Drafters :
          /\ Held(draft[r])
          /\ draft[r].op # "none" => api[draft[r].a].known
          /\ draft[r].op = "correct" => draft[r].n \in DOMAIN revision[draft[r].a]
NamedAreThere ==
    /\ \A a \in Apis : \A k \in DOMAIN release[a] : release[a][k].rev \in DOMAIN revision[a]
    /\ \A a \in Apis, n \in Nat : Id(a, n) \in queued => n \in DOMAIN revision[a]
RevisionsOK ==
    \A a \in Apis :
        /\ ~api[a].known => revision[a] = <<>>
        /\ Len(revision[a]) <= MaxRevisions
        /\ \A n \in DOMAIN revision[a] : revision[a][n].pruned => revision[a][n].body = Empty
SupersededByOne ==
    \A a \in Apis : InState(a, {"superseded"}) => InState(a, {"converged", "withdrawn"})
DInv == RowsOK /\ RequestsOK /\ NamedAreThere /\ RevisionsOK /\ BundlesKept /\ SupersededByOne

LEMMA DInvInit ==
    ASSUME DraftsInit
    PROVE  DInv
  <1>1. /\ AnyOf(Applications) \in Applications /\ AnyOf(Versions) \in Versions
        /\ AnyOf(Domains) \in Domains /\ AnyOf(Texts) \in Texts /\ AnyOf(Definitions) \in Definitions
    BY DraftsAssumption DEF AnyOf
  <1>2. \A a \in Apis : [known |-> a = First, owner |-> AnyOf(Applications), version |-> AnyOf(Versions),
                         domain |-> AnyOf(Domains), text |-> AnyOf(Texts)] \in ApiRow
    <2> TAKE a \in Apis
    <2>1. CASE a = First
      <3>1. (a = First) = TRUE
        BY <2>1
      <3> QED BY <1>1, <3>1 DEF ApiRow
    <2>2. CASE a # First
      <3>1. (a = First) = FALSE
        BY <2>2
      <3> QED BY <1>1, <3>1 DEF ApiRow
    <2> QED BY <2>1, <2>2
  <1>3. PICK row : row = [Fresh(AnyOf(Definitions), Unset) EXCEPT !.old = TRUE]
    OBVIOUS
  <1>4. row \in Revision /\ row.pruned = FALSE /\ row.bundle = Unset
    BY <1>1, <1>3 DEF Fresh, Revision
  <1>5. PICK first \in {<<>>, <<row>>} : revision = [a \in Apis |-> IF a = First THEN first ELSE <<>>]
    BY <1>3 DEF DraftsInit
  <1>6. /\ first \in Seq(Revision) /\ Len(first) <= 1
        /\ \A n \in DOMAIN first : first[n] = row
    <2>1. CASE first = <<>>
      BY <2>1
    <2>2. CASE first = <<row>>
      <3>1. <<row>> \in Seq(Revision) /\ Len(<<row>>) = 1 /\ DOMAIN <<row>> = {1} /\ <<row>>[1] = row
        BY <1>4
      <3> QED BY <2>2, <3>1
    <2> QED BY <1>5, <2>1, <2>2
  <1>7. /\ revision \in [Apis -> Seq(Revision)]
        /\ \A a \in Apis : /\ Len(revision[a]) <= 1 /\ (a # First => revision[a] = <<>>)
                           /\ \A n \in DOMAIN revision[a] : revision[a][n] = row
    BY <1>5, <1>6
  <1>8. /\ \A a \in Apis : api[a].known <=> a = First
        /\ api \in [Apis -> ApiRow]
    BY <1>2 DEF DraftsInit
  <1>9. /\ route = [a \in Apis |-> NoRoute] /\ bundle = {} /\ release = [a \in Apis |-> <<>>]
        /\ queued = {} /\ draft = [r \in Drafters |-> Waiting] /\ Waiting.op = "none"
    BY DEF DraftsInit, Waiting
  <1>10. RowsOK
    BY <1>7, <1>8, <1>9 DEF RowsOK
  <1>11. RequestsOK
    BY <1>9 DEF RequestsOK, Held
  <1>12. NamedAreThere /\ SupersededByOne
    BY <1>9 DEF NamedAreThere, SupersededByOne, InState
  <1>13. MaxRevisions \in Nat \ {0} /\ \A a \in Apis : Len(revision[a]) \in Nat
    BY <1>7, DraftsAssumption
  <1>14. RevisionsOK
    BY <1>4, <1>7, <1>8, <1>13 DEF RevisionsOK
  <1>15. BundlesKept
    BY <1>4, <1>7 DEF BundlesKept
  <1> QED BY <1>10, <1>11, <1>12, <1>14, <1>15 DEF DInv

(* A revision of a table in shape.                                         *)
LEMMA RevisionsInShape ==
    ASSUME RowsOK, NEW a \in Apis
    PROVE  /\ revision[a] \in Seq(Revision) /\ DOMAIN revision[a] = 1..Len(revision[a])
           /\ Len(revision[a]) \in Nat /\ \A n \in DOMAIN revision[a] : revision[a][n] \in Revision
           /\ release[a] \in Seq(ReleaseRow) /\ DOMAIN release[a] = 1..Len(release[a])
           /\ Len(release[a]) \in Nat /\ \A k \in DOMAIN release[a] : release[a][k] \in ReleaseRow
           /\ api[a] \in ApiRow
  <1>1. revision[a] \in Seq(Revision) /\ release[a] \in Seq(ReleaseRow) /\ api[a] \in ApiRow
    BY DEF RowsOK
  <1>2. DOMAIN revision[a] = 1..Len(revision[a]) /\ Len(revision[a]) \in Nat
    BY <1>1
  <1>3. DOMAIN release[a] = 1..Len(release[a]) /\ Len(release[a]) \in Nat
    BY <1>1
  <1>4. \A n \in DOMAIN revision[a] : revision[a][n] \in Revision
    BY <1>1
  <1>5. \A k \in DOMAIN release[a] : release[a][k] \in ReleaseRow
    BY <1>1
  <1> QED BY <1>1, <1>2, <1>3, <1>4, <1>5

(* What the requests under way hold stays there while no API and no        *)
(* revision goes.                                                          *)
LEMMA RequestsStay ==
    ASSUME RequestsOK, draft' = draft \/ \E r \in Drafters : draft' = [draft EXCEPT ![r] = Waiting],
           \A a \in Apis : api[a].known => api'[a].known,
           \A a \in Apis : DOMAIN revision[a] \subseteq DOMAIN revision'[a]
    PROVE  RequestsOK'
  <1>1. DOMAIN draft' = Drafters
    BY DEF RequestsOK
  <1>2. Waiting.op = "none"
    BY DEF Waiting
  <1>3. \A r \in Drafters : draft'[r] = draft[r] \/ draft'[r] = Waiting
    BY DEF RequestsOK
  <1>4. \A r \in Drafters : draft[r].op # "none" => draft[r].a \in Apis
    BY DEF RequestsOK, Held
  <1>5. ASSUME NEW r \in Drafters
        PROVE  /\ Held(draft'[r])
               /\ draft'[r].op # "none" => api'[draft'[r].a].known
               /\ draft'[r].op = "correct" => draft'[r].n \in DOMAIN revision'[draft'[r].a]
    <2>1. CASE draft'[r] = Waiting
      BY <1>2, <2>1 DEF Held
    <2>2. CASE draft'[r] = draft[r]
      BY <1>4, <2>2 DEF RequestsOK
    <2> QED BY <1>3, <2>1, <2>2
  <1> QED BY <1>1, <1>5 DEF RequestsOK, Held

(* A step that leaves the revisions, the bundles and the releases alone.   *)
LEMMA AddressKeeps ==
    ASSUME DInv, UNCHANGED <<revision, bundle, release>>, queued' \subseteq queued,
           api' \in [Apis -> ApiRow], \A a \in Apis : api[a].known => api'[a].known,
           route' \in [Apis -> {NoRoute} \cup [domain : Domains, tail : Versions]], RequestsOK'
    PROVE  DInv'
  <1>1. RowsOK'
    BY DEF DInv, RowsOK
  <1>2. NamedAreThere'
    BY DEF DInv, NamedAreThere, Id
  <1>3. RevisionsOK'
    BY DEF DInv, RevisionsOK
  <1>4. BundlesKept' /\ SupersededByOne'
    BY DEF DInv, BundlesKept, SupersededByOne, InState
  <1> QED BY <1>1, <1>2, <1>3, <1>4 DEF DInv

LEMMA BeginKeeps ==
    ASSUME DInv, NEW r \in Drafters, NEW held, Begin(r, held), Held(held), held.op # "none",
           api[held.a].known, held.op = "correct" => held.n \in DOMAIN revision[held.a]
    PROVE  DInv'
  <1>1. /\ draft' = [draft EXCEPT ![r] = held]
        /\ UNCHANGED <<api, route, revision, bundle, release, planned, queued>>
    BY DEF Begin
  <1>2. DOMAIN draft = Drafters
    BY DEF DInv, RequestsOK
  <1>3. DOMAIN draft' = Drafters /\ \A q \in Drafters : draft'[q] = IF q = r THEN held ELSE draft[q]
    BY <1>1, <1>2
  <1>4. ASSUME NEW q \in Drafters
        PROVE  /\ Held(draft'[q])
               /\ draft'[q].op # "none" => api[draft'[q].a].known
               /\ draft'[q].op = "correct" => draft'[q].n \in DOMAIN revision[draft'[q].a]
    BY <1>3 DEF DInv, RequestsOK
  <1>5. RequestsOK'
    BY <1>1, <1>3, <1>4 DEF RequestsOK, Held
  <1> QED BY <1>1, <1>5, AddressKeeps DEF DInv, RowsOK

LEMMA RefuseKeeps ==
    ASSUME DInv, NEW r \in Drafters, Refuse(r)
    PROVE  DInv'
  <1>1. /\ draft' = [draft EXCEPT ![r] = Waiting]
        /\ UNCHANGED <<api, route, revision, bundle, release, planned, queued>>
    BY DEF Refuse, Done
  <1>2. RequestsOK'
    BY <1>1, RequestsStay DEF DInv
  <1> QED BY <1>1, <1>2, AddressKeeps DEF DInv, RowsOK

LEMMA CreateApiKeeps ==
    ASSUME DInv, NEW a \in Apis, NEW owner \in Applications, NEW version \in Versions,
           NEW domain \in Domains, CreateApi(a, owner, version, domain)
    PROVE  DInv'
  <1>1. PICK row : row = [known |-> TRUE, owner |-> owner, version |-> version, domain |-> domain,
                          text |-> AnyOf(Texts)]
    OBVIOUS
  <1>2. row \in ApiRow /\ row.known
    BY <1>1, DraftsAssumption DEF ApiRow, AnyOf
  <1>3. api' = [api EXCEPT ![a] = row] /\ UNCHANGED <<route, revision, bundle, release, planned, queued, draft>>
    BY <1>1 DEF CreateApi
  <1>4. api' \in [Apis -> ApiRow] /\ \A b \in Apis : api[b].known => api'[b].known
    BY <1>2, <1>3 DEF DInv, RowsOK
  <1>5. RequestsOK'
    BY <1>3, <1>4, RequestsStay DEF DInv
  <1> QED BY <1>3, <1>4, <1>5, AddressKeeps DEF DInv, RowsOK

LEMMA PatchEndKeeps ==
    ASSUME DInv, NEW r \in Drafters, PatchEnd(r)
    PROVE  DInv'
  <1>1. CASE Refuse(r)
    BY <1>1, RefuseKeeps
  <1>2. CASE ~Refuse(r)
    <2> PICK a : a = draft[r].a
      OBVIOUS
    <2>1. PICK version \in Versions, domain \in Domains, text \in Texts :
             /\ api' = [api EXCEPT ![a] = [@ EXCEPT !.version = version, !.domain = domain, !.text = text]]
             /\ Done(r) /\ UNCHANGED <<route, revision, bundle, release, planned, queued>>
      BY <1>2, Zenon DEF PatchEnd
    <2>2. a \in Apis
      BY <2>1 DEF PatchEnd, DInv, RequestsOK, Held
    <2>3. PICK row : row = [api[a] EXCEPT !.version = version, !.domain = domain, !.text = text]
      OBVIOUS
    <2>4. api[a] \in ApiRow
      BY <2>2 DEF DInv, RowsOK
    <2>5. row \in ApiRow /\ row.known = api[a].known
      BY <2>1, <2>3, <2>4 DEF ApiRow
    <2>6. api' = [api EXCEPT ![a] = row]
      BY <2>1, <2>3, Zenon
    <2>7. api' \in [Apis -> ApiRow] /\ \A b \in Apis : api[b].known => api'[b].known
      BY <2>2, <2>5, <2>6 DEF DInv, RowsOK
    <2>8. RequestsOK'
      BY <2>1, <2>7, RequestsStay DEF DInv, Done
    <2> QED BY <2>1, <2>7, <2>8, AddressKeeps DEF DInv, RowsOK
  <1> QED BY <1>1, <1>2

LEMMA RouteEndKeeps ==
    ASSUME DInv, NEW r \in Drafters, NEW tail \in Versions, RouteEnd(r, tail)
    PROVE  DInv'
  <1>1. CASE Refuse(r)
    BY <1>1, RefuseKeeps
  <1>2. CASE ~Refuse(r)
    <2>1. PICK a, at :
             /\ a = draft[r].a /\ at = [domain |-> draft[r].row.domain, tail |-> tail]
             /\ route' = [route EXCEPT ![a] = at]
             /\ Done(r) /\ UNCHANGED <<api, revision, bundle, release, planned, queued>>
      BY <1>2 DEF RouteEnd
    <2>2. a \in Apis /\ draft[r].row \in ApiRow
      BY <2>1 DEF RouteEnd, DInv, RequestsOK, Held
    <2>3. at \in [domain : Domains, tail : Versions]
      BY <2>1, <2>2 DEF ApiRow
    <2>4. route' \in [Apis -> {NoRoute} \cup [domain : Domains, tail : Versions]]
      BY <2>1, <2>2, <2>3 DEF DInv, RowsOK
    <2>5. RequestsOK'
      BY <2>1, RequestsStay DEF DInv, Done
    <2> QED BY <2>1, <2>4, <2>5, AddressKeeps DEF DInv, RowsOK
  <1> QED BY <1>1, <1>2


(* One row of one table of revisions: appended, or replaced.               *)
GoodRow(row, there) ==
    /\ row \in Revision
    /\ row.pruned => row.body = Empty
    /\ row.body # Empty /\ ~row.pruned /\ row.bundle \notin {"", Unset} => row.bundle \in there
OneRow(list, row, after) ==
    \/ Len(list) < MaxRevisions /\ after = Append(list, row)
    \/ \E n \in DOMAIN list : after = [list EXCEPT ![n] = row]

LEMMA OneRowShows ==
    ASSUME NEW S, NEW list \in Seq(S), NEW row \in S, NEW after, OneRow(list, row, after),
           Len(list) <= MaxRevisions
    PROVE  /\ after \in Seq(S) /\ Len(after) <= MaxRevisions /\ DOMAIN list \subseteq DOMAIN after
           /\ \A n \in DOMAIN after : after[n] = row \/ (n \in DOMAIN list /\ after[n] = list[n])
  <1>1. Len(list) \in Nat /\ DOMAIN list = 1..Len(list) /\ MaxRevisions \in Nat
    BY DraftsAssumption
  <1>2. CASE Len(list) < MaxRevisions /\ after = Append(list, row)
    <2>1. after \in Seq(S) /\ Len(after) = Len(list) + 1 /\ DOMAIN after = 1..(Len(list) + 1)
      BY <1>1, <1>2
    <2>2. \A n \in 1..(Len(list) + 1) : after[n] = IF n = Len(list) + 1 THEN row ELSE list[n]
      BY <1>1, <1>2
    <2> QED BY <1>1, <1>2, <2>1, <2>2
  <1>3. CASE \E n \in DOMAIN list : after = [list EXCEPT ![n] = row]
    <2>1. PICK n \in DOMAIN list : after = [list EXCEPT ![n] = row]
      BY <1>3
    <2>2. DOMAIN after = DOMAIN list /\ \A m \in DOMAIN list : after[m] = IF m = n THEN row ELSE list[m]
      BY <2>1
    <2>3. after \in Seq(S) /\ Len(after) = Len(list)
      BY <1>1, <2>1
    <2> QED BY <2>2, <2>3
  <1> QED BY <1>2, <1>3 DEF OneRow

LEMMA RevisionWrite ==
    ASSUME DInv, NEW a \in Apis, NEW row, NEW list, OneRow(revision[a], row, list),
           GoodRow(row, bundle'), bundle \subseteq bundle',
           revision' = [revision EXCEPT ![a] = list],
           \A b \in Apis : api[b].known => api'[b].known, api'[a].known
    PROVE  /\ revision' \in [Apis -> Seq(Revision)]
           /\ \A b \in Apis : DOMAIN revision[b] \subseteq DOMAIN revision'[b]
           /\ RevisionsOK' /\ BundlesKept'
  <1>1. revision \in [Apis -> Seq(Revision)] /\ revision[a] \in Seq(Revision) /\ row \in Revision
    BY DEF DInv, RowsOK, GoodRow
  <1>2. Len(revision[a]) <= MaxRevisions
    BY DEF DInv, RevisionsOK
  <1>3. /\ list \in Seq(Revision) /\ Len(list) <= MaxRevisions /\ DOMAIN revision[a] \subseteq DOMAIN list
        /\ \A n \in DOMAIN list : list[n] = row \/ (n \in DOMAIN revision[a] /\ list[n] = revision[a][n])
    BY <1>1, <1>2, OneRowShows
  <1>4. /\ revision' \in [Apis -> Seq(Revision)]
        /\ revision'[a] = list /\ \A b \in Apis : b # a => revision'[b] = revision[b]
    BY <1>1, <1>3
  <1>5. \A b \in Apis : \A n \in DOMAIN revision'[b] :
           \/ revision'[b][n] = row
           \/ n \in DOMAIN revision[b] /\ revision'[b][n] = revision[b][n]
    BY <1>3, <1>4
  <1>6. \A b \in Apis : DOMAIN revision[b] \subseteq DOMAIN revision'[b]
    BY <1>3, <1>4
  <1>7. RevisionsOK'
    <2>1. \A b \in Apis : Len(revision'[b]) <= MaxRevisions /\ (~api'[b].known => revision'[b] = <<>>)
      BY <1>3, <1>4 DEF DInv, RevisionsOK
    <2>2. ASSUME NEW b \in Apis, NEW n \in DOMAIN revision'[b], revision'[b][n].pruned
          PROVE  revision'[b][n].body = Empty
      <3>1. CASE revision'[b][n] = row
        BY <2>2, <3>1 DEF GoodRow
      <3>2. CASE n \in DOMAIN revision[b] /\ revision'[b][n] = revision[b][n]
        BY <2>2, <3>2 DEF DInv, RevisionsOK
      <3> QED BY <1>5, <3>1, <3>2
    <2> QED BY <2>1, <2>2 DEF RevisionsOK, Empty
  <1>8. BundlesKept'
    <2>1. ASSUME NEW b \in Apis, NEW n \in DOMAIN revision'[b],
                 revision'[b][n].body # Empty, ~revision'[b][n].pruned,
                 revision'[b][n].bundle \notin {"", Unset}
          PROVE  revision'[b][n].bundle \in bundle'
      <3>1. CASE revision'[b][n] = row
        BY <2>1, <3>1 DEF GoodRow
      <3>2. CASE n \in DOMAIN revision[b] /\ revision'[b][n] = revision[b][n]
        BY <2>1, <3>2 DEF DInv, BundlesKept
      <3> QED BY <1>5, <3>1, <3>2
    <2> QED BY <2>1 DEF BundlesKept, Empty, Unset
  <1> QED BY <1>4, <1>6, <1>7, <1>8

(* compileAndStore keeps what is stored and stores what the revision       *)
(* names.                                                                  *)
LEMMA StoredHolds ==
    ASSUME RowsOK, NEW d \in Definitions
    PROVE  /\ bundle \subseteq Stored(d) /\ Stored(d) \subseteq Digests \ {""}
           /\ BundleOf[d] # "" => BundleOf[d] \in Stored(d)
  BY DEF RowsOK, Stored, Digests

LEMMA FreshIsGood ==
    ASSUME NEW d \in Definitions, NEW there, BundleOf[d] # "" => BundleOf[d] \in there
    PROVE  GoodRow(Fresh(d, BundleOf[d]), there)
  BY DEF GoodRow, Fresh, Revision

(* A step after which every table but one of revisions is as the           *)
(* invariant wants it.                                                     *)
LEMMA RevisionStep ==
    ASSUME DInv, api' \in [Apis -> ApiRow],
           route' \in [Apis -> {NoRoute} \cup [domain : Domains, tail : Versions]],
           bundle' \subseteq Digests \ {""}, UNCHANGED release, queued' \subseteq queued,
           draft' = draft \/ \E r \in Drafters : draft' = [draft EXCEPT ![r] = Waiting],
           \A b \in Apis : api[b].known => api'[b].known,
           revision' \in [Apis -> Seq(Revision)],
           \A b \in Apis : DOMAIN revision[b] \subseteq DOMAIN revision'[b],
           RevisionsOK', BundlesKept'
    PROVE  DInv'
  <1>1. RowsOK'
    BY DEF DInv, RowsOK, Digests
  <1>2. RequestsOK'
    BY RequestsStay DEF DInv
  <1>3. NamedAreThere'
    BY DEF DInv, NamedAreThere, Id
  <1>4. SupersededByOne'
    BY DEF DInv, SupersededByOne, InState
  <1> QED BY <1>1, <1>2, <1>3, <1>4 DEF DInv

LEMMA UploadEndKeeps ==
    ASSUME DInv, NEW r \in Drafters, UploadEnd(r)
    PROVE  DInv'
  <1>1. CASE Refuse(r)
    BY <1>1, RefuseKeeps
  <1>2. CASE ~Refuse(r)
    <2> PICK a : a = draft[r].a
      OBVIOUS
    <2>1. PICK d \in Definitions :
             /\ Len(revision[a]) < MaxRevisions /\ WriteRevision(a, d)
             /\ Done(r) /\ UNCHANGED <<api, route, release, planned, queued>>
      BY <1>2 DEF UploadEnd
    <2>2. a \in Apis /\ api[a].known
      BY DEF UploadEnd, DInv, RequestsOK, Held
    <2>3. CASE UNCHANGED <<revision, bundle>>
      <3>1. RequestsOK'
        BY <2>1, <2>3, RequestsStay DEF DInv, Done
      <3> QED BY <2>1, <2>3, <3>1, AddressKeeps DEF DInv, RowsOK
    <2>4. CASE ~UNCHANGED <<revision, bundle>>
      <3> PICK row : row = Fresh(d, BundleOf[d])
        OBVIOUS
      <3> PICK list : list = Append(revision[a], row)
        OBVIOUS
      <3>1. bundle' = Stored(d) /\ revision' = [revision EXCEPT ![a] = list]
        BY <2>1, <2>4 DEF WriteRevision
      <3>2. bundle \subseteq bundle' /\ bundle' \subseteq Digests \ {""} /\ GoodRow(row, bundle')
        BY <3>1, StoredHolds, FreshIsGood DEF DInv
      <3>3. OneRow(revision[a], row, list)
        BY <2>1 DEF OneRow
      <3>4. \A b \in Apis : api[b].known => api'[b].known
        BY <2>1
      <3>5. api'[a].known
        BY <2>1, <2>2
      <3>6. /\ revision' \in [Apis -> Seq(Revision)]
            /\ \A b \in Apis : DOMAIN revision[b] \subseteq DOMAIN revision'[b]
            /\ RevisionsOK' /\ BundlesKept'
        BY <2>2, <3>1, <3>2, <3>3, <3>4, <3>5, RevisionWrite
      <3>7. draft' = [draft EXCEPT ![r] = Waiting]
        BY <2>1 DEF Done
      <3> QED BY <2>1, <3>2, <3>4, <3>6, <3>7, RevisionStep DEF DInv, RowsOK
    <2> QED BY <2>3, <2>4
  <1> QED BY <1>1, <1>2


LEMMA CorrectEndKeeps ==
    ASSUME DInv, NEW r \in Drafters, CorrectEnd(r)
    PROVE  DInv'
  <1>1. CASE Refuse(r)
    BY <1>1, RefuseKeeps
  <1>2. CASE ~Refuse(r)
    <2> PICK a, n : a = draft[r].a /\ n = draft[r].n
      OBVIOUS
    <2>1. a \in Apis /\ api[a].known /\ n \in DOMAIN revision[a]
      BY DEF CorrectEnd, DInv, RequestsOK, Held
    <2>2. PICK d \in Definitions :
             /\ bundle' = Stored(d) /\ Done(r) /\ UNCHANGED <<api, route, release, planned, queued>>
             /\ \/ UNCHANGED revision
                \/ /\ StillCorrectable(revision[a][n], draft[r].digest)
                   /\ revision' = [revision EXCEPT ![a][n] =
                                     [@ EXCEPT !.digest = d, !.body = d, !.bundle = BundleOf[d]]]
      BY <1>2, Zenon DEF CorrectEnd
    <2>3. /\ bundle \subseteq bundle' /\ bundle' \subseteq Digests \ {""}
          /\ BundleOf[d] # "" => BundleOf[d] \in bundle'
      BY <2>2, StoredHolds DEF DInv
    <2>4. draft' = [draft EXCEPT ![r] = Waiting]
      BY <2>2 DEF Done
    <2>5. \A b \in Apis : api[b].known => api'[b].known
      BY <2>2
    <2>6. CASE UNCHANGED revision
      <3>1. RevisionsOK'
        BY <2>2, <2>6 DEF DInv, RevisionsOK
      <3>2. BundlesKept'
        BY <2>3, <2>6 DEF DInv, BundlesKept
      <3> QED BY <2>2, <2>3, <2>4, <2>5, <2>6, <3>1, <3>2, RevisionStep DEF DInv, RowsOK
    <2>7. CASE ~UNCHANGED revision
      <3> PICK before : before = revision[a][n]
        OBVIOUS
      <3> PICK row : row = [before EXCEPT !.digest = d, !.body = d, !.bundle = BundleOf[d]]
        OBVIOUS
      <3> PICK list : list = [revision[a] EXCEPT ![n] = row]
        OBVIOUS
      <3>1. revision' = [revision EXCEPT ![a] = list]
        BY <2>2, <2>7, Zenon
      <3>2. before \in Revision /\ ~before.pruned
        BY <2>1, <2>2, <2>7, RevisionsInShape DEF DInv, StillCorrectable, Fixed
      <3>3. GoodRow(row, bundle')
        BY <2>3, <3>2 DEF GoodRow, Revision
      <3>4. OneRow(revision[a], row, list)
        BY <2>1 DEF OneRow
      <3>5. api'[a].known
        BY <2>1, <2>5
      <3>6. /\ revision' \in [Apis -> Seq(Revision)]
            /\ \A b \in Apis : DOMAIN revision[b] \subseteq DOMAIN revision'[b]
            /\ RevisionsOK' /\ BundlesKept'
        BY <2>1, <2>3, <2>5, <3>1, <3>3, <3>4, <3>5, RevisionWrite
      <3> QED BY <2>2, <2>3, <2>4, <2>5, <3>6, RevisionStep DEF DInv, RowsOK
    <2> QED BY <2>6, <2>7
  <1> QED BY <1>1, <1>2

LEMMA VersionEndKeeps ==
    ASSUME DInv, NEW r \in Drafters, NEW b \in Apis, NEW version \in Versions, VersionEnd(r, b, version)
    PROVE  DInv'
  <1>1. CASE Refuse(r)
    BY <1>1, RefuseKeeps
  <1>2. CASE ~Refuse(r)
    <2> PICK a, held, at : a = draft[r].a /\ held = draft[r].row
                           /\ at = [domain |-> held.domain, tail |-> version]
      OBVIOUS
    <2> PICK last : last = Latest(a)
      OBVIOUS
    <2> PICK row : row = [Fresh(last.digest, last.bundle) EXCEPT !.body = last.body]
      OBVIOUS
    <2> PICK address : address = [held EXCEPT !.version = version]
      OBVIOUS
    <2>1. /\ revision[a] # <<>> /\ ~api[b].known
          /\ api' = [api EXCEPT ![b] = address]
          /\ revision' = [revision EXCEPT ![b] = <<row>>]
          /\ route' = route \/ route' = [route EXCEPT ![b] = at]
          /\ Done(r) /\ UNCHANGED <<bundle, release, planned, queued>>
      BY <1>2 DEF VersionEnd
    <2>2. a \in Apis /\ api[a].known /\ held \in ApiRow /\ held.known
      BY DEF VersionEnd, DInv, RequestsOK, Held
    <2>3. draft' = [draft EXCEPT ![r] = Waiting]
      BY <2>1 DEF Done
    <2>4. address \in ApiRow /\ address.known
      BY <2>2 DEF ApiRow
    <2>5. api' \in [Apis -> ApiRow] /\ api'[b].known /\ \A c \in Apis : api[c].known => api'[c].known
      BY <2>1, <2>4 DEF DInv, RowsOK
    <2>6. at \in [domain : Domains, tail : Versions]
      BY <2>2 DEF ApiRow
    <2>7. route' \in [Apis -> {NoRoute} \cup [domain : Domains, tail : Versions]]
      BY <2>1, <2>6 DEF DInv, RowsOK
    <2>8. /\ Len(revision[a]) \in DOMAIN revision[a] /\ last = revision[a][Len(revision[a])]
          /\ last \in Revision
      <3>1. revision[a] \in Seq(Revision) /\ revision[a] # <<>>
        BY <2>1, <2>2 DEF DInv, RowsOK
      <3>2. Len(revision[a]) \in DOMAIN revision[a] /\ revision[a][Len(revision[a])] \in Revision
        BY <3>1
      <3> QED BY <3>2 DEF Latest
    <2>9. last.pruned => last.body = Empty
      <3>1. \A n \in DOMAIN revision[a] : revision[a][n].pruned => revision[a][n].body = Empty
        BY <2>2 DEF DInv, RevisionsOK
      <3> QED BY <2>8, <3>1
    <2>10. last.body # Empty /\ ~last.pruned /\ last.bundle \notin {"", Unset} => last.bundle \in bundle
      BY <2>2, <2>8 DEF DInv, BundlesKept
    <2>11. /\ row \in Revision /\ row.pruned = FALSE
           /\ row.body = last.body /\ row.bundle = last.bundle /\ ~row.pruned
      BY <2>8 DEF Fresh, Revision
    <2>12. GoodRow(row, bundle') /\ bundle \subseteq bundle'
      <3>1. row.pruned => row.body = Empty
        BY <2>11
      <3>2. row.body # Empty /\ ~row.pruned /\ row.bundle \notin {"", Unset} => row.bundle \in bundle
        BY <2>9, <2>10, <2>11
      <3> QED BY <2>1, <2>11, <3>1, <3>2, Zenon DEF GoodRow
    <2>13. revision[b] = <<>>
      BY <2>1 DEF DInv, RevisionsOK
    <2>14. <<row>> = Append(revision[b], row) /\ Len(revision[b]) < MaxRevisions
      BY <2>13, DraftsAssumption
    <2>15. OneRow(revision[b], row, <<row>>)
      BY <2>14 DEF OneRow
    <2>16. /\ revision' \in [Apis -> Seq(Revision)]
           /\ \A c \in Apis : DOMAIN revision[c] \subseteq DOMAIN revision'[c]
           /\ RevisionsOK' /\ BundlesKept'
      BY <2>1, <2>5, <2>12, <2>15, RevisionWrite
    <2> QED BY <2>1, <2>3, <2>5, <2>7, <2>16, RevisionStep DEF DInv, RowsOK, Digests
  <1> QED BY <1>1, <1>2


(* A step that leaves the API rows, their addresses and the requests.      *)
LEMMA ReleaseStep ==
    ASSUME DInv, UNCHANGED <<api, route, draft>>,
           release' \in [Apis -> Seq(ReleaseRow)], revision' \in [Apis -> Seq(Revision)],
           bundle' \subseteq Digests \ {""},
           \A b \in Apis : DOMAIN revision[b] \subseteq DOMAIN revision'[b],
           \A b \in Apis : \A k \in DOMAIN release'[b] : release'[b][k].rev \in DOMAIN revision'[b],
           \A b \in Apis, m \in Nat : Id(b, m) \in queued' => m \in DOMAIN revision'[b],
           RevisionsOK', BundlesKept', SupersededByOne'
    PROVE  DInv'
  <1>1. RowsOK'
    BY DEF DInv, RowsOK, Digests
  <1>2. RequestsOK'
    BY RequestsStay DEF DInv
  <1>3. NamedAreThere'
    BY DEF DInv, NamedAreThere, Id
  <1> QED BY <1>1, <1>2, <1>3 DEF DInv

(* Freeze touches no other column.                                         *)
LEMMA FreezeHolds ==
    ASSUME DInv, NEW a \in Apis, NEW n \in DOMAIN revision[a], revision' = Freeze(a, n),
           UNCHANGED <<api, bundle>>
    PROVE  /\ revision' \in [Apis -> Seq(Revision)]
           /\ \A b \in Apis : DOMAIN revision[b] \subseteq DOMAIN revision'[b]
           /\ RevisionsOK' /\ BundlesKept'
  <1> PICK before : before = revision[a][n]
    OBVIOUS
  <1> PICK row : row = [before EXCEPT !.frozen = TRUE]
    OBVIOUS
  <1> PICK list : list = [revision[a] EXCEPT ![n] = row]
    OBVIOUS
  <1>1. revision' = [revision EXCEPT ![a] = list]
    BY Zenon DEF Freeze
  <1>2. before \in Revision
    BY RevisionsInShape DEF DInv
  <1>3. before.pruned => before.body = Empty
    BY DEF DInv, RevisionsOK
  <1>4. before.body # Empty /\ ~before.pruned /\ before.bundle \notin {"", Unset} => before.bundle \in bundle
    BY DEF DInv, BundlesKept
  <1>5. /\ row \in Revision /\ (row.pruned <=> before.pruned) /\ row.body = before.body
        /\ row.bundle = before.bundle
    BY <1>2 DEF Revision
  <1>6. GoodRow(row, bundle') /\ bundle \subseteq bundle'
    <2>1. row.pruned => row.body = Empty
      BY <1>3, <1>5
    <2>2. row.body # Empty /\ ~row.pruned /\ row.bundle \notin {"", Unset} => row.bundle \in bundle
      BY <1>4, <1>5
    <2> QED BY <1>5, <2>1, <2>2, Zenon DEF GoodRow
  <1>7. OneRow(revision[a], row, list)
    BY DEF OneRow
  <1>8. revision[a] # <<>>
    BY RevisionsInShape DEF DInv
  <1>9. api[a].known
    BY <1>8 DEF DInv, RevisionsOK
  <1>10. api'[a].known /\ \A b \in Apis : api[b].known => api'[b].known
    BY <1>9
  <1> QED BY <1>1, <1>6, <1>7, <1>10, RevisionWrite

LEMMA ReleaseRevisionKeeps ==
    ASSUME DInv, NEW a \in Apis, NEW n, ReleaseRevision(a, n)
    PROVE  DInv'
  <1> PICK row : row = [rev |-> n, state |-> "pending"]
    OBVIOUS
  <1> PICK list : list = Append(release[a], row)
    OBVIOUS
  <1>1. /\ n \in DOMAIN revision[a] /\ revision' = Freeze(a, n)
        /\ release' = [release EXCEPT ![a] = list]
        /\ UNCHANGED <<api, route, bundle, planned, queued, draft>>
    BY DEF ReleaseRevision
  <1>2. /\ revision' \in [Apis -> Seq(Revision)]
        /\ \A b \in Apis : DOMAIN revision[b] \subseteq DOMAIN revision'[b]
        /\ RevisionsOK' /\ BundlesKept'
    BY <1>1, FreezeHolds
  <1>3. n \in Nat /\ release[a] \in Seq(ReleaseRow)
    BY <1>1, RevisionsInShape DEF DInv
  <1>4. row \in ReleaseRow
    BY <1>3 DEF ReleaseRow
  <1>5. /\ list \in Seq(ReleaseRow) /\ DOMAIN release[a] \subseteq DOMAIN list
        /\ \A k \in DOMAIN list : list[k] = row \/ (k \in DOMAIN release[a] /\ list[k] = release[a][k])
        /\ \A k \in DOMAIN release[a] : list[k] = release[a][k]
    BY <1>3, <1>4
  <1>6. /\ release' \in [Apis -> Seq(ReleaseRow)]
        /\ release'[a] = list /\ \A b \in Apis : b # a => release'[b] = release[b]
    BY <1>1, <1>5 DEF DInv, RowsOK
  <1>7. \A b \in Apis : \A k \in DOMAIN release'[b] : release'[b][k].rev \in DOMAIN revision'[b]
    <2> TAKE b \in Apis
    <2>1. CASE b = a
      BY <1>1, <1>2, <1>5, <1>6, <2>1 DEF DInv, NamedAreThere
    <2>2. CASE b # a
      BY <1>2, <1>6, <2>2 DEF DInv, NamedAreThere
    <2> QED BY <2>1, <2>2
  <1>8. \A b \in Apis, m \in Nat : Id(b, m) \in queued' => m \in DOMAIN revision'[b]
    BY <1>1, <1>2 DEF DInv, NamedAreThere
  <1>9. SupersededByOne'
    <2>1. ASSUME NEW b \in Apis, NEW k \in DOMAIN release'[b], release'[b][k].state = "superseded"
          PROVE  \E i \in DOMAIN release'[b] : release'[b][i].state \in {"converged", "withdrawn"}
      <3>1. k \in DOMAIN release[b] /\ release[b][k].state = "superseded"
        <4>1. row.state = "pending"
          OBVIOUS
        <4>2. CASE b = a
          BY <1>5, <1>6, <2>1, <4>1, <4>2
        <4>3. CASE b # a
          BY <1>6, <2>1, <4>3
        <4> QED BY <4>2, <4>3
      <3>2. PICK i \in DOMAIN release[b] : release[b][i].state \in {"converged", "withdrawn"}
        BY <3>1 DEF DInv, SupersededByOne, InState
      <3> QED BY <1>5, <1>6, <3>2
    <2> QED BY <2>1 DEF SupersededByOne, InState
  <1> QED BY <1>1, <1>2, <1>6, <1>7, <1>8, <1>9, ReleaseStep DEF DInv, RowsOK, Digests


LEMMA SupersedeHolds ==
    ASSUME NEW list \in Seq(ReleaseRow)
    PROVE  /\ Supersede(list) \in Seq(ReleaseRow) /\ Len(Supersede(list)) = Len(list)
           /\ DOMAIN Supersede(list) = DOMAIN list
           /\ \A k \in DOMAIN list : Supersede(list)[k].rev = list[k].rev
  <1>1. \A k \in DOMAIN list : /\ [list[k] EXCEPT !.state = "superseded"] \in ReleaseRow
                               /\ [list[k] EXCEPT !.state = "superseded"].rev = list[k].rev
                               /\ list[k] \in ReleaseRow
    <2> TAKE k \in DOMAIN list
    <2>1. PICK row : row = list[k]
      OBVIOUS
    <2>2. row \in ReleaseRow
      BY <2>1
    <2>3. [row EXCEPT !.state = "superseded"] \in ReleaseRow /\ [row EXCEPT !.state = "superseded"].rev = row.rev
      BY <2>2 DEF ReleaseRow
    <2> QED BY <2>1, <2>2, <2>3
  <1>2. /\ DOMAIN Supersede(list) = DOMAIN list
        /\ \A k \in DOMAIN list : Supersede(list)[k] =
              IF list[k].state = "converged" THEN [list[k] EXCEPT !.state = "superseded"] ELSE list[k]
    BY DEF Supersede
  <1>3. \A k \in DOMAIN list : Supersede(list)[k] \in ReleaseRow /\ Supersede(list)[k].rev = list[k].rev
    BY <1>1, <1>2
  <1>4. Supersede(list) \in [1..Len(list) -> ReleaseRow] /\ Len(list) \in Nat
    <2>1. Len(list) \in Nat /\ DOMAIN list = 1..Len(list)
      OBVIOUS
    <2>2. Supersede(list) = [k \in DOMAIN list |-> Supersede(list)[k]]
      BY DEF Supersede
    <2> QED BY <1>3, <2>1, <2>2
  <1>5. Supersede(list) \in Seq(ReleaseRow) /\ Len(Supersede(list)) = Len(list)
    BY <1>4
  <1> QED BY <1>2, <1>3, <1>5

(* The releases of one API change, and a superseded one keeps one that     *)
(* superseded it.                                                          *)
Followed(list) ==
    (\E k \in DOMAIN list : list[k].state = "superseded") =>
       \E k \in DOMAIN list : list[k].state \in {"converged", "withdrawn"}
LEMMA ReleaseWrite ==
    ASSUME DInv, NEW a \in Apis, NEW list \in Seq(ReleaseRow), release' = [release EXCEPT ![a] = list],
           UNCHANGED <<api, route, revision, bundle, draft>>, queued' \subseteq queued,
           \A k \in DOMAIN list : list[k].rev \in DOMAIN revision[a],
           Followed(list)
    PROVE  DInv'
  <1>1. /\ release' \in [Apis -> Seq(ReleaseRow)]
        /\ release'[a] = list /\ \A b \in Apis : b # a => release'[b] = release[b]
    BY DEF DInv, RowsOK
  <1>2. \A b \in Apis : \A k \in DOMAIN release'[b] : release'[b][k].rev \in DOMAIN revision'[b]
    BY <1>1 DEF DInv, NamedAreThere
  <1>3. \A b \in Apis, m \in Nat : Id(b, m) \in queued' => m \in DOMAIN revision'[b]
    BY DEF DInv, NamedAreThere
  <1>4. SupersededByOne'
    BY <1>1 DEF DInv, SupersededByOne, InState, Followed
  <1>5. RevisionsOK'
    BY DEF DInv, RevisionsOK
  <1>6. BundlesKept'
    BY DEF DInv, BundlesKept
  <1> QED BY <1>1, <1>2, <1>3, <1>4, <1>5, <1>6, ReleaseStep DEF DInv, RowsOK, Digests

LEMMA StateWrite ==
    ASSUME NEW list \in Seq(ReleaseRow), NEW k \in DOMAIN list, NEW after,
           NEW s \in {"pending", "converged", "failed", "superseded", "withdrawn"},
           after = [list EXCEPT ![k].state = s]
    PROVE  /\ after \in Seq(ReleaseRow) /\ DOMAIN after = DOMAIN list
           /\ after[k].state = s /\ \A m \in DOMAIN list : m # k => after[m] = list[m]
           /\ \A m \in DOMAIN list : after[m].rev = list[m].rev
  <1> PICK row : row = [list[k] EXCEPT !.state = s]
    OBVIOUS
  <1>1. list[k] \in ReleaseRow
    OBVIOUS
  <1>2. row \in ReleaseRow /\ row.state = s /\ row.rev = list[k].rev
    BY <1>1 DEF ReleaseRow
  <1>3. after = [list EXCEPT ![k] = row]
    BY Zenon
  <1>4. DOMAIN after = DOMAIN list /\ after[k] = row /\ \A m \in DOMAIN list : m # k => after[m] = list[m]
    BY <1>3
  <1>5. after \in Seq(ReleaseRow)
    BY <1>2, <1>3
  <1>6. \A m \in DOMAIN list : after[m].rev = list[m].rev
    BY <1>2, <1>4
  <1> QED BY <1>2, <1>4, <1>5, <1>6

LEMMA ReconcileKeeps ==
    ASSUME DInv, NEW a \in Apis, Reconcile(a)
    PROVE  DInv'
  <1> PICK list : list = release[a]
    OBVIOUS
  <1> PICK over : over = Supersede(list)
    OBVIOUS
  <1>1. list \in Seq(ReleaseRow) /\ \A k \in DOMAIN list : list[k].rev \in DOMAIN revision[a]
    BY DEF DInv, RowsOK, NamedAreThere
  <1>2. UNCHANGED <<api, route, revision, bundle, draft>> /\ queued' \subseteq queued
    BY DEF Reconcile
  <1>3. PICK k \in DOMAIN list :
           \/ /\ list[k].state = "pending"
              /\ \/ release' = [release EXCEPT ![a] = [over EXCEPT ![k].state = "converged"]]
                 \/ release' = [release EXCEPT ![a][k].state = "failed"]
           \/ /\ list[k].state = "converged"
              /\ release' = [release EXCEPT ![a][k].state = "withdrawn"]
    BY DEF Reconcile
  <1>4. CASE release' = [release EXCEPT ![a] = [over EXCEPT ![k].state = "converged"]]
    <2> PICK after : after = [over EXCEPT ![k].state = "converged"]
      OBVIOUS
    <2>1. /\ over \in Seq(ReleaseRow) /\ DOMAIN over = DOMAIN list
          /\ \A m \in DOMAIN list : over[m].rev = list[m].rev
      BY <1>1, SupersedeHolds
    <2>2. /\ after \in Seq(ReleaseRow) /\ DOMAIN after = DOMAIN over /\ after[k].state = "converged"
          /\ \A m \in DOMAIN over : m # k => after[m] = over[m]
          /\ \A m \in DOMAIN over : after[m].rev = over[m].rev
      BY <2>1, StateWrite
    <2>3. \A m \in DOMAIN after : after[m].rev \in DOMAIN revision[a]
      BY <1>1, <2>1, <2>2
    <2>4. Followed(after)
      BY <2>1, <2>2 DEF Followed
    <2>5. release' = [release EXCEPT ![a] = after]
      BY <1>4
    <2> QED BY ONLY DInv, a \in Apis, <1>2, <2>2, <2>3, <2>4, <2>5, ReleaseWrite, Zenon
  <1>5. CASE list[k].state = "pending" /\ release' = [release EXCEPT ![a][k].state = "failed"]
    <2> PICK after : after = [list EXCEPT ![k].state = "failed"]
      OBVIOUS
    <2>1. /\ after \in Seq(ReleaseRow) /\ DOMAIN after = DOMAIN list /\ after[k].state = "failed"
          /\ \A m \in DOMAIN list : m # k => after[m] = list[m]
          /\ \A m \in DOMAIN list : after[m].rev = list[m].rev
      BY <1>1, StateWrite
    <2>2. release' = [release EXCEPT ![a] = after]
      BY <1>5, Zenon
    <2>3. (\E m \in DOMAIN list : list[m].state = "superseded") =>
             \E m \in DOMAIN list : list[m].state \in {"converged", "withdrawn"}
      BY DEF DInv, SupersededByOne, InState
    <2>4. Followed(after)
      BY <1>5, <2>1, <2>3 DEF Followed
    <2>5. \A m \in DOMAIN after : after[m].rev \in DOMAIN revision[a]
      BY <1>1, <2>1
    <2> QED BY ONLY DInv, a \in Apis, <1>2, <2>1, <2>2, <2>4, <2>5, ReleaseWrite, Zenon
  <1>6. CASE release' = [release EXCEPT ![a][k].state = "withdrawn"]
    <2> PICK after : after = [list EXCEPT ![k].state = "withdrawn"]
      OBVIOUS
    <2>1. /\ after \in Seq(ReleaseRow) /\ DOMAIN after = DOMAIN list /\ after[k].state = "withdrawn"
          /\ \A m \in DOMAIN list : m # k => after[m] = list[m]
          /\ \A m \in DOMAIN list : after[m].rev = list[m].rev
      BY <1>1, StateWrite
    <2>2. release' = [release EXCEPT ![a] = after]
      BY <1>6, Zenon
    <2>3. \A m \in DOMAIN after : after[m].rev \in DOMAIN revision[a]
      BY <1>1, <2>1
    <2>4. Followed(after)
      BY <2>1 DEF Followed
    <2> QED BY ONLY DInv, a \in Apis, <1>2, <2>1, <2>2, <2>3, <2>4, ReleaseWrite, Zenon
  <1> QED BY <1>3, <1>4, <1>5, <1>6

LEMMA ApplyKeeps ==
    ASSUME DInv, NEW a \in Apis, NEW n \in Nat, Apply(a, n)
    PROVE  DInv'
  <1> PICK over : over = Supersede(release[a])
    OBVIOUS
  <1> PICK row : row = [rev |-> n, state |-> "converged"]
    OBVIOUS
  <1> PICK list : list = Append(over, row)
    OBVIOUS
  <1>1. /\ UNCHANGED <<api, route, revision, bundle, draft>> /\ queued' \subseteq queued
        /\ Id(a, n) \in queued /\ (release' = release \/ release' = [release EXCEPT ![a] = list])
    BY DEF Apply
  <1>2. CASE release' = release
    <2>1. RequestsOK'
      BY <1>1, RequestsStay DEF DInv
    <2> QED BY <1>1, <1>2, <2>1, AddressKeeps DEF DInv, RowsOK
  <1>3. CASE release' = [release EXCEPT ![a] = list]
    <2>1. release[a] \in Seq(ReleaseRow) /\ \A k \in DOMAIN release[a] : release[a][k].rev \in DOMAIN revision[a]
      BY DEF DInv, RowsOK, NamedAreThere
    <2>2. /\ over \in Seq(ReleaseRow) /\ DOMAIN over = DOMAIN release[a]
          /\ \A m \in DOMAIN release[a] : over[m].rev = release[a][m].rev
      BY <2>1, SupersedeHolds
    <2>3. n \in DOMAIN revision[a]
      BY <1>1 DEF DInv, NamedAreThere
    <2>4. row \in ReleaseRow /\ row.rev = n /\ row.state = "converged"
      BY DEF ReleaseRow
    <2>5. /\ list \in Seq(ReleaseRow)
          /\ \A k \in DOMAIN list : list[k] = row \/ (k \in DOMAIN over /\ list[k] = over[k])
          /\ \E k \in DOMAIN list : list[k] = row
      <3>1. Len(over) \in Nat /\ DOMAIN list = 1..(Len(over) + 1) /\ list[Len(over) + 1] = row
        BY <2>2, <2>4
      <3>2. Len(over) + 1 \in DOMAIN list
        BY <3>1
      <3> QED BY <2>2, <2>4, <3>1, <3>2
    <2>6. \A k \in DOMAIN list : list[k].rev \in DOMAIN revision[a]
      BY <2>1, <2>2, <2>3, <2>4, <2>5
    <2>7. Followed(list)
      BY <2>4, <2>5 DEF Followed
    <2> QED BY <1>1, <1>3, <2>5, <2>6, <2>7, ReleaseWrite
  <1> QED BY <1>1, <1>2, <1>3


LEMMA QueueNames ==
    ASSUME DInv, NEW a \in Apis, NEW n, queued' = queued \cup {Id(a, n)},
           \A b \in Apis : DOMAIN revision[b] \subseteq DOMAIN revision'[b], n \in DOMAIN revision'[a]
    PROVE  \A b \in Apis, m \in Nat : Id(b, m) \in queued' => m \in DOMAIN revision'[b]
  <1> SUFFICES ASSUME NEW b \in Apis, NEW m \in Nat, Id(b, m) \in queued'
               PROVE  m \in DOMAIN revision'[b]
    OBVIOUS
  <1>1. CASE Id(b, m) \in queued
    BY <1>1 DEF DInv, NamedAreThere
  <1>2. CASE Id(b, m) = Id(a, n)
    BY <1>2 DEF Id
  <1> QED BY <1>1, <1>2

LEMMA AppendChanged ==
    ASSUME NEW S, NEW before \in Seq(S), NEW fresh \in S, NEW row \in S, NEW n, n = Len(before) + 1
    PROVE  /\ [Append(before, fresh) EXCEPT ![n] = row] = Append(before, row)
           /\ Append(before, fresh)[n] = fresh /\ n \in DOMAIN Append(before, row)
  <1> PICK one : one = Append(before, fresh)
    OBVIOUS
  <1> PICK two : two = Append(before, row)
    OBVIOUS
  <1>1. Len(before) \in Nat /\ n \in 1..n
    OBVIOUS
  <1>2. one \in Seq(S) /\ DOMAIN one = 1..n /\ \A m \in 1..n : one[m] = IF m = n THEN fresh ELSE before[m]
    BY <1>1
  <1>3. two \in Seq(S) /\ DOMAIN two = 1..n /\ \A m \in 1..n : two[m] = IF m = n THEN row ELSE before[m]
    BY <1>1
  <1> PICK three : three = [one EXCEPT ![n] = row]
    OBVIOUS
  <1>4. DOMAIN three = 1..n /\ \A m \in 1..n : three[m] = two[m]
    BY <1>2, <1>3
  <1>5. three = two
    <2>1. two = [m \in 1..n |-> two[m]]
      <3>1. two \in [1..Len(two) -> S] /\ DOMAIN two = 1..Len(two)
        BY <1>3, LenProperties
      <3> QED BY <1>3, <3>1
    <2>2. three = [m \in 1..n |-> three[m]]
      BY <1>2
    <2> QED BY <1>4, <2>1, <2>2
  <1> QED BY <1>1, <1>2, <1>3, <1>5

(* The parts of a configuration write that its two forms share.            *)
LEMMA ConfigureRest ==
    ASSUME DInv, NEW a \in Apis, NEW n, queued' = queued \cup {Id(a, n)},
           UNCHANGED <<api, route, release, draft>>, bundle' \subseteq Digests \ {""},
           n \in DOMAIN revision'[a],
           /\ revision' \in [Apis -> Seq(Revision)]
           /\ \A b \in Apis : DOMAIN revision[b] \subseteq DOMAIN revision'[b]
           /\ RevisionsOK' /\ BundlesKept'
    PROVE  DInv'
  <1>1. \A b \in Apis, m \in Nat : Id(b, m) \in queued' => m \in DOMAIN revision'[b]
    BY QueueNames
  <1>2. \A b \in Apis : \A k \in DOMAIN release'[b] : release'[b][k].rev \in DOMAIN revision'[b]
    BY DEF DInv, NamedAreThere
  <1>3. SupersededByOne'
    BY DEF DInv, SupersededByOne, InState
  <1>4. release' \in [Apis -> Seq(ReleaseRow)]
    BY DEF DInv, RowsOK
  <1> QED BY <1>1, <1>2, <1>3, <1>4, ReleaseStep, Zenon

LEMMA ConfigureKeeps ==
    ASSUME DInv, NEW a \in Apis, NEW n \in Nat, Configure(a, n)
    PROVE  DInv'
  <1>1. queued' = queued \cup {Id(a, n)} /\ UNCHANGED <<api, route, release, planned, draft>>
    BY DEF Configure
  <1>2. bundle \subseteq Digests \ {""} /\ revision \in [Apis -> Seq(Revision)]
    BY DEF DInv, RowsOK
  <1>3. PICK k \in DOMAIN release[a] : release[a][k].state = "converged"
    BY DEF Configure
  <1>4. /\ revision[a] \in Seq(Revision) /\ Len(revision[a]) \in DOMAIN revision[a]
        /\ DOMAIN revision[a] = 1..Len(revision[a]) /\ Len(revision[a]) \in Nat /\ revision[a] # <<>>
    <2>1. release[a][k].rev \in DOMAIN revision[a]
      BY <1>3 DEF DInv, NamedAreThere
    <2>2. revision[a] \in Seq(Revision)
      BY <1>2
    <2>3. DOMAIN revision[a] = 1..Len(revision[a]) /\ Len(revision[a]) \in Nat
      BY <2>2
    <2> QED BY <2>1, <2>2, <2>3
  <1>5. ASSUME n \in DOMAIN revision[a], revision' = Freeze(a, n), bundle' = bundle
        PROVE  DInv'
    <2>1. /\ revision' \in [Apis -> Seq(Revision)]
          /\ \A b \in Apis : DOMAIN revision[b] \subseteq DOMAIN revision'[b]
          /\ RevisionsOK' /\ BundlesKept'
      BY <1>1, <1>5, FreezeHolds
    <2>2. n \in DOMAIN revision'[a] /\ bundle' \subseteq Digests \ {""}
      BY <1>2, <1>5, <2>1 DEF Digests
    <2> QED BY <1>1, <2>1, <2>2, ConfigureRest, Zenon
  <1>6. ASSUME NEW d \in Definitions, NEW list, n = Len(revision[a]) + 1, n <= MaxRevisions,
               bundle' = Stored(d), revision' = [revision EXCEPT ![a] = list],
               list = [Append(revision[a], Fresh(d, BundleOf[d])) EXCEPT ![n].frozen = TRUE]
        PROVE  DInv'
    <2> PICK fresh : fresh = Fresh(d, BundleOf[d])
      OBVIOUS
    <2> PICK row : row = [fresh EXCEPT !.frozen = TRUE]
      OBVIOUS
    <2>1. /\ bundle \subseteq bundle' /\ bundle' \subseteq Digests \ {""} /\ fresh \in Revision
          /\ BundleOf[d] # "" => BundleOf[d] \in bundle'
      BY <1>6, StoredHolds DEF DInv, Fresh, Revision
    <2>2. GoodRow(row, bundle') /\ row \in Revision
      BY <2>1 DEF GoodRow, Fresh, Revision
    <2> PICK before : before = revision[a]
      OBVIOUS
    <2>3. /\ [Append(before, fresh) EXCEPT ![n] = row] = Append(before, row)
          /\ Append(before, fresh)[n] = fresh /\ n \in DOMAIN Append(before, row)
      <3>1. before \in Seq(Revision) /\ n = Len(before) + 1
        BY <1>4, <1>6
      <3>2. fresh \in Revision /\ row \in Revision
        BY <2>1, <2>2
      <3> QED BY ONLY <3>1, <3>2, AppendChanged
    <2>4. list = [Append(before, fresh) EXCEPT ![n] = [Append(before, fresh)[n] EXCEPT !.frozen = TRUE]]
      BY <1>6, Zenon
    <2>5. list = Append(revision[a], row)
      BY <2>3, <2>4
    <2>6. OneRow(revision[a], row, list)
      <3>1. Len(revision[a]) < MaxRevisions
        BY <1>4, <1>6, DraftsAssumption
      <3> QED BY <2>5, <3>1 DEF OneRow
    <2>7. api[a].known
      BY <1>4 DEF DInv, RevisionsOK
    <2>8. api'[a].known /\ \A b \in Apis : api[b].known => api'[b].known
      BY <1>1, <2>7
    <2>9. /\ revision' \in [Apis -> Seq(Revision)]
          /\ \A b \in Apis : DOMAIN revision[b] \subseteq DOMAIN revision'[b]
          /\ RevisionsOK' /\ BundlesKept'
      BY <1>6, <2>1, <2>2, <2>6, <2>8, RevisionWrite, Zenon
    <2>10. n \in DOMAIN revision'[a]
      <3>1. n \in DOMAIN list /\ revision'[a] = list
        BY <1>2, <1>6, <2>3, <2>5
      <3> QED BY <3>1
    <2> QED BY <1>1, <2>1, <2>9, <2>10, ConfigureRest, Zenon
  <1>7. CASE /\ \E i \in DOMAIN release[a] : release[a][i].state = "converged" /\ release[a][i].rev = n
             /\ UNCHANGED bundle /\ revision' = Freeze(a, n)
    BY <1>5, <1>7 DEF DInv, NamedAreThere
  <1>8. ASSUME NEW d \in Definitions, NEW again, NEW after, again = (Latest(a).digest = d),
               after = IF again THEN revision[a] ELSE Append(revision[a], Fresh(d, BundleOf[d])),
               Len(after) <= MaxRevisions, n = Len(after),
               bundle' = IF again THEN bundle ELSE Stored(d),
               revision' = [revision EXCEPT ![a] = [after EXCEPT ![n].frozen = TRUE]]
        PROVE  DInv'
    <2>1. CASE again
      <3>1. /\ n = Len(revision[a]) /\ bundle' = bundle
            /\ revision' = [revision EXCEPT ![a] = [revision[a] EXCEPT ![n].frozen = TRUE]]
        BY <1>8, <2>1
      <3>2. revision' = Freeze(a, n)
        BY <3>1, Zenon DEF Freeze
      <3> QED BY <1>4, <1>5, <3>1, <3>2
    <2>2. CASE ~again
      <3> PICK fresh : fresh = Fresh(d, BundleOf[d])
        OBVIOUS
      <3>1. after = Append(revision[a], fresh) /\ bundle' = Stored(d)
        BY <1>8, <2>2
      <3>2. Len(Append(revision[a], fresh)) = Len(revision[a]) + 1
        <4>1. fresh \in Revision
          BY DEF Fresh, Revision
        <4> QED BY <1>4, <4>1
      <3> QED BY <1>6, <1>8, <3>1, <3>2
    <2> QED BY <2>1, <2>2
  <1> QED BY <1>7, <1>8 DEF Configure


(* A pass over every revision: none comes or goes, and each row is good    *)
(* after it.                                                               *)
LEMMA PassKeeps ==
    ASSUME DInv, UNCHANGED <<api, route, release, queued, draft>>, bundle' \subseteq Digests \ {""},
           DOMAIN revision' = Apis, revision' = [a \in Apis |-> revision'[a]],
           \A a \in Apis : revision'[a] = [n \in DOMAIN revision[a] |-> revision'[a][n]],
           \A a \in Apis : \A n \in DOMAIN revision[a] : GoodRow(revision'[a][n], bundle')
    PROVE  DInv'
  <1>1. ASSUME NEW a \in Apis
        PROVE  /\ revision'[a] \in Seq(Revision) /\ Len(revision'[a]) = Len(revision[a])
               /\ DOMAIN revision'[a] = DOMAIN revision[a]
               /\ revision[a] = <<>> => revision'[a] = <<>>
    <2> PICK list : list = revision'[a]
      OBVIOUS
    <2>1. DOMAIN revision[a] = 1..Len(revision[a]) /\ Len(revision[a]) \in Nat
      BY RevisionsInShape DEF DInv
    <2>2. list \in [1..Len(revision[a]) -> Revision]
      BY <2>1 DEF GoodRow
    <2>3. list \in Seq(Revision) /\ Len(list) = Len(revision[a])
      <3> PICK m \in Nat : m = Len(revision[a])
        BY <2>1
      <3>1. list \in [1..m -> Revision]
        BY <2>2
      <3>2. list \in Seq(Revision) /\ Len(list) = m
        BY ONLY <3>1, m \in Nat
      <3> QED BY <3>2
    <2>4. revision[a] = <<>> => list = <<>>
      <3>1. revision[a] = <<>> => Len(list) = 0
        BY <2>3
      <3> QED BY <2>3, <3>1, EmptySeq
    <2> QED BY <2>1, <2>2, <2>3, <2>4
  <1>2. revision' \in [Apis -> Seq(Revision)]
    BY <1>1
  <1>3. \A b \in Apis : DOMAIN revision[b] \subseteq DOMAIN revision'[b]
    BY <1>1
  <1>4. RevisionsOK'
    <2>1. ASSUME NEW a \in Apis
          PROVE  (~api'[a].known => revision'[a] = <<>>) /\ Len(revision'[a]) <= MaxRevisions
      BY <1>1 DEF DInv, RevisionsOK
    <2>2. ASSUME NEW a \in Apis, NEW n \in DOMAIN revision'[a]
          PROVE  revision'[a][n].pruned => revision'[a][n].body = Empty
      BY <1>1 DEF GoodRow
    <2> QED BY <2>1, <2>2 DEF RevisionsOK, Empty
  <1>5. BundlesKept'
    <2>1. ASSUME NEW a \in Apis, NEW n \in DOMAIN revision'[a],
                 revision'[a][n].body # Empty, ~revision'[a][n].pruned,
                 revision'[a][n].bundle \notin {"", Unset}
          PROVE  revision'[a][n].bundle \in bundle'
      <3>1. GoodRow(revision'[a][n], bundle')
        BY <1>1
      <3> QED BY <2>1, <3>1 DEF GoodRow
    <2> QED BY <2>1 DEF BundlesKept, Empty, Unset
  <1>6. \A b \in Apis : \A k \in DOMAIN release'[b] : release'[b][k].rev \in DOMAIN revision'[b]
    BY <1>3 DEF DInv, NamedAreThere
  <1>7. \A b \in Apis, m \in Nat : Id(b, m) \in queued' => m \in DOMAIN revision'[b]
    BY <1>3 DEF DInv, NamedAreThere
  <1>8. SupersededByOne'
    BY DEF DInv, SupersededByOne, InState
  <1>9. release' \in [Apis -> Seq(ReleaseRow)]
    BY DEF DInv, RowsOK
  <1> QED BY <1>2, <1>3, <1>4, <1>5, <1>6, <1>7, <1>8, <1>9, ReleaseStep, Zenon

(* What the invariant says of one row.                                     *)
LEMMA RowIsGood ==
    ASSUME DInv, NEW a \in Apis, NEW n \in DOMAIN revision[a]
    PROVE  GoodRow(revision[a][n], bundle) /\ n \in 1..MaxRevisions
  <1>1. /\ revision[a][n] \in Revision /\ DOMAIN revision[a] = 1..Len(revision[a])
        /\ Len(revision[a]) \in Nat
    BY RevisionsInShape DEF DInv
  <1>2. Len(revision[a]) <= MaxRevisions /\ (revision[a][n].pruned => revision[a][n].body = Empty)
    BY DEF DInv, RevisionsOK
  <1>3. revision[a][n].body # Empty /\ ~revision[a][n].pruned /\ revision[a][n].bundle \notin {"", Unset}
           => revision[a][n].bundle \in bundle
    BY DEF DInv, BundlesKept
  <1>4. n \in 1..MaxRevisions
    BY <1>1, <1>2, DraftsAssumption
  <1> QED BY <1>1, <1>2, <1>3, <1>4, Zenon DEF GoodRow

LEMMA PruneShows ==
    ASSUME DInv, PruneRevisions
    PROVE  /\ DOMAIN revision' = Apis /\ revision' = [a \in Apis |-> revision'[a]]
           /\ \A a \in Apis : /\ DOMAIN revision'[a] = DOMAIN revision[a]
                              /\ revision'[a] = [n \in DOMAIN revision[a] |-> revision'[a][n]]
           /\ \A a \in Apis : \A n \in DOMAIN revision[a] :
                 revision'[a][n] = IF n \in Prunable(a)
                                   THEN [revision[a][n] EXCEPT !.body = Empty, !.pruned = TRUE]
                                   ELSE revision[a][n]
           /\ bundle' = bundle \cap References(revision')
           /\ UNCHANGED <<api, route, release, planned, queued, draft, drafted>>
  BY DEF PruneRevisions

LEMMA PruneKeeps ==
    ASSUME DInv, PruneRevisions
    PROVE  DInv'
  <1>1. /\ DOMAIN revision' = Apis /\ revision' = [a \in Apis |-> revision'[a]]
        /\ \A a \in Apis : /\ DOMAIN revision'[a] = DOMAIN revision[a]
                           /\ revision'[a] = [n \in DOMAIN revision[a] |-> revision'[a][n]]
        /\ \A a \in Apis : \A n \in DOMAIN revision[a] :
              revision'[a][n] = IF n \in Prunable(a)
                                THEN [revision[a][n] EXCEPT !.body = Empty, !.pruned = TRUE]
                                ELSE revision[a][n]
        /\ bundle' = bundle \cap References(revision')
        /\ UNCHANGED <<api, route, release, planned, queued, draft, drafted>>
    BY PruneShows
  <1>2. ASSUME NEW a \in Apis, NEW n \in DOMAIN revision[a]
        PROVE  GoodRow(revision'[a][n], bundle')
    <2> PICK row : row = revision[a][n]
      OBVIOUS
    <2>1. GoodRow(row, bundle) /\ n \in 1..MaxRevisions
      BY RowIsGood
    <2>2. CASE n \in Prunable(a)
      <3> PICK after : after = [row EXCEPT !.body = Empty, !.pruned = TRUE]
        OBVIOUS
      <3>1. revision'[a][n] = after
        BY <1>1, <2>2
      <3>2. after \in Revision /\ after.body = Empty
        BY <2>1 DEF GoodRow, Revision
      <3> QED BY <3>1, <3>2 DEF GoodRow
    <2>3. CASE n \notin Prunable(a)
      <3>1. revision'[a][n] = row
        BY <1>1, <2>3
      <3>2. ~row.pruned => row.bundle \in References(revision')
        <4> SUFFICES ASSUME ~row.pruned PROVE row.bundle \in References(revision')
          OBVIOUS
        <4> PICK p : p = <<a, n>>
          OBVIOUS
        <4>1. p \in Apis \X (1..MaxRevisions) /\ p[1] = a /\ p[2] = n
          BY <2>1
        <4>2. p[2] \in DOMAIN revision'[p[1]] /\ ~revision'[p[1]][p[2]].pruned
          BY <1>1, <3>1, <4>1
        <4>3. p \in {q \in Apis \X (1..MaxRevisions) : q[2] \in DOMAIN revision'[q[1]] /\ ~revision'[q[1]][q[2]].pruned}
          BY <4>1, <4>2
        <4>4. row.bundle = revision'[p[1]][p[2]].bundle
          BY <3>1, <4>1
        <4> QED BY <4>3, <4>4 DEF References
      <3>3. row.body # Empty /\ ~row.pruned /\ row.bundle \notin {"", Unset} => row.bundle \in bundle'
        BY <1>1, <2>1, <3>2 DEF GoodRow
      <3> QED BY <2>1, <3>1, <3>3 DEF GoodRow
    <2> QED BY <2>2, <2>3
  <1>3. bundle' \subseteq Digests \ {""}
    BY <1>1 DEF DInv, RowsOK, Digests
  <1> QED BY <1>1, <1>2, <1>3, PassKeeps

LEMMA KeepDaysKeeps ==
    ASSUME DInv, KeepDaysPass
    PROVE  DInv'
  <1>1. /\ DOMAIN revision' = Apis /\ revision' = [a \in Apis |-> revision'[a]]
        /\ \A a \in Apis : /\ DOMAIN revision'[a] = DOMAIN revision[a]
                           /\ revision'[a] = [n \in DOMAIN revision[a] |-> revision'[a][n]]
        /\ \A a \in Apis : \A n \in DOMAIN revision[a] :
              revision'[a][n] = [revision[a][n] EXCEPT !.old = TRUE]
        /\ UNCHANGED <<api, route, bundle, release, planned, queued, draft, drafted>>
    BY DEF KeepDaysPass
  <1>2. ASSUME NEW a \in Apis, NEW n \in DOMAIN revision[a]
        PROVE  GoodRow(revision'[a][n], bundle')
    <2> PICK row : row = revision[a][n]
      OBVIOUS
    <2>1. GoodRow(row, bundle) /\ row \in Revision
      BY RowIsGood DEF GoodRow
    <2> PICK after : after = [row EXCEPT !.old = TRUE]
      OBVIOUS
    <2>2. revision'[a][n] = after
      BY <1>1
    <2>3. /\ after \in Revision /\ after.body = row.body /\ (after.pruned <=> row.pruned)
          /\ after.bundle = row.bundle
      BY <2>1 DEF Revision
    <2>4. after.pruned => after.body = Empty
      <3>1. row.pruned => row.body = Empty
        BY <2>1 DEF GoodRow
      <3> QED BY <2>3, <3>1
    <2>5. after.body # Empty /\ ~after.pruned /\ after.bundle \notin {"", Unset} => after.bundle \in bundle'
      <3>1. row.body # Empty /\ ~row.pruned /\ row.bundle \notin {"", Unset} => row.bundle \in bundle
        BY <2>1 DEF GoodRow
      <3>2. bundle' = bundle
        BY <1>1
      <3> SUFFICES ASSUME after.body # Empty, ~after.pruned, after.bundle \notin {"", Unset}
                   PROVE  after.bundle \in bundle'
        OBVIOUS
      <3>3. row.body # Empty /\ ~row.pruned /\ row.bundle \notin {"", Unset}
        BY <2>3
      <3>4. row.bundle \in bundle
        BY ONLY <3>1, <3>3
      <3>5. after.bundle = row.bundle
        BY <2>3
      <3> QED BY ONLY <3>2, <3>4, <3>5
    <2> QED BY <2>2, <2>3, <2>4, <2>5 DEF GoodRow
  <1>3. bundle' \subseteq Digests \ {""}
    BY <1>1 DEF DInv, RowsOK, Digests
  <1> QED BY <1>1, <1>2, <1>3, PassKeeps


LEMMA CompileKeeps ==
    ASSUME DInv, CompileMissing
    PROVE  DInv'
  <1> PICK todo : todo = {p \in Apis \X (1..MaxRevisions) :
                            /\ p[2] \in DOMAIN revision[p[1]] /\ ~revision[p[1]][p[2]].pruned
                            /\ revision[p[1]][p[2]].bundle = Unset}
    OBVIOUS
  <1> PICK made : made = [p \in todo |-> IF revision[p[1]][p[2]].body = Empty THEN ""
                                         ELSE BundleOf[revision[p[1]][p[2]].body]]
    OBVIOUS
  <1>1. revision' = [a \in Apis |-> [n \in DOMAIN revision[a] |->
             IF <<a, n>> \in todo THEN [revision[a][n] EXCEPT !.bundle = made[<<a, n>>]]
             ELSE revision[a][n]]]
    BY DEF CompileMissing
  <1>2. bundle' = bundle \cup ({made[p] : p \in todo} \ {""})
    BY DEF CompileMissing
  <1>3. UNCHANGED <<api, route, release, planned, queued, draft, drafted>>
    BY DEF CompileMissing
  <1>4. /\ DOMAIN revision' = Apis /\ revision' = [a \in Apis |-> revision'[a]]
        /\ \A a \in Apis : revision'[a] = [n \in DOMAIN revision[a] |-> revision'[a][n]]
        /\ \A a \in Apis : \A n \in DOMAIN revision[a] : revision'[a][n] =
              IF <<a, n>> \in todo THEN [revision[a][n] EXCEPT !.bundle = made[<<a, n>>]]
              ELSE revision[a][n]
    BY <1>1
  <1>5. ASSUME NEW p \in todo
        PROVE  made[p] \in Digests \cup {""}
    <2>1. p[1] \in Apis /\ p[2] \in DOMAIN revision[p[1]]
      OBVIOUS
    <2> PICK a, n : a = p[1] /\ n = p[2]
      OBVIOUS
    <2>2. revision[a][n] \in Revision
      BY <2>1, RevisionsInShape DEF DInv
    <2> PICK row : row = revision[a][n]
      OBVIOUS
    <2>3. row.body \in Definitions \cup {Empty}
      BY <2>2 DEF Revision
    <2>4. made[p] = IF row.body = Empty THEN "" ELSE BundleOf[row.body]
      OBVIOUS
    <2> QED BY <2>3, <2>4 DEF Digests
  <1>6. bundle' \subseteq Digests \ {""} /\ bundle \subseteq bundle'
    <2>1. bundle \subseteq Digests \ {""}
      BY DEF DInv, RowsOK
    <2>2. \A p \in todo : made[p] \in Digests \cup {""}
      BY <1>5
    <2>3. {made[p] : p \in todo} \subseteq Digests \cup {""}
      BY ONLY <2>2
    <2> QED BY ONLY <1>2, <2>1, <2>3
  <1>7. ASSUME NEW a \in Apis, NEW n \in DOMAIN revision[a]
        PROVE  GoodRow(revision'[a][n], bundle')
    <2> PICK row : row = revision[a][n]
      OBVIOUS
    <2>1. GoodRow(row, bundle) /\ row \in Revision
      BY RowIsGood DEF GoodRow
    <2>2. CASE <<a, n>> \in todo
      <3> PICK b : b = made[<<a, n>>]
        OBVIOUS
      <3> PICK after : after = [row EXCEPT !.bundle = b]
        OBVIOUS
      <3>1. revision'[a][n] = after
        BY <1>4, <2>2
      <3>2. b \in Digests \cup {""} /\ (b # "" => b \in bundle')
        <4>1. b \in Digests \cup {""}
          BY <1>5, <2>2
        <4>2. b \in {made[p] : p \in todo}
          BY <2>2
        <4> QED BY ONLY <1>2, <4>1, <4>2
      <3>3. after \in Revision /\ (after.pruned <=> row.pruned) /\ after.body = row.body /\ after.bundle = b
        BY <2>1, <3>2 DEF Revision, Digests
      <3>4. row.pruned => row.body = Empty
        BY <2>1 DEF GoodRow
      <3>5. after.pruned => after.body = Empty
        BY <3>3, <3>4
      <3>6. after.bundle \notin {"", Unset} => after.bundle \in bundle'
        BY <3>2, <3>3
      <3> QED BY <3>1, <3>3, <3>5, <3>6 DEF GoodRow
    <2>3. CASE <<a, n>> \notin todo
      <3>1. revision'[a][n] = row
        BY <1>4, <2>3
      <3> QED BY <1>6, <2>1, <3>1 DEF GoodRow
    <2> QED BY <2>2, <2>3
  <1> QED BY <1>3, <1>4, <1>6, <1>7, PassKeeps

LEMMA PlansKeep ==
    ASSUME DInv, UNCHANGED <<api, route, revision, bundle, release, queued, draft>>
    PROVE  DInv'
  <1>1. RequestsOK'
    BY RequestsStay DEF DInv
  <1> QED BY <1>1, AddressKeeps DEF DInv, RowsOK

LEMMA BeginsKeep ==
    ASSUME DInv, NEW r \in Drafters, NEW a \in Apis,
           \/ PatchBegin(r, a) \/ RouteBegin(r, a) \/ VersionBegin(r, a) \/ UploadBegin(r, a)
           \/ \E n : CorrectBegin(r, a, n)
    PROVE  DInv'
  <1>1. api[a] \in ApiRow
    BY DEF DInv, RowsOK
  <1>2. ASSUME NEW op \in {"patch", "route", "version"}, NEW held, held = [op |-> op, a |-> a, row |-> api[a]],
               api[a].known, Begin(r, held)
        PROVE  DInv'
    <2>1. held.op = op /\ held.a = a /\ held.row = api[a]
      BY <1>2
    <2>2. Held(held) /\ held.op # "none" /\ api[held.a].known /\ held.op # "correct"
      BY <1>1, <1>2, <2>1 DEF Held
    <2> QED BY <1>2, <2>2, BeginKeeps
  <1>3. CASE UploadBegin(r, a)
    <2> PICK held : held = [op |-> "upload", a |-> a]
      OBVIOUS
    <2>1. held.op = "upload" /\ held.a = a
      OBVIOUS
    <2>2. Held(held) /\ held.op # "none" /\ api[held.a].known /\ held.op # "correct"
      BY <1>3, <2>1 DEF Held, UploadBegin
    <2>3. Begin(r, held)
      BY <1>3 DEF UploadBegin
    <2> QED BY <2>2, <2>3, BeginKeeps
  <1>4. ASSUME NEW n, CorrectBegin(r, a, n)
        PROVE  DInv'
    <2> PICK row : row = revision[a][n]
      OBVIOUS
    <2> PICK held : held = [op |-> "correct", a |-> a, n |-> n, digest |-> row.digest]
      OBVIOUS
    <2>1. held.op = "correct" /\ held.a = a /\ held.n = n /\ held.digest = row.digest
      OBVIOUS
    <2>2. n \in DOMAIN revision[a] /\ Begin(r, held)
      BY <1>4 DEF CorrectBegin
    <2>3. row \in Revision /\ revision[a] # <<>>
      BY <2>2, RevisionsInShape DEF DInv
    <2>4. row.digest \in Definitions
      BY <2>3 DEF Revision
    <2>5. api[a].known
      BY <2>3 DEF DInv, RevisionsOK
    <2>6. Held(held) /\ held.op # "none" /\ api[held.a].known /\ held.n \in DOMAIN revision[held.a]
      BY <2>1, <2>2, <2>4, <2>5 DEF Held
    <2> QED BY <2>2, <2>6, BeginKeeps
  <1>5. CASE PatchBegin(r, a) \/ RouteBegin(r, a) \/ VersionBegin(r, a)
    BY <1>2, <1>5 DEF PatchBegin, RouteBegin, VersionBegin
  <1> QED BY <1>3, <1>4, <1>5

LEMMA DraftsStep ==
    ASSUME DInv, [AddressNext \/ RevisionNext \/ RetentionNext]_dvars
    PROVE  DInv'
  <1>1. CASE UNCHANGED dvars
    BY <1>1, PlansKeep DEF dvars
  <1>2. CASE AddressNext
    BY <1>2, CreateApiKeeps, BeginsKeep, PatchEndKeeps, RouteEndKeeps, VersionEndKeeps DEF AddressNext
  <1>3. CASE RevisionNext
    <2>1. ASSUME NEW a \in Apis, NEW n, PlanRelease(a, n) PROVE DInv'
      BY <2>1, PlansKeep DEF PlanRelease
    <2>2. CASE PlanLapses
      BY <2>2, PlansKeep DEF PlanLapses
    <2>3. 1..MaxRevisions \subseteq Nat
      BY DraftsAssumption
    <2> QED BY <1>3, <2>1, <2>2, <2>3, BeginsKeep, UploadEndKeeps, CorrectEndKeeps, ReleaseRevisionKeeps,
               ConfigureKeeps, ApplyKeeps, ReconcileKeeps DEF RevisionNext
  <1>4. CASE RetentionNext
    BY <1>4, PruneKeeps, KeepDaysKeeps, CompileKeeps DEF RetentionNext
  <1> QED BY <1>1, <1>2, <1>3, <1>4

(* The tables of the drafts stay as the invariant says.                    *)
THEOREM DraftsInvariant == DraftsSpec => []DInv
  <1>1. DraftsInit => DInv
    BY DInvInit
  <1>2. DInv /\ [AddressNext \/ RevisionNext \/ RetentionNext]_dvars => DInv'
    BY DraftsStep
  <1> QED BY <1>1, <1>2, PTL DEF DraftsSpec


(* The type invariant and the stored bundles, from the tables.             *)
LEMMA DraftsAreTyped ==
    ASSUME DInv
    PROVE  DraftsTypeOK /\ BundlesKept
  <1>1. api \in [Apis -> ApiRow] /\ route \in [Apis -> {NoRoute} \cup [domain : Domains, tail : Versions]]
    BY DEF DInv, RowsOK
  <1>2. ASSUME NEW a \in Apis
        PROVE  /\ \A n \in DOMAIN revision[a] : revision[a][n] \in Revision
               /\ \A n \in DOMAIN release[a] : release[a][n].rev \in DOMAIN revision[a]
    BY RevisionsInShape DEF DInv, NamedAreThere
  <1>3. bundle \subseteq {BundleOf[d] : d \in Definitions} \ {""}
    BY DEF DInv, RowsOK, Digests
  <1> QED BY <1>1, <1>2, <1>3 DEF DInv, DraftsTypeOK

-----------------------------------------------------------------------------
(* What a step may do to a revision that is there: leave its definition    *)
(* alone, correct it when it is not frozen, or prune it.                   *)
Kept(before, after) ==
    /\ before.frozen => after.frozen
    /\ after.digest = before.digest /\ after.body = before.body
Fate(a, n) ==
    \/ Kept(revision[a][n], revision'[a][n])
    \/ ~revision[a][n].frozen /\ revision'[a][n].body # Empty
    \/ /\ n \in Prunable(a)
       /\ revision'[a][n] = [revision[a][n] EXCEPT !.body = Empty, !.pruned = TRUE]
Fates == \A a \in Apis : \A n \in DOMAIN revision[a] : Fate(a, n)

LEMMA UnchangedFates ==
    ASSUME UNCHANGED revision
    PROVE  Fates
  BY DEF Fates, Fate, Kept

(* One row appended to, or replaced in, one table.                         *)
LEMMA OneFate ==
    ASSUME DInv, NEW a \in Apis, NEW list, revision' = [revision EXCEPT ![a] = list],
           \A n \in DOMAIN revision[a] :
              \/ list[n] = revision[a][n] \/ Kept(revision[a][n], list[n])
              \/ ~revision[a][n].frozen /\ list[n].body # Empty
    PROVE  Fates
  <1>1. revision'[a] = list /\ \A b \in Apis : b # a => revision'[b] = revision[b]
    BY DEF DInv, RowsOK
  <1>2. ASSUME NEW b \in Apis, NEW n \in DOMAIN revision[b]
        PROVE  Fate(b, n)
    <2>1. CASE b # a
      BY <1>1, <2>1 DEF Fate, Kept
    <2>2. CASE b = a
      BY <1>1, <2>2 DEF Fate, Kept
    <2> QED BY <2>1, <2>2
  <1> QED BY <1>2 DEF Fates

LEMMA AppendFates ==
    ASSUME DInv, NEW a \in Apis, NEW row \in Revision, revision' = [revision EXCEPT ![a] = Append(@, row)]
    PROVE  Fates
  <1> PICK list : list = Append(revision[a], row)
    OBVIOUS
  <1>1. revision[a] \in Seq(Revision)
    BY DEF DInv, RowsOK
  <1>2. \A n \in DOMAIN revision[a] : list[n] = revision[a][n]
    BY <1>1
  <1>3. \A n \in DOMAIN revision[a] :
           \/ list[n] = revision[a][n] \/ Kept(revision[a][n], list[n])
           \/ ~revision[a][n].frozen /\ list[n].body # Empty
    BY <1>2
  <1>4. revision' = [revision EXCEPT ![a] = list]
    OBVIOUS
  <1> QED BY ONLY DInv, a \in Apis, <1>3, <1>4, OneFate, ZenonT(40)

LEMMA FreezeFates ==
    ASSUME DInv, NEW a \in Apis, NEW n \in DOMAIN revision[a], revision' = Freeze(a, n)
    PROVE  Fates
  <1> PICK before : before = revision[a][n]
    OBVIOUS
  <1> PICK row : row = [before EXCEPT !.frozen = TRUE]
    OBVIOUS
  <1> PICK list : list = [revision[a] EXCEPT ![n] = row]
    OBVIOUS
  <1>1. revision' = [revision EXCEPT ![a] = list]
    BY Zenon DEF Freeze
  <1>2. before \in Revision
    BY RevisionsInShape DEF DInv
  <1>3. Kept(before, row)
    BY <1>2 DEF Kept, Revision
  <1>4. \A m \in DOMAIN revision[a] : list[m] = IF m = n THEN row ELSE revision[a][m]
    OBVIOUS
  <1>5. \A m \in DOMAIN revision[a] : list[m] = revision[a][m] \/ Kept(revision[a][m], list[m])
    BY <1>3, <1>4
  <1> QED BY <1>1, <1>5, OneFate

LEMMA CorrectFates ==
    ASSUME DInv, NEW r \in Drafters, CorrectEnd(r)
    PROVE  Fates
  <1> PICK a, n : a = draft[r].a /\ n = draft[r].n
    OBVIOUS
  <1>1. a \in Apis /\ n \in DOMAIN revision[a]
    BY DEF CorrectEnd, DInv, RequestsOK, Held
  <1>2. PICK d \in Definitions :
           \/ UNCHANGED revision
           \/ /\ StillCorrectable(revision[a][n], draft[r].digest)
              /\ revision' = [revision EXCEPT ![a][n] =
                                [@ EXCEPT !.digest = d, !.body = d, !.bundle = BundleOf[d]]]
    <2>1. Refuse(r) => UNCHANGED revision
      BY DEF Refuse
    <2> PICK held : held = draft[r].digest
      OBVIOUS
    <2>2. PICK d \in Definitions :
             \/ Refuse(r)
             \/ IF StillCorrectable(revision[a][n], held)
                THEN revision' = [revision EXCEPT ![a][n] =
                                   [@ EXCEPT !.digest = d, !.body = d, !.bundle = BundleOf[d]]]
                ELSE UNCHANGED revision
      BY Zenon DEF CorrectEnd
    <2> QED BY <2>1, <2>2, Zenon
  <1>3. CASE ~UNCHANGED revision
    <2> PICK before : before = revision[a][n]
      OBVIOUS
    <2> PICK row : row = [before EXCEPT !.digest = d, !.body = d, !.bundle = BundleOf[d]]
      OBVIOUS
    <2> PICK list : list = [revision[a] EXCEPT ![n] = row]
      OBVIOUS
    <2>1. revision' = [revision EXCEPT ![a] = list]
      BY <1>2, <1>3, Zenon
    <2>2. before \in Revision /\ ~before.frozen
      BY <1>1, <1>2, <1>3, RevisionsInShape DEF DInv, StillCorrectable, Fixed
    <2>3. row.body = d /\ d # Empty
      BY <2>2, DraftsAssumption DEF Revision, Empty
    <2>4. \A m \in DOMAIN revision[a] : list[m] = IF m = n THEN row ELSE revision[a][m]
      OBVIOUS
    <2>5. \A m \in DOMAIN revision[a] :
             list[m] = revision[a][m] \/ (~revision[a][m].frozen /\ list[m].body # Empty)
      BY <2>2, <2>3, <2>4
    <2> QED BY <1>1, <2>1, <2>5, OneFate, ZenonT(40)
  <1> QED BY <1>3, UnchangedFates


LEMMA PassFates ==
    ASSUME DInv, PruneRevisions \/ KeepDaysPass \/ CompileMissing
    PROVE  Fates
  <1>1. CASE PruneRevisions
    <2>1. \A a \in Apis : \A n \in DOMAIN revision[a] :
             revision'[a][n] = IF n \in Prunable(a)
                               THEN [revision[a][n] EXCEPT !.body = Empty, !.pruned = TRUE]
                               ELSE revision[a][n]
      BY <1>1, PruneShows
    <2> QED BY <2>1 DEF Fates, Fate, Kept
  <1>2. CASE KeepDaysPass
    <2>1. ASSUME NEW a \in Apis, NEW n \in DOMAIN revision[a]
          PROVE  Fate(a, n)
      <3> PICK row : row = revision[a][n]
        OBVIOUS
      <3>1. row \in Revision
        BY RevisionsInShape DEF DInv
      <3>2. revision'[a][n] = [row EXCEPT !.old = TRUE]
        BY <1>2 DEF KeepDaysPass
      <3>3. Kept(row, [row EXCEPT !.old = TRUE])
        BY <3>1 DEF Kept, Revision
      <3> QED BY <3>2, <3>3 DEF Fate
    <2> QED BY <2>1 DEF Fates
  <1>3. CASE CompileMissing
    <2>1. ASSUME NEW a \in Apis, NEW n \in DOMAIN revision[a]
          PROVE  Fate(a, n)
      <3> PICK row : row = revision[a][n]
        OBVIOUS
      <3>1. row \in Revision
        BY RevisionsInShape DEF DInv
      <3>2. revision'[a][n] = row \/ \E b : revision'[a][n] = [row EXCEPT !.bundle = b]
        BY <1>3 DEF CompileMissing
      <3>3. \A b : Kept(row, [row EXCEPT !.bundle = b])
        BY <3>1 DEF Kept, Revision
      <3>4. Kept(row, row)
        BY DEF Kept
      <3>5. Kept(row, revision'[a][n])
        BY ONLY <3>2, <3>3, <3>4
      <3> QED BY <3>5 DEF Fate
    <2> QED BY <2>1 DEF Fates
  <1> QED BY <1>1, <1>2, <1>3

LEMMA ConfigureFates ==
    ASSUME DInv, NEW a \in Apis, NEW n \in Nat, Configure(a, n)
    PROVE  Fates
  <1>1. PICK k \in DOMAIN release[a] : release[a][k].state = "converged"
    BY DEF Configure
  <1>2. revision[a] \in Seq(Revision) /\ Len(revision[a]) \in DOMAIN revision[a] /\ Len(revision[a]) \in Nat
    <2>1. release[a][k].rev \in DOMAIN revision[a]
      BY <1>1 DEF DInv, NamedAreThere
    <2>2. revision[a] \in Seq(Revision)
      BY DEF DInv, RowsOK
    <2>3. DOMAIN revision[a] = 1..Len(revision[a]) /\ Len(revision[a]) \in Nat
      BY <2>2
    <2> QED BY <2>1, <2>2, <2>3
  <1>3. CASE /\ \E i \in DOMAIN release[a] : release[a][i].state = "converged" /\ release[a][i].rev = n
             /\ UNCHANGED bundle /\ revision' = Freeze(a, n)
    BY <1>3, FreezeFates DEF DInv, NamedAreThere
  <1>4. ASSUME NEW d \in Definitions, NEW again, NEW after, again = (Latest(a).digest = d),
               after = IF again THEN revision[a] ELSE Append(revision[a], Fresh(d, BundleOf[d])),
               Len(after) <= MaxRevisions, n = Len(after),
               revision' = [revision EXCEPT ![a] = [after EXCEPT ![n].frozen = TRUE]]
        PROVE  Fates
    <2>1. CASE again
      <3>1. /\ n = Len(revision[a])
            /\ revision' = [revision EXCEPT ![a] = [revision[a] EXCEPT ![n].frozen = TRUE]]
        BY <1>4, <2>1
      <3>2. revision' = Freeze(a, n)
        BY <3>1, Zenon DEF Freeze
      <3> QED BY <1>2, <3>1, <3>2, FreezeFates
    <2>2. CASE ~again
      <3> PICK fresh : fresh = Fresh(d, BundleOf[d])
        OBVIOUS
      <3> PICK list : list = [after EXCEPT ![n].frozen = TRUE]
        OBVIOUS
      <3>1. fresh \in Revision
        BY DEF Fresh, Revision
      <3>2. after = Append(revision[a], fresh)
        BY <1>4, <2>2
      <3>3. n = Len(revision[a]) + 1 /\ \A m \in DOMAIN revision[a] : after[m] = revision[a][m] /\ m # n /\ m \in DOMAIN after
        BY <1>2, <1>4, <3>1, <3>2
      <3>4. \A m \in DOMAIN revision[a] : list[m] = revision[a][m]
        BY <3>3
      <3>5. \A m \in DOMAIN revision[a] :
               \/ list[m] = revision[a][m] \/ Kept(revision[a][m], list[m])
               \/ ~revision[a][m].frozen /\ list[m].body # Empty
        BY <3>4
      <3>6. revision' = [revision EXCEPT ![a] = list]
        BY <1>4
      <3> QED BY ONLY DInv, a \in Apis, <3>5, <3>6, OneFate, ZenonT(40)
    <2> QED BY <2>1, <2>2
  <1> QED BY <1>3, <1>4 DEF Configure

LEMMA StepFates ==
    ASSUME DInv, AddressNext \/ RevisionNext \/ RetentionNext
    PROVE  Fates
  <1>1. CASE AddressNext
    <2>1. ASSUME NEW r \in Drafters, NEW b \in Apis, NEW v \in Versions, VersionEnd(r, b, v)
          PROVE  Fates
      <3>1. CASE Refuse(r)
        BY <3>1, UnchangedFates DEF Refuse
      <3>2. CASE ~Refuse(r)
        <4>1. PICK list : ~api[b].known /\ revision' = [revision EXCEPT ![b] = list]
          BY <2>1, <3>2 DEF VersionEnd
        <4>2. revision[b] = <<>>
          BY <4>1 DEF DInv, RevisionsOK
        <4>3. \A n \in DOMAIN revision[b] :
                 \/ list[n] = revision[b][n] \/ Kept(revision[b][n], list[n])
                 \/ ~revision[b][n].frozen /\ list[n].body # Empty
          BY <4>2
        <4>4. revision' = [revision EXCEPT ![b] = list]
          BY <4>1
        <4> QED BY ONLY DInv, b \in Apis, <4>3, <4>4, OneFate, ZenonT(40)
      <3> QED BY <3>1, <3>2
    <2>2. CASE UNCHANGED revision
      BY <2>2, UnchangedFates
    <2> QED BY <1>1, <2>1, <2>2 DEF AddressNext, CreateApi, PatchBegin, RouteBegin, VersionBegin, Begin,
               PatchEnd, RouteEnd, Refuse
  <1>2. CASE RevisionNext
    <2>1. ASSUME NEW r \in Drafters, UploadEnd(r) PROVE Fates
      <3> PICK a : a = draft[r].a
        OBVIOUS
      <3>1. a \in Apis
        BY <2>1 DEF UploadEnd, DInv, RequestsOK, Held
      <3>2. CASE UNCHANGED revision
        BY <3>2, UnchangedFates
      <3>3. CASE ~UNCHANGED revision
        <4>1. PICK d \in Definitions : revision' = [revision EXCEPT ![a] = Append(@, Fresh(d, BundleOf[d]))]
          BY <2>1, <3>3 DEF UploadEnd, WriteRevision, Refuse
        <4> PICK row : row = Fresh(d, BundleOf[d])
          OBVIOUS
        <4>2. row \in Revision
          BY DEF Fresh, Revision
        <4>3. revision' = [revision EXCEPT ![a] = Append(@, row)]
          BY <4>1
        <4> QED BY <3>1, <4>2, <4>3, AppendFates
      <3> QED BY <3>2, <3>3
    <2>2. ASSUME NEW a \in Apis, NEW n, ReleaseRevision(a, n) PROVE Fates
      BY <2>2, FreezeFates DEF ReleaseRevision
    <2>3. CASE UNCHANGED revision
      BY <2>3, UnchangedFates
    <2>4. 1..MaxRevisions \subseteq Nat
      BY DraftsAssumption
    <2>5. ASSUME NEW r \in Drafters, NEW a \in Apis, UploadBegin(r, a) PROVE UNCHANGED revision
      BY <2>5 DEF UploadBegin, Begin
    <2>6. ASSUME NEW r \in Drafters, NEW a \in Apis, NEW n, CorrectBegin(r, a, n) PROVE UNCHANGED revision
      BY <2>6 DEF CorrectBegin, Begin
    <2>7. ASSUME NEW a \in Apis, NEW n, PlanRelease(a, n) \/ Apply(a, n) PROVE UNCHANGED revision
      BY <2>7 DEF PlanRelease, Apply
    <2>8. ASSUME NEW a \in Apis, Reconcile(a) PROVE UNCHANGED revision
      BY <2>8 DEF Reconcile
    <2>9. PlanLapses => UNCHANGED revision
      BY DEF PlanLapses
    <2> QED BY <1>2, <2>1, <2>2, <2>3, <2>4, <2>5, <2>6, <2>7, <2>8, <2>9, CorrectFates, ConfigureFates
            DEF RevisionNext
  <1>3. CASE RetentionNext
    BY <1>3, PassFates DEF RetentionNext
  <1> QED BY <1>1, <1>2, <1>3

(* The release a rollback returns to is among the two most recent that     *)
(* reached the fleet.                                                      *)
LEMMA TargetIsRecent ==
    ASSUME DInv, NEW a \in Apis
    PROVE  RollbackTarget(a) \subseteq Recent(a)
  <1> SUFFICES ASSUME NEW n \in RollbackTarget(a) PROVE n \in Recent(a)
    OBVIOUS
  <1> PICK list : list = release[a]
    OBVIOUS
  <1>1. DOMAIN list \subseteq Nat
    BY RevisionsInShape DEF DInv
  <1>2. PICK k \in DOMAIN list :
           /\ list[k].rev = n /\ list[k].state \in Reached
           /\ ~\E i, j \in DOMAIN list : k < i /\ i < j /\ {list[i].state, list[j].state} \subseteq Reached
    BY DEF RollbackTarget
  <1> PICK later : later = {m \in DOMAIN list : m >= k /\ list[m].state \in Reached}
    OBVIOUS
  <1>3. PICK i : later \subseteq {k, i}
    <2>1. CASE \E i \in later : i # k
      <3>1. PICK i \in later : i # k
        BY <2>1
      <3>2. \A m \in later : m = k \/ m = i
        <4> TAKE m \in later
        <4>1. CASE m < i
          BY <1>1, <1>2, <3>1, <4>1
        <4>2. CASE i < m
          BY <1>1, <1>2, <3>1, <4>2
        <4> QED BY <1>1, <3>1, <4>1, <4>2
      <3> QED BY <3>2
    <2>2. CASE ~\E i \in later : i # k
      BY <2>2
    <2> QED BY <2>1, <2>2
  <1>4. IsFiniteSet({k, i}) /\ Cardinality({k, i}) <= 2
    <2>1. IsFiniteSet({k}) /\ Cardinality({k}) = 1
      BY FS_Singleton
    <2>2. IsFiniteSet({k} \cup {i}) /\ Cardinality({k} \cup {i}) = IF i \in {k} THEN 1 ELSE 1 + 1
      BY <2>1, FS_AddElement
    <2>3. {k} \cup {i} = {k, i}
      OBVIOUS
    <2> QED BY <2>2, <2>3
  <1>5. IsFiniteSet(later) /\ Cardinality(later) <= Cardinality({k, i})
    BY <1>3, <1>4, FS_Subset
  <1>6. Cardinality(later) <= 2
    BY <1>4, <1>5, FS_CardinalityType
  <1>7. Recency(a, k) <= 2
    BY <1>6 DEF Recency
  <1> QED BY <1>2, <1>7 DEF Recent


LEMMA FrozenStep ==
    ASSUME DInv, AddressNext \/ RevisionNext \/ RetentionNext,
           NEW a \in Apis, NEW n \in DOMAIN revision[a], revision[a][n].frozen
    PROVE  /\ revision'[a][n].frozen /\ revision'[a][n].digest = revision[a][n].digest
           /\ revision'[a][n].body \in {revision[a][n].body, Empty}
  <1> PICK row : row = revision[a][n]
    OBVIOUS
  <1> PICK after : after = revision'[a][n]
    OBVIOUS
  <1>1. row \in Revision
    BY RevisionsInShape DEF DInv
  <1>2. Fate(a, n)
    BY StepFates DEF Fates
  <1>3. Kept(row, after) \/ after = [row EXCEPT !.body = Empty, !.pruned = TRUE]
    BY <1>2 DEF Fate
  <1>4. CASE Kept(row, after)
    BY <1>4 DEF Kept
  <1>5. CASE after = [row EXCEPT !.body = Empty, !.pruned = TRUE]
    <2>1. row.frozen <=> after.frozen
      BY <1>1, <1>5 DEF Revision
    <2>2. after.digest = row.digest
      BY ONLY <1>1, <1>5 DEF Revision
    <2>3. after.body = Empty
      BY ONLY <1>1, <1>5 DEF Revision
    <2> QED BY <2>1, <2>2, <2>3
  <1> QED BY <1>3, <1>4, <1>5

LEMMA SparesStep ==
    ASSUME DInv, AddressNext \/ RevisionNext \/ RetentionNext,
           NEW a \in Apis, NEW n \in DOMAIN revision[a],
           revision'[a][n].body = Empty, revision[a][n].body # Empty
    PROVE  /\ n \notin RollbackTarget(a) /\ Id(a, n) \notin planned \cup queued
           /\ \A k \in DOMAIN release[a] :
                 release[a][k].rev = n => release[a][k].state \in {"failed"} \cup Reached
  <1>1. n \in Prunable(a)
    BY StepFates DEF Fates, Fate, Kept
  <1>2. ~Needed(a, n)
    BY <1>1 DEF Prunable
  <1>3. n \notin Recent(a) /\ Id(a, n) \notin planned \cup queued
    BY <1>2 DEF Needed
  <1>4. n \notin RollbackTarget(a)
    BY <1>3, TargetIsRecent
  <1>5. ASSUME NEW k \in DOMAIN release[a], release[a][k].rev = n
        PROVE  release[a][k].state \in {"failed"} \cup Reached
    <2>1. release[a][k].state \notin Live
      BY <1>2, <1>5 DEF Needed
    <2>2. release[a][k].state \in {"pending", "converged", "failed", "superseded", "withdrawn"}
      BY RevisionsInShape DEF DInv, ReleaseRow
    <2> QED BY <2>1, <2>2 DEF Live, Reached
  <1> QED BY <1>3, <1>4, <1>5

(* What somebody confirmed is what can be served and gone back to: a       *)
(* frozen revision keeps its definition, retention spares what is served,  *)
(* planned, queued or rolled back to, and every bundle a revision in force *)
(* names is stored (api/resources.ts, artifacts.ts, retention.ts).         *)
THEOREM Revisions_Stand == DraftsSpec => RevisionsStand
  <1>1. DInv /\ [AddressNext \/ RevisionNext \/ RetentionNext]_dvars =>
          [\A a \in Apis : \A n \in DOMAIN revision[a] :
             revision[a][n].frozen =>
                /\ revision'[a][n].frozen /\ revision'[a][n].digest = revision[a][n].digest
                /\ revision'[a][n].body \in {revision[a][n].body, Empty}]_dvars
    BY FrozenStep
  <1>2. DInv /\ [AddressNext \/ RevisionNext \/ RetentionNext]_dvars =>
          [\A a \in Apis : \A n \in DOMAIN revision[a] :
             revision'[a][n].body = Empty /\ revision[a][n].body # Empty =>
                /\ n \notin RollbackTarget(a)
                /\ Id(a, n) \notin planned \cup queued
                /\ \A k \in DOMAIN release[a] :
                      release[a][k].rev = n => release[a][k].state \in {"failed"} \cup Reached]_dvars
    BY SparesStep
  <1>3. DInv => DraftsTypeOK /\ BundlesKept
    BY DraftsAreTyped
  <1>4. DraftsSpec => FrozenStands
    BY <1>1, DraftsInvariant, PTL DEF DraftsSpec, FrozenStands
  <1>5. DraftsSpec => PruningSparesNeeded
    BY <1>2, DraftsInvariant, PTL DEF DraftsSpec, PruningSparesNeeded
  <1>6. DraftsSpec => [](DraftsTypeOK /\ BundlesKept)
    BY <1>3, DraftsInvariant, PTL
  <1> QED BY <1>4, <1>5, <1>6 DEF RevisionsStand


-----------------------------------------------------------------------------
(* Attention.  What the rules say of one API, by the order of its codes.   *)
Early == {"no-definition", "no-route", "release-failed", "never-released"}
StuckCodes == {"no-definition", "never-released", "release-failed"}

LEMMA CodesByPlace ==
    /\ Codes = Early \cup {"no-auth-policy", "validation-downgraded", "no-concurrency-ceiling",
                           "unreleased-revision"}
    /\ \A x, y : y[1] \in StuckCodes /\ MayPrecede(x, y) => x[1] \in Early
  <1>1. DOMAIN Places = 1..8
    BY DEF Places
  <1>2. /\ Places[1] = "no-definition" /\ Places[2] = "no-route" /\ Places[3] = "release-failed"
        /\ Places[4] = "never-released" /\ Places[5] = "no-auth-policy"
        /\ Places[6] = "validation-downgraded" /\ Places[7] = "no-concurrency-ceiling"
        /\ Places[8] = "unreleased-revision"
    BY DEF Places
  <1>3. \A i \in 1..8 : i = 1 \/ i = 2 \/ i = 3 \/ i = 4 \/ i = 5 \/ i = 6 \/ i = 7 \/ i = 8
    OBVIOUS
  <1>4. Codes = Early \cup {"no-auth-policy", "validation-downgraded", "no-concurrency-ceiling",
                            "unreleased-revision"}
    <2>1. \A i \in 1..8 : Places[i] \in Early \cup {"no-auth-policy", "validation-downgraded",
                                                   "no-concurrency-ceiling", "unreleased-revision"}
      BY <1>2, <1>3 DEF Early
    <2>2. 1 \in 1..8 /\ 2 \in 1..8 /\ 3 \in 1..8 /\ 4 \in 1..8 /\ 5 \in 1..8 /\ 6 \in 1..8 /\ 7 \in 1..8 /\ 8 \in 1..8
      OBVIOUS
    <2> QED BY <1>1, <1>2, <2>1, <2>2 DEF Codes, Early
  <1>5. ASSUME NEW x, NEW y, y[1] \in StuckCodes, MayPrecede(x, y)
        PROVE  x[1] \in Early
    <2>1. PICK i, j \in 1..8 : i <= j /\ Places[i] = x[1] /\ Places[j] = y[1]
      BY <1>1, <1>5 DEF MayPrecede
    <2>2. j = 1 \/ j = 3 \/ j = 4
      BY <1>2, <1>3, <1>5, <2>1 DEF StuckCodes
    <2>3. i = 1 \/ i = 2 \/ i = 3 \/ i = 4
      BY <2>1, <2>2
    <2> QED BY <1>2, <2>1, <2>3 DEF Early
  <1> QED BY <1>4, <1>5

(* Of the codes that sort before a stuck one an API has at most two: a     *)
(* missing address, and one of the others.                                 *)
LEMMA FewRows ==
    ASSUME DInv, NEW a \in Apis, NEW c, NEW d, {c, d} \subseteq OwnerRows(a) \cap Early,
           c # "no-route", d # "no-route"
    PROVE  c = d
  <1>1. release[a] # <<>> => revision[a] # <<>>
    <2> SUFFICES ASSUME release[a] # <<>> PROVE revision[a] # <<>>
      OBVIOUS
    <2>1. release[a] \in Seq(ReleaseRow) /\ revision[a] \in Seq(Revision)
      BY DEF DInv, RowsOK
    <2>2. 1 \in DOMAIN release[a]
      BY <2>1, EmptySeq
    <2>3. release[a][1].rev \in DOMAIN revision[a]
      BY <2>2 DEF DInv, NamedAreThere
    <2> QED BY <2>3
  <1>2. OwnerRule(a, c) /\ OwnerRule(a, d)
    BY DEF OwnerRows
  <1> QED BY <1>1, <1>2 DEF OwnerRule, NeverReleased, ReleaseFailed, Early

(* An API nobody can call and nothing will change has a row.               *)
LEMMA StuckHasRow ==
    ASSUME DInv, NEW a \in Apis, api[a].known, ~InState(a, {"converged", "pending", "withdrawn"})
    PROVE  \E c \in StuckCodes : c \in OwnerRows(a)
  <1>1. StuckCodes \subseteq Codes
    BY CodesByPlace DEF StuckCodes, Early
  <1>2. CASE revision[a] = <<>>
    <2>1. OwnerRule(a, "no-definition")
      BY <1>2 DEF OwnerRule
    <2> QED BY <1>1, <2>1 DEF OwnerRows, StuckCodes
  <1>3. CASE revision[a] # <<>> /\ release[a] = <<>>
    <2>1. OwnerRule(a, "never-released")
      BY <1>3 DEF OwnerRule, NeverReleased
    <2> QED BY <1>1, <2>1 DEF OwnerRows, StuckCodes
  <1>4. CASE release[a] # <<>>
    <2>1. release[a] \in Seq(ReleaseRow)
      BY DEF DInv, RowsOK
    <2>2. Len(release[a]) \in DOMAIN release[a] /\ release[a][Len(release[a])] \in ReleaseRow
      BY <1>4, <2>1, EmptySeq
    <2>3. release[a][Len(release[a])].state \in {"pending", "converged", "failed", "superseded", "withdrawn"}
      BY <2>2 DEF ReleaseRow
    <2>4. ~InState(a, {"superseded"})
      BY DEF DInv, SupersededByOne, InState
    <2>5. release[a][Len(release[a])].state = "failed"
      BY <2>2, <2>3, <2>4 DEF InState
    <2>6. OwnerRule(a, "release-failed")
      BY <1>4, <2>5 DEF OwnerRule, ReleaseFailed, Last
    <2> QED BY <1>1, <2>6 DEF OwnerRows, StuckCodes
  <1> QED BY <1>2, <1>3, <1>4

(* With room for two rows of every API, a stuck row survives the cut: the  *)
(* rows that may come before it are told apart by their API and by whether *)
(* they are about the address.                                             *)
LEMMA StuckRowIsShown ==
    ASSUME DInv, IsFiniteSet(Apis), 2 * Cardinality(Apis) <= MaxAttention,
           NEW rows, rows = UNION {OwnerRows(b) \X {b} : b \in Apis},
           NEW a \in Apis, NEW c \in StuckCodes, c \in OwnerRows(a)
    PROVE  <<c, a>> \in Bounded(rows)
  <1> PICK y : y = <<c, a>>
    OBVIOUS
  <1>1. y \in rows /\ y[1] = c /\ y[2] = a
    OBVIOUS
  <1>2. \A x \in rows : x[2] \in Apis /\ x[1] \in OwnerRows(x[2]) /\ x = <<x[1], x[2]>>
    OBVIOUS
  <1> PICK before : before = {x \in rows \ {y} : MayPrecede(x, y)}
    OBVIOUS
  <1>3. \A x \in before : x \in rows /\ x # y /\ x[1] \in Early
    BY <1>1, CodesByPlace
  <1> PICK places : places = (Apis \X {1, 2}) \ {<<a, 2>>}
    OBVIOUS
  <1> PICK f : f = [x \in before |-> <<x[2], IF x[1] = "no-route" THEN 1 ELSE 2>>]
    OBVIOUS
  <1>4. c \in Early /\ c # "no-route"
    BY DEF Early, StuckCodes
  <1>5. ASSUME NEW x \in rows, NEW z \in rows, x[1] \in Early, z[1] \in Early, x[2] = z[2],
               x[1] = "no-route" <=> z[1] = "no-route"
        PROVE  x = z
    <2>1. CASE x[1] = "no-route"
      BY <1>2, <1>5, <2>1
    <2>2. CASE x[1] # "no-route"
      <3> PICK b, d, e : b = x[2] /\ d = x[1] /\ e = z[1]
        OBVIOUS
      <3>1. b \in Apis /\ {d, e} \subseteq OwnerRows(b) \cap Early /\ d # "no-route" /\ e # "no-route"
        BY <1>2, <1>5, <2>2
      <3>2. d = e
        BY <3>1, FewRows
      <3>3. x = <<d, b>> /\ z = <<e, b>>
        BY <1>2, <1>5
      <3> QED BY <3>2, <3>3
    <2> QED BY <2>1, <2>2
  <1>6. ASSUME NEW x \in before
        PROVE  f[x] \in places
    <2>1. x[2] \in Apis /\ f[x] = <<x[2], IF x[1] = "no-route" THEN 1 ELSE 2>>
      BY <1>2, <1>3
    <2>2. f[x] # <<a, 2>>
      <3> SUFFICES ASSUME x[2] = a, x[1] # "no-route" PROVE FALSE
        BY <2>1
      <3>1. x = y
        BY <1>1, <1>3, <1>4, <1>5
      <3> QED BY <1>3, <3>1
    <2> QED BY <2>1, <2>2
  <1>7. ASSUME NEW x \in before, NEW z \in before, f[x] = f[z]
        PROVE  x = z
    <2>1. x[2] = z[2] /\ (x[1] = "no-route" <=> z[1] = "no-route")
      BY <1>7
    <2> QED BY <1>3, <1>5, <2>1
  <1>8. f \in Injection(before, places)
    <2>1. f \in [before -> places]
      BY <1>6
    <2>2. DOMAIN f = before
      OBVIOUS
    <2>3. IsInjective(f)
      <3>1. \A x, z \in before : f[x] = f[z] => x = z
        BY <1>7
      <3> QED BY ONLY <2>2, <3>1 DEF IsInjective
    <2> QED BY <2>1, <2>3 DEF Injection
  <1>9. IsFiniteSet(places) /\ Cardinality(places) = 2 * Cardinality(Apis) - 1
    <2>1. IsFiniteSet({1, 2}) /\ Cardinality({1, 2}) = 2
      <3>1. IsFiniteSet({1}) /\ Cardinality({1}) = 1
        BY FS_Singleton
      <3>2. IsFiniteSet({1} \cup {2}) /\ Cardinality({1} \cup {2}) = IF 2 \in {1} THEN 1 ELSE 1 + 1
        BY <3>1, FS_AddElement
      <3> PICK pair : pair = {1} \cup {2}
        OBVIOUS
      <3>3. IsFiniteSet(pair) /\ Cardinality(pair) = 2
        <4>1. 2 \notin {1} /\ 1 + 1 = 2
          OBVIOUS
        <4>2. IsFiniteSet(pair) /\ Cardinality(pair) = IF 2 \in {1} THEN 1 ELSE 1 + 1
          BY ONLY <3>2, pair = {1} \cup {2}, Zenon
        <4> QED BY ONLY <4>1, <4>2
      <3>4. pair = {1, 2}
        OBVIOUS
      <3> QED BY <3>3, <3>4
    <2>2. /\ IsFiniteSet(Apis \X {1, 2})
          /\ Cardinality(Apis \X {1, 2}) = Cardinality(Apis) * Cardinality({1, 2})
      BY <2>1, FS_Product
    <2>3. Cardinality(Apis) \in Nat
      BY FS_CardinalityType
    <2>4. Cardinality(Apis \X {1, 2}) = 2 * Cardinality(Apis)
      BY <2>1, <2>2, <2>3
    <2>5. <<a, 2>> \in Apis \X {1, 2}
      OBVIOUS
    <2>6. IsFiniteSet(places) /\ Cardinality(places) = Cardinality(Apis \X {1, 2}) - 1
      BY <2>2, <2>5, FS_RemoveElement
    <2> QED BY <2>4, <2>6
  <1>10. IsFiniteSet(before) /\ Cardinality(before) <= Cardinality(places)
    BY <1>8, <1>9, FS_Injection
  <1>11. Cardinality(before) < MaxAttention
    <2>1. Cardinality(before) \in Nat /\ Cardinality(Apis) \in Nat
      BY <1>10, FS_CardinalityType
    <2> QED BY <1>9, <1>10, <2>1, AttentionAssumption
  <1> QED BY <1>1, <1>11 DEF Bounded


LEMMA StuckAreSaid ==
    ASSUME DInv, IsFiniteSet(Apis), 2 * Cardinality(Apis) <= MaxAttention
    PROVE  StuckIsSaid
  <1> PICK rows : rows = UNION {OwnerRows(a) \X {a} : a \in Apis}
    OBVIOUS
  <1>1. ASSUME NEW a \in Apis, api[a].known, ~InState(a, {"converged", "pending", "withdrawn"})
        PROVE  Bounded(rows) \cap ({"no-definition", "never-released", "release-failed"} \X {a}) # {}
    <2>1. PICK c \in StuckCodes : c \in OwnerRows(a)
      BY <1>1, StuckHasRow
    <2>2. <<c, a>> \in Bounded(rows)
      BY <2>1, StuckRowIsShown
    <2>3. <<c, a>> \in {"no-definition", "never-released", "release-failed"} \X {a}
      BY <2>1 DEF StuckCodes
    <2> QED BY <2>2, <2>3
  <1> QED BY <1>1 DEF StuckIsSaid

(* The anti-join over the tables and the document the gateways apply       *)
(* agree: the units an API or its environment attaches, less the ones its  *)
(* own list switches off.                                                  *)
LEMMA OpenAreListed ==
    ASSUME YInv
    PROVE  OpenIsListed
  <1> SUFFICES ASSUME NEW a \in PolicyApis, NEW e \in PolicyEnvs, DisabledKey \notin DOMAIN global[e]
               PROVE  "no-auth-policy" \in PolicyRows(a, e)
                         <=> AuthUnits \cap DOMAIN ActiveDocument(PolicyFor(a, e)) = {}
    BY DEF OpenIsListed
  <1> PICK mine, wide, doc, off : /\ mine = own[a][e] /\ wide = global[e] /\ doc = PolicyFor(a, e)
                                  /\ off = SwitchedOff(a, e)
    OBVIOUS
  <1>1. Lists(mine)
    BY DEF YInv, DisabledAreLists
  <1>2. /\ DOMAIN doc = DOMAIN mine \cup {k \in DOMAIN wide : IsGloballyAttachable(k)}
        /\ \A k \in DOMAIN mine : doc[k] = mine[k]
    BY DEF PolicyFor, Effective, Over, InheritedUnits, Restrict
  <1>3. DisabledKey \in DOMAIN doc <=> DisabledKey \in DOMAIN mine
    BY <1>2
  <1>4. AuthUnits \cap DOMAIN doc = AuthUnits \cap (DOMAIN mine \cup DOMAIN wide)
    <2>1. \A k \in AuthUnits : IsGloballyAttachable(k)
      BY DEF AuthUnits, IsGloballyAttachable, GlobalUnits, Unscoped
    <2> QED BY <1>2, <2>1
  <1>5. DisabledUnits(doc) = off \cap DOMAIN doc
    <2>1. CASE DisabledKey \in DOMAIN mine
      <3>1. "units" \in DOMAIN mine[DisabledKey]
        BY <1>1, <2>1 DEF Lists, Has
      <3>2. off = mine[DisabledKey].units
        BY <2>1, <3>1 DEF SwitchedOff, Get, Has
      <3>3. DisabledUnits(doc) = doc[DisabledKey].units \cap DOMAIN doc
        BY <1>3, <2>1 DEF DisabledUnits, Has
      <3> QED BY <1>2, <2>1, <3>2, <3>3
    <2>2. CASE DisabledKey \notin DOMAIN mine
      <3>1. off = {}
        BY <2>2 DEF SwitchedOff, Get, Has, Nothing
      <3>2. DisabledUnits(doc) = {}
        BY <1>3, <2>2 DEF DisabledUnits, Has
      <3> QED BY <3>1, <3>2
    <2> QED BY <2>1, <2>2
  <1>6. DOMAIN ActiveDocument(doc) = DOMAIN doc \ (DisabledUnits(doc) \cup {DisabledKey})
    BY WithoutHolds DEF ActiveDocument
  <1>7. DisabledKey \notin AuthUnits
    BY DEF DisabledKey, AuthUnits
  <1>8. AuthUnits \cap DOMAIN ActiveDocument(doc) = (AuthUnits \cap (DOMAIN mine \cup DOMAIN wide)) \ off
    BY <1>4, <1>5, <1>6, <1>7
  <1>9. Attached(a, e, AuthUnits) = AuthUnits \cap DOMAIN ActiveDocument(doc)
    BY <1>8 DEF Attached
  <1>10. "no-auth-policy" \in PolicyRows(a, e) <=> Attached(a, e, AuthUnits) = {}
    BY CodesByPlace DEF PolicyRows, PolicyRule
  <1> QED BY <1>9, <1>10

(* The list tells what is wrong with an API, that nobody can call it or    *)
(* that anybody can, whatever order its releases finished in and whichever *)
(* tier attached or switched off what, as long as the dashboard has room   *)
(* for two rows of every API (ownerAttention, sortAttention, bounded).     *)
THEOREM Trouble_Is_Listed ==
    IsFiniteSet(Apis) /\ 2 * Cardinality(Apis) <= MaxAttention
       => (DraftsSpec /\ PolicySpec => []TroubleIsListed)
  <1> SUFFICES ASSUME IsFiniteSet(Apis), 2 * Cardinality(Apis) <= MaxAttention
               PROVE  DraftsSpec /\ PolicySpec => []TroubleIsListed
    OBVIOUS
  <1>1. DInv /\ YInv => TroubleIsListed
    BY StuckAreSaid, OpenAreListed DEF TroubleIsListed
  <1> QED BY <1>1, DraftsInvariant, PolicyInvariant, PTL
=============================================================================
