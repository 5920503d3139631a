------------------------- MODULE ConfigClientProofs -------------------------
(***************************************************************************)
(* Theorems about ConfigClient for every set of documents, every container *)
(* and any number of control-plane changes and version upgrades.           *)
(*                                                                         *)
(* The inductive invariant IInv says what makes one poll at a time enough: *)
(* at most one poll is in flight, its answer was built no earlier than the *)
(* newest answer acted on, and it tells the truth about the control-plane  *)
(* state it was built from.                                                *)
(***************************************************************************)
EXTENDS ConfigClient, TLAPS

OnePoll ==
    /\ \A p, q \in polls : p = q
    /\ polls # {} => inFlight
    /\ phase = "down" => polls = {} /\ table = NoDoc /\ ~decommissioned

AnswersTrue ==
    /\ at <= Len(hist)
    /\ \A p \in polls :
         /\ p.stage # "sent" => p.n \in at..Len(hist)
         /\ p.stage = "fetching" => p.n = at
         /\ p.stage = "revoked" => hist[p.n].revoked /\ Current.revoked
         /\ p.stage \in {"wire", "unchanged", "config", "fetching"} =>
               ~hist[p.n].revoked

CacheAdopted ==
    cacheFile.doc # NoDoc => \E n \in 1..at : hist[n].doc = cacheFile.doc

IInv == TypeOK /\ OnePoll /\ AnswersTrue /\ CacheAdopted /\ FailClosed

-----------------------------------------------------------------------------
(* Appending a control-plane state leaves the earlier ones where they are. *)
LEMMA AppendKeeps ==
    ASSUME NEW h \in Seq(Published), NEW s \in Published
    PROVE  /\ Append(h, s) \in Seq(Published)
           /\ Len(Append(h, s)) = Len(h) + 1
           /\ Append(h, s)[Len(h) + 1] = s
           /\ \A i \in 1..Len(h) : Append(h, s)[i] = h[i]
  OBVIOUS

(* The initial state satisfies the invariant.                              *)
LEMMA InitIInv == Init => IInv
  <1> SUFFICES ASSUME Init PROVE IInv OBVIOUS
  <1>1. PICK d \in Docs : hist = <<[doc |-> d, revoked |-> FALSE]>>
    BY DEF Init
  <1>2. hist \in Seq(Published) /\ Len(hist) = 1
    BY <1>1 DEF Published
  <1>3. TypeOK
    <2>1. 1 \in Wires /\ 1 \in 1..MaxHist
      BY DocsAssumption DEF DocsAssumption, Wires
    <2> QED
      BY <1>2, <2>1 DEF Init, TypeOK, Reasons
  <1>4. OnePoll /\ AnswersTrue /\ CacheAdopted /\ FailClosed
    BY <1>2 DEF Init, OnePoll, AnswersTrue, CacheAdopted, FailClosed
  <1> QED BY <1>3, <1>4 DEF IInv

(* A change of the control plane, however it comes about, preserves the    *)
(* invariant, provided a revocation is only lifted while the process is    *)
(* down.                                                                   *)
LEMMA AdvanceIInv ==
    ASSUME IInv, NEW s \in Published, Advance(s),
           Current.revoked => s.revoked \/ phase = "down"
    PROVE  IInv'
  <1> USE DEF Advance, cpVars, containerVars, clientVars, trafficVars
  <1>1. /\ hist \in Seq(Published) /\ Len(hist) \in 1..MaxHist
        /\ Len(hist) < MaxHist
        /\ at \in 1..MaxHist /\ at <= Len(hist)
    BY DEF IInv, TypeOK, AnswersTrue
  <1>2. /\ hist' \in Seq(Published)
        /\ Len(hist') = Len(hist) + 1
        /\ hist'[Len(hist) + 1] = s
        /\ \A i \in 1..Len(hist) : hist'[i] = hist[i]
    BY <1>1, AppendKeeps
  <1>3. TypeOK'
    BY <1>1, <1>2, DocsAssumption DEF DocsAssumption, IInv, TypeOK
  <1>4. OnePoll'
    BY DEF IInv, OnePoll
  <1>5. Current' = s
    BY <1>1, <1>2 DEF Current
  <1>6. AnswersTrue'
    <2>1. (at <= Len(hist))'
      BY <1>1, <1>2
    <2>2. ASSUME NEW p \in polls
          PROVE  /\ p.stage # "sent" => p.n \in at..Len(hist')
                 /\ p.stage = "fetching" => p.n = at
                 /\ p.stage = "revoked" => hist'[p.n].revoked /\ s.revoked
                 /\ p.stage \in {"wire", "unchanged", "config", "fetching"} =>
                       ~hist'[p.n].revoked
      <3>1. p.stage # "sent" => p.n \in 1..Len(hist) /\ p.n >= at
        BY <1>1 DEF IInv, AnswersTrue, TypeOK, Poll
      <3>2. p.stage # "sent" => hist'[p.n] = hist[p.n]
        BY <3>1, <1>2
      <3>3. p.stage = "revoked" => s.revoked
        BY DEF IInv, AnswersTrue, OnePoll
      <3> QED BY <3>1, <3>2, <3>3, <1>1, <1>2 DEF IInv, AnswersTrue
    <2> QED BY <2>1, <2>2, <1>5 DEF AnswersTrue
  <1>7. CacheAdopted'
    BY <1>1, <1>2 DEF IInv, CacheAdopted
  <1>8. FailClosed'
    BY <1>5 DEF IInv, FailClosed, OnePoll
  <1> QED BY <1>3, <1>4, <1>6, <1>7, <1>8 DEF IInv

(* Sending a poll, answering it and acting on the answer preserve the      *)
(* invariant.                                                              *)
LEMMA PollIInv ==
    ASSUME IInv, NEW p \in polls,
           \/ Answer(p) \/ PollFails(p) \/ ReceiveRevoked(p) \/ ReceiveWire(p)
           \/ ReceiveUnchanged(p) \/ ReceiveBlocked(p) \/ ReceiveConfig(p)
           \/ PrefetchMisses(p) \/ Activate(p)
    PROVE  IInv'
  <1> USE DEF cpVars, containerVars, clientVars, trafficVars
  <1>1. /\ p \in Poll
        /\ polls = {p}
        /\ inFlight
        /\ phase # "down"
    BY DEF IInv, TypeOK, OnePoll
  <1>2. /\ hist \in Seq(Published) /\ Len(hist) \in 1..MaxHist
        /\ MaxHist \in Nat
        /\ at \in 1..Len(hist)
        /\ p.n \in 0..MaxHist
        /\ p.stage # "sent" => p.n \in at..Len(hist) /\ p.n \in 1..MaxHist
    BY <1>1, DocsAssumption DEF DocsAssumption, IInv, TypeOK, AnswersTrue, Poll
  <1>3. CASE Answer(p)
    <2> DEFINE q == [stage |-> AnswerStage(p), digest |-> p.digest, n |-> Len(hist)]
    <2>1. polls' = {q}
      BY <1>1, <1>3 DEF Answer
    <2>2. /\ q \in Poll /\ q.stage = AnswerStage(p) /\ q.n = Len(hist)
          /\ AnswerStage(p) \in {"revoked", "wire", "unchanged", "config"}
          /\ (AnswerStage(p) = "revoked") <=> (Current.revoked = TRUE)
      <3>1. Current \in Published
        BY <1>2 DEF Current
      <3>2. /\ AnswerStage(p) \in {"revoked", "wire", "unchanged", "config"}
            /\ (AnswerStage(p) = "revoked") <=> (Current.revoked = TRUE)
        BY <3>1 DEF AnswerStage, Published
      <3> QED BY <3>2, <1>1, <1>2 DEF Poll
    <2>3. TypeOK'
      BY <2>1, <2>2, <1>3 DEF Answer, IInv, TypeOK
    <2>4. OnePoll' /\ CacheAdopted'
      BY <2>1, <1>3, <1>1 DEF Answer, IInv, OnePoll, CacheAdopted
    <2>5. AnswersTrue'
      <3> HIDE DEF q
      <3>1. Current = hist[q.n] /\ Current' = Current /\ hist' = hist /\ at' = at
        BY <2>2, <1>3 DEF Answer, Current
      <3> QED BY <2>1, <2>2, <3>1, <1>2 DEF AnswersTrue
    <2>6. FailClosed'
      BY <2>1, <2>2, <1>3 DEF Answer, IInv, FailClosed, Current
    <2> QED BY <2>3, <2>4, <2>5, <2>6 DEF IInv
  <1>4. CASE PollFails(p)
    <2>1. polls' = {}
      BY <1>1, <1>4 DEF PollFails, Return
    <2>2. TypeOK'
      BY <2>1, <1>4 DEF PollFails, Return, IInv, TypeOK
    <2> QED
      BY <2>1, <2>2, <1>4, <1>2
      DEF PollFails, Return, IInv, OnePoll, AnswersTrue, CacheAdopted, FailClosed, Current
  <1>5. CASE ReceiveRevoked(p)
    <2>1. polls' = {}
      BY <1>1, <1>5 DEF ReceiveRevoked, Return
    <2>2. TypeOK'
      BY <2>1, <1>5, <1>2 DEF ReceiveRevoked, Return, IInv, TypeOK
    <2>3. Current.revoked /\ Current' = Current
      BY <1>5 DEF ReceiveRevoked, IInv, AnswersTrue, Current
    <2>4. CacheAdopted'
      BY <1>2, <1>5 DEF ReceiveRevoked, IInv, CacheAdopted
    <2> QED
      BY <2>1, <2>2, <2>3, <2>4, <1>5, <1>2
      DEF ReceiveRevoked, Return, IInv, OnePoll, AnswersTrue, FailClosed
  <1>6. CASE ReceiveWire(p)
    <2>1. polls' = {} /\ ~decommissioned
      BY <1>1, <1>6 DEF ReceiveWire, Return, IInv, FailClosed
    <2>2. TypeOK'
      BY <2>1, <1>6, <1>2 DEF ReceiveWire, Return, IInv, TypeOK, Reasons
    <2>3. CacheAdopted'
      BY <1>2, <1>6 DEF ReceiveWire, IInv, CacheAdopted
    <2> QED
      BY <2>1, <2>2, <2>3, <1>6, <1>2
      DEF ReceiveWire, Return, IInv, OnePoll, AnswersTrue, FailClosed
  <1>7. CASE ReceiveUnchanged(p)
    <2>1. polls' = {}
      BY <1>1, <1>7 DEF ReceiveUnchanged, Return
    <2>2. TypeOK'
      BY <2>1, <1>7, <1>2 DEF ReceiveUnchanged, Return, ReasonWhenUnchanged, IInv, TypeOK
    <2>3. CacheAdopted'
      BY <1>2, <1>7 DEF ReceiveUnchanged, IInv, CacheAdopted
    <2> QED
      BY <2>1, <2>2, <2>3, <1>7, <1>2
      DEF ReceiveUnchanged, Return, IInv, OnePoll, AnswersTrue, FailClosed
  <1>8. CASE ReceiveBlocked(p)
    <2>1. polls' = {} /\ hist[p.n] \in Published
      BY <1>1, <1>2, <1>8 DEF ReceiveBlocked
    <2>2. EarlyBlocker(hist[p.n].doc) \in Reasons
      BY DocsAssumption DEF DocsAssumption, EarlyBlocker, Reasons, Refused, IInv, TypeOK
    <2>3. TypeOK'
      BY <2>1, <2>2, <1>8, <1>2 DEF ReceiveBlocked, IInv, TypeOK
    <2>4. CacheAdopted'
      BY <1>2, <1>8 DEF ReceiveBlocked, IInv, CacheAdopted
    <2>5. phase' = "down" => table' = NoDoc
      BY <1>8 DEF ReceiveBlocked
    <2> QED
      BY <2>1, <2>3, <2>4, <2>5, <1>8, <1>2
      DEF ReceiveBlocked, IInv, OnePoll, AnswersTrue, FailClosed
  <1>9. CASE ReceiveConfig(p)
    <2> DEFINE q == [p EXCEPT !.stage = "fetching"]
    <2>1. polls' = {q} /\ q \in Poll /\ q.stage = "fetching" /\ q.n = p.n
      BY <1>1, <1>9 DEF ReceiveConfig, Poll
    <2> HIDE DEF q
    <2>2. TypeOK'
      BY <2>1, <1>9, <1>2 DEF ReceiveConfig, IInv, TypeOK
    <2>3. CacheAdopted'
      BY <1>2, <1>9 DEF ReceiveConfig, IInv, CacheAdopted
    <2>4. ~hist[p.n].revoked
      BY <1>9 DEF ReceiveConfig, IInv, AnswersTrue
    <2>5. AnswersTrue'
      BY <2>1, <2>4, <1>2, <1>9 DEF ReceiveConfig, AnswersTrue
    <2> QED
      BY <2>1, <2>2, <2>3, <2>5, <1>9, <1>1
      DEF ReceiveConfig, IInv, OnePoll, FailClosed
  <1>10. CASE PrefetchMisses(p)
    <2>1. polls' = {}
      BY <1>1, <1>10 DEF PrefetchMisses, Return
    <2>2. TypeOK'
      BY <2>1, <1>10 DEF PrefetchMisses, Return, IInv, TypeOK, Reasons
    <2> QED
      BY <2>1, <2>2, <1>10, <1>2
      DEF PrefetchMisses, Return, IInv, OnePoll, AnswersTrue, CacheAdopted, FailClosed, Current
  <1>11. CASE Activate(p)
    <2>1. polls' = {} /\ p.n = at /\ hist[at].doc \in Docs /\ ~decommissioned
      <3>1. hist[at] \in Published
        BY <1>2
      <3> QED
        BY <3>1, <1>1, <1>2, <1>11
        DEF Activate, Return, IInv, AnswersTrue, Published, FailClosed
    <2>2. cacheFile' \in [doc : Docs \cup {NoDoc}, wire : Wires]
      BY <2>1, <1>11 DEF Activate, IInv, TypeOK
    <2>3. TypeOK'
      BY <2>1, <2>2, <1>11, DocsAssumption
      DEF DocsAssumption, Activate, Return, CloseRevoked, IInv, TypeOK, Reasons
    <2>4. CacheAdopted'
      BY <2>1, <1>2, <1>11 DEF Activate, IInv, CacheAdopted
    <2> QED
      BY <2>1, <2>3, <2>4, <1>11, <1>2
      DEF Activate, Return, IInv, OnePoll, AnswersTrue, FailClosed
  <1> QED BY <1>3, <1>4, <1>5, <1>6, <1>7, <1>8, <1>9, <1>10, <1>11

(* So does every step.                                                     *)
LEMMA NextIInv == IInv /\ [Next]_vars => IInv'
  <1> SUFFICES ASSUME IInv, [Next]_vars PROVE IInv'
    OBVIOUS
  <1> USE DEF cpVars, containerVars, clientVars, trafficVars
  <1>1. Current \in Published
    BY DEF IInv, TypeOK, Current
  <1>2. CASE \E d \in Docs : Publish(d)
    <2>1. PICK d \in Docs : Publish(d)
      BY <1>2
    <2> QED BY <2>1, <1>1, AdvanceIInv DEF Publish, Published
  <1>3. CASE Revoke
    BY <1>1, <1>3, AdvanceIInv DEF Revoke, Published
  <1>4. CASE Reinstate
    BY <1>1, <1>4, AdvanceIInv DEF Reinstate, Published
  <1>5. CASE UpgradeControlPlane
    <2>1. TypeOK'
      BY <1>5, DocsAssumption DEF DocsAssumption, UpgradeControlPlane, IInv, TypeOK, Wires
    <2> QED
      BY <2>1, <1>5
      DEF UpgradeControlPlane, IInv, OnePoll, AnswersTrue, CacheAdopted, FailClosed, Current
  <1>6. CASE \E w \in Wires, r \in BOOLEAN : Start(w, r)
    <2>1. PICK w \in Wires, r \in BOOLEAN : Start(w, r)
      BY <1>6
    <2>2. CachedDoc(w) \in Docs \cup {NoDoc}
      BY DEF IInv, TypeOK, CachedDoc
    <2>3. polls' = {Sent(CachedDoc(w))} /\ Sent(CachedDoc(w)) \in Poll
          /\ Sent(CachedDoc(w)).stage = "sent"
      BY <2>1, <2>2, DocsAssumption DEF DocsAssumption, Start, Sent, Poll
    <2>4. TypeOK'
      BY <2>1, <2>2, <2>3
      DEF Start, IInv, TypeOK, Reasons, None, CachedSettings, Wires
    <2> QED
      BY <2>1, <2>3, <2>4
      DEF Start, IInv, OnePoll, AnswersTrue, CacheAdopted, FailClosed, Current
  <1>7. CASE PollOnce
    <2>1. polls' = {Sent(table)} /\ Sent(table) \in Poll /\ Sent(table).stage = "sent"
      BY <1>7, DocsAssumption
      DEF DocsAssumption, PollOnce, PollGuard, Sent, Poll, IInv, OnePoll, TypeOK
    <2>2. TypeOK'
      BY <2>1, <1>7 DEF PollOnce, IInv, TypeOK
    <2> QED
      BY <2>1, <2>2, <1>7
      DEF PollOnce, IInv, OnePoll, AnswersTrue, CacheAdopted, FailClosed, Current
  <1>8. CASE PollStep
    BY <1>8, PollIInv DEF PollStep
  <1>9. CASE Crash
    <2>1. TypeOK'
      BY <1>9 DEF Crash, IInv, TypeOK, Reasons
    <2> QED
      BY <2>1, <1>9
      DEF Crash, IInv, OnePoll, AnswersTrue, CacheAdopted, FailClosed, Current
  <1>10. CASE \E s \in Subs : BeginRequest(s) \/ OpenStream(s) \/ EndRequest(s) \/ CloseStream(s)
    <2>1. TypeOK'
      BY <1>10 DEF BeginRequest, OpenStream, EndRequest, CloseStream, IInv, TypeOK
    <2> QED
      BY <2>1, <1>10
      DEF BeginRequest, OpenStream, EndRequest, CloseStream, IInv, OnePoll,
          AnswersTrue, CacheAdopted, FailClosed, Current
  <1>11. CASE UNCHANGED vars
    BY <1>11
    DEF vars, IInv, TypeOK, OnePoll, AnswersTrue, CacheAdopted, FailClosed, Current
  <1> QED
    BY <1>2, <1>3, <1>4, <1>5, <1>6, <1>7, <1>8, <1>9, <1>10, <1>11 DEF Next

(* The invariant holds throughout.                                         *)
LEMMA Invariance == Spec => []IInv
  BY InitIInv, NextIInv, PTL DEF Spec

(* The state of the poll loop, the cache file and the traffic stays well   *)
(* typed, whatever the control plane and the network do.                   *)
THEOREM TypeCorrect == Spec => []TypeOK
  <1>1. IInv => TypeOK
    BY DEF IInv
  <1> QED BY <1>1, Invariance, PTL

(* Fail closed (the 401 branch of pollExclusive): a decommissioned         *)
(* instance has no table and nothing in flight that could restore one.     *)
THEOREM FailsClosed == Spec => []FailClosed
  <1>1. IInv => FailClosed
    BY DEF IInv
  <1> QED BY <1>1, Invariance, PTL

-----------------------------------------------------------------------------
(* What the steps of a poll do to the position in the control plane's      *)
(* history and to the served document.                                     *)
LEMMA PollLearns ==
    ASSUME IInv, NEW p \in polls,
           \/ Answer(p) \/ PollFails(p) \/ ReceiveRevoked(p) \/ ReceiveWire(p)
           \/ ReceiveUnchanged(p) \/ ReceiveBlocked(p) \/ ReceiveConfig(p)
           \/ PrefetchMisses(p) \/ Activate(p)
    PROVE  /\ phase # "down"
           /\ at' \in at..Len(hist)
           /\ hist' = hist
           /\ \/ phase' # "down" /\ ~decommissioned /\ ~decommissioned'
                 /\ ~hist[at'].revoked /\ table' \in {hist[at'].doc, table}
              \/ phase' # "down" /\ decommissioned' /\ hist[at'].revoked /\ table' = NoDoc
              \/ phase' # "down" /\ at' = at /\ table' = table
                 /\ decommissioned' = decommissioned
              \/ phase' = "down" /\ table' = NoDoc /\ ~decommissioned
  <1> USE DEF cpVars, containerVars, clientVars, trafficVars
  <1>1. /\ phase # "down"
        /\ at \in 1..Len(hist) /\ Len(hist) \in Nat
        /\ p.stage # "sent" => p.n \in at..Len(hist)
        /\ p.stage = "fetching" => p.n = at
        /\ p.stage = "revoked" => hist[p.n].revoked
        /\ p.stage \in {"wire", "unchanged", "config", "fetching"} => ~hist[p.n].revoked
        /\ decommissioned => p.stage \in {"sent", "revoked"}
        /\ decommissioned => table = NoDoc
        /\ decommissioned \in BOOLEAN
    BY DEF IInv, TypeOK, OnePoll, AnswersTrue, FailClosed
  <1>2. CASE Answer(p)
    BY <1>1, <1>2 DEF Answer
  <1>3. CASE PollFails(p)
    BY <1>1, <1>3 DEF PollFails, Return
  <1>4. CASE ReceiveRevoked(p)
    BY <1>1, <1>4 DEF ReceiveRevoked, Return
  <1>5. CASE ReceiveWire(p)
    BY <1>1, <1>5 DEF ReceiveWire, Return
  <1>6. CASE ReceiveUnchanged(p)
    BY <1>1, <1>6 DEF ReceiveUnchanged, Return
  <1>7. CASE ReceiveBlocked(p)
    BY <1>1, <1>7 DEF ReceiveBlocked
  <1>8. CASE ReceiveConfig(p)
    BY <1>1, <1>8 DEF ReceiveConfig
  <1>9. CASE PrefetchMisses(p)
    BY <1>1, <1>9 DEF PrefetchMisses, Return
  <1>10. CASE Activate(p)
    BY <1>1, <1>10 DEF Activate, Return
  <1> QED BY <1>2, <1>3, <1>4, <1>5, <1>6, <1>7, <1>8, <1>9, <1>10

(* Every other step leaves the position alone, and changes the document    *)
(* only by stopping or starting the process.                               *)
LEMMA OtherSteps ==
    ASSUME IInv, [Next]_vars, ~PollStep
    PROVE  /\ at' = at
           /\ \/ table' = table /\ decommissioned' = decommissioned
                 /\ (phase' = "down") = (phase = "down")
                 /\ \/ hist' = hist
                    \/ \E s \in Published : hist' = Append(hist, s)
              \/ phase # "down" /\ phase' = "down" /\ table' = NoDoc /\ hist' = hist
              \/ /\ phase = "down" /\ phase' # "down" /\ hist' = hist
                 /\ table' # NoDoc => table' = cacheFile.doc
  <1> USE DEF cpVars, containerVars, clientVars, trafficVars
  <1>1. Current \in Published
    BY DEF IInv, TypeOK, Current
  <1>2. CASE \E d \in Docs : Publish(d)
    BY <1>1, <1>2 DEF Publish, Advance, Published
  <1>3. CASE Revoke \/ Reinstate
    BY <1>1, <1>3 DEF Revoke, Reinstate, Advance, Published
  <1>4. CASE UpgradeControlPlane
    BY <1>4 DEF UpgradeControlPlane
  <1>5. CASE \E w \in Wires, r \in BOOLEAN : Start(w, r)
    BY <1>5 DEF Start, CachedDoc
  <1>6. CASE PollOnce
    BY <1>6 DEF PollOnce
  <1>7. CASE Crash
    BY <1>7 DEF Crash
  <1>8. CASE \E s \in Subs : BeginRequest(s) \/ OpenStream(s) \/ EndRequest(s) \/ CloseStream(s)
    BY <1>8 DEF BeginRequest, OpenStream, EndRequest, CloseStream
  <1>9. CASE UNCHANGED vars
    BY <1>9 DEF vars
  <1> QED
    BY <1>2, <1>3, <1>4, <1>5, <1>6, <1>7, <1>8, <1>9 DEF Next

(* Answers take effect in the order they were given: the inFlight guard of *)
(* pollOnce is enough, for any number of polls, failures and restarts.     *)
THEOREM Ordered == Spec => AnswersInOrder
  <1>1. IInv /\ [Next]_vars => [at' >= at]_vars
    <2> SUFFICES ASSUME IInv, [Next]_vars PROVE at' >= at
      OBVIOUS
    <2>1. at \in Nat /\ Len(hist) \in Nat
      BY DEF IInv, TypeOK
    <2>2. CASE PollStep
      <3>1. PICK p \in polls : at' \in at..Len(hist)
        BY <2>2, PollLearns DEF PollStep
      <3> QED BY <3>1, <2>1
    <2> QED BY <2>1, <2>2, OtherSteps
  <1> QED BY <1>1, Invariance, PTL DEF Spec, AnswersInOrder

(* No late answer undoes a processed 401 while the process runs.           *)
THEOREM RevocationFinal == Spec => RevocationHolds
  <1>1. IInv /\ [Next]_vars =>
          [decommissioned /\ phase' # "down" => decommissioned' /\ table' = NoDoc]_vars
    <2> SUFFICES ASSUME IInv, [Next]_vars, decommissioned, phase' # "down"
                 PROVE  decommissioned' /\ table' = NoDoc
      OBVIOUS
    <2>1. table = NoDoc /\ phase # "down"
      BY DEF IInv, FailClosed, OnePoll
    <2>2. CASE PollStep
      BY <2>1, <2>2, PollLearns DEF PollStep
    <2> QED BY <2>1, <2>2, OtherSteps
  <1> QED BY <1>1, Invariance, PTL DEF Spec, RevocationHolds

(* Fail static: no failed, blocked or mismatched poll takes away what a    *)
(* running instance serves.                                                *)
THEOREM StaysStatic == Spec => FailStatic
  <1>1. IInv /\ [Next]_vars =>
          [table # NoDoc /\ table' = NoDoc => decommissioned' \/ phase' = "down"]_vars
    <2> SUFFICES ASSUME IInv, [Next]_vars, table # NoDoc, table' = NoDoc, phase' # "down"
                 PROVE  decommissioned'
      OBVIOUS
    <2>1. phase # "down"
      BY DEF IInv, OnePoll
    <2>2. CASE PollStep
      <3>1. hist[at'].doc # NoDoc
        <4>1. at' \in 1..Len(hist)
          BY <2>2, PollLearns DEF PollStep, IInv, TypeOK
        <4>2. hist[at'] \in Published
          BY <4>1 DEF IInv, TypeOK
        <4> QED BY <4>2, DocsAssumption DEF DocsAssumption, Published
      <3> QED BY <2>1, <2>2, <3>1, PollLearns DEF PollStep
    <2> QED BY <2>1, <2>2, OtherSteps
  <1> QED BY <1>1, Invariance, PTL DEF Spec, FailStatic

-----------------------------------------------------------------------------
(* What the instance enforces beside its table: a refusal is on record     *)
(* while defaults are in force, and a process that is not serving has no   *)
(* traffic.                                                                *)
QuietUntilServing == phase # "serving" => requests = {} /\ streams = {}
Enforced == RefusalIsReported /\ SettingsMatchTable /\ QuietUntilServing

(* The start of a process brings back the cached document with its own     *)
(* settings, or with the defaults and the reason.                          *)
LEMMA StartEnforced ==
    ASSUME IInv, Enforced, NEW w \in Wires, NEW r \in BOOLEAN, Start(w, r)
    PROVE  Enforced'
  <1> USE DEF trafficVars, cpVars
  <1>1. RefusalIsReported'
    BY DEF Start, RefusalIsReported
  <1>2. SettingsMatchTable'
    BY DEF Start, SettingsMatchTable, CachedSettings, None
  <1>3. QuietUntilServing'
    BY DEF Start, Enforced, QuietUntilServing
  <1> QED BY <1>1, <1>2, <1>3 DEF Enforced

(* No step of a poll, blocked, failed or activated, and none of the rest   *)
(* loses the reason or mixes one document with another's settings.         *)
LEMMA EnforcedNext == IInv /\ Enforced /\ [Next]_vars => Enforced'
  <1> SUFFICES ASSUME IInv, Enforced, [Next]_vars PROVE Enforced'
    OBVIOUS
  <1> USE DEF cpVars, containerVars, clientVars, trafficVars, Enforced, RefusalIsReported,
              SettingsMatchTable, QuietUntilServing
  <1>1. CASE \E d \in Docs : Publish(d)
    BY <1>1 DEF Publish, Advance
  <1>2. CASE Revoke \/ Reinstate \/ UpgradeControlPlane
    BY <1>2 DEF Revoke, Reinstate, UpgradeControlPlane, Advance
  <1>3. CASE \E w \in Wires, r \in BOOLEAN : Start(w, r)
    BY <1>3, StartEnforced
  <1>4. CASE PollOnce
    BY <1>4 DEF PollOnce
  <1>5. CASE PollStep
    <2>1. PICK p \in polls :
            \/ Answer(p) \/ PollFails(p) \/ ReceiveRevoked(p) \/ ReceiveWire(p)
            \/ ReceiveUnchanged(p) \/ ReceiveBlocked(p) \/ ReceiveConfig(p)
            \/ PrefetchMisses(p) \/ Activate(p)
      BY <1>5 DEF PollStep
    <2>2. CASE Answer(p) \/ PollFails(p) \/ ReceiveConfig(p)
      BY <2>2 DEF Answer, PollFails, ReceiveConfig, Return
    <2>3. CASE ReceiveRevoked(p)
      BY <2>3 DEF ReceiveRevoked, Return
    <2>4. CASE ReceiveWire(p) \/ ReceiveUnchanged(p) \/ PrefetchMisses(p)
      BY <2>4 DEF ReceiveWire, ReceiveUnchanged, PrefetchMisses, Return, ReasonWhenUnchanged, None
    <2>5. CASE ReceiveBlocked(p)
      BY <2>5 DEF ReceiveBlocked
    <2>6. CASE Activate(p)
      BY <2>6 DEF Activate, Return
    <2> QED BY <2>1, <2>2, <2>3, <2>4, <2>5, <2>6
  <1>6. CASE Crash
    BY <1>6 DEF Crash
  <1>7. CASE \E s \in Subs : BeginRequest(s) \/ OpenStream(s) \/ EndRequest(s) \/ CloseStream(s)
    BY <1>7 DEF BeginRequest, OpenStream, EndRequest, CloseStream
  <1>8. CASE UNCHANGED vars
    BY <1>8 DEF vars
  <1> QED
    BY <1>1, <1>2, <1>3, <1>4, <1>5, <1>6, <1>7, <1>8 DEF Next

LEMMA EnforcedHolds == Spec => []Enforced
  <1>1. Init => Enforced
    BY DEF Init, Enforced, RefusalIsReported, SettingsMatchTable, QuietUntilServing
  <1> QED BY <1>1, EnforcedNext, Invariance, PTL DEF Spec

(* At every moment: well typed, closed once revoked, every default in      *)
(* force on record, and the settings those of the document served, for any *)
(* container the process is started on.                                    *)
THEOREM SoundInstance == Spec => []InstanceSound
  <1>1. IInv /\ Enforced => InstanceSound
    BY DEF IInv, Enforced, InstanceSound
  <1> QED BY <1>1, Invariance, EnforcedHolds, PTL

(* The streams that survive a change of table belong to subscriptions of   *)
(* the new one, whichever step changes it.                                 *)
LEMMA StreamsClose == Spec => SwapClosesStreams
  <1> DEFINE A == table' # table => streams' \subseteq IF table' = NoDoc THEN {} ELSE SubsOf[table']
  <1>1. IInv /\ Enforced /\ [Next]_vars => [A]_vars
    <2> SUFFICES ASSUME IInv, Enforced, [Next]_vars, table' # table PROVE A
      OBVIOUS
    <2> USE DEF cpVars, containerVars, clientVars, trafficVars
    <2>1. CASE \E w \in Wires, r \in BOOLEAN : Start(w, r)
      BY <2>1 DEF Start, Enforced, QuietUntilServing
    <2>2. CASE PollStep
      <3>1. PICK p \in polls : ReceiveRevoked(p) \/ Activate(p)
        BY <2>2 DEF PollStep, Answer, PollFails, ReceiveWire, ReceiveUnchanged, ReceiveBlocked,
                    ReceiveConfig, PrefetchMisses
      <3>2. CASE ReceiveRevoked(p)
        BY <3>2 DEF ReceiveRevoked
      <3>3. CASE Activate(p)
        <4>1. hist[p.n].doc # NoDoc
          <5>1. p \in Poll /\ p.n \in 1..Len(hist) /\ hist \in Seq(Published)
            BY <3>3 DEF Activate, IInv, TypeOK, AnswersTrue, Poll
          <5>2. hist[p.n] \in Published
            BY <5>1
          <5> QED BY <5>2, DocsAssumption DEF DocsAssumption, Published
        <4> QED BY <3>3, <4>1 DEF Activate, CloseRevoked
      <3> QED BY <3>1, <3>2, <3>3
    <2>3. CASE Crash
      BY <2>3 DEF Crash
    <2> QED
      BY <2>1, <2>2, <2>3
      DEF Next, vars, Publish, Advance, Revoke, Reinstate, UpgradeControlPlane, PollOnce,
          BeginRequest, OpenStream, EndRequest, CloseStream
  <1> QED BY <1>1, Invariance, EnforcedHolds, PTL DEF Spec, SwapClosesStreams

(* What an answer did stands, in all four senses.                          *)
THEOREM AnswersAlwaysStand == Spec => AnswersStand
  BY Ordered, RevocationFinal, StaysStatic, StreamsClose, PTL DEF AnswersStand

(* The poll loop implements ServedDocument: the composed specifications    *)
(* may rely on that promise instead of on the protocol.                    *)
THEOREM Refinement == Spec => KeepsPromise
  <1>1. Init => Promise!Init
    <2> SUFFICES ASSUME Init PROVE Promise!Init
      OBVIOUS
    <2>1. PICK d \in Docs : hist = <<[doc |-> d, revoked |-> FALSE]>>
      BY DEF Init
    <2> QED BY <2>1 DEF Init, Promise!Init, Promise!PublishedState
  <1>2. IInv /\ [Next]_vars => [Promise!Next]_(Promise!absVars)
    <2> SUFFICES ASSUME IInv, [Next]_vars
                 PROVE  [Promise!Next]_(Promise!absVars)
      OBVIOUS
    <2>1. CASE PollStep
      <3>1. CASE phase' = "down"
        BY <2>1, <3>1, PollLearns DEF PollStep, Promise!Next, Promise!Stop
      <3>2. CASE phase' # "down" /\ at' = at /\ table' = table
        BY <2>1, <3>2, PollLearns DEF PollStep, Promise!absVars
      <3>3. CASE phase' # "down" /\ ~(at' = at /\ table' = table)
        BY <2>1, <3>3, PollLearns DEF PollStep, Promise!Next, Promise!Learn
      <3> QED BY <3>1, <3>2, <3>3
    <2>2. CASE ~PollStep
      <3>1. CASE \E s \in Published : hist' = Append(hist, s)
        BY <2>2, <3>1, OtherSteps
        DEF Promise!Next, Promise!Change, Promise!PublishedState, Published
      <3>2. CASE phase # "down" /\ phase' = "down"
        <4>1. at' \in at..Len(hist)
          BY <2>2, OtherSteps DEF IInv, AnswersTrue, TypeOK
        <4> QED BY <2>2, <3>2, <4>1, OtherSteps DEF Promise!Next, Promise!Stop
      <3>3. CASE phase = "down" /\ phase' # "down"
        <4>1. at' = at /\ hist' = hist /\ (table' # NoDoc => table' = cacheFile.doc)
          BY <2>2, <3>3, OtherSteps
        <4>2. table' \in {NoDoc} \cup {hist[n].doc : n \in 1..at}
          BY <4>1 DEF IInv, CacheAdopted
        <4> QED BY <3>3, <4>1, <4>2 DEF Promise!Next, Promise!Boot
      <3> QED BY <2>2, <3>1, <3>2, <3>3, OtherSteps DEF Promise!absVars
    <2> QED BY <2>1, <2>2
  <1> QED BY <1>1, <1>2, Invariance, PTL DEF Spec, KeepsPromise, Promise!Spec
=============================================================================
