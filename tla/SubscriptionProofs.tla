------------------------- MODULE SubscriptionProofs -------------------------
(***************************************************************************)
(* Theorems about Subscription for any applications, products, gateways    *)
(* and instances and any number of subscriptions, keys and requests.       *)
(*                                                                         *)
(* The inductive invariant IInv adds to the properties what they rest on:  *)
(* rows are filled in insertion order, a dead key is older than its slot   *)
(* or the slot is marked, nothing ungranted was ever reported, and a       *)
(* subscription an instance reported is still in what it holds and in what *)
(* is on its way there, for as long as it is activating.                   *)
(*                                                                         *)
(* The second part is about Kafka, the other place where an application is *)
(* given something by somebody else's decision.                            *)
(***************************************************************************)
EXTENDS Subscription, Kafka, FiniteSetTheorems, SequenceTheorems, WellFoundedInduction, TLAPS

RowsFilled ==
    \A s \in SubIds :
        /\ s > nsub => sub[s] = NoRow
        /\ sub[s].state # "none" => sub[s].slot["primary"].gen > 0

DeadKnown ==
    \A d \in dead :
        \/ d.gen < sub[d.sub].slot[d.slot].gen
        \/ d.gen = sub[d.sub].slot[d.slot].gen /\ sub[d.sub].slot[d.slot].expired

ReportsGranted == \A i \in Instances : Granted(instance[i].reported)

Lists(d, s) == d # NoDoc /\ s \in d.subs
Kept(d, s) == d = NoDoc \/ s \in d.subs
Carried ==
    \A i \in Instances, s \in SubIds :
        sub[s].state = "activating" /\ Lists(instance[i].reported, s) =>
            Kept(held[i], s) /\ (answer[i] = NoAnswer \/ Kept(answer[i], s))

DocInv == OnlyGrantedServed /\ ReportsGranted /\ Carried
IInv == TypeOK /\ RowsFilled /\ DeadKnown /\ DocInv

-----------------------------------------------------------------------------
(* A document built from a well-typed table is one, and lists the rows     *)
(* that are activating or active.                                          *)
LEMMA BuildFacts ==
    ASSUME TypeOK, NEW t \in [SubIds -> Row], NEW c \in Scopes
    PROVE  /\ BuildConfig(t, c) \in Doc
           /\ BuildConfig(t, c).subs = ServedRows(t)
           /\ BuildConfig(t, c) # NoDoc
  <1>1. ServedRows(t) \in SUBSET SubIds
    BY DEF ServedRows
  <1>2. LiveKeys(t) \in SUBSET Key
    <2>1. ASSUME NEW s \in SubIds, NEW k \in Slots, Present(t, s, k)
          PROVE  KeyOf(t, s, k) \in Key
      <3>1. t[s].slot[k].gen \in Nat
        BY DEF Row, Slot
      <3> QED
        BY <2>1, <3>1 DEF Present, KeyOf, Key
    <2> QED
      BY <1>1, <2>1 DEF LiveKeys
  <1>3. SettingAt(c) \in Values \cup {Default}
    BY DEF SettingAt, TypeOK, Scopes, Layers
  <1>4. broken \in BOOLEAN
    BY DEF TypeOK
  <1> QED
    BY <1>1, <1>2, <1>3, <1>4, DocAssumption DEF BuildConfig, Doc

(* A fresh key and an expired one are slots.                               *)
LEMMA SlotFacts ==
    ASSUME NEW v \in Slot
    PROVE  /\ Minted(v.gen + 1) \in Slot
           /\ Minted(v.gen + 1).gen = v.gen + 1
           /\ [v EXCEPT !.expired = TRUE] \in Slot
           /\ [v EXCEPT !.expired = TRUE].gen = v.gen
           /\ [v EXCEPT !.expired = TRUE].expired = TRUE
  <1>1. v.gen \in Nat /\ v.gen + 1 \in Nat
    BY DEF Slot
  <1>2. ASSUME NEW n \in Nat PROVE Minted(n) \in Slot /\ Minted(n).gen = n
    BY DEF Slot, Minted
  <1>3. /\ [v EXCEPT !.expired = TRUE] \in Slot
        /\ [v EXCEPT !.expired = TRUE].gen = v.gen
        /\ [v EXCEPT !.expired = TRUE].expired = TRUE
    BY DEF Slot
  <1> QED
    BY <1>1, <1>2, <1>3

(* Updating one field of a row leaves the others.                          *)
States == Current \cup Terminal \cup Absent

LEMMA SlotUpdate ==
    ASSUME NEW r \in Row, NEW f \in [Slots -> Slot], NEW u, u = [r EXCEPT !.slot = f]
    PROVE  /\ u \in Row
           /\ u.slot = f /\ u.state = r.state /\ u.event = r.event
           /\ u.product = r.product /\ u.app = r.app /\ u.publisher = r.publisher
  BY DEF Row

LEMMA StateUpdate ==
    ASSUME NEW r \in Row, NEW x \in States, NEW u, u = [r EXCEPT !.state = x]
    PROVE  /\ u \in Row
           /\ u.slot = r.slot /\ u.state = x /\ u.event = r.event
           /\ u.product = r.product /\ u.app = r.app /\ u.publisher = r.publisher
  BY DEF Row, States

(* What the two stages of a pass before the settling do to the table.      *)
LEMMA StageFacts ==
    ASSUME sub \in [SubIds -> Row], NEW due \in SUBSET SubIds,
           NEW aged \in SUBSET (SubIds \X Slots),
           NEW t, t = RunKeyExpiry(DeliverEvents(sub, due), aged)
    PROVE  /\ t \in [SubIds -> Row]
           /\ \A s \in SubIds :
                 /\ t[s].state = sub[s].state
                 /\ s \notin due => t[s].event = sub[s].event
                 /\ t[s].product = sub[s].product /\ t[s].app = sub[s].app
                 /\ t[s].publisher = sub[s].publisher
                 /\ \A k \in Slots : t[s].slot[k] = AgedSlot(sub, aged, s, k)
  <1> DEFINE d == DeliverEvents(sub, due)
  <1>1. /\ d \in [SubIds -> Row]
        /\ \A s \in SubIds :
              /\ d[s].state = sub[s].state /\ d[s].slot = sub[s].slot
              /\ s \notin due => d[s].event = sub[s].event
              /\ d[s].product = sub[s].product /\ d[s].app = sub[s].app
              /\ d[s].publisher = sub[s].publisher
    <2>1. ASSUME NEW s \in SubIds
          PROVE  /\ d[s] \in Row
                 /\ d[s].state = sub[s].state /\ d[s].slot = sub[s].slot
                 /\ s \notin due => d[s].event = sub[s].event
                 /\ d[s].product = sub[s].product /\ d[s].app = sub[s].app
                 /\ d[s].publisher = sub[s].publisher
      <3>1. sub[s] \in Row
        OBVIOUS
      <3>2. CASE s \in due
        <4>1. d[s] = [sub[s] EXCEPT !.event = "awaiting-decision"]
          BY <3>2 DEF DeliverEvents
        <4> QED BY <3>1, <3>2, <4>1 DEF Row, Events
      <3>3. CASE s \notin due
        <4>1. d[s] = sub[s]
          BY <3>3 DEF DeliverEvents
        <4> QED BY <3>1, <4>1
      <3> QED BY <3>2, <3>3
    <2>2. d = [s \in SubIds |-> d[s]]
      BY DEF DeliverEvents
    <2> HIDE DEF d
    <2>3. d \in [SubIds -> Row]
      BY <2>1, <2>2
    <2> QED
      BY <2>1, <2>3
  <1> HIDE DEF d
  <1>2. \A s \in SubIds : d[s] \in Row
    BY <1>1
  <1>3. ASSUME NEW s \in SubIds, NEW k \in Slots
        PROVE  AgedSlot(d, aged, s, k) \in Slot
    <2>1. d[s].slot[k] \in Slot
      BY <1>2 DEF Row
    <2> QED
      BY <2>1, SlotFacts DEF AgedSlot
  <1>4. t = [s \in SubIds |-> [d[s] EXCEPT !.slot = [k \in Slots |-> AgedSlot(d, aged, s, k)]]]
    BY DEF d, RunKeyExpiry
  <1>5. ASSUME NEW s \in SubIds
        PROVE  /\ t[s] \in Row
               /\ t[s].slot = [k \in Slots |-> AgedSlot(d, aged, s, k)]
               /\ t[s].state = d[s].state /\ t[s].event = d[s].event
               /\ t[s].product = d[s].product /\ t[s].app = d[s].app
               /\ t[s].publisher = d[s].publisher
    <2> DEFINE f == [k \in Slots |-> AgedSlot(d, aged, s, k)]
    <2>1. f \in [Slots -> Slot]
      BY <1>3
    <2>2. t[s] = [d[s] EXCEPT !.slot = f]
      BY <1>4
    <2> HIDE DEF f
    <2>3. d[s] \in Row
      BY <1>2
    <2>4. /\ t[s] \in Row
          /\ t[s].slot = f /\ t[s].state = d[s].state /\ t[s].event = d[s].event
          /\ t[s].product = d[s].product /\ t[s].app = d[s].app
          /\ t[s].publisher = d[s].publisher
      BY <2>1, <2>2, <2>3, SlotUpdate
    <2> QED
      BY <2>4 DEF f
  <1>6. t \in [SubIds -> Row]
    BY <1>4, <1>5
  <1>7. \A s \in SubIds, k \in Slots : AgedSlot(d, aged, s, k) = AgedSlot(sub, aged, s, k)
    BY <1>1 DEF AgedSlot
  <1>8. \A s \in SubIds, k \in Slots : t[s].slot[k] = AgedSlot(sub, aged, s, k)
    BY <1>5, <1>7
  <1>9. \A s \in SubIds :
           /\ t[s].state = sub[s].state /\ (s \notin due => t[s].event = sub[s].event)
           /\ t[s].product = sub[s].product /\ t[s].app = sub[s].app
           /\ t[s].publisher = sub[s].publisher
    <2> TAKE s \in SubIds
    <2>1. /\ d[s].state = sub[s].state /\ (s \notin due => d[s].event = sub[s].event)
          /\ d[s].product = sub[s].product /\ d[s].app = sub[s].app
          /\ d[s].publisher = sub[s].publisher
      BY <1>1
    <2>2. /\ t[s].state = d[s].state /\ t[s].event = d[s].event
          /\ t[s].product = d[s].product /\ t[s].app = d[s].app
          /\ t[s].publisher = d[s].publisher
      BY <1>5
    <2> QED BY <2>1, <2>2
  <1> QED
    BY <1>6, <1>8, <1>9

(* Settling changes states only.                                           *)
LEMMA SettleFacts ==
    ASSUME NEW t \in [SubIds -> Row]
    PROVE  /\ Settle(t) \in [SubIds -> Row]
           /\ \A s \in SubIds :
                 /\ Settle(t)[s].slot = t[s].slot
                 /\ Settle(t)[s].state \in {t[s].state, SettledState(t[s].state)}
                 /\ Settle(t)[s].state # t[s].state => FleetApplied(t)
  <1>1. \A s \in SubIds : t[s] \in Row
    OBVIOUS
  <1>2. \A x \in States : SettledState(x) \in States
    BY DEF SettledState, States, Current, Terminal
  <1>3. CASE FleetApplied(t)
    <2>1. Settle(t) = [s \in SubIds |-> [t[s] EXCEPT !.state = SettledState(@)]]
      BY <1>3 DEF Settle
    <2>2. ASSUME NEW s \in SubIds
          PROVE  /\ Settle(t)[s] \in Row
                 /\ Settle(t)[s].slot = t[s].slot
                 /\ Settle(t)[s].state = SettledState(t[s].state)
      <3>1. t[s].state \in States
        BY <1>1 DEF Row, States
      <3>2. Settle(t)[s] = [t[s] EXCEPT !.state = SettledState(t[s].state)]
        BY <2>1
      <3> QED
        BY <1>1, <1>2, <3>1, <3>2, StateUpdate
    <2> QED
      BY <1>3, <2>1, <2>2
  <1>4. CASE ~FleetApplied(t)
    BY <1>4 DEF Settle
  <1> QED
    BY <1>3, <1>4

(* Documents stay granted and carried over a step of the table alone, if   *)
(* what was granted stays granted and only what was asked for is granted.   *)
GrantedStates == {"activating", "active", "revoking", "revoked", "deleted"}

LEMMA DocInvKept ==
    ASSUME TypeOK, DocInv, UNCHANGED fleet,
           \A s \in SubIds :
              /\ sub[s].state \in GrantedStates => sub'[s].state \in GrantedStates
              /\ sub'[s].state = "activating" => sub[s].state \in {"activating", "none", "pending"}
    PROVE  DocInv'
  <1>1. \A i \in Instances :
           /\ instance'[i] = instance[i] /\ held'[i] = held[i] /\ answer'[i] = answer[i]
           /\ held[i] \in Doc \cup {NoDoc} /\ instance[i].reported \in Doc \cup {NoDoc}
           /\ answer[i] \in Doc \cup {NoDoc, NoAnswer}
    BY DEF fleet, TypeOK, Instance
  <1>2. ASSUME NEW d, Granted(d), d = NoDoc \/ d \in Doc
        PROVE  /\ Granted(d)'
               /\ \A s \in SubIds : sub'[s].state = "activating" /\ Lists(d, s)
                                       => sub[s].state = "activating"
    <2>1. CASE d = NoDoc
      BY <2>1 DEF Granted, Lists
    <2>2. CASE d \in Doc /\ d # NoDoc
      <3>1. d.subs \subseteq SubIds
        BY <2>2 DEF Doc
      <3> QED
        BY <1>2, <2>2, <3>1 DEF Granted, Lists, GrantedStates
    <2> QED
      BY <1>2, <2>1, <2>2
  <1>3. OnlyGrantedServed'
    BY <1>1, <1>2 DEF DocInv, OnlyGrantedServed
  <1>4. ReportsGranted'
    BY <1>1, <1>2 DEF DocInv, ReportsGranted
  <1>5. Carried'
    BY <1>1, <1>2 DEF DocInv, ReportsGranted, Carried, Lists, Kept
  <1> QED
    BY <1>3, <1>4, <1>5 DEF DocInv

LEMMA InitIInv == Init => IInv
  <1> SUFFICES ASSUME Init PROVE IInv
    OBVIOUS
  <1>1. NoRow \in Row /\ NoRow.state = "none"
    BY DEF NoRow, Row, Absent, Slot, Empty, Events
  <1>2. \A i \in Instances : /\ instance[i] \in Instance
                             /\ instance[i].reported = NoDoc
    BY DEF Init, Instance
  <1>3. TypeOK
    <2>1. sub \in [SubIds -> Row] /\ instance \in [Instances -> Instance]
      BY <1>1, <1>2 DEF Init
    <2>2. override \in [Scopes -> Values \cup {NoValue}]
      BY DEF Init
    <2>3. nsub \in 0..MaxSubs /\ changes \in 0..MaxChanges
      BY SubscriptionAssumption DEF Init
    <2> QED
      BY <2>1, <2>2, <2>3 DEF Init, TypeOK
  <1>4. RowsFilled
    BY <1>1 DEF Init, RowsFilled
  <1>5. DeadKnown
    BY DEF Init, DeadKnown
  <1>6. DocInv
    BY <1>1, <1>2 DEF Init, DocInv, OnlyGrantedServed, ReportsGranted, Carried, Granted
  <1> QED
    BY <1>3, <1>4, <1>5, <1>6 DEF IInv

-----------------------------------------------------------------------------
(* Steps of the fleet *)

FleetStep(i) ==
    \/ MintInstance(i) \/ RevokeInstance(i) \/ GoSilent(i) \/ Restart(i)
    \/ HandlePoll(i) \/ Adopt(i) \/ LoseAnswer(i)

LEMMA FleetStepIInv ==
    ASSUME IInv, NEW i \in Instances, FleetStep(i)
    PROVE  IInv'
  <1> USE DEF IInv
  <1>1. UNCHANGED <<sub, nsub, owner, override, broken, changes, request, dead>>
    BY DEF FleetStep, MintInstance, RevokeInstance, GoSilent, Restart, HandlePoll, Adopt,
           LoseAnswer, estate
  <1>2. /\ instance \in [Instances -> Instance]
        /\ held \in [Instances -> Doc \cup {NoDoc}]
        /\ answer \in [Instances -> Doc \cup {NoDoc, NoAnswer}]
    BY DEF TypeOK
  <1> DEFINE b == BuildConfig(sub, GatewayOf[i])
  <1>3. /\ b \in Doc /\ b # NoDoc
        /\ b.subs = ServedRows(sub)
    <2>1. GatewayOf[i] \in Scopes /\ sub \in [SubIds -> Row]
      BY SubscriptionAssumption DEF Scopes, TypeOK
    <2> QED
      BY <2>1, BuildFacts
  <1>4. Granted(b) /\ \A s \in SubIds : sub[s].state = "activating" => Kept(b, s)
    BY <1>3 DEF Granted, Kept, ServedRows, Served
  <1>5. ASSUME /\ instance' \in [Instances -> Instance]
               /\ held' \in [Instances -> Doc \cup {NoDoc}]
               /\ answer' \in [Instances -> Doc \cup {NoDoc, NoAnswer}],
               \A j \in Instances :
                  /\ \/ held'[j] \in {held[j], NoDoc}
                     \/ held'[j] = answer[j] /\ answer[j] # NoAnswer
                  /\ answer'[j] \in {answer[j], NoAnswer, NoDoc} \/ answer'[j] = b
                  /\ \/ instance'[j].reported = instance[j].reported
                     \/ instance'[j].reported = held[j] /\ held'[j] = held[j]
                        /\ answer'[j] = b
        PROVE  IInv'
    <2>1. TypeOK'
      BY <1>1, <1>5 DEF TypeOK
    <2>2. RowsFilled' /\ DeadKnown'
      BY <1>1 DEF RowsFilled, DeadKnown
    <2>3. \A d : Granted(d)' <=> Granted(d)
      BY <1>1 DEF Granted
    <2>4. Granted(NoDoc)
      BY DEF Granted
    <2>5. OnlyGrantedServed'
      BY <1>4, <1>5, <2>3, <2>4 DEF DocInv, OnlyGrantedServed
    <2>6. ReportsGranted'
      BY <1>5, <2>3 DEF DocInv, OnlyGrantedServed, ReportsGranted
    <2>7. ASSUME NEW j \in Instances, NEW s \in SubIds,
                 sub[s].state = "activating", Lists(instance'[j].reported, s)
          PROVE  Kept(held'[j], s) /\ (answer'[j] = NoAnswer \/ Kept(answer'[j], s))
      <3>1. Kept(b, s) /\ Kept(NoDoc, s)
        BY <1>4, <2>7 DEF Kept
      <3>2. CASE instance'[j].reported = instance[j].reported
        <4>1. Kept(held[j], s) /\ (answer[j] = NoAnswer \/ Kept(answer[j], s))
          BY <2>7, <3>2 DEF DocInv, Carried
        <4> QED
          BY <1>5, <3>1, <4>1
      <3>3. CASE instance'[j].reported = held[j] /\ held'[j] = held[j] /\ answer'[j] = b
        BY <2>7, <3>1, <3>3 DEF Lists, Kept
      <3> QED
        BY <1>5, <3>2, <3>3
    <2>8. Carried'
      BY <1>1, <2>7 DEF Carried, Lists, Kept
    <2> QED
      BY <2>1, <2>2, <2>5, <2>6, <2>8 DEF DocInv
  <1> HIDE DEF b, IInv
  <1>6. CASE MintInstance(i)
    BY <1>2, <1>5, <1>6 DEF MintInstance, Instance
  <1>7. CASE RevokeInstance(i)
    BY <1>2, <1>5, <1>7 DEF RevokeInstance, Instance
  <1>8. CASE GoSilent(i)
    BY <1>2, <1>5, <1>8 DEF GoSilent, Instance
  <1>9. CASE Restart(i)
    BY <1>2, <1>5, <1>9 DEF Restart
  <1>10. CASE HandlePoll(i)
    <2>1. CASE instance[i].row = "live"
      BY <1>2, <1>3, <1>5, <1>10, <2>1 DEF HandlePoll, Instance, b
    <2>2. CASE instance[i].row = "revoked"
      BY <1>2, <1>5, <1>10, <2>2 DEF HandlePoll
    <2> QED
      BY <1>10, <2>1, <2>2 DEF HandlePoll
  <1>11. CASE Adopt(i)
    BY <1>2, <1>5, <1>11 DEF Adopt
  <1>12. CASE LoseAnswer(i)
    BY <1>2, <1>5, <1>12 DEF LoseAnswer
  <1> QED
    BY <1>6, <1>7, <1>8, <1>9, <1>10, <1>11, <1>12 DEF FleetStep

-----------------------------------------------------------------------------
(* Steps of the table *)

(* A step that touches no slot keeps the rows filled and dead keys dead.   *)
LEMMA SlotsKept ==
    ASSUME IInv, UNCHANGED <<nsub, dead>>,
           \A s \in SubIds :
              /\ sub'[s].slot = sub[s].slot
              /\ sub[s].state = "none" => sub'[s] = sub[s]
    PROVE  RowsFilled' /\ DeadKnown'
  <1>1. \A s \in SubIds : s > nsub => sub[s].state = "none"
    BY DEF IInv, RowsFilled, NoRow
  <1>2. RowsFilled'
    BY <1>1 DEF IInv, RowsFilled
  <1>3. \A d \in dead : d.sub \in SubIds
    BY DEF IInv, TypeOK, Key
  <1>4. DeadKnown'
    BY <1>3 DEF IInv, DeadKnown
  <1> QED
    BY <1>2, <1>4

LEMMA InsertIInv ==
    ASSUME IInv, NEW p \in Products \cup {Proxy}, NEW a \in AllApps,
           NEW state \in {"pending", "activating"}, NEW event \in {"none", "queued"},
           NEW publisher \in AllApps \cup {NoApp},
           Insert(p, a, state, event, publisher)
    PROVE  IInv'
  <1> DEFINE n == nsub + 1
             row == [product |-> p, app |-> a, state |-> state,
                     slot |-> [k \in Slots |-> IF k = "primary" THEN Minted(1) ELSE Empty],
                     event |-> event, publisher |-> publisher]
  <1>1. n \in SubIds /\ n \in 0..MaxSubs /\ n > nsub
    BY SubscriptionAssumption DEF IInv, TypeOK, Insert, SubIds
  <1>2. Minted(1) \in Slot /\ Empty \in Slot /\ Minted(1).gen = 1
    BY DEF Minted, Empty, Slot
  <1>3. row \in Row /\ row.state = state /\ row.slot["primary"].gen = 1
    BY <1>2 DEF Row, Current, Events, Slots
  <1>4. /\ sub' = [sub EXCEPT ![n] = row] /\ nsub' = n
        /\ UNCHANGED <<owner, override, broken, changes, fleet, request, dead>>
    BY DEF Insert, estate
  <1>5. sub \in [SubIds -> Row] /\ sub[n] = NoRow
    BY <1>1 DEF IInv, TypeOK, RowsFilled
  <1> HIDE DEF row, n
  <1>6. TypeOK'
    BY <1>1, <1>3, <1>4, <1>5 DEF IInv, TypeOK, fleet
  <1>7. RowsFilled'
    <2>1. ASSUME NEW s \in SubIds
          PROVE  /\ s > n => sub'[s] = NoRow
                 /\ sub'[s].state # "none" => sub'[s].slot["primary"].gen > 0
      <3>1. CASE s = n
        BY <1>1, <1>3, <1>4, <1>5, <3>1 DEF n, IInv, TypeOK
      <3>2. CASE s # n
        BY <1>1, <1>4, <1>5, <3>2 DEF IInv, RowsFilled, TypeOK, SubIds, n
      <3> QED
        BY <3>1, <3>2
    <2> QED
      BY <1>4, <2>1 DEF RowsFilled
  <1>8. DeadKnown'
    <2>1. ASSUME NEW d \in dead PROVE d.sub \in SubIds /\ d.sub # n
      <3>1. d \in Key
        BY DEF IInv, TypeOK
      <3>2. d.sub \in SubIds /\ d.slot \in Slots /\ d.gen \in Nat /\ d.gen > 0
        BY <3>1 DEF Key
      <3>3. NoRow.slot[d.slot].gen = 0
        BY <3>2 DEF NoRow, Empty
      <3> QED
        BY <1>5, <3>2, <3>3 DEF IInv, DeadKnown
    <2> QED
      BY <1>4, <1>5, <2>1 DEF IInv, DeadKnown
  <1>9. DocInv'
    <2>1. \A s \in SubIds : s # n => sub'[s] = sub[s]
      BY <1>4, <1>5
    <2>2. sub[n].state = "none"
      BY <1>5 DEF NoRow
    <2>3. TypeOK /\ DocInv
      BY DEF IInv
    <2> QED
      BY <1>4, <2>1, <2>2, <2>3, DocInvKept DEF GrantedStates
  <1> QED
    BY <1>6, <1>7, <1>8, <1>9 DEF IInv

LEMMA CreateIInv ==
    ASSUME IInv, NEW p \in Products, NEW a \in Apps, CreateSubscription(p, a)
    PROVE  IInv'
  <1>1. owner[p] \in AllApps \cup {NoApp} /\ a \in AllApps
    BY DEF IInv, TypeOK, AllApps
  <1>2. CASE owner[p] = a
    <2>1. Insert(p, a, "activating", "none", NoApp)
      BY <1>2 DEF CreateSubscription
    <2> QED
      BY <1>1, <2>1, InsertIInv
  <1>3. CASE owner[p] # a
    <2>1. Insert(p, a, "pending", "queued", owner[p])
      BY <1>3 DEF CreateSubscription
    <2> QED
      BY <1>1, <2>1, InsertIInv
  <1> QED
    BY <1>2, <1>3

LEMMA PlatformIInv == ASSUME IInv, EnsurePlatformSubscription PROVE IInv'
  <1>1. Platform \in AllApps /\ Insert(Proxy, Platform, "activating", "none", NoApp)
    BY DEF AllApps, EnsurePlatformSubscription
  <1> QED
    BY <1>1, InsertIInv

(* A step of states alone keeps the invariant.                             *)
LEMMA StatesIInv ==
    ASSUME IInv, TypeOK', UNCHANGED <<nsub, fleet, dead>>,
           \A s \in SubIds :
              /\ sub'[s].slot = sub[s].slot
              /\ sub[s].state = "none" => sub'[s] = sub[s]
              /\ sub[s].state \in GrantedStates => sub'[s].state \in GrantedStates
              /\ sub'[s].state = "activating" => sub[s].state \in {"activating", "none", "pending"}
    PROVE  IInv'
  <1>1. RowsFilled' /\ DeadKnown'
    BY SlotsKept
  <1>2. DocInv'
    BY DocInvKept DEF IInv
  <1> QED
    BY <1>1, <1>2 DEF IInv

(* Requests in flight count up and down.                                   *)
LEMMA RequestFacts ==
    ASSUME TypeOK, NEW q \in Requests
    PROVE  /\ [request EXCEPT ![q] = @ + 1] \in [Requests -> Nat]
           /\ request[q] > 0 => [request EXCEPT ![q] = @ - 1] \in [Requests -> Nat]
  <1>1. request \in [Requests -> Nat] /\ request[q] \in Nat
    BY DEF TypeOK
  <1>2. request[q] + 1 \in Nat /\ (request[q] > 0 => request[q] - 1 \in Nat)
    BY <1>1
  <1> QED
    BY <1>1, <1>2

LEMMA DecideIInv ==
    ASSUME IInv, NEW s \in SubIds, NEW v \in {"approved", "rejected"}, FinishDecide(s, v)
    PROVE  IInv'
  <1> DEFINE row == [sub[s] EXCEPT !.event = v, !.state = DecidedState(v)]
  <1>1. sub \in [SubIds -> Row] /\ sub[s] \in Row
    BY DEF IInv, TypeOK
  <1>2. /\ row \in Row /\ row.slot = sub[s].slot
        /\ row.state \in {"activating", "rejected"}
    BY <1>1 DEF Row, DecidedState, Current, Terminal, Events
  <1>3. CASE Decidable(s)
    <2>1. sub' = [sub EXCEPT ![s] = row]
      BY <1>1, <1>3 DEF FinishDecide
    <2>2. sub[s].state = "pending"
      BY <1>3 DEF Decidable
    <2> HIDE DEF row
    <2>3. sub' \in [SubIds -> Row] /\ \A r \in SubIds : sub'[r] = IF r = s THEN row ELSE sub[r]
      BY <1>1, <1>2, <2>1
    <2>4. TypeOK'
      BY <2>3, RequestFacts DEF IInv, TypeOK, FinishDecide, End, estate, fleet, Requests
    <2>5. UNCHANGED <<nsub, fleet, dead>>
      BY DEF FinishDecide
    <2> QED
      BY <1>2, <2>2, <2>3, <2>4, <2>5, StatesIInv DEF GrantedStates
  <1>4. CASE ~Decidable(s)
    <2>1. UNCHANGED <<sub, nsub, fleet, dead>>
      BY <1>4 DEF FinishDecide
    <2>2. TypeOK'
      BY <1>1, <2>1, RequestFacts DEF IInv, TypeOK, FinishDecide, End, estate, fleet, Requests
    <2> QED
      BY <2>1, <2>2, StatesIInv
  <1> QED
    BY <1>3, <1>4

LEMMA RevokeIInv == ASSUME IInv, NEW s \in SubIds, Revoke(s) PROVE IInv'
  <1>1. sub \in [SubIds -> Row] /\ sub[s] \in Row /\ sub[s].state \in States
    BY DEF IInv, TypeOK, Row, States
  <1> DEFINE x == RevokedState(sub[s].state)
             row == [sub[s] EXCEPT !.state = x]
  <1>2. /\ x \in States /\ x # "activating"
        /\ sub[s].state # "none"
        /\ sub[s].state \in GrantedStates => x \in GrantedStates
    BY <1>1 DEF Revoke, RevokedState, States, Current, Terminal, Absent, GrantedStates
  <1>3. row \in Row /\ row.slot = sub[s].slot /\ row.state = x
    BY <1>1, <1>2, StateUpdate
  <1>4. sub' = [sub EXCEPT ![s] = row]
    BY <1>1 DEF Revoke
  <1> HIDE DEF row, x
  <1>5. sub' \in [SubIds -> Row] /\ \A r \in SubIds : sub'[r] = IF r = s THEN row ELSE sub[r]
    BY <1>1, <1>3, <1>4
  <1>6. TypeOK' /\ UNCHANGED <<nsub, fleet, dead>>
    BY <1>5 DEF IInv, TypeOK, Revoke, estate, fleet
  <1> QED
    BY <1>2, <1>3, <1>5, <1>6, StatesIInv

LEMMA DeleteIInv ==
    ASSUME IInv, NEW p \in Products \cup {Proxy}, DeleteProduct(p)
    PROVE  IInv'
  <1>1. sub \in [SubIds -> Row] /\ \A s \in SubIds : sub[s] \in Row
    BY DEF IInv, TypeOK
  <1>2. ASSUME NEW s \in SubIds
        PROVE  /\ sub'[s] \in Row /\ sub'[s].slot = sub[s].slot
               /\ \/ sub'[s] = sub[s]
                  \/ sub'[s].state = "deleted" /\ sub[s].state # "none"
    <2>1. \/ sub'[s] = sub[s]
          \/ sub'[s] = [sub[s] EXCEPT !.state = "deleted"] /\ sub[s].state # "none"
      BY DEF DeleteProduct
    <2>2. "deleted" \in States
      BY DEF States, Absent
    <2> QED
      BY <1>1, <2>1, <2>2, StateUpdate
  <1>3. sub' \in [SubIds -> Row]
    BY <1>2 DEF DeleteProduct
  <1>4. changes' \in 0..MaxChanges
    BY SubscriptionAssumption DEF IInv, TypeOK, DeleteProduct, Change
  <1>5. owner' \in [Products \cup {Proxy} -> AllApps \cup {NoApp}]
    BY DEF IInv, TypeOK, DeleteProduct
  <1>6. TypeOK' /\ UNCHANGED <<nsub, fleet, dead>>
    BY <1>3, <1>4, <1>5 DEF IInv, TypeOK, DeleteProduct, Change, fleet
  <1> QED
    BY <1>2, <1>6, StatesIInv DEF GrantedStates

(* Steps that leave the table alone: requests that begin or are refused,   *)
(* settings, obstacles, transfers.                                         *)
LEMMA OtherIInv ==
    ASSUME IInv,
           \/ \E s \in SubIds : BeginDecide(s) \/ BeginRotate(s)
           \/ \E q \in Requests : Refuse(q)
           \/ \E c \in Scopes, v \in Values \cup {NoValue} : WriteSettingOverride(c, v)
           \/ Obstruct
           \/ \E p \in Products, a \in Apps : Transfer(p, a)
    PROVE  IInv'
  <1>1. UNCHANGED <<sub, nsub, fleet, dead>>
    BY DEF BeginDecide, BeginRotate, Begin, Refuse, WriteSettingOverride, Obstruct, Transfer, Change
  <1>2. request' \in [Requests -> Nat]
    <2>1. ASSUME NEW s \in SubIds, BeginDecide(s) \/ BeginRotate(s)
          PROVE  request' \in [Requests -> Nat]
      <3>1. \E q \in Requests : Begin(q)
        BY <2>1 DEF BeginDecide, BeginRotate, Requests
      <3> QED
        BY <3>1, RequestFacts DEF IInv, Begin
    <2>2. ASSUME NEW q \in Requests, Refuse(q) PROVE request' \in [Requests -> Nat]
      BY <2>2, RequestFacts DEF IInv, Refuse, End
    <2>3. CASE UNCHANGED request
      BY <2>3 DEF IInv, TypeOK
    <2> QED
      BY <2>1, <2>2, <2>3 DEF WriteSettingOverride, Obstruct, Transfer, Change
  <1>3. /\ owner' \in [Products \cup {Proxy} -> AllApps \cup {NoApp}]
        /\ override' \in [Scopes -> Values \cup {NoValue}]
        /\ broken' \in BOOLEAN
        /\ changes' \in 0..MaxChanges
    <2>1. CASE UNCHANGED estate
      BY <2>1 DEF IInv, TypeOK, estate
    <2>2. CASE changes < MaxChanges /\ changes' = changes + 1
      <3>1. changes' \in 0..MaxChanges
        BY <2>2, SubscriptionAssumption DEF IInv, TypeOK
      <3>2. ASSUME NEW c \in Scopes, NEW v \in Values \cup {NoValue}, WriteSettingOverride(c, v)
            PROVE  /\ override' \in [Scopes -> Values \cup {NoValue}]
                   /\ UNCHANGED <<owner, broken>>
        BY <3>2 DEF IInv, TypeOK, WriteSettingOverride
      <3>3. ASSUME Obstruct
            PROVE  broken' \in BOOLEAN /\ UNCHANGED <<owner, override>>
        BY <3>3 DEF Obstruct
      <3>4. ASSUME NEW p \in Products, NEW a \in Apps, Transfer(p, a)
            PROVE  /\ owner' \in [Products \cup {Proxy} -> AllApps \cup {NoApp}]
                   /\ UNCHANGED <<override, broken>>
        BY <3>4 DEF IInv, TypeOK, Transfer, AllApps
      <3>5. CASE \/ \E s \in SubIds : BeginDecide(s) \/ BeginRotate(s)
                 \/ \E q \in Requests : Refuse(q)
        BY <2>1, <3>5 DEF BeginDecide, BeginRotate, Begin, Refuse
      <3> QED
        BY <3>1, <3>2, <3>3, <3>4, <3>5 DEF IInv, TypeOK
    <2> QED
      BY <2>1, <2>2 DEF BeginDecide, BeginRotate, Begin, Refuse, WriteSettingOverride, Obstruct,
                        Transfer, Change
  <1>4. TypeOK'
    BY <1>1, <1>2, <1>3 DEF IInv, TypeOK, fleet
  <1> QED
    BY <1>1, <1>4, StatesIInv

LEMMA RotateIInv ==
    ASSUME IInv, NEW s \in SubIds, NEW k \in Slots, FinishRotate(s, k)
    PROVE  IInv'
  <1> DEFINE v == sub[s].slot[k]
             w == Minted(v.gen + 1)
             f == [sub[s].slot EXCEPT ![k] = w]
             row == [sub[s] EXCEPT !.slot = f]
  <1>1. sub \in [SubIds -> Row] /\ sub[s] \in Row
    BY DEF IInv, TypeOK
  <1>2. sub[s].slot \in [Slots -> Slot] /\ v \in Slot /\ v.gen \in Nat
    BY <1>1 DEF Row, Slot
  <1>3. w \in Slot /\ w.gen = v.gen + 1
    BY <1>2, SlotFacts
  <1>4. /\ f \in [Slots -> Slot]
        /\ \A j \in Slots : f[j] = IF j = k THEN w ELSE sub[s].slot[j]
    BY <1>2, <1>3
  <1>5. sub' = [sub EXCEPT ![s] = row]
    BY <1>1, <1>2 DEF FinishRotate, Rotated
  <1> HIDE DEF f, w
  <1>6. row \in Row /\ row.slot = f /\ row.state = sub[s].state
    BY <1>1, <1>4, SlotUpdate
  <1> HIDE DEF row
  <1>7. sub' \in [SubIds -> Row] /\ \A r \in SubIds : sub'[r] = IF r = s THEN row ELSE sub[r]
    BY <1>1, <1>5, <1>6
  <1>8. /\ dead' \subseteq Key
        /\ \A d \in dead' : d \in dead \/ (d = KeyOf(sub, s, k) /\ Present(sub, s, k))
    <2>1. Present(sub, s, k) => KeyOf(sub, s, k) \in Key
      BY <1>2 DEF Present, KeyOf, Key
    <2> QED
      BY <2>1 DEF FinishRotate, IInv, TypeOK
  <1>9. TypeOK'
    BY <1>7, <1>8, RequestFacts DEF IInv, TypeOK, FinishRotate, End, estate, fleet, Requests
  <1>10. sub[s].state # "none" /\ s <= nsub
    BY DEF FinishRotate, Absent, IInv, RowsFilled, NoRow, TypeOK, SubIds
  <1>11. RowsFilled'
    <2>1. row.slot["primary"].gen > 0
      <3>1. CASE k = "primary"
        BY <1>2, <1>3, <1>4, <1>6, <3>1
      <3>2. CASE k # "primary"
        BY <1>4, <1>6, <1>10, <3>2 DEF IInv, RowsFilled, Slots
      <3> QED
        BY <3>1, <3>2
    <2>2. nsub' = nsub /\ nsub \in Nat /\ s \in Nat
      BY DEF FinishRotate, IInv, TypeOK, SubIds
    <2> QED
      BY <1>7, <1>10, <2>1, <2>2 DEF IInv, RowsFilled
  <1>12. DeadKnown'
    <2> SUFFICES ASSUME NEW d \in dead'
                 PROVE  \/ d.gen < sub'[d.sub].slot[d.slot].gen
                        \/ /\ d.gen = sub'[d.sub].slot[d.slot].gen
                           /\ sub'[d.sub].slot[d.slot].expired
      BY DEF DeadKnown
    <2>1. d.sub \in SubIds /\ d.slot \in Slots /\ d.gen \in Nat
      BY <1>8 DEF Key
    <2>2. CASE d \in dead /\ ~(d.sub = s /\ d.slot = k)
      <3>1. sub'[d.sub].slot[d.slot] = sub[d.sub].slot[d.slot]
        BY <1>4, <1>6, <1>7, <2>1, <2>2
      <3> QED
        BY <2>2, <3>1 DEF IInv, DeadKnown
    <2>3. CASE d.sub = s /\ d.slot = k
      <3>1. d.gen <= v.gen
        BY <1>2, <1>8, <2>1, <2>3 DEF IInv, DeadKnown, KeyOf
      <3> QED
        BY <1>2, <1>3, <1>4, <1>6, <1>7, <2>1, <2>3, <3>1
    <2> QED
      BY <1>8, <2>2, <2>3 DEF KeyOf
  <1>13. DocInv'
    BY <1>6, <1>7, DocInvKept DEF IInv, FinishRotate
  <1> QED
    BY <1>9, <1>11, <1>12, <1>13 DEF IInv

-----------------------------------------------------------------------------
(* A pass, or what is left of one that died *)

LEMMA AgedFacts ==
    ASSUME IInv, NEW aged \in Aged
    PROVE  /\ aged \in SUBSET (SubIds \X Slots)
           /\ \A s \in SubIds, k \in Slots : <<s, k>> \in aged =>
                 sub[s].state \in Served /\ sub[s].slot[k].gen > 0
           /\ {KeyOf(sub, sk[1], sk[2]) : sk \in aged} \subseteq Key
  <1>1. /\ Expirable(sub) \subseteq SubIds \X Slots
        /\ \A s \in SubIds, k \in Slots : <<s, k>> \in Expirable(sub) =>
              sub[s].state \in Served /\ sub[s].slot[k].gen > 0
    BY SubscriptionAssumption DEF Expirable, Present, Served
  <1>2. /\ Replaceable(sub) \subseteq SubIds \X Slots
        /\ \A s \in SubIds, k \in Slots : <<s, k>> \in Replaceable(sub) =>
              sub[s].state \in Served /\ k = "primary"
    BY DEF Replaceable, ServedRows, Slots
  <1>3. \A s \in SubIds : sub[s].state \in Served => sub[s].slot["primary"].gen > 0
    BY DEF IInv, RowsFilled, Served
  <1>4. /\ aged \in SUBSET (SubIds \X Slots)
        /\ \A s \in SubIds, k \in Slots : <<s, k>> \in aged =>
              sub[s].state \in Served /\ sub[s].slot[k].gen > 0
    BY <1>1, <1>2, <1>3 DEF Aged
  <1>5. ASSUME NEW sk \in aged PROVE KeyOf(sub, sk[1], sk[2]) \in Key
    <2>1. PICK s \in SubIds, k \in Slots : sk = <<s, k>>
      BY <1>4
    <2>2. sub[s].slot[k].gen \in Nat /\ sub[s].slot[k].gen > 0
      BY <1>4, <2>1 DEF IInv, TypeOK, Row, Slot
    <2>3. KeyOf(sub, s, k) \in Key
      BY <2>2 DEF KeyOf, Key
    <2> QED
      BY <2>1, <2>3
  <1> QED
    BY <1>4, <1>5

(* Aging keeps rows filled and makes known what it kills, whatever the     *)
(* settling then does to the states.                                       *)
LEMMA AgingKeeps ==
    ASSUME IInv, NEW due \in SUBSET Queued, NEW aged \in Aged,
           nsub' = nsub, sub' \in [SubIds -> Row],
           dead' = dead \cup {KeyOf(sub, sk[1], sk[2]) : sk \in aged},
           \A s \in SubIds : /\ sub[s].state = "none" <=> sub'[s].state = "none"
                             /\ \A k \in Slots : sub'[s].slot[k] = AgedSlot(sub, aged, s, k)
                             /\ s > nsub => sub'[s] = sub[s]
    PROVE  RowsFilled' /\ DeadKnown' /\ dead' \subseteq Key
  <1>1. /\ aged \in SUBSET (SubIds \X Slots)
        /\ {KeyOf(sub, sk[1], sk[2]) : sk \in aged} \subseteq Key
    BY AgedFacts
  <1>2. dead' \subseteq Key
    BY <1>1 DEF IInv, TypeOK
  <1>3. ASSUME NEW s \in SubIds, NEW k \in Slots
        PROVE  /\ sub[s].slot[k] \in Slot /\ sub[s].slot[k].gen \in Nat
               /\ sub'[s].slot[k].gen \in Nat
               /\ sub'[s].slot[k].gen >= sub[s].slot[k].gen
               /\ <<s, k>> \notin aged => sub'[s].slot[k] = sub[s].slot[k]
               /\ <<s, k>> \in aged =>
                     \/ sub'[s].slot[k].gen > sub[s].slot[k].gen
                     \/ sub'[s].slot[k].gen = sub[s].slot[k].gen /\ sub'[s].slot[k].expired
    <2>1. sub[s].slot[k] \in Slot /\ sub[s].slot[k].gen \in Nat
      BY DEF IInv, TypeOK, Row, Slot
    <2>2. CASE <<s, k>> \notin aged
      <3>1. sub'[s].slot[k] = sub[s].slot[k]
        BY <2>2 DEF AgedSlot
      <3> QED
        BY <2>1, <2>2, <3>1
    <2>3. CASE <<s, k>> \in aged /\ sub[s].app = Platform
      <3>1. sub'[s].slot[k] = Minted(sub[s].slot[k].gen + 1)
        BY <2>3 DEF AgedSlot
      <3>2. sub'[s].slot[k].gen = sub[s].slot[k].gen + 1
        BY <2>1, <3>1, SlotFacts
      <3> QED
        BY <2>1, <2>3, <3>2
    <2>4. CASE <<s, k>> \in aged /\ sub[s].app # Platform
      <3>1. sub'[s].slot[k] = [sub[s].slot[k] EXCEPT !.expired = TRUE]
        BY <2>4 DEF AgedSlot
      <3>2. sub'[s].slot[k].gen = sub[s].slot[k].gen /\ sub'[s].slot[k].expired
        BY <2>1, <3>1, SlotFacts
      <3> QED
        BY <2>1, <2>4, <3>2
    <2> QED
      BY <2>2, <2>3, <2>4, <2>1
  <1>4. RowsFilled'
    <2>1. ASSUME NEW s \in SubIds, sub'[s].state # "none"
          PROVE  sub'[s].slot["primary"].gen > 0
      <3>1. sub[s].slot["primary"].gen > 0
        BY <2>1 DEF IInv, RowsFilled
      <3>2. "primary" \in Slots
        BY DEF Slots
      <3>3. /\ sub[s].slot["primary"].gen \in Nat /\ sub'[s].slot["primary"].gen \in Nat
            /\ sub'[s].slot["primary"].gen >= sub[s].slot["primary"].gen
        BY <1>3, <3>2
      <3> QED
        BY <3>1, <3>3
    <2>2. \A s \in SubIds : s > nsub' => sub'[s] = NoRow
      BY DEF IInv, RowsFilled
    <2> QED
      BY <2>1, <2>2 DEF RowsFilled
  <1>5. ASSUME NEW d \in dead'
        PROVE  \/ d.gen < sub'[d.sub].slot[d.slot].gen
               \/ d.gen = sub'[d.sub].slot[d.slot].gen /\ sub'[d.sub].slot[d.slot].expired
    <2>1. d.sub \in SubIds /\ d.slot \in Slots /\ d.gen \in Nat
      BY <1>2 DEF Key
    <2>2. CASE d \in dead
      <3>1. PICK s \in SubIds, k \in Slots : s = d.sub /\ k = d.slot
        BY <2>1
      <3>2. PICK old, new : old = sub[s].slot[k] /\ new = sub'[s].slot[k]
        OBVIOUS
      <3>3. \/ d.gen < old.gen
            \/ d.gen = old.gen /\ old.expired
        BY <2>2, <3>1, <3>2 DEF IInv, DeadKnown
      <3>4. /\ old.gen \in Nat /\ new.gen \in Nat
            /\ \/ new = old
               \/ new.gen > old.gen
               \/ new.gen = old.gen /\ new.expired
        BY <1>3, <3>2
      <3>5. d.gen < new.gen \/ (d.gen = new.gen /\ new.expired)
        BY <2>1, <3>3, <3>4
      <3> QED
        BY <3>1, <3>2, <3>5
    <2>3. CASE d \in {KeyOf(sub, sk[1], sk[2]) : sk \in aged}
      <3>1. PICK sk \in aged : d = KeyOf(sub, sk[1], sk[2])
        BY <2>3
      <3>2. PICK s \in SubIds, k \in Slots : sk = <<s, k>>
        BY <1>1
      <3>3. d.sub = s /\ d.slot = k /\ d.gen = sub[s].slot[k].gen /\ <<s, k>> \in aged
        BY <3>1, <3>2 DEF KeyOf
      <3> QED
        BY <1>3, <3>3
    <2> QED
      BY <2>2, <2>3
  <1> QED
    BY <1>2, <1>4, <1>5 DEF DeadKnown

LEMMA PassFacts ==
    ASSUME IInv, NEW due \in SUBSET Queued, NEW aged \in Aged,
           NEW t, t = RunKeyExpiry(DeliverEvents(sub, due), aged)
    PROVE  /\ t \in [SubIds -> Row]
           /\ \A s \in SubIds :
                 /\ t[s].state = sub[s].state
                 /\ \A k \in Slots : t[s].slot[k] = AgedSlot(sub, aged, s, k)
                 /\ s > nsub => t[s] = sub[s]
  <1>1. /\ sub \in [SubIds -> Row] /\ due \in SUBSET SubIds
        /\ aged \in SUBSET (SubIds \X Slots)
    BY AgedFacts DEF IInv, TypeOK, Queued
  <1>2. /\ t \in [SubIds -> Row]
        /\ \A s \in SubIds :
              /\ t[s].state = sub[s].state
              /\ s \notin due => t[s].event = sub[s].event
              /\ t[s].product = sub[s].product /\ t[s].app = sub[s].app
              /\ t[s].publisher = sub[s].publisher
              /\ \A k \in Slots : t[s].slot[k] = AgedSlot(sub, aged, s, k)
    BY <1>1, StageFacts
  <1>3. ASSUME NEW s \in SubIds, s > nsub PROVE t[s] = sub[s]
    <2>1. sub[s].state = "none" /\ sub[s].event = "none"
      BY <1>3 DEF IInv, RowsFilled, NoRow
    <2>2. s \notin due
      BY <2>1 DEF Queued
    <2>3. \A k \in Slots : <<s, k>> \notin aged
      BY <2>1, AgedFacts DEF Served
    <2>4. /\ t[s] \in Row /\ sub[s] \in Row
          /\ \A k \in Slots : t[s].slot[k] = sub[s].slot[k]
      BY <1>1, <1>2, <2>3 DEF AgedSlot
    <2>5. t[s].slot = sub[s].slot
      BY <2>4 DEF Row
    <2> QED
      BY <1>2, <2>2, <2>4, <2>5 DEF Row
  <1> QED
    BY <1>2, <1>3

LEMMA RunIInv ==
    ASSUME IInv, NEW due \in SUBSET Queued, NEW aged \in Aged, RunDueJobs(due, aged)
    PROVE  IInv'
  <1> DEFINE t == RunKeyExpiry(DeliverEvents(sub, due), aged)
  <1>1. /\ t \in [SubIds -> Row]
        /\ \A s \in SubIds :
              /\ t[s].state = sub[s].state
              /\ \A k \in Slots : t[s].slot[k] = AgedSlot(sub, aged, s, k)
              /\ s > nsub => t[s] = sub[s]
    BY PassFacts
  <1>2. /\ sub' = Settle(t) /\ nsub' = nsub
        /\ dead' = dead \cup {KeyOf(sub, sk[1], sk[2]) : sk \in aged}
        /\ UNCHANGED <<owner, override, broken, changes, fleet, request>>
    BY DEF RunDueJobs, estate
  <1> HIDE DEF t
  <1>3. /\ sub' \in [SubIds -> Row]
        /\ \A s \in SubIds :
              /\ sub'[s].slot = t[s].slot
              /\ sub'[s].state \in {sub[s].state, SettledState(sub[s].state)}
              /\ sub'[s].state # t[s].state => FleetApplied(t)
    BY <1>1, <1>2, SettleFacts
  <1>4. ASSUME NEW s \in SubIds
        PROVE  /\ sub[s].state = "none" <=> sub'[s].state = "none"
               /\ sub[s].state \in GrantedStates => sub'[s].state \in GrantedStates
               /\ sub'[s].state = "activating" => sub[s].state = "activating"
    BY <1>3 DEF SettledState, GrantedStates
  <1>5. ASSUME NEW s \in SubIds, s > nsub PROVE sub'[s] = sub[s]
    <2>1. sub[s].state = "none" /\ t[s] = sub[s]
      BY <1>1, <1>5 DEF IInv, RowsFilled, NoRow
    <2>2. SettledState(t[s].state) = t[s].state
      BY <2>1 DEF SettledState
    <2>3. t[s] \in Row
      BY <1>1
    <2>4. [t[s] EXCEPT !.state = t[s].state] = t[s]
      BY <2>3 DEF Row
    <2>5. sub'[s] \in {t[s], [t[s] EXCEPT !.state = SettledState(t[s].state)]}
      BY <1>2 DEF Settle
    <2> QED
      BY <2>1, <2>2, <2>4, <2>5
  <1>6. RowsFilled' /\ DeadKnown' /\ dead' \subseteq Key
    <2>1. \A s \in SubIds :
             /\ sub[s].state = "none" <=> sub'[s].state = "none"
             /\ \A k \in Slots : sub'[s].slot[k] = AgedSlot(sub, aged, s, k)
             /\ s > nsub => sub'[s] = sub[s]
      BY <1>1, <1>3, <1>4, <1>5
    <2> QED
      BY <1>2, <1>3, <2>1, AgingKeeps
  <1>7. TypeOK'
    BY <1>2, <1>3, <1>6 DEF IInv, TypeOK, fleet
  <1>8. DocInv'
    BY <1>2, <1>4, DocInvKept DEF IInv
  <1> QED
    BY <1>6, <1>7, <1>8 DEF IInv

LEMMA DieIInv ==
    ASSUME IInv, NEW due \in SUBSET Queued, NEW aged \in Aged, Die(due, aged)
    PROVE  IInv'
  <1> DEFINE t == RunKeyExpiry(DeliverEvents(sub, due), aged)
  <1>0. /\ t \in [SubIds -> Row]
        /\ \A s \in SubIds :
              /\ t[s].state = sub[s].state
              /\ \A k \in Slots : t[s].slot[k] = AgedSlot(sub, aged, s, k)
              /\ s > nsub => t[s] = sub[s]
    BY PassFacts
  <1>1. /\ sub' \in [SubIds -> Row]
        /\ \A s \in SubIds :
              /\ sub'[s].state = sub[s].state
              /\ \A k \in Slots : sub'[s].slot[k] = AgedSlot(sub, aged, s, k)
              /\ s > nsub => sub'[s] = sub[s]
    BY <1>0 DEF Die
  <1>2. /\ nsub' = nsub /\ request' = [q \in Requests |-> 0]
        /\ dead' = dead \cup {KeyOf(sub, sk[1], sk[2]) : sk \in aged}
        /\ UNCHANGED <<owner, override, broken, changes, fleet>>
    BY DEF Die, estate
  <1>3. RowsFilled' /\ DeadKnown' /\ dead' \subseteq Key
    BY <1>1, <1>2, AgingKeeps
  <1>4. TypeOK'
    BY <1>1, <1>2, <1>3 DEF IInv, TypeOK, fleet
  <1>5. DocInv'
    BY <1>1, <1>2, DocInvKept DEF IInv
  <1> QED
    BY <1>3, <1>4, <1>5 DEF IInv

-----------------------------------------------------------------------------
LEMMA NextIInv == IInv /\ [Next]_vars => IInv'
  <1> SUFFICES ASSUME IInv, [Next]_vars PROVE IInv'
    OBVIOUS
  <1>1. CASE UNCHANGED vars
    <2>1. UNCHANGED <<sub, nsub, owner, override, broken, changes, fleet, request, dead>>
      BY <1>1 DEF vars, estate
    <2>2. TypeOK'
      BY <2>1 DEF IInv, TypeOK, fleet
    <2> QED
      BY <2>1, <2>2, StatesIInv
  <1>2. ASSUME NEW i \in Instances, FleetStep(i) PROVE IInv'
    BY <1>2, FleetStepIInv
  <1>3. ASSUME NEW due \in SUBSET Queued, NEW aged \in Aged,
               RunDueJobs(due, aged) \/ Die(due, aged)
        PROVE  IInv'
    BY <1>3, RunIInv, DieIInv
  <1>4. CASE Handlers
    <2>1. ASSUME NEW p \in Products, NEW a \in Apps, CreateSubscription(p, a) PROVE IInv'
      BY <2>1, CreateIInv
    <2>2. ASSUME NEW s \in SubIds, NEW v \in {"approved", "rejected"}, FinishDecide(s, v)
          PROVE  IInv'
      BY <2>2, DecideIInv
    <2>3. ASSUME NEW s \in SubIds, NEW k \in Slots, FinishRotate(s, k) PROVE IInv'
      BY <2>3, RotateIInv
    <2>4. ASSUME NEW s \in SubIds, Revoke(s) PROVE IInv'
      BY <2>4, RevokeIInv
    <2>5. ASSUME NEW p \in Products \cup {Proxy}, DeleteProduct(p) PROVE IInv'
      BY <2>5, DeleteIInv
    <2> QED
      BY <1>2, <1>4, <2>1, <2>2, <2>3, <2>4, <2>5, PlatformIInv, OtherIInv
         DEF Handlers, FleetStep
  <1> QED
    BY <1>1, <1>2, <1>3, <1>4 DEF Next, FleetStep

LEMMA Invariant == Spec => []IInv
  BY InitIInv, NextIInv, PTL DEF Spec

-----------------------------------------------------------------------------
(* The subscription table, the documents and the requests in flight stay    *)
(* well typed.                                                              *)
THEOREM TypeCorrect == Spec => []TypeOK
  <1>1. IInv => TypeOK
    BY DEF IInv
  <1> QED
    BY <1>1, Invariant, PTL

(* No instance serves, or is on its way to serving, a subscription nobody   *)
(* granted, whatever decisions, cancellations and polls overlap.            *)
THEOREM OnlyGranted == Spec => []OnlyGrantedServed
  <1>1. IInv => OnlyGrantedServed
    BY DEF IInv, DocInv
  <1> QED
    BY <1>1, Invariant, PTL

(* A key that was rotated away or expired is in no document built later.    *)
THEOREM DeadStayDead == Spec => []DeadKeysStayDead
  <1>1. IInv => DeadKeysStayDead
    <2> SUFFICES ASSUME IInv, NEW d \in LiveKeys(sub), d \in dead PROVE FALSE
      BY DEF DeadKeysStayDead
    <2>1. PICK s \in SubIds, k \in Slots : d = KeyOf(sub, s, k) /\ ~sub[s].slot[k].expired
      BY DEF LiveKeys, ServedRows
    <2>2. d.sub = s /\ d.slot = k /\ d.gen = sub[s].slot[k].gen
      BY <2>1 DEF KeyOf
    <2>3. d.gen \in Nat
      BY DEF IInv, TypeOK, Key
    <2> QED
      BY <2>1, <2>2, <2>3 DEF IInv, DeadKnown
  <1> QED
    BY <1>1, Invariant, PTL

-----------------------------------------------------------------------------
(* How the state of one row may change in a step; a settling only over a   *)
(* table whose document the fleet has applied.                             *)
Applied == \E t \in [SubIds -> Row] :
              FleetApplied(t) /\ \A r \in SubIds : t[r].state = sub[r].state
StateStep(s) ==
    \/ sub'[s].state \in {sub[s].state, "deleted"}
    \/ sub[s].state = "none"
    \/ sub[s].state = "pending" /\ sub'[s].state \in {"activating", "rejected"}
    \/ sub[s].state \notin Absent /\ sub'[s].state = RevokedState(sub[s].state)
    \/ sub'[s].state = SettledState(sub[s].state) /\ Applied

LEMMA StateSteps ==
    ASSUME IInv, [Next]_vars, NEW s \in SubIds
    PROVE  StateStep(s)
  <1>1. sub \in [SubIds -> Row] /\ \A r \in SubIds : sub[r] \in Row
    BY DEF IInv, TypeOK
  <1>2. CASE UNCHANGED sub
    BY <1>2 DEF StateStep
  <1>3. ASSUME NEW p, NEW a, NEW state, NEW event, NEW publisher,
               Insert(p, a, state, event, publisher)
        PROVE  StateStep(s)
    <2>1. CASE s = nsub + 1
      <3>1. s > nsub
        BY <2>1 DEF IInv, TypeOK
      <3>2. sub[s].state = "none"
        BY <3>1 DEF IInv, RowsFilled, NoRow
      <3> QED
        BY <3>2 DEF StateStep
    <2>2. CASE s # nsub + 1
      BY <1>1, <1>3, <2>2 DEF Insert, StateStep
    <2> QED
      BY <2>1, <2>2
  <1>4. ASSUME NEW r \in SubIds, NEW v \in {"approved", "rejected"}, FinishDecide(r, v)
        PROVE  StateStep(s)
    BY <1>1, <1>2, <1>4 DEF FinishDecide, Decidable, DecidedState, StateStep, Row
  <1>5. ASSUME NEW r \in SubIds, NEW k \in Slots, FinishRotate(r, k) PROVE StateStep(s)
    BY <1>1, <1>5 DEF FinishRotate, StateStep, Row
  <1>6. ASSUME NEW r \in SubIds, Revoke(r) PROVE StateStep(s)
    BY <1>1, <1>6 DEF Revoke, StateStep, Row
  <1>7. ASSUME NEW p, DeleteProduct(p) PROVE StateStep(s)
    BY <1>1, <1>7 DEF DeleteProduct, StateStep, Row
  <1>8. ASSUME NEW due \in SUBSET Queued, NEW aged \in Aged,
               RunDueJobs(due, aged) \/ Die(due, aged)
        PROVE  StateStep(s)
    <2> DEFINE t == RunKeyExpiry(DeliverEvents(sub, due), aged)
    <2>1. t \in [SubIds -> Row] /\ \A r \in SubIds : t[r].state = sub[r].state
      BY PassFacts
    <2>2. CASE Die(due, aged)
      BY <2>1, <2>2 DEF Die, StateStep
    <2>3. CASE RunDueJobs(due, aged)
      <3>1. sub' = Settle(t)
        BY <2>3 DEF RunDueJobs
      <3> HIDE DEF t
      <3>2. /\ sub'[s].state \in {t[s].state, SettledState(t[s].state)}
            /\ sub'[s].state # t[s].state => FleetApplied(t)
        BY <2>1, <3>1, SettleFacts
      <3> QED
        BY <2>1, <3>2 DEF StateStep, Applied
    <2> QED
      BY <1>8, <2>2, <2>3
  <1>9. ASSUME NEW i \in Instances, FleetStep(i) PROVE UNCHANGED sub
    BY <1>9 DEF FleetStep, MintInstance, RevokeInstance, GoSilent, Restart, HandlePoll, Adopt,
                LoseAnswer
  <1>10. CASE Handlers
    <2>1. ASSUME NEW p \in Products, NEW a \in Apps, CreateSubscription(p, a)
          PROVE  StateStep(s)
      BY <1>3, <2>1 DEF CreateSubscription
    <2>2. ASSUME EnsurePlatformSubscription PROVE StateStep(s)
      BY <1>3, <2>2 DEF EnsurePlatformSubscription
    <2>3. ASSUME \/ \E r \in SubIds : BeginDecide(r) \/ BeginRotate(r)
                 \/ \E q \in Requests : Refuse(q)
                 \/ \E c \in Scopes, v \in Values \cup {NoValue} : WriteSettingOverride(c, v)
                 \/ Obstruct
                 \/ \E p \in Products, a \in Apps : Transfer(p, a)
          PROVE  UNCHANGED sub
      BY <2>3 DEF BeginDecide, BeginRotate, Begin, Refuse, WriteSettingOverride, Obstruct,
                  Transfer
    <2> QED
      BY <1>2, <1>4, <1>5, <1>6, <1>7, <1>9, <1>10, <2>1, <2>2, <2>3 DEF Handlers, FleetStep
  <1> QED
    BY <1>2, <1>8, <1>9, <1>10 DEF Next, FleetStep, vars

(* A subscription that was cancelled, rejected, revoked or deleted never    *)
(* comes back, whatever was in flight when it ended.                        *)
THEOREM EndsAreFinal == Spec => TerminalForGood
  <1>1. IInv /\ [Next]_vars =>
           [\A s \in SubIds : sub[s].state \in Terminal \cup {"deleted"} =>
               sub'[s].state \in {sub[s].state, "deleted"}]_vars
    <2> SUFFICES ASSUME IInv, [Next]_vars, NEW s \in SubIds,
                        sub[s].state \in Terminal \cup {"deleted"}
                 PROVE  sub'[s].state \in {sub[s].state, "deleted"}
      OBVIOUS
    <2>1. StateStep(s)
      BY StateSteps
    <2> QED
      BY <2>1 DEF StateStep, Terminal, Absent, RevokedState, SettledState
  <1> QED
    BY <1>1, Invariant, PTL DEF Spec, TerminalForGood

(* A subscription is called active only when every instance that counts     *)
(* serves it or serves nothing.                                             *)
THEOREM ActivationTrue == Spec => ActivationIsReal
  <1>1. IInv /\ [Next]_vars =>
           [\A s \in SubIds : sub[s].state = "activating" /\ sub'[s].state = "active" =>
               \A i \in Counted : held[i] = NoDoc \/ s \in held[i].subs]_vars
    <2> SUFFICES ASSUME IInv, [Next]_vars, NEW s \in SubIds,
                        sub[s].state = "activating", sub'[s].state = "active",
                        NEW i \in Counted
                 PROVE  Kept(held[i], s)
      BY DEF Kept
    <2>1. Applied
      BY StateSteps DEF StateStep, Absent, RevokedState, Terminal
    <2>2. PICK t \in [SubIds -> Row] :
             FleetApplied(t) /\ \A r \in SubIds : t[r].state = sub[r].state
      BY <2>1 DEF Applied
    <2>3. i \in Instances /\ instance[i].reported = Expected(t, GatewayOf[i])
      BY <2>2 DEF FleetApplied, Counted
    <2>4. PICK c \in Scopes : Expected(t, GatewayOf[i]) = BuildConfig(t, c)
      BY <2>3, SubscriptionAssumption DEF Expected, Scopes, Layers
    <2>5. BuildConfig(t, c) # NoDoc /\ BuildConfig(t, c).subs = ServedRows(t)
      BY BuildFacts DEF IInv
    <2>6. Lists(instance[i].reported, s)
      BY <2>2, <2>3, <2>4, <2>5 DEF Lists, ServedRows, Served
    <2> QED
      BY <2>3, <2>6 DEF IInv, DocInv, Carried
  <1> QED
    BY <1>1, Invariant, PTL DEF Spec, ActivationIsReal

(* What an instance honours was granted, and through a key that lives.      *)
THEOREM LiveAccessOnly == Spec => []OnlyLiveAccess
  BY TypeCorrect, OnlyGranted, DeadStayDead, PTL DEF OnlyLiveAccess

-----------------------------------------------------------------------------
(* Kafka.  A nonempty set of naturals has a least member; a finite one has *)
(* one of every rank, and the last of them is the greatest.                *)
LEMMA LeastNat ==
    ASSUME NEW T \in SUBSET Nat, T # {}
    PROVE  \E m \in T : \A n \in T : m <= n
  <1> DEFINE R == OpToRel(<, Nat)
  <1>1. IsWellFoundedOn(R, Nat)
    BY NatLessThanWellFounded
  <1>2. \A x, y \in Nat : y < x => <<y, x>> \in R
    BY DEF OpToRel
  <1> HIDE DEF R
  <1>3. PICK x \in T : \A y \in T : ~(<<y, x>> \in R)
    BY <1>1, WFMin
  <1>4. ASSUME NEW n \in T PROVE x <= n
    <2>1. x \in Nat /\ n \in Nat
      OBVIOUS
    <2>2. ~(n < x)
      BY <1>2, <1>3, <2>1
    <2> QED BY <2>1, <2>2
  <1> QED BY <1>4

LEMMA Ranked ==
    ASSUME NEW T \in SUBSET Nat, IsFiniteSet(T), NEW k \in Nat, k < Cardinality(T)
    PROVE  \E n \in T : Cardinality({q \in T : q < n}) = k
  <1> DEFINE HasRank(V, j) == \E n \in V : Cardinality({q \in V : q < n}) = j
             Bad == {j \in Nat : \E V \in SUBSET Nat : IsFiniteSet(V) /\ j < Cardinality(V) /\ ~HasRank(V, j)}
  <1>1. Bad = {}
    <2> SUFFICES ASSUME Bad # {} PROVE FALSE
      OBVIOUS
    <2>1. PICK j \in Bad : \A i \in Bad : j <= i
      <3>1. Bad \in SUBSET Nat
        OBVIOUS
      <3> HIDE DEF Bad
      <3> QED BY <3>1, LeastNat
    <2>2. PICK V \in SUBSET Nat : IsFiniteSet(V) /\ j < Cardinality(V) /\ ~HasRank(V, j)
      BY <2>1
    <2>3. j \in Nat /\ Cardinality(V) \in Nat
      BY <2>1, <2>2, FS_CardinalityType
    <2>4. V # {}
      BY <2>2, <2>3, FS_EmptySet
    <2>5. PICK m \in V : \A n \in V : m <= n
      BY <2>4, LeastNat
    <2>6. {q \in V : q < m} = {}
      <3>1. ASSUME NEW q \in V PROVE ~(q < m)
        <4>1. q \in Nat /\ m \in Nat /\ m <= q
          BY <2>5
        <4> QED BY ONLY <4>1
      <3> QED BY ONLY <3>1
    <2>7. j # 0
      BY <2>2, <2>6, FS_EmptySet
    <2> DEFINE U == V \ {m}
    <2>8. IsFiniteSet(U) /\ Cardinality(U) = Cardinality(V) - 1
      BY <2>2, FS_RemoveElement
    <2>9. HasRank(U, j - 1)
      <3>1. \A i \in Nat : i < j => \A X \in SUBSET Nat : IsFiniteSet(X) /\ i < Cardinality(X) => HasRank(X, i)
        <4> SUFFICES ASSUME NEW i \in Nat, i < j, NEW X \in SUBSET Nat, IsFiniteSet(X), i < Cardinality(X)
                     PROVE  HasRank(X, i)
          OBVIOUS
        <4>1. i \notin Bad
          <5> HIDE DEF Bad
          <5> QED BY <2>1, <2>3
        <4> HIDE DEF HasRank
        <4> QED BY <4>1
      <3>2. U \in SUBSET Nat /\ j - 1 < Cardinality(U) /\ j - 1 \in Nat /\ j - 1 < j
        BY <2>2, <2>3, <2>7, <2>8
      <3> HIDE DEF HasRank, U, Bad
      <3> QED BY <2>8, <3>1, <3>2
    <2>10. PICK n \in U : Cardinality({q \in U : q < n}) = j - 1
      BY <2>9
    <2> DEFINE B == {q \in U : q < n}
    <2>11. {q \in V : q < n} = B \cup {m} /\ m \notin B
      <3>1. m \in Nat /\ n \in Nat /\ n # m /\ m <= n
        BY <2>5
      <3>2. m < n
        BY ONLY <3>1
      <3> QED BY <3>2
    <2>12. IsFiniteSet(B)
      BY <2>8, FS_Subset
    <2>13. Cardinality(B \cup {m}) = j
      <3>1. Cardinality(B) = j - 1
        BY <2>10
      <3> HIDE DEF B
      <3>2. Cardinality(B \cup {m}) = Cardinality(B) + 1
        BY <2>11, <2>12, FS_AddElement
      <3> QED BY <2>3, <3>1, <3>2
    <2> QED BY <2>2, <2>11, <2>13
  <1>2. HasRank(T, k)
    <2> HIDE DEF HasRank
    <2> QED BY <1>1
  <1> QED BY <1>2

LEMMA MaxIsGreatest ==
    ASSUME NEW U \in SUBSET Nat, U # {}, IsFiniteSet(U)
    PROVE  Max(U) \in U /\ \A x \in U : x <= Max(U)
  <1>1. Cardinality(U) \in Nat \ {0}
    BY FS_CardinalityType, FS_EmptySet
  <1> PICK c : c = Cardinality(U)
    OBVIOUS
  <1>2. PICK n \in U : Cardinality({q \in U : q < n}) = c - 1
    <2>1. c - 1 \in Nat /\ c - 1 < Cardinality(U)
      BY <1>1
    <2> QED BY <2>1, Ranked
  <1>3. ASSUME NEW x \in U PROVE x <= n
    <2> SUFFICES ASSUME ~(x <= n) PROVE FALSE
      OBVIOUS
    <2> DEFINE V == U \ {n}
               W == V \ {x}
    <2>1. x \in Nat /\ n \in Nat
      OBVIOUS
    <2>2. x # n /\ n < x
      BY <2>1
    <2>3. IsFiniteSet(V) /\ Cardinality(V) = c - 1
      BY <1>1, FS_RemoveElement
    <2>4. x \in V
      BY <2>2
    <2>5. IsFiniteSet(W) /\ Cardinality(W) = c - 2
      <3> HIDE DEF V
      <3>1. IsFiniteSet(V \ {x}) /\ Cardinality(V \ {x}) = Cardinality(V) - 1
        BY ONLY <2>3, <2>4, FS_RemoveElement
      <3> QED BY <1>1, <2>3, <3>1
    <2>6. {q \in U : q < n} \in SUBSET W
      BY <2>1, <2>2
    <2>7. Cardinality({q \in U : q < n}) <= Cardinality(W)
      <3> HIDE DEF W
      <3> QED BY <2>5, <2>6, FS_Subset
    <2> HIDE DEF W
    <2> QED BY <1>1, <1>2, <2>5, <2>7
  <1>4. n = Max(U)
    <2>1. \A y \in U : (\A x \in U : x <= y) => y = n
      <3> SUFFICES ASSUME NEW y \in U, \A x \in U : x <= y PROVE y = n
        OBVIOUS
      <3>1. y \in Nat /\ n \in Nat /\ n <= y /\ y <= n
        BY <1>3
      <3> QED BY ONLY <3>1
    <2>2. Max(U) = CHOOSE y \in U : \A x \in U : x <= y
      BY DEF Max
    <2> QED BY <1>3, <2>1, <2>2
  <1> QED BY <1>3, <1>4

-----------------------------------------------------------------------------
(* What is kept of a topic: in each partition offsets rise with the rows.  *)
RecordsHold(rows) ==
    /\ rows \in Seq(Range(rows))
    /\ \A n \in DOMAIN rows : rows[n].offset \in Nat
    /\ \A m, n \in DOMAIN rows : m < n /\ rows[m].partition = rows[n].partition => rows[m].offset < rows[n].offset

(* A sequence is one over what it holds.                                   *)
LEMMA OverItsRange ==
    ASSUME NEW S, NEW s \in Seq(S)
    PROVE  s \in Seq(Range(s)) /\ DOMAIN s = 1..Len(s) /\ Len(s) \in Nat /\ \A i \in DOMAIN s : s[i] \in Range(s)
  <1>1. Len(s) \in Nat /\ DOMAIN s = 1..Len(s) /\ s \in [1..Len(s) -> S]
    BY LenProperties
  <1>2. \A i \in DOMAIN s : s[i] \in Range(s)
    BY DEF Range
  <1>3. s \in [1..Len(s) -> Range(s)]
    BY ONLY <1>1, <1>2
  <1>4. s \in Seq(Range(s))
    BY ONLY <1>1, <1>3
  <1> QED BY <1>1, <1>2, <1>4

LEMMA NextIsBeyond ==
    ASSUME RecordsHold(records), NEW p
    PROVE  NextOffset(p) \in Nat /\ \A n \in InPartition(p) : records[n].offset < NextOffset(p)
  <1> DEFINE rows == InPartition(p)
             offsets == {records[n].offset : n \in rows}
  <1>1. rows \subseteq 1..Len(records) /\ Len(records) \in Nat /\ \A n \in rows : records[n].offset \in Nat
    <2>1. DOMAIN records = 1..Len(records) /\ Len(records) \in Nat
      BY OverItsRange DEF RecordsHold
    <2>2. rows \subseteq DOMAIN records
      BY DEF InPartition
    <2> QED BY <2>1, <2>2 DEF RecordsHold
  <1>2. CASE rows = {}
    BY <1>2 DEF NextOffset
  <1>3. CASE rows # {}
    <2>1. IsFiniteSet(offsets)
      <3> DEFINE at == [n \in rows |-> records[n].offset]
      <3>1. IsFiniteSet(rows)
        <4>1. IsFiniteSet(1..Len(records))
          BY ONLY <1>1, FS_Interval
        <4> HIDE DEF rows
        <4> QED BY ONLY <1>1, <4>1, FS_Subset
      <3>2. at \in Surjection(rows, offsets)
        BY DEF Surjection
      <3> HIDE DEF at, rows, offsets
      <3> QED BY ONLY <3>1, <3>2, FS_Surjection
    <2>2. offsets \in SUBSET Nat /\ offsets # {}
      BY <1>1, <1>3
    <2>3. Max(offsets) \in offsets /\ \A x \in offsets : x <= Max(offsets)
      <3> HIDE DEF offsets
      <3> QED BY ONLY <2>1, <2>2, MaxIsGreatest
    <2>4. NextOffset(p) = Max(offsets) + 1
      BY <1>3 DEF NextOffset
    <2>5. \A n \in rows : records[n].offset <= Max(offsets)
      BY <2>3
    <2>6. Max(offsets) \in Nat
      BY <2>2, <2>3
    <2> HIDE DEF offsets
    <2>7. ASSUME NEW n \in rows PROVE records[n].offset < NextOffset(p)
      <3>1. records[n].offset \in Nat /\ records[n].offset <= Max(offsets)
        BY <1>1, <2>5
      <3> QED BY ONLY <2>4, <2>6, <3>1
    <2>8. NextOffset(p) \in Nat
      BY ONLY <2>4, <2>6
    <2> QED BY <2>7, <2>8
  <1> QED BY <1>2, <1>3

LEMMA NewestHold ==
    ASSUME NEW s, RecordsHold(s)
    PROVE  RecordsHold(Newest(s))
  <1> PICK n : n = Len(s)
    OBVIOUS
  <1> PICK m : m = IF n > KeepRecords THEN n - KeepRecords + 1 ELSE 1
    OBVIOUS
  <1> PICK t : t = Newest(s)
    OBVIOUS
  <1>1. s \in Seq(Range(s)) /\ DOMAIN s = 1..n /\ n \in Nat
    BY OverItsRange DEF RecordsHold
  <1>2. m \in Nat \ {0}
    BY <1>1, KafkaAssumption DEF KafkaAssumption
  <1>3. t = SubSeq(s, m, n)
    BY DEF Newest
  <1>4. \A i \in m..n : s[i] \in Range(s) /\ i \in DOMAIN s
    BY <1>1, <1>2 DEF Range
  <1>5. /\ t \in Seq(Range(s)) /\ Len(t) = IF m <= n THEN n - m + 1 ELSE 0
        /\ \A i \in 1..(n - m + 1) : t[i] = s[m + i - 1]
    BY ONLY <1>1, <1>2, <1>3, <1>4, SubSeqProperties
  <1>6. DOMAIN t = 1..Len(t) /\ t \in Seq(Range(t))
    BY ONLY <1>5, OverItsRange
  <1>7. \A i \in DOMAIN t : m + i - 1 \in DOMAIN s /\ t[i] = s[m + i - 1] /\ i \in Nat
    BY ONLY <1>1, <1>2, <1>5, <1>6
  <1>8. \A i \in DOMAIN t : t[i].offset \in Nat
    BY <1>7 DEF RecordsHold
  <1>9. ASSUME NEW i \in DOMAIN t, NEW j \in DOMAIN t, i < j, t[i].partition = t[j].partition
        PROVE  t[i].offset < t[j].offset
    <2>1. m + i - 1 < m + j - 1
      BY ONLY <1>2, <1>7, <1>9
    <2> QED BY <1>7, <1>9, <2>1 DEF RecordsHold
  <1> QED BY <1>6, <1>8, <1>9 DEF RecordsHold

LEMMA ProduceHolds ==
    ASSUME RecordsHold(records), NEW i, NEW subject, NEW key, Produce(i, subject, key)
    PROVE  RecordsHold(records')
  <1> PICK p : p = PartitionFor(key, topic[Stages[1]].partitions)
    OBVIOUS
  <1> PICK n : n = Len(records)
    OBVIOUS
  <1>1. PICK r : r = [partition |-> p, offset |-> NextOffset(p), key |-> key]
    OBVIOUS
  <1>2. PICK a : a = Append(records, r)
    OBVIOUS
  <1>3. records' = Newest(a)
    BY <1>1, <1>2 DEF Produce
  <1>4. r.partition = p /\ r.offset = NextOffset(p) /\ r.offset \in Nat
    BY <1>1, NextIsBeyond
  <1>5. records \in Seq(Range(records)) /\ DOMAIN records = 1..n /\ n \in Nat
    BY OverItsRange DEF RecordsHold
  <1>6. PICK S : S = Range(records) \cup {r}
    OBVIOUS
  <1>7. records \in Seq(S) /\ r \in S
    <2>1. Range(records) \subseteq S
      BY <1>6
    <2>2. records \in [1..n -> Range(records)]
      BY ONLY <1>5, LenProperties
    <2>3. records \in [1..n -> S]
      BY ONLY <2>1, <2>2
    <2> QED BY ONLY <1>5, <1>6, <2>3
  <1>8. /\ a \in Seq(S) /\ Len(a) = Len(records) + 1 /\ a[Len(records) + 1] = r
        /\ \A k \in 1..Len(records) : a[k] = records[k]
    BY ONLY <1>2, <1>7, AppendProperties
  <1>9. a \in Seq(Range(a)) /\ DOMAIN a = 1..(n + 1)
    <2>1. a \in Seq(Range(a)) /\ DOMAIN a = 1..Len(a)
      BY ONLY <1>8, OverItsRange
    <2> QED BY <1>8, <2>1
  <1>10. a[n + 1] = r /\ \A k \in 1..n : a[k] = records[k]
    BY <1>8
  <1>11. \A k \in DOMAIN a : a[k].offset \in Nat
    <2> SUFFICES ASSUME NEW k \in DOMAIN a PROVE a[k].offset \in Nat
      OBVIOUS
    <2>1. CASE k = n + 1
      BY <1>4, <1>10, <2>1
    <2>2. CASE k # n + 1
      <3>1. k \in 1..n
        BY ONLY <1>5, <1>9, <2>2
      <3> QED BY <1>5, <1>10, <3>1 DEF RecordsHold
    <2> QED BY <2>1, <2>2
  <1>12. ASSUME NEW k \in DOMAIN a, NEW l \in DOMAIN a, k < l, a[k].partition = a[l].partition
         PROVE  a[k].offset < a[l].offset
    <2>1. k \in 1..n
      BY ONLY <1>5, <1>9, <1>12
    <2>2. CASE l = n + 1
      <3>1. k \in InPartition(p)
        BY <1>4, <1>5, <1>10, <1>12, <2>1, <2>2 DEF InPartition
      <3> QED BY <1>4, <1>10, <2>1, <2>2, <3>1, NextIsBeyond
    <2>3. CASE l # n + 1
      <3>1. l \in 1..n
        BY ONLY <1>5, <1>9, <2>3
      <3> QED BY <1>5, <1>10, <1>12, <2>1, <3>1 DEF RecordsHold
    <2> QED BY <2>2, <2>3
  <1>13. RecordsHold(a)
    BY <1>9, <1>11, <1>12 DEF RecordsHold
  <1> QED BY <1>3, <1>13, NewestHold

LEMMA ReadsRise ==
    ASSUME RecordsHold(records), NEW p, NEW from
    PROVE  LET read == Consume(p, from, KeepRecords)
           IN \A i \in 1..(Len(read) - 1) : read[i].offset < read[i + 1].offset
  <1> PICK rows : rows = Found(p, from)
    OBVIOUS
  <1> PICK size : size = IF Cardinality(rows) < KeepRecords THEN Cardinality(rows) ELSE KeepRecords
    OBVIOUS
  <1> PICK read : read = Consume(p, from, KeepRecords)
    OBVIOUS
  <1>1. read = [i \in 1..size |-> records[Nth(rows, i - 1)]]
    BY DEF Consume
  <1>2. rows \subseteq DOMAIN records /\ \A n \in rows : records[n].partition = p
    BY DEF Found, InPartition
  <1>3. DOMAIN records = 1..Len(records) /\ Len(records) \in Nat
    BY OverItsRange DEF RecordsHold
  <1>4. IsFiniteSet(rows) /\ rows \in SUBSET Nat
    <2>1. IsFiniteSet(1..Len(records))
      BY ONLY <1>3, FS_Interval
    <2> QED BY ONLY <1>2, <1>3, <2>1, FS_Subset
  <1>5. size \in Nat /\ size <= Cardinality(rows)
    <2>1. Cardinality(rows) \in Nat
      BY ONLY <1>4, FS_CardinalityType
    <2>2. KeepRecords \in Nat
      BY KafkaAssumption DEF KafkaAssumption
    <2> QED BY <2>1, <2>2
  <1>6. Len(read) = size
    <2> PICK S : S = {records[Nth(rows, i - 1)] : i \in 1..size}
      OBVIOUS
    <2>1. read \in [1..size -> S]
      BY <1>1
    <2>2. read \in Seq(S)
      BY ONLY <1>5, <2>1
    <2>3. DOMAIN read = 1..size /\ DOMAIN read = 1..Len(read) /\ Len(read) \in Nat
      BY ONLY <2>1, <2>2, LenProperties
    <2> QED BY ONLY <1>5, <2>3
  <1>7. \A k \in 0..(size - 1) : Nth(rows, k) \in rows /\ Cardinality({q \in rows : q < Nth(rows, k)}) = k
    <2> SUFFICES ASSUME NEW k \in 0..(size - 1)
                 PROVE  Nth(rows, k) \in rows /\ Cardinality({q \in rows : q < Nth(rows, k)}) = k
      OBVIOUS
    <2>1. k \in Nat /\ k < Cardinality(rows)
      <3>1. Cardinality(rows) \in Nat
        BY ONLY <1>4, FS_CardinalityType
      <3> QED BY ONLY <1>5, <3>1
    <2>2. \E n \in rows : Cardinality({q \in rows : q < n}) = k
      BY ONLY <1>4, <2>1, Ranked
    <2> QED BY ONLY <2>2 DEF Nth
  <1>8. ASSUME NEW i \in 1..(size - 1)
        PROVE  read[i].offset < read[i + 1].offset
    <2> PICK m : m = Nth(rows, i - 1)
      OBVIOUS
    <2> PICK n : n = Nth(rows, i)
      OBVIOUS
    <2>1. /\ i \in 1..size /\ i + 1 \in 1..size /\ i - 1 \in 0..(size - 1) /\ i \in 0..(size - 1)
          /\ i + 1 - 1 = i /\ i \in Nat
      BY ONLY <1>5
    <2>2. read[i] = records[m] /\ read[i + 1] = records[n]
      BY <1>1, <2>1
    <2>3. m \in rows /\ Cardinality({q \in rows : q < m}) = i - 1
      BY <1>7, <2>1
    <2>4. n \in rows /\ Cardinality({q \in rows : q < n}) = i
      BY <1>7, <2>1
    <2>5. m < n
      <3> SUFFICES ASSUME ~(m < n) PROVE FALSE
        OBVIOUS
      <3>1. m \in Nat /\ n \in Nat /\ \A q \in rows : q \in Nat
        BY ONLY <1>4, <2>3, <2>4
      <3>2. \A q \in rows : q < n => q < m
        BY <3>1
      <3> PICK B : B = {q \in rows : q < m}
        OBVIOUS
      <3>3. {q \in rows : q < n} \in SUBSET B /\ B \in SUBSET rows
        BY <3>2
      <3>4. IsFiniteSet(B)
        BY ONLY <1>4, <3>3, FS_Subset
      <3>5. Cardinality({q \in rows : q < n}) <= Cardinality(B)
        BY ONLY <3>3, <3>4, FS_Subset
      <3>6. Cardinality(B) = i - 1
        BY <2>3
      <3> QED BY ONLY <2>1, <2>4, <3>5, <3>6
    <2> QED BY <1>2, <2>2, <2>3, <2>4, <2>5 DEF RecordsHold
  <1> QED BY <1>6, <1>8

-----------------------------------------------------------------------------
(* What grants rest on: a row that is or will be in force is the           *)
(* publisher's own, or the request it came with was approved.              *)
RowFields == {"stage", "app", "principal", "op", "request", "state"}
Backed(row, box) ==
    \/ row.app = Publisher
    \/ <<"request", row.request>> \in DOMAIN box /\ box[<<"request", row.request>>] = "approved"
GrantsHold(rows, box) ==
    /\ rows \in Seq(Range(rows))
    /\ \A i \in DOMAIN rows : DOMAIN rows[i] = RowFields
    /\ \A i \in DOMAIN rows : rows[i].state \in {"activating", "active"} => Backed(rows[i], box)

(* What a step may do to a row.                                            *)
Follows(row, next, box) ==
    /\ row.state \in {"cancelled", "rejected", "revoked"} => next.state = row.state
    /\ row.state = "revoking" => next.state \in {"revoking", "revoked"}
    /\ next.state = "active" => row.app = Publisher \/ box[<<"request", row.request>>] = "approved"

(* Approvals stay when an event is added, or delivered.                    *)
Stays(box, next) == \A e \in DOMAIN box : box[e] = "approved" => e \in DOMAIN next /\ next[e] = "approved"

LEMMA EmittedStays ==
    ASSUME NEW box, NEW keys
    PROVE  \A e \in DOMAIN box : e \in DOMAIN Emitted(box, keys) /\ Emitted(box, keys)[e] = box[e]
  BY DEF Emitted

LEMMA BackedStays ==
    ASSUME NEW row, NEW box, NEW next, Stays(box, next), Backed(row, box)
    PROVE  Backed(row, next)
  BY DEF Stays, Backed

(* One row that only changes its state, and is in force afterwards only    *)
(* where it is backed.                                                     *)
Moved(row, next, box) ==
    \/ next = row
    \/ \E to \in {"cancelled", "activating", "active", "rejected", "revoking", "revoked"} :
          /\ next = [row EXCEPT !.state = to]
          /\ row.state \notin {"cancelled", "rejected", "revoked"}
          /\ row.state = "revoking" => to = "revoked"
          /\ to = "active" => row.state = "activating"
          /\ to = "activating" => Backed(next, box)

LEMMA RowsMove ==
    ASSUME GrantsHold(access, outbox), NEW rows, NEW box, Stays(outbox, box),
           rows = [i \in DOMAIN access |-> rows[i]], \A i \in DOMAIN access : Moved(access[i], rows[i], box)
    PROVE  GrantsHold(rows, box) /\ \A i \in DOMAIN access : i \in DOMAIN rows /\ Follows(access[i], rows[i], outbox)
  <1>1. access \in Seq(Range(access)) /\ DOMAIN access = 1..Len(access) /\ Len(access) \in Nat
    BY OverItsRange DEF GrantsHold
  <1>2. DOMAIN rows = DOMAIN access
    <2> DEFINE made == [i \in DOMAIN access |-> rows[i]]
    <2>1. DOMAIN made = DOMAIN access
      OBVIOUS
    <2>2. rows = made
      OBVIOUS
    <2> HIDE DEF made
    <2> QED BY <2>1, <2>2
  <1>3. rows \in Seq(Range(rows))
    <2> PICK n : n = Len(access)
      OBVIOUS
    <2>1. n \in Nat /\ DOMAIN access = 1..n
      BY <1>1
    <2>2. \A i \in 1..n : rows[i] \in Range(rows)
      BY <1>2, <2>1 DEF Range
    <2>3. rows = [i \in 1..n |-> rows[i]]
      BY <2>1
    <2>4. rows \in [1..n -> Range(rows)]
      BY ONLY <2>2, <2>3
    <2> QED BY ONLY <2>1, <2>4
  <1>4. ASSUME NEW i \in DOMAIN access
        PROVE  /\ DOMAIN rows[i] = RowFields /\ (rows[i].state \in {"activating", "active"} => Backed(rows[i], box))
               /\ Follows(access[i], rows[i], outbox)
    <2> PICK r : r = access[i]
      OBVIOUS
    <2> PICK q : q = rows[i]
      OBVIOUS
    <2>1. DOMAIN r = RowFields /\ (r.state \in {"activating", "active"} => Backed(r, outbox)) /\ Moved(r, q, box)
      BY DEF GrantsHold
    <2>2. r.state \in {"activating", "active"} => Backed(r, box)
      BY <2>1, BackedStays
    <2>3. DOMAIN q = RowFields /\ q.app = r.app /\ q.request = r.request
      BY ONLY <2>1 DEF Moved, RowFields
    <2>4. Backed(r, box) <=> Backed(q, box)
      BY ONLY <2>3 DEF Backed
    <2>5. q.state \in {"activating", "active"} => Backed(q, box)
      <3>1. CASE q = r
        BY ONLY <2>2, <3>1
      <3>2. ASSUME NEW to, q = [r EXCEPT !.state = to], to = "active" => r.state = "activating",
                   to = "activating" => Backed(q, box)
            PROVE  q.state \in {"activating", "active"} => Backed(q, box)
        <4>1. q.state = to
          BY ONLY <2>1, <3>2 DEF RowFields
        <4> QED BY ONLY <2>2, <2>4, <3>2, <4>1
      <3> QED BY ONLY <2>1, <3>1, <3>2 DEF Moved
    <2>6. Follows(r, q, outbox)
      <3>1. CASE q = r
        BY ONLY <2>1, <3>1 DEF Follows, Backed
      <3>2. ASSUME NEW to, q = [r EXCEPT !.state = to], r.state \notin {"cancelled", "rejected", "revoked"},
                   r.state = "revoking" => to = "revoked", to = "active" => r.state = "activating"
            PROVE  Follows(r, q, outbox)
        <4>1. q.state = to
          BY ONLY <2>1, <3>2 DEF RowFields
        <4> QED BY ONLY <2>1, <3>2, <4>1 DEF Follows, Backed
      <3> QED BY ONLY <2>1, <3>1, <3>2 DEF Moved
    <2> QED BY <2>3, <2>5, <2>6
  <1>5. GrantsHold(rows, box)
    BY ONLY <1>2, <1>3, <1>4 DEF GrantsHold
  <1> QED BY <1>2, <1>4, <1>5

(* Rows and approvals that stand.                                          *)
LEMMA RowsStand ==
    ASSUME GrantsHold(access, outbox), NEW box, Stays(outbox, box)
    PROVE  GrantsHold(access, box) /\ \A i \in DOMAIN access : Follows(access[i], access[i], outbox)
  <1>1. access = [i \in DOMAIN access |-> access[i]]
    <2>1. access \in Seq(Range(access))
      BY DEF GrantsHold
    <2>2. access \in [1..Len(access) -> Range(access)] /\ DOMAIN access = 1..Len(access)
      BY ONLY <2>1, LenProperties
    <2> QED BY ONLY <2>2
  <1>2. \A i \in DOMAIN access : Moved(access[i], access[i], box)
    BY DEF Moved
  <1> QED BY ONLY <1>1, <1>2, RowsMove, GrantsHold(access, outbox), Stays(outbox, box)

GrantsFollow == \A i \in DOMAIN access : i \in DOMAIN access' /\ Follows(access[i], access'[i], outbox)

LEMMA SubscribeHolds ==
    ASSUME GrantsHold(access, outbox), NEW app, NEW principal, NEW ops \in SUBSET {"read", "write"},
           SubscribeEnd(app, principal, ops)
    PROVE  GrantsHold(access', outbox') /\ GrantsFollow
  <1>1. CASE access' = access /\ outbox' = outbox
    <2>1. Stays(outbox, outbox)
      BY DEF Stays
    <2>2. GrantsHold(access, outbox) /\ \A i \in DOMAIN access : Follows(access[i], access[i], outbox)
      BY <2>1, RowsStand
    <2> QED BY <1>1, <2>2 DEF GrantsFollow
  <1>2. CASE ~(access' = access /\ outbox' = outbox)
    <2>1. PICK n : n = Cardinality(ops)
      OBVIOUS
    <2>2. n \in Nat
      <3>1. IsFiniteSet({"read", "write"})
        <4>1. IsFiniteSet({"read"}) /\ {"read", "write"} = {"read"} \cup {"write"}
          BY FS_Singleton
        <4> QED BY <4>1, FS_AddElement
      <3>2. IsFiniteSet(ops)
        BY <3>1, FS_Subset
      <3> QED BY <2>1, <3>2, FS_CardinalityType
    <2>3. PICK rows : rows = [i \in 1..n |->
                         [stage |-> parked.stage, app |-> app, principal |-> principal, op |-> SetToSeq(ops)[i],
                          request |-> Len(access) + 1, state |-> IF app = Publisher THEN "activating" ELSE "pending"]]
      OBVIOUS
    <2>4. access' = access \o rows /\ \E keys : outbox' = Emitted(outbox, keys)
      BY <1>2, <2>1, <2>3 DEF SubscribeEnd
    <2>5. Stays(outbox, outbox')
      BY <2>4, EmittedStays DEF Stays
    <2>6. \A i \in 1..n : /\ DOMAIN rows[i] = RowFields /\ rows[i].app = app
                          /\ rows[i].state = IF app = Publisher THEN "activating" ELSE "pending"
      BY <2>3 DEF RowFields
    <2>7. PICK S : S = Range(access) \cup Range(rows)
      OBVIOUS
    <2>8. access \in Seq(Range(access)) /\ DOMAIN access = 1..Len(access) /\ Len(access) \in Nat
      BY OverItsRange DEF GrantsHold
    <2>9. access \in Seq(S)
      <3>1. access \in [1..Len(access) -> Range(access)] /\ Range(access) \subseteq S
        BY <2>7, <2>8, LenProperties
      <3>2. access \in [1..Len(access) -> S]
        BY ONLY <3>1
      <3> QED BY ONLY <2>8, <3>2
    <2>10. rows \in Seq(S) /\ Len(rows) = n
      <3>1. DOMAIN rows = 1..n /\ \A i \in 1..n : rows[i] \in Range(rows)
        BY <2>3 DEF Range
      <3>2. \A i \in 1..n : rows[i] \in S
        BY <2>7, <3>1
      <3>3. rows = [i \in 1..n |-> rows[i]]
        BY ONLY <2>3
      <3>4. rows \in [1..n -> S]
        BY ONLY <3>2, <3>3
      <3>5. rows \in Seq(S)
        BY ONLY <2>2, <3>4
      <3>6. DOMAIN rows = 1..Len(rows) /\ Len(rows) \in Nat
        BY ONLY <3>5, LenProperties
      <3> QED BY ONLY <2>2, <3>1, <3>5, <3>6
    <2>11. PICK v : v = access \o rows
      OBVIOUS
    <2>12. /\ v \in Seq(S) /\ Len(v) = Len(access) + n
           /\ \A i \in 1..(Len(access) + n) : v[i] = IF i <= Len(access) THEN access[i] ELSE rows[i - Len(access)]
      BY ONLY <2>9, <2>10, <2>11, ConcatProperties
    <2>13. v \in Seq(Range(v)) /\ DOMAIN v = 1..(Len(access) + n)
      <3>1. v \in Seq(Range(v)) /\ DOMAIN v = 1..Len(v)
        BY ONLY <2>12, OverItsRange
      <3> QED BY ONLY <2>12, <3>1
    <2>14. \A i \in DOMAIN access : i \in DOMAIN v /\ v[i] = access[i]
      BY ONLY <2>2, <2>8, <2>12, <2>13
    <2>15. \A i \in DOMAIN v : i \in DOMAIN access \/ (i - Len(access) \in 1..n /\ v[i] = rows[i - Len(access)])
      BY ONLY <2>2, <2>8, <2>12, <2>13
    <2>16. GrantsHold(access, outbox') /\ \A i \in DOMAIN access : Follows(access[i], access[i], outbox)
      BY <2>5, RowsStand
    <2>17. ASSUME NEW i \in DOMAIN v
           PROVE  DOMAIN v[i] = RowFields /\ (v[i].state \in {"activating", "active"} => Backed(v[i], outbox'))
      <3>1. CASE i \in DOMAIN access
        BY <2>14, <2>16, <3>1 DEF GrantsHold
      <3>2. CASE i \notin DOMAIN access
        <4>1. PICK k \in 1..n : v[i] = rows[k]
          BY <2>15, <3>2
        <4>2. DOMAIN v[i] = RowFields /\ v[i].app = app /\ v[i].state = IF app = Publisher THEN "activating" ELSE "pending"
          BY <2>6, <4>1
        <4> QED BY ONLY <4>2 DEF Backed
      <3> QED BY <3>1, <3>2
    <2>18. GrantsHold(v, outbox')
      BY <2>13, <2>17 DEF GrantsHold
    <2>19. access' = v
      BY <2>4, <2>11
    <2> QED BY <2>14, <2>16, <2>18, <2>19 DEF GrantsFollow
  <1> QED BY <1>1, <1>2

LEMMA RevokeHolds ==
    ASSUME GrantsHold(access, outbox), NEW i, RevokeAccess(i)
    PROVE  GrantsHold(access', outbox') /\ GrantsFollow
  <1> PICK v : v = access'
    OBVIOUS
  <1>1. i \in DOMAIN access /\ access[i].state \in {"pending", "activating", "active"}
    BY DEF RevokeAccess
  <1>2. CASE access[i].state = "pending"
    <2>1. /\ v = [j \in DOMAIN access |->
                 IF access[j].request = access[i].request /\ access[j].state = "pending"
                 THEN [access[j] EXCEPT !.state = "cancelled"] ELSE access[j]]
          /\ outbox' = outbox
      BY <1>2 DEF RevokeAccess
    <2>2. v = [j \in DOMAIN access |-> v[j]]
      BY ONLY <2>1
    <2>3. ASSUME NEW j \in DOMAIN access PROVE Moved(access[j], v[j], outbox')
      <3>1. v[j] = access[j] \/ (access[j].state = "pending" /\ v[j] = [access[j] EXCEPT !.state = "cancelled"])
        BY ONLY <2>1
      <3> QED BY ONLY <3>1 DEF Moved
    <2>4. Stays(outbox, outbox')
      BY <2>1 DEF Stays
    <2>5. GrantsHold(v, outbox') /\ \A j \in DOMAIN access : j \in DOMAIN v /\ Follows(access[j], v[j], outbox)
      BY <2>2, <2>3, <2>4, RowsMove
    <2> QED BY <2>5 DEF GrantsFollow
  <1>3. CASE access[i].state # "pending"
    <2>1. v = [access EXCEPT ![i].state = "revoking"] /\ outbox' = Emitted(outbox, {<<"revoke", i>>})
      BY <1>3 DEF RevokeAccess
    <2>2. v = [j \in DOMAIN access |-> v[j]]
      BY ONLY <2>1
    <2>3. ASSUME NEW j \in DOMAIN access PROVE Moved(access[j], v[j], outbox')
      <3>1. v[j] = IF j = i THEN [access[j] EXCEPT !.state = "revoking"] ELSE access[j]
        BY ONLY <1>1, <2>1
      <3> QED BY ONLY <1>1, <3>1 DEF Moved
    <2>4. Stays(outbox, outbox')
      BY <2>1, EmittedStays DEF Stays
    <2>5. GrantsHold(v, outbox') /\ \A j \in DOMAIN access : j \in DOMAIN v /\ Follows(access[j], v[j], outbox)
      BY <2>2, <2>3, <2>4, RowsMove
    <2> QED BY <2>5 DEF GrantsFollow
  <1> QED BY <1>2, <1>3

LEMMA DecideHolds ==
    ASSUME GrantsHold(access, outbox), NEW id, NEW decision \in {"approved", "rejected"},
           DecideAccess(id, decision)
    PROVE  GrantsHold(access', outbox') /\ GrantsFollow
  <1> PICK v : v = access'
    OBVIOUS
  <1>1. PICK asked : asked = <<"request", id>>
    OBVIOUS
  <1>2. PICK pending : pending = {i \in DOMAIN access : access[i].request = id /\ access[i].state = "pending"}
    OBVIOUS
  <1>3. PICK decided : decided = [outbox EXCEPT ![asked] = decision]
    OBVIOUS
  <1>4. asked \in DOMAIN outbox /\ outbox[asked] = "awaiting-decision"
    BY <1>1 DEF DecideAccess
  <1>5. v = [i \in DOMAIN access |->
               IF i \in pending
               THEN [access[i] EXCEPT !.state = IF decision = "approved" THEN "activating" ELSE "rejected"]
               ELSE access[i]]
    BY <1>2 DEF DecideAccess
  <1>6. \E keys : outbox' = Emitted(decided, keys)
    BY <1>1, <1>2, <1>3 DEF DecideAccess
  <1>7. DOMAIN decided = DOMAIN outbox /\ decided[asked] = decision /\ \A e \in DOMAIN outbox : e # asked => decided[e] = outbox[e]
    BY ONLY <1>3, <1>4
  <1>8. \A e \in DOMAIN decided : e \in DOMAIN outbox' /\ outbox'[e] = decided[e]
    BY <1>6, EmittedStays
  <1>9. Stays(outbox, outbox')
    BY <1>4, <1>7, <1>8 DEF Stays
  <1>10. v = [i \in DOMAIN access |-> v[i]]
    BY ONLY <1>5
  <1>11. ASSUME NEW i \in DOMAIN access PROVE Moved(access[i], v[i], outbox')
    <2>1. CASE i \notin pending
      BY ONLY <1>5, <2>1 DEF Moved
    <2>2. CASE i \in pending
      <3>1. DOMAIN access[i] = RowFields /\ access[i].request = id /\ access[i].state = "pending"
        BY <1>2, <2>2 DEF GrantsHold
      <3>2. CASE decision = "rejected"
        <4>1. v[i] = [access[i] EXCEPT !.state = "rejected"]
          BY ONLY <1>5, <2>2, <3>2
        <4> QED BY ONLY <3>1, <4>1 DEF Moved
      <3>3. CASE decision = "approved"
        <4>1. v[i] = [access[i] EXCEPT !.state = "activating"]
          BY ONLY <1>5, <2>2, <3>3
        <4>2. v[i].request = id
          BY ONLY <3>1, <4>1 DEF RowFields
        <4>3. asked \in DOMAIN outbox' /\ outbox'[asked] = "approved"
          BY <1>4, <1>7, <1>8, <3>3
        <4>4. Backed(v[i], outbox')
          BY <1>1, <4>2, <4>3 DEF Backed
        <4> QED BY ONLY <3>1, <4>1, <4>4 DEF Moved
      <3> QED BY <3>2, <3>3
    <2> QED BY <2>1, <2>2
  <1>12. GrantsHold(v, outbox') /\ \A i \in DOMAIN access : i \in DOMAIN v /\ Follows(access[i], v[i], outbox)
    BY <1>9, <1>10, <1>11, RowsMove
  <1> QED BY <1>12 DEF GrantsFollow

LEMMA DeliverHolds ==
    ASSUME GrantsHold(access, outbox), NEW e \in DOMAIN outbox, DeliverEvent(e)
    PROVE  GrantsHold(access', outbox') /\ GrantsFollow
  <1> PICK v : v = access'
    OBVIOUS
  <1>1. outbox[e] = "queued" /\ outbox' = [outbox EXCEPT ![e] = IF e[1] = "request" THEN "awaiting-decision" ELSE "delivered"]
    BY DEF DeliverEvent
  <1>2. Stays(outbox, outbox')
    BY <1>1 DEF Stays
  <1>3. \/ e[1] = "grant" /\ v = [access EXCEPT ![e[2]] = Activated(access[e[2]])]
        \/ access[e[2]].state = "revoking" /\ v = [access EXCEPT ![e[2]].state = "revoked"]
        \/ v = access
    BY DEF DeliverEvent
  <1>4. CASE v = access
    <2>1. GrantsHold(access, outbox') /\ \A i \in DOMAIN access : Follows(access[i], access[i], outbox)
      BY <1>2, RowsStand
    <2> QED BY <1>4, <2>1 DEF GrantsFollow
  <1>5. CASE v = [access EXCEPT ![e[2]] = Activated(access[e[2]])]
    <2>1. v = [i \in DOMAIN access |-> v[i]]
      BY ONLY <1>5
    <2>2. ASSUME NEW i \in DOMAIN access PROVE Moved(access[i], v[i], outbox')
      <3>1. v[i] = IF i = e[2] THEN Activated(access[i]) ELSE access[i]
        BY ONLY <1>5
      <3>2. v[i] = access[i] \/ (access[i].state = "activating" /\ v[i] = [access[i] EXCEPT !.state = "active"])
        BY ONLY <3>1 DEF Activated
      <3> QED BY ONLY <3>2 DEF Moved
    <2>3. GrantsHold(v, outbox') /\ \A i \in DOMAIN access : i \in DOMAIN v /\ Follows(access[i], v[i], outbox)
      BY <1>2, <2>1, <2>2, RowsMove
    <2> QED BY <2>3 DEF GrantsFollow
  <1>6. CASE access[e[2]].state = "revoking" /\ v = [access EXCEPT ![e[2]].state = "revoked"]
    <2>1. v = [i \in DOMAIN access |-> v[i]]
      BY ONLY <1>6
    <2>2. ASSUME NEW i \in DOMAIN access PROVE Moved(access[i], v[i], outbox')
      <3>1. v[i] = IF i = e[2] THEN [access[i] EXCEPT !.state = "revoked"] ELSE access[i]
        BY ONLY <1>6
      <3>2. v[i] = access[i] \/ (access[i].state = "revoking" /\ v[i] = [access[i] EXCEPT !.state = "revoked"])
        BY ONLY <1>6, <3>1
      <3> QED BY ONLY <3>2 DEF Moved
    <2>3. GrantsHold(v, outbox') /\ \A i \in DOMAIN access : i \in DOMAIN v /\ Follows(access[i], v[i], outbox)
      BY <1>2, <2>1, <2>2, RowsMove
    <2> QED BY <2>3 DEF GrantsFollow
  <1> QED BY <1>3, <1>4, <1>5, <1>6

LEMMA GrantsStep ==
    ASSUME GrantsHold(access, outbox), [KafkaNext]_kvars
    PROVE  GrantsHold(access', outbox') /\ GrantsFollow
  <1>1. ASSUME access' = access, Stays(outbox, outbox') PROVE GrantsHold(access', outbox') /\ GrantsFollow
    <2>1. GrantsHold(access, outbox') /\ \A i \in DOMAIN access : Follows(access[i], access[i], outbox)
      BY <1>1, RowsStand
    <2> QED BY <1>1, <2>1 DEF GrantsFollow
  <1>2. Stays(outbox, outbox) /\ \A keys : Stays(outbox, Emitted(outbox, keys))
    BY EmittedStays DEF Stays
  <1>3. ASSUME access' = access, outbox' = outbox \/ \E keys : outbox' = Emitted(outbox, keys)
        PROVE  GrantsHold(access', outbox') /\ GrantsFollow
    BY <1>1, <1>2, <1>3
  <1>4. CASE UNCHANGED kvars
    BY <1>3, <1>4 DEF kvars
  <1>5. ASSUME NEW def, NEW n, CreateTopic(def, n) PROVE GrantsHold(access', outbox') /\ GrantsFollow
    BY <1>3, <1>5 DEF CreateTopic, OnlyTopic
  <1>6. ASSUME NEW s, StageTopic(s) PROVE GrantsHold(access', outbox') /\ GrantsFollow
    BY <1>3, <1>6 DEF StageTopic, OnlyTopic
  <1>7. ASSUME NEW s, \/ DeleteTopic(s) \/ PatchTopicBegin(s) \/ CertificateChanges(s) \/ ShareProxy(s)
                      \/ PublishTopicApi(s) \/ SubscribeBegin(s)
        PROVE  GrantsHold(access', outbox') /\ GrantsFollow
    BY <1>3, <1>7 DEF DeleteTopic, PatchTopicBegin, CertificateChanges, ShareProxy, PublishTopicApi, SubscribeBegin,
       OnlyTopic, OnlyAccess
  <1>8. ASSUME NEW n, NEW def, NEW cert, PatchTopicEnd(n, def, cert) PROVE GrantsHold(access', outbox') /\ GrantsFollow
    BY <1>3, <1>8 DEF PatchTopicEnd, OnlyTopic
  <1>9. ASSUME RetireTopicApi PROVE GrantsHold(access', outbox') /\ GrantsFollow
    BY <1>3, <1>9 DEF RetireTopicApi
  <1>10. ASSUME NEW i, NEW subject, NEW key, Produce(i, subject, key) PROVE GrantsHold(access', outbox') /\ GrantsFollow
    <2>1. access' = access /\ outbox' = outbox
      BY <1>10 DEF Produce
    <2> QED BY <1>3, <2>1
  <1>11. CASE TopicNext
    BY <1>5, <1>6, <1>7, <1>8, <1>9, <1>11, DeliverHolds DEF TopicNext, Deliveries
  <1>12. CASE \E s \in StageSet : SubscribeBegin(s)
    BY <1>7, <1>12
  <1>13. CASE \E app \in Consumers, principal \in Principals, ops \in (SUBSET {"read", "write"}) \ {{}} :
                 SubscribeEnd(app, principal, ops)
    BY <1>13, SubscribeHolds
  <1>14. ASSUME NEW i \in DOMAIN access, RevokeAccess(i) \/ \E d \in {"approved", "rejected"} : DecideAccess(i, d)
         PROVE  GrantsHold(access', outbox') /\ GrantsFollow
    BY <1>14, RevokeHolds, DecideHolds
  <1> QED BY <1>4, <1>10, <1>11, <1>12, <1>13, <1>14 DEF KafkaNext

LEMMA RecordsStep ==
    ASSUME RecordsHold(records), [KafkaNext]_kvars
    PROVE  RecordsHold(records')
  <1>1. ASSUME NEW i \in DOMAIN access, NEW subject \in Subjects, NEW key \in Keys, Produce(i, subject, key)
        PROVE  RecordsHold(records')
    BY <1>1, ProduceHolds
  <1>2. ASSUME records' = records PROVE RecordsHold(records')
    BY <1>2
  <1>3. CASE UNCHANGED kvars
    BY <1>2, <1>3 DEF kvars
  <1>4. CASE TopicNext
    <2>1. records' = records
      BY <1>4 DEF TopicNext, Deliveries, DeliverEvent, CreateTopic, StageTopic, DeleteTopic, PatchTopicBegin,
         CertificateChanges, ShareProxy, PublishTopicApi, PatchTopicEnd, RetireTopicApi, OnlyTopic
    <2> QED BY <1>2, <2>1
  <1>5. CASE \E s \in StageSet : SubscribeBegin(s)
    BY <1>2, <1>5 DEF SubscribeBegin, OnlyAccess
  <1>6. ASSUME NEW app, NEW principal, NEW ops, SubscribeEnd(app, principal, ops) PROVE RecordsHold(records')
    BY <1>2, <1>6 DEF SubscribeEnd, OnlyAccess
  <1>7. ASSUME NEW i, RevokeAccess(i) PROVE RecordsHold(records')
    BY <1>2, <1>7 DEF RevokeAccess, OnlyAccess
  <1>8. ASSUME NEW i, NEW d, DecideAccess(i, d) PROVE RecordsHold(records')
    BY <1>2, <1>8 DEF DecideAccess, OnlyAccess
  <1> QED BY <1>1, <1>3, <1>4, <1>5, <1>6, <1>7, <1>8 DEF KafkaNext

(* Whatever is asked for, decided, revoked and delivered in whatever       *)
(* order, no grant is in force that nobody approved and none comes back;   *)
(* and however many records are produced and pruned, a partition is read   *)
(* in the order it was written (api/kafka-proxy.ts, integrations.ts,       *)
(* kafka.ts).                                                              *)
THEOREM ConsumersServed == KafkaSpec => ConsumersGet
  <1> DEFINE KInv == GrantsHold(access, outbox) /\ RecordsHold(records)
             FollowDecisions == \A i \in DOMAIN access :
                 /\ access[i].state \in {"cancelled", "rejected", "revoked"} => access'[i].state = access[i].state
                 /\ access[i].state = "revoking" => access'[i].state \in {"revoking", "revoked"}
                 /\ access'[i].state = "active" =>
                       \/ access[i].app = Publisher
                       \/ outbox[<<"request", access[i].request>>] = "approved"
  <1>1. KafkaInit => KInv
    <2> SUFFICES ASSUME KafkaInit PROVE KInv
      OBVIOUS
    <2>1. access = <<>> /\ records = <<>>
      BY DEF KafkaInit
    <2>2. <<>> \in Seq(Range(<<>>)) /\ DOMAIN <<>> = {}
      OBVIOUS
    <2> QED BY <2>1, <2>2 DEF GrantsHold, RecordsHold
  <1>2. KInv /\ [KafkaNext]_kvars => KInv' /\ [FollowDecisions]_kvars
    <2> SUFFICES ASSUME KInv, [KafkaNext]_kvars PROVE KInv' /\ FollowDecisions
      OBVIOUS
    <2>1. GrantsHold(access', outbox') /\ GrantsFollow
      BY GrantsStep
    <2>2. RecordsHold(records')
      BY RecordsStep
    <2>3. FollowDecisions
      BY <2>1 DEF GrantsFollow, Follows
    <2> QED BY <2>1, <2>2, <2>3
  <1>3. KInv => ReadInOrder
    <2> SUFFICES ASSUME KInv, NEW p \in DOMAIN given, NEW from \in 0..MaxRecords
                 PROVE  LET read == Consume(p, from, KeepRecords)
                        IN \A i \in 1..(Len(read) - 1) : read[i].offset < read[i + 1].offset
      BY DEF ReadInOrder
    <2> QED BY ReadsRise
  <1> HIDE DEF KInv
  <1>4. KafkaSpec => []KInv /\ [][FollowDecisions]_kvars
    BY <1>1, <1>2, PTL DEF KafkaSpec
  <1>5. [][FollowDecisions]_kvars <=> GrantsFollowDecisions
    BY PTL DEF GrantsFollowDecisions
  <1> QED BY <1>3, <1>4, <1>5, PTL DEF ConsumersGet
=============================================================================
