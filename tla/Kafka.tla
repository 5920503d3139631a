------------------------------- MODULE Kafka --------------------------------
(***************************************************************************)
(* The Kafka workspace: one topic through its stages, the grants on it,    *)
(* the outbox that provisions both, its API behind the shared REST proxy,  *)
(* and the simulated broker of the playground (control-plane/src/kafka.ts, *)
(* kafka-proxy.ts, api/kafka-proxy.ts, integrations.ts; shared/kafka.ts,   *)
(* shared/kafka-proxy.ts).  Handlers that wait hold the row they read.     *)
(***************************************************************************)
EXTENDS Integers, Sequences, FiniteSets, SequencesExt, FiniteSetsExt

CONSTANTS
    Stages,         \* KAFKA_ENVIRONMENTS, in order
    Publisher,      \* the application that owns the topic
    Consumers,      \* applications that may ask for access, the publisher too
    Principals,     \* DNs, as sequences of parts
    Subjects,       \* subjects of the certificates an application holds
    Schemas,        \* [name, kind, ok] definitions somebody may save
    PartitionCounts,
    Keys,           \* record keys by their hash, -1 for none
    KeepRecords,    \* 100 in the code
    MaxAccess, MaxRecords, MaxPatches  \* bounds

ASSUME KafkaAssumption ==
    /\ Publisher \in Consumers /\ PartitionCounts \subseteq 1..100
    /\ {KeepRecords, MaxAccess, MaxRecords, MaxPatches} \subseteq Nat /\ KeepRecords > 0

VARIABLES
    topic,      \* stage -> its kafka_topic row
    certOk,     \* stage -> whether the topic's certificate is usable there
    access,     \* kafka_access rows; a row's id is its place
    outbox,     \* <<kind, subject>> -> state of the integration event
    proxied,    \* stages where the shared proxy is published with its key
    topicApi,   \* stage -> what the topic's API there was last configured with
    records,    \* kafka_message rows of the first stage, by id
    given,      \* partition -> the highest offset given so far, for the properties
    parked,     \* the request that is waiting, with the row it read
    produced,   \* records produced so far
    patched     \* PATCHes begun so far

kvars == <<topic, certOk, access, outbox, proxied, topicApi, records, given, parked, produced, patched>>

-----------------------------------------------------------------------------
StageSet == Range(Stages)
After(s) == Stages[CHOOSE i \in DOMAIN Stages : i > 1 /\ Stages[i - 1] = s]
Free == [op |-> "none"]
NoApi == [live |-> FALSE, schema |-> "none", cert |-> FALSE]
NoTopic == [state |-> "none", partitions |-> 1, schema |-> "none", kind |-> "none",
            version |-> 0, cert |-> FALSE]
LiveAccess == {"pending", "activating", "active", "revoking"}

(* intIn against TOPIC_LIMITS. *)
WithinLimits(n) == n \in 1..100

(* readContract: a definition is checked (topicSchemaError), and a new     *)
(* type without one clears the old.                                        *)
Contract(row, def) == IF def.kind = "none" THEN [row EXCEPT !.schema = "none", !.kind = "none"]
                      ELSE [row EXCEPT !.schema = def.name, !.kind = def.kind]
Readable(def) == def.kind # "none" => def.ok

(* emitIntegration: once per kind and subject. *)
Emitted(box, keys) == [e \in DOMAIN box \cup keys |-> IF e \in DOMAIN box THEN box[e] ELSE "queued"]

(* topicApiBlockers over topicFacts. *)
Blockers(s) == \/ topic[s].state # "ready" \/ topic[s].kind # "json"
               \/ topic[s].schema = "none" \/ ~topic[s].cert \/ ~certOk[s]

-----------------------------------------------------------------------------
(* Topics. *)
OnlyTopic == UNCHANGED <<certOk, access, proxied, records, given, produced>>

(* POST /api/kafka/topics: in the first stage, and a deleted name is not   *)
(* used again.                                                             *)
CreateTopic(def, partitions) ==
    LET s == Stages[1]
    IN /\ topic[s].state = "none" /\ Readable(def) /\ WithinLimits(partitions)
       /\ topic' = [topic EXCEPT ![s] = Contract([NoTopic EXCEPT !.state = "provisioning",
                        !.partitions = partitions, !.version = IF def.kind = "none" THEN 0 ELSE 1], def)]
       /\ outbox' = Emitted(outbox, {<<"topic", s>>})
       /\ UNCHANGED <<topicApi, parked, patched>> /\ OnlyTopic

(* POST /api/kafka/topics/:id/stage: everything but the certificate. *)
StageTopic(s) ==
    /\ topic[s].state = "ready" /\ s # Last(Stages) /\ topic[After(s)].state = "none"
    /\ topic' = [topic EXCEPT ![After(s)] = [topic[s] EXCEPT !.state = "provisioning", !.cert = FALSE,
                    !.version = IF topic[s].schema = "none" THEN 0 ELSE 1]]
    /\ outbox' = Emitted(outbox, {<<"topic", After(s)>>})
    /\ UNCHANGED <<topicApi, parked, patched>> /\ OnlyTopic

(* DELETE /api/kafka/topics/:id. *)
DeleteTopic(s) ==
    /\ topic[s].state \in {"provisioning", "ready"}
    /\ ~\E i \in DOMAIN access : access[i].stage = s /\ access[i].state \in LiveAccess
    /\ ~topicApi[s].live
    /\ topic' = [topic EXCEPT ![s].state = "deleted"]
    /\ UNCHANGED <<topicApi, outbox, parked, patched>> /\ OnlyTopic

(* PATCH /api/kafka/topics/:id: a published API is configured before the   *)
(* row is written, and every column left out comes from the row read       *)
(* first.                                                                  *)
PatchTopicBegin(s) ==
    /\ parked = Free /\ patched < MaxPatches /\ patched' = patched + 1
    /\ topic[s].state \in {"provisioning", "ready"}
    /\ parked' = [op |-> "patch", stage |-> s, row |-> topic[s]]
    /\ UNCHANGED <<topic, topicApi, outbox>> /\ OnlyTopic
PatchedRow(row, partitions, def, cert) ==
    LET next == [Contract(row, def) EXCEPT !.partitions = partitions, !.cert = cert]
    IN [next EXCEPT !.version = IF next.schema # row.schema /\ next.schema # "none"
                                THEN row.version + 1 ELSE row.version]
PatchTopicEnd(partitions, def, cert) ==
    /\ parked.op = "patch" /\ parked' = Free
    /\ LET s == parked.stage
           row == parked.row
           next == PatchedRow(row, partitions, def, cert)
           refused == \/ partitions < row.partitions \/ ~WithinLimits(partitions) \/ ~Readable(def)
                      \/ cert /\ ~certOk[s]
                      \/ topicApi[s].live /\ (next.kind # "json" \/ ~next.cert)
       IN IF refused THEN UNCHANGED <<topic, topicApi>>
          ELSE /\ topic' = [topic EXCEPT ![s] = [next EXCEPT !.state = topic[s].state]]
               /\ topicApi' = IF topicApi[s].live
                              THEN [topicApi EXCEPT ![s].schema = next.schema, ![s].cert = next.cert]
                              ELSE topicApi
    /\ UNCHANGED <<outbox, patched>> /\ OnlyTopic

(* A certificate is uploaded, renewed or expires. *)
CertificateChanges(s) ==
    /\ certOk' = [certOk EXCEPT ![s] = ~@]
    /\ UNCHANGED <<topic, access, outbox, proxied, topicApi, records, given, parked, produced, patched>>

-----------------------------------------------------------------------------
(* The topic's API. *)
(* POST /api/kafka/proxy/shared: the first stage first; the key is minted  *)
(* with the publication.                                                   *)
ShareProxy(s) ==
    /\ s \notin proxied /\ (s = Stages[1] \/ Stages[1] \in proxied)
    /\ proxied' = proxied \cup {s}
    /\ UNCHANGED <<topic, certOk, access, outbox, topicApi, records, given, parked, produced, patched>>

(* POST /api/kafka/topics/:id/proxy, through topicApiBinding. *)
PublishTopicApi(s) ==
    /\ ~Blockers(s) /\ s \in proxied /\ ~topicApi[s].live
    /\ s = Stages[1] \/ topicApi[Stages[1]].live
    /\ topicApi' = [topicApi EXCEPT ![s] = [live |-> TRUE, schema |-> topic[s].schema, cert |-> topic[s].cert]]
    /\ UNCHANGED <<topic, certOk, access, outbox, proxied, records, given, parked, produced, patched>>

RetireTopicApi ==
    /\ \E s \in StageSet : topicApi[s].live
    /\ topicApi' = [s \in StageSet |-> NoApi]
    /\ UNCHANGED <<topic, certOk, access, outbox, proxied, records, given, parked, produced, patched>>

-----------------------------------------------------------------------------
(* Grants. *)
OnlyAccess == UNCHANGED <<topic, certOk, proxied, topicApi, records, given, produced, patched>>

(* kafka_access_current: one live row per application, principal and       *)
(* operation.                                                              *)
Holding(s, app, principal) ==
    {access[i].op : i \in {i \in DOMAIN access : /\ access[i].stage = s /\ access[i].app = app
                              /\ access[i].principal = principal /\ access[i].state \in LiveAccess}}

(* POST /api/kafka/topics/:id/subscribe: the rows asked for together are   *)
(* one request; the publisher's own need no decision.                      *)
SubscribeBegin(s) ==
    /\ parked = Free /\ topic[s].state # "none" /\ Len(access) < MaxAccess
    /\ parked' = [op |-> "subscribe", stage |-> s, row |-> topic[s]]
    /\ UNCHANGED <<access, outbox>> /\ OnlyAccess
SubscribeEnd(app, principal, ops) ==
    /\ parked.op = "subscribe" /\ parked' = Free
    /\ LET s == parked.stage
           first == Len(access) + 1
           rows == [i \in 1..Cardinality(ops) |->
                      [stage |-> s, app |-> app, principal |-> principal, op |-> SetToSeq(ops)[i],
                       request |-> first, state |-> IF app = Publisher THEN "activating" ELSE "pending"]]
           ids == first .. (first + Cardinality(ops) - 1)
       IN IF parked.row.state # "ready" \/ ops \cap Holding(s, app, principal) # {}
          THEN UNCHANGED <<access, outbox>>
          ELSE /\ access' = access \o rows
               /\ outbox' = Emitted(outbox, IF app = Publisher THEN {<<"grant", i>> : i \in ids}
                                            ELSE {<<"request", first>>})
    /\ OnlyAccess

(* DELETE /api/kafka/access/:id: a pending request is cancelled whole. *)
RevokeAccess(i) ==
    /\ i \in DOMAIN access /\ access[i].state \in {"pending", "activating", "active"}
    /\ IF access[i].state = "pending"
       THEN /\ access' = [j \in DOMAIN access |->
                 IF access[j].request = access[i].request /\ access[j].state = "pending"
                 THEN [access[j] EXCEPT !.state = "cancelled"] ELSE access[j]]
            /\ UNCHANGED outbox
       ELSE /\ access' = [access EXCEPT ![i].state = "revoking"]
            /\ outbox' = Emitted(outbox, {<<"revoke", i>>})
    /\ UNCHANGED parked /\ OnlyAccess

(* POST /api/integration-events/:id/decision, kafka.request. *)
DecideAccess(request, decision) ==
    /\ <<"request", request>> \in DOMAIN outbox
    /\ outbox[<<"request", request>>] = "awaiting-decision"
    /\ LET pending == {i \in DOMAIN access : access[i].request = request /\ access[i].state = "pending"}
       IN /\ pending # {}
          /\ access' = [i \in DOMAIN access |->
                IF i \in pending
                THEN [access[i] EXCEPT !.state = IF decision = "approved" THEN "activating" ELSE "rejected"]
                ELSE access[i]]
          /\ outbox' = Emitted([outbox EXCEPT ![<<"request", request>>] = decision],
                               IF decision = "approved" THEN {<<"grant", i>> : i \in pending} ELSE {})
    /\ UNCHANGED parked /\ OnlyAccess

(* runIntegrationEvents: an event moves only the state it was made for. *)
\* mutant
ActivatedAlways(row) == [row EXCEPT !.state = "active"]
Activated(row) == IF row.state = "activating" THEN [row EXCEPT !.state = "active"] ELSE row
DeliverEvent(e) ==
    /\ outbox[e] = "queued"
    /\ outbox' = [outbox EXCEPT ![e] = IF e[1] = "request" THEN "awaiting-decision" ELSE "delivered"]
    /\ topic' = IF e[1] = "topic" /\ topic[e[2]].state = "provisioning"
                THEN [topic EXCEPT ![e[2]].state = "ready"] ELSE topic
    /\ access' = CASE e[1] = "grant" -> [access EXCEPT ![e[2]] = Activated(@)]
                   [] e[1] = "revoke" /\ access[e[2]].state = "revoking" ->
                        [access EXCEPT ![e[2]].state = "revoked"]
                   [] OTHER -> access
    /\ UNCHANGED <<certOk, proxied, topicApi, records, given, parked, produced, patched>>

-----------------------------------------------------------------------------
(* The playground. *)
(* dnMatches: the same parts in any order. *)
Count(s, part) == Cardinality({i \in DOMAIN s : s[i] = part})
DnMatches(subject, principal) ==
    /\ subject # <<>> /\ Len(subject) = Len(principal)
    /\ \A i \in DOMAIN subject : Count(subject, subject[i]) = Count(principal, subject[i])
Usable(i, app, op, subject) ==
    /\ access[i].app = app /\ access[i].state = "active" /\ access[i].op = op
    /\ DnMatches(subject, access[i].principal)

InPartition(p) == {n \in DOMAIN records : records[n].partition = p}
\* mutant
NextOffsetCounted(p) == Cardinality(InPartition(p))
(* MAX(msg_offset) + 1 over what is still kept. *)
NextOffset(p) == IF InPartition(p) = {} THEN 0
                 ELSE Max({records[n].offset : n \in InPartition(p)}) + 1
(* A key hashes to a partition, and records without one go round by the    *)
(* number of records kept.                                                 *)
PartitionFor(key, partitions) == (IF key = -1 THEN Len(records) ELSE key) % partitions
(* The newest KeepRecords of the topic, whatever their partition. *)
Newest(s) == SubSeq(s, IF Len(s) > KeepRecords THEN Len(s) - KeepRecords + 1 ELSE 1, Len(s))

Produce(i, subject, key) ==
    LET s == Stages[1]
        p == PartitionFor(key, topic[s].partitions)
    IN /\ produced < MaxRecords /\ topic[s].state = "ready"
       /\ i \in DOMAIN access /\ access[i].stage = s /\ Usable(i, access[i].app, "write", subject)
       /\ records' = Newest(Append(records, [partition |-> p, offset |-> NextOffset(p), key |-> key]))
       /\ given' = [given EXCEPT ![p] = Max({@, NextOffset(p)})]
       /\ produced' = produced + 1
       /\ UNCHANGED <<topic, certOk, access, outbox, proxied, topicApi, parked, patched>>

(* A consume from an offset of one partition: at most max rows, in the     *)
(* order of their ids.  Nth is the row with n rows found before it.        *)
Found(p, from) == {n \in InPartition(p) : records[n].offset >= from}
Nth(rows, n) == CHOOSE r \in rows : Cardinality({q \in rows : q < r}) = n
Consume(p, from, max) ==
    LET rows == Found(p, from)
        size == IF Cardinality(rows) < max THEN Cardinality(rows) ELSE max
    IN [i \in 1..size |-> records[Nth(rows, i - 1)]]

-----------------------------------------------------------------------------
KafkaInit ==
    /\ topic = [s \in StageSet |-> NoTopic] /\ certOk = [s \in StageSet |-> FALSE]
    /\ access = <<>> /\ outbox = <<>> /\ proxied = {}
    /\ topicApi = [s \in StageSet |-> NoApi]
    /\ records = <<>> /\ given = [p \in 0..(Max(PartitionCounts) - 1) |-> -1]
    /\ parked = Free /\ produced = 0 /\ patched = 0

Deliveries == \E e \in DOMAIN outbox : DeliverEvent(e)
TopicNext ==
    \/ \E def \in Schemas, n \in PartitionCounts : CreateTopic(def, n)
    \/ \E s \in StageSet : \/ StageTopic(s) \/ DeleteTopic(s) \/ PatchTopicBegin(s)
                           \/ CertificateChanges(s) \/ ShareProxy(s) \/ PublishTopicApi(s)
    \/ \E def \in Schemas, n \in PartitionCounts, cert \in BOOLEAN : PatchTopicEnd(n, def, cert)
    \/ RetireTopicApi \/ Deliveries
AccessNext(apps, opsets, plain) ==
    \/ CreateTopic(plain, Min(PartitionCounts)) \/ DeleteTopic(Stages[1]) \/ Deliveries
    \/ SubscribeBegin(Stages[1])
    \/ \E app \in apps, principal \in Principals, ops \in opsets : SubscribeEnd(app, principal, ops)
    \/ \E i \in 1..MaxAccess : RevokeAccess(i)
    \/ \E i \in 1..MaxAccess, d \in {"approved", "rejected"} : DecideAccess(i, d)
BrokerNext(plain) ==
    \/ \E n \in PartitionCounts : CreateTopic(plain, n) \/ PatchTopicEnd(n, plain, FALSE)
    \/ PatchTopicBegin(Stages[1]) \/ Deliveries
    \/ SubscribeBegin(Stages[1]) /\ access = <<>>
    \/ \E principal \in Principals : SubscribeEnd(Publisher, principal, {"write"})
    \/ \E i \in 1..MaxAccess, subject \in Subjects, key \in Keys : Produce(i, subject, key)

(* The whole workspace, every stage of it. *)
KafkaNext ==
    \/ TopicNext
    \/ \E s \in StageSet : SubscribeBegin(s)
    \/ \E app \in Consumers, principal \in Principals, ops \in (SUBSET {"read", "write"}) \ {{}} :
          SubscribeEnd(app, principal, ops)
    \/ \E i \in DOMAIN access : \/ RevokeAccess(i)
                                 \/ \E d \in {"approved", "rejected"} : DecideAccess(i, d)
                                 \/ \E subject \in Subjects, key \in Keys : Produce(i, subject, key)
KafkaSpec == KafkaInit /\ [][KafkaNext]_kvars

-----------------------------------------------------------------------------
(* A grant is decided once: after a revocation, cancellation or rejection  *)
(* it never works again, whatever order the outbox delivers in, and nobody *)
(* but the publisher gets one without the publisher's approval             *)
(* (subscribe, the decision, runIntegrationEvents).                        *)
GrantsFollowDecisions ==
    [][\A i \in DOMAIN access :
         /\ access[i].state \in {"cancelled", "rejected", "revoked"} => access'[i].state = access[i].state
         /\ access[i].state = "revoking" => access'[i].state \in {"revoking", "revoked"}
         /\ access'[i].state = "active" =>
               \/ access[i].app = Publisher
               \/ outbox[<<"request", access[i].request>>] = "approved"]_kvars

(* Reading a partition from any offset gives its records in the order they *)
(* were produced and each offset once, though pruning takes records of     *)
(* every partition (produce, consume).                                     *)
ReadInOrder ==
    \A p \in DOMAIN given, from \in 0..MaxRecords :
        LET read == Consume(p, from, KeepRecords)
        IN \A i \in 1..(Len(read) - 1) : read[i].offset < read[i + 1].offset

(* What consumers are given: access as decided, records in order.          *)
ConsumersGet == GrantsFollowDecisions /\ []ReadInOrder

(* "the partition's next offset" (openspec kafka-playground/spec.md:62):   *)
(* an offset of a partition names one record for good.                     *)
OffsetsGrow ==
    [][\A p \in DOMAIN given : produced' > produced /\ records'[Len(records')].partition = p =>
          records'[Len(records')].offset > given[p]]_kvars
=============================================================================
