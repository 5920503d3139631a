----------------------------- MODULE MCWorkspace -----------------------------
(* The Kafka workspace, the observation of the estate and the outer edge   *)
(* of a gateway, one area at a time; nothing in one is read in another.    *)
EXTENDS Kafka, Monitor, Edge

VARIABLE area

MCStages == <<"test", "prod">>
CnO == <<"CN=a", "O=b">>
MCPrincipals == {CnO}
MCSubjects == {<<"O=b", "CN=a">>, <<"CN=a">>}
NoSchema == [kind |-> "none", name |-> "none", ok |-> TRUE]
MCSchemas == {NoSchema,
    [kind |-> "json", name |-> "s1", ok |-> TRUE], [kind |-> "json", name |-> "s2", ok |-> TRUE],
    [kind |-> "avro", name |-> "s3", ok |-> TRUE], [kind |-> "avro", name |-> "s4", ok |-> FALSE]}
MCKeys == {-1, 0, 1}

Call(op, hs, qs, where) == [operation |-> op, headers |-> hs, query |-> qs, key |-> [in |-> where, name |-> "k"]]
MCCalls == {Call("a", {<<"k", "typed">>, <<"h", "v">>}, {<<"q", "v">>}, "header"),
            Call("b", {<<"h", "v">>, <<"host", "v">>}, {<<"k", "typed">>, <<"q", "v">>}, "query"),
            Call("a", {}, {<<"k", "typed">>}, "none")}

Good(kid) == [kid |-> kid, alg |-> TRUE, window |-> TRUE, iss |-> TRUE, aud |-> TRUE, scope |-> TRUE]
MCPresented == {Good("k1"), Good("k2"), [Good("k1") EXCEPT !.scope = FALSE], [Good("k3") EXCEPT !.alg = FALSE], Good("k3")}
MCNeeds == [d1 |-> {"a", "b"}, d2 |-> {"b", "c"}]

EdgeAreas == {"jwks", "introspection", "tokens", "artifacts", "log"}
Init ==
    /\ area \in {"topics", "grants", "broker", "uptime", "capture", "console"} \cup EdgeAreas
    /\ KafkaInit /\ MonitorInit /\ EdgeInit
    /\ (area # "jwks" => published = {}) /\ (area # "log" => keep = 1) /\ (area # "artifacts" => ceiling = 2)
Next ==
    /\ \/ /\ \/ area = "topics" /\ TopicNext
             \/ area = "grants" /\ AccessNext(Consumers, {{"read"}, {"read", "write"}}, NoSchema)
             \/ area = "broker" /\ BrokerNext(NoSchema)
          /\ UNCHANGED <<mvars, evars>>
       \/ /\ \/ area = "uptime" /\ UptimeNext
             \/ area = "capture" /\ CaptureNext
             \/ area = "console" /\ ConsoleNext
          /\ UNCHANGED <<kvars, evars>>
       \/ /\ \/ area = "jwks" /\ JwksNext
             \/ area = "introspection" /\ IntroNext
             \/ area = "tokens" /\ TokenNext
             \/ area = "artifacts" /\ ArtifactNext
             \/ area = "log" /\ LogNext
          /\ UNCHANGED <<kvars, mvars>>
    /\ UNCHANGED area
vars == <<area, kvars, mvars, evars>>

(* Timers fire and probes come back: each has a timeout of its own. *)
Probing == UNCHANGED <<area, kvars, captureVars, consoleVars, clock, evars>>
(* Time passes, the issuer answers now and then, and the caller retries. *)
OnlyJwks == area = "jwks" /\ UNCHANGED <<area, kvars, mvars, introVars, tokenVars, artifactVars, logVars>>
Fairness ==
    /\ WF_vars(area = "uptime" /\ StartTimers /\ Probing)
    /\ \A c \in Components :
          /\ WF_vars(area = "uptime" /\ ProbeTimer(c) /\ Probing)
          /\ WF_vars(area = "uptime" /\ ProbeEnds(c) /\ Probing)
    /\ WF_vars(OnlyJwks /\ JwksTick) /\ SF_vars(OnlyJwks /\ FetchEnds(TRUE))
    /\ \A t \in Presented : WF_vars(OnlyJwks /\ Present(t))
Spec == Init /\ [][Next]_vars /\ Fairness
=============================================================================
