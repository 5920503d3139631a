------------------------------- MODULE Monitor -------------------------------
(***************************************************************************)
(* The health screen and the console beside it: the probes of the uptime   *)
(* monitor on their timers (control-plane/src/uptime.ts, api/health.ts),   *)
(* the windows in which gateways log bodies (api/logs.ts, config-build.ts, *)
(* data-plane/src/accesslog.ts), and the calls somebody makes from the     *)
(* console with their history (playground.ts, api/playground.ts).          *)
(***************************************************************************)
EXTENDS Integers, Sequences, FiniteSets, SequencesExt, FiniteSetsExt

CONSTANTS
    Boot, Late,      \* gateways registered before and after the monitor starts
    MaxFlips,        \* bound on how often a gateway comes or goes
    Lengths,         \* lengths of a window somebody may ask for
    MaxWindows, MaxMinute, \* bounds
    RatePerMin, HistoryPerResource,
    Calls, Answers,  \* what somebody may send (the key is the vault's alone), and what comes back
    MaxCalls         \* bound

ASSUME MonitorAssumption ==
    /\ Boot \cap Late = {} /\ Lengths \subseteq 1..60
    /\ {MaxFlips, MaxWindows, MaxMinute, RatePerMin, HistoryPerResource, MaxCalls} \subseteq Nat
    /\ \A call \in Calls : "key" \notin {p[2] : p \in call.headers \cup call.query}

VARIABLES
    registered, \* gateways with an address in the environment
    answers,    \* gateways that answer at theirs
    replicas,   \* gateways with a replica that polls
    timers,     \* gateways with probes on a timer
    latest,     \* component -> its last item, "none" before the first
    probing,    \* probes in flight: component -> outcomes still to be stored
    flips,
    windows,    \* body_capture rows
    asked,      \* the POST that waits for its body, or 0
    document,   \* logBodiesUntil, as the gateway holds it
    clock,      \* minutes
    logged,     \* minutes in which the gateway logged a body
    rate,       \* the user's window: [startedAt, count]
    sending,    \* calls composed and not answered yet
    history     \* playground_call rows of one user and API, newest last

uptimeVars == <<registered, answers, replicas, timers, latest, probing, flips>>
captureVars == <<windows, asked, document, logged>>
consoleVars == <<rate, sending, history>>
mvars == <<uptimeVars, captureVars, consoleVars, clock>>

-----------------------------------------------------------------------------
(* The uptime monitor. *)
Gateways == Boot \cup Late
Components == {"fleet", "gateway"} \X Gateways

(* checkFleet and checkGatewayAddress: a gateway that is gone, or has no   *)
(* replica or address, is disabled.                                        *)
Check(c) ==
    IF c[2] \notin registered THEN "disabled"
    ELSE IF c[2] \in (IF c[1] = "gateway" THEN answers ELSE replicas) THEN "up" ELSE "down"

GatewayChanges(g) ==
    /\ flips < MaxFlips /\ flips' = flips + 1
    /\ \/ registered' = (registered \ {g}) \cup ({g} \ registered) /\ UNCHANGED <<answers, replicas>>
       \/ answers' = (answers \ {g}) \cup ({g} \ answers) /\ UNCHANGED <<registered, replicas>>
       \/ replicas' = (replicas \ {g}) \cup ({g} \ replicas) /\ UNCHANGED <<registered, answers>>
    /\ UNCHANGED <<timers, latest, probing>>

(* runProbe: what a check saw is stored when it comes back, and checks of  *)
(* one component may overlap.                                              *)
Begin(cs) == probing' = [c \in Components |-> IF c \in cs THEN probing[c] \cup {Check(c)} ELSE probing[c]]
\* mutant: the first observation stands
ItemKept(c, outcome) == IF latest[c] = "none" THEN outcome ELSE latest[c]
Item(c, outcome) == outcome
ProbeTimer(c) ==
    /\ c[2] \in timers /\ Begin({c})
    /\ UNCHANGED <<registered, answers, replicas, timers, latest, flips>>
ProbeEnds(c) ==
    /\ \E outcome \in probing[c] :
          /\ latest' = [latest EXCEPT ![c] = Item(c, outcome)]
          /\ probing' = [probing EXCEPT ![c] = @ \ {outcome}]
    /\ UNCHANGED <<registered, answers, replicas, timers, flips>>

(* The probe set is rebuilt from the database on each call. *)
Probes == {"fleet", "gateway"} \X registered
Warming == \E c \in Probes : latest[c] = "none"
(* start: only what is registered then gets a timer. *)
StartTimers ==
    /\ timers = {} /\ timers' = registered /\ Begin(Probes)
    /\ UNCHANGED <<registered, answers, replicas, latest, flips>>
(* GET /api/health/uptime: a refresh, or something not probed yet. *)
OpenHealth(refresh) ==
    /\ (refresh \/ Warming) /\ Begin(Probes)
    /\ UNCHANGED <<registered, answers, replicas, timers, latest, flips>>

(* snapshot and rollup. *)
Shown == {c \in Probes : latest[c] # "none"}
Verdict ==
    LET up == {c \in Shown : latest[c] = "up"}
        down == {c \in Shown : latest[c] = "down"}
    IN IF up = {} /\ down = {} THEN "unknown"
       ELSE IF down = {} THEN "healthy"
       ELSE IF up = {} THEN "down" ELSE "degraded"

UptimeInit ==
    /\ registered = Boot /\ answers = Gateways /\ replicas = Gateways /\ timers = {} /\ flips = 0
    /\ latest = [c \in Components |-> "none"] /\ probing = [c \in Components |-> {}]
UptimeNext ==
    /\ \/ \E g \in Gateways : GatewayChanges(g)
       \/ \E c \in Components : ProbeTimer(c) \/ ProbeEnds(c)
       \/ StartTimers
       \/ \E refresh \in BOOLEAN : OpenHealth(refresh)
    /\ UNCHANGED <<captureVars, consoleVars, clock>>

-----------------------------------------------------------------------------
(* Body capture. *)
Tick == clock < MaxMinute /\ clock' = clock + 1
LiveWindow(w) == ~w.revoked /\ w.until > clock
Reported == {w \in Range(windows) : LiveWindow(w)}

(* POST /api/logs/body-capture: one window at a time, looked for after the *)
(* body has arrived.                                                       *)
\* mutant: looked for among the windows there were when the request came
OpenBefore == \E i \in 1..(asked - 1) : LiveWindow(windows[i])
OpenNow == \E i \in DOMAIN windows : LiveWindow(windows[i])
CaptureBegin ==
    /\ asked = 0 /\ asked' = Len(windows) + 1 /\ UNCHANGED <<windows, document, logged, clock>>
CaptureEnd(minutes) ==
    /\ asked > 0 /\ asked' = 0
    /\ windows' = IF OpenNow \/ Len(windows) >= MaxWindows THEN windows
                  ELSE Append(windows, [until |-> clock + minutes, revoked |-> FALSE])
    /\ UNCHANGED <<document, logged, clock>>
(* The other administrator's, in one step. *)
CaptureOther(minutes) ==
    /\ ~(\E i \in DOMAIN windows : LiveWindow(windows[i])) /\ Len(windows) < MaxWindows
    /\ windows' = Append(windows, [until |-> clock + minutes, revoked |-> FALSE])
    /\ UNCHANGED <<asked, document, logged, clock>>
(* DELETE /api/logs/body-capture/:id. *)
CaptureClose(i) ==
    /\ i \in DOMAIN windows /\ windows' = [windows EXCEPT ![i].revoked = TRUE]
    /\ UNCHANGED <<asked, document, logged, clock>>

(* logBodiesUntilFor, and the poll that brings it. *)
LogBodiesUntil == IF Reported = {} THEN 0 ELSE Max({w.until : w \in Reported})
PollCapture == document' = LogBodiesUntil /\ UNCHANGED <<windows, asked, logged, clock>>
(* The gateway judges the minute by its own clock. *)
\* mutant: a window is open for as long as the document names one
MayLogBodyStill == document > 0
MayLogBody == document > clock
LogRequest ==
    /\ logged' = IF MayLogBody THEN logged \cup {clock} ELSE logged
    /\ UNCHANGED <<windows, asked, document, clock>>

CaptureInit == windows = <<>> /\ asked = 0 /\ document = 0 /\ logged = {}
CaptureNext ==
    /\ \/ CaptureBegin \/ PollCapture \/ LogRequest
       \/ \E n \in Lengths : CaptureEnd(n) \/ CaptureOther(n)
       \/ \E i \in 1..MaxWindows : CaptureClose(i)
       \/ Tick /\ UNCHANGED captureVars
    /\ UNCHANGED <<uptimeVars, consoleVars>>

-----------------------------------------------------------------------------
(* The console. *)
(* resolveKey and composeCall: a call names the operation and how the      *)
(* route wants its key; headers and query are sets of <<name, value>>.     *)
Blocked == {"host", "content-length", "connection", "upgrade", "te", "proxy-x"}
KeyName(call) == call.key.name
Typed(pairs, drop) == {p \in pairs : p[1] \notin drop}
SafeHeaders(call) == Typed(call.headers, Blocked \cup (IF call.key.in = "header" THEN {KeyName(call)} ELSE {}))
(* The key replaces whatever the caller typed under its name. *)
Sent(call) ==
    LET vault == <<KeyName(call), "key">>
    IN [headers |-> SafeHeaders(call) \cup (IF call.key.in = "header" THEN {vault} ELSE {}),
        query |-> IF call.key.in = "query" THEN Typed(call.query, {KeyName(call)}) \cup {vault} ELSE call.query]
\* mutant: what was sent is what is reported
ReportableAll(call) == Sent(call).query
ReportableSearch(call) ==
    IF call.key.in = "query" THEN Typed(Sent(call).query, {KeyName(call)}) ELSE Sent(call).query
Reportable(call) == [operation |-> call.operation, headers |-> SafeHeaders(call), query |-> ReportableSearch(call)]

(* takeRateSlot: a window opens with the first call after the last ended. *)
SlotFree == clock > rate.startedAt \/ rate.count < RatePerMin
Send(call) ==
    /\ Cardinality(sending) + Len(history) < MaxCalls /\ SlotFree
    /\ rate' = IF clock > rate.startedAt THEN [startedAt |-> clock, count |-> 1]
               ELSE [rate EXCEPT !.count = @ + 1]
    /\ sending' = sending \cup {call} /\ UNCHANGED <<history, clock>>

(* recordHistory: a repeat of the newest call replaces it, and only the    *)
(* newest HistoryPerResource stay.                                         *)
Row(call, answer) == [request |-> Reportable(call), status |-> answer]
\* mutant: the oldest rows stay
CappedOldest(rows) == IF Len(rows) > HistoryPerResource THEN SubSeq(rows, 1, HistoryPerResource) ELSE rows
Capped(rows) == IF Len(rows) > HistoryPerResource
                THEN SubSeq(rows, Len(rows) - HistoryPerResource + 1, Len(rows)) ELSE rows
Recorded(rows, row) ==
    LET kept == IF rows # <<>> /\ Last(rows).request = row.request THEN Front(rows) ELSE rows
    IN Capped(Append(kept, row))
Answer(call, answer) ==
    /\ call \in sending /\ sending' = sending \ {call}
    /\ history' = Recorded(history, Row(call, answer)) /\ UNCHANGED <<rate, clock>>
(* DELETE one entry, or all of them. *)
Forget(i) == /\ i \in DOMAIN history /\ history' = RemoveAt(history, i) /\ UNCHANGED <<rate, sending, clock>>
ForgetAll == /\ history # <<>> /\ history' = <<>> /\ UNCHANGED <<rate, sending, clock>>

ConsoleInit == rate = [startedAt |-> -1, count |-> 0] /\ sending = {} /\ history = <<>>
ConsoleNext ==
    /\ \/ \E call \in Calls : Send(call) \/ \E a \in Answers : Answer(call, a)
       \/ \E i \in 1..HistoryPerResource : Forget(i)
       \/ ForgetAll
       \/ Tick /\ UNCHANGED consoleVars
    /\ UNCHANGED <<uptimeVars, captureVars>>

MonitorInit == UptimeInit /\ CaptureInit /\ ConsoleInit /\ clock = 0
MonitorNext == UptimeNext \/ CaptureNext \/ ConsoleNext
MonitorSpec == MonitorInit /\ [][MonitorNext]_mvars

-----------------------------------------------------------------------------
(* A gateway that was there when the monitor started, stays registered and *)
(* stops answering is in time part of the environment's verdict, though    *)
(* probes that saw it answer come back later (runProbe, start, rollup).    *)
OutageIsShown ==
    \A g \in Boot : <>[](timers # {} /\ g \in timers /\ g \in registered /\ g \notin answers)
                       => <>[](Verdict \in {"degraded", "down"})

(* "a set captured at boot ... would never notice one they added"          *)
(* (uptime.ts:124): the same for a gateway registered later.               *)
LateOutageIsShown ==
    \A g \in Late : <>[](timers # {} /\ g \in registered /\ g \notin answers /\ <<"gateway", g>> \in Shown)
                       => <>[](Verdict \in {"degraded", "down"})

(* No body is logged in a minute that no window covered, although the      *)
(* gateway may not have polled since and a closed window ends sooner; and  *)
(* two administrators never hold two windows.                              *)
CaptureEnds ==
    /\ \A m \in logged : \E i \in DOMAIN windows : m < windows[i].until
    /\ document > 0 => \E i \in DOMAIN windows : windows[i].until = document
    /\ Cardinality({i \in DOMAIN windows : LiveWindow(windows[i])}) <= 1

(* The key from the vault is in no part of what the console reports or     *)
(* keeps, whichever way the route asks for it and whatever the caller      *)
(* typed beside it; and the newest answer is on record.                    *)
KeyStaysInside ==
    /\ \A i \in DOMAIN history : "key" \notin {p[2] : p \in history[i].request.headers \cup history[i].request.query}
    /\ Len(history) <= HistoryPerResource
AnswerIsOnRecord ==
    [][\A call \in Calls : call \in sending /\ call \notin sending' =>
          history' # <<>> /\ Last(history').request = Reportable(call)]_mvars

(* What the monitor keeps of traffic and of calls is what it says it keeps:*)
(* no body from outside a window, no key, and no answer left out.          *)
KeptAsSaid == [](CaptureEnds /\ KeyStaysInside) /\ AnswerIsOnRecord
=============================================================================
