----------------------------- MODULE Telemetry -----------------------------
(***************************************************************************)
(* Telemetry from the minute counters of an instance to the rollup rows    *)
(* (data-plane/src/telemetry.ts, control-plane/src/telemetry.ts and the    *)
(* poll that joins them).  A report is absolute per (window, series); the  *)
(* control plane replaces what it has, acknowledges the windows that have  *)
(* closed by its clock, and writes on a timer.                             *)
(*                                                                         *)
(* Every key of buffer, runsSeen and rollup holds the instance, so one     *)
(* instance is modelled, with the runs (processes) it goes through.  A     *)
(* series is counted by its requests; sums and histograms travel with the  *)
(* count, in the same record.                                              *)
(***************************************************************************)
EXTENDS Naturals, Sequences, FiniteSets, FiniteSetsExt

CONSTANTS
    Series,            \* (resource, subscription, outcome, status)
    Overflow,          \* the series past the ceiling
    Settings,          \* [series, windows] ceilings a document may carry
    MaxRunsPerWindow,
    RunMemory,         \* minutes runsSeen outlives its window
    Retention,         \* minutes a rollup row is kept
    LastMinute,        \* bound
    LastRun,           \* bound: restarts
    MaxRecorded,       \* bound: requests
    MaxTrouble         \* bound: failures of every kind

ASSUME TelemetryAssumption ==
    /\ IsFiniteSet(Series) /\ Overflow \notin Series
    /\ Settings \subseteq [series : Nat, windows : Nat \ {0}] /\ Settings # {}
    /\ {MaxRunsPerWindow, RunMemory, Retention, LastMinute, LastRun,
        MaxRecorded, MaxTrouble} \subseteq Nat

VARIABLES
    minute,
    run,         \* the instance's runId
    limits,      \* its TelemetryOptions
    batch,       \* batchSize
    held,        \* window -> series -> count; all zero is no window
    tpoll,       \* the poll in flight
    strays,      \* reports whose instance gave up waiting
    buffer,      \* <<run, window>> -> series -> count
    runsSeen,    \* window -> runs
    rollup,      \* telemetry_rollup, as buffer
    trouble,
    recorded,    \* history: <<run, window>> -> series -> requests counted
    kept,        \* history: <<run, window>> -> what was acknowledged and cleared
    excused      \* history: <<run, window>> something gave up on, on purpose

teleVars == <<minute, run, limits, batch, held, tpoll, strays, buffer, runsSeen,
           rollup, trouble, recorded, kept, excused>>

-----------------------------------------------------------------------------
Minutes == 0..LastMinute
Runs == 0..LastRun
Cells == [Series \cup {Overflow} -> Nat]
Nothing == [s \in Series \cup {Overflow} |-> 0]
FoldedRun == LastRun + 1 \* OVERFLOW_RUN, no run's own id
Slots == (0..FoldedRun) \X Minutes
Counted(c) == MapThenSumSet(LAMBDA s : c[s], DOMAIN c)
AllRecorded == MapThenSumSet(LAMBDA x : Counted(recorded[x]), Runs \X Minutes)
Windows(h) == {w \in Minutes : h[w] # Nothing}
Quiet == [stage |-> "idle", run |-> 0, report |-> [w \in Minutes |-> Nothing],
          accepted |-> {}]
Report == [run : Runs, report : [Minutes -> Cells]]

TelemetryTypeOK ==
    /\ minute \in Minutes /\ run \in Runs
    /\ limits \in Settings /\ batch \in 1..limits.windows
    /\ held \in [Minutes -> Cells]
    /\ tpoll.stage \in {"idle", "sent", "answered"}
    /\ tpoll.report \in [Minutes -> Cells] /\ tpoll.accepted \subseteq Minutes
    /\ strays \subseteq Report
    /\ {buffer, rollup} \subseteq [Slots -> Cells]
    /\ runsSeen \in [Minutes -> SUBSET Runs]
    /\ trouble \in 0..MaxTrouble
    /\ {recorded, kept} \subseteq [Runs \X Minutes -> Cells]
    /\ excused \subseteq Runs \X Minutes

TelemetryInit ==
    /\ minute = 0 /\ run = 0
    /\ limits \in Settings /\ batch = limits.windows
    /\ held = [w \in Minutes |-> Nothing]
    /\ tpoll = Quiet /\ strays = {}
    /\ buffer = [x \in Slots |-> Nothing]
    /\ runsSeen = [w \in Minutes |-> {}]
    /\ rollup = [x \in Slots |-> Nothing]
    /\ trouble = 0
    /\ recorded = [x \in Runs \X Minutes |-> Nothing]
    /\ kept = [x \in Runs \X Minutes |-> Nothing]
    /\ excused = {}

-----------------------------------------------------------------------------
(* The instance.                                                           *)
SeriesHeld(h) == Cardinality({x \in Minutes \X DOMAIN Nothing : h[x[1]][x[2]] > 0})

OneMore(f, place, key) == [f EXCEPT ![place][key] = @ + 1]
(* record: counted in the minute it completes; a series that would be one  *)
(* too many is folded.                                                     *)
Record(s) ==
    LET full == held[minute][s] = 0 /\ SeriesHeld(held) >= limits.series
        key == IF full THEN Overflow ELSE s
    IN  /\ AllRecorded < MaxRecorded
        /\ held' = OneMore(held, minute, key)
        /\ recorded' = OneMore(recorded, <<run, minute>>, key)
        /\ UNCHANGED <<minute, run, limits, batch, tpoll, strays, buffer,
                       runsSeen, rollup, trouble, kept, excused>>

(* snapshot: past batchSize the oldest windows are dropped for good.       *)
Newest(S, n) == {w \in S : Cardinality({v \in S : v > w}) < n}
SendReport ==
    LET sent == Newest(Windows(held), batch)
        h == [w \in Minutes |-> IF w \in sent THEN held[w] ELSE Nothing]
    IN  /\ tpoll.stage = "idle"
        /\ held' = h
        /\ excused' = excused \cup ({run} \X (Windows(held) \ sent))
        /\ tpoll' = [Quiet EXCEPT !.stage = "sent", !.run = run, !.report = h]
        /\ UNCHANGED <<minute, run, limits, batch, strays, buffer, runsSeen,
                       rollup, trouble, recorded, kept>>

Plus(c, d) == [s \in DOMAIN Nothing |-> c[s] + d[s]]
(* clearAccepted, once the answer is read.                                 *)
Acknowledge ==
    /\ tpoll.stage = "answered"
    /\ held' = [w \in Minutes |-> IF w \in tpoll.accepted THEN Nothing ELSE held[w]]
    /\ batch' = limits.windows
    /\ kept' = [x \in Runs \X Minutes |->
                  IF x[1] = run /\ x[2] \in tpoll.accepted
                  THEN Plus(kept[x], tpoll.report[x[2]]) ELSE kept[x]]
    /\ tpoll' = Quiet
    /\ UNCHANGED <<minute, run, limits, strays, buffer, runsSeen, rollup,
                   trouble, recorded, excused>>

(* A document with other telemetry ceilings is activated.                  *)
Resize ==
    \E l \in Settings \ {limits} :
        /\ limits' = l
        /\ batch' = IF batch < limits.windows THEN Min({batch, l.windows})
                                              ELSE l.windows
        /\ UNCHANGED <<minute, run, held, tpoll, strays, buffer, runsSeen,
                       rollup, trouble, recorded, kept, excused>>

-----------------------------------------------------------------------------
(* The control plane.  runFor: a run past the ceiling shares one key.      *)
EffectiveRun(w, r) ==
    IF r \in runsSeen[w] \/ Cardinality(runsSeen[w]) < MaxRunsPerWindow
    THEN r ELSE FoldedRun

(* accept: a key's cell is replaced, except that folded runs add up while  *)
(* they are in the buffer - at every report, the same window's too, so the *)
(* sum is cut off at Many, more than was ever counted.                     *)
Many == MaxRecorded + 1
BufferedAdding(m) == \* mutant: a re-sent window is added to the first
    [x \in Slots |->
       IF x[2] \in Windows(m.report) /\ x[1] = EffectiveRun(x[2], m.run)
       THEN Plus(buffer[x], m.report[x[2]])
       ELSE buffer[x]]

Buffered(m) ==
    [x \in Slots |->
       IF x[2] \in Windows(m.report) /\ x[1] = EffectiveRun(x[2], m.run)
       THEN [s \in DOMAIN Nothing |->
               IF m.report[x[2]][s] = 0 THEN buffer[x][s]
               ELSE IF x[1] = FoldedRun THEN Min({Many, buffer[x][s] + m.report[x[2]][s]})
                                        ELSE m.report[x[2]][s]]
       ELSE buffer[x]]

Seen(m) ==
    [w \in Minutes |-> IF w \in Windows(m.report) /\ EffectiveRun(w, m.run) # FoldedRun
                       THEN runsSeen[w] \cup {m.run} ELSE runsSeen[w]]

ClosedUpToNow(m) == {w \in Windows(m.report) : w <= minute} \* mutant: <= for <
Closed(m) == {w \in Windows(m.report) : w < minute}

IntakeReport ==
    /\ tpoll.stage = "sent"
    /\ buffer' = Buffered(tpoll)
    /\ runsSeen' = Seen(tpoll)
    /\ tpoll' = [tpoll EXCEPT !.stage = "answered", !.accepted = Closed(tpoll)]
    /\ excused' = excused \cup
         {<<tpoll.run, w>> : w \in {v \in Windows(tpoll.report) :
                                      EffectiveRun(v, tpoll.run) = FoldedRun}}
    /\ UNCHANGED <<minute, run, limits, batch, held, strays, rollup, trouble,
                   recorded, kept>>

(* A report handled after its instance gave up on it.                      *)
IntakeStray ==
    \E m \in strays :
        /\ buffer' = Buffered(m)
        /\ runsSeen' = Seen(m)
        /\ strays' = strays \ {m}
        /\ excused' = excused \cup ({m.run} \X Windows(m.report))
        /\ UNCHANGED <<minute, run, limits, batch, held, tpoll, rollup, trouble,
                       recorded, kept>>

Remembered == [w \in Minutes |-> IF w + RunMemory < minute THEN {} ELSE runsSeen[w]]

(* flushNow: the buffer is emptied, then written over the rows.            *)
FlushRows ==
    /\ rollup' = [x \in Slots |-> [s \in DOMAIN Nothing |->
                    IF buffer[x][s] > 0 THEN buffer[x][s] ELSE rollup[x][s]]]
    /\ buffer' = [x \in Slots |-> Nothing]
    /\ runsSeen' = Remembered
    /\ <<buffer, runsSeen>>' # <<buffer, runsSeen>>
    /\ UNCHANGED <<minute, run, limits, batch, held, tpoll, strays, trouble,
                   recorded, kept, excused>>

(* The hourly prune job, as far as these rows go.                          *)
PruneRows ==
    LET old == {x \in Slots : x[2] + Retention < minute /\ rollup[x] # Nothing}
    IN  /\ old # {}
        /\ rollup' = [x \in Slots |-> IF x \in old THEN Nothing ELSE rollup[x]]
        /\ excused' = excused \cup {x \in Runs \X Minutes : x[2] + Retention < minute}
        /\ UNCHANGED <<minute, run, limits, batch, held, tpoll, strays, buffer,
                       runsSeen, trouble, recorded, kept>>

NextMinute ==
    /\ minute < LastMinute
    /\ minute' = minute + 1
    /\ UNCHANGED <<run, limits, batch, held, tpoll, strays, buffer, runsSeen,
                   rollup, trouble, recorded, kept, excused>>

-----------------------------------------------------------------------------
Trouble == trouble < MaxTrouble /\ trouble' = trouble + 1

(* 413: the batch is halved; nothing is cleared.                           *)
TooLarge ==
    /\ Trouble
    /\ tpoll.stage = "sent"
    /\ batch' = Max({1, batch \div 2})
    /\ tpoll' = Quiet
    /\ UNCHANGED <<minute, run, limits, held, strays, buffer, runsSeen, rollup,
                   recorded, kept, excused>>

(* The fetch fails or times out; the report is lost, or still under way,   *)
(* or was taken in and the answer lost.                                    *)
ReportFails ==
    /\ Trouble
    /\ tpoll.stage # "idle"
    /\ \/ strays' = strays
       \/ tpoll.stage = "sent" /\ strays' = strays \cup
             {[run |-> tpoll.run, report |-> tpoll.report]}
    /\ tpoll' = Quiet
    /\ UNCHANGED <<minute, run, limits, batch, held, buffer, runsSeen, rollup,
                   recorded, kept, excused>>

RestartInstance ==
    /\ run < LastRun
    /\ run' = run + 1
    /\ excused' = excused \cup ({run} \X Windows(held))
    /\ held' = [w \in Minutes |-> Nothing]
    /\ batch' = limits.windows
    /\ strays' = strays \cup (IF tpoll.stage = "sent"
                              THEN {[run |-> run, report |-> tpoll.report]} ELSE {})
    /\ tpoll' = Quiet
    /\ UNCHANGED <<minute, limits, buffer, runsSeen, rollup, trouble, recorded,
                   kept>>

Unwritten == {x \in Runs \X Minutes : buffer[x] # Nothing}

FlushRowsFails ==
    /\ Trouble
    /\ Unwritten # {}
    /\ excused' = excused \cup Unwritten
    /\ buffer' = [x \in Slots |-> Nothing]
    /\ UNCHANGED <<minute, run, limits, batch, held, tpoll, strays, runsSeen,
                   rollup, recorded, kept>>

ControlPlaneCrashes ==
    /\ Trouble
    /\ excused' = excused \cup Unwritten
    /\ buffer' = [x \in Slots |-> Nothing]
    /\ runsSeen' = [w \in Minutes |-> {}]
    /\ UNCHANGED <<minute, run, limits, batch, held, tpoll, strays, rollup,
                   recorded, kept>>

TelemetryNext ==
    \/ \E s \in Series : Record(s)
    \/ SendReport \/ IntakeReport \/ Acknowledge \/ TooLarge \/ ReportFails
    \/ IntakeStray \/ FlushRows \/ FlushRowsFails \/ ControlPlaneCrashes
    \/ RestartInstance \/ Resize \/ PruneRows \/ NextMinute

TelemetrySpec == TelemetryInit /\ [][TelemetryNext]_teleVars

-----------------------------------------------------------------------------
(* What the estate's screens show of a run's window once all is written.   *)
Figure(r, w) ==
    [s \in DOMAIN Nothing |-> IF buffer[<<r, w>>][s] > 0 THEN buffer[<<r, w>>][s] ELSE rollup[<<r, w>>][s]]
Within(c, d) == \A s \in DOMAIN Nothing : c[s] <= d[s]

(* A report that is sent again, late or out of order never makes a window  *)
(* of an unfolded run larger, in any series, than what that run counted.   *)
NeverInflated ==
    \A r \in Runs, w \in Minutes : Within(Figure(r, w), recorded[<<r, w>>])

(* What was acknowledged, and so cleared on the instance, stays on the     *)
(* control plane: the row never shows less, unless a failed flush, a       *)
(* crash, a stray report or retention took it.                             *)
AcknowledgedIsKept ==
    \A r \in Runs, w \in Minutes :
        <<r, w>> \in excused \/ Within(kept[<<r, w>>], Figure(r, w))

(* A window's figure stays between what was acknowledged and what was      *)
(* counted.                                                                *)
FiguresHold == TelemetryTypeOK /\ NeverInflated /\ AcknowledgedIsKept

(* "requests sent = requestsTotal = the control plane's sum"               *)
(* (data-plane/src/telemetry.ts, record): a window that was acknowledged   *)
(* and that nothing gave up on shows every request counted in it.          *)
TotalsAgree ==
    \A r \in Runs, w \in Minutes :
        (kept[<<r, w>>] # Nothing /\ <<r, w>> \notin excused)
        => Figure(r, w) = recorded[<<r, w>>]
=============================================================================
