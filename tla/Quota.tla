------------------------------- MODULE Quota -------------------------------
(***************************************************************************)
(* Fleet-wide quota (data-plane/src/quota.ts, control-plane/src/quota.ts): *)
(* every instance counts what it admits, hands the count over with its     *)
(* poll and is answered with the fleet's total.  The poll is taken from    *)
(* config-client.ts and api/gateway.ts as far as the counters are          *)
(* concerned.  One environment; a counter's key is a subscription and the  *)
(* fixed window the call fell into.                                        *)
(***************************************************************************)
EXTENDS Naturals, Sequences, FiniteSets, SequencesExt, Sublists

CONSTANTS
    Instances,
    Consumers,   \* (subscription, scope) pairs that share one Allowance
    Allowance,   \* the policy's calls per window
    MaxKeys,     \* counters an instance remembers
    MaxEntries,  \* counters the control plane accumulates and answers with
    LastWindow,  \* bound: windows 0 .. LastWindow
    MaxAdmitted, \* bound: calls admitted in all
    MaxMishaps   \* bound: failures of every kind

ASSUME QuotaAssumption ==
    /\ IsFiniteSet(Instances) /\ IsFiniteSet(Consumers)
    /\ {Allowance, LastWindow, MaxAdmitted, MaxMishaps} \subseteq Nat
    /\ {MaxKeys, MaxEntries} \subseteq Nat \ {0}

VARIABLES
    quotaWindow,      \* the open window
    counters,    \* instance -> its counters' keys, least recently touched first,
                 \* and their figures; 0 where there is no counter
    qpoll,       \* instance -> the poll in flight
    late,        \* reports whose instance gave up waiting, still on the wire
    pending,     \* QuotaService.pending; 0 is no entry
    usage,       \* usage_counter rows; 0 is no row
    newer,       \* pairs of rows' keys, the first with the later updated_at
    mishaps,
    admitted,    \* history: calls let through, per key
    lost,        \* history: admitted calls no counter holds any more
    disturbed    \* history: keys a mishap or a ceiling has touched

qvars == <<quotaWindow, counters, qpoll, late, pending, usage, newer, mishaps,
           admitted, lost, disturbed>>

-----------------------------------------------------------------------------
Keys == Consumers \X (0..LastWindow)
Live(k) == k[2] = quotaWindow
Counts == [Keys -> Nat]
Zero == [k \in Keys |-> 0]
f ++ g == [k \in Keys |-> f[k] + g[k]]
Tally(f) == Cardinality(UNION {{x} \X (1..f[x]) : x \in DOMAIN f})
Total(g) == [k \in Keys |-> Tally([i \in Instances |-> g[i][k]])]
UpTo(S, n) == IF Cardinality(S) <= n THEN {S} ELSE {T \in SUBSET S : Cardinality(T) = n}

NoCounters == [order |-> <<>>, delta |-> Zero, aggregate |-> Zero]
NoPoll == [stage |-> "idle", deltas |-> Zero, told |-> {}, totals |-> Zero]

QuotaTypeOK ==
    /\ quotaWindow \in 0..LastWindow
    /\ counters \in [Instances -> [order : Seq(Keys), delta : Counts, aggregate : Counts]]
    /\ \A i \in Instances : Len(counters[i].order) <= MaxKeys
    /\ qpoll \in [Instances -> [stage : {"idle", "sent", "answered"}, deltas : Counts,
                                told : SUBSET Keys, totals : Counts]]
    /\ {late, pending, usage, admitted, lost} \subseteq Counts
    /\ Cardinality({k \in Keys : pending[k] > 0}) <= MaxEntries
    /\ newer \subseteq {k \in Keys : usage[k] > 0} \X {k \in Keys : usage[k] > 0}
    /\ mishaps \in 0..MaxMishaps
    /\ disturbed \subseteq Keys

QuotaInit ==
    /\ quotaWindow = 0
    /\ counters = [i \in Instances |-> NoCounters]
    /\ qpoll = [i \in Instances |-> NoPoll]
    /\ late = Zero /\ pending = Zero /\ usage = Zero /\ newer = {}
    /\ mishaps = 0 /\ admitted = Zero /\ lost = Zero /\ disturbed = {}

-----------------------------------------------------------------------------
(* An instance's counters.                                                 *)
Has(c, k) == k \in Range(c.order)

(* counter(): found or made, and moved to the young end; the least         *)
(* recently touched one makes room if the map is full.                     *)
OldestGone(c) ==
    LET k == Head(c.order)
    IN  [order |-> Tail(c.order), delta |-> [c.delta EXCEPT ![k] = 0],
         aggregate |-> [c.aggregate EXCEPT ![k] = 0]]
Made(c, k) ==
    LET d == IF Len(c.order) >= MaxKeys THEN OldestGone(c) ELSE c
    IN  [order |-> Append(d.order, k), delta |-> [d.delta EXCEPT ![k] = 0],
         aggregate |-> [d.aggregate EXCEPT ![k] = 0]]
Touched(c, k) ==
    IF Has(c, k) THEN [c EXCEPT !.order = Append(Only(@, Keys \ {k}), k)] ELSE Made(c, k)

(* What eviction and sweep throw away is counted nowhere else, and what    *)
(* the instance knew of the fleet goes with it.                            *)
Gone(c, d) == [k \in Keys |-> c.delta[k] - d.delta[k]]
Forgotten(c, d) ==
    {k \in Keys : Live(k) /\ Has(c, k) /\ (~Has(d, k) \/ d.delta[k] < c.delta[k])}

(* check: a call that is refused leaves the delta as it is. *)
CheckOneMore(i, s) == \* mutant: refused only past the allowance
    LET k == <<s, quotaWindow>>
        c == Touched(counters[i], k)
        ok == c.aggregate[k] + c.delta[k] <= Allowance
    IN  /\ ok => Tally(admitted) < MaxAdmitted
        /\ counters' = [counters EXCEPT ![i] = IF ok THEN [c EXCEPT !.delta[k] = @ + 1] ELSE c]
        /\ admitted' = IF ok THEN [admitted EXCEPT ![k] = @ + 1] ELSE admitted
        /\ lost' = lost ++ Gone(counters[i], c)
        /\ disturbed' = disturbed \cup Forgotten(counters[i], c)
        /\ UNCHANGED <<quotaWindow, qpoll, late, pending, usage, newer, mishaps>>

QuotaCheck(i, s) ==
    LET k == <<s, quotaWindow>>
        c == Touched(counters[i], k)
        ok == c.aggregate[k] + c.delta[k] < Allowance
    IN  /\ ok => Tally(admitted) < MaxAdmitted
        /\ counters' = [counters EXCEPT ![i] = IF ok THEN [c EXCEPT !.delta[k] = @ + 1] ELSE c]
        /\ admitted' = IF ok THEN [admitted EXCEPT ![k] = @ + 1] ELSE admitted
        /\ lost' = lost ++ Gone(counters[i], c)
        /\ disturbed' = disturbed \cup Forgotten(counters[i], c)
        /\ UNCHANGED <<quotaWindow, qpoll, late, pending, usage, newer, mishaps>>

(* takeDeltas: zeroed as they are read into the poll's body, up to the     *)
(* wire's cap; the rest waits for the next poll.                           *)
Reporting(c, T) == [k \in Keys |-> IF k \in T THEN c.delta[k] ELSE 0]
TakenKept(c, T) == c \* mutant: zeroed only once the poll is answered
Taken(c, T) == [c EXCEPT !.delta = [k \in Keys |-> IF k \in T THEN 0 ELSE c.delta[k]]]

QuotaSend(i) ==
    /\ qpoll[i].stage = "idle"
    /\ \E T \in UpTo({k \in Keys : counters[i].delta[k] > 0}, MaxEntries) :
          /\ qpoll' = [qpoll EXCEPT ![i] = [stage |-> "sent", deltas |-> Reporting(counters[i], T),
                                        told |-> {}, totals |-> Zero]]
          /\ counters' = [counters EXCEPT ![i] = Taken(@, T)]
    /\ UNCHANGED <<quotaWindow, late, pending, usage, newer, mishaps, admitted,
                   lost, disturbed>>

-----------------------------------------------------------------------------
(* QuotaService.  accept adds to the entries there are and makes new ones  *)
(* up to the ceiling; which ones fit depends on the report's order.        *)
Entries == {k \in Keys : pending[k] > 0}
Fits(d) ==
    {Entries \cup S : S \in UpTo({k \in Keys : d[k] > 0} \ Entries,
                                 MaxEntries - Cardinality(Entries))}
Accepted(d, kept) == [k \in Keys |-> IF k \in kept THEN pending[k] + d[k] ELSE 0]
Dropped(d, kept) == [k \in Keys |-> IF k \in kept THEN 0 ELSE d[k]]

(* aggregatesFor: the latest MaxEntries rows, of them those whose window   *)
(* is open, and what is pending on top of them.  The rows of one batch     *)
(* have one updated_at, and may be cut anywhere.                           *)
Rows == {k \in Keys : usage[k] > 0}
RowsRead == {R \in UpTo(Rows, MaxEntries) : ~\E k \in R, j \in Rows \ R : <<j, k>> \in newer}
AnsweredFrom(rows, p) ==
    {[told |-> rows \cup S,
      totals |-> [k \in Keys |-> (IF k \in rows THEN usage[k] ELSE 0)
                                 + (IF k \in rows \cup S THEN p[k] ELSE 0)]] :
     S \in UpTo({k \in Keys : p[k] > 0} \ rows, MaxEntries - Cardinality(rows))}
Answered(p) == UNION {AnsweredFrom({k \in R : Live(k)}, p) : R \in RowsRead}
Withheld(p, a) == {k \in Keys : Live(k) /\ a.totals[k] < usage[k] + p[k]}

(* The poll endpoint: the deltas are taken in before the answer is put     *)
(* together.                                                               *)
QuotaIntake(i) ==
    /\ qpoll[i].stage = "sent"
    /\ \E kept \in Fits(qpoll[i].deltas) :
       LET p == Accepted(qpoll[i].deltas, kept)
           gone == Dropped(qpoll[i].deltas, kept)
       IN  \E a \in Answered(p) :
             /\ pending' = p
             /\ lost' = lost ++ gone
             /\ qpoll' = [qpoll EXCEPT ![i] = [stage |-> "answered", deltas |-> Zero,
                                               told |-> a.told, totals |-> a.totals]]
             /\ disturbed' = disturbed \cup Withheld(p, a)
                                       \cup {k \in Keys : gone[k] > 0}
    /\ UNCHANGED <<quotaWindow, counters, late, usage, newer, mishaps, admitted>>

(* Reports that arrive after their instances stopped waiting for them, in  *)
(* any portions.                                                           *)
Arrivals == {d \in [Keys -> 0..Tally(late)] : d # Zero /\ \A k \in Keys : d[k] <= late[k]}
LateIntake ==
    \E d \in Arrivals : \E kept \in Fits(d) :
       /\ pending' = Accepted(d, kept)
       /\ lost' = lost ++ Dropped(d, kept)
       /\ late' = [k \in Keys |-> late[k] - d[k]]
       /\ UNCHANGED <<quotaWindow, counters, qpoll, usage, newer, mishaps, admitted, disturbed>>

(* applyAggregates: the answer replaces what was known, in its own order.  *)
InformedAdding(c, k, n) == \* mutant: the fleet's count is added to ours
    LET d == IF Has(c, k) THEN c ELSE Made(c, k) IN [d EXCEPT !.aggregate[k] = @ + n]
Informed(c, k, n) ==
    LET d == IF Has(c, k) THEN c ELSE Made(c, k) IN [d EXCEPT !.aggregate[k] = n]
ApplyAggregates(c, totals, order) ==
    LET after[n \in 0..Len(order)] ==
            IF n = 0 THEN c ELSE Informed(after[n - 1], order[n], totals[order[n]])
    IN  after[Len(order)]

QuotaApply(i) ==
    /\ qpoll[i].stage = "answered"
    /\ \E order \in SetToSeqs(qpoll[i].told) :
       LET c == ApplyAggregates(counters[i], qpoll[i].totals, order)
       IN  /\ counters' = [counters EXCEPT ![i] = c]
           /\ lost' = lost ++ Gone(counters[i], c)
           /\ disturbed' = disturbed \cup Forgotten(counters[i], c)
                               \cup {k \in qpoll[i].told : Live(k) /\ ~Has(c, k)}
    /\ qpoll' = [qpoll EXCEPT ![i] = NoPoll]
    /\ UNCHANGED <<quotaWindow, late, pending, usage, newer, mishaps, admitted>>

-----------------------------------------------------------------------------
(* flush: the batch leaves memory before the transaction that adds it to   *)
(* the rows.                                                               *)
QuotaFlush ==
    /\ pending # Zero
    /\ usage' = usage ++ pending
    /\ newer' = (newer \ ((Entries \X Keys) \cup (Keys \X Entries))) \cup (Entries \X (Rows \ Entries))
    /\ pending' = Zero
    /\ UNCHANGED <<quotaWindow, counters, qpoll, late, mishaps, admitted, lost, disturbed>>

(* DataPlane's minute timer: windows a minute past their end go.           *)
Swept(c) ==
    [order |-> Only(c.order, {k \in Keys : Live(k)}),
     delta |-> [k \in Keys |-> IF Live(k) THEN c.delta[k] ELSE 0],
     aggregate |-> [k \in Keys |-> IF Live(k) THEN c.aggregate[k] ELSE 0]]
QuotaSweep(i) ==
    /\ Swept(counters[i]) # counters[i]
    /\ counters' = [counters EXCEPT ![i] = Swept(@)]
    /\ lost' = lost ++ Gone(counters[i], Swept(counters[i]))
    /\ UNCHANGED <<quotaWindow, qpoll, late, pending, usage, newer, mishaps,
                   admitted, disturbed>>

NextWindow ==
    /\ quotaWindow < LastWindow
    /\ quotaWindow' = quotaWindow + 1
    /\ UNCHANGED <<counters, qpoll, late, pending, usage, newer, mishaps,
                   admitted, lost, disturbed>>

-----------------------------------------------------------------------------
(* Mishaps.                                                                *)
Mishap == mishaps < MaxMishaps /\ mishaps' = mishaps + 1

(* What a poll that comes to nothing had to say, or would have said.       *)
Unsaid(i) == {k \in Keys : qpoll[i].deltas[k] > 0
                           \/ qpoll[i].totals[k] > counters[i].aggregate[k]}

(* The poll is refused (401, 413, 400) or never arrives: nothing is put    *)
(* back.  An answer that is lost has been counted.                         *)
PollFails(i) ==
    /\ Mishap
    /\ qpoll[i].stage # "idle"
    /\ lost' = lost ++ qpoll[i].deltas
    /\ disturbed' = disturbed \cup Unsaid(i)
    /\ qpoll' = [qpoll EXCEPT ![i] = NoPoll]
    /\ UNCHANGED <<quotaWindow, counters, late, pending, usage, newer, admitted>>

(* The fetch times out; the report may still reach the control plane.      *)
PollTimesOut(i) ==
    /\ Mishap
    /\ qpoll[i].stage = "sent"
    /\ late' = late ++ qpoll[i].deltas
    /\ disturbed' = disturbed \cup Unsaid(i)
    /\ qpoll' = [qpoll EXCEPT ![i] = NoPoll]
    /\ UNCHANGED <<quotaWindow, counters, pending, usage, newer, admitted, lost>>

(* The counters go with the process, a report on the wire does not.        *)
InstanceRestarts(i) ==
    /\ Mishap
    /\ lost' = lost ++ counters[i].delta
    /\ late' = late ++ qpoll[i].deltas
    /\ disturbed' = disturbed \cup Unsaid(i) \cup Range(counters[i].order)
    /\ counters' = [counters EXCEPT ![i] = NoCounters]
    /\ qpoll' = [qpoll EXCEPT ![i] = NoPoll]
    /\ UNCHANGED <<quotaWindow, pending, usage, newer, admitted>>

(* A flush whose transaction throws, and a control plane that dies, lose   *)
(* what was pending.                                                       *)
FlushFails ==
    /\ Mishap
    /\ pending # Zero
    /\ lost' = lost ++ pending
    /\ pending' = Zero
    /\ disturbed' = disturbed \cup Entries
    /\ UNCHANGED <<quotaWindow, counters, qpoll, late, usage, newer, admitted>>

QuotaNext ==
    \/ \E i \in Instances, s \in Consumers : QuotaCheck(i, s)
    \/ \E i \in Instances :
          QuotaSend(i) \/ QuotaIntake(i) \/ QuotaApply(i) \/ QuotaSweep(i)
          \/ PollFails(i) \/ PollTimesOut(i) \/ InstanceRestarts(i)
    \/ LateIntake \/ QuotaFlush \/ FlushFails \/ NextWindow

QuotaSpec == QuotaInit /\ [][QuotaNext]_qvars

-----------------------------------------------------------------------------
(* Every admitted call is in exactly one place - an instance's delta, a    *)
(* poll on the wire, the control plane's memory, a row - or was lost: the  *)
(* zero-on-take, add-on-flush chain (quota.ts of both planes) never makes  *)
(* two of one call, whatever times out, restarts or arrives late.          *)
EachCallCountedOnce ==
    admitted = usage ++ pending ++ late ++ lost
               ++ Total([i \in Instances |-> counters[i].delta])
               ++ Total([i \in Instances |-> qpoll[i].deltas])

(* So an instance never holds more against a consumer than the fleet let   *)
(* through in that window: a consumer is not refused for calls it did not  *)
(* make ("under-counts rather than double-counting a consumer into a 403", *)
(* data-plane/src/quota.ts).                                               *)
NeverOvercharged ==
    \A i \in Instances : \A k \in Keys :
        counters[i].aggregate[k] + counters[i].delta[k] <= admitted[k]

(* While no mishap touches a key, an instance lets through at most the     *)
(* allowance before its poll is taken and as much again while the answer   *)
(* is under way: overshoot is one poll interval's traffic, not more.       *)
OvershootBounded ==
    \A k \in Keys : k \in disturbed
        \/ admitted[k] <= 2 * Allowance * Cardinality(Instances)

(* The three together: no call is counted twice, nobody is refused for     *)
(* calls that were not made, and the allowance is overshot by one poll     *)
(* interval's traffic at the most.                                         *)
QuotaHonoured ==
    QuotaTypeOK /\ EachCallCountedOnce /\ NeverOvercharged /\ OvershootBounded
=============================================================================
