----------------------------- MODULE MCChannel -----------------------------
(* What travels with the poll besides the document, one subject at a time: *)
(* a behaviour is about the quota counters of two instances or about the   *)
(* telemetry of one.                                                       *)
EXTENDS Quota, Telemetry

VARIABLE subject

MCSettings == {[series |-> 1, windows |-> 2], [series |-> 2, windows |-> 1]}
MCSymmetry == Permutations(Instances)

Init ==
    /\ subject \in {"quota", "telemetry"}
    /\ QuotaInit /\ TelemetryInit
    /\ subject = "quota" => limits = CHOOSE l \in Settings : TRUE
Next ==
    \/ subject = "quota" /\ QuotaNext /\ UNCHANGED <<subject, teleVars>>
    \/ subject = "telemetry" /\ TelemetryNext /\ UNCHANGED <<subject, qvars>>
Spec == Init /\ [][Next]_<<subject, qvars, teleVars>>
=============================================================================
