--------------------------- MODULE ServedDocument ---------------------------
(***************************************************************************)
(* What a gateway instance promises about the configuration it serves, as  *)
(* the rest of the system relies on it.  The control plane's successive    *)
(* states, as this instance's polls would find them, are the sequence      *)
(* hist; the instance is somewhere along it (at) and moves only forward.   *)
(*                                                                         *)
(*  - what is served is a document the control plane really published;     *)
(*  - an older state is never adopted over a newer one;                    *)
(*  - a running instance stops serving only on a state in which its token  *)
(*    is revoked (fail static on everything else, fail closed on that);    *)
(*  - only a restart may go back, and no further than what was adopted.    *)
(*                                                                         *)
(* ConfigClient implements this specification.                             *)
(***************************************************************************)
EXTENDS Naturals, Sequences

CONSTANTS Docs,     \* configuration documents, identified by their digest
          NoDoc     \* nothing is served

VARIABLES hist,     \* successive states of the control plane
          at,       \* position of the newest state adopted or refused
          up,       \* the process is running
          serving   \* the document requests are answered from

absVars == <<hist, at, up, serving>>

PublishedState == [doc : Docs, revoked : BOOLEAN]

Init == /\ hist \in {<<s>> : s \in PublishedState}
        /\ at = 1
        /\ up = FALSE
        /\ serving = NoDoc

(* The control plane moves on: a new document, a revocation, a re-issue.   *)
Change == /\ \E s \in PublishedState : hist' = Append(hist, s)
          /\ UNCHANGED <<at, up, serving>>

(* The running instance learns of state n.  It may adopt its document, or  *)
(* refuse it and keep what it has; a revoked state takes everything down.  *)
Learn == /\ up
         /\ at' \in at..Len(hist)
         /\ serving' \in IF hist[at'].revoked THEN {NoDoc}
                                              ELSE {hist[at'].doc, serving}
         /\ UNCHANGED <<hist, up>>

(* The process ends, perhaps because of what it has just learnt.           *)
Stop == /\ up
        /\ up' = FALSE
        /\ serving' = NoDoc
        /\ at' \in at..Len(hist)
        /\ UNCHANGED hist

(* A start may serve what was adopted before it, from its cache.           *)
Boot == /\ ~up
        /\ up' = TRUE
        /\ serving' \in {NoDoc} \cup {hist[n].doc : n \in 1..at}
        /\ UNCHANGED <<hist, at>>

Next == Change \/ Learn \/ Stop \/ Boot

Spec == Init /\ [][Next]_absVars
=============================================================================
