------------------------------ MODULE Sublists ------------------------------
(* What of a sequence is in a set.                                         *)
EXTENDS Naturals, Sequences

(* What is in S of a sequence, in its order. *)
Only(s, S) ==
    LET upTo[n \in 0..Len(s)] ==
            IF n = 0 THEN <<>> ELSE IF s[n] \in S THEN Append(upTo[n - 1], s[n]) ELSE upTo[n - 1]
    IN upTo[Len(s)]
=============================================================================
