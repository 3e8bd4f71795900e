----------------------------- MODULE Subsequences -----------------------------
(***************************************************************************)
(* A selection from a sequence.  It is what SelectSeq makes of the test    *)
(* "is in the set", as a recursive function, about which one can reason.   *)
(***************************************************************************)
EXTENDS Naturals, Sequences

(* The members of the sequence that are in the set, in order.              *)
Those(seq, set) ==
  LET upTo[n \in 0..Len(seq)] ==
        IF n = 0 THEN <<>>
        ELSE IF seq[n] \in set THEN Append(upTo[n - 1], seq[n])
        ELSE upTo[n - 1]
  IN upTo[Len(seq)]
=============================================================================
