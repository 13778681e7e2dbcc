---------------------------- MODULE SequenceParts ----------------------------
(* A part of a sequence.  (SelectSeq takes an operator, and nothing can be  *)
(* proved of it: SequenceLemmas says what Only returns.)                    *)
EXTENDS Naturals, Sequences

\* The elements of s that are in S, in their order.
Only(s, S) ==
  LET only[k \in 0..Len(s)] ==
        IF k = 0 THEN <<>> ELSE IF s[k] \in S THEN Append(only[k - 1], s[k]) ELSE only[k - 1]
  IN  only[Len(s)]
=============================================================================
