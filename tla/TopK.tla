-------------------------------- MODULE TopK --------------------------------
(***************************************************************************)
(* The answer a query is for: of the entries [docid, score] that match it, *)
(* k with the greatest scores.  Which of several entries with one score is *)
(* in the answer is left open, as std::priority_queue leaves it.           *)
(***************************************************************************)
EXTENDS Integers, FiniteSets

\* S is k entries of C, or all if C has no more; what is left out is not better.
IsTopK(k, S, C) ==
    /\ S \subseteq C
    /\ Cardinality(S) <= k
    /\ S # C => Cardinality(S) = k
    /\ \A s \in S, c \in C \ S : c.score <= s.score

=============================================================================
