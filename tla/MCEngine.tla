------------------------------ MODULE MCEngine ------------------------------
(* Engine on chunks of two documents each, the last one of what is left of   *)
(* five.  Documents of one chunk and of two have equal scores for a query,   *)
(* and a query may match nothing in a chunk.                                 *)
EXTENDS Engine

MCScores == [one |-> <<3, 1, 2, 2, 1>>, two |-> <<0, 0, 1, 3, 3>>]

MCMatches(q, c) ==
    {[docid |-> d, score |-> MCScores[q][d]] :
       d \in {e \in 1..5 : (e + 1) \div 2 = c /\ MCScores[q][e] > 0}}

=============================================================================
