----------------------------- MODULE MCQueryBMM -----------------------------
(***************************************************************************)
(* QueryBMM with lists of up to four blocks over eight documents.  Lists   *)
(* that end early, with documents left in the others, are there for what   *)
(* is scored again and erased; long ones whose postings a query skips, for *)
(* what is misread then.                                                   *)
(***************************************************************************)
EXTENDS QueryBMM

MCLists ==
    {SetToSortSeq(D, LAMBDA d, e : d < e) : D \in SUBSET (1..3)} \cup {
    <<6>>, <<8>>, <<2, 7>>, <<1, 6, 8>>, <<2, 3, 7>>, <<2, 5, 8>>, <<4, 5, 7>>,
    <<5, 6, 7, 8>>, <<1, 3, 4, 6, 8>>, <<1, 4, 5, 6, 7, 8>>, <<1, 2, 3, 4, 5, 6, 7>>,
    <<1, 2, 3, 4, 5, 6, 7, 8>>}

\* The first documents score little: many queries fill the heap before a list stops
\* being essential.  The two odd scores are cut off by the fixed point.
MCContribution(t, d) ==
    <<<<2, 2, 8, 6, 8, 8, 4, 8>>,
      <<1, 6, 8, 8, 2, 8, 8, 6>>,
      <<2, 3, 6, 2, 4, 4, 2, 4>>>>[t][d]

\* As little as any score of a term, and more than all of them.
MCMisread == {1, 9}

MCGarbage == {0, 9}

MCInit == postings \in [Terms -> MCLists] /\ Init

MCSpec == MCInit /\ [][Next]_vars /\ WF_vars(Next)

=============================================================================
