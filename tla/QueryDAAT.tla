------------------------------ MODULE QueryDAAT ------------------------------
(***************************************************************************)
(* Document-at-a-time query processing: Index::query and build_helpers of  *)
(* src/index/Index.template.hpp, for one query on one chunk of the index.  *)
(*                                                                         *)
(* The iterators find documents as PostingList!NextFindsDocument says, and *)
(* the lexicon's find is a lookup, DiskMap!FindIsLookup.  A document's     *)
(* score may be any number that depends on the document and on the lists   *)
(* it was found in.                                                        *)
(***************************************************************************)
EXTENDS TopK

CONSTANTS
    Terms,        \* the terms of the query
    NDocs,        \* the documents of the chunk
    K,            \* top_k
    Score(_, _)   \* what a document scores when some of the lists hold it

Docs == 1..NDocs
DOCID_MAX == NDocs + 1   \* greater than any docid

ASSUME QueryAssumption ==
    /\ IsFiniteSet(Terms)
    /\ NDocs \in Nat
    /\ K \in Nat \ {0}
    /\ \A T \in SUBSET Terms, d \in Docs : Score(T, d) \in Nat

VARIABLES
    postings,    \* the documents with each term: none, if it is not in the lexicon
    conj,        \* whether the query is conjunctive
    lists,       \* posting_lists_its: the terms whose lists are not exhausted
    at,          \* the docid each list's iterator is at
    curr_docid,
    results,     \* the heap of pending results
    pc

vars == <<postings, conj, lists, at, curr_docid, results, pc>>

Init ==
    /\ postings \in [Terms -> SUBSET Docs]
    /\ conj \in BOOLEAN
    /\ lists = {} /\ at = [t \in Terms |-> DOCID_MAX]
    /\ curr_docid = DOCID_MAX
    /\ results = {}
    /\ pc = "build"

\* The least of some docids, DOCID_MAX if there are none.
MinDocid(D) == CHOOSE d \in D \cup {DOCID_MAX} : \A e \in D : d <= e

-----------------------------------------------------------------------------

\* Terms that are not in the lexicon leave the query, and if it is conjunctive
\* it has no results.
BuildHelpers ==
    LET known == {t \in Terms : postings[t] # {}}
    IN  /\ pc = "build"
        /\ lists' = IF conj /\ known # Terms THEN {} ELSE known
        /\ at' = [t \in Terms |-> MinDocid(postings[t])]
        /\ curr_docid' = MinDocid({at'[t] : t \in lists'})
        /\ pc' = IF lists' = {} THEN "done" ELSE "score"
        /\ UNCHANGED <<postings, conj, results>>

\* The lists that hold the current document.
Holding == {t \in lists : at[t] = curr_docid}

\* The heap's top.  (The mutant's heap is std::priority_queue's own, of maxima.)
TopOfMaxHeap(H) == {r \in H : \A s \in H : r.score >= s.score}
Top(H) == {r \in H : \A s \in H : r.score <= s.score}

\* A result is pushed if there is room or it is better than the worst, and the
\* worst of the heap is popped if there was none.
Push(r) ==
    IF Cardinality(results) < K
    THEN results' = results \cup {r}
    ELSE IF \E worst \in Top(results) : r.score > worst.score
         THEN \E worst \in Top(results \cup {r}) :
                 results' = (results \cup {r}) \ {worst}
         ELSE UNCHANGED results

ScoreDocument ==
    /\ pc = "score"
    /\ IF conj => Holding = lists
       THEN Push([docid |-> curr_docid, score |-> Score(Holding, curr_docid)])
       ELSE UNCHANGED results
    /\ pc' = "move"
    /\ UNCHANGED <<postings, conj, lists, at, curr_docid>>

\* nextG(docid): the next document after docid, from where the iterator is.
\* (The mutant is nextGEQ.)
NextGEQ(t, docid) == MinDocid({d \in postings[t] : d >= at[t] /\ d >= docid})
NextG(t, docid) == MinDocid({d \in postings[t] : d >= at[t] /\ d > docid})

\* The lists that stay in posting_lists_its.
Left(next) == {t \in lists : next[t] # DOCID_MAX}

MoveLists ==
    /\ pc = "move"
    /\ at' = [t \in Terms |-> IF t \in lists THEN NextG(t, curr_docid) ELSE at[t]]
    /\ lists' = Left(at')
    /\ curr_docid' = MinDocid({at'[t] : t \in lists'})
    /\ pc' = IF lists' = {} THEN "done" ELSE "score"
    /\ UNCHANGED <<postings, conj, results>>

Terminated ==
    /\ pc = "done"
    /\ UNCHANGED vars

Next == BuildHelpers \/ ScoreDocument \/ MoveLists \/ Terminated

Spec == Init /\ [][Next]_vars

FairSpec == Spec /\ WF_vars(Next)

-----------------------------------------------------------------------------
(* Properties.                                                             *)

Entry == [docid : Docs, score : Nat]

\* Every variable has its type: the lists left are at documents of theirs.
TypeOK ==
    /\ postings \in [Terms -> SUBSET Docs]
    /\ conj \in BOOLEAN
    /\ lists \subseteq Terms
    /\ at \in [Terms -> Docs \cup {DOCID_MAX}]
    /\ \A t \in lists : at[t] \in postings[t]
    /\ curr_docid \in Docs \cup {DOCID_MAX}
    /\ results \subseteq Entry
    /\ pc \in {"build", "score", "move", "done"}

\* The terms of the query that a document has.
TermsOf(d) == {t \in Terms : d \in postings[t]}

\* A term that the lists left do not speak of any more: its list ended before d.
Ended(t, d) == \A e \in postings[t] : e < d

\* The documents that match: those with a term of the query; if it is
\* conjunctive, those with every term whose list has not ended.
Matching ==
    {d \in Docs :
       /\ TermsOf(d) # {}
       /\ conj => \A t \in Terms :
                     postings[t] # {} /\ (t \in TermsOf(d) \/ Ended(t, d))}

EntryOf(d) == [docid |-> d, score |-> Score(TermsOf(d), d)]

\* The results are the best K of the documents that match, each with its whole
\* score, though lists leave the loop at different times and a document is
\* scored in the one round where every list that has it is at it
\* (Index.template.hpp:113-162).
ResultsAreTopK == pc = "done" => IsTopK(K, results, {EntryOf(d) : d \in Matching})

\* Every round takes each list past the current document: the query ends.
QueryEnds == <>(pc = "done")
=============================================================================
