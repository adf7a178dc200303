------------------------------ MODULE QueryBMM -------------------------------
(***************************************************************************)
(* Block-max query processing: Index::query_bmm of src/index/Index.cpp,    *)
(* for one query on one chunk of the index.                                *)
(*                                                                         *)
(* The lists whose upper bounds add up to no more than the threshold are   *)
(* not essential: a document is only looked for in them when one of the    *)
(* others holds it.  Iterators and their blocks are as PostingList says:   *)
(* nextGEQ finds the first posting not before a docid (NextFindsDocument), *)
(* the block is the one of the posting (BlockHoldsCurrent), and it is past *)
(* the pointers in a last block that was left out (BlocksLeftOut).  Of the *)
(* frequencies, only those that ++ comes to are the postings': after a     *)
(* skip the decoder may be on another datum (FreqIsOfPosting).             *)
(***************************************************************************)
EXTENDS TopK, Sequences, SequencesExt, FiniteSetsExt, Functions

CONSTANTS
    Terms,               \* the terms of the query, as numbers: set's order
    NDocs,               \* the documents of the chunk
    K,                   \* top_k
    SKIP_BLOCK_SIZE,
    Precision,           \* the scores that one step of fixed_point_factor spans
    Contribution(_, _),  \* what a term adds to the score of a document, with the
                         \* frequency that an iterator reads which only ++ moved
    Misread,             \* what it adds with a frequency that is not the posting's
    Garbage              \* what a read of memory that holds no bound may give

Docs == 1..NDocs
DOCID_MAX == NDocs + 1

ASSUME BMMAssumption ==
    /\ IsFiniteSet(Terms) /\ Terms \subseteq Nat
    /\ NDocs \in Nat /\ K \in Nat \ {0}
    /\ SKIP_BLOCK_SIZE \in Nat \ {0} /\ Precision \in Nat \ {0}
    /\ \A t \in Terms, d \in Docs : Contribution(t, d) \in Nat
    /\ Misread \in SUBSET (Nat \ {0})
    /\ Garbage \in (SUBSET Nat) \ {{}}

VARIABLES
    postings,      \* the docids of each term's list: none, if it is not in the lexicon
    lists,         \* posting_lists_its: the terms whose lists are left, in their order
    at,            \* the position of each list's iterator
    skipped,       \* the lists whose iterator has skipped a block: its decoder of
                   \* frequencies may be anywhere from then on
    upper_bounds,
    pivot,         \* the number of lists that are not essential
    threshold,
    curr_docid,
    next,          \* the docid after it
    score,
    bub,           \* the bounds by the blocks the iterators are in
    j,             \* the rounds of the loop over the lists that are not essential
    results,       \* the heap of pending results, each with whether its document
                   \* had been scored before
    scored,        \* history: the documents scored
    faults,        \* history: what has gone wrong
    pc

loopVars == <<curr_docid, next, score, bub, j>>
vars == <<postings, lists, at, skipped, upper_bounds, pivot, threshold, loopVars, results,
          scored, faults, pc>>

Size(t) == Len(postings[t])
AtEnd(t) == at[t] = Size(t) + 1

\* it->first: an iterator at the end keeps the last docid it had.
First(t) == postings[t][Min({at[t], Size(t)})]

BlockOf(p) == (p - 1) \div SKIP_BLOCK_SIZE + 1
BlockEnd(t, p) == Min({BlockOf(p) * SKIP_BLOCK_SIZE, Size(t)})
LeftOut(t, p) ==
    /\ Size(t) % SKIP_BLOCK_SIZE # 0 /\ (Size(t) + 1) % SKIP_BLOCK_SIZE = 0
    /\ BlockOf(p) = BlockOf(Size(t))

FixedPoint(s) == (s \div Precision) * Precision
GreatestOf(t, P) == Max({Contribution(t, postings[t][p]) : p \in P})
Sigma(t) == FixedPoint(GreatestOf(t, 1..Size(t)))

\* The bounds that get_current_skip_block may lead to for a list.
BlockBounds(t) ==
    IF LeftOut(t, at[t])
    THEN Garbage
    ELSE {FixedPoint(GreatestOf(t, ((BlockOf(at[t]) - 1) * SKIP_BLOCK_SIZE + 1)..BlockEnd(t, at[t])))}

MinDocid(D) == Min(D \cup {DOCID_MAX})

\* The sums of the first one, the first two... numbers of a sequence.
Sums(s) == [n \in DOMAIN s |-> SumFunctionOnSet(s, 1..n)]

PostingLists ==
    {s \in Seq(Docs) : \A p, q \in DOMAIN s : p < q => s[p] < s[q]}

Init ==
    /\ postings \in [Terms -> PostingLists]
    /\ lists = <<>> /\ at = [t \in Terms |-> 1] /\ skipped = {}
    /\ upper_bounds = <<>> /\ pivot = 0 /\ threshold = 0
    /\ curr_docid = DOCID_MAX /\ next = DOCID_MAX /\ score = 0
    /\ bub = <<>> /\ j = 0
    /\ results = {} /\ scored = {} /\ faults = {}
    /\ pc = "build"

Continues(p, ls) == IF p < Len(ls) THEN "essential" ELSE "done"

\* The sort keeps the query's order where two bounds are the same.
Before(t, u) == Sigma(t) < Sigma(u) \/ (Sigma(t) = Sigma(u) /\ t < u)
Sorted(T) ==
    {s \in SeqOf(T, Cardinality(T)) :
       ToSet(s) = T /\ \A m, n \in DOMAIN s : m < n => Before(s[m], s[n])}

\* Terms that are not in the lexicon leave the query, and the lists are ordered
\* by their bounds.  When none is left the bound of the first one is read from
\* memory that holds no list.
BuildHelpers ==
    LET known == {t \in Terms : postings[t] # <<>>}
    IN  /\ pc = "build"
        /\ lists' \in Sorted(known)
        /\ IF known = {}
           THEN \E g \in Garbage : upper_bounds' = <<g>>
           ELSE upper_bounds' = Sums([n \in DOMAIN lists' |-> Sigma(lists'[n])])
        /\ curr_docid' = MinDocid({First(t) : t \in known})
        /\ pc' = Continues(pivot, lists')
        /\ UNCHANGED <<postings, at, skipped, pivot, threshold, next, score, bub, j, results, scored, faults>>

\* The first n lists, and those that are essential.
Lesser(n) == {lists[m] : m \in 1..n}
Essential == {lists[m] : m \in (pivot + 1)..Len(lists)}

\* What the first n lists really add to the current document, and can to any.
TermsOf(d) == {t \in Terms : d \in ToSet(postings[t])}
Added(n) == SumFunction([t \in Lesser(n) \cap TermsOf(curr_docid) |-> Contribution(t, curr_docid)])
Greatest(n) == SumFunction([t \in Lesser(n) |-> GreatestOf(t, 1..Size(t))])

\* A document that has not been scored is passed over though it is better.
PassedOver(s, n) ==
    {f \in {"bound"} : curr_docid \notin scored /\ s + Added(n) > threshold}

\* The iterators of the essential lists that are at the current document move on.
\* (The mutants stop at the last posting, move one iterator only, and those that
\* are not at the document too.)
FollowingToLast(t) == Min({at[t] + 1, Size(t)})
Following(t) == Min({at[t] + 1, Size(t) + 1})
MovedOne ==
    [t \in Terms |->
       IF \E n \in (pivot + 1)..Len(lists) :
            /\ lists[n] = t /\ First(t) = curr_docid
            /\ \A m \in (pivot + 1)..(n - 1) : First(lists[m]) # curr_docid
       THEN Following(t) ELSE at[t]]
MovedAll == [t \in Terms |-> Following(t)]
Moved ==
    [t \in Terms |-> IF t \in Essential /\ First(t) = curr_docid THEN Following(t) ELSE at[t]]

\* The current document is scored by the essential lists that are at it, none of
\* which has skipped a block (EssentialListsAreNotPassed), and the least docid that
\* their iterators have then is the next one.
ScoreEssential ==
    LET s == SumFunction([t \in {u \in Essential : First(u) = curr_docid} |->
                            Contribution(t, curr_docid)])
        passed == pivot # 0 /\ s + upper_bounds[pivot] <= threshold
    IN  /\ pc = "essential"
        /\ at' = Moved
        /\ score' = s
        /\ next' = MinDocid({postings[t][Min({at'[t], Size(t)})] : t \in Essential})
        /\ pc' = IF pivot # 0 /\ ~passed THEN "bub" ELSE "push"
        /\ faults' = IF passed THEN faults \cup PassedOver(s, pivot) ELSE faults
        /\ UNCHANGED <<postings, lists, skipped, upper_bounds, pivot, threshold, curr_docid, bub, j, results, scored>>

PopulateBub ==
    /\ pc = "bub"
    /\ \E b \in [1..pivot -> UNION {BlockBounds(t) : t \in Lesser(pivot)}] :
          /\ \A n \in 1..pivot : b[n] \in BlockBounds(lists[n])
          /\ bub' = Sums(b)
    /\ j' = 0
    /\ pc' = "rest"
    /\ faults' = faults
          \cup {f \in {"garbage"} : \E t \in Lesser(pivot) : LeftOut(t, at[t])}
          \cup {f \in {"behind"} : \E t \in Lesser(pivot) : postings[t][BlockEnd(t, at[t])] < curr_docid}
    /\ UNCHANGED <<postings, lists, at, skipped, upper_bounds, pivot, threshold, curr_docid, next, score, results, scored>>

\* nextGEQ(curr_docid).  (The mutant is nextG.)
NextG(t) == Min({Size(t) + 1} \cup {p \in at[t]..Size(t) : postings[t][p] > curr_docid})
NextGEQ(t) == Min({Size(t) + 1} \cup {p \in at[t]..Size(t) : postings[t][p] >= curr_docid})

\* nextGEQ skips to a later block, if there is a pointer to it: skip_block leaves the
\* iterator alone when it is past the last one.
Skips(t) ==
    /\ ~AtEnd(t) /\ postings[t][BlockEnd(t, at[t])] < curr_docid
    /\ BlockOf(at[t]) < BlockOf(Size(t))
    /\ ~LeftOut(t, BlockEnd(t, at[t]) + 1)

\* One round of the loop over the lists that are not essential: the bounds go
\* from the last to the first, and p_it stays at the last.  The frequency that its
\* posting is scored with may be another's once it has skipped.
ScoreRest ==
    LET t == lists[pivot]
        p == NextGEQ(t)
        c == Contribution(t, curr_docid)
    IN  /\ pc = "rest"
        /\ j < pivot
        /\ score + bub[pivot - j] > threshold
        /\ at' = [at EXCEPT ![t] = p]
        /\ skipped' = IF Skips(t) THEN skipped \cup {t} ELSE skipped
        /\ \E a \in IF p > Size(t) \/ postings[t][p] # curr_docid THEN {0}
                    ELSE IF t \in skipped' THEN {c} \cup Misread ELSE {c} :
              /\ score' = score + a
              /\ faults' = faults \cup {f \in {"repeat"} : j > 0}
                                  \cup {f \in {"misread"} : a \notin {0, c}}
        /\ j' = j + 1
        /\ UNCHANGED <<postings, lists, upper_bounds, pivot, threshold, curr_docid, next, bub, results, scored, pc>>

LeaveRest ==
    /\ pc = "rest"
    /\ j < pivot => score + bub[pivot - j] <= threshold
    /\ pc' = "push"
    /\ faults' = IF j < pivot THEN faults \cup PassedOver(score, pivot - j) ELSE faults
    /\ UNCHANGED <<postings, lists, at, skipped, upper_bounds, pivot, threshold, loopVars, results, scored>>

Worst(H) == {r \in H : \A q \in H : r.score <= q.score}

\* How far the lists stop being essential under a threshold.  (The mutant's test
\* lets one more through.)
RaisedOneMore(theta) ==
    Min({n \in pivot..Len(lists) : n = Len(lists) \/ (n > 0 /\ upper_bounds[n] > theta)})
Raised(theta) == Min({n \in pivot..Len(lists) : n = Len(lists) \/ upper_bounds[n + 1] > theta})

\* A result is pushed if there is room or it is better than the worst; the worst
\* is popped if there was none; the threshold is what is worst then.  A document
\* that is scored again is one more result.
PushResult ==
    LET r == [docid |-> curr_docid, score |-> score, again |-> curr_docid \in scored]
    IN  /\ pc = "push"
        /\ IF Cardinality(results) < K \/ \E w \in Worst(results) : score > w.score
           THEN /\ IF Cardinality(results) < K
                   THEN results' = results \cup {r}
                   ELSE \E w \in Worst(results \cup {r}) : results' = (results \cup {r}) \ {w}
                /\ threshold' = Min({q.score : q \in results'})
                /\ pivot' = Raised(threshold')
                /\ faults' = faults
                      \cup {f \in {"early"} : pivot' > pivot /\ Cardinality(results') < K}
                      \cup {f \in {"bound"} : pivot' > pivot /\ Greatest(pivot') > threshold'}
                      \cup {f \in {"again"} : r.again}
           ELSE UNCHANGED <<results, threshold, pivot, faults>>
        /\ scored' = scored \cup {curr_docid}
        /\ pc' = "erase"
        /\ UNCHANGED <<postings, lists, at, skipped, upper_bounds, loopVars>>

\* The lists that have ended are erased: the n-th one left is the n-th that is live.
Live == {n \in DOMAIN lists : ~AtEnd(lists[n])}
Nth(n) == CHOOSE m \in Live : Cardinality(Live \cap 1..m) = n
Left == [n \in 1..Cardinality(Live) |-> lists[Nth(n)]]

\* The pivot moves with the lists; the upper bounds do not.  (The mutant keeps the
\* pivot.)
PivotKept(ended) == pivot
PivotWithout(ended) == pivot - Cardinality({n \in ended : n <= pivot})

EraseEnded ==
    LET ended == DOMAIN lists \ Live
    IN  /\ pc = "erase"
        /\ lists' = Left
        /\ pivot' = PivotWithout(ended)
        /\ curr_docid' = next
        /\ pc' = Continues(pivot', lists')
        /\ faults' = faults \cup
              {f \in {"erased"} : \E n \in ended, m \in Live : n < m}
        /\ UNCHANGED <<postings, at, skipped, upper_bounds, threshold, next, score, bub, j, results, scored>>

Terminated == pc = "done" /\ UNCHANGED vars

Next ==
    \/ BuildHelpers \/ ScoreEssential \/ PopulateBub \/ ScoreRest \/ LeaveRest
    \/ PushResult \/ EraseEnded \/ Terminated

Spec == Init /\ [][Next]_vars

FairSpec == Spec /\ WF_vars(Next)

-----------------------------------------------------------------------------
(* Properties.                                                             *)

Faults == {"bound", "garbage", "behind", "repeat", "misread", "early", "again", "erased"}

\* Every variable has its type; the lists left are some of the known ones.
TypeOK ==
    /\ ToSet(lists) \subseteq {t \in Terms : postings[t] # <<>>} /\ IsInjective(lists)
    /\ \A t \in ToSet(lists) : at[t] \in 1..(Size(t) + 1)
    /\ skipped \subseteq Terms /\ pivot \in 0..Len(lists)
    /\ threshold \in Nat /\ score \in Nat
    /\ {curr_docid, next} \subseteq Docs \cup {DOCID_MAX}
    /\ results \subseteq [docid : Docs, score : Nat, again : BOOLEAN]
    /\ Cardinality(results) <= K
    /\ faults \subseteq Faults

ScoreOf(d) == SumFunction([t \in TermsOf(d) |-> Contribution(t, d)])
EntryOf(d) == [docid |-> d, score |-> ScoreOf(d)]
Returned == {[docid |-> r.docid, score |-> r.score] : r \in results}

\* What is returned is the best K of the documents with a term of the query, each
\* once and with its score, as Index::query gives it, unless one of these befell
\* the query: a list stopped being essential before the heap was full
\* (Index.cpp:101-104); a list was added to a score twice (79-89), or with the
\* frequency of another posting, after a skip (86-88, 206-211); a document was
\* taken in a second time (57-62, 92-95); a bound that a document was passed over
\* by was not one (75-83).  Nothing else does harm: a stale block's bound, garbage
\* for one, sums that hold an erased list, a document scored again and refused.
TopKWithoutFaults ==
    (pc = "done" /\ faults \cap {"early", "repeat", "misread", "again", "bound"} = {})
      => /\ IsTopK(K, Returned, {EntryOf(d) : d \in {e \in Docs : TermsOf(e) # {}}})
         /\ Cardinality(Returned) = Cardinality(results)

Truncates ==
    \E t \in Terms : \E d \in ToSet(postings[t]) : FixedPoint(Contribution(t, d)) # Contribution(t, d)

\* A bound is too small only if a list was erased before another, whose sum the
\* upper bounds do not hold any more (114), if a block's bound was read from an
\* iterator that was in a block before the document's (70-71) or in one that has
\* no pointer, or if the fixed point cut a score off (types.hpp:108-121).
WrongBoundsHaveACause ==
    "bound" \in faults => faults \cap {"erased", "behind", "garbage"} # {} \/ Truncates

\* No posting of an essential list is passed over: whatever the pivot and the
\* lists that go, the documents before the current one that such a list holds
\* have been scored, and its iterator is at the next one (54-63 and 108-127).
\* It has come there without skipping a block, so that the frequency it scores
\* with is the posting's (60, 79-89).
EssentialListsAreNotPassed ==
    pc = "essential" =>
      \A n \in (pivot + 1)..Len(lists) :
         /\ First(lists[n]) >= curr_docid
         /\ \A d \in ToSet(postings[lists[n]]) : d < curr_docid => d \in scored
         /\ lists[n] \notin skipped

\* A document is scored again only right after the round in which a list ended
\* with it (57-62), and so never a third time.
ScoredAgainOnlyAtEnds ==
    [][(pc = "erase" /\ pc' = "essential" /\ curr_docid' <= curr_docid)
         => /\ curr_docid' = curr_docid
            /\ \E t \in ToSet(lists) : AtEnd(t) /\ First(t) = curr_docid]_vars

\* The loop ends, though a round may leave the current document as it is.
QueryEnds == <>(pc = "done")
=============================================================================
