--------------------------- MODULE QueryDAATProofs ---------------------------
(***************************************************************************)
(* Proofs about QueryDAAT, for any postings, scores and K.                 *)
(***************************************************************************)
EXTENDS QueryDAAT, FiniteSetTheorems, WellFoundedInduction, TLAPS

-----------------------------------------------------------------------------
(* Minima.                                                                 *)

\* A set of naturals that is not empty has a least element.
LEMMA NatMin ==
    ASSUME NEW S \in SUBSET Nat, S # {}
    PROVE  \E x \in S : \A y \in S : x <= y
<1>1. PICK x \in S : \A y \in S : <<y, x>> \notin OpToRel(<, Nat)
  BY NatLessThanWellFounded, WFMin
<1>2. ASSUME NEW y \in S PROVE x <= y
  <2>1. ~(y < x)
    BY <1>1 DEF OpToRel
  <2> QED
    BY <2>1
<1> QED
  BY <1>2

\* MinDocid is the least of its docids.
LEMMA MinDocidIsLeast ==
    ASSUME NEW D \in SUBSET (Docs \cup {DOCID_MAX})
    PROVE  /\ MinDocid(D) \in D \cup {DOCID_MAX}
           /\ \A e \in D : MinDocid(D) <= e
<1>1. Docs \cup {DOCID_MAX} \subseteq Nat
  BY QueryAssumption DEF Docs, DOCID_MAX
<1>2. \E d \in D \cup {DOCID_MAX} : \A e \in D : d <= e
  <2>1. CASE D = {}
    BY <2>1
  <2>2. CASE D # {}
    BY <1>1, <2>2, NatMin
  <2> QED
    BY <2>1, <2>2
<1> QED
  BY <1>2 DEF MinDocid

\* A heap that is not empty has a worst result.
LEMMA TopExists ==
    ASSUME NEW H \in SUBSET Entry, H # {}
    PROVE  Top(H) # {}
<1> DEFINE S == {r.score : r \in H}
<1>1. S \in SUBSET Nat /\ S # {}
  BY DEF Entry
<1>2. PICK x \in S : \A y \in S : x <= y
  BY <1>1, NatMin
<1>3. PICK r \in H : r.score = x
  OBVIOUS
<1> QED
  BY <1>2, <1>3 DEF Top

-----------------------------------------------------------------------------
(* The heap.                                                               *)

\* Pushing one more entry that matches keeps the heap the best K.
LEMMA PushKeepsTopK ==
    ASSUME TypeOK, IsFiniteSet(results),
           NEW C \in SUBSET Entry, NEW r \in Entry \ C,
           IsTopK(K, results, C), Push(r)
    PROVE  /\ results' \in SUBSET Entry
           /\ IsFiniteSet(results')
           /\ IsTopK(K, results', C \cup {r})
<1> DEFINE H == results
           I == results \cup {r}
<1> K \in Nat \ {0}
  BY QueryAssumption
<1>1. H \subseteq C /\ r \notin H /\ H \subseteq Entry /\ I \subseteq Entry
  BY DEF IsTopK, TypeOK
<1>2. Cardinality(H) \in Nat /\ IsFiniteSet(I) /\ Cardinality(I) = Cardinality(H) + 1
  BY <1>1, FS_CardinalityType, FS_AddElement
<1>3. \A s \in Entry : s.score \in Nat
  BY DEF Entry
<1>4. CASE Cardinality(H) < K
  <2>1. results' = I
    BY <1>4 DEF Push
  <2>2. H = C
    BY <1>4, <1>2 DEF IsTopK
  <2> QED
    BY <2>1, <2>2, <1>1, <1>2, <1>4 DEF IsTopK
<1>5. CASE ~(Cardinality(H) < K)
  <2>1. Cardinality(H) = K /\ H # {}
    BY <1>5, <1>2, FS_EmptySet DEF IsTopK
  <2>2. PICK top \in Top(H) : TRUE
    BY <2>1, <1>1, TopExists
  <2>3. top \in H /\ \A s \in H : top.score <= s.score
    BY <2>2 DEF Top
  <2>4. CASE r.score > top.score
    <3>1. \E worst \in Top(H) : r.score > worst.score
      BY <2>2, <2>4
    <3>2. PICK worst \in Top(I) : results' = I \ {worst}
      BY <3>1, <1>5 DEF Push
    <3>3. worst \in I /\ \A s \in I : worst.score <= s.score
      BY <3>2 DEF Top
    <3>4. worst \in H
      BY <3>3, <2>3, <2>4, <1>3, <1>1
    <3>5. IsFiniteSet(results') /\ Cardinality(results') = K
      <4>1. /\ IsFiniteSet(I \ {worst})
            /\ Cardinality(I \ {worst}) = Cardinality(I) - 1
        BY <3>3, <1>2, FS_RemoveElement
      <4>2. Cardinality(I) = K + 1
        BY <1>2, <2>1
      <4>3. K + 1 - 1 = K
        OBVIOUS
      <4> QED
        BY <4>1, <4>2, <4>3, <3>2
    <3>6. ASSUME NEW s \in results', NEW c \in (C \cup {r}) \ results'
          PROVE  c.score <= s.score
      <4>1. s \in I /\ worst.score <= s.score
        BY <3>2, <3>3
      <4>2. CASE c = worst
        BY <4>1, <4>2
      <4>3. CASE c # worst
        <5>1. c \in C \ H
          BY <4>3, <3>2
        <5>2. c.score <= worst.score
          BY <5>1, <3>4 DEF IsTopK
        <5> QED
          BY <5>2, <4>1, <5>1, <1>3, <1>1, <3>4
      <4> QED
        BY <4>2, <4>3
    <3> QED
      BY <3>2, <3>5, <3>6, <1>1 DEF IsTopK
  <2>5. CASE ~(r.score > top.score)
    <3>1. ~ \E worst \in Top(H) : r.score > worst.score
      BY <2>3, <2>5, <1>1, <1>3 DEF Top
    <3>2. results' = H
      BY <3>1, <1>5 DEF Push
    <3>3. ASSUME NEW s \in H PROVE r.score <= s.score
      BY <2>3, <2>5, <1>1, <1>3
    <3> QED
      BY <3>2, <3>3, <2>1, <1>1 DEF IsTopK
  <2> QED
    BY <2>4, <2>5
<1> QED
  BY <1>4, <1>5

-----------------------------------------------------------------------------
(* The inductive invariant.                                                *)

\* While documents are left: some list is at the current one, every list left is
\* at its first document that is not before it, and the other lists ended
\* before it.
ListsAhead ==
    pc \in {"score", "move"} =>
      /\ curr_docid \in Docs
      /\ \E t \in lists : at[t] = curr_docid
      /\ \A t \in lists :
           /\ at[t] >= curr_docid
           /\ \A e \in postings[t] : e >= curr_docid => e >= at[t]
      /\ \A t \in Terms \ lists : Ended(t, curr_docid)
      /\ conj => \A t \in Terms : postings[t] # {}

\* The entries of the documents of D that match.
Entries(D) == {EntryOf(d) : d \in Matching \cap D}

\* The results are the best of the documents up to the current one.
ScoredSoFar ==
    /\ IsFiniteSet(results)
    /\ pc = "build" => results = {} /\ lists = {}
    /\ pc = "score" =>
         IsTopK(K, results, Entries({d \in Docs : d < curr_docid}))
    /\ pc = "move" =>
         IsTopK(K, results, Entries({d \in Docs : d <= curr_docid}))
    /\ pc = "done" => IsTopK(K, results, Entries(Docs))

IInv == TypeOK /\ ListsAhead /\ ScoredSoFar

\* An entry is an entry, and says which document it is of.
LEMMA EntryType ==
    ASSUME NEW d \in Docs
    PROVE  EntryOf(d) \in Entry /\ EntryOf(d).docid = d
<1>1. TermsOf(d) \in SUBSET Terms
  BY DEF TermsOf
<1> QED
  BY <1>1, QueryAssumption DEF EntryOf, Entry

\* The lists that hold the current document are those of its terms.
LEMMA HoldingIsTermsOf ==
    ASSUME TypeOK, ListsAhead, pc = "score"
    PROVE  /\ Holding = TermsOf(curr_docid)
           /\ (conj => Holding = lists) <=> curr_docid \in Matching
<1> USE DEF ListsAhead
<1>1. curr_docid \in Docs /\ Docs \subseteq Nat
  BY QueryAssumption DEF Docs
<1>2. \A t \in lists : t \in Terms /\ at[t] \in postings[t] /\ at[t] \in Nat
  BY <1>1 DEF TypeOK
<1>3. \A t \in Terms : postings[t] \subseteq Nat
  BY <1>1 DEF TypeOK
<1>4. Holding \subseteq TermsOf(curr_docid)
  BY <1>2 DEF Holding, TermsOf
<1>5. ASSUME NEW t \in TermsOf(curr_docid)
      PROVE  t \in Holding
  <2>1. t \in Terms /\ curr_docid \in postings[t]
    BY <1>5 DEF TermsOf
  <2>2. t \in lists
    BY <2>1, <1>1 DEF Ended
  <2>3. at[t] = curr_docid
    BY <2>1, <2>2, <1>1, <1>2
  <2> QED
    BY <2>2, <2>3 DEF Holding
<1>6. Holding = TermsOf(curr_docid)
  BY <1>4, <1>5
<1>7. TermsOf(curr_docid) # {}
  BY <1>6 DEF Holding
<1>8. ASSUME Holding = lists, NEW t \in Terms
      PROVE  t \in TermsOf(curr_docid) \/ Ended(t, curr_docid)
  BY <1>8, <1>6
<1>9. ASSUME NEW t \in lists, Ended(t, curr_docid)
      PROVE  FALSE
  BY <1>9, <1>1, <1>2 DEF Ended
<1>10. CASE conj
  <2>1. ASSUME Holding = lists PROVE curr_docid \in Matching
    BY <1>8, <2>1, <1>10, <1>1, <1>7 DEF Matching
  <2>2. ASSUME curr_docid \in Matching PROVE Holding = lists
    <3>1. ASSUME NEW t \in lists PROVE t \in Holding
      BY <2>2, <1>10, <1>9, <1>6, <1>2 DEF Matching
    <3> QED
      BY <3>1 DEF Holding
  <2> QED
    BY <2>1, <2>2, <1>6, <1>10
<1>11. CASE ~conj
  BY <1>11, <1>1, <1>6, <1>7 DEF Matching
<1> QED
  BY <1>10, <1>11

\* The query starts with no lists and no results.
LEMMA InitIInv == Init => IInv
<1> SUFFICES ASSUME Init PROVE IInv
  OBVIOUS
<1>1. TypeOK
  BY DEF Init, TypeOK
<1>2. ListsAhead
  BY DEF Init, ListsAhead
<1>3. ScoredSoFar
  BY FS_EmptySet DEF Init, ScoredSoFar
<1> QED
  BY <1>1, <1>2, <1>3 DEF IInv

\* build_helpers leaves each list at its first document.
LEMMA BuildKeepsIInv ==
    ASSUME IInv, BuildHelpers
    PROVE  IInv'
<1> USE DEF IInv
<1> DEFINE known == {t \in Terms : postings[t] # {}}
           heads == {at'[t] : t \in lists'}
<1>1. Docs \subseteq Nat /\ DOCID_MAX \in Nat /\ DOCID_MAX \notin Docs
  BY QueryAssumption DEF Docs, DOCID_MAX
<1>2. /\ lists' = IF conj /\ known # Terms THEN {} ELSE known
      /\ at' = [t \in Terms |-> MinDocid(postings[t])]
      /\ curr_docid' = MinDocid(heads)
      /\ pc' = IF lists' = {} THEN "done" ELSE "score"
      /\ postings' = postings /\ conj' = conj /\ results' = results
      /\ results = {}
  BY DEF BuildHelpers, ScoredSoFar
<1>3. \A t \in Terms : postings[t] \subseteq Docs
  BY DEF TypeOK
<1>4. ASSUME NEW t \in Terms
      PROVE  /\ at'[t] \in postings[t] \cup {DOCID_MAX}
             /\ \A e \in postings[t] : at'[t] <= e
  BY <1>2, <1>3, MinDocidIsLeast
<1>5. ASSUME NEW t \in Terms, postings[t] # {}
      PROVE  at'[t] \in postings[t]
  <2>1. PICK e \in postings[t] : TRUE
    BY <1>5
  <2>2. e \in 1..NDocs /\ at'[t] <= e
    BY <2>1, <1>4, <1>3 DEF Docs
  <2>3. at'[t] # DOCID_MAX
    BY <2>2, QueryAssumption DEF DOCID_MAX
  <2> QED
    BY <2>3, <1>4
<1>6. lists' \subseteq known
  BY <1>2
<1>7. \A t \in lists' : t \in Terms /\ at'[t] \in postings[t] /\ at'[t] \in Docs
  BY <1>6, <1>5, <1>3
<1>8. heads \subseteq Docs \cup {DOCID_MAX}
  BY <1>7
<1>9. curr_docid' \in heads \cup {DOCID_MAX} /\ \A e \in heads : curr_docid' <= e
  BY <1>8, <1>2, MinDocidIsLeast
<1>10. ASSUME lists' # {} PROVE curr_docid' \in heads
  <2>1. PICK e \in heads : TRUE
    BY <1>10
  <2>2. e \in 1..NDocs /\ curr_docid' <= e
    BY <2>1, <1>9, <1>7 DEF Docs
  <2>3. curr_docid' # DOCID_MAX
    BY <2>2, QueryAssumption DEF DOCID_MAX
  <2> QED
    BY <2>3, <1>9
<1>11. TypeOK'
  <2>1. at' \in [Terms -> Docs \cup {DOCID_MAX}]
    BY <1>2, <1>4, <1>3
  <2>2. curr_docid' \in Docs \cup {DOCID_MAX}
    BY <1>9, <1>8
  <2> QED
    BY <2>1, <2>2, <1>2, <1>6, <1>7 DEF TypeOK
<1>12. ListsAhead'
  <2> SUFFICES ASSUME pc' \in {"score", "move"} PROVE ListsAhead'
    BY DEF ListsAhead
  <2>1. lists' # {}
    BY <1>2
  <2>2. lists' = known /\ (conj => known = Terms)
    BY <2>1, <1>2
  <2>3. curr_docid' \in Docs /\ \E t \in lists' : at'[t] = curr_docid'
    BY <2>1, <1>10, <1>7
  <2>4. ASSUME NEW t \in lists'
        PROVE  /\ at'[t] >= curr_docid'
               /\ \A e \in postings'[t] : e >= at'[t]
    <3>1. at'[t] \in Nat /\ curr_docid' \in Nat /\ t \in Terms
      BY <1>7, <1>1, <2>3
    <3>2. curr_docid' <= at'[t]
      BY <1>9
    <3>3. \A e \in postings[t] : e \in Nat /\ at'[t] <= e
      BY <3>1, <1>3, <1>4, <1>1
    <3> QED
      BY <3>1, <3>2, <3>3, <1>2
  <2>5. ASSUME NEW t \in Terms \ lists' PROVE Ended(t, curr_docid)'
    BY <2>2, <1>2 DEF Ended
  <2> QED
    BY <2>2, <2>3, <2>4, <2>5, <1>2 DEF ListsAhead
<1>13. ScoredSoFar'
  <2>1. IsFiniteSet({}) /\ Cardinality({}) = 0
    BY FS_EmptySet
  <2>2. IsTopK(K, {}, {})
    BY <2>1, QueryAssumption DEF IsTopK
  <2>3. CASE lists' = {}
    <3>1. Matching' = {}
      BY <2>3, <1>2 DEF Matching, TermsOf
    <3>2. Entries(Docs)' = {}
      BY <3>1 DEF Entries
    <3> QED
      BY <3>2, <2>1, <2>2, <2>3, <1>2 DEF ScoredSoFar
  <2>4. CASE lists' # {}
    <3>1. ASSUME NEW d \in Matching', d < curr_docid' PROVE FALSE
      <4>1. PICK t \in Terms : d \in postings[t]
        BY <3>1, <1>2 DEF Matching, TermsOf
      <4>2. lists' = known /\ t \in lists'
        BY <4>1, <2>4, <1>2
      <4>3. at'[t] <= d /\ curr_docid' <= at'[t]
        BY <4>1, <4>2, <1>4, <1>9
      <4>4. d \in Nat /\ at'[t] \in Nat /\ curr_docid' \in Nat
        BY <4>1, <4>2, <1>1, <1>3, <1>7, <1>10, <2>4
      <4> QED
        BY <3>1, <4>3, <4>4
    <3>2. Entries({d \in Docs : d < curr_docid})' = {}
      BY <3>1 DEF Entries
    <3> QED
      BY <3>2, <2>1, <2>2, <2>4, <1>2 DEF ScoredSoFar
  <2> QED
    BY <2>3, <2>4
<1> QED
  BY <1>11, <1>12, <1>13

\* Scoring the current document takes it into the best of those passed.
LEMMA ScoreKeepsIInv ==
    ASSUME IInv, ScoreDocument
    PROVE  IInv'
<1> USE DEF IInv
<1> DEFINE c == curr_docid
           before == {d \in Docs : d < c}
           upTo == {d \in Docs : d <= c}
           r == [docid |-> c, score |-> Score(Holding, c)]
<1>1. /\ pc = "score" /\ pc' = "move"
      /\ postings' = postings /\ conj' = conj /\ lists' = lists
      /\ at' = at /\ curr_docid' = curr_docid
  BY DEF ScoreDocument
<1>2. c \in Docs /\ Docs \subseteq Nat
  BY <1>1, QueryAssumption DEF ListsAhead, Docs
<1>3. Holding = TermsOf(c) /\ ((conj => Holding = lists) <=> c \in Matching)
  BY <1>1, HoldingIsTermsOf
<1>4. r = EntryOf(c)
  BY <1>3 DEF EntryOf
<1>5. r \in Entry /\ r.docid = c
  BY <1>2, <1>4, EntryType
<1>6. Matching' = Matching /\ \A d : EntryOf(d)' = EntryOf(d)
  BY <1>1 DEF Matching, TermsOf, Ended, EntryOf
<1>7. Entries(upTo)' = Entries(upTo)
  BY <1>6, <1>1 DEF Entries
<1>8. IsFiniteSet(results) /\ IsTopK(K, results, Entries(before))
  BY <1>1 DEF ScoredSoFar
<1>9. upTo = before \cup {c} /\ c \notin before
  <2>1. \A d \in Nat : (d <= c) <=> (d < c \/ d = c)
    BY <1>2
  <2>2. ~(c < c)
    BY <1>2
  <2> QED
    BY <1>2, <2>1, <2>2
<1>10. results' \in SUBSET Entry /\ IsFiniteSet(results')
       /\ IsTopK(K, results', Entries(upTo))
  <2>1. CASE c \in Matching
    <3>1. Entries(upTo) = Entries(before) \cup {r}
      BY <2>1, <1>4, <1>9 DEF Entries
    <3>2. Entries(before) \in SUBSET Entry
      BY EntryType DEF Entries
    <3>3. r \notin Entries(before)
      BY <1>5, <1>9, EntryType DEF Entries
    <3>4. Push(r)
      BY <2>1, <1>3, <1>1 DEF ScoreDocument
    <3> HIDE DEF r, before, upTo
    <3> QED
      BY <3>1, <3>2, <3>3, <3>4, <1>5, <1>8, PushKeepsTopK
  <2>2. CASE c \notin Matching
    <3>1. results' = results
      BY <2>2, <1>3, <1>1 DEF ScoreDocument
    <3>2. Entries(upTo) = Entries(before)
      BY <2>2, <1>9 DEF Entries
    <3> QED
      BY <3>1, <3>2, <1>8 DEF TypeOK
  <2> QED
    BY <2>1, <2>2
<1>11. TypeOK'
  BY <1>1, <1>10 DEF TypeOK
<1>12. ListsAhead'
  BY <1>1 DEF ListsAhead, Ended
<1>13. ScoredSoFar'
  BY <1>1, <1>7, <1>10 DEF ScoredSoFar
<1> QED
  BY <1>11, <1>12, <1>13

\* Moving the lists passes over no document that matches: the next current
\* document is the first that is in any list, and there is none if no list is
\* left.
LEMMA MoveKeepsIInv ==
    ASSUME IInv, MoveLists
    PROVE  IInv'
<1> USE DEF IInv
<1> DEFINE c == curr_docid
           Rest(t) == {d \in postings[t] : d >= at[t] /\ d > c}
           heads == {at'[t] : t \in lists'}
           upTo == {d \in Docs : d <= c}
<1>1. /\ pc = "move"
      /\ at' = [t \in Terms |-> IF t \in lists THEN MinDocid(Rest(t)) ELSE at[t]]
      /\ lists' = {t \in lists : at'[t] # DOCID_MAX}
      /\ curr_docid' = MinDocid(heads)
      /\ pc' = IF lists' = {} THEN "done" ELSE "score"
      /\ postings' = postings /\ conj' = conj /\ results' = results
  BY DEF MoveLists, NextG, Left
<1>2. /\ Docs \subseteq Nat /\ DOCID_MAX \in Nat
      /\ \A d \in Docs : d < DOCID_MAX
  BY QueryAssumption DEF Docs, DOCID_MAX
<1>3. /\ c \in Docs /\ c \in Nat
      /\ lists \subseteq Terms
      /\ \A t \in Terms : postings[t] \subseteq Docs /\ at[t] \in Nat
  BY <1>1, <1>2 DEF ListsAhead, TypeOK
<1>4. ASSUME NEW t \in lists
      PROVE  /\ Rest(t) = {d \in postings[t] : d > c}
             /\ at'[t] \in Rest(t) \cup {DOCID_MAX}
             /\ \A e \in Rest(t) : at'[t] <= e
  <2>1. t \in Terms /\ Rest(t) \in SUBSET (Docs \cup {DOCID_MAX})
    BY <1>3
  <2>2. at'[t] = MinDocid(Rest(t))
    BY <1>1, <2>1
  <2>3. ASSUME NEW d \in postings[t], d > c PROVE d >= at[t]
    <3>1. d \in Nat /\ d >= c
      <4>1. d \in Nat /\ c \in Nat
        BY <2>1, <1>2, <1>3
      <4> HIDE DEF c
      <4> QED
        BY <4>1, <2>3
    <3>2. \A e \in postings[t] : e >= c => e >= at[t]
      BY <1>1 DEF ListsAhead
    <3> QED
      BY <3>1, <3>2
  <2>4. Rest(t) = {d \in postings[t] : d > c}
    BY <2>3
  <2> HIDE DEF Rest
  <2> QED
    BY <2>1, <2>2, <2>4, MinDocidIsLeast
<1>5. ASSUME NEW t \in lists'
      PROVE  /\ t \in lists /\ t \in Terms
             /\ at'[t] \in postings[t] /\ at'[t] \in Docs /\ at'[t] \in Nat
             /\ at'[t] > c
  BY <1>1, <1>2, <1>3, <1>4
<1>6. ASSUME NEW t \in Terms \ lists', NEW d \in postings[t]
      PROVE  d <= c
  <2>1. d \in Docs /\ d \in Nat /\ d < DOCID_MAX
    BY <1>2, <1>3
  <2>2. CASE t \in lists
    <3>1. at'[t] = DOCID_MAX
      BY <2>2, <1>1
    <3>2. d \notin Rest(t)
      BY <3>1, <2>2, <2>1, <1>2, <1>4
    <3> QED
      BY <3>2, <2>2, <2>1, <1>3, <1>4
  <2>3. CASE t \notin lists
    BY <2>3, <2>1, <1>1, <1>3 DEF ListsAhead, Ended
  <2> QED
    BY <2>2, <2>3
<1>7. heads \subseteq Docs \cup {DOCID_MAX}
  BY <1>5
<1>8. curr_docid' \in heads \cup {DOCID_MAX} /\ \A e \in heads : curr_docid' <= e
  BY <1>7, <1>1, MinDocidIsLeast
<1>9. ASSUME lists' # {}
      PROVE  /\ curr_docid' \in heads /\ curr_docid' \in Docs
             /\ curr_docid' \in Nat /\ curr_docid' > c
  <2>1. PICK e \in heads : TRUE
    BY <1>9
  <2>2. e \in Docs /\ e \in Nat /\ e < DOCID_MAX /\ curr_docid' <= e
    BY <2>1, <1>8, <1>5, <1>2
  <2>3. curr_docid' # DOCID_MAX
    BY <2>2, <1>2
  <2> QED
    BY <2>3, <1>8, <1>5
<1>10. TypeOK'
  <2>1. at' \in [Terms -> Docs \cup {DOCID_MAX}]
    <3>1. ASSUME NEW t \in Terms PROVE at'[t] \in Docs \cup {DOCID_MAX}
      <4>1. CASE t \in lists
        BY <4>1, <1>4, <1>3
      <4>2. CASE t \notin lists
        BY <4>2, <1>1 DEF TypeOK
      <4> QED
        BY <4>1, <4>2
    <3> QED
      BY <3>1, <1>1
  <2>2. curr_docid' \in Docs \cup {DOCID_MAX}
    BY <1>8, <1>7
  <2>3. lists' \subseteq Terms /\ \A t \in lists' : at'[t] \in postings'[t]
    BY <1>5, <1>1
  <2>4. pc' \in {"score", "done"}
    BY <1>1
  <2> QED
    BY <2>1, <2>2, <2>3, <2>4, <1>1 DEF TypeOK
<1>11. ListsAhead'
  <2> SUFFICES ASSUME lists' # {} PROVE ListsAhead'
    BY <1>1 DEF ListsAhead
  <2>1. curr_docid' \in Docs /\ \E t \in lists' : at'[t] = curr_docid'
    BY <1>9
  <2>2. ASSUME NEW t \in lists'
        PROVE  /\ at'[t] >= curr_docid'
               /\ \A e \in postings'[t] : e >= curr_docid' => e >= at'[t]
    <3>1. curr_docid' <= at'[t]
      BY <1>8
    <3>2. ASSUME NEW e \in postings[t], e >= curr_docid' PROVE e >= at'[t]
      <4>1. e \in Nat /\ e > c
        <5>1. e \in Nat /\ curr_docid' > c /\ curr_docid' \in Nat
          BY <3>2, <1>2, <1>3, <1>5, <1>9
        <5> QED
          BY <5>1, <3>2, <1>3
      <4>2. e \in Rest(t)
        BY <4>1, <1>4, <1>5
      <4> QED
        BY <4>1, <4>2, <1>4, <1>5
    <3> QED
      BY <3>1, <3>2, <1>1, <1>5, <1>9
  <2>3. ASSUME NEW t \in Terms \ lists' PROVE Ended(t, curr_docid)'
    <3>1. ASSUME NEW e \in postings[t] PROVE e < curr_docid'
      <4>1. e <= c /\ e \in Nat
        BY <1>6, <1>2, <1>3
      <4> QED
        BY <4>1, <1>9, <1>3
    <3> QED
      BY <3>1, <1>1 DEF Ended
  <2>4. conj' => \A t \in Terms : postings'[t] # {}
    BY <1>1 DEF ListsAhead
  <2> QED
    BY <2>1, <2>2, <2>3, <2>4 DEF ListsAhead
<1>12. ScoredSoFar'
  <2>1. IsFiniteSet(results) /\ IsTopK(K, results, Entries(upTo))
    BY <1>1 DEF ScoredSoFar
  <2>2. Matching' = Matching /\ \A d : EntryOf(d)' = EntryOf(d)
    BY <1>1 DEF Matching, TermsOf, Ended, EntryOf
  <2>3. CASE lists' = {}
    <3>1. ASSUME NEW d \in Matching PROVE d \in upTo
      <4>1. d \in Docs /\ \E t \in Terms : d \in postings[t]
        BY DEF Matching, TermsOf
      <4> QED
        BY <4>1, <2>3, <1>6
    <3>2. Matching \cap upTo = Matching \cap Docs
      BY <3>1 DEF Matching
    <3>3. Entries(Docs)' = Entries(upTo)
      BY <3>2, <2>2 DEF Entries
    <3> QED
      BY <3>3, <2>1, <2>3, <1>1 DEF ScoredSoFar
  <2>4. CASE lists' # {}
    <3>1. ASSUME NEW d \in Matching, d < curr_docid' PROVE d <= c
      <4>1. PICK t \in Terms : d \in postings[t]
        BY DEF Matching, TermsOf
      <4>2. d \in Nat
        BY <4>1, <1>2, <1>3
      <4>3. ASSUME t \in lists', d > c PROVE FALSE
        <5>1. at'[t] <= d /\ curr_docid' <= at'[t]
          BY <4>1, <4>3, <1>4, <1>5, <1>8
        <5> QED
          BY <5>1, <4>2, <4>3, <3>1, <1>5, <1>9, <2>4
      <4> QED
        BY <4>1, <4>2, <4>3, <1>3, <1>6
    <3>2. ASSUME NEW d \in Docs, d <= c PROVE d < curr_docid'
      BY <3>2, <1>2, <1>3, <1>9, <2>4
    <3>3. Matching \cap {d \in Docs : d < curr_docid'} = Matching \cap upTo
      BY <3>1, <3>2
    <3>4. Entries({d \in Docs : d < curr_docid})' = Entries(upTo)
      BY <3>3, <2>2 DEF Entries
    <3> QED
      BY <3>4, <2>1, <2>4, <1>1 DEF ScoredSoFar
  <2> QED
    BY <2>3, <2>4
<1> QED
  BY <1>10, <1>11, <1>12

\* Every step keeps the inductive invariant.
LEMMA NextIInv == IInv /\ [Next]_vars => IInv'
<1> SUFFICES ASSUME IInv, [Next]_vars PROVE IInv'
  OBVIOUS
<1>1. CASE BuildHelpers
  BY <1>1, BuildKeepsIInv
<1>2. CASE ScoreDocument
  BY <1>2, ScoreKeepsIInv
<1>3. CASE MoveLists
  BY <1>3, MoveKeepsIInv
<1>4. CASE UNCHANGED vars
  BY <1>4 DEF IInv, TypeOK, ListsAhead, ScoredSoFar, Entries, EntryOf,
              Matching, TermsOf, Ended, vars
<1> QED
  BY <1>1, <1>2, <1>3, <1>4 DEF Next, Terminated

-----------------------------------------------------------------------------
(* The theorems.                                                           *)

\* The inductive invariant holds in every reachable state of a query.
THEOREM InductiveInvariant == Spec => []IInv
  BY InitIInv, NextIInv, PTL DEF Spec

\* A query's state is well typed, for any terms, documents, scores and K: the
\* lists left are at documents of theirs (Index.template.hpp:145-161).
THEOREM TypeCorrect == Spec => []TypeOK
<1>1. IInv => TypeOK
  BY DEF IInv
<1> QED
  BY <1>1, InductiveInvariant, PTL

\* A query ends with the best K of the documents that match, for any terms,
\* documents, scores and K (Index.template.hpp:113-162).
THEOREM TopKCorrect == Spec => []ResultsAreTopK
<1>1. IInv => ResultsAreTopK
  <2> SUFFICES ASSUME IInv, pc = "done"
               PROVE  IsTopK(K, results, {EntryOf(d) : d \in Matching})
    BY DEF ResultsAreTopK
  <2>1. Matching \cap Docs = Matching
    BY DEF Matching
  <2> QED
    BY <2>1 DEF IInv, ScoredSoFar, Entries
<1> QED
  BY <1>1, InductiveInvariant, PTL

=============================================================================
