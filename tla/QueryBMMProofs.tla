--------------------------- MODULE QueryBMMProofs ---------------------------
(***************************************************************************)
(* Proofs of the safety properties of block-max processing, for every      *)
(* collection, contribution, size of the blocks and top_k: where the       *)
(* iterators are, that the answer is the best K when nothing goes wrong,   *)
(* and what makes a bound too small.                                       *)
(***************************************************************************)
EXTENDS QueryBMM, NumberFacts

-----------------------------------------------------------------------------
(* Numbers.                                                                *)

\* Finitely many numbers have a greatest one.
LEMMA MaxIsGreatest ==
    ASSUME NEW S \in SUBSET Nat, S # {}, IsFiniteSet(S)
    PROVE  Max(S) \in S /\ \A y \in S : y <= Max(S)
<1> DEFINE G == {T \in SUBSET S : T # {} => \E x \in T : \A y \in T : y <= x}
<1>1. {} \in G
  OBVIOUS
<1>2. ASSUME NEW T \in SUBSET S, NEW z \in S \ T, T \in G
      PROVE  T \cup {z} \in G
  <2>1. CASE T = {}
    BY <2>1
  <2>2. CASE T # {}
    <3>1. PICK x \in T : \A y \in T : y <= x
      BY <1>2, <2>2
    <3>2. CASE z <= x
      BY <3>1, <3>2
    <3>3. CASE ~(z <= x)
      <4>1. \A y \in T \cup {z} : y <= z
        BY <3>1, <3>3
      <4> QED
        BY <4>1
    <3> QED
      BY <3>2, <3>3
  <2> QED
    BY <2>1, <2>2
<1>3. S \in G
  <2> HIDE DEF G
  <2> QED
    BY <1>1, <1>2, SetOfSets
<1> QED
  BY <1>3 DEF Max

\* The elements of a set of numbers are counted in their order.
LEMMA Counting ==
    ASSUME NEW N \in Nat, NEW L \in SUBSET (1..N)
    PROVE  /\ IsFiniteSet(L) /\ Cardinality(L) \in 0..N
           /\ \A n \in 0..N : Cardinality(L \cap 1..n) \in 0..Cardinality(L)
           /\ \A n \in L : Cardinality(L \cap 1..n) >= 1
           /\ \A n \in L, m \in 0..N :
                 (n <= m) <=> Cardinality(L \cap 1..n) <= Cardinality(L \cap 1..m)
           /\ \A m \in 1..Cardinality(L) : \E n \in L : Cardinality(L \cap 1..n) = m
<1> DEFINE c(n) == Cardinality(L \cap 1..n)
<1>1. IsFiniteSet(1..N) /\ Cardinality(1..N) = N
  BY FS_Interval
<1>2. IsFiniteSet(L) /\ Cardinality(L) \in Nat /\ Cardinality(L) <= N
  BY <1>1, FS_Subset, FS_CardinalityType
<1>3. \A n \in 0..N : IsFiniteSet(L \cap 1..n) /\ c(n) \in Nat /\ c(n) <= Cardinality(L)
  <2>1. \A n \in 0..N : L \cap 1..n \subseteq L
    OBVIOUS
  <2> QED
    BY <1>2, <2>1, FS_Subset, FS_CardinalityType
<1>4. ASSUME NEW n \in 0..N, NEW m \in 0..N, n <= m PROVE c(n) <= c(m)
  <2>1. L \cap 1..n \subseteq L \cap 1..m
    BY <1>4
  <2> QED
    BY <1>3, <2>1, FS_Subset
<1>5. ASSUME NEW n \in L, NEW m \in 0..N, m < n PROVE c(m) < c(n)
  <2>1. L \cap 1..m \subseteq L \cap 1..n /\ n \in L \cap 1..n /\ n \notin L \cap 1..m
    BY <1>5
  <2>2. n \in 0..N
    OBVIOUS
  <2>3. c(m) <= c(n) /\ c(m) # c(n)
    BY <1>3, <2>1, <2>2, FS_Subset
  <2> QED
    BY <1>3, <2>2, <2>3
<1>6. \A n \in L, m \in 0..N : (n <= m) <=> c(n) <= c(m)
  <2> TAKE n \in L, m \in 0..N
  <2>1. n \in 0..N /\ c(n) \in Nat /\ c(m) \in Nat
    BY <1>3
  <2>2. n <= m => c(n) <= c(m)
    BY <1>4, <2>1
  <2>3. ~(n <= m) => c(m) < c(n)
    BY <1>5, <2>1
  <2> HIDE DEF c
  <2> QED
    BY <2>1, <2>2, <2>3
<1>7. c(0) = 0 /\ c(N) = Cardinality(L)
  <2>1. 1..0 = {}
    OBVIOUS
  <2>2. L \cap 1..0 = {}
    BY <2>1
  <2>3. L \cap 1..N = L
    OBVIOUS
  <2> QED
    BY <2>2, <2>3, FS_EmptySet
<1>8. \A n \in L : c(n) >= 1
  <2> TAKE n \in L
  <2>1. 0 \in 0..N /\ 0 < n /\ n \in 0..N
    OBVIOUS
  <2>2. c(0) < c(n) /\ c(n) \in Nat
    BY <1>3, <1>5, <2>1
  <2> QED
    BY <1>7, <2>2
<1>9. ASSUME NEW n \in 0..N, n + 1 \in 0..N
      PROVE  c(n + 1) = IF n + 1 \in L THEN c(n) + 1 ELSE c(n)
  <2>1. CASE n + 1 \in L
    <3>1. L \cap 1..(n + 1) = (L \cap 1..n) \cup {n + 1} /\ n + 1 \notin L \cap 1..n
      BY <2>1
    <3> QED
      BY <1>3, <2>1, <3>1, FS_AddElement
  <2>2. CASE n + 1 \notin L
    <3>1. L \cap 1..(n + 1) = L \cap 1..n
      BY <2>2
    <3> QED
      BY <2>2, <3>1
  <2> QED
    BY <2>1, <2>2
<1>10. \A m \in 1..Cardinality(L) : \E n \in L : c(n) = m
  <2> DEFINE G == {n \in Nat : n \in 0..N => \A m \in 1..c(n) : \E k \in L : c(k) = m}
  <2> HIDE DEF c
  <2>1. 0 \in G
    BY <1>7
  <2>2. ASSUME NEW n \in Nat, n \in G PROVE n + 1 \in G
    <3> SUFFICES ASSUME n + 1 \in 0..N, NEW m \in 1..c(n + 1)
                 PROVE  \E k \in L : c(k) = m
      OBVIOUS
    <3>1. n \in 0..N
      OBVIOUS
    <3> c(n) \in Nat
      BY <1>3, <3>1
    <3>2. CASE m \in 1..c(n)
      BY <2>2, <3>1, <3>2
    <3>3. CASE m \notin 1..c(n)
      <4>1. n + 1 \in L /\ m = c(n + 1)
        BY <1>9, <3>1, <3>3
      <4> QED
        BY <4>1
    <3> QED
      BY <3>2, <3>3
  <2>3. \A n \in Nat : n \in G
    <3> HIDE DEF G
    <3> QED
      BY <2>1, <2>2, SetOfNumbers
  <2>4. N \in 0..N
    OBVIOUS
  <2> QED
    BY <1>7, <2>3, <2>4
<1>11. Cardinality(L) \in 0..N
  BY <1>2
<1>12. \A n \in 0..N : c(n) \in 0..Cardinality(L)
  BY <1>2, <1>3
<1> QED
  BY <1>2, <1>6, <1>8, <1>10, <1>11, <1>12

\* The lesser of two numbers.
LEMMA MinOfTwo ==
    ASSUME NEW x \in Nat, NEW y \in Nat
    PROVE  Min({x, y}) = IF x <= y THEN x ELSE y
<1>1. {x, y} \in SUBSET Nat /\ {x, y} # {}
  OBVIOUS
<1>2. Min({x, y}) \in {x, y} /\ \A z \in {x, y} : Min({x, y}) <= z
  BY <1>1, MinIsLeast
<1> QED
  BY <1>2

-----------------------------------------------------------------------------
(* Lists and their iterators.                                              *)

\* The documents before a position of a list, and the docid that an iterator has there.
PassedAt(s, a) == {s[p] : p \in 1..(a - 1)}
HeadAt(s, a) == s[Min({a, Len(s)})]

\* A list is a sequence of docids that increase.
LEMMA PostingListType ==
    ASSUME NEW s \in PostingLists
    PROVE  /\ s \in Seq(Docs) /\ Len(s) \in Nat /\ DOMAIN s = 1..Len(s)
           /\ \A p \in 1..Len(s) : s[p] \in Docs
           /\ \A p, q \in 1..Len(s) : p < q => s[p] < s[q]
           /\ ToSet(s) \subseteq Docs
<1>1. NDocs \in Nat
  BY BMMAssumption
<1>2. s \in Seq(Docs) /\ \A p, q \in DOMAIN s : p < q => s[p] < s[q]
  BY DEF PostingLists
<1>3. Len(s) \in Nat /\ DOMAIN s = 1..Len(s) /\ \A p \in 1..Len(s) : s[p] \in Docs
  BY <1>2
<1>4. ToSet(s) \subseteq Docs
  BY <1>3 DEF ToSet
<1> QED
  BY <1>2, <1>3, <1>4

\* An iterator that is not at the end is at the first document it has not passed;
\* one at the end has passed all, and keeps the last.
LEMMA IteratorIsAtNext ==
    ASSUME NEW s \in PostingLists, s # <<>>, NEW a \in 1..(Len(s) + 1)
    PROVE  /\ HeadAt(s, a) \in ToSet(s) /\ HeadAt(s, a) \in Docs /\ HeadAt(s, a) \in Nat
           /\ PassedAt(s, a) \subseteq ToSet(s)
           /\ \A d \in PassedAt(s, a) : d <= HeadAt(s, a)
           /\ a # Len(s) + 1 => /\ a \in 1..Len(s) /\ HeadAt(s, a) = s[a]
                                /\ \A d \in PassedAt(s, a) : d < HeadAt(s, a)
                                /\ \A d \in ToSet(s) : d \in PassedAt(s, a) \/ HeadAt(s, a) <= d
           /\ a = Len(s) + 1 => PassedAt(s, a) = ToSet(s)
<1>1. /\ Len(s) \in Nat /\ DOMAIN s = 1..Len(s) /\ s \in Seq(Docs)
      /\ \A p \in 1..Len(s) : s[p] \in Docs
      /\ \A p, q \in 1..Len(s) : p < q => s[p] < s[q]
  BY PostingListType
<1>2. Docs \subseteq Nat
  BY BMMAssumption DEF Docs
<1>3. Len(s) >= 1
  BY <1>1
<1>4. Min({a, Len(s)}) = IF a <= Len(s) THEN a ELSE Len(s)
  BY <1>1, MinOfTwo
<1>5. HeadAt(s, a) = IF a <= Len(s) THEN s[a] ELSE s[Len(s)]
  BY <1>4 DEF HeadAt
<1>6. HeadAt(s, a) \in ToSet(s) /\ HeadAt(s, a) \in Docs /\ HeadAt(s, a) \in Nat
  <2>1. PICK p \in 1..Len(s) : HeadAt(s, a) = s[p]
    <3>1. CASE a <= Len(s)
      <4>1. a \in 1..Len(s)
        BY <3>1
      <4> QED
        BY <1>5, <3>1, <4>1
    <3>2. CASE ~(a <= Len(s))
      <4>1. Len(s) \in 1..Len(s)
        BY <1>3
      <4> QED
        BY <1>5, <3>2, <4>1
    <3> QED
      BY <3>1, <3>2
  <2>2. s[p] \in ToSet(s)
    BY <1>1 DEF ToSet
  <2> QED
    BY <1>1, <1>2, <2>1, <2>2
<1>7. PassedAt(s, a) \subseteq ToSet(s)
  BY <1>1 DEF PassedAt, ToSet
<1>8. CASE a # Len(s) + 1
  <2>1. a \in 1..Len(s) /\ HeadAt(s, a) = s[a]
    BY <1>1, <1>5, <1>8
  <2>2. ASSUME NEW d \in PassedAt(s, a) PROVE d < HeadAt(s, a)
    <3>1. PICK p \in 1..(a - 1) : d = s[p]
      BY DEF PassedAt
    <3>2. p \in 1..Len(s) /\ p < a
      BY <1>1, <2>1
    <3> QED
      BY <1>1, <2>1, <3>1, <3>2
  <2>3. ASSUME NEW d \in ToSet(s), d \notin PassedAt(s, a) PROVE HeadAt(s, a) <= d
    <3>1. PICK p \in 1..Len(s) : d = s[p]
      BY <1>1 DEF ToSet
    <3>2. p \notin 1..(a - 1)
      BY <2>3, <3>1 DEF PassedAt
    <3>3. p = a \/ a < p
      BY <1>1, <2>1, <3>2
    <3>4. s[p] \in Nat /\ s[a] \in Nat
      BY <1>1, <1>2, <2>1
    <3>5. a < p => s[a] < s[p]
      BY <1>1, <2>1
    <3> QED
      BY <2>1, <3>1, <3>3, <3>4, <3>5
  <2>4. \A d \in PassedAt(s, a) : d \in Nat
    BY <1>1, <1>2, <1>7 DEF ToSet
  <2>5. \A d \in PassedAt(s, a) : d <= HeadAt(s, a)
    BY <1>6, <2>2, <2>4
  <2> QED
    BY <1>6, <1>7, <1>8, <2>1, <2>2, <2>3, <2>5
<1>9. CASE a = Len(s) + 1
  <2>1. PassedAt(s, a) = ToSet(s)
    <3>1. a - 1 = Len(s)
      BY <1>1, <1>9
    <3> QED
      BY <1>1, <3>1 DEF PassedAt, ToSet
  <2>2. ASSUME NEW d \in PassedAt(s, a) PROVE d <= HeadAt(s, a)
    <3>1. PICK p \in 1..Len(s) : d = s[p]
      BY <1>1, <2>1 DEF ToSet
    <3>2. HeadAt(s, a) = s[Len(s)]
      BY <1>1, <1>5, <1>9
    <3> Len(s) \in Nat /\ Len(s) \in 1..Len(s)
      BY <1>3, PostingListType
    <3>3. p = Len(s) \/ p < Len(s)
      OBVIOUS
    <3>4. s[p] \in Nat /\ s[Len(s)] \in Nat
      BY <1>1, <1>2
    <3>5. p < Len(s) => s[p] < s[Len(s)]
      BY <1>1
    <3> QED
      BY <3>1, <3>2, <3>3, <3>4, <3>5
  <2> QED
    BY <1>6, <1>7, <1>9, <2>1, <2>2
<1> QED
  BY <1>8, <1>9

\* ++ passes the document that the iterator is at, and only at the end stays with it.
LEMMA IteratorMoves ==
    ASSUME NEW s \in PostingLists, NEW a \in 1..Len(s)
    PROVE  /\ Min({a + 1, Len(s) + 1}) = a + 1 /\ a + 1 \in 1..(Len(s) + 1)
           /\ PassedAt(s, a + 1) = PassedAt(s, a) \cup {HeadAt(s, a)}
           /\ HeadAt(s, a + 1) >= HeadAt(s, a)
           /\ HeadAt(s, a + 1) = HeadAt(s, a) => a + 1 = Len(s) + 1
<1>1. /\ Len(s) \in Nat /\ DOMAIN s = 1..Len(s)
      /\ \A p \in 1..Len(s) : s[p] \in Docs
      /\ \A p, q \in 1..Len(s) : p < q => s[p] < s[q]
  BY PostingListType
<1>2. Docs \subseteq Nat
  BY BMMAssumption DEF Docs
<1>3. a + 1 \in Nat /\ Len(s) + 1 \in Nat /\ a + 1 <= Len(s) + 1 /\ a \in Nat
  BY <1>1
<1>4. Min({a + 1, Len(s) + 1}) = a + 1
  BY <1>3, MinOfTwo
<1>5. Min({a, Len(s)}) = a
  BY <1>1, <1>3, MinOfTwo
<1>6. Min({a + 1, Len(s)}) = IF a + 1 <= Len(s) THEN a + 1 ELSE Len(s)
  BY <1>1, <1>3, MinOfTwo
<1>7. HeadAt(s, a) = s[a] /\ HeadAt(s, a + 1) = IF a + 1 <= Len(s) THEN s[a + 1] ELSE s[Len(s)]
  BY <1>5, <1>6 DEF HeadAt
<1>8. 1..((a + 1) - 1) = 1..(a - 1) \cup {a}
  BY <1>1
<1>9. PassedAt(s, a + 1) = PassedAt(s, a) \cup {s[a]}
  BY <1>8 DEF PassedAt
<1>10. CASE a + 1 <= Len(s)
  <2>1. s[a] < s[a + 1] /\ s[a] \in Nat /\ s[a + 1] \in Nat
    <3>1. a + 1 \in 1..Len(s) /\ a < a + 1
      BY <1>1, <1>10
    <3> QED
      BY <1>1, <1>2, <3>1
  <2> QED
    BY <1>3, <1>4, <1>7, <1>9, <1>10, <2>1
<1>11. CASE ~(a + 1 <= Len(s))
  <2> Len(s) \in Nat
    BY PostingListType
  <2>1. a = Len(s)
    BY <1>11
  <2>2. s[a] \in Nat
    BY <1>1, <1>2
  <2> QED
    BY <1>3, <1>4, <1>7, <1>9, <1>11, <2>1, <2>2
<1> QED
  BY <1>10, <1>11

\* nextGEQ passes only documents before the one it looks for, and finds it if the
\* list has it and the iterator had not passed it.
LEMMA NextGEQFinds ==
    ASSUME NEW s \in PostingLists, NEW a \in 1..(Len(s) + 1), NEW c \in Nat,
           NEW b, b = Min({Len(s) + 1} \cup {p \in a..Len(s) : s[p] >= c})
    PROVE  /\ b \in 1..(Len(s) + 1)
           /\ \A d \in PassedAt(s, b) : d \in PassedAt(s, a) \/ d < c
           /\ PassedAt(s, a) \subseteq PassedAt(s, b)
           /\ (b <= Len(s) /\ s[b] = c) <=> c \in ToSet(s) \ PassedAt(s, a)
<1>1. /\ Len(s) \in Nat /\ DOMAIN s = 1..Len(s)
      /\ \A p \in 1..Len(s) : s[p] \in Docs
      /\ \A p, q \in 1..Len(s) : p < q => s[p] < s[q]
  BY PostingListType
<1>2. Docs \subseteq Nat
  BY BMMAssumption DEF Docs
<1> DEFINE Q == {Len(s) + 1} \cup {p \in a..Len(s) : s[p] >= c}
<1>3. Q \in SUBSET Nat /\ Q # {} /\ \A p \in Q : p \in a..(Len(s) + 1)
  BY <1>1
<1>4. b \in Q /\ \A p \in Q : b <= p
  BY <1>3, MinIsLeast
<1>5. b \in a..(Len(s) + 1) /\ b \in 1..(Len(s) + 1)
  BY <1>1, <1>3, <1>4
<1>6. ASSUME NEW d \in PassedAt(s, b), d \notin PassedAt(s, a) PROVE d < c
  <2>1. PICK p \in 1..(b - 1) : d = s[p]
    BY DEF PassedAt
  <2>2. p \notin 1..(a - 1)
    BY <1>6, <2>1 DEF PassedAt
  <2>3. p \in a..Len(s) /\ p < b /\ p \in 1..Len(s)
    BY <1>1, <1>5, <2>2
  <2>4. s[p] \in Nat
    BY <1>1, <1>2, <2>3
  <2>5. p \notin Q
    <3> HIDE DEF Q
    <3> p \in Nat /\ b \in Nat
      BY <1>5, <2>3
    <3> QED
      BY <1>4, <2>3
  <2> QED
    BY <2>1, <2>3, <2>4, <2>5
<1>7. PassedAt(s, a) \subseteq PassedAt(s, b)
  <2>1. a \in Nat /\ b \in Nat /\ a <= b
    <3> Len(s) \in Nat
      BY PostingListType
    <3> QED
      BY <1>5
  <2>2. ASSUME NEW p \in 1..(a - 1) PROVE p \in 1..(b - 1)
    BY <2>1
  <2> QED
    BY <2>2 DEF PassedAt
<1>8. ASSUME b <= Len(s), s[b] = c PROVE c \in ToSet(s) \ PassedAt(s, a)
  <2>1. b \in 1..Len(s)
    BY <1>1, <1>5, <1>8
  <2>2. c \in ToSet(s)
    BY <1>1, <1>8, <2>1 DEF ToSet
  <2>3. ASSUME NEW p \in 1..(a - 1) PROVE s[p] # c
    <3>1. p \in 1..Len(s) /\ p < b
      BY <1>1, <1>5
    <3>2. s[p] < s[b] /\ s[p] \in Nat
      BY <1>1, <1>2, <2>1, <3>1
    <3> QED
      BY <1>8, <3>2
  <2> QED
    BY <2>2, <2>3 DEF PassedAt
<1>9. ASSUME c \in ToSet(s), c \notin PassedAt(s, a) PROVE b <= Len(s) /\ s[b] = c
  <2>1. PICK p \in 1..Len(s) : s[p] = c
    BY <1>1, <1>9 DEF ToSet
  <2>2. p \notin 1..(a - 1)
    BY <1>9, <2>1 DEF PassedAt
  <2>3. p \in a..Len(s)
    BY <1>1, <2>2
  <2>4. p \in Q
    BY <2>1, <2>3
  <2>5. b <= p /\ b <= Len(s) /\ b \in 1..Len(s)
    BY <1>1, <1>4, <1>5, <2>4
  <2>6. s[b] >= c
    BY <1>1, <1>4, <2>5
  <2>7. b < p => s[b] < s[p]
    BY <1>1, <2>5
  <2>8. b = p \/ b < p
    BY <1>5, <2>5
  <2>9. s[b] \in Nat
    BY <1>1, <1>2, <2>5
  <2> QED
    BY <2>1, <2>5, <2>6, <2>7, <2>8, <2>9
<1> QED
  BY <1>5, <1>6, <1>7, <1>8, <1>9

-----------------------------------------------------------------------------
(* Contributions and their sums.                                           *)

Scores(d) == [t \in Terms |-> Contribution(t, d)]

\* What some terms add to the score of a document is a sum over them.
LEMMA ScoreIsSum ==
    ASSUME NEW d \in Docs, NEW T \in SUBSET Terms
    PROVE  /\ SumFunction([t \in T |-> Contribution(t, d)]) = SumFunctionOnSet(Scores(d), T)
           /\ SumFunctionOnSet(Scores(d), T) \in Nat
<1> DEFINE f == [t \in T |-> Contribution(t, d)]
           g == Scores(d)
<1>1. IsFiniteSet(T) /\ \A t \in Terms : Contribution(t, d) \in Nat
  BY BMMAssumption, FS_Subset
<1>2. DOMAIN f = T /\ \A t \in T : g[t] \in Nat /\ g[t] = f[t]
  BY <1>1 DEF Scores
<1>3. SumFunction(f) = SumFunctionOnSet(f, T)
  BY <1>2 DEF SumFunction
<1> HIDE DEF f, g
<1>4. SumFunctionOnSet(g, T) = SumFunctionOnSet(f, T) /\ SumFunctionOnSet(g, T) \in Nat
  BY <1>1, <1>2, SumSame, SumType
<1> QED
  BY <1>3, <1>4 DEF f, g

\* MinDocid is the least of its docids.
LEMMA MinDocidIsLeast ==
    ASSUME NEW D \in SUBSET Docs
    PROVE  /\ MinDocid(D) \in 1..DOCID_MAX
           /\ \A e \in D : MinDocid(D) <= e
           /\ D # {} => MinDocid(D) \in D
<1>1. NDocs \in Nat
  BY BMMAssumption
<1> DEFINE E == D \cup {DOCID_MAX}
<1>2. E \in SUBSET Nat /\ E # {}
  BY <1>1 DEF Docs, DOCID_MAX
<1>3. Min(E) \in E /\ \A e \in E : Min(E) <= e
  <2> HIDE DEF E
  <2> QED
    BY <1>2, MinIsLeast
<1>4. MinDocid(D) = Min(E)
  BY DEF MinDocid
<1>5. \A e \in D : e < DOCID_MAX /\ e \in 1..DOCID_MAX
  BY <1>1 DEF Docs, DOCID_MAX
<1>6. DOCID_MAX \in 1..DOCID_MAX /\ DOCID_MAX \in Nat
  BY <1>1 DEF DOCID_MAX
<1>7. ASSUME D # {} PROVE MinDocid(D) \in D
  <2>1. PICK e \in D : TRUE
    BY <1>7
  <2>2. Min(E) <= e /\ e < DOCID_MAX /\ e \in Nat
    BY <1>2, <1>3, <1>5
  <2>3. Min(E) # DOCID_MAX
    BY <1>6, <2>2
  <2> QED
    BY <1>3, <1>4, <2>3
<1> QED
  BY <1>3, <1>4, <1>5, <1>6, <1>7

\* The greatest of a term's contributions at some positions of its list is one of them.
LEMMA GreatestOfIsGreatest ==
    ASSUME postings \in [Terms -> PostingLists], NEW t \in Terms,
           NEW P \in SUBSET (1..Size(t)), P # {}
    PROVE  /\ \E p \in P : GreatestOf(t, P) = Contribution(t, postings[t][p])
           /\ \A p \in P : Contribution(t, postings[t][p]) <= GreatestOf(t, P)
           /\ GreatestOf(t, P) \in Nat
<1>1. /\ postings[t] \in PostingLists /\ Size(t) \in Nat
      /\ \A p \in 1..Size(t) : postings[t][p] \in Docs
  BY PostingListType DEF Size
<1>2. IsFiniteSet(1..Size(t))
  BY <1>1, FS_Interval
<1>3. IsFiniteSet(P)
  BY <1>2, FS_Subset
<1> DEFINE h == [p \in P |-> Contribution(t, postings[t][p])]
           S == {Contribution(t, postings[t][p]) : p \in P}
<1>4. S \in SUBSET Nat /\ S # {}
  BY <1>1, BMMAssumption
<1>5. IsFiniteSet(S)
  <2>1. h \in Surjection(P, S)
    BY DEF Surjection
  <2> QED
    BY <1>3, <2>1, FS_Surjection
<1>6. Max(S) \in S /\ \A y \in S : y <= Max(S)
  <2> HIDE DEF S
  <2> QED
    BY <1>4, <1>5, MaxIsGreatest
<1>7. GreatestOf(t, P) = Max(S)
  BY DEF GreatestOf
<1> QED
  BY <1>4, <1>6, <1>7

\* A bound of a list of the query is a number.
LEMMA SigmaType ==
    ASSUME postings \in [Terms -> PostingLists], NEW t \in Terms, postings[t] # <<>>
    PROVE  Sigma(t) \in Nat
<1>1. 1..Size(t) \in SUBSET (1..Size(t)) /\ 1..Size(t) # {}
  BY PostingListType DEF Size
<1>2. GreatestOf(t, 1..Size(t)) \in Nat
  BY <1>1, GreatestOfIsGreatest
<1>3. Precision \in Nat \ {0}
  BY BMMAssumption
<1>4. \A n \in Nat : (n \div Precision) * Precision \in Nat
  BY <1>3
<1> QED
  BY <1>2, <1>4 DEF Sigma, FixedPoint

-----------------------------------------------------------------------------
(* Where the iterators are.                                                *)

Round == {"bub", "rest", "push", "erase"}
Known == {t \in Terms : postings[t] # <<>>}
Gone == Known \ ToSet(lists)

\* The documents of a list that its iterator has passed.
Passed(t) == PassedAt(postings[t], at[t])

Types ==
    /\ postings \in [Terms -> PostingLists]
    /\ at \in [Terms -> Nat] /\ \A t \in Terms : at[t] \in 1..(Size(t) + 1)
    /\ skipped \subseteq Terms
    /\ lists \in Seq(Known) /\ IsInjective(lists)
    /\ pivot \in 0..Len(lists)
    /\ threshold \in Nat /\ score \in Nat /\ j \in Nat
    /\ curr_docid \in 1..DOCID_MAX /\ next \in 1..DOCID_MAX
    /\ results \subseteq [docid : Docs, score : Nat, again : BOOLEAN]
    /\ IsFiniteSet(results) /\ Cardinality(results) <= K
    /\ scored \subseteq Docs
    /\ faults \subseteq Faults
    /\ pc \in {"build", "essential", "done"} \cup Round

\* Before the first round nothing has happened.
Building ==
    pc = "build" =>
      /\ lists = <<>> /\ at = [t \in Terms |-> 1] /\ skipped = {} /\ pivot = 0
      /\ results = {} /\ scored = {} /\ faults = {} /\ threshold = 0

\* Between two rounds no list has ended, and the iterators of the essential ones are
\* not before the current document, nor at it if it has been scored.
BetweenRounds ==
    pc \in {"essential", "done"} =>
      /\ \A t \in ToSet(lists) : ~AtEnd(t)
      /\ \A t \in ToSet(lists) : \A d \in Passed(t) : d < curr_docid \/ d \in scored
      /\ \A t \in Essential : First(t) >= curr_docid
      /\ \A t \in Essential : curr_docid \in scored => First(t) > curr_docid
      /\ pc = "essential" => pivot < Len(lists)
      /\ pc = "done" => pivot = Len(lists)

\* In a round the iterators of the essential lists are past the current document, or
\* ended with it ...
EssentialInRound ==
    pc \in Round =>
      \A t \in Essential : /\ First(t) >= curr_docid
                           /\ First(t) = curr_docid => AtEnd(t)
                           /\ First(t) >= next

\* ... no list is past it that must still be looked at ...
PassedInRound ==
    pc \in Round =>
      /\ \A t \in ToSet(lists) : \A d \in Passed(t) : d <= curr_docid
      /\ \A t \in Lesser(pivot) : curr_docid \in Passed(t) => curr_docid \in scored
      /\ pc = "bub" => \A t \in Lesser(pivot) : ~AtEnd(t)

\* ... and the next document is the current one only when a list ended with it.
NextInRound ==
    pc \in Round =>
      /\ curr_docid \in Docs /\ next \in Docs
      /\ next >= curr_docid
      /\ TermsOf(next) # {}
      /\ next = curr_docid => \E t \in ToSet(lists) : AtEnd(t) /\ First(t) = curr_docid
      /\ (pc # "erase" /\ curr_docid \in scored) => next > curr_docid
      /\ pc = "erase" => curr_docid \in scored
      /\ pc \in {"bub", "rest"} => pivot > 0
      /\ pc = "rest" => j <= pivot

\* The documents before the current one that a list has which is essential, or which
\* is gone, have been seen.
Seen ==
    pc # "build" =>
      /\ \A d \in scored : d <= curr_docid
      /\ \A t \in Essential : \A d \in ToSet(postings[t]) : d < curr_docid => d \in scored
      /\ \A t \in Gone : \A d \in ToSet(postings[t]) : d < curr_docid \/ d \in scored
      /\ pc # "done" => TermsOf(curr_docid) # {}

\* A list is essential until it is not: only then does its iterator skip blocks.
Unskipped == Essential \cap skipped = {}

PInv ==
    /\ Types /\ Building /\ BetweenRounds /\ Unskipped
    /\ EssentialInRound /\ PassedInRound /\ NextInRound /\ Seen

\* The lists, as terms.
LEMMA ListsAreTerms ==
    ASSUME Types
    PROVE  /\ Len(lists) \in Nat /\ DOMAIN lists = 1..Len(lists) /\ pivot \in Nat
           /\ \A n \in 1..Len(lists) : lists[n] \in Known
           /\ \A m, n \in 1..Len(lists) : lists[m] = lists[n] => m = n
           /\ ToSet(lists) \subseteq Known /\ Known \subseteq Terms
           /\ ToSet(lists) = Lesser(pivot) \cup Essential
           /\ Lesser(pivot) \cap Essential = {}
           /\ \A n \in 0..Len(lists) : Lesser(n) \subseteq ToSet(lists)
           /\ \A m, n \in 0..Len(lists) : m <= n => Lesser(m) \subseteq Lesser(n)
           /\ pivot < Len(lists) => Essential # {}
<1>1. Len(lists) \in Nat /\ DOMAIN lists = 1..Len(lists) /\ pivot \in Nat /\ pivot <= Len(lists)
  BY DEF Types
<1>2. \A n \in 1..Len(lists) : lists[n] \in Known
  BY DEF Types
<1>3. \A m, n \in 1..Len(lists) : lists[m] = lists[n] => m = n
  BY <1>1 DEF Types, IsInjective
<1>4. ToSet(lists) \subseteq Known /\ Known \subseteq Terms
  BY <1>1, <1>2 DEF ToSet, Known
<1>5. ToSet(lists) = Lesser(pivot) \cup Essential
  <2>1. 1..Len(lists) = 1..pivot \cup (pivot + 1)..Len(lists)
    BY <1>1
  <2> QED
    BY <1>1, <2>1 DEF ToSet, Lesser, Essential
<1>6. Lesser(pivot) \cap Essential = {}
  <2> SUFFICES ASSUME NEW m \in 1..pivot, NEW n \in (pivot + 1)..Len(lists), lists[m] = lists[n]
               PROVE  FALSE
    BY DEF Lesser, Essential
  <2>1. m \in 1..Len(lists) /\ n \in 1..Len(lists) /\ m # n
    BY <1>1
  <2> QED
    BY <1>3, <2>1
<1>7. \A n \in 0..Len(lists) : Lesser(n) \subseteq ToSet(lists)
  BY <1>1 DEF Lesser, ToSet
<1>8. \A m, n \in 0..Len(lists) : m <= n => Lesser(m) \subseteq Lesser(n)
  BY <1>1 DEF Lesser
<1>9. pivot < Len(lists) => Essential # {}
  BY <1>1 DEF Essential
<1> QED
  BY <1>1, <1>2, <1>3, <1>4, <1>5, <1>6, <1>7, <1>8, <1>9

\* The iterators of the lists, as IteratorIsAtNext says of each.
LEMMA Iterators ==
    ASSUME Types, NEW t \in Known
    PROVE  /\ postings[t] \in PostingLists /\ postings[t] # <<>>
           /\ at[t] \in 1..(Len(postings[t]) + 1)
           /\ First(t) = HeadAt(postings[t], at[t])
           /\ First(t) \in ToSet(postings[t]) /\ First(t) \in Docs
           /\ ToSet(postings[t]) \subseteq Docs
           /\ Passed(t) \subseteq ToSet(postings[t])
           /\ \A d \in Passed(t) : d <= First(t)
           /\ ~AtEnd(t) => \A d \in Passed(t) : d < First(t)
           /\ ~AtEnd(t) => \A d \in ToSet(postings[t]) : d \in Passed(t) \/ First(t) <= d
           /\ AtEnd(t) => Passed(t) = ToSet(postings[t])
<1> DEFINE s == postings[t]
           a == at[t]
<1>1. s \in PostingLists /\ s # <<>> /\ a \in 1..(Len(s) + 1)
  BY DEF Types, Known, Size
<1>2. First(t) = HeadAt(s, a) /\ Passed(t) = PassedAt(s, a) /\ (AtEnd(t) <=> a = Len(s) + 1)
  BY DEF First, HeadAt, Passed, Size, AtEnd
<1>3. ToSet(s) \subseteq Docs
  BY <1>1, PostingListType
<1> HIDE DEF s, a
<1>4. /\ HeadAt(s, a) \in ToSet(s) /\ HeadAt(s, a) \in Docs
      /\ PassedAt(s, a) \subseteq ToSet(s)
      /\ \A d \in PassedAt(s, a) : d <= HeadAt(s, a)
      /\ a # Len(s) + 1 => /\ \A d \in PassedAt(s, a) : d < HeadAt(s, a)
                           /\ \A d \in ToSet(s) : d \in PassedAt(s, a) \/ HeadAt(s, a) <= d
      /\ a = Len(s) + 1 => PassedAt(s, a) = ToSet(s)
  BY <1>1, IteratorIsAtNext
<1> QED
  BY <1>1, <1>2, <1>3, <1>4 DEF s, a

\* Docids are numbers.
LEMMA DocidType ==
    /\ NDocs \in Nat /\ Docs \subseteq Nat /\ DOCID_MAX \in Nat
    /\ \A d \in Docs : d \in 1..DOCID_MAX /\ d < DOCID_MAX
    /\ \A d \in 1..DOCID_MAX : d \in Nat
BY BMMAssumption DEF Docs, DOCID_MAX

\* Nothing has begun when the query does.
LEMMA InitPInv == Init => PInv
<1> SUFFICES ASSUME Init PROVE PInv
  OBVIOUS
<1>1. K \in Nat \ {0} /\ NDocs \in Nat
  BY BMMAssumption
<1>2. IsFiniteSet({}) /\ Cardinality({}) = 0
  BY FS_EmptySet
<1>3. \A t \in Terms : 1 \in 1..(Size(t) + 1)
  BY PostingListType DEF Init, Size
<1>4. Types
  <2>1. lists \in Seq(Known) /\ IsInjective(lists) /\ pivot \in 0..Len(lists)
    BY DEF Init, IsInjective
  <2>2. DOCID_MAX \in 1..DOCID_MAX
    BY <1>1 DEF DOCID_MAX
  <2> QED
    BY <1>1, <1>2, <1>3, <2>1, <2>2 DEF Types, Init
<1> QED
  BY <1>4 DEF PInv, Init, Building, BetweenRounds, EssentialInRound, PassedInRound, NextInRound,
              Seen, Round, Unskipped

\* The lists that the query starts with are those of the terms it knows.
LEMMA SortedLists ==
    ASSUME postings \in [Terms -> PostingLists], NEW s \in Sorted(Known)
    PROVE  s \in Seq(Known) /\ IsInjective(s) /\ ToSet(s) = Known
<1>1. PICK m \in 0..Cardinality(Known) : s \in [1..m -> Known]
  BY DEF Sorted, SeqOf
<1>2. IsFiniteSet(Known)
  BY BMMAssumption, FS_Subset DEF Known
<1>3. m \in Nat
  BY <1>2, FS_CardinalityType
<1>4. s \in Seq(Known) /\ DOMAIN s = 1..m
  BY <1>1, <1>3
<1>5. \A t \in Known : ~Before(t, t)
  <2> TAKE t \in Known
  <2>1. Sigma(t) \in Nat /\ t \in Nat
    BY BMMAssumption, SigmaType DEF Known
  <2> QED
    BY <2>1 DEF Before
<1>6. \A a, b \in 1..m : a < b => s[a] # s[b]
  BY <1>1, <1>4, <1>5 DEF Sorted
<1>7. IsInjective(s)
  <2> SUFFICES ASSUME NEW a \in 1..m, NEW b \in 1..m, s[a] = s[b] PROVE a = b
    BY <1>4 DEF IsInjective
  <2>1. ~(a < b) /\ ~(b < a)
    BY <1>6
  <2> QED
    BY <1>3, <2>1
<1> QED
  BY <1>4, <1>7 DEF Sorted

\* Ordering the lists puts the current document at the first one that they hold.
LEMMA BuildHelpersKeepsPInv == PInv /\ BuildHelpers => PInv'
<1> SUFFICES ASSUME PInv, BuildHelpers PROVE PInv'
  OBVIOUS
<1>1. Types /\ pc = "build" /\ at = [t \in Terms |-> 1] /\ pivot = 0 /\ scored = {} /\ skipped = {}
  BY DEF PInv, Building, BuildHelpers
<1>2. UNCHANGED <<postings, at, skipped, pivot, threshold, next, score, j, results, scored, faults>>
  BY DEF BuildHelpers
<1>3. Known' = Known
  BY <1>2 DEF Known
<1>4. lists' \in Seq(Known) /\ IsInjective(lists') /\ ToSet(lists') = Known
  BY <1>1, SortedLists DEF BuildHelpers, Types, Known
<1>5. /\ curr_docid' = MinDocid({First(t) : t \in Known})
      /\ pc' = IF 0 < Len(lists') THEN "essential" ELSE "done"
  BY <1>1 DEF BuildHelpers, Known, Continues
<1>6. Len(lists') \in Nat /\ DOMAIN lists' = 1..Len(lists') /\ pivot' = 0
  BY <1>1, <1>2, <1>4
<1>7. Essential' = Known /\ Lesser(pivot)' = {}
  <2>1. (pivot' + 1)..Len(lists') = 1..Len(lists') /\ 1..pivot' = {}
    BY <1>6
  <2> QED
    BY <1>4, <1>6, <2>1 DEF Essential, Lesser, ToSet
<1>8. \A t \in Terms : First(t)' = First(t) /\ Passed(t)' = {} /\ (AtEnd(t)' <=> AtEnd(t))
  BY <1>1, <1>2 DEF First, Passed, PassedAt, AtEnd, Size
<1>9. \A t \in Known : ~AtEnd(t)
  BY <1>1, PostingListType DEF AtEnd, Size, Known, Types
<1> DEFINE D == {First(t) : t \in Known}
<1>10. /\ D \in SUBSET Docs /\ \A t \in Known : First(t) \in Nat
       /\ \A t \in Known : First(t) \in ToSet(postings[t])
  BY <1>1, Iterators, DocidType
<1>11. /\ curr_docid' \in 1..DOCID_MAX
       /\ \A t \in Known : curr_docid' <= First(t)
       /\ Known # {} => curr_docid' \in D
  <2> HIDE DEF D
  <2>1. curr_docid' = MinDocid(D)
    BY <1>5 DEF D
  <2>2. /\ MinDocid(D) \in 1..DOCID_MAX /\ \A e \in D : MinDocid(D) <= e
        /\ D # {} => MinDocid(D) \in D
    BY <1>10, MinDocidIsLeast
  <2>3. Known # {} => D # {}
    BY DEF D
  <2>4. \A t \in Known : First(t) \in D
    BY DEF D
  <2> QED
    BY <2>1, <2>2, <2>3, <2>4
<1>12. Types'
  BY <1>1, <1>2, <1>3, <1>4, <1>5, <1>6, <1>11 DEF Types, Size
<1>13. BetweenRounds'
  <2>1. \A t \in ToSet(lists') : ~AtEnd(t)' /\ Passed(t)' = {}
    BY <1>4, <1>8, <1>9 DEF Known
  <2>2. \A t \in Essential' : First(t)' >= curr_docid'
    BY <1>7, <1>8, <1>10, <1>11, DocidType DEF Known
  <2>3. /\ pc' = "essential" => pivot' < Len(lists')
        /\ pc' = "done" => pivot' = Len(lists')
    BY <1>5, <1>6
  <2> QED
    BY <1>1, <1>2, <2>1, <2>2, <2>3 DEF BetweenRounds
<1>14. Seen'
  <2>1. ASSUME NEW t \in Essential', NEW d \in ToSet(postings'[t])
        PROVE  ~(d < curr_docid')
    <3>1. t \in Known /\ d \in ToSet(postings[t])
      BY <1>2, <1>7
    <3>2. Passed(t) = {}
      BY <1>1, <3>1 DEF Passed, PassedAt, Known
    <3>3. First(t) <= d /\ d \in Docs
      BY <1>1, <1>9, <3>1, <3>2, Iterators
    <3> QED
      BY <1>10, <1>11, <3>1, <3>3, DocidType
  <2>2. Gone' = {}
    BY <1>3, <1>4 DEF Gone
  <2>3. pc' # "done" => TermsOf(curr_docid)' # {}
    <3> SUFFICES ASSUME pc' # "done" PROVE TermsOf(curr_docid)' # {}
      OBVIOUS
    <3>1. Known # {}
      <4>1. 0 < Len(lists')
        BY <1>5
      <4>2. lists'[1] \in Known
        BY <1>4, <1>6, <4>1
      <4> QED
        BY <4>2
    <3>2. PICK t \in Known : curr_docid' = First(t)
      BY <1>11, <3>1
    <3>3. t \in Terms /\ curr_docid' \in ToSet(postings[t])
      BY <1>10, <3>2 DEF Known
    <3> QED
      BY <1>2, <3>3 DEF TermsOf
  <2> QED
    BY <1>1, <1>2, <2>1, <2>2, <2>3 DEF Seen
<1> QED
  BY <1>1, <1>2, <1>5, <1>12, <1>13, <1>14
     DEF PInv, Building, EssentialInRound, PassedInRound, NextInRound, Round, Unskipped

\* How the essential lists' iterators move in a round.
LEMMA MovedIterators ==
    ASSUME PInv, pc = "essential", at' = Moved, UNCHANGED <<postings, lists, pivot>>
    PROVE  /\ at' \in [Terms -> Nat] /\ \A t \in Terms : at'[t] \in 1..(Size(t) + 1)
           /\ \A t \in Terms \ Essential : at'[t] = at[t]
           /\ \A t \in Essential :
                 /\ First(t)' \in Docs /\ First(t)' \in ToSet(postings[t])
                 /\ First(t)' >= First(t)
                 /\ First(t)' = curr_docid => AtEnd(t)'
                 /\ \A d \in Passed(t)' : d \in Passed(t) \/ d = curr_docid
<1>1. Types /\ Essential \subseteq Known /\ Known \subseteq Terms /\ Essential \subseteq ToSet(lists)
  BY ListsAreTerms DEF PInv
<1>2. \A t \in ToSet(lists) : ~AtEnd(t)
  BY DEF PInv, BetweenRounds
<1>3. ASSUME NEW t \in Essential, First(t) = curr_docid
      PROVE  /\ at'[t] = at[t] + 1 /\ at'[t] \in 1..(Size(t) + 1)
             /\ First(t)' >= First(t)
             /\ First(t)' = curr_docid => AtEnd(t)'
             /\ \A d \in Passed(t)' : d \in Passed(t) \/ d = curr_docid
  <2> DEFINE s == postings[t]
             a == at[t]
  <2>1. s \in PostingLists /\ First(t) = HeadAt(s, a) /\ a \in 1..(Len(s) + 1) /\ Len(s) \in Nat
    BY <1>1, Iterators, PostingListType
  <2>2. a \in 1..Len(s)
    <3>1. a # Len(s) + 1
      BY <1>1, <1>2 DEF AtEnd, Size
    <3> HIDE DEF a, s
    <3> QED
      BY <2>1, <3>1
  <2>3. /\ Min({a + 1, Len(s) + 1}) = a + 1 /\ a + 1 \in 1..(Len(s) + 1)
        /\ PassedAt(s, a + 1) = PassedAt(s, a) \cup {HeadAt(s, a)}
        /\ HeadAt(s, a + 1) >= HeadAt(s, a)
        /\ HeadAt(s, a + 1) = HeadAt(s, a) => a + 1 = Len(s) + 1
    <3> HIDE DEF a, s
    <3> QED
      BY <2>1, <2>2, IteratorMoves
  <2>4. at'[t] = a + 1
    BY <1>1, <1>3, <2>3 DEF Moved, Following, Size
  <2>5. First(t)' = HeadAt(s, a + 1)
    BY <2>4 DEF First, HeadAt, Size
  <2>6. Passed(t)' = PassedAt(s, a + 1) /\ Passed(t) = PassedAt(s, a)
    BY <2>4 DEF Passed
  <2>7. AtEnd(t)' <=> a + 1 = Len(s) + 1
    BY <2>4 DEF AtEnd, Size
  <2> HIDE DEF a, s
  <2>8. at'[t] \in 1..(Size(t) + 1)
    BY <2>3, <2>4 DEF Size, s
  <2> QED
    BY <1>3, <2>1, <2>3, <2>4, <2>5, <2>6, <2>7, <2>8 DEF a
<1>4. ASSUME NEW t \in Terms, ~(t \in Essential /\ First(t) = curr_docid)
      PROVE  at'[t] = at[t] /\ First(t)' = First(t) /\ Passed(t)' = Passed(t)
  <2>1. at'[t] = at[t]
    BY <1>4 DEF Moved
  <2> QED
    BY <2>1 DEF First, Passed, Size
<1>5. \A t \in Terms : at[t] \in 1..(Size(t) + 1) /\ at[t] \in Nat /\ Size(t) \in Nat
  BY <1>1, PostingListType DEF Types, Size
<1>6. ASSUME NEW t \in Terms PROVE at'[t] \in Nat /\ at'[t] \in 1..(Size(t) + 1)
  <2>1. at'[t] \in 1..(Size(t) + 1)
    BY <1>3, <1>4, <1>5
  <2> QED
    BY <1>5, <2>1
<1>7. at' \in [Terms -> Nat]
  <2>1. at' = [t \in Terms |-> at'[t]]
    BY DEF Moved
  <2> QED
    BY <1>6, <2>1
<1>8. ASSUME NEW t \in Essential
      PROVE  First(t)' \in Docs /\ First(t)' \in ToSet(postings[t])
  <2> DEFINE s == postings[t]
             b == at'[t]
  <2>1. s \in PostingLists /\ s # <<>> /\ b \in 1..(Len(s) + 1)
    BY <1>1, <1>6, Iterators DEF Size
  <2>2. HeadAt(s, b) \in Docs /\ HeadAt(s, b) \in ToSet(s)
    <3> HIDE DEF s, b
    <3> QED
      BY <2>1, IteratorIsAtNext
  <2> QED
    BY <2>2 DEF First, HeadAt, Size
<1>9. ASSUME NEW t \in Essential
      PROVE  /\ First(t)' >= First(t)
             /\ First(t)' = curr_docid => AtEnd(t)'
             /\ \A d \in Passed(t)' : d \in Passed(t) \/ d = curr_docid
  <2>1. CASE First(t) = curr_docid
    BY <1>3, <2>1
  <2>2. CASE First(t) # curr_docid
    <3>1. First(t)' = First(t) /\ Passed(t)' = Passed(t)
      BY <1>1, <1>4, <2>2
    <3>2. First(t) \in Nat
      BY <1>1, Iterators, DocidType
    <3> QED
      BY <2>2, <3>1, <3>2
  <2> QED
    BY <2>1, <2>2
<1>10. \A t \in Terms \ Essential : at'[t] = at[t]
  BY <1>4
<1> QED
  BY <1>6, <1>7, <1>8, <1>9, <1>10

\* The score of a document in the lists that are at it.
LEMMA EssentialScore ==
    ASSUME PInv, pc = "essential", ScoreEssential
    PROVE  /\ curr_docid \in Docs
           /\ {u \in Essential : First(u) = curr_docid} \in SUBSET Terms
           /\ score' = SumFunctionOnSet(Scores(curr_docid), {u \in Essential : First(u) = curr_docid})
           /\ score' \in Nat
<1> DEFINE S == {u \in Essential : First(u) = curr_docid}
<1>1. /\ Types /\ Essential \subseteq Known /\ Known \subseteq Terms
      /\ Essential # {} /\ \A t \in Essential : First(t) >= curr_docid
  BY ListsAreTerms DEF PInv, BetweenRounds
<1>2. curr_docid \in Docs
  <2>1. PICK t \in Essential : TRUE
    BY <1>1
  <2>2. First(t) \in Docs /\ First(t) >= curr_docid /\ curr_docid \in 1..DOCID_MAX
    BY <1>1, Iterators DEF Types
  <2>3. NDocs \in Nat
    BY BMMAssumption
  <2> QED
    BY <2>2, <2>3 DEF Docs, DOCID_MAX
<1>3. S \in SUBSET Terms
  BY <1>1
<1>4. score' = SumFunction([t \in S |-> Contribution(t, curr_docid)])
  BY DEF ScoreEssential
<1> HIDE DEF S
<1>5. score' = SumFunctionOnSet(Scores(curr_docid), S) /\ SumFunctionOnSet(Scores(curr_docid), S) \in Nat
  BY <1>2, <1>3, <1>4, ScoreIsSum
<1> QED
  BY <1>2, <1>3, <1>5 DEF S

\* The iterators of the essential lists move past the current document, to the next.
LEMMA ScoreEssentialKeepsPInv == PInv /\ ScoreEssential => PInv'
<1> SUFFICES ASSUME PInv, ScoreEssential PROVE PInv'
  OBVIOUS
<1>1. /\ pc = "essential" /\ at' = Moved
      /\ UNCHANGED <<postings, lists, skipped, upper_bounds, pivot, threshold, curr_docid, bub, j, results, scored>>
      /\ pc' = "push" \/ (pivot # 0 /\ pc' = "bub")
  BY DEF ScoreEssential
<1>2. /\ at' \in [Terms -> Nat] /\ \A t \in Terms : at'[t] \in 1..(Size(t) + 1)
      /\ \A t \in Terms \ Essential : at'[t] = at[t]
      /\ \A t \in Essential :
            /\ First(t)' \in Docs /\ First(t)' \in ToSet(postings[t])
            /\ First(t)' >= First(t)
            /\ First(t)' = curr_docid => AtEnd(t)'
            /\ \A d \in Passed(t)' : d \in Passed(t) \/ d = curr_docid
  BY <1>1, MovedIterators
<1>3. Types /\ Essential \subseteq Known /\ Known \subseteq Terms /\ Essential # {}
  BY <1>1, ListsAreTerms DEF PInv, BetweenRounds
<1>4. Lesser(pivot) \cap Essential = {} /\ ToSet(lists) = Lesser(pivot) \cup Essential /\ ToSet(lists) \subseteq Terms
  BY <1>3, ListsAreTerms
<1>5. /\ \A t \in ToSet(lists) : ~AtEnd(t)
      /\ \A t \in ToSet(lists) : \A d \in Passed(t) : d < curr_docid \/ d \in scored
      /\ \A t \in Essential : First(t) >= curr_docid
      /\ \A t \in Essential : curr_docid \in scored => First(t) > curr_docid
  BY <1>1 DEF PInv, BetweenRounds
<1>6. curr_docid \in Docs /\ score' \in Nat
  BY <1>1, EssentialScore
<1>7. Essential' = Essential /\ Lesser(pivot)' = Lesser(pivot) /\ Known' = Known /\ Gone' = Gone
  BY <1>1 DEF Essential, Lesser, Known, Gone
<1> DEFINE D == {First(t)' : t \in Essential}
<1>8. next' = MinDocid(D)
  BY <1>1 DEF ScoreEssential, First, Size
<1>9. /\ next' \in Docs /\ \A t \in Essential : next' <= First(t)'
      /\ \E t \in Essential : next' = First(t)'
  <2>1. D \in SUBSET Docs /\ D # {} /\ \A t \in Essential : First(t)' \in D
    BY <1>2, <1>3
  <2>2. \A e \in D : \E t \in Essential : e = First(t)'
    OBVIOUS
  <2> HIDE DEF D
  <2>3. MinDocid(D) \in D /\ \A e \in D : MinDocid(D) <= e
    BY <2>1, MinDocidIsLeast
  <2> QED
    BY <1>8, <2>1, <2>2, <2>3
<1>10. \A t \in Essential : First(t) \in Nat /\ First(t)' \in Nat
  BY <1>2, <1>3, Iterators, DocidType
<1>11. \A t \in Essential : First(t)' >= curr_docid
  BY <1>2, <1>5, <1>6, <1>10, DocidType
<1>12. faults' \subseteq Faults
  BY <1>3 DEF ScoreEssential, PassedOver, Types, Faults
<1>13. Types'
  <2>1. next' \in 1..DOCID_MAX
    BY <1>9, DocidType
  <2> QED
    BY <1>1, <1>2, <1>3, <1>6, <1>7, <1>12, <2>1 DEF Types, Size, Round
<1>14. EssentialInRound'
  <2>1. \A t \in Essential : First(t)' >= next'
    BY <1>9, <1>10, DocidType
  <2> QED
    BY <1>1, <1>2, <1>7, <1>11, <2>1 DEF EssentialInRound
<1>15. PassedInRound'
  <2>1. ASSUME NEW t \in Lesser(pivot)
        PROVE  Passed(t)' = Passed(t) /\ (AtEnd(t)' <=> AtEnd(t))
    BY <1>1, <1>2, <1>4 DEF Passed, AtEnd, Size
  <2>2. \A d \in scored : d <= curr_docid
    BY <1>1 DEF PInv, Seen
  <2>3. ASSUME NEW t \in ToSet(lists), NEW d \in Passed(t)' PROVE d <= curr_docid
    <3>1. d \in Passed(t) \/ d = curr_docid
      BY <1>2, <1>4, <2>1
    <3>2. curr_docid \in Nat
      BY <1>6, DocidType
    <3>3. CASE d \in Passed(t)
      <4>1. t \in Known
        BY <1>3, ListsAreTerms
      <4>2. d \in Nat
        BY <1>3, <3>3, <4>1, Iterators, DocidType
      <4>3. d < curr_docid \/ d <= curr_docid
        BY <1>5, <2>2, <3>3
      <4> QED
        BY <3>2, <4>2, <4>3
    <3> QED
      BY <3>1, <3>2, <3>3
  <2>4. ASSUME NEW t \in Lesser(pivot), curr_docid \in Passed(t)' PROVE curr_docid \in scored
    <3>1. curr_docid < curr_docid \/ curr_docid \in scored
      BY <1>4, <1>5, <2>1, <2>4
    <3> QED
      BY <1>6, <3>1, DocidType
  <2>5. \A t \in Lesser(pivot) : ~AtEnd(t)'
    BY <1>4, <1>5, <2>1
  <2> QED
    BY <1>1, <1>7, <2>3, <2>4, <2>5 DEF PassedInRound
<1>16. NextInRound'
  <2>1. PICK t \in Essential : next' = First(t)'
    BY <1>9
  <2>2. next' >= curr_docid
    BY <1>11, <2>1
  <2>3. TermsOf(next)' # {}
    <3>1. t \in Terms /\ next' \in ToSet(postings[t])
      BY <1>2, <1>3, <2>1
    <3> QED
      BY <1>1, <3>1 DEF TermsOf
  <2>4. next' = curr_docid => AtEnd(t)' /\ First(t)' = curr_docid /\ t \in ToSet(lists)
    BY <1>2, <1>4, <2>1
  <2>5. curr_docid \in scored => next' > curr_docid
    <3> SUFFICES ASSUME curr_docid \in scored PROVE next' > curr_docid
      OBVIOUS
    <3>1. First(t) > curr_docid /\ First(t)' >= First(t)
      BY <1>2, <1>5
    <3> QED
      BY <1>6, <1>10, <2>1, <3>1, DocidType
  <2>6. pivot # 0 => pivot > 0
    BY <1>3, ListsAreTerms
  <2> QED
    BY <1>1, <1>6, <1>9, <2>2, <2>3, <2>4, <2>5, <2>6 DEF NextInRound
<1>17. Seen'
  BY <1>1, <1>7 DEF PInv, Seen, TermsOf
<1> QED
  BY <1>1, <1>7, <1>13, <1>14, <1>15, <1>16, <1>17 DEF PInv, Building, BetweenRounds, Unskipped


\* No iterator moves when the bounds of the blocks are looked up ...
LEMMA PopulateBubKeepsPInv == PInv /\ PopulateBub => PInv'
<1> SUFFICES ASSUME PInv, PopulateBub PROVE PInv'
  OBVIOUS
<1>1. /\ pc = "bub" /\ pc' = "rest" /\ j' = 0
      /\ UNCHANGED <<postings, lists, at, skipped, upper_bounds, pivot, threshold, curr_docid, next,
                     score, results, scored>>
  BY DEF PopulateBub
<1>2. faults' \subseteq Faults
  BY DEF PopulateBub, PInv, Types, Faults
<1>3. Known' = Known /\ Essential' = Essential /\ Lesser(pivot)' = Lesser(pivot) /\ Gone' = Gone
  BY <1>1 DEF Known, Essential, Lesser, Gone
<1>4. \A t : First(t)' = First(t) /\ Passed(t)' = Passed(t) /\ (AtEnd(t)' <=> AtEnd(t))
  BY <1>1 DEF First, Passed, AtEnd, Size
<1>5. Types'
  BY <1>1, <1>2, <1>3 DEF PInv, Types, Size, Round
<1>6. EssentialInRound' /\ PassedInRound'
  BY <1>1, <1>3, <1>4 DEF PInv, EssentialInRound, PassedInRound, Round
<1>7. NextInRound'
  <2>1. pivot > 0 /\ pivot \in Nat /\ 0 <= pivot
    BY <1>1, ListsAreTerms DEF PInv, NextInRound, Round
  <2> QED
    BY <1>1, <1>4, <2>1 DEF PInv, NextInRound, TermsOf, Round
<1>8. Seen'
  BY <1>1, <1>3 DEF PInv, Seen, TermsOf
<1> QED
  BY <1>1, <1>3, <1>5, <1>6, <1>7, <1>8 DEF PInv, Building, BetweenRounds, Unskipped

\* ... nor when the lists that are not essential are left.
LEMMA LeaveRestKeepsPInv == PInv /\ LeaveRest => PInv'
<1> SUFFICES ASSUME PInv, LeaveRest PROVE PInv'
  OBVIOUS
<1>1. /\ pc = "rest" /\ pc' = "push"
      /\ UNCHANGED <<postings, lists, at, skipped, upper_bounds, pivot, threshold, curr_docid, next,
                     score, bub, j, results, scored>>
  BY DEF LeaveRest, loopVars
<1>2. faults' \subseteq Faults
  BY DEF LeaveRest, PassedOver, PInv, Types, Faults
<1>3. Known' = Known /\ Essential' = Essential /\ Lesser(pivot)' = Lesser(pivot) /\ Gone' = Gone
  BY <1>1 DEF Known, Essential, Lesser, Gone
<1>4. \A t : First(t)' = First(t) /\ Passed(t)' = Passed(t) /\ (AtEnd(t)' <=> AtEnd(t))
  BY <1>1 DEF First, Passed, AtEnd, Size
<1>5. Types'
  BY <1>1, <1>2, <1>3 DEF PInv, Types, Size, Round
<1>6. EssentialInRound' /\ PassedInRound'
  BY <1>1, <1>3, <1>4 DEF PInv, EssentialInRound, PassedInRound, Round
<1>7. NextInRound'
  BY <1>1, <1>4 DEF PInv, NextInRound, TermsOf, Round
<1>8. Seen'
  BY <1>1, <1>3 DEF PInv, Seen, TermsOf
<1> QED
  BY <1>1, <1>3, <1>5, <1>6, <1>7, <1>8 DEF PInv, Building, BetweenRounds, Unskipped

\* What a round of the loop over the lists that are not essential finds.
LEMMA RestIterator ==
    ASSUME PInv, ScoreRest, NEW t, t = lists[pivot]
    PROVE  /\ pivot \in 1..Len(lists) /\ t \in Lesser(pivot) /\ t \in Known
           /\ at' = [at EXCEPT ![t] = NextGEQ(t)]
           /\ at'[t] \in 1..(Size(t) + 1)
           /\ \A d \in Passed(t)' : d \in Passed(t) \/ d < curr_docid
           /\ skipped' \subseteq skipped \cup {t}
           /\ "misread" \notin faults' =>
                 score' = IF curr_docid \in ToSet(postings[t]) \ Passed(t)
                          THEN score + Contribution(t, curr_docid) ELSE score
           /\ score' \in Nat
<1> DEFINE s == postings[t]
           a == at[t]
           b == NextGEQ(t)
           c == Contribution(t, curr_docid)
           Finds == ~(b > Size(t) \/ postings[t][b] # curr_docid)
<1>1. /\ Types /\ pc = "rest" /\ j < pivot /\ at' = [at EXCEPT ![t] = b]
      /\ UNCHANGED <<postings, lists, pivot, curr_docid>>
      /\ skipped' \subseteq skipped \cup {t}
  BY DEF PInv, ScoreRest
<1>13. PICK a1 : /\ a1 \in IF Finds THEN {c} \cup Misread ELSE {0}
                 /\ score' = score + a1
                 /\ "misread" \in faults' \/ a1 \in {0, c}
  BY DEF ScoreRest
<1>2. curr_docid \in Docs /\ curr_docid \in Nat
  BY <1>1, DocidType DEF PInv, NextInRound, Round
<1>3. pivot \in 1..Len(lists)
  <2>1. pivot \in Nat /\ j \in Nat /\ Len(lists) \in Nat /\ pivot <= Len(lists)
    BY <1>1, ListsAreTerms DEF Types
  <2> QED
    BY <1>1, <2>1
<1>4. t \in Lesser(pivot) /\ t \in Known /\ t \in Terms
  <2>1. pivot \in 1..pivot
    BY <1>3
  <2> QED
    BY <1>1, <1>3, <2>1, ListsAreTerms DEF Lesser
<1>5. s \in PostingLists /\ a \in 1..(Len(s) + 1)
  BY <1>1, <1>4, Iterators
<1>6. b = Min({Len(s) + 1} \cup {p \in a..Len(s) : s[p] >= curr_docid})
  BY DEF NextGEQ, Size
<1>7. /\ b \in 1..(Len(s) + 1)
      /\ \A d \in PassedAt(s, b) : d \in PassedAt(s, a) \/ d < curr_docid
      /\ (b <= Len(s) /\ s[b] = curr_docid) <=> curr_docid \in ToSet(s) \ PassedAt(s, a)
  <2> HIDE DEF s, a, b
  <2> QED
    BY <1>2, <1>5, <1>6, NextGEQFinds
<1>8. at'[t] = b
  BY <1>1, <1>4 DEF Types
<1>9. Passed(t)' = PassedAt(s, b) /\ Passed(t) = PassedAt(s, a)
  BY <1>1, <1>8 DEF Passed
<1>10. c \in Nat /\ Misread \subseteq Nat \ {0} /\ score \in Nat
  BY <1>1, <1>2, <1>4, BMMAssumption DEF Types
<1>14. Finds <=> curr_docid \in ToSet(s) \ PassedAt(s, a)
  <2>1. b > Size(t) <=> ~(b <= Len(s))
    <3>1. Len(s) \in Nat /\ b \in Nat /\ Size(t) = Len(s)
      BY <1>5, <1>7, PostingListType DEF Size
    <3> HIDE DEF b
    <3> QED
      BY <3>1
  <2> QED
    BY <1>7, <2>1
<1>11. /\ score' \in Nat
       /\ "misread" \notin faults' => score' = IF Finds THEN score + c ELSE score
  <2> HIDE DEF Finds, c
  <2> QED
    BY <1>10, <1>13
<1> QED
  BY <1>1, <1>3, <1>4, <1>7, <1>8, <1>9, <1>11, <1>14 DEF Size

\* The iterator that looks for the current document does not go past it.
LEMMA ScoreRestKeepsPInv == PInv /\ ScoreRest => PInv'
<1> SUFFICES ASSUME PInv, ScoreRest PROVE PInv'
  OBVIOUS
<1> PICK t : t = lists[pivot]
  OBVIOUS
<1>1. /\ pc = "rest" /\ pc' = "rest" /\ j < pivot /\ j' = j + 1
      /\ UNCHANGED <<postings, lists, upper_bounds, pivot, threshold, curr_docid, next, bub,
                     results, scored>>
      /\ at' = [at EXCEPT ![t] = NextGEQ(t)]
  BY DEF ScoreRest
<1>2. /\ t \in Lesser(pivot) /\ t \in Known
      /\ at'[t] \in 1..(Size(t) + 1)
      /\ \A d \in Passed(t)' : d \in Passed(t) \/ d < curr_docid
      /\ score' \in Nat
      /\ skipped' \subseteq skipped \cup {t}
  BY RestIterator
<1>3. faults' \subseteq Faults
  BY DEF ScoreRest, PInv, Types, Faults
<1>4. Known' = Known /\ Essential' = Essential /\ Lesser(pivot)' = Lesser(pivot) /\ Gone' = Gone
  BY <1>1 DEF Known, Essential, Lesser, Gone
<1>5. Types /\ Lesser(pivot) \cap Essential = {} /\ ToSet(lists) = Lesser(pivot) \cup Essential
  BY ListsAreTerms DEF PInv
<1>6. ASSUME NEW u, u # t
      PROVE  First(u)' = First(u) /\ Passed(u)' = Passed(u) /\ (AtEnd(u)' <=> AtEnd(u))
  <2>1. at'[u] = at[u]
    BY <1>1, <1>5, <1>6 DEF Types
  <2> QED
    BY <1>1, <2>1 DEF First, Passed, AtEnd, Size
<1>7. \A u \in Terms : at'[u] \in 1..(Size(u) + 1) /\ at'[u] \in Nat
  <2> TAKE u \in Terms
  <2>1. Size(u) \in Nat
    BY <1>5, PostingListType DEF Types, Size
  <2>2. at'[u] \in 1..(Size(u) + 1)
    BY <1>1, <1>2, <1>5 DEF Types
  <2> QED
    BY <2>1, <2>2
<1>8. Types'
  <2>1. at' \in [Terms -> Nat]
    BY <1>1, <1>5, <1>7 DEF Types
  <2>2. j' \in Nat
    BY <1>1, <1>5 DEF Types
  <2> QED
    BY <1>1, <1>2, <1>3, <1>4, <1>5, <1>7, <2>1, <2>2 DEF Types, Size, Round
<1>9. EssentialInRound'
  BY <1>1, <1>2, <1>4, <1>5, <1>6 DEF PInv, EssentialInRound, Round
<1>10. PassedInRound'
  <2>1. /\ \A u \in ToSet(lists) : \A d \in Passed(u) : d <= curr_docid
        /\ \A u \in Lesser(pivot) : curr_docid \in Passed(u) => curr_docid \in scored
    BY <1>1 DEF PInv, PassedInRound, Round
  <2>2. curr_docid \in Nat
    BY <1>1, DocidType DEF PInv, NextInRound, Round
  <2>3. ASSUME NEW d \in Passed(t)' PROVE d <= curr_docid
    <3>1. CASE d \in Passed(t)
      BY <1>2, <1>5, <2>1, <3>1
    <3>2. CASE d < curr_docid
      <4>1. postings[t] \in PostingLists /\ postings[t] # <<>> /\ at'[t] \in 1..(Len(postings[t]) + 1)
        BY <1>2, <1>5, Iterators DEF Size
      <4>2. PassedAt(postings[t], at'[t]) \subseteq Docs
        BY <4>1, IteratorIsAtNext, PostingListType
      <4>3. d \in Nat
        BY <1>1, <4>2, DocidType DEF Passed
      <4> QED
        BY <2>2, <3>2, <4>3
    <3> QED
      BY <1>2, <3>1, <3>2
  <2>4. curr_docid \in Passed(t)' => curr_docid \in scored
    BY <1>2, <2>1, <2>2
  <2>5. \A u \in ToSet(lists) : \A d \in Passed(u)' : d <= curr_docid
    BY <1>6, <2>1, <2>3
  <2>6. \A u \in Lesser(pivot) : curr_docid \in Passed(u)' => curr_docid \in scored
    BY <1>6, <2>1, <2>4
  <2> QED
    BY <1>1, <1>4, <2>5, <2>6 DEF PassedInRound
<1>11. NextInRound'
  <2>1. j + 1 <= pivot /\ pivot > 0
    <3> j \in Nat /\ pivot \in Nat
      BY <1>5, ListsAreTerms DEF Types
    <3> QED
      BY <1>1
  <2>2. next = curr_docid => \E u \in ToSet(lists) : AtEnd(u)' /\ First(u)' = curr_docid
    <3> SUFFICES ASSUME next = curr_docid
                 PROVE  \E u \in ToSet(lists) : AtEnd(u)' /\ First(u)' = curr_docid
      OBVIOUS
    <3>1. PICK u \in ToSet(lists) : AtEnd(u) /\ First(u) = curr_docid
      BY <1>1 DEF PInv, NextInRound, Round
    <3>2. CASE u # t
      BY <1>6, <3>1, <3>2
    <3>3. CASE u = t
      <4>1. at[t] = Size(t) + 1 /\ Size(t) \in Nat
        BY <1>2, <1>5, <3>1, <3>3, PostingListType DEF AtEnd, Types, Known, Size
      <4>2. NextGEQ(t) = Size(t) + 1
        <5>1. {Size(t) + 1} \cup {p \in at[t]..Size(t) : postings[t][p] >= curr_docid} = {Size(t) + 1}
          BY <4>1
        <5>2. {Size(t) + 1} \in SUBSET Nat /\ {Size(t) + 1} # {}
          BY <4>1
        <5>3. Min({Size(t) + 1}) \in {Size(t) + 1}
          BY <5>2, MinIsLeast
        <5> QED
          BY <5>1, <5>3 DEF NextGEQ
      <4>3. at'[t] = at[t]
        BY <1>1, <1>2, <1>5, <4>1, <4>2 DEF Types, Known
      <4>4. AtEnd(t)' /\ First(t)' = First(t)
        BY <1>1, <3>1, <3>3, <4>3 DEF AtEnd, First, Size
      <4> QED
        BY <3>1, <3>3, <4>4
    <3> QED
      BY <3>2, <3>3
  <2> QED
    BY <1>1, <2>1, <2>2 DEF PInv, NextInRound, TermsOf, Round
<1>12. Seen'
  BY <1>1, <1>4 DEF PInv, Seen, TermsOf
<1>13. Unskipped'
  BY <1>2, <1>4, <1>5 DEF PInv, Unskipped
<1> QED
  BY <1>1, <1>8, <1>9, <1>10, <1>11, <1>12, <1>13 DEF PInv, Building, BetweenRounds

\* The lists that are not essential go as far as the sums of the bounds let them.
LEMMA RaisedPivot ==
    ASSUME Types, NEW theta
    PROVE  /\ Raised(theta) \in pivot..Len(lists)
           /\ Raised(theta) > pivot => ~(upper_bounds[Raised(theta)] > theta)
<1> DEFINE Q == {n \in pivot..Len(lists) : n = Len(lists) \/ upper_bounds[n + 1] > theta}
           m == Raised(theta)
<1>1. pivot \in Nat /\ Len(lists) \in Nat /\ pivot <= Len(lists)
  BY ListsAreTerms DEF Types
<1>2. Q \in SUBSET Nat /\ Len(lists) \in Q
  BY <1>1
<1>3. m = Min(Q)
  BY DEF Raised
<1>4. m \in Q /\ \A n \in Q : m <= n
  <2> HIDE DEF Q
  <2> QED
    BY <1>2, <1>3, MinIsLeast
<1>5. m \in pivot..Len(lists)
  BY <1>4
<1>6. ASSUME m > pivot PROVE ~(upper_bounds[m] > theta)
  <2>1. m - 1 \in pivot..Len(lists) /\ m - 1 < m /\ m - 1 # Len(lists) /\ (m - 1) + 1 = m
    <3> HIDE DEF m
    <3> QED
      BY <1>1, <1>5, <1>6
  <2>2. m - 1 \notin Q
    <3> HIDE DEF m, Q
    <3>1. m - 1 \in Nat /\ m \in Nat
      BY <1>1, <1>5, <2>1
    <3> QED
      BY <1>4, <2>1, <3>1
  <2>3. ~(upper_bounds[(m - 1) + 1] > theta)
    <3> HIDE DEF m
    <3> QED
      BY <2>1, <2>2
  <2> QED
    BY <2>1, <2>3
<1> QED
  BY <1>5, <1>6

Result == [docid : Docs, score : Nat, again : BOOLEAN]

\* The scores of some results have a least one.
LEMMA LeastScore ==
    ASSUME NEW H \in SUBSET Result, H # {}
    PROVE  LET m == Min({q.score : q \in H})
           IN  m \in Nat /\ (\E r \in H : r.score = m) /\ \A r \in H : m <= r.score
<1> DEFINE S == {q.score : q \in H}
<1>1. S \in SUBSET Nat /\ S # {} /\ \A r \in H : r.score \in S
  BY DEF Result
<1>2. \A s \in S : \E r \in H : r.score = s
  OBVIOUS
<1> HIDE DEF S
<1>3. Min(S) \in S /\ \A s \in S : Min(S) <= s
  BY <1>1, MinIsLeast
<1>4. Min(S) \in Nat /\ (\E r \in H : r.score = Min(S)) /\ \A r \in H : Min(S) <= r.score
  BY <1>1, <1>2, <1>3
<1> QED
  BY <1>4 DEF S

NewResult == [docid |-> curr_docid, score |-> score, again |-> curr_docid \in scored]

\* What a push does to the heap: it takes the result in if there is room ...
TakenIn ==
    /\ Cardinality(results) < K
    /\ results' = results \cup {NewResult}

\* ... for one of the worst, if it is better than that ...
Replaces ==
    /\ Cardinality(results) = K
    /\ \E w \in results : score > w.score /\ \A q \in results : w.score <= q.score
    /\ \E w \in results \cup {NewResult} :
          /\ \A q \in results \cup {NewResult} : w.score <= q.score
          /\ w # NewResult
          /\ results' = (results \cup {NewResult}) \ {w}

\* ... or not at all.
Refused ==
    /\ Cardinality(results) = K
    /\ \E q \in results : score <= q.score /\ \A r \in results : q.score <= r.score
    /\ UNCHANGED <<results, threshold, pivot, faults>>

\* The threshold and the pivot follow what it takes in.
Follow ==
    /\ threshold' = Min({q.score : q \in results'})
    /\ pivot' = Raised(threshold')
    /\ faults' = faults
         \cup {f \in {"early"} : pivot' > pivot /\ Cardinality(results') < K}
         \cup {f \in {"bound"} : pivot' > pivot /\ Greatest(pivot') > threshold'}
         \cup {f \in {"again"} : curr_docid \in scored}

\* A push does one of these, and the heap stays within its size.
LEMMA PushedResults ==
    ASSUME Types, curr_docid \in Docs, PushResult
    PROVE  /\ NewResult \in Result /\ results \subseteq Result
           /\ (TakenIn /\ Follow) \/ (Replaces /\ Follow) \/ Refused
           /\ ~Refused => NewResult \in results'
           /\ results' \subseteq Result /\ IsFiniteSet(results') /\ Cardinality(results') <= K
<1> DEFINE r == NewResult
           I == results \cup {r}
<1>1. /\ K \in Nat \ {0} /\ results \subseteq Result /\ IsFiniteSet(results)
      /\ Cardinality(results) \in Nat /\ Cardinality(results) <= K /\ score \in Nat
  BY BMMAssumption, FS_CardinalityType DEF Types, Result
<1>2. r \in Result /\ r.score = score
  BY <1>1 DEF Result, NewResult
<1>3. IsFiniteSet(I) /\ Cardinality(I) \in Nat /\ Cardinality(I) <= Cardinality(results) + 1
  <2>1. IsFiniteSet(I) /\ (Cardinality(I) = Cardinality(results) \/ Cardinality(I) = Cardinality(results) + 1)
    <3> HIDE DEF r
    <3> QED
      BY <1>1, FS_AddElement
  <2> HIDE DEF I
  <2> QED
    BY <1>1, <2>1
<1>4. \A q \in Result : q.score \in Nat
  BY DEF Result
<1>5. I \subseteq Result
  BY <1>1, <1>2
<1>6. results # {} => \E q \in results : \A u \in results : q.score <= u.score
  <2> SUFFICES ASSUME results # {}
               PROVE  \E q \in results : \A u \in results : q.score <= u.score
    OBVIOUS
  <2>1. \E q \in results : q.score = Min({u.score : u \in results})
    BY <1>1, LeastScore
  <2>2. \A u \in results : Min({q.score : q \in results}) <= u.score
    BY <1>1, LeastScore
  <2> QED
    BY <2>1, <2>2
<1> DEFINE Taken == Cardinality(results) < K \/ \E w \in Worst(results) : score > w.score
<1>7. CASE Taken
  <2>1. Follow
    BY <1>7 DEF PushResult, Follow
  <2>2. CASE Cardinality(results) < K
    <3>1. results' = I
      BY <1>7, <2>2 DEF PushResult, NewResult
    <3>2. TakenIn
      BY <2>2, <3>1 DEF TakenIn
    <3>3. IsFiniteSet(results') /\ Cardinality(results') <= K
      <4> HIDE DEF I
      <4> QED
        BY <1>1, <1>3, <2>2, <3>1
    <3>4. results' \subseteq Result /\ NewResult \in results'
      BY <1>5, <3>1
    <3> QED
      BY <1>1, <1>2, <2>1, <3>2, <3>3, <3>4
  <2>3. CASE ~(Cardinality(results) < K)
    <3>1. Cardinality(results) = K
      BY <1>1, <2>3
    <3>2. PICK w \in Worst(results) : score > w.score
      BY <1>7, <2>3
    <3>3. w \in results /\ \A q \in results : w.score <= q.score
      BY <3>2 DEF Worst
    <3>4. PICK v \in Worst(I) : results' = I \ {v}
      BY <1>7, <2>3 DEF PushResult, NewResult
    <3>5. v \in I /\ \A q \in I : v.score <= q.score
      BY <3>4 DEF Worst
    <3>6. v # r
      BY <1>1, <1>2, <1>4, <3>2, <3>3, <3>5
    <3>7. results' # {} /\ r \in results'
      BY <3>4, <3>6
    <3>8. /\ IsFiniteSet(results') /\ Cardinality(results') = Cardinality(I) - 1
      BY <1>3, <3>4, <3>5, FS_RemoveElement
    <3>9. Cardinality(results') <= K
      BY <1>1, <1>3, <3>8
    <3>10. results' \subseteq Result
      BY <1>5, <3>4
    <3>11. Replaces
      BY <3>1, <3>2, <3>3, <3>4, <3>5, <3>6 DEF Replaces
    <3> QED
      BY <1>1, <1>2, <2>1, <3>7, <3>8, <3>9, <3>10, <3>11
  <2> QED
    BY <2>2, <2>3
<1>8. CASE ~Taken
  <2>1. UNCHANGED <<results, threshold, pivot, faults>>
    BY <1>8 DEF PushResult
  <2>2. Cardinality(results) = K
    BY <1>1, <1>8
  <2>3. results # {}
    BY <1>1, <2>2, FS_EmptySet
  <2>4. PICK q \in results : \A u \in results : q.score <= u.score
    BY <1>6, <2>3
  <2>5. q \in Worst(results)
    BY <2>4 DEF Worst
  <2>6. score <= q.score
    BY <1>1, <1>4, <1>8, <2>5
  <2>7. Refused
    BY <2>1, <2>2, <2>4, <2>6 DEF Refused
  <2> QED
    BY <1>1, <1>2, <2>1, <2>7
<1> QED
  BY <1>7, <1>8

\* Lists can only stop being essential, which asks less of them.
LEMMA PushResultKeepsPInv == PInv /\ PushResult => PInv'
<1> SUFFICES ASSUME PInv, PushResult PROVE PInv'
  OBVIOUS
<1>1. /\ pc = "push" /\ pc' = "erase" /\ scored' = scored \cup {curr_docid}
      /\ UNCHANGED <<postings, lists, at, skipped, upper_bounds, curr_docid, next, score, bub, j>>
  BY DEF PushResult, loopVars
<1>2. Types /\ curr_docid \in Docs
  BY <1>1 DEF PInv, NextInRound, Round
<1>3. /\ results' \subseteq Result /\ IsFiniteSet(results') /\ Cardinality(results') <= K
      /\ UNCHANGED <<results, threshold, pivot, faults>> \/ (Follow /\ results' # {})
  <2>1. Refused => UNCHANGED <<results, threshold, pivot, faults>>
    BY DEF Refused
  <2> QED
    BY <1>2, <2>1, PushedResults
<1>4. threshold' \in Nat
  <2>1. CASE UNCHANGED <<results, threshold, pivot, faults>>
    BY <1>2, <2>1 DEF Types
  <2>2. CASE Follow /\ results' # {}
    BY <1>3, <2>2, LeastScore DEF Follow
  <2> QED
    BY <1>3, <2>1, <2>2
<1>5. pivot' \in pivot..Len(lists) /\ pivot \in Nat /\ Len(lists) \in Nat /\ pivot <= Len(lists)
  <2>1. pivot \in Nat /\ Len(lists) \in Nat /\ pivot <= Len(lists)
    BY <1>2, ListsAreTerms DEF Types
  <2>2. CASE pivot' = pivot
    BY <2>1, <2>2
  <2>3. CASE Follow
    <3>1. pivot' = Raised(threshold')
      BY <2>3 DEF Follow
    <3>2. Raised(threshold') \in pivot..Len(lists)
      BY <1>2, RaisedPivot
    <3> QED
      BY <2>1, <3>1, <3>2
  <2> QED
    BY <1>3, <2>2, <2>3
<1>6. faults' \subseteq Faults
  BY <1>2, <1>3 DEF Types, Faults, Follow
<1>7. Essential' \subseteq Essential /\ Lesser(pivot)' \subseteq ToSet(lists)
  <2>1. Essential' \subseteq Essential
    <3>1. (pivot' + 1)..Len(lists) \subseteq (pivot + 1)..Len(lists)
      <4>1. pivot' \in Nat /\ pivot <= pivot' /\ pivot \in Nat /\ Len(lists) \in Nat
        BY <1>5
      <4>2. \A m, n, l \in Nat : m <= n => (n + 1)..l \subseteq (m + 1)..l
        OBVIOUS
      <4> QED
        BY <4>1, <4>2, Zenon
    <3>2. Essential' = {lists[n] : n \in (pivot' + 1)..Len(lists)}
      BY <1>1 DEF Essential
    <3> QED
      BY <3>1, <3>2 DEF Essential
  <2>2. Lesser(pivot)' \subseteq ToSet(lists)
    BY <1>1, <1>2, <1>5, ListsAreTerms DEF Lesser, ToSet
  <2> QED
    BY <2>1, <2>2
<1>8. Known' = Known /\ Gone' = Gone
  BY <1>1 DEF Known, Gone
<1>9. \A t : First(t)' = First(t) /\ Passed(t)' = Passed(t) /\ (AtEnd(t)' <=> AtEnd(t))
  BY <1>1 DEF First, Passed, AtEnd, Size
<1>10. Types'
  <2>1. pivot' \in 0..Len(lists')
    BY <1>1, <1>5
  <2> QED
    BY <1>1, <1>2, <1>3, <1>4, <1>6, <1>8, <2>1 DEF Types, Size, Round, Result
<1>11. EssentialInRound'
  BY <1>1, <1>7, <1>9 DEF PInv, EssentialInRound, Round
<1>12. PassedInRound'
  BY <1>1, <1>7, <1>9 DEF PInv, PassedInRound, Round
<1>13. NextInRound'
  BY <1>1, <1>9 DEF PInv, NextInRound, TermsOf, Round
<1>14. Seen'
  <2>1. curr_docid <= curr_docid
    BY <1>2, DocidType
  <2> QED
    BY <1>1, <1>7, <1>8, <2>1 DEF PInv, Seen, TermsOf
<1> QED
  BY <1>1, <1>7, <1>10, <1>11, <1>12, <1>13, <1>14 DEF PInv, Building, BetweenRounds, Unskipped

\* The lists left are those that have not ended, in their order, and the pivot is
\* where it was between them.
LEMMA LeftLists ==
    ASSUME Types, NEW q, q = PivotWithout(DOMAIN lists \ Live)
    PROVE  /\ Left \in Seq(Known) /\ IsInjective(Left) /\ Len(Left) \in Nat
           /\ q \in 0..Len(Left)
           /\ ToSet(Left) = {t \in ToSet(lists) : ~AtEnd(t)}
           /\ {Left[n] : n \in 1..q} = {t \in Lesser(pivot) : ~AtEnd(t)}
           /\ {Left[n] : n \in (q + 1)..Len(Left)} = {t \in Essential : ~AtEnd(t)}
<1> DEFINE N == Len(lists)
           c(n) == Cardinality(Live \cap 1..n)
           M == Cardinality(Live)
<1>1. /\ N \in Nat /\ DOMAIN lists = 1..N /\ pivot \in Nat /\ pivot \in 0..N /\ N \in 0..N
      /\ \A n \in 1..N : lists[n] \in Known
      /\ \A m, n \in 1..N : lists[m] = lists[n] => m = n
  BY ListsAreTerms DEF Types
<1>2. Live \in SUBSET (1..N)
  BY <1>1 DEF Live
<1>3. /\ IsFiniteSet(Live) /\ M \in 0..N
      /\ \A n \in 0..N : c(n) \in 0..M
      /\ \A n \in Live : c(n) >= 1
      /\ \A n \in Live, m \in 0..N : (n <= m) <=> c(n) <= c(m)
      /\ \A m \in 1..M : \E n \in Live : c(n) = m
  BY <1>1, <1>2, Counting
<1>4. M \in Nat /\ (\A n \in Live : n \in 0..N /\ n \in 1..N /\ n \in Nat)
  BY <1>1, <1>2, <1>3
<1>5. \A n \in Live : c(n) \in 1..M
  <2> HIDE DEF c, M
  <2> QED
    BY <1>3, <1>4
<1>6. \A m, n \in Live : c(m) = c(n) => m = n
  <2> SUFFICES ASSUME NEW m \in Live, NEW n \in Live, c(m) = c(n) PROVE m = n
    OBVIOUS
  <2>1. c(m) <= c(n) /\ c(n) <= c(m)
    <3>1. c(m) \in Nat
      BY <1>5
    <3> HIDE DEF c
    <3> QED
      BY <3>1
  <2>2. m <= n /\ n <= m
    <3> HIDE DEF c
    <3> QED
      BY <1>3, <1>4, <2>1
  <2> QED
    BY <1>4, <2>2
<1>7. \A m \in 1..M : Nth(m) \in Live /\ c(Nth(m)) = m
  BY <1>3 DEF Nth
<1>8. \A n \in Live : Nth(c(n)) = n
  <2> HIDE DEF c
  <2> QED
    BY <1>5, <1>6, <1>7
<1>9. /\ Left \in Seq(Known) /\ Len(Left) = M /\ DOMAIN Left = 1..M
      /\ \A m \in 1..M : Left[m] = lists[Nth(m)]
  <2>1. Left = [n \in 1..M |-> lists[Nth(n)]]
    BY DEF Left
  <2>2. \A m \in 1..M : lists[Nth(m)] \in Known
    BY <1>1, <1>4, <1>7
  <2> HIDE DEF M
  <2> QED
    BY <1>4, <2>1, <2>2
<1>10. IsInjective(Left)
  <2> SUFFICES ASSUME NEW m \in 1..M, NEW n \in 1..M, Left[m] = Left[n] PROVE m = n
    BY <1>9 DEF IsInjective
  <2>1. Nth(m) = Nth(n)
    BY <1>1, <1>4, <1>7, <1>9
  <2> HIDE DEF c
  <2> QED
    BY <1>7, <2>1
<1>11. q = c(pivot)
  <2> DEFINE E == {n \in DOMAIN lists \ Live : n <= pivot}
             B == Live \cap 1..pivot
  <2>1. E \cup B = 1..pivot /\ E \cap B = {}
    BY <1>1, <1>2
  <2>2. IsFiniteSet(1..pivot) /\ Cardinality(1..pivot) = pivot
    BY <1>1, FS_Interval
  <2>3. IsFiniteSet(E) /\ IsFiniteSet(B)
    BY <2>1, <2>2, FS_Subset
  <2>4. Cardinality(E) \in Nat /\ Cardinality(B) \in Nat
    BY <2>3, FS_CardinalityType
  <2>5. Cardinality(E \cup B) = Cardinality(E) + Cardinality(B)
    <3> HIDE DEF E, B
    <3> QED
      BY <2>1, <2>3, CardinalityDisjointUnion
  <2>6. q = pivot - Cardinality(E)
    BY DEF PivotWithout
  <2>7. \A x, y, z \in Nat : x = y + z => x - y = z
    OBVIOUS
  <2> HIDE DEF E, B
  <2>8. pivot = Cardinality(E) + Cardinality(B) /\ pivot \in Nat
    BY <1>1, <2>1, <2>2, <2>5
  <2>9. q = Cardinality(B)
    BY <2>4, <2>6, <2>7, <2>8
  <2> QED
    BY <2>9 DEF B
<1>12. q \in 0..M /\ q \in Nat
  <2>1. c(pivot) \in 0..M
    BY <1>1, <1>3
  <2> HIDE DEF c, M
  <2> QED
    BY <1>4, <1>11, <2>1
<1>13. \A n \in Live : (n <= pivot) <=> c(n) <= q
  BY <1>1, <1>3, <1>11
<1>14. \A n \in 1..N : n \in Live <=> ~AtEnd(lists[n])
  BY <1>1 DEF Live
<1> HIDE DEF c, M
<1>15. ToSet(Left) = {t \in ToSet(lists) : ~AtEnd(t)}
  <2>1. ASSUME NEW m \in 1..M PROVE Left[m] \in {t \in ToSet(lists) : ~AtEnd(t)}
    BY <1>1, <1>4, <1>7, <1>9, <1>14 DEF ToSet
  <2>2. ASSUME NEW t \in ToSet(lists), ~AtEnd(t) PROVE \E m \in 1..M : Left[m] = t
    <3>1. PICK n \in 1..N : t = lists[n]
      BY <1>1 DEF ToSet
    <3>2. n \in Live /\ c(n) \in 1..M /\ Left[c(n)] = t
      BY <1>5, <1>8, <1>9, <1>14, <2>2, <3>1
    <3> QED
      BY <3>2
  <2> QED
    BY <1>9, <2>1, <2>2 DEF ToSet
<1>16. {Left[n] : n \in 1..q} = {t \in Lesser(pivot) : ~AtEnd(t)}
  <2>1. ASSUME NEW m \in 1..q PROVE Left[m] \in {t \in Lesser(pivot) : ~AtEnd(t)}
    <3>1. m \in 1..M /\ m <= q
      BY <1>4, <1>12
    <3>2. Nth(m) \in Live /\ Nth(m) <= pivot
      BY <1>7, <1>13, <3>1
    <3>3. Nth(m) \in 1..pivot
      BY <1>1, <1>4, <3>2
    <3> QED
      BY <1>4, <1>9, <1>14, <3>1, <3>2, <3>3 DEF Lesser
  <2>2. ASSUME NEW t \in Lesser(pivot), ~AtEnd(t) PROVE \E m \in 1..q : Left[m] = t
    <3>1. PICK n \in 1..pivot : t = lists[n]
      BY DEF Lesser
    <3>2. n \in 1..N /\ n <= pivot
      BY <1>1
    <3>3. n \in Live /\ c(n) \in 1..M /\ Left[c(n)] = t /\ c(n) <= q
      BY <1>5, <1>8, <1>9, <1>13, <1>14, <2>2, <3>1, <3>2
    <3>4. c(n) \in 1..q
      BY <1>4, <1>12, <3>3
    <3> QED
      BY <3>3, <3>4
  <2> QED
    BY <2>1, <2>2
<1>17. {Left[n] : n \in (q + 1)..M} = {t \in Essential : ~AtEnd(t)}
  <2>1. ASSUME NEW m \in (q + 1)..M PROVE Left[m] \in {t \in Essential : ~AtEnd(t)}
    <3>1. m \in 1..M /\ ~(m <= q)
      BY <1>4, <1>12
    <3>2. Nth(m) \in Live /\ ~(Nth(m) <= pivot)
      BY <1>7, <1>13, <3>1
    <3>3. Nth(m) \in (pivot + 1)..N
      BY <1>1, <1>4, <3>2
    <3> QED
      BY <1>4, <1>9, <1>14, <3>1, <3>2, <3>3 DEF Essential
  <2>2. ASSUME NEW t \in Essential, ~AtEnd(t) PROVE \E m \in (q + 1)..M : Left[m] = t
    <3>1. PICK n \in (pivot + 1)..N : t = lists[n]
      BY DEF Essential
    <3>2. n \in 1..N /\ ~(n <= pivot)
      BY <1>1
    <3>3. n \in Live /\ c(n) \in 1..M /\ Left[c(n)] = t /\ ~(c(n) <= q)
      BY <1>5, <1>8, <1>9, <1>13, <1>14, <2>2, <3>1, <3>2
    <3>4. c(n) \in (q + 1)..M
      BY <1>4, <1>12, <3>3
    <3> QED
      BY <3>3, <3>4
  <2> QED
    BY <2>1, <2>2
<1> QED
  BY <1>4, <1>9, <1>10, <1>12, <1>15, <1>16, <1>17

\* Lists that have ended hold no document that has not been seen, and go.
LEMMA EraseEndedKeepsPInv == PInv /\ EraseEnded => PInv'
<1> SUFFICES ASSUME PInv, EraseEnded PROVE PInv'
  OBVIOUS
<1>1. /\ pc = "erase" /\ lists' = Left /\ pivot' = PivotWithout(DOMAIN lists \ Live)
      /\ curr_docid' = next /\ pc' = Continues(pivot', lists')
      /\ UNCHANGED <<postings, at, skipped, upper_bounds, threshold, next, score, bub, j, results, scored>>
  BY DEF EraseEnded
<1>2. Types /\ curr_docid \in Docs /\ next \in Docs /\ curr_docid \in Nat /\ next \in Nat /\ next >= curr_docid
  BY <1>1, DocidType DEF PInv, NextInRound, Round
<1>3. /\ Left \in Seq(Known) /\ IsInjective(Left) /\ Len(Left) \in Nat
      /\ pivot' \in 0..Len(Left)
      /\ ToSet(Left) = {t \in ToSet(lists) : ~AtEnd(t)}
      /\ {Left[n] : n \in 1..pivot'} = {t \in Lesser(pivot) : ~AtEnd(t)}
      /\ {Left[n] : n \in (pivot' + 1)..Len(Left)} = {t \in Essential : ~AtEnd(t)}
  BY <1>1, <1>2, LeftLists
<1>4. /\ ToSet(lists)' = {t \in ToSet(lists) : ~AtEnd(t)}
      /\ Lesser(pivot)' = {t \in Lesser(pivot) : ~AtEnd(t)}
      /\ Essential' = {t \in Essential : ~AtEnd(t)}
  BY <1>1, <1>3 DEF Lesser, Essential
<1>5. Known' = Known /\ Gone' \subseteq Gone \cup {t \in ToSet(lists) : AtEnd(t)}
  BY <1>1, <1>4 DEF Known, Gone
<1>6. \A t : First(t)' = First(t) /\ Passed(t)' = Passed(t) /\ (AtEnd(t)' <=> AtEnd(t))
  BY <1>1 DEF First, Passed, AtEnd, Size
<1>7. faults' \subseteq Faults
  BY <1>2 DEF EraseEnded, Types, Faults
<1>8. pc' = IF pivot' < Len(lists') THEN "essential" ELSE "done"
  BY <1>1 DEF Continues
<1>9. Types'
  BY <1>1, <1>2, <1>3, <1>5, <1>7, <1>8, DocidType DEF Types, Size
<1>10. /\ \A t \in Essential : First(t) >= curr_docid /\ First(t) >= next
       /\ \A t \in Essential : First(t) = curr_docid => AtEnd(t)
       /\ \A t \in ToSet(lists) : \A d \in Passed(t) : d <= curr_docid
       /\ curr_docid \in scored /\ \A d \in scored : d <= curr_docid
       /\ scored \subseteq Docs
  BY <1>1 DEF PInv, Types, EssentialInRound, PassedInRound, NextInRound, Seen, Round
<1>11. /\ ToSet(lists) \subseteq Known /\ Essential \subseteq ToSet(lists) /\ Known \subseteq Terms
  BY <1>2, ListsAreTerms
<1>12. \A d \in Docs : d <= curr_docid => d < next \/ d \in scored
  BY <1>2, <1>10, DocidType
<1>13. \A d \in scored : d <= next
  BY <1>2, <1>10, DocidType
<1>14. \A t \in Known : \A d \in Passed(t) : d \in Docs
  BY <1>2, Iterators
<1>15. BetweenRounds'
  <2>1. \A t \in ToSet(lists)' : ~AtEnd(t)'
    BY <1>4, <1>6
  <2>2. \A t \in ToSet(lists)' : \A d \in Passed(t)' : d < curr_docid' \/ d \in scored'
    BY <1>1, <1>4, <1>6, <1>10, <1>11, <1>12, <1>14
  <2>3. \A t \in Essential' : First(t)' >= curr_docid'
    BY <1>1, <1>4, <1>6, <1>10
  <2>4. ASSUME NEW t \in Essential', curr_docid' \in scored' PROVE First(t)' > curr_docid'
    <3>1. t \in Essential /\ ~AtEnd(t) /\ First(t)' = First(t)
      BY <1>4, <1>6
    <3>2. next = curr_docid
      BY <1>1, <1>2, <1>10, <2>4
    <3>3. First(t) # curr_docid /\ First(t) >= curr_docid /\ First(t) \in Nat
      BY <1>2, <1>10, <1>11, <3>1, Iterators, DocidType
    <3> QED
      BY <1>1, <1>2, <3>1, <3>2, <3>3
  <2>5. /\ pc' = "essential" => pivot' < Len(lists')
        /\ pc' = "done" => pivot' = Len(lists')
    <3>1. pivot' \in Nat /\ pivot' <= Len(lists') /\ Len(lists') \in Nat
      BY <1>1, <1>3
    <3> QED
      BY <1>8, <3>1
  <2> QED
    BY <2>1, <2>2, <2>3, <2>4, <2>5 DEF BetweenRounds
<1>16. Seen'
  <2>1. ASSUME NEW t \in Essential', NEW d \in ToSet(postings[t]), d < next PROVE d \in scored
    <3>1. t \in Essential /\ ~AtEnd(t) /\ t \in Known
      BY <1>4, <1>11
    <3>2. d \in Docs /\ First(t) \in Nat /\ (d \in Passed(t) \/ First(t) <= d)
      BY <1>2, <3>1, Iterators, DocidType
    <3>3. d \in Nat /\ First(t) >= next
      BY <1>10, <3>1, <3>2, DocidType
    <3>4. d \in Passed(t)
      BY <1>2, <2>1, <3>2, <3>3
    <3>5. d <= curr_docid
      BY <1>10, <1>11, <3>1, <3>4
    <3>6. d = curr_docid \/ d < curr_docid
      BY <1>2, <3>3, <3>5
    <3>7. d < curr_docid => d \in scored
      BY <1>1, <3>1 DEF PInv, Seen
    <3> QED
      BY <1>10, <3>6, <3>7
  <2>2. ASSUME NEW t \in Gone', NEW d \in ToSet(postings[t]) PROVE d < next \/ d \in scored
    <3>1. CASE t \in Gone
      <4>1. d < curr_docid \/ d \in scored
        BY <1>1, <3>1 DEF PInv, Seen
      <4>2. d \in Docs
        BY <1>2, <3>1, Iterators DEF Gone
      <4> QED
        BY <1>2, <4>1, <4>2, DocidType
    <3>2. CASE t \in ToSet(lists) /\ AtEnd(t)
      <4>1. Passed(t) = ToSet(postings[t]) /\ d \in Docs
        BY <1>2, <1>11, <3>2, Iterators
      <4>2. d <= curr_docid
        BY <1>10, <3>2, <4>1
      <4> QED
        BY <1>12, <4>1, <4>2
    <3> QED
      BY <1>5, <3>1, <3>2
  <2>3. TermsOf(curr_docid)' # {}
    <3>1. TermsOf(next) # {}
      BY <1>1 DEF PInv, NextInRound, Round
    <3> QED
      BY <1>1, <3>1 DEF TermsOf
  <2> QED
    BY <1>1, <1>13, <2>1, <2>2, <2>3 DEF Seen
<1> QED
  BY <1>1, <1>4, <1>8, <1>9, <1>15, <1>16
     DEF PInv, Building, EssentialInRound, PassedInRound, NextInRound, Round, Unskipped


\* A step that changes nothing keeps it.
LEMMA StutterKeepsPInv == PInv /\ UNCHANGED vars => PInv'
<1> SUFFICES ASSUME PInv, UNCHANGED vars PROVE PInv'
  OBVIOUS
<1>1. UNCHANGED <<postings, lists, at, skipped, upper_bounds, pivot, threshold, curr_docid, next, score, bub,
                  j, results, scored, faults, pc>>
  BY DEF vars, loopVars
<1>2. Known' = Known /\ Essential' = Essential /\ Lesser(pivot)' = Lesser(pivot) /\ Gone' = Gone
  BY <1>1 DEF Known, Essential, Lesser, Gone
<1>3. \A t : First(t)' = First(t) /\ Passed(t)' = Passed(t) /\ (AtEnd(t)' <=> AtEnd(t))
  BY <1>1 DEF First, Passed, AtEnd, Size
<1>4. Types' /\ Building' /\ BetweenRounds'
  BY <1>1, <1>2, <1>3 DEF PInv, Types, Size, Building, BetweenRounds
<1>5. EssentialInRound' /\ PassedInRound' /\ NextInRound' /\ Seen'
  BY <1>1, <1>2, <1>3 DEF PInv, EssentialInRound, PassedInRound, NextInRound, Seen, TermsOf
<1> QED
  BY <1>1, <1>2, <1>4, <1>5 DEF PInv, Unskipped

\* The invariant is inductive.
LEMMA NextKeepsPInv == PInv /\ [Next]_vars => PInv'
BY BuildHelpersKeepsPInv, ScoreEssentialKeepsPInv, PopulateBubKeepsPInv, ScoreRestKeepsPInv,
   LeaveRestKeepsPInv, PushResultKeepsPInv, EraseEndedKeepsPInv, StutterKeepsPInv
   DEF Next, Terminated

\* Where the iterators, the current document and the documents scored are, at every
\* step of a query (Index.cpp:43-130).
THEOREM Positions == Spec => []PInv
<1>1. Init => PInv
  BY InitPInv
<1>2. PInv /\ [Next]_vars => PInv'
  BY NextKeepsPInv
<1> QED
  BY <1>1, <1>2, PTL DEF Spec

\* The state of the query is well typed: no list is left twice, the pivot is within
\* the lists that are left, and the heap holds no more than K (query_bmm).
THEOREM TypeCorrect == Spec => []TypeOK
<1>1. PInv => TypeOK
  <2> SUFFICES ASSUME PInv PROVE TypeOK
    OBVIOUS
  <2>1. Types /\ ToSet(lists) \subseteq Known /\ Known \subseteq Terms
    BY ListsAreTerms DEF PInv
  <2>2. \A d \in 1..DOCID_MAX : d \in Docs \cup {DOCID_MAX}
    BY BMMAssumption DEF Docs, DOCID_MAX
  <2> QED
    BY <2>1, <2>2 DEF TypeOK, Types, Known
<1> QED
  BY <1>1, Positions, PTL

\* Of the lists that are essential no posting is passed over, and no block skipped
\* (54-63, 79-89 and 108-127).
THEOREM NoPostingIsPassed == Spec => []EssentialListsAreNotPassed
<1>1. PInv => EssentialListsAreNotPassed
  <2> SUFFICES ASSUME PInv, pc = "essential", NEW n \in (pivot + 1)..Len(lists)
               PROVE  /\ First(lists[n]) >= curr_docid
                      /\ \A d \in ToSet(postings[lists[n]]) : d < curr_docid => d \in scored
                      /\ lists[n] \notin skipped
    BY DEF EssentialListsAreNotPassed
  <2>1. lists[n] \in Essential
    BY DEF Essential
  <2> QED
    BY <2>1 DEF PInv, BetweenRounds, Seen, Unskipped
<1> QED
  BY <1>1, Positions, PTL

\* A document is scored again only right after the round in which a list ended with
\* it (57-62), and so at most once.
THEOREM SecondScoreIsAtEnds == Spec => ScoredAgainOnlyAtEnds
<1> DEFINE Again == (pc = "erase" /\ pc' = "essential" /\ curr_docid' <= curr_docid)
                      => /\ curr_docid' = curr_docid
                         /\ \E t \in ToSet(lists) : AtEnd(t) /\ First(t) = curr_docid
<1>1. PInv /\ [Next]_vars => Again
  <2> SUFFICES ASSUME PInv, [Next]_vars, pc = "erase", pc' = "essential", curr_docid' <= curr_docid
               PROVE  /\ curr_docid' = curr_docid
                      /\ \E t \in ToSet(lists) : AtEnd(t) /\ First(t) = curr_docid
    OBVIOUS
  <2>1. curr_docid' = next
    BY DEF Next, BuildHelpers, ScoreEssential, PopulateBub, ScoreRest, LeaveRest, PushResult, EraseEnded,
           Terminated, vars
  <2>2. /\ next >= curr_docid /\ next \in Nat /\ curr_docid \in Nat
        /\ next = curr_docid => \E t \in ToSet(lists) : AtEnd(t) /\ First(t) = curr_docid
    BY DocidType DEF PInv, NextInRound, Round
  <2> QED
    BY <2>1, <2>2
<1>2. PInv /\ [Next]_vars => [Again]_vars
  BY <1>1
<1> QED
  BY <1>2, Positions, PTL DEF Spec, ScoredAgainOnlyAtEnds

-----------------------------------------------------------------------------
(* Scores, and what lists can add to them.                                 *)

Mosts == [t \in Known |-> GreatestOf(t, 1..Size(t))]

\* The terms that a document has are known.
LEMMA TermsAreKnown ==
    ASSUME Types, NEW d
    PROVE  TermsOf(d) \subseteq Known /\ TermsOf(d) \subseteq Terms
<1> SUFFICES ASSUME NEW t \in TermsOf(d) PROVE t \in Known
  BY DEF TermsOf
<1>1. t \in Terms /\ d \in ToSet(postings[t])
  BY DEF TermsOf
<1>2. DOMAIN postings[t] # {}
  BY <1>1 DEF ToSet
<1>3. postings[t] # <<>>
  BY <1>2
<1> QED
  BY <1>1, <1>3 DEF Known

\* The score of a document.
LEMMA ScoreOfIsSum ==
    ASSUME Types, NEW d \in Docs
    PROVE  /\ ScoreOf(d) = SumFunctionOnSet(Scores(d), TermsOf(d))
           /\ ScoreOf(d) \in Nat
<1>1. TermsOf(d) \in SUBSET Terms
  BY TermsAreKnown
<1> QED
  BY <1>1, ScoreIsSum DEF ScoreOf

\* What the first lists add to the current document.
LEMMA AddedIsSum ==
    ASSUME Types, curr_docid \in Docs, NEW n \in 0..Len(lists)
    PROVE  /\ Added(n) = SumFunctionOnSet(Scores(curr_docid), Lesser(n) \cap TermsOf(curr_docid))
           /\ Added(n) \in Nat
<1>1. Lesser(n) \cap TermsOf(curr_docid) \in SUBSET Terms
  BY TermsAreKnown
<1> QED
  BY <1>1, ScoreIsSum DEF Added

\* What some terms can add to any document.
LEMMA MostsAreSum ==
    ASSUME Types, NEW T \in SUBSET Known
    PROVE  /\ SumFunction([t \in T |-> GreatestOf(t, 1..Size(t))]) = SumFunctionOnSet(Mosts, T)
           /\ SumFunctionOnSet(Mosts, T) \in Nat
           /\ IsFiniteSet(T) /\ \A t \in Known : Mosts[t] \in Nat
<1>1. IsFiniteSet(T)
  BY BMMAssumption, FS_Subset DEF Known
<1>2. \A t \in Known : GreatestOf(t, 1..Size(t)) \in Nat
  <2> TAKE t \in Known
  <2>1. postings \in [Terms -> PostingLists] /\ t \in Terms /\ postings[t] # <<>>
    BY DEF Types, Known
  <2>2. 1..Size(t) \in SUBSET (1..Size(t)) /\ 1..Size(t) # {}
    BY <2>1, PostingListType DEF Size
  <2> QED
    BY <2>1, <2>2, GreatestOfIsGreatest
<1> DEFINE f == [t \in T |-> GreatestOf(t, 1..Size(t))]
           g == Mosts
<1>3. DOMAIN f = T /\ \A t \in T : g[t] \in Nat /\ g[t] = f[t]
  BY <1>2 DEF Mosts
<1>4. SumFunction(f) = SumFunctionOnSet(f, T)
  BY <1>3 DEF SumFunction
<1>5. \A t \in Known : Mosts[t] \in Nat
  BY <1>2 DEF Mosts
<1> HIDE DEF f, g
<1>6. SumFunctionOnSet(g, T) = SumFunctionOnSet(f, T) /\ SumFunctionOnSet(g, T) \in Nat
  BY <1>1, <1>3, SumSame, SumType
<1> QED
  BY <1>1, <1>4, <1>5, <1>6 DEF f, g

\* What the first lists can add to any is a sum over their terms.
LEMMA GreatestIsSum ==
    ASSUME Types, NEW n \in 0..Len(lists)
    PROVE  /\ Greatest(n) = SumFunctionOnSet(Mosts, Lesser(n))
           /\ Greatest(n) \in Nat
           /\ IsFiniteSet(Lesser(n)) /\ Lesser(n) \subseteq Known
           /\ \A t \in Known : Mosts[t] \in Nat
<1>1. Lesser(n) \in SUBSET Known
  BY ListsAreTerms
<1> QED
  BY <1>1, MostsAreSum DEF Greatest

\* No document gets more from some of the first lists than those can give.
LEMMA AddedIsNotMore ==
    ASSUME Types, NEW d \in Docs, NEW n \in 0..Len(lists),
           NEW T \in SUBSET (Lesser(n) \cap TermsOf(d))
    PROVE  SumFunctionOnSet(Scores(d), T) <= Greatest(n)
<1>1. /\ Greatest(n) = SumFunctionOnSet(Mosts, Lesser(n)) /\ Greatest(n) \in Nat
      /\ IsFiniteSet(Lesser(n)) /\ Lesser(n) \subseteq Known /\ \A t \in Known : Mosts[t] \in Nat
  BY GreatestIsSum
<1>2. IsFiniteSet(T) /\ T \subseteq Known /\ T \subseteq Terms
  BY <1>1, FS_Subset, TermsAreKnown
<1>3. ASSUME NEW t \in T
      PROVE  Scores(d)[t] \in Nat /\ Mosts[t] \in Nat /\ Scores(d)[t] <= Mosts[t]
  <2>1. /\ postings \in [Terms -> PostingLists] /\ t \in Terms /\ t \in Known
        /\ d \in ToSet(postings[t])
    BY <1>2 DEF Types, TermsOf
  <2>2. PICK p \in 1..Size(t) : postings[t][p] = d
    BY <2>1, PostingListType DEF ToSet, Size
  <2>3. 1..Size(t) \in SUBSET (1..Size(t)) /\ 1..Size(t) # {}
    BY <2>2
  <2>4. Contribution(t, d) <= GreatestOf(t, 1..Size(t))
    BY <2>1, <2>2, <2>3, GreatestOfIsGreatest
  <2>5. Scores(d)[t] = Contribution(t, d) /\ Mosts[t] = GreatestOf(t, 1..Size(t))
    BY <2>1 DEF Scores, Mosts
  <2>6. Contribution(t, d) \in Nat
    BY <2>1, BMMAssumption
  <2> QED
    BY <1>1, <2>1, <2>4, <2>5, <2>6
<1>4. SumFunctionOnSet(Scores(d), T) <= SumFunctionOnSet(Mosts, T)
  BY <1>2, <1>3, SumMonotone
<1>5. SumFunctionOnSet(Mosts, T) <= SumFunctionOnSet(Mosts, Lesser(n))
  <2>1. \A t \in Lesser(n) : Mosts[t] \in Nat
    BY <1>1
  <2> QED
    BY <1>1, <2>1, SumOfSubset
<1>6. SumFunctionOnSet(Scores(d), T) \in Nat /\ SumFunctionOnSet(Mosts, T) \in Nat
  BY <1>2, <1>3, SumType
<1> QED
  BY <1>1, <1>4, <1>5, <1>6

-----------------------------------------------------------------------------
(* The answer when nothing goes wrong.                                     *)

Clean == faults \cap {"early", "repeat", "misread", "again", "bound"} = {}
Full == Cardinality(results) = K

\* A document that is not better than the worst result of a full heap.
Beaten(d) == Full /\ ScoreOf(d) <= threshold

\* It is in the results with its score, or beaten.
Held(d) == EntryOf(d) \in Returned \/ Beaten(d)

\* The threshold is the worst score of the results.
Threshold ==
    /\ results = {} => threshold = 0
    /\ \A r \in results : threshold <= r.score
    /\ results # {} => \E r \in results : r.score = threshold

\* The results are of documents that were scored, the current one only once ...
Entries ==
    /\ \A r \in results : r.docid \in scored /\ TermsOf(r.docid) # {}
    /\ \A r \in results : (r.again /\ r.docid = curr_docid) => (pc = "erase" /\ next > curr_docid)

\* ... and have the scores of their documents, none of which is taken in again.
TrueScores ==
    Clean => \A r \in results : ~r.again /\ r.score = ScoreOf(r.docid)

\* A list is not essential only when the heap is full of results that the lists
\* that are not essential cannot beat together.
Pruned == (Clean /\ pivot > 0) => Full /\ Greatest(pivot) <= threshold

\* Every document up to the current one, scored or passed over, is held.
Accounted ==
    Clean => \A d \in Docs :
      (TermsOf(d) # {} /\ (d \in scored \/ (pc # "build" /\ d < curr_docid))) => Held(d)

\* The lists that are still to be looked at for the current document.
Missing == IF pc = "rest" THEN pivot - j ELSE pivot

\* What the score of a document still lacks, the first time, is what those lists add to it.
Adding ==
    (Clean /\ curr_docid \notin scored) =>
      /\ pc \in {"bub", "rest"} => ScoreOf(curr_docid) = score + Added(Missing)
      /\ pc = "push" => score = ScoreOf(curr_docid) \/ (Beaten(curr_docid) /\ score <= threshold)

OneRound == (Clean /\ pc = "rest") => j <= 1

TInv == Threshold /\ Entries /\ TrueScores /\ Pruned /\ Accounted /\ Adding /\ OneRound

\* The scores of documents stay, and what has gone wrong.
LEMMA ScoresStay ==
    ASSUME postings' = postings
    PROVE  /\ \A d : TermsOf(d)' = TermsOf(d) /\ ScoreOf(d)' = ScoreOf(d) /\ EntryOf(d)' = EntryOf(d)
           /\ Mosts' = Mosts /\ Known' = Known
<1>1. \A d : TermsOf(d)' = TermsOf(d)
  BY DEF TermsOf
<1>2. \A d : ScoreOf(d)' = ScoreOf(d)
  BY <1>1 DEF ScoreOf
<1>3. Mosts' = Mosts /\ Known' = Known
  BY DEF Mosts, Known, GreatestOf, Size
<1> QED
  BY <1>1, <1>2, <1>3 DEF EntryOf

\* What holds of the results in a round stays until a result is pushed.
LEMMA ResultsStay ==
    ASSUME TInv, pc \notin {"build", "erase"}, pc' # "erase", faults \subseteq faults',
           UNCHANGED <<postings, lists, pivot, threshold, results, scored, curr_docid>>
    PROVE  /\ Clean' => Clean
           /\ Threshold' /\ Entries' /\ TrueScores' /\ Pruned' /\ Accounted'
           /\ Full' = Full /\ Beaten(curr_docid)' = Beaten(curr_docid)
           /\ ScoreOf(curr_docid)' = ScoreOf(curr_docid)
<1>1. Clean' => Clean
  BY DEF Clean
<1>2. \A d : TermsOf(d)' = TermsOf(d) /\ ScoreOf(d)' = ScoreOf(d) /\ EntryOf(d)' = EntryOf(d)
  BY ScoresStay
<1>3. Returned' = Returned /\ Full' = Full
  BY DEF Returned, Full
<1>4. \A d : Beaten(d)' = Beaten(d)
  BY <1>2, <1>3 DEF Beaten
<1>5. \A d : Held(d)' = Held(d)
  BY <1>2, <1>3, <1>4 DEF Held
<1>6. Greatest(pivot)' = Greatest(pivot)
  BY DEF Greatest, Lesser, GreatestOf, Size
<1>7. Threshold'
  BY DEF TInv, Threshold
<1>8. Entries'
  BY <1>2 DEF TInv, Entries
<1>9. TrueScores'
  BY <1>1, <1>2 DEF TInv, TrueScores
<1>10. Pruned'
  BY <1>1, <1>3, <1>6 DEF TInv, Pruned
<1>11. Accounted'
  BY <1>1, <1>2, <1>5 DEF TInv, Accounted
<1> QED
  BY <1>1, <1>2, <1>3, <1>4, <1>7, <1>8, <1>9, <1>10, <1>11

\* What two groups of terms add to a score.
LEMMA ScoreSplits ==
    ASSUME NEW d \in Docs, NEW A \in SUBSET Terms, NEW B \in SUBSET Terms, A \cap B = {}
    PROVE  /\ SumFunctionOnSet(Scores(d), A \cup B)
                = SumFunctionOnSet(Scores(d), A) + SumFunctionOnSet(Scores(d), B)
           /\ SumFunctionOnSet(Scores(d), A) \in Nat /\ SumFunctionOnSet(Scores(d), B) \in Nat
<1>1. IsFiniteSet(A) /\ IsFiniteSet(B) /\ \A t \in A \cup B : Scores(d)[t] \in Nat
  BY BMMAssumption, FS_Subset DEF Scores
<1>2. SumFunctionOnSet(Scores(d), A) \in Nat /\ SumFunctionOnSet(Scores(d), B) \in Nat
  BY ScoreIsSum
<1> PICK f : f = Scores(d)
  OBVIOUS
<1>3. SumFunctionOnSet(f, A \cup B) = SumFunctionOnSet(f, A) + SumFunctionOnSet(f, B)
  BY <1>1, SumDisjointUnion
<1> QED
  BY <1>2, <1>3

\* A document scored for the first time lacks what the other lists add to it.
LEMMA EssentialAdds ==
    ASSUME PInv, ScoreEssential
    PROVE  /\ curr_docid \notin scored => ScoreOf(curr_docid) = score' + Added(pivot)
           /\ Added(pivot) \in Nat /\ score' \in Nat
           /\ pivot = 0 => Added(pivot) = 0
<1> DEFINE S == {u \in Essential : First(u) = curr_docid}
           R == Lesser(pivot) \cap TermsOf(curr_docid)
<1>1. pc = "essential" /\ Types
  BY DEF ScoreEssential, PInv
<1>2. /\ curr_docid \in Docs /\ S \in SUBSET Terms /\ score' \in Nat
      /\ score' = SumFunctionOnSet(Scores(curr_docid), S)
  BY <1>1, EssentialScore
<1>3. /\ \A t \in Essential : First(t) >= curr_docid
      /\ \A t \in ToSet(lists) : ~AtEnd(t)
      /\ \A t \in ToSet(lists) : \A d \in Passed(t) : d < curr_docid \/ d \in scored
      /\ \A t \in Gone : \A d \in ToSet(postings[t]) : d < curr_docid \/ d \in scored
  BY <1>1 DEF PInv, BetweenRounds, Seen
<1>4. /\ ToSet(lists) = Lesser(pivot) \cup Essential /\ Lesser(pivot) \cap Essential = {}
      /\ ToSet(lists) \subseteq Known /\ Known \subseteq Terms /\ pivot \in 0..Len(lists)
  BY <1>1, ListsAreTerms DEF Types
<1>5. curr_docid \in Nat
  BY <1>2, DocidType
<1>6. R \in SUBSET Terms /\ S \cap R = {}
  BY <1>4
<1>7. Added(pivot) = SumFunctionOnSet(Scores(curr_docid), R) /\ Added(pivot) \in Nat
  BY <1>1, <1>2, <1>4, AddedIsSum
<1>8. ASSUME curr_docid \notin scored
      PROVE  TermsOf(curr_docid) = S \cup R
  <2>1. ASSUME NEW t \in S PROVE t \in TermsOf(curr_docid)
    <3>1. t \in Known /\ First(t) = curr_docid
      BY <1>4
    <3>2. First(t) \in ToSet(postings[t])
      BY <1>1, <3>1, Iterators
    <3> QED
      BY <1>4, <3>1, <3>2 DEF TermsOf
  <2>2. ASSUME NEW t \in TermsOf(curr_docid), t \notin Lesser(pivot) PROVE t \in S
    <3>1. t \in Known /\ curr_docid \in ToSet(postings[t])
      BY <1>1, TermsAreKnown DEF TermsOf
    <3>2. ~(curr_docid < curr_docid)
      BY <1>5
    <3>3. t \notin Gone
      BY <1>3, <1>8, <3>1, <3>2
    <3>4. t \in Essential /\ t \in ToSet(lists)
      BY <1>4, <2>2, <3>1, <3>3 DEF Gone
    <3>5. curr_docid \notin Passed(t) /\ ~AtEnd(t)
      BY <1>3, <1>8, <3>2, <3>4
    <3>6. First(t) <= curr_docid /\ First(t) \in Nat
      BY <1>1, <3>1, <3>5, Iterators, DocidType
    <3>7. First(t) >= curr_docid
      BY <1>3, <3>4
    <3>8. First(t) = curr_docid
      BY <1>5, <3>6, <3>7
    <3> QED
      BY <3>4, <3>8
  <2> QED
    BY <2>1, <2>2
<1>9. ASSUME curr_docid \notin scored
      PROVE  ScoreOf(curr_docid) = score' + Added(pivot)
  <2>1. ScoreOf(curr_docid) = SumFunctionOnSet(Scores(curr_docid), S \cup R)
    BY <1>1, <1>2, <1>8, <1>9, ScoreOfIsSum
  <2> HIDE DEF S, R
  <2>2. SumFunctionOnSet(Scores(curr_docid), S \cup R)
          = SumFunctionOnSet(Scores(curr_docid), S) + SumFunctionOnSet(Scores(curr_docid), R)
    BY <1>2, <1>6, ScoreSplits
  <2> QED
    BY <1>2, <1>7, <2>1, <2>2
<1>10. ASSUME pivot = 0 PROVE Added(pivot) = 0
  <2>1. Lesser(pivot) = {}
    BY <1>10 DEF Lesser
  <2>2. R = {}
    BY <2>1
  <2> HIDE DEF R
  <2> QED
    BY <1>7, <2>2, SumEmpty
<1> QED
  BY <1>2, <1>7, <1>9, <1>10

\* Scoring a document by the essential lists keeps what holds of the scores.
LEMMA ScoreEssentialKeepsTInv == PInv /\ TInv /\ ScoreEssential => TInv'
<1> SUFFICES ASSUME PInv, TInv, ScoreEssential PROVE TInv'
  OBVIOUS
<1> DEFINE passed == pivot # 0 /\ score' + upper_bounds[pivot] <= threshold
<1>1. /\ pc = "essential" /\ faults' = IF passed THEN faults \cup PassedOver(score', pivot) ELSE faults
      /\ pc' = IF pivot # 0 /\ ~passed THEN "bub" ELSE "push"
      /\ UNCHANGED <<postings, lists, upper_bounds, pivot, threshold, curr_docid, bub, j, results, scored>>
  BY DEF ScoreEssential
<1>2. /\ Clean' => Clean
      /\ Threshold' /\ Entries' /\ TrueScores' /\ Pruned' /\ Accounted'
      /\ Full' = Full /\ Beaten(curr_docid)' = Beaten(curr_docid)
      /\ ScoreOf(curr_docid)' = ScoreOf(curr_docid)
  <2>1. pc \notin {"build", "erase"} /\ pc' # "erase" /\ faults \subseteq faults'
    BY <1>1
  <2> QED
    BY <1>1, <2>1, ResultsStay
<1>3. /\ curr_docid \notin scored => ScoreOf(curr_docid) = score' + Added(pivot)
      /\ Added(pivot) \in Nat /\ score' \in Nat
      /\ pivot = 0 => Added(pivot) = 0
  BY EssentialAdds
<1>4. Added(pivot)' = Added(pivot)
  BY <1>1 DEF Added, Lesser, TermsOf
<1>5. pivot \in Nat /\ threshold \in Nat
  BY DEF PInv, Types
<1>6. pc' # "rest" /\ pc' \in {"bub", "push"}
  BY <1>1
<1>7. Adding'
  <2> SUFFICES ASSUME Clean', curr_docid \notin scored
               PROVE  /\ pc' = "bub" => ScoreOf(curr_docid) = score' + Added(pivot)
                      /\ pc' = "push" => \/ score' = ScoreOf(curr_docid)
                                         \/ Beaten(curr_docid) /\ score' <= threshold
    BY <1>1, <1>2, <1>4, <1>6 DEF Adding, Missing
  <2>1. CASE pivot = 0
    BY <1>1, <1>3, <2>1
  <2>2. CASE pivot # 0 /\ passed
    <3>1. "bound" \notin PassedOver(score', pivot)
      BY <1>1, <2>2 DEF Clean
    <3>2. ~(score' + Added(pivot) > threshold)
      BY <3>1, <2>2 DEF PassedOver
    <3>3. ScoreOf(curr_docid) <= threshold /\ score' <= threshold
      BY <1>3, <1>5, <2>2, <3>2
    <3>4. Full
      BY <1>2, <1>5, <2>2 DEF TInv, Pruned
    <3> QED
      BY <1>1, <2>2, <3>3, <3>4 DEF Beaten
  <2>3. CASE pivot # 0 /\ ~passed
    BY <1>1, <1>3, <2>3
  <2> QED
    BY <2>1, <2>2, <2>3
<1>8. OneRound'
  BY <1>6 DEF OneRound
<1> QED
  BY <1>2, <1>7, <1>8 DEF TInv

\* So does looking up the bounds of the blocks.
LEMMA PopulateBubKeepsTInv == PInv /\ TInv /\ PopulateBub => TInv'
<1> SUFFICES ASSUME PInv, TInv, PopulateBub PROVE TInv'
  OBVIOUS
<1>1. /\ pc = "bub" /\ pc' = "rest" /\ j' = 0 /\ faults \subseteq faults'
      /\ UNCHANGED <<postings, lists, at, upper_bounds, pivot, threshold, curr_docid, next,
                     score, results, scored>>
  BY DEF PopulateBub
<1>2. /\ Clean' => Clean
      /\ Threshold' /\ Entries' /\ TrueScores' /\ Pruned' /\ Accounted'
      /\ Full' = Full /\ Beaten(curr_docid)' = Beaten(curr_docid)
      /\ ScoreOf(curr_docid)' = ScoreOf(curr_docid)
  BY <1>1, ResultsStay
<1>3. pivot \in Nat /\ threshold \in Nat /\ pivot - 0 = pivot
  BY DEF PInv, Types
<1>4. Missing = pivot /\ Missing' = pivot
  BY <1>1, <1>3 DEF Missing
<1>5. Added(pivot)' = Added(pivot)
  BY <1>1 DEF Added, Lesser, TermsOf
<1>6. Added(Missing)' = Added(Missing)
  <2>1. Added(Missing)' = Added(pivot)'
    BY <1>1, <1>4 DEF Added, Lesser
  <2> QED
    BY <1>4, <1>5, <2>1
<1>7. Adding'
  BY <1>1, <1>2, <1>6 DEF TInv, Adding
<1>8. OneRound'
  BY <1>1 DEF OneRound
<1> QED
  BY <1>2, <1>7, <1>8 DEF TInv

\* The last of the first lists adds what its term does to a document it holds.
LEMMA AddedByLast ==
    ASSUME Types, curr_docid \in Docs, NEW n \in 1..Len(lists), NEW t, t = lists[n]
    PROVE  /\ Added(n) = IF t \in TermsOf(curr_docid)
                         THEN Contribution(t, curr_docid) + Added(n - 1) ELSE Added(n - 1)
           /\ Added(n) \in Nat /\ Added(n - 1) \in Nat
           /\ Contribution(t, curr_docid) \in Nat
           /\ t \in TermsOf(curr_docid) => Contribution(t, curr_docid) <= Greatest(n)
<1> DEFINE A == Lesser(n) \cap TermsOf(curr_docid)
           B == Lesser(n - 1) \cap TermsOf(curr_docid)
           f == Scores(curr_docid)
<1>1. n \in Nat /\ n - 1 \in 0..Len(lists) /\ n \in 0..Len(lists) /\ Len(lists) \in Nat
  BY ListsAreTerms
<1>2. Lesser(n) = Lesser(n - 1) \cup {t}
  <2>1. 1..n = 1..(n - 1) \cup {n}
    BY <1>1
  <2> QED
    BY <2>1 DEF Lesser
<1>3. t \notin Lesser(n - 1)
  <2> SUFFICES ASSUME NEW m \in 1..(n - 1), lists[m] = lists[n] PROVE FALSE
    BY DEF Lesser
  <2>1. m \in 1..Len(lists) /\ m # n
    BY <1>1
  <2> QED
    BY <2>1, ListsAreTerms
<1>4. t \in Terms
  BY ListsAreTerms
<1>5. Contribution(t, curr_docid) \in Nat /\ f[t] = Contribution(t, curr_docid)
  BY <1>4, BMMAssumption DEF Scores
<1>6. /\ Added(n) = SumFunctionOnSet(f, A) /\ Added(n) \in Nat
      /\ Added(n - 1) = SumFunctionOnSet(f, B) /\ Added(n - 1) \in Nat
  BY <1>1, AddedIsSum
<1>7. ASSUME t \notin TermsOf(curr_docid) PROVE Added(n) = Added(n - 1)
  BY <1>2, <1>6, <1>7
<1>8. ASSUME t \in TermsOf(curr_docid)
      PROVE  /\ Added(n) = Contribution(t, curr_docid) + Added(n - 1)
             /\ Contribution(t, curr_docid) <= Greatest(n)
  <2>1. A \in SUBSET Terms
    BY TermsAreKnown
  <2>2. IsFiniteSet(A) /\ \A u \in A : f[u] \in Nat
    BY <2>1, BMMAssumption, FS_Subset DEF Scores
  <2>3. t \in A /\ A \ {t} = B
    BY <1>2, <1>3, <1>8
  <2>4. {t} \in SUBSET (Lesser(n) \cap TermsOf(curr_docid))
    BY <2>3
  <2>5. SumFunctionOnSet(f, {t}) <= Greatest(n)
    BY <1>1, <2>4, AddedIsNotMore
  <2> HIDE DEF A, B, f
  <2>6. SumFunctionOnSet(f, A) = f[t] + SumFunctionOnSet(f, B)
    BY <2>2, <2>3, SumRemove
  <2>7. SumFunctionOnSet(f, {t}) = f[t] + SumFunctionOnSet(f, {})
    <3>1. IsFiniteSet({t}) /\ (\A u \in {t} : f[u] \in Nat) /\ {t} \ {t} = {} /\ t \in {t}
      BY <2>2, <2>3, FS_Singleton
    <3> QED
      BY <3>1, SumRemove
  <2>8. SumFunctionOnSet(f, {t}) = Contribution(t, curr_docid)
    BY <1>5, <2>7, SumEmpty
  <2> QED
    BY <1>5, <1>6, <2>5, <2>6, <2>8
<1> QED
  BY <1>5, <1>6, <1>7, <1>8

\* Looking in one more list does ...
LEMMA ScoreRestKeepsTInv == PInv /\ TInv /\ ScoreRest => TInv'
<1> SUFFICES ASSUME PInv, TInv, ScoreRest PROVE TInv'
  OBVIOUS
<1> PICK t : t = lists[pivot]
  OBVIOUS
<1>1. /\ pc = "rest" /\ pc' = "rest" /\ j < pivot /\ j' = j + 1
      /\ faults \subseteq faults' /\ (j > 0 => "repeat" \in faults')
      /\ UNCHANGED <<postings, lists, upper_bounds, pivot, threshold, curr_docid, next, bub,
                     results, scored>>
  BY DEF ScoreRest
<1>2. /\ Clean' => Clean
      /\ Threshold' /\ Entries' /\ TrueScores' /\ Pruned' /\ Accounted'
      /\ ScoreOf(curr_docid)' = ScoreOf(curr_docid)
  <2>1. pc \notin {"build", "erase"} /\ pc' # "erase" /\ faults \subseteq faults'
    BY <1>1
  <2> QED
    BY <1>1, <2>1, ResultsStay
<1>3. /\ pivot \in 1..Len(lists) /\ t \in Lesser(pivot) /\ t \in Known
      /\ Clean' => score' = IF curr_docid \in ToSet(postings[t]) \ Passed(t)
                            THEN score + Contribution(t, curr_docid) ELSE score
  BY RestIterator DEF Clean
<1>4. Types /\ curr_docid \in Docs /\ j \in Nat /\ pivot \in Nat /\ score \in Nat /\ threshold \in Nat
  BY <1>1, ListsAreTerms DEF PInv, Types, NextInRound, Round
<1>5. Clean' => j = 0
  BY <1>1, <1>4 DEF Clean
<1>6. /\ Added(pivot) = IF t \in TermsOf(curr_docid)
                        THEN Contribution(t, curr_docid) + Added(pivot - 1) ELSE Added(pivot - 1)
      /\ Added(pivot) \in Nat /\ Added(pivot - 1) \in Nat
      /\ Contribution(t, curr_docid) \in Nat
      /\ t \in TermsOf(curr_docid) => Contribution(t, curr_docid) <= Greatest(pivot)
  BY <1>3, <1>4, AddedByLast
<1>7. t \in TermsOf(curr_docid) <=> curr_docid \in ToSet(postings[t])
  BY <1>3 DEF TermsOf, Known
<1>8. Adding'
  <2> SUFFICES ASSUME Clean', curr_docid \notin scored
               PROVE  ScoreOf(curr_docid) = score' + Added(Missing)'
    BY <1>1, <1>2 DEF Adding
  <2>1. j = 0 /\ Missing = pivot /\ Missing' = pivot - 1
    BY <1>1, <1>4, <1>5 DEF Missing
  <2>2. ScoreOf(curr_docid) = score + Added(pivot)
    <3>1. ScoreOf(curr_docid) = score + Added(Missing)
      BY <1>1, <1>2 DEF TInv, Adding
    <3> QED
      BY <2>1, <3>1
  <2>3. Added(Missing)' = Added(pivot - 1)
    BY <1>1, <2>1 DEF Added, Lesser, TermsOf
  <2>4. curr_docid \notin Passed(t)
    BY <1>1, <1>3 DEF PInv, PassedInRound, Round
  <2>5. score' = IF t \in TermsOf(curr_docid) THEN score + Contribution(t, curr_docid) ELSE score
    BY <1>3, <1>7, <2>4
  <2> QED
    BY <1>4, <1>6, <2>2, <2>3, <2>5
<1>9. OneRound'
  BY <1>1, <1>5 DEF OneRound
<1> QED
  BY <1>2, <1>8, <1>9 DEF TInv

\* ... and so does leaving the rest of them.
LEMMA LeaveRestKeepsTInv == PInv /\ TInv /\ LeaveRest => TInv'
<1> SUFFICES ASSUME PInv, TInv, LeaveRest PROVE TInv'
  OBVIOUS
<1>1. /\ pc = "rest" /\ pc' = "push"
      /\ faults' = IF j < pivot THEN faults \cup PassedOver(score, pivot - j) ELSE faults
      /\ UNCHANGED <<postings, lists, at, upper_bounds, pivot, threshold, curr_docid, next,
                     score, bub, j, results, scored>>
  BY DEF LeaveRest, loopVars
<1>2. /\ Clean' => Clean
      /\ Threshold' /\ Entries' /\ TrueScores' /\ Pruned' /\ Accounted'
      /\ Full' = Full /\ Beaten(curr_docid)' = Beaten(curr_docid)
      /\ ScoreOf(curr_docid)' = ScoreOf(curr_docid)
  <2>1. pc \notin {"build", "erase"} /\ pc' # "erase" /\ faults \subseteq faults'
    BY <1>1
  <2> QED
    BY <1>1, <2>1, ResultsStay
<1>3. /\ Types /\ curr_docid \in Docs /\ j \in Nat /\ pivot \in Nat /\ score \in Nat /\ threshold \in Nat
      /\ pivot > 0 /\ j <= pivot /\ pivot <= Len(lists) /\ Len(lists) \in Nat
  BY <1>1, ListsAreTerms DEF PInv, Types, NextInRound, Round
<1>4. pivot - j \in 0..Len(lists) /\ Missing = pivot - j
  BY <1>1, <1>3 DEF Missing
<1>5. Added(pivot - j) \in Nat /\ (j = pivot => Added(pivot - j) = 0)
  <2>1. /\ Added(pivot - j) = SumFunctionOnSet(Scores(curr_docid), Lesser(pivot - j) \cap TermsOf(curr_docid))
        /\ Added(pivot - j) \in Nat
    BY <1>3, <1>4, AddedIsSum
  <2>2. j = pivot => Lesser(pivot - j) \cap TermsOf(curr_docid) = {}
    BY <1>3 DEF Lesser
  <2> QED
    BY <2>1, <2>2, SumEmpty
<1>6. Adding'
  <2> SUFFICES ASSUME Clean', curr_docid \notin scored
               PROVE  score = ScoreOf(curr_docid) \/ (Beaten(curr_docid) /\ score <= threshold)
    BY <1>1, <1>2 DEF Adding
  <2>1. ScoreOf(curr_docid) = score + Added(pivot - j)
    <3>1. ScoreOf(curr_docid) = score + Added(Missing)
      BY <1>1, <1>2 DEF TInv, Adding
    <3> QED
      BY <1>4, <3>1
  <2>2. CASE j < pivot
    <3>1. "bound" \notin PassedOver(score, pivot - j)
      BY <1>1, <2>2 DEF Clean
    <3>2. ~(score + Added(pivot - j) > threshold)
      BY <3>1 DEF PassedOver
    <3>3. ScoreOf(curr_docid) <= threshold /\ score <= threshold
      BY <1>3, <1>5, <2>1, <3>2
    <3>4. Full
      BY <1>2, <1>3 DEF TInv, Pruned
    <3> QED
      BY <3>3, <3>4 DEF Beaten
  <2>3. CASE ~(j < pivot)
    BY <1>3, <1>5, <2>1, <2>3
  <2> QED
    BY <2>2, <2>3
<1>7. OneRound'
  BY <1>1 DEF OneRound
<1> QED
  BY <1>2, <1>6, <1>7 DEF TInv

\* A document's entry is of a result that has its score.
LEMMA EntryIsResult ==
    /\ \A d : EntryOf(d) \in Returned
                <=> \E r \in results : r.docid = d /\ r.score = ScoreOf(d)
    /\ postings' = postings =>
         \A d : EntryOf(d)' \in Returned'
                  <=> \E r \in results' : r.docid = d /\ r.score = ScoreOf(d)
<1>1. \A d, a, s, x : [docid |-> d, score |-> s] = [docid |-> a, score |-> x] <=> (d = a /\ s = x)
  OBVIOUS
<1>2. ASSUME NEW d
      PROVE  EntryOf(d) \in Returned
               <=> \E r \in results : r.docid = d /\ r.score = ScoreOf(d)
  BY <1>1 DEF EntryOf, Returned
<1>3. ASSUME postings' = postings, NEW d
      PROVE  EntryOf(d)' \in Returned'
               <=> \E r \in results' : r.docid = d /\ r.score = ScoreOf(d)
  <2>1. EntryOf(d)' = [docid |-> d, score |-> ScoreOf(d)]
    BY <1>3, ScoresStay DEF EntryOf
  <2>2. Returned' = {[docid |-> r.docid, score |-> r.score] : r \in results'}
    BY DEF Returned
  <2> PICK R, e, F, s : R = results' /\ e = EntryOf(d)' /\ F = Returned' /\ s = ScoreOf(d)
    OBVIOUS
  <2>3. F = {[docid |-> r.docid, score |-> r.score] : r \in R} /\ e = [docid |-> d, score |-> s]
    BY <2>1, <2>2
  <2>4. e \in F <=> \E r \in R : r.docid = d /\ r.score = s
    <3>1. ASSUME e \in F PROVE \E r \in R : r.docid = d /\ r.score = s
      <4>1. PICK r \in R : e = [docid |-> r.docid, score |-> r.score]
        BY <2>3, <3>1
      <4>2. [docid |-> d, score |-> s] = [docid |-> r.docid, score |-> r.score]
        BY <2>3, <4>1
      <4>3. d = r.docid /\ s = r.score
        BY <1>1, <4>2, Zenon
      <4> QED
        BY <4>1, <4>3
    <3>2. ASSUME NEW r \in R, r.docid = d, r.score = s PROVE e \in F
      BY <2>3, <3>2
    <3> QED
      BY <3>1, <3>2
  <2> QED
    BY <2>4
<1> QED
  BY <1>2, <1>3

\* A result that is pushed is better than the threshold, if the heap is full; in a clean
\* run it is of a document that was not scored before, and has its score.
LEMMA PushedIsTrue ==
    ASSUME PInv, TInv, PushResult
    PROVE  /\ NewResult \notin results
           /\ Replaces => score > threshold
           /\ (Clean' /\ ~Refused) => curr_docid \notin scored /\ score = ScoreOf(curr_docid)
           /\ (Clean /\ curr_docid \notin scored /\ Refused) => Beaten(curr_docid)
<1>1. /\ pc = "push" /\ Types /\ curr_docid \in Docs
      /\ score \in Nat /\ threshold \in Nat /\ results \subseteq Result /\ K \in Nat \ {0}
  BY BMMAssumption DEF PushResult, PInv, Types, NextInRound, Round, Result
<1>2. (TakenIn /\ Follow) \/ (Replaces /\ Follow) \/ Refused
  BY <1>1, PushedResults
<1>3. \A r \in results : r.score \in Nat /\ threshold <= r.score
  BY <1>1 DEF Result, TInv, Threshold
<1>4. NewResult \notin results
  <2> SUFFICES ASSUME NewResult \in results PROVE FALSE
    OBVIOUS
  <2>1. NewResult.docid = curr_docid /\ NewResult.again = (curr_docid \in scored)
    BY DEF NewResult
  <2>2. curr_docid \in scored
    BY <2>1 DEF TInv, Entries
  <2> QED
    BY <1>1, <2>1, <2>2 DEF TInv, Entries
<1>5. Replaces => score > threshold
  <2> SUFFICES ASSUME Replaces PROVE score > threshold
    OBVIOUS
  <2>1. PICK w \in results : score > w.score
    BY DEF Replaces
  <2> QED
    BY <1>1, <1>3, <2>1
<1>6. ASSUME Cardinality(results) = K, score <= threshold PROVE Refused
  <2>1. ~TakenIn
    BY <1>1, <1>6 DEF TakenIn
  <2>2. ~Replaces
    BY <1>1, <1>5, <1>6
  <2> QED
    BY <1>2, <2>1, <2>2
<1>7. ASSUME Clean', ~Refused
      PROVE  curr_docid \notin scored /\ score = ScoreOf(curr_docid)
  <2>1. ~(Full /\ score <= threshold)
    BY <1>6, <1>7 DEF Full
  <2>2. Follow
    BY <1>2, <1>7
  <2>3. curr_docid \notin scored /\ Clean
    BY <1>7, <2>2 DEF Follow, Clean
  <2> QED
    BY <1>1, <2>1, <2>3 DEF TInv, Adding, Beaten
<1>8. ASSUME Clean, curr_docid \notin scored, Refused PROVE Beaten(curr_docid)
  <2>1. PICK q \in results : score <= q.score /\ \A r \in results : q.score <= r.score
    BY <1>8 DEF Refused
  <2>2. Full
    BY <1>8 DEF Refused, Full
  <2>3. PICK r \in results : r.score = threshold
    BY <2>1 DEF TInv, Threshold
  <2>4. score <= threshold
    BY <1>1, <1>3, <2>1, <2>3
  <2>5. score = ScoreOf(curr_docid) \/ Beaten(curr_docid)
    BY <1>1, <1>8 DEF TInv, Adding
  <2> QED
    BY <2>2, <2>4, <2>5 DEF Beaten
<1> QED
  BY <1>4, <1>5, <1>7, <1>8

\* What the push of a result does to the threshold.
LEMMA PushedThreshold ==
    ASSUME PInv, TInv, PushResult
    PROVE  /\ Threshold' /\ threshold' \in Nat /\ results' \subseteq Result
           /\ Replaces => Cardinality(results') = K /\ threshold <= threshold'
<1>1. /\ pc = "push" /\ Types /\ curr_docid \in Docs
      /\ score \in Nat /\ threshold \in Nat /\ results \subseteq Result /\ K \in Nat \ {0}
      /\ IsFiniteSet(results)
  BY BMMAssumption DEF PushResult, PInv, Types, NextInRound, Round, Result
<1>2. /\ (TakenIn /\ Follow) \/ (Replaces /\ Follow) \/ Refused
      /\ NewResult \in Result /\ results' \subseteq Result
      /\ ~Refused => NewResult \in results'
  BY <1>1, PushedResults
<1>3. CASE Refused
  <2>1. ~Replaces
    <3> SUFFICES ASSUME Replaces PROVE FALSE
      OBVIOUS
    <3>1. PICK q \in results : score <= q.score /\ \A r \in results : q.score <= r.score
      BY <1>3 DEF Refused
    <3>2. PICK w \in results : score > w.score
      BY DEF Replaces
    <3>3. q.score <= w.score /\ q.score \in Nat /\ w.score \in Nat
      BY <1>1, <3>1, <3>2 DEF Result
    <3> QED
      BY <1>1, <3>1, <3>2, <3>3
  <2>2. UNCHANGED <<results, threshold>>
    BY <1>3 DEF Refused
  <2> QED
    BY <1>1, <1>2, <2>1, <2>2 DEF TInv, Threshold
<1>4. CASE Follow /\ ~Refused
  <2>1. threshold' = Min({q.score : q \in results'}) /\ results' # {}
    BY <1>2, <1>4 DEF Follow
  <2>2. /\ threshold' \in Nat /\ (\E r \in results' : r.score = threshold')
        /\ \A r \in results' : threshold' <= r.score
    BY <1>2, <2>1, LeastScore
  <2>3. ASSUME Replaces PROVE Cardinality(results') = K /\ threshold <= threshold'
    <3> DEFINE I == results \cup {NewResult}
    <3>1. PICK w \in I : w # NewResult /\ results' = I \ {w}
      BY <2>3 DEF Replaces
    <3>2. NewResult \notin results /\ score > threshold
      BY <2>3, PushedIsTrue
    <3>3. IsFiniteSet(I) /\ Cardinality(I) = Cardinality(results) + 1
      BY <1>1, <3>2, FS_AddElement
    <3>4. Cardinality(results') = Cardinality(I) - 1
      <4> HIDE DEF I
      <4> QED
        BY <3>1, <3>3, FS_RemoveElement
    <3>5. Cardinality(results) = K
      BY <2>3 DEF Replaces
    <3>6. Cardinality(results') = K
      BY <1>1, <3>3, <3>4, <3>5
    <3>7. PICK r \in results' : r.score = threshold'
      BY <2>2
    <3>8. r \in results \/ r = NewResult
      BY <3>1, <3>7
    <3>9. threshold <= r.score
      <4>1. CASE r \in results
        BY <4>1 DEF TInv, Threshold
      <4>2. CASE r = NewResult
        BY <1>1, <3>2, <4>2 DEF NewResult
      <4> QED
        BY <3>8, <4>1, <4>2
    <3> QED
      BY <3>6, <3>7, <3>9
  <2>4. Threshold'
    BY <2>1, <2>2 DEF Threshold
  <2> QED
    BY <1>2, <2>2, <2>3, <2>4
<1> QED
  BY <1>2, <1>3, <1>4

\* A document that is held stays held, and the one that is pushed is.
LEMMA HeldStays ==
    ASSUME PInv, TInv, PushResult, Clean, Clean', NEW d \in Docs, Held(d) \/ (d = curr_docid /\ d \notin scored)
    PROVE  Held(d)'
<1>1. /\ pc = "push" /\ Types /\ curr_docid \in Docs /\ postings' = postings
      /\ score \in Nat /\ threshold \in Nat /\ results \subseteq Result /\ K \in Nat \ {0}
  BY BMMAssumption DEF PushResult, PInv, Types, NextInRound, Round, Result
<1>2. /\ (TakenIn /\ Follow) \/ (Replaces /\ Follow) \/ Refused
      /\ ~Refused => NewResult \in results'
  BY <1>1, PushedResults
<1>3. /\ threshold' \in Nat /\ results' \subseteq Result /\ Threshold'
      /\ Replaces => Cardinality(results') = K /\ threshold <= threshold'
  BY PushedThreshold
<1>4. ScoreOf(d)' = ScoreOf(d) /\ ScoreOf(d) \in Nat
  BY <1>1, ScoresStay, ScoreOfIsSum
<1>5. EntryOf(d) \in Returned => \E r \in results : r.docid = d /\ r.score = ScoreOf(d)
  BY EntryIsResult
<1>6. (\E r \in results' : r.docid = d /\ r.score = ScoreOf(d)) => Held(d)'
  BY <1>1, EntryIsResult DEF Held
<1>7. (Cardinality(results') = K /\ ScoreOf(d) <= threshold') => Held(d)'
  BY <1>4 DEF Held, Beaten, Full
<1>8. ASSUME d = curr_docid, d \notin scored, ~Refused PROVE Held(d)'
  <2>1. score = ScoreOf(d)
    BY <1>8, PushedIsTrue
  <2>2. NewResult.docid = d /\ NewResult.score = score
    BY <1>8 DEF NewResult
  <2> QED
    BY <1>2, <1>6, <1>8, <2>1, <2>2
<1>9. ASSUME d = curr_docid, d \notin scored, Refused PROVE Held(d)
  BY <1>9, PushedIsTrue DEF Held
<1>10. CASE Refused
  <2>1. Held(d)
    BY <1>9, <1>10
  <2>2. results' = results /\ threshold' = threshold
    BY <1>10 DEF Refused
  <2>3. CASE EntryOf(d) \in Returned
    BY <1>5, <1>6, <2>2, <2>3
  <2>4. CASE Beaten(d)
    BY <1>7, <2>2, <2>4 DEF Beaten, Full
  <2> QED
    BY <2>1, <2>3, <2>4 DEF Held
<1>11. CASE ~Refused /\ Held(d)
  <2>1. CASE TakenIn
    <3>1. ~Full
      BY <1>1, <2>1 DEF TakenIn, Full
    <3>2. PICK r \in results : r.docid = d /\ r.score = ScoreOf(d)
      BY <1>5, <1>11, <3>1 DEF Held, Beaten
    <3>3. r \in results'
      BY <2>1 DEF TakenIn
    <3> QED
      BY <1>6, <3>2, <3>3
  <2>2. CASE Replaces
    <3>1. CASE Beaten(d)
      <4>1. ScoreOf(d) <= threshold
        BY <3>1 DEF Beaten
      <4>2. ScoreOf(d) <= threshold'
        BY <1>1, <1>3, <1>4, <2>2, <4>1
      <4> QED
        BY <1>3, <1>7, <2>2, <4>2
    <3>2. CASE EntryOf(d) \in Returned
      <4>1. PICK r \in results : r.docid = d /\ r.score = ScoreOf(d)
        BY <1>5, <3>2
      <4>2. PICK w \in results \cup {NewResult} :
                /\ \A q \in results \cup {NewResult} : w.score <= q.score
                /\ results' = (results \cup {NewResult}) \ {w}
        BY <2>2 DEF Replaces
      <4>3. CASE r = w
        <5>1. NewResult \in results'
          BY <1>2, <1>11
        <5>2. PICK q \in results' : q.score = threshold'
          BY <1>3, <5>1 DEF Threshold
        <5>3. w.score <= q.score
          BY <4>2, <5>2
        <5>4. ScoreOf(d) <= threshold'
          BY <4>1, <4>3, <5>2, <5>3
        <5> QED
          BY <1>3, <1>7, <2>2, <5>4
      <4>4. CASE r # w
        BY <1>6, <4>1, <4>2, <4>4
      <4> QED
        BY <4>3, <4>4
    <3> QED
      BY <1>11, <3>1, <3>2 DEF Held
  <2> QED
    BY <1>2, <1>11, <2>1, <2>2
<1> QED
  BY <1>8, <1>10, <1>11

\* The push of a result keeps what holds of the scores.
LEMMA PushResultKeepsTInv == PInv /\ TInv /\ PushResult => TInv'
<1> SUFFICES ASSUME PInv, TInv, PushResult PROVE TInv'
  OBVIOUS
<1>1. /\ pc = "push" /\ pc' = "erase" /\ scored' = scored \cup {curr_docid}
      /\ UNCHANGED <<postings, lists, at, upper_bounds, curr_docid, next, score, bub, j>>
  BY DEF PushResult, loopVars
<1>2. /\ Types /\ curr_docid \in Docs /\ curr_docid \in Nat
      /\ score \in Nat /\ threshold \in Nat /\ results \subseteq Result /\ K \in Nat \ {0}
      /\ TermsOf(curr_docid) # {}
      /\ curr_docid \in scored => next > curr_docid
  BY <1>1, BMMAssumption, DocidType DEF PInv, Types, NextInRound, Seen, Round, Result
<1>3. /\ (TakenIn /\ Follow) \/ (Replaces /\ Follow) \/ Refused
      /\ ~Refused => NewResult \in results'
  BY <1>2, PushedResults
<1>4. /\ threshold' \in Nat /\ results' \subseteq Result /\ Threshold'
      /\ Replaces => Cardinality(results') = K /\ threshold <= threshold'
  BY PushedThreshold
<1>5. /\ \A d : TermsOf(d)' = TermsOf(d) /\ ScoreOf(d)' = ScoreOf(d) /\ EntryOf(d)' = EntryOf(d)
  BY <1>1, ScoresStay
<1>6. results' \subseteq results \cup {NewResult} /\ (Refused => results' = results)
  BY <1>3 DEF TakenIn, Replaces, Refused
<1>7. faults \subseteq faults' /\ (Clean' => Clean)
  BY <1>3 DEF Follow, Refused, Clean
<1>8. Entries'
  <2>1. ASSUME NEW r \in results'
        PROVE  /\ r.docid \in scored' /\ TermsOf(r.docid) # {}
               /\ (r.again /\ r.docid = curr_docid) => next > curr_docid
    <3>1. CASE r \in results
      <4>1. r.docid \in scored /\ TermsOf(r.docid) # {} /\ ~(r.again /\ r.docid = curr_docid)
        BY <1>1, <3>1 DEF TInv, Entries
      <4> QED
        BY <1>1, <4>1
    <3>2. CASE r = NewResult
      <4>1. r.docid = curr_docid /\ r.again = (curr_docid \in scored)
        BY <3>2 DEF NewResult
      <4> QED
        BY <1>1, <1>2, <4>1
    <3> QED
      BY <1>6, <3>1, <3>2
  <2>2. \A r \in results' : TermsOf(r.docid)' # {}
    BY <1>1, <2>1 DEF TermsOf
  <2> QED
    BY <1>1, <2>1, <2>2 DEF Entries
<1>9. TrueScores'
  <2> SUFFICES ASSUME Clean', NEW r \in results'
               PROVE  ~r.again /\ r.score = ScoreOf(r.docid)
    BY <1>5 DEF TrueScores
  <2>1. CASE r \in results
    BY <1>7, <2>1 DEF TInv, TrueScores
  <2>2. CASE r = NewResult /\ ~Refused
    <3>1. r.docid = curr_docid /\ r.score = score /\ r.again = (curr_docid \in scored)
      BY <2>2 DEF NewResult
    <3>2. curr_docid \notin scored /\ score = ScoreOf(curr_docid)
      BY <2>2, PushedIsTrue
    <3> QED
      BY <3>1, <3>2
  <2> QED
    BY <1>6, <2>1, <2>2
<1>10. Pruned'
  <2> SUFFICES ASSUME Clean', pivot' > 0
               PROVE  Full' /\ Greatest(pivot)' <= threshold'
    BY DEF Pruned
  <2>1. Greatest(pivot)' = Greatest(pivot')
    BY <1>1 DEF Greatest, Lesser, GreatestOf, Size
  <2>2. pivot \in Nat /\ pivot \in 0..Len(lists) /\ Len(lists) \in Nat
    BY <1>2, ListsAreTerms DEF Types
  <2>3. CASE Follow /\ pivot' > pivot
    <3>1. pivot' = Raised(threshold')
      BY <2>3 DEF Follow
    <3>2. Raised(threshold') \in pivot..Len(lists)
      BY <1>2, RaisedPivot
    <3>3. pivot' \in 0..Len(lists)
      BY <2>2, <3>1, <3>2
    <3>4. ~(Cardinality(results') < K) /\ ~(Greatest(pivot') > threshold')
      BY <2>3 DEF Follow, Clean
    <3>5. Cardinality(results') \in Nat /\ Cardinality(results') <= K
      BY <1>2, PushedResults, FS_CardinalityType
    <3>6. Greatest(pivot') \in Nat
      BY <1>2, <3>3, GreatestIsSum
    <3> QED
      BY <1>2, <1>4, <2>1, <3>4, <3>5, <3>6 DEF Full
  <2>4. CASE pivot' = pivot
    <3>1. Full /\ Greatest(pivot) <= threshold
      BY <1>7, <2>4 DEF TInv, Pruned
    <3>2. Greatest(pivot) \in Nat /\ Greatest(pivot') = Greatest(pivot)
      BY <1>2, <2>2, <2>4, GreatestIsSum
    <3>3. CASE Refused
      BY <2>1, <3>1, <3>2, <3>3 DEF Refused, Full
    <3>4. CASE Replaces
      BY <1>2, <1>4, <2>1, <3>1, <3>2, <3>4 DEF Full
    <3>5. ~TakenIn
      BY <1>2, <3>1 DEF TakenIn, Full
    <3> QED
      BY <1>3, <3>3, <3>4, <3>5
  <2>5. (Follow /\ pivot' > pivot) \/ pivot' = pivot
    <3>1. CASE Follow
      <4>1. pivot' \in pivot..Len(lists)
        BY <1>2, <3>1, RaisedPivot DEF Follow
      <4> QED
        BY <2>2, <3>1, <4>1
    <3>2. CASE Refused
      BY <3>2 DEF Refused
    <3> QED
      BY <1>3, <3>1, <3>2
  <2> QED
    BY <2>3, <2>4, <2>5
<1>11. Accounted'
  <2> SUFFICES ASSUME Clean', NEW d \in Docs, TermsOf(d) # {}, d \in scored' \/ d < curr_docid
               PROVE  Held(d)'
    BY <1>1, <1>5 DEF Accounted
  <2>1. Held(d) \/ (d = curr_docid /\ d \notin scored)
    BY <1>1, <1>7 DEF TInv, Accounted
  <2> QED
    BY <1>7, <2>1, HeldStays
<1>12. Adding' /\ OneRound'
  BY <1>1 DEF Adding, OneRound
<1> QED
  BY <1>4, <1>8, <1>9, <1>10, <1>11, <1>12 DEF TInv

\* Nothing has been scored when the first round begins ...
LEMMA BuildHelpersKeepsTInv == PInv /\ PInv' /\ TInv /\ BuildHelpers => TInv'
<1> SUFFICES ASSUME PInv, PInv', TInv, BuildHelpers PROVE TInv'
  OBVIOUS
<1>1. /\ pc = "build" /\ UNCHANGED <<postings, pivot, threshold, results, scored, faults>>
      /\ results = {} /\ scored = {} /\ threshold = 0 /\ pivot = 0 /\ Types
      /\ pc' \in {"essential", "done"}
  BY DEF BuildHelpers, PInv, Building, Continues
<1>2. lists' \in Seq(Known) /\ ToSet(lists') = Known
  BY <1>1, SortedLists DEF BuildHelpers, Types, Known
<1>3. Essential' = Known
  <2>1. DOMAIN lists' = (pivot' + 1)..Len(lists')
    BY <1>1, <1>2
  <2> QED
    BY <1>2, <2>1 DEF Essential, ToSet
<1>4. ASSUME NEW d \in Docs, TermsOf(d)' # {}, d < curr_docid' PROVE FALSE
  <2>1. PICK t \in TermsOf(d)' : TRUE
    BY <1>4
  <2>2. t \in TermsOf(d) /\ d \in ToSet(postings[t])
    BY <1>1, <2>1 DEF TermsOf
  <2>3. t \in Essential'
    BY <1>1, <1>3, <2>2, TermsAreKnown
  <2> QED
    BY <1>1, <1>4, <2>2, <2>3 DEF PInv, Seen
<1>5. Accounted'
  BY <1>1, <1>4 DEF Accounted
<1>6. Threshold' /\ Entries' /\ TrueScores' /\ Pruned'
  BY <1>1 DEF Threshold, Entries, TrueScores, Pruned
<1>7. Adding' /\ OneRound'
  BY <1>1 DEF Adding, OneRound
<1> QED
  BY <1>5, <1>6, <1>7 DEF TInv

\* ... and the documents that lie between the current one and the next are beaten: only
\* lists that are not essential hold them.
LEMMA SkippedAreBeaten ==
    ASSUME PInv, TInv, pc = "erase", Clean,
           NEW d \in Docs, TermsOf(d) # {}, d < next, d \notin scored, ~(d < curr_docid)
    PROVE  Beaten(d)
<1>1. /\ Types /\ curr_docid \in scored /\ curr_docid \in Nat /\ next \in Nat /\ d \in Nat
  BY DocidType DEF PInv, NextInRound, Round
<1>2. d > curr_docid
  BY <1>1
<1>3. /\ \A t \in Essential : First(t) >= next
      /\ \A t \in ToSet(lists) : \A e \in Passed(t) : e <= curr_docid
      /\ \A t \in Gone : \A e \in ToSet(postings[t]) : e < curr_docid \/ e \in scored
  BY DEF PInv, EssentialInRound, PassedInRound, Seen, Round
<1>4. /\ ToSet(lists) = Lesser(pivot) \cup Essential /\ ToSet(lists) \subseteq Known
      /\ pivot \in 0..Len(lists) /\ pivot \in Nat
  BY <1>1, ListsAreTerms DEF Types
<1>5. TermsOf(d) \subseteq Lesser(pivot)
  <2> SUFFICES ASSUME NEW t \in TermsOf(d), t \notin Lesser(pivot) PROVE FALSE
    OBVIOUS
  <2>1. t \in Known /\ d \in ToSet(postings[t])
    BY <1>1, TermsAreKnown DEF TermsOf
  <2>2. t \notin Gone
    BY <1>3, <2>1
  <2>3. t \in Essential /\ t \in ToSet(lists)
    BY <1>4, <2>1, <2>2 DEF Gone
  <2>4. First(t) >= next /\ First(t) \in Nat
    BY <1>1, <1>3, <2>1, <2>3, Iterators, DocidType
  <2>5. d \notin Passed(t)
    <3> SUFFICES ASSUME d \in Passed(t) PROVE FALSE
      OBVIOUS
    <3>1. d <= curr_docid
      BY <1>3, <2>3
    <3> QED
      BY <1>1, <1>2, <3>1
  <2>6. First(t) <= d
    BY <1>1, <2>1, <2>5, Iterators
  <2> QED
    BY <1>1, <2>4, <2>6
<1>6. pivot > 0
  <2>1. pivot = 0 => Lesser(pivot) = {}
    BY DEF Lesser
  <2> QED
    BY <1>4, <1>5, <2>1
<1>7. Full /\ Greatest(pivot) <= threshold
  BY <1>6 DEF TInv, Pruned
<1>8. ScoreOf(d) <= Greatest(pivot)
  <2>1. TermsOf(d) \in SUBSET (Lesser(pivot) \cap TermsOf(d))
    BY <1>5
  <2>2. SumFunctionOnSet(Scores(d), TermsOf(d)) <= Greatest(pivot)
    BY <1>1, <1>4, <2>1, AddedIsNotMore
  <2> QED
    BY <1>1, <2>2, ScoreOfIsSum
<1>9. ScoreOf(d) \in Nat /\ Greatest(pivot) \in Nat /\ threshold \in Nat
  BY <1>1, <1>4, ScoreOfIsSum, GreatestIsSum DEF Types
<1> QED
  BY <1>7, <1>8, <1>9 DEF Beaten

\* The next round begins with every document before it held.
LEMMA EraseEndedKeepsTInv == PInv /\ TInv /\ EraseEnded => TInv'
<1> SUFFICES ASSUME PInv, TInv, EraseEnded PROVE TInv'
  OBVIOUS
<1>1. /\ pc = "erase" /\ lists' = Left /\ pivot' = PivotWithout(DOMAIN lists \ Live)
      /\ curr_docid' = next /\ pc' \in {"essential", "done"} /\ faults \subseteq faults'
      /\ UNCHANGED <<postings, at, upper_bounds, threshold, next, score, bub, j, results, scored>>
  BY DEF EraseEnded, Continues
<1>2. /\ Types /\ curr_docid \in Nat /\ next \in Nat /\ next >= curr_docid
      /\ curr_docid \in scored /\ scored \subseteq Docs /\ threshold \in Nat
      /\ \A d \in scored : d <= curr_docid
  BY <1>1, DocidType DEF PInv, Types, NextInRound, Seen, Round
<1>3. /\ \A d : TermsOf(d)' = TermsOf(d) /\ ScoreOf(d)' = ScoreOf(d) /\ EntryOf(d)' = EntryOf(d)
  BY <1>1, ScoresStay
<1>4. Returned' = Returned /\ Full' = Full /\ (Clean' => Clean)
  BY <1>1 DEF Returned, Full, Clean
<1>5. \A d : Beaten(d)' = Beaten(d) /\ Held(d)' = Held(d)
  BY <1>1, <1>3, <1>4 DEF Held, Beaten
<1>6. Threshold' /\ TrueScores'
  BY <1>1, <1>3, <1>4 DEF TInv, Threshold, TrueScores
<1>7. Entries'
  <2>1. ASSUME NEW r \in results, r.again, r.docid = next PROVE FALSE
    <3>1. r.docid \in scored
      BY DEF TInv, Entries
    <3>2. next = curr_docid
      BY <1>2, <2>1, <3>1
    <3> QED
      BY <1>2, <2>1, <3>2 DEF TInv, Entries
  <2>2. \A r \in results : r.docid \in scored /\ TermsOf(r.docid) # {}
    BY DEF TInv, Entries
  <2> QED
    BY <1>1, <1>3, <2>1, <2>2 DEF Entries
<1>8. Pruned'
  <2> SUFFICES ASSUME Clean', pivot' > 0 PROVE Full' /\ Greatest(pivot)' <= threshold'
    BY DEF Pruned
  <2> PICK T : T = Lesser(pivot)'
    OBVIOUS
  <2>1. T = {t \in Lesser(pivot) : ~AtEnd(t)} /\ pivot' \in Nat
    <3>1. /\ Len(Left) \in Nat /\ pivot' \in 0..Len(Left)
          /\ {Left[n] : n \in 1..pivot'} = {t \in Lesser(pivot) : ~AtEnd(t)}
      BY <1>1, <1>2, LeftLists
    <3>2. T = {Left[n] : n \in 1..pivot'}
      BY <1>1 DEF Lesser
    <3> QED
      BY <3>1, <3>2
  <2>2. T # {}
    <3>1. 1 \in 1..pivot'
      BY <2>1
    <3> QED
      BY <3>1 DEF Lesser
  <2>3. pivot \in 0..Len(lists) /\ pivot \in Nat
    BY <1>2, ListsAreTerms DEF Types
  <2>4. pivot > 0
    <3>1. pivot = 0 => Lesser(pivot) = {}
      BY DEF Lesser
    <3> QED
      BY <2>1, <2>2, <2>3, <3>1
  <2>5. Full /\ Greatest(pivot) <= threshold
    BY <1>4, <2>4 DEF TInv, Pruned
  <2>6. /\ Greatest(pivot) = SumFunctionOnSet(Mosts, Lesser(pivot)) /\ Greatest(pivot) \in Nat
        /\ IsFiniteSet(Lesser(pivot)) /\ Lesser(pivot) \subseteq Known
        /\ \A t \in Known : Mosts[t] \in Nat
    BY <1>2, <2>3, GreatestIsSum
  <2>7. T \in SUBSET Lesser(pivot) /\ T \in SUBSET Known /\ \A t \in Lesser(pivot) : Mosts[t] \in Nat
    BY <2>1, <2>6
  <2>8. SumFunctionOnSet(Mosts, T) <= SumFunctionOnSet(Mosts, Lesser(pivot))
    BY <2>6, <2>7, SumOfSubset
  <2>9. /\ SumFunction([t \in T |-> GreatestOf(t, 1..Size(t))]) = SumFunctionOnSet(Mosts, T)
        /\ SumFunctionOnSet(Mosts, T) \in Nat
    BY <1>2, <2>7, MostsAreSum
  <2>10. Greatest(pivot)' = SumFunction([t \in T |-> GreatestOf(t, 1..Size(t))])
    BY <1>1 DEF Greatest, GreatestOf, Size
  <2> QED
    BY <1>1, <1>2, <1>4, <2>5, <2>6, <2>8, <2>9, <2>10
<1>9. Accounted'
  <2> SUFFICES ASSUME Clean', NEW d \in Docs, TermsOf(d) # {}, d \in scored \/ d < next
               PROVE  Held(d)
    BY <1>1, <1>3, <1>5 DEF Accounted
  <2>1. CASE d \in scored \/ d < curr_docid
    BY <1>1, <1>4, <2>1 DEF TInv, Accounted
  <2>2. CASE d \notin scored /\ ~(d < curr_docid)
    BY <1>1, <1>4, <2>2, SkippedAreBeaten DEF Held
  <2> QED
    BY <2>1, <2>2
<1>10. Adding' /\ OneRound'
  BY <1>1 DEF Adding, OneRound
<1> QED
  BY <1>6, <1>7, <1>8, <1>9, <1>10 DEF TInv

\* The scores of no results are right.
LEMMA InitTInv == Init => TInv
<1> SUFFICES ASSUME Init PROVE TInv
  OBVIOUS
<1>1. results = {} /\ scored = {} /\ threshold = 0 /\ pivot = 0 /\ pc = "build"
  BY DEF Init
<1>2. Threshold /\ Entries /\ TrueScores /\ Pruned /\ Accounted
  BY <1>1 DEF Threshold, Entries, TrueScores, Pruned, Accounted
<1>3. Adding /\ OneRound
  BY <1>1 DEF Adding, OneRound
<1> QED
  BY <1>2, <1>3 DEF TInv

\* A step that changes nothing keeps it.
LEMMA StutterKeepsTInv == TInv /\ UNCHANGED vars => TInv'
<1> SUFFICES ASSUME TInv, UNCHANGED vars PROVE TInv'
  OBVIOUS
<1>1. UNCHANGED <<postings, lists, at, upper_bounds, pivot, threshold, curr_docid, next, score, bub,
                  j, results, scored, faults, pc>>
  BY DEF vars, loopVars
<1>2. \A d : TermsOf(d)' = TermsOf(d) /\ ScoreOf(d)' = ScoreOf(d) /\ EntryOf(d)' = EntryOf(d)
  BY <1>1, ScoresStay
<1>3. Returned' = Returned /\ Full' = Full /\ (Clean' <=> Clean) /\ Missing' = Missing
  BY <1>1 DEF Returned, Full, Clean, Missing
<1>4. \A d : Beaten(d)' = Beaten(d) /\ Held(d)' = Held(d)
  BY <1>1, <1>2, <1>3 DEF Held, Beaten
<1>5. Greatest(pivot)' = Greatest(pivot) /\ Added(Missing)' = Added(Missing)
  BY <1>1, <1>2, <1>3 DEF Greatest, Added, Lesser, GreatestOf, Size
<1>6. Threshold' /\ Entries' /\ TrueScores' /\ Pruned'
  BY <1>1, <1>2, <1>3, <1>5 DEF TInv, Threshold, Entries, TrueScores, Pruned
<1>7. Accounted'
  BY <1>1, <1>2, <1>3, <1>4 DEF TInv, Accounted
<1>8. ScoreOf(curr_docid)' = ScoreOf(curr_docid) /\ Beaten(curr_docid)' = Beaten(curr_docid)
  BY <1>1, <1>2, <1>3 DEF ScoreOf, TermsOf, Beaten
<1>9. Adding' /\ OneRound'
  BY <1>1, <1>3, <1>5, <1>8 DEF TInv, Adding, OneRound
<1> QED
  BY <1>6, <1>7, <1>9 DEF TInv

\* What the results, the threshold and the pivot are worth in a clean run, at every step.
THEOREM Scoring == Spec => []TInv
<1>1. Init => TInv
  BY InitTInv
<1>2. PInv /\ PInv' /\ TInv /\ [Next]_vars => TInv'
  BY BuildHelpersKeepsTInv, ScoreEssentialKeepsTInv, PopulateBubKeepsTInv, ScoreRestKeepsTInv,
     LeaveRestKeepsTInv, PushResultKeepsTInv, EraseEndedKeepsTInv, StutterKeepsTInv
     DEF Next, Terminated
<1> QED
  BY <1>1, <1>2, Positions, PTL DEF Spec

\* When the query ends every document that has a term of it is held.
LEMMA AllAreHeld ==
    ASSUME PInv, TInv, pc = "done", Clean, NEW d \in Docs, TermsOf(d) # {}
    PROVE  Held(d)
<1>1. /\ Types /\ pivot = Len(lists) /\ curr_docid \in Nat /\ d \in Nat
      /\ \A t \in Gone : \A e \in ToSet(postings[t]) : e < curr_docid \/ e \in scored
  BY DocidType DEF PInv, Types, BetweenRounds, Seen
<1>2. CASE d \in scored \/ d < curr_docid
  BY <1>2 DEF TInv, Accounted
<1>3. CASE d \notin scored /\ ~(d < curr_docid)
  <2>1. pivot \in 0..Len(lists) /\ pivot \in Nat /\ Lesser(pivot) = ToSet(lists)
    BY <1>1, ListsAreTerms DEF Types, Lesser, ToSet
  <2>2. TermsOf(d) \subseteq Lesser(pivot)
    <3> SUFFICES ASSUME NEW t \in TermsOf(d) PROVE t \in ToSet(lists)
      BY <2>1
    <3>1. t \in Known /\ d \in ToSet(postings[t])
      BY <1>1, TermsAreKnown DEF TermsOf
    <3> QED
      BY <1>1, <1>3, <3>1 DEF Gone
  <2>3. pivot > 0
    <3>1. pivot = 0 => Lesser(pivot) = {}
      BY DEF Lesser
    <3> QED
      BY <2>1, <2>2, <3>1
  <2>4. Full /\ Greatest(pivot) <= threshold
    BY <2>3 DEF TInv, Pruned
  <2>5. ScoreOf(d) <= Greatest(pivot)
    <3>1. TermsOf(d) \in SUBSET (Lesser(pivot) \cap TermsOf(d))
      BY <2>2
    <3>2. SumFunctionOnSet(Scores(d), TermsOf(d)) <= Greatest(pivot)
      BY <1>1, <2>1, <3>1, AddedIsNotMore
    <3> QED
      BY <1>1, <3>2, ScoreOfIsSum
  <2>6. ScoreOf(d) \in Nat /\ Greatest(pivot) \in Nat /\ threshold \in Nat
    BY <1>1, <2>1, ScoreOfIsSum, GreatestIsSum DEF Types
  <2> QED
    BY <2>4, <2>5, <2>6 DEF Held, Beaten
<1> QED
  BY <1>2, <1>3

\* If the heap was full before a list stopped being essential, no list was added to a
\* score twice or with another posting's frequency, no document was taken in twice and
\* none was passed over by a bound that was none, the answer is the best K of the
\* documents that have a term of the query, each once and with its score (query_bmm,
\* 39-141), whatever the lists and the bounds are.
THEOREM AnswerIsTopK == Spec => []TopKWithoutFaults
<1>1. PInv /\ TInv => TopKWithoutFaults
  <2> SUFFICES ASSUME PInv, TInv, pc = "done", Clean
               PROVE  /\ IsTopK(K, Returned, {EntryOf(d) : d \in {e \in Docs : TermsOf(e) # {}}})
                      /\ Cardinality(Returned) = Cardinality(results)
    BY DEF TopKWithoutFaults, Clean
  <2> DEFINE C == {EntryOf(d) : d \in {e \in Docs : TermsOf(e) # {}}}
             h == [r \in results |-> [docid |-> r.docid, score |-> r.score]]
  <2>1. /\ Types /\ results \subseteq Result /\ IsFiniteSet(results) /\ Cardinality(results) <= K
        /\ threshold \in Nat /\ K \in Nat
    BY BMMAssumption DEF PInv, Types, Result
  <2>2. \A r \in results : /\ threshold <= r.score /\ TermsOf(r.docid) # {} /\ r.docid \in Docs
                           /\ ~r.again /\ r.score = ScoreOf(r.docid)
    BY <2>1 DEF TInv, Threshold, Entries, TrueScores, Result
  <2>3. \A s \in Returned : \E r \in results : s = [docid |-> r.docid, score |-> r.score]
    BY DEF Returned
  <2>4. ASSUME NEW s \in Returned PROVE s \in C /\ threshold <= s.score
    <3>1. PICK r \in results : s = [docid |-> r.docid, score |-> r.score]
      BY <2>3
    <3>2. r.docid \in Docs /\ TermsOf(r.docid) # {} /\ r.score = ScoreOf(r.docid) /\ threshold <= r.score
      BY <2>2, <3>1
    <3>3. s = EntryOf(r.docid) /\ s.score = r.score
      BY <3>1, <3>2 DEF EntryOf
    <3> QED
      BY <3>2, <3>3
  <2>5. ASSUME NEW c \in C PROVE c \in Returned \/ (Full /\ c.score <= threshold)
    <3>1. PICK d \in Docs : TermsOf(d) # {} /\ c = EntryOf(d)
      OBVIOUS
    <3>2. Held(d) /\ c.score = ScoreOf(d)
      BY <3>1, AllAreHeld DEF EntryOf
    <3> QED
      BY <3>1, <3>2 DEF Held, Beaten
  <2>6. \A c \in C : c.score \in Nat
    BY <2>1, ScoreOfIsSum DEF EntryOf
  <2>7. h \in Surjection(results, Returned)
    BY DEF Returned, Surjection
  <2>8. h \in Injection(results, Returned)
    <3>1. h \in [results -> Returned]
      BY <2>7 DEF Surjection
    <3>2. ASSUME NEW r \in results, NEW q \in results, h[r] = h[q] PROVE r = q
      <4>1. r.docid = q.docid /\ r.score = q.score /\ ~r.again /\ ~q.again
        BY <2>2, <3>2
      <4>2. r \in Result /\ q \in Result
        BY <2>1
      <4> QED
        BY <4>1, <4>2 DEF Result
    <3> QED
      BY <3>1, <3>2 DEF Injection, IsInjective
  <2>9. Cardinality(Returned) = Cardinality(results)
    <3> HIDE DEF h
    <3> QED
      BY <2>1, <2>7, <2>8, FS_Surjection
  <2>10. ASSUME Returned # C PROVE Cardinality(Returned) = K
    <3>1. PICK c \in C : c \notin Returned
      BY <2>4, <2>10
    <3>2. Full
      BY <2>5, <3>1
    <3> QED
      BY <2>9, <3>2 DEF Full
  <2>11. ASSUME NEW s \in Returned, NEW c \in C \ Returned PROVE c.score <= s.score
    <3>1. threshold <= s.score /\ c.score <= threshold /\ c.score \in Nat /\ s.score \in Nat
      BY <2>4, <2>5, <2>6
    <3> QED
      BY <2>1, <3>1
  <2>12. Returned \subseteq C /\ Cardinality(Returned) <= K
    BY <2>1, <2>4, <2>9
  <2> HIDE DEF C
  <2>13. IsTopK(K, Returned, C)
    BY <2>10, <2>11, <2>12 DEF IsTopK
  <2> QED
    BY <2>9, <2>13 DEF C
<1> QED
  BY <1>1, Positions, Scoring, PTL

-----------------------------------------------------------------------------
(* Where a bound that is too small comes from.                             *)

\* No list was erased before another, no bound was read from a block that is not the
\* document's, and the fixed point holds the scores.
Sound == faults \cap {"erased", "behind", "garbage"} = {} /\ ~Truncates

\* The upper bounds are then what the first lists can add to any document ...
UpperBounds == pc # "build" => \A n \in 1..Len(lists) : upper_bounds[n] = Greatest(n)

\* ... and the blocks' no less than what they add to the current one.
BlocksBounds ==
    (pc = "rest" /\ curr_docid \notin scored) =>
      \A n \in 1..pivot : bub[n] \in Nat /\ Added(n) <= bub[n]

BInv == Sound => "bound" \notin faults /\ UpperBounds /\ BlocksBounds

\* The fixed point keeps the greatest of a term's scores.
LEMMA GreatestIsExact ==
    ASSUME Types, ~Truncates, NEW t \in Known, NEW P \in SUBSET (1..Size(t)), P # {}
    PROVE  FixedPoint(GreatestOf(t, P)) = GreatestOf(t, P)
<1>1. postings \in [Terms -> PostingLists] /\ t \in Terms
  BY DEF Types, Known
<1>2. PICK p \in P : GreatestOf(t, P) = Contribution(t, postings[t][p])
  BY <1>1, GreatestOfIsGreatest
<1>3. postings[t][p] \in ToSet(postings[t])
  <2>1. p \in DOMAIN postings[t]
    BY <1>1, PostingListType DEF Size
  <2> QED
    BY <2>1 DEF ToSet
<1> QED
  BY <1>1, <1>2, <1>3 DEF Truncates

\* The sum of the lists' bounds is what they can add to any document.
LEMMA SigmasAreMosts ==
    ASSUME Types, ~Truncates, NEW s \in Seq(Known), IsInjective(s), NEW n \in 0..Len(s),
           NEW f, \A m \in 1..n : f[m] = Sigma(s[m])
    PROVE  SumFunctionOnSet(f, 1..n)
             = SumFunction([t \in {s[m] : m \in 1..n} |-> GreatestOf(t, 1..Size(t))])
<1>1. Len(s) \in Nat /\ n \in Nat /\ IsFiniteSet(1..n) /\ \A m \in 1..n : m \in DOMAIN s /\ s[m] \in Known
  BY FS_Interval
<1>2. {s[m] : m \in 1..n} \in SUBSET Known
  BY <1>1
<1>3. \A t \in Known : Mosts[t] \in Nat
  BY <1>2, MostsAreSum
<1>4. \A m \in 1..n : f[m] \in Nat /\ Mosts[s[m]] = f[m]
  <2> TAKE m \in 1..n
  <2>1. s[m] \in Known
    BY <1>1
  <2>2. Size(s[m]) \in Nat \ {0}
    <3> PICK t : t = s[m]
      OBVIOUS
    <3>1. postings[t] \in PostingLists /\ postings[t] # <<>>
      BY <2>1, Iterators
    <3>2. Len(postings[t]) \in Nat /\ Len(postings[t]) # 0
      BY <3>1, PostingListType
    <3> QED
      BY <3>2 DEF Size
  <2>3. 1..Size(s[m]) \in SUBSET (1..Size(s[m])) /\ 1..Size(s[m]) # {}
    BY <2>2
  <2>4. Sigma(s[m]) = GreatestOf(s[m], 1..Size(s[m]))
    BY <2>1, <2>3, GreatestIsExact DEF Sigma
  <2> QED
    BY <1>3, <2>1, <2>4 DEF Mosts
<1>5. \A l, m \in 1..n : s[l] = s[m] => l = m
  BY <1>1 DEF IsInjective
<1>6. SumFunctionOnSet(Mosts, {s[m] : m \in 1..n}) = SumFunctionOnSet(f, 1..n)
  BY <1>1, <1>4, <1>5, SumImage
<1> QED
  BY <1>2, <1>6, MostsAreSum

\* The positions of a block.
LEMMA BlockHasPosition ==
    ASSUME NEW p \in Nat \ {0}
    PROVE  /\ BlockOf(p) \in Nat \ {0}
           /\ (BlockOf(p) - 1) * SKIP_BLOCK_SIZE + 1 \in Nat \ {0}
           /\ (BlockOf(p) - 1) * SKIP_BLOCK_SIZE + 1 <= p
           /\ BlockOf(p) * SKIP_BLOCK_SIZE \in Nat /\ p <= BlockOf(p) * SKIP_BLOCK_SIZE
<1>1. SKIP_BLOCK_SIZE \in Nat \ {0}
  BY BMMAssumption
<1> PICK S, x, q : S = SKIP_BLOCK_SIZE /\ x = p - 1 /\ q = x \div S
  OBVIOUS
<1>2. x \in Nat /\ S \in Nat \ {0}
  BY <1>1
<1>3. q \in Nat /\ q * S <= x /\ x < q * S + S /\ q * S \in Nat
  BY <1>2
<1>4. (q + 1) * S = q * S + S
  BY <1>2, <1>3
<1>5. BlockOf(p) = q + 1 /\ (q + 1) - 1 = q
  BY <1>3 DEF BlockOf
<1>6. (BlockOf(p) - 1) * SKIP_BLOCK_SIZE = q * S /\ BlockOf(p) * SKIP_BLOCK_SIZE = q * S + S
  BY <1>4, <1>5
<1> QED
  BY <1>2, <1>3, <1>5, <1>6

\* The bound of the block that a list's iterator is in is no less than what the list
\* adds to the current document, if the block goes as far as the document.
LEMMA BlockBoundsCurrent ==
    ASSUME PInv, pc = "bub", ~Truncates, curr_docid \notin scored, NEW t \in Lesser(pivot),
           ~LeftOut(t, at[t]), ~(postings[t][BlockEnd(t, at[t])] < curr_docid),
           NEW x \in BlockBounds(t)
    PROVE  x \in Nat /\ (t \in TermsOf(curr_docid) => Contribution(t, curr_docid) <= x)
<1> DEFINE s == postings[t]
           a == at[t]
           e == BlockEnd(t, a)
           b == (BlockOf(a) - 1) * SKIP_BLOCK_SIZE + 1
<1>1. Types /\ t \in Known /\ pivot \in 0..Len(lists) /\ curr_docid \in Nat /\ t \in Terms
  BY ListsAreTerms, DocidType DEF PInv, Types, NextInRound, Round
<1>2. /\ s \in PostingLists /\ a \in 1..(Len(s) + 1) /\ a # Len(s) + 1 /\ curr_docid \notin Passed(t)
  <2>1. ~AtEnd(t) /\ curr_docid \notin Passed(t)
    BY DEF PInv, PassedInRound, Round
  <2> QED
    BY <1>1, <2>1, Iterators DEF AtEnd, Size
<1>3. /\ Len(s) \in Nat /\ (\A p \in 1..Len(s) : s[p] \in Docs)
      /\ \A p, q \in 1..Len(s) : p < q => s[p] < s[q]
  BY <1>2, PostingListType
<1>4. Size(t) = Len(s) /\ Size(t) \in Nat
  BY <1>3 DEF Size
<1>5. a \in 1..Len(s) /\ a \in Nat \ {0}
  BY <1>2, <1>3
<1>6. b \in Nat \ {0} /\ b <= a
  BY <1>5, BlockHasPosition
<1>7. e \in a..Len(s)
  <2>1. BlockOf(a) * SKIP_BLOCK_SIZE \in Nat /\ a <= BlockOf(a) * SKIP_BLOCK_SIZE
    BY <1>5, BlockHasPosition
  <2> PICK c : c = BlockOf(a) * SKIP_BLOCK_SIZE
    OBVIOUS
  <2>2. e = Min({c, Len(s)})
    BY <1>4 DEF BlockEnd
  <2> HIDE DEF s, a, e
  <2>3. e = IF c <= Len(s) THEN c ELSE Len(s)
    BY <1>3, <2>1, <2>2, MinOfTwo
  <2> QED
    BY <1>3, <1>5, <2>1, <2>3
<1>8. b..e \in SUBSET (1..Size(t)) /\ b..e # {} /\ a \in b..e
  <2> HIDE DEF s, a, e, b
  <2>1. /\ b \in Nat /\ a \in Nat /\ e \in Nat /\ Len(s) \in Nat /\ Size(t) = Len(s)
        /\ 1 <= b /\ b <= a /\ a <= e /\ e <= Len(s)
    BY <1>3, <1>4, <1>5, <1>6, <1>7
  <2>2. \A h, i, k, l \in Nat : (1 <= h /\ h <= i /\ i <= k /\ k <= l)
                                 => h..k \in SUBSET (1..l) /\ h..k # {} /\ i \in h..k
    OBVIOUS
  <2> QED
    BY <2>1, <2>2, Zenon
<1>9. x = GreatestOf(t, b..e)
  <2>1. x = FixedPoint(GreatestOf(t, b..e))
    BY DEF BlockBounds
  <2> HIDE DEF e, b
  <2> QED
    BY <1>1, <1>8, <2>1, GreatestIsExact
<1>10. /\ GreatestOf(t, b..e) \in Nat
       /\ \A p \in b..e : Contribution(t, postings[t][p]) <= GreatestOf(t, b..e)
  <2>1. postings \in [Terms -> PostingLists]
    BY <1>1 DEF Types
  <2> HIDE DEF e, b
  <2> QED
    BY <1>1, <1>8, <2>1, GreatestOfIsGreatest
<1>11. ASSUME t \in TermsOf(curr_docid) PROVE \E p \in b..e : s[p] = curr_docid
  <2>1. PICK p \in 1..Len(s) : s[p] = curr_docid
    BY <1>2, <1>11, PostingListType DEF TermsOf, ToSet
  <2>2. ~(p \in 1..(a - 1))
    BY <1>2, <2>1 DEF Passed, PassedAt
  <2>3. ~(s[e] < s[p])
    BY <2>1
  <2> HIDE DEF s, a, e, b
  <2>4. e \in 1..Len(s) /\ e \in Nat /\ p \in Nat
    BY <1>3, <1>5, <1>7
  <2>5. ~(e < p)
    BY <1>3, <2>1, <2>3, <2>4
  <2>6. a <= p
    BY <1>5, <2>2, <2>4, <2>1
  <2>7. p \in b..e
    BY <1>5, <1>6, <2>4, <2>5, <2>6
  <2> QED
    BY <2>1, <2>7
<1> QED
  BY <1>9, <1>10, <1>11

\* The sum of the blocks' bounds is no less than what the lists add.
LEMMA BlocksAreNoLess ==
    ASSUME Types, curr_docid \in Docs, NEW n \in 0..Len(lists), NEW b,
           \A m \in 1..n : /\ b[m] \in Nat
                           /\ lists[m] \in TermsOf(curr_docid) => Contribution(lists[m], curr_docid) <= b[m]
    PROVE  SumFunctionOnSet(b, 1..n) \in Nat /\ Added(n) <= SumFunctionOnSet(b, 1..n)
<1> DEFINE T == TermsOf(curr_docid)
           P == {m \in 1..n : lists[m] \in T}
           g == Scores(curr_docid)
           f == [m \in P |-> Contribution(lists[m], curr_docid)]
<1>1. /\ n \in Nat /\ IsFiniteSet(1..n) /\ \A m \in 1..n : m \in 1..Len(lists)
      /\ Len(lists) \in Nat
  BY ListsAreTerms, FS_Interval
<1>2. T \subseteq Terms
  BY TermsAreKnown
<1>3. \A m \in P : f[m] \in Nat /\ g[lists[m]] = f[m]
  BY <1>2, BMMAssumption DEF Scores
<1>4. \A l, m \in P : lists[l] = lists[m] => l = m
  BY <1>1, ListsAreTerms
<1>5. IsFiniteSet(P) /\ P \in SUBSET (1..n)
  BY <1>1, FS_Subset
<1>6. Added(n) = SumFunctionOnSet(g, {lists[m] : m \in P}) /\ Added(n) \in Nat
  <2>1. Lesser(n) \cap T = {lists[m] : m \in P}
    BY DEF Lesser
  <2> QED
    BY <2>1, AddedIsSum
<1>7. \A m \in P : f[m] \in Nat /\ b[m] \in Nat /\ f[m] <= b[m]
  BY <1>3
<1>8. \A m \in 1..n : b[m] \in Nat
  OBVIOUS
<1> HIDE DEF P, f, g
<1>9. SumFunctionOnSet(g, {lists[m] : m \in P}) = SumFunctionOnSet(f, P)
  <2> PICK h : h = lists
    OBVIOUS
  <2>1. /\ \A m \in P : f[m] \in Nat /\ g[h[m]] = f[m]
        /\ \A l, m \in P : h[l] = h[m] => l = m
    BY <1>3, <1>4
  <2>2. IsFiniteSet(P)
    BY <1>5
  <2>3. SumFunctionOnSet(g, {h[m] : m \in P}) = SumFunctionOnSet(f, P)
    BY ONLY <2>1, <2>2, SumImage
  <2> QED
    BY <2>3
<1>10. SumFunctionOnSet(f, P) <= SumFunctionOnSet(b, P)
  BY <1>5, <1>7, SumMonotone
<1>11. SumFunctionOnSet(b, P) <= SumFunctionOnSet(b, 1..n)
  BY <1>1, <1>5, <1>8, SumOfSubset
<1>12. /\ SumFunctionOnSet(b, P) \in Nat /\ SumFunctionOnSet(b, 1..n) \in Nat
  BY <1>1, <1>5, <1>7, <1>8, SumType
<1> QED
  BY <1>6, <1>9, <1>10, <1>11, <1>12

\* While the lists stay, what holds of the bounds does.
LEMMA BoundsStay ==
    ASSUME BInv, Sound', pc # "build", faults \subseteq faults',
           UNCHANGED <<postings, lists, upper_bounds>>
    PROVE  /\ Sound /\ "bound" \notin faults /\ UpperBounds /\ BlocksBounds /\ UpperBounds'
           /\ \A n \in 1..Len(lists) : upper_bounds[n] = Greatest(n)
<1>1. Sound
  BY DEF Sound, Truncates
<1>2. \A n : Greatest(n)' = Greatest(n)
  BY DEF Greatest, Lesser, GreatestOf, Size
<1>3. UpperBounds /\ UpperBounds'
  BY <1>1, <1>2 DEF BInv, UpperBounds
<1> QED
  BY <1>1, <1>3 DEF BInv, UpperBounds

\* The upper bounds start as the sums of what the lists can add.
LEMMA BuildHelpersKeepsBInv == PInv /\ BInv /\ BuildHelpers => BInv'
<1> SUFFICES ASSUME PInv, BInv, BuildHelpers, Sound'
             PROVE  "bound" \notin faults' /\ UpperBounds' /\ BlocksBounds'
  BY DEF BInv
<1>1. /\ pc = "build" /\ Types /\ faults = {} /\ UNCHANGED <<postings, faults>>
      /\ pc' \in {"essential", "done"}
  BY DEF BuildHelpers, PInv, Building, Continues
<1>2. ~Truncates
  BY <1>1 DEF Sound, Truncates
<1> PICK s : s = lists'
  OBVIOUS
<1>3. s \in Seq(Known) /\ IsInjective(s) /\ ToSet(s) = Known
  BY <1>1, SortedLists DEF BuildHelpers, Types, Known
<1>4. ASSUME NEW n \in 1..Len(s) PROVE upper_bounds'[n] = Greatest(n)'
  <2> DEFINE f == [m \in DOMAIN s |-> Sigma(s[m])]
  <2>1. DOMAIN s = 1..Len(s) /\ Len(s) \in Nat /\ n \in Nat /\ s[n] \in Known
    BY <1>3
  <2>2. Known # {}
    BY <2>1
  <2>3. upper_bounds' = Sums(f)
    BY <2>2 DEF BuildHelpers, Known
  <2>4. upper_bounds'[n] = SumFunctionOnSet(f, 1..n)
    BY <2>1, <2>3 DEF Sums
  <2>5. n \in 0..Len(s) /\ \A m \in 1..n : f[m] = Sigma(s[m])
    BY <2>1
  <2> HIDE DEF f
  <2>6. SumFunctionOnSet(f, 1..n)
          = SumFunction([t \in {s[m] : m \in 1..n} |-> GreatestOf(t, 1..Size(t))])
    BY <1>1, <1>2, <1>3, <2>5, SigmasAreMosts
  <2>7. Greatest(n)' = SumFunction([t \in {s[m] : m \in 1..n} |-> GreatestOf(t, 1..Size(t))])
    BY <1>1 DEF Greatest, Lesser, GreatestOf, Size
  <2> QED
    BY <2>4, <2>6, <2>7
<1>5. UpperBounds'
  BY <1>4 DEF UpperBounds
<1>6. BlocksBounds'
  BY <1>1 DEF BlocksBounds
<1> QED
  BY <1>1, <1>5, <1>6

\* A document passed over by them was no better than the threshold.
LEMMA ScoreEssentialKeepsBInv == PInv /\ BInv /\ ScoreEssential => BInv'
<1> SUFFICES ASSUME PInv, BInv, ScoreEssential, Sound'
             PROVE  "bound" \notin faults' /\ UpperBounds' /\ BlocksBounds'
  BY DEF BInv
<1> DEFINE passed == pivot # 0 /\ score' + upper_bounds[pivot] <= threshold
<1>1. /\ pc = "essential" /\ pc' # "rest"
      /\ faults' = IF passed THEN faults \cup PassedOver(score', pivot) ELSE faults
      /\ UNCHANGED <<postings, lists, upper_bounds>>
  BY DEF ScoreEssential
<1>2. /\ "bound" \notin faults /\ UpperBounds'
      /\ \A n \in 1..Len(lists) : upper_bounds[n] = Greatest(n)
  <2>1. faults \subseteq faults'
    BY <1>1
  <2> QED
    BY <1>1, <2>1, BoundsStay
<1>3. /\ Types /\ curr_docid \in Docs /\ threshold \in Nat /\ score' \in Nat /\ pivot \in Nat
      /\ Len(lists) \in Nat /\ pivot <= Len(lists) /\ pivot \in 0..Len(lists)
      /\ Added(pivot) \in Nat
  <2>1. Types /\ threshold \in Nat /\ pivot \in 0..Len(lists)
    BY DEF PInv, Types
  <2>2. Len(lists) \in Nat
    BY <2>1, ListsAreTerms
  <2>3. curr_docid \in Docs /\ score' \in Nat
    BY <1>1, <2>1, EssentialScore DEF PInv
  <2>4. Added(pivot) \in Nat
    BY EssentialAdds
  <2> QED
    BY <2>1, <2>2, <2>3, <2>4
<1>4. ASSUME passed, "bound" \in PassedOver(score', pivot) PROVE FALSE
  <2>1. score' + Added(pivot) > threshold
    BY <1>4 DEF PassedOver
  <2>2. score' + Greatest(pivot) <= threshold /\ Greatest(pivot) \in Nat
    BY <1>2, <1>3, <1>4, GreatestIsSum
  <2>3. Added(pivot) <= Greatest(pivot)
    <3>1. Lesser(pivot) \cap TermsOf(curr_docid) \in SUBSET (Lesser(pivot) \cap TermsOf(curr_docid))
      OBVIOUS
    <3>2. SumFunctionOnSet(Scores(curr_docid), Lesser(pivot) \cap TermsOf(curr_docid)) <= Greatest(pivot)
      BY <1>3, <3>1, AddedIsNotMore
    <3> QED
      BY <1>3, <3>2, AddedIsSum
  <2> QED
    BY <1>3, <2>1, <2>2, <2>3
<1>5. "bound" \notin faults'
  BY <1>1, <1>2, <1>4
<1>6. BlocksBounds'
  BY <1>1 DEF BlocksBounds
<1> QED
  BY <1>2, <1>5, <1>6

\* The bounds of the blocks hold for the current document.
LEMMA PopulateBubKeepsBInv == PInv /\ BInv /\ PopulateBub => BInv'
<1> SUFFICES ASSUME PInv, BInv, PopulateBub, Sound'
             PROVE  "bound" \notin faults' /\ UpperBounds' /\ BlocksBounds'
  BY DEF BInv
<1>1. /\ pc = "bub" /\ UNCHANGED <<postings, lists, upper_bounds, pivot, curr_docid, scored>>
      /\ faults' = faults
           \cup {f \in {"garbage"} : \E t \in Lesser(pivot) : LeftOut(t, at[t])}
           \cup {f \in {"behind"} : \E t \in Lesser(pivot) : postings[t][BlockEnd(t, at[t])] < curr_docid}
  BY DEF PopulateBub
<1>2. "bound" \notin faults /\ UpperBounds' /\ Sound
  <2>1. faults \subseteq faults'
    BY <1>1
  <2> QED
    BY <1>1, <2>1, BoundsStay
<1>3. "bound" \notin faults'
  BY <1>1, <1>2
<1>4. \A t \in Lesser(pivot) : ~LeftOut(t, at[t]) /\ ~(postings[t][BlockEnd(t, at[t])] < curr_docid)
  BY <1>1 DEF Sound
<1>5. PICK b \in [1..pivot -> UNION {BlockBounds(t) : t \in Lesser(pivot)}] :
        /\ \A n \in 1..pivot : b[n] \in BlockBounds(lists[n])
        /\ bub' = Sums(b)
  BY DEF PopulateBub
<1>6. /\ Types /\ curr_docid \in Docs /\ pivot \in Nat /\ Len(lists) \in Nat /\ pivot <= Len(lists)
  BY <1>1, ListsAreTerms DEF PInv, Types, NextInRound, Round
<1>7. ASSUME curr_docid \notin scored, NEW n \in 1..pivot
      PROVE  bub'[n] \in Nat /\ Added(n) <= bub'[n]
  <2>1. n \in 0..Len(lists) /\ n \in Nat /\ n <= pivot
    BY <1>6
  <2>2. ASSUME NEW m \in 1..n
        PROVE  /\ b[m] \in Nat
               /\ lists[m] \in TermsOf(curr_docid) => Contribution(lists[m], curr_docid) <= b[m]
    <3>1. m \in 1..pivot
      BY <1>6, <2>1
    <3>2. lists[m] \in Lesser(pivot)
      BY <3>1 DEF Lesser
    <3>3. b[m] \in BlockBounds(lists[m])
      BY <1>5, <3>1
    <3>4. ~Truncates
      BY <1>2 DEF Sound
    <3> PICK t : t = lists[m]
      OBVIOUS
    <3> QED
      BY <1>1, <1>4, <1>7, <3>2, <3>3, <3>4, BlockBoundsCurrent
  <2>3. SumFunctionOnSet(b, 1..n) \in Nat /\ Added(n) <= SumFunctionOnSet(b, 1..n)
    BY <1>6, <2>1, <2>2, BlocksAreNoLess
  <2>4. bub'[n] = SumFunctionOnSet(b, 1..n)
    BY <1>5 DEF Sums
  <2> QED
    BY <2>3, <2>4
<1>8. \A n : Added(n)' = Added(n)
  BY <1>1 DEF Added, Lesser, TermsOf
<1>9. BlocksBounds'
  BY <1>1, <1>7, <1>8 DEF BlocksBounds
<1> QED
  BY <1>2, <1>3, <1>9

\* They stay while the lists are looked at ...
LEMMA ScoreRestKeepsBInv == PInv /\ BInv /\ ScoreRest => BInv'
<1> SUFFICES ASSUME PInv, BInv, ScoreRest, Sound'
             PROVE  "bound" \notin faults' /\ UpperBounds' /\ BlocksBounds'
  BY DEF BInv
<1>1. /\ pc = "rest" /\ UNCHANGED <<postings, lists, upper_bounds, pivot, curr_docid, scored, bub>>
      /\ faults \subseteq faults' /\ ("bound" \in faults' => "bound" \in faults)
  BY DEF ScoreRest
<1>2. "bound" \notin faults /\ UpperBounds' /\ BlocksBounds
  BY <1>1, BoundsStay
<1>3. \A n : Added(n)' = Added(n)
  BY <1>1 DEF Added, Lesser, TermsOf
<1>4. BlocksBounds'
  BY <1>1, <1>2, <1>3 DEF BlocksBounds
<1> QED
  BY <1>1, <1>2, <1>4

\* ... so that a document passed over by them was no better either.
LEMMA LeaveRestKeepsBInv == PInv /\ BInv /\ LeaveRest => BInv'
<1> SUFFICES ASSUME PInv, BInv, LeaveRest, Sound'
             PROVE  "bound" \notin faults' /\ UpperBounds' /\ BlocksBounds'
  BY DEF BInv
<1>1. /\ pc = "rest" /\ pc' = "push" /\ UNCHANGED <<postings, lists, upper_bounds>>
      /\ j < pivot => score + bub[pivot - j] <= threshold
      /\ faults' = IF j < pivot THEN faults \cup PassedOver(score, pivot - j) ELSE faults
  BY DEF LeaveRest
<1>2. "bound" \notin faults /\ UpperBounds' /\ BlocksBounds
  <2>1. faults \subseteq faults'
    BY <1>1
  <2> QED
    BY <1>1, <2>1, BoundsStay
<1>3. /\ Types /\ curr_docid \in Docs /\ j \in Nat /\ pivot \in Nat /\ score \in Nat /\ threshold \in Nat
      /\ pivot <= Len(lists) /\ Len(lists) \in Nat
  BY <1>1, ListsAreTerms DEF PInv, Types, NextInRound, Round
<1>4. ASSUME j < pivot, "bound" \in PassedOver(score, pivot - j) PROVE FALSE
  <2>1. curr_docid \notin scored /\ score + Added(pivot - j) > threshold
    BY <1>4 DEF PassedOver
  <2>2. pivot - j \in 1..pivot /\ pivot - j \in 0..Len(lists)
    BY <1>3, <1>4
  <2>3. bub[pivot - j] \in Nat /\ Added(pivot - j) <= bub[pivot - j]
    BY <1>1, <1>2, <2>1, <2>2 DEF BlocksBounds
  <2>4. Added(pivot - j) \in Nat
    BY <1>3, <2>2, AddedIsSum
  <2>5. \A a, b, c, d \in Nat : (a + b <= d /\ c <= b) => ~(a + c > d)
    OBVIOUS
  <2> QED
    BY <1>1, <1>3, <1>4, <2>1, <2>3, <2>4, <2>5, Zenon
<1>5. BlocksBounds'
  BY <1>1 DEF BlocksBounds
<1> QED
  BY <1>1, <1>2, <1>4, <1>5

\* The pivot goes as far as the upper bounds do not exceed the threshold.
LEMMA PushResultKeepsBInv == PInv /\ BInv /\ PushResult => BInv'
<1> SUFFICES ASSUME PInv, BInv, PushResult, Sound'
             PROVE  "bound" \notin faults' /\ UpperBounds' /\ BlocksBounds'
  BY DEF BInv
<1>1. /\ pc = "push" /\ pc' = "erase" /\ UNCHANGED <<postings, lists, upper_bounds>>
  BY DEF PushResult
<1>2. Types /\ curr_docid \in Docs
  BY <1>1 DEF PInv, NextInRound, Round
<1>3. Follow \/ Refused
  BY <1>2, PushedResults
<1>4. /\ "bound" \notin faults /\ UpperBounds'
      /\ \A n \in 1..Len(lists) : upper_bounds[n] = Greatest(n)
  <2>1. faults \subseteq faults'
    BY <1>3 DEF Follow, Refused
  <2> QED
    BY <1>1, <2>1, BoundsStay
<1>5. ASSUME Follow, pivot' > pivot, Greatest(pivot') > threshold' PROVE FALSE
  <2>1. pivot' = Raised(threshold')
    BY <1>5 DEF Follow
  <2>2. pivot' \in pivot..Len(lists) /\ ~(upper_bounds[pivot'] > threshold')
    BY <1>2, <1>5, <2>1, RaisedPivot
  <2>3. pivot' \in 1..Len(lists)
    BY <1>2, <1>5, <2>2, ListsAreTerms
  <2> QED
    BY <1>4, <1>5, <2>2, <2>3
<1>6. "bound" \notin faults'
  BY <1>3, <1>4, <1>5 DEF Follow, Refused
<1>7. BlocksBounds'
  BY <1>1 DEF BlocksBounds
<1> QED
  BY <1>4, <1>6, <1>7

\* When no list goes before another, the lists that are left are the first ones.
LEMMA LeftIsPrefix ==
    ASSUME Types, \A n \in DOMAIN lists \ Live, m \in Live : ~(n < m)
    PROVE  /\ Len(Left) \in 0..Len(lists)
           /\ \A n \in 1..Len(Left) : Left[n] = lists[n]
<1> DEFINE N == Len(lists)
           L == Live
           M == Cardinality(L)
           c(n) == Cardinality(L \cap 1..n)
<1>1. N \in Nat /\ DOMAIN lists = 1..N
  BY ListsAreTerms
<1>2. L \in SUBSET (1..N)
  BY <1>1 DEF Live
<1>3. /\ M \in 0..N /\ \A m \in 1..M : \E n \in L : c(n) = m
  <2> HIDE DEF L
  <2> QED
    BY <1>1, <1>2, Counting
<1>4. ASSUME NEW n \in L PROVE c(n) = n
  <2>1. n \in Nat /\ n \in 1..N
    BY <1>1, <1>2
  <2>2. \A m \in 1..n : m \in L
    <3> SUFFICES ASSUME NEW m \in 1..n, m \notin L PROVE FALSE
      OBVIOUS
    <3>1. m \in DOMAIN lists \ Live /\ m < n
      BY <1>1, <2>1, <1>4
    <3> QED
      BY <1>4, <3>1
  <2>3. L \cap 1..n = 1..n
    BY <2>2
  <2>4. Cardinality(1..n) = n
    BY <2>1, FS_Interval
  <2> QED
    BY <2>3, <2>4
<1>5. ASSUME NEW m \in 1..M PROVE Nth(m) = m /\ m \in L
  <2>1. PICK n \in L : c(n) = m
    BY <1>3
  <2>2. Nth(m) \in L /\ c(Nth(m)) = m
    BY <2>1 DEF Nth
  <2> QED
    BY <1>4, <2>1, <2>2
<1>6. Len(Left) = M /\ \A m \in 1..M : Left[m] = lists[Nth(m)]
  <2>1. M \in Nat
    BY <1>1, <1>3
  <2> HIDE DEF L
  <2> QED
    BY <2>1 DEF Left, L
<1> QED
  BY <1>3, <1>5, <1>6

\* The upper bounds stay those of the first lists, which are the lists that are left.
LEMMA EraseEndedKeepsBInv == PInv /\ BInv /\ EraseEnded => BInv'
<1> SUFFICES ASSUME PInv, BInv, EraseEnded, Sound'
             PROVE  "bound" \notin faults' /\ UpperBounds' /\ BlocksBounds'
  BY DEF BInv
<1>1. /\ pc = "erase" /\ pc' # "rest" /\ lists' = Left /\ UNCHANGED <<postings, upper_bounds>>
      /\ faults' = faults \cup {f \in {"erased"} : \E n \in DOMAIN lists \ Live, m \in Live : n < m}
      /\ Types
  BY DEF EraseEnded, Continues, PInv
<1>2. Sound
  BY <1>1 DEF Sound, Truncates
<1>3. "bound" \notin faults' /\ \A n \in 1..Len(lists) : upper_bounds[n] = Greatest(n)
  BY <1>1, <1>2 DEF BInv, UpperBounds
<1>4. /\ Len(Left) \in 0..Len(lists) /\ Len(lists) \in Nat
      /\ \A n \in 1..Len(Left) : Left[n] = lists[n]
  <2>1. \A n \in DOMAIN lists \ Live, m \in Live : ~(n < m)
    BY <1>1 DEF Sound
  <2> QED
    BY <1>1, <2>1, LeftIsPrefix, ListsAreTerms
<1>5. ASSUME NEW n \in 1..Len(Left) PROVE upper_bounds[n] = Greatest(n)'
  <2>1. n \in 1..Len(lists) /\ \A m \in 1..n : m \in 1..Len(Left)
    BY <1>4
  <2>2. {Left[m] : m \in 1..n} = Lesser(n)
    BY <1>4, <2>1 DEF Lesser
  <2>3. Greatest(n)' = SumFunction([t \in {Left[m] : m \in 1..n} |-> GreatestOf(t, 1..Size(t))])
    BY <1>1 DEF Greatest, Lesser, GreatestOf, Size
  <2>4. Greatest(n)' = Greatest(n)
    BY <2>2, <2>3 DEF Greatest
  <2> QED
    BY <1>3, <2>1, <2>4
<1>6. UpperBounds'
  BY <1>1, <1>5 DEF UpperBounds
<1>7. BlocksBounds'
  BY <1>1 DEF BlocksBounds
<1> QED
  BY <1>3, <1>6, <1>7

\* A step that changes nothing keeps it.
LEMMA StutterKeepsBInv == BInv /\ UNCHANGED vars => BInv'
<1> SUFFICES ASSUME BInv, UNCHANGED vars PROVE BInv'
  OBVIOUS
<1>1. UNCHANGED <<postings, lists, at, upper_bounds, pivot, curr_docid, bub, scored, faults, pc>>
  BY DEF vars, loopVars
<1>2. (Sound' <=> Sound)
  BY <1>1 DEF Sound, Truncates
<1>3. \A n : Greatest(n)' = Greatest(n) /\ Added(n)' = Added(n)
  BY <1>1 DEF Greatest, Added, Lesser, GreatestOf, Size, TermsOf
<1> QED
  BY <1>1, <1>2, <1>3 DEF BInv, UpperBounds, BlocksBounds

\* A bound is too small only if a list was erased before another (114), a block's bound
\* was read from a block before the document's or from none (70-71), or the fixed point
\* cut a score off (types.hpp:108-121), whatever the lists, the blocks and the scores are.
THEOREM BoundsHaveCauses == Spec => []WrongBoundsHaveACause
<1>1. Init => BInv
  BY DEF Init, BInv, UpperBounds, BlocksBounds
<1>2. PInv /\ BInv /\ [Next]_vars => BInv'
  BY BuildHelpersKeepsBInv, ScoreEssentialKeepsBInv, PopulateBubKeepsBInv, ScoreRestKeepsBInv,
     LeaveRestKeepsBInv, PushResultKeepsBInv, EraseEndedKeepsBInv, StutterKeepsBInv
     DEF Next, Terminated
<1>3. BInv => WrongBoundsHaveACause
  BY DEF BInv, Sound, WrongBoundsHaveACause
<1> QED
  BY <1>1, <1>2, <1>3, Positions, PTL DEF Spec

=============================================================================
