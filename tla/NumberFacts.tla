----------------------------- MODULE NumberFacts -----------------------------
(***************************************************************************)
(* Facts about numbers: divisions, least numbers, and what a sum over a    *)
(* finite set is, whatever order it is taken in (SumFunctionOnSet of the   *)
(* community module Functions), by induction on sets of numbers and of     *)
(* sets.                                                                   *)
(***************************************************************************)
EXTENDS Functions, FiniteSets, FiniteSetsExt, Integers, FiniteSetTheorems,
        WellFoundedInduction, TLAPS

-----------------------------------------------------------------------------
(* Products, quotients and least numbers.                                  *)

\* A product grows with its factor by a block at least.
LEMMA Products ==
    ASSUME NEW b \in Nat, b > 0, NEW x \in Nat, NEW y \in Nat
    PROVE  /\ b * x \in Nat /\ x <= b * x
           /\ x < y => b * x + b <= b * y
           /\ b * x < b * y => x < y
           /\ b * x = b * y => x = y
<1>1. b * x \in Nat /\ b * y \in Nat /\ x <= b * x
  OBVIOUS
<1>2. \A u, v \in Nat : u < v => b * u + b <= b * v
  <2> TAKE u, v \in Nat
  <2> HAVE u < v
  <2>1. v - u - 1 \in Nat
    OBVIOUS
  <2>2. b * (v - u - 1) \in Nat
    BY <2>1
  <2>3. b * (v - u - 1) = b * v - b * u - b
    OBVIOUS
  <2>4. b * u \in Nat /\ b * v \in Nat
    OBVIOUS
  <2> QED
    BY <2>2, <2>3, <2>4
<1>3. ~(x < y) => b * y <= b * x
  <2>1. CASE x = y
    BY <2>1
  <2>2. CASE y < x
    BY <1>1, <1>2, <2>2
  <2> QED
    BY <2>1, <2>2
<1>4. b * x < b * y => x < y
  BY <1>1, <1>3
<1>5. b * x = b * y => x = y
  <2>1. x < y => b * x + b <= b * y
    BY <1>2
  <2>2. y < x => b * y + b <= b * x
    BY <1>2
  <2> QED
    BY <1>1, <2>1, <2>2
<1> QED
  BY <1>1, <1>2, <1>4, <1>5

\* Division with a remainder.
LEMMA Division ==
    ASSUME NEW b \in Nat, b > 0, NEW o \in Nat
    PROVE  /\ o % b \in Nat /\ o % b < b
           /\ o \div b \in Nat /\ o = b * (o \div b) + (o % b)
  OBVIOUS

\* There is one quotient and one remainder.
LEMMA Quotient ==
    ASSUME NEW b \in Nat, b > 0, NEW m \in Nat, NEW r \in Nat, r < b
    PROVE  (b * m + r) % b = r /\ (b * m + r) \div b = m
<1> DEFINE o == b * m + r
           q == o \div b
           s == o % b
<1>1. o \in Nat
  OBVIOUS
<1>2. q \in Nat /\ s \in Nat /\ s < b /\ o = b * q + s
  BY <1>1, Division
<1> HIDE DEF q, s
<1>3. b * q \in Nat /\ b * m \in Nat
  BY <1>2
<1>4. m < q => b * m + b <= b * q
  BY <1>2, Products
<1>5. q < m => b * q + b <= b * m
  BY <1>2, Products
<1>6. m = q
  BY <1>2, <1>3, <1>4, <1>5
<1>7. s = r
  BY <1>2, <1>3, <1>6
<1> QED
  BY <1>6, <1>7 DEF q, s

\* A set with 0 and with the successors of its elements has every number.
LEMMA SetOfNumbers ==
    ASSUME NEW G, 0 \in G, \A n \in Nat : n \in G => n + 1 \in G
    PROVE  \A n \in Nat : n \in G
<1> DEFINE R == {p \in Nat \X Nat : p[1] < p[2]}
           Bad == Nat \ G
<1>1. IsWellFoundedOn(R, Nat)
  <2>1. R = OpToRel(<, Nat)
    BY DEF OpToRel
  <2>2. QED
    BY <2>1, NatLessThanWellFounded
<1>2. SUFFICES ASSUME Bad # {} PROVE FALSE
  OBVIOUS
<1>3. PICK x \in Bad : \A y \in Bad : <<y, x>> \notin R
  BY <1>1, <1>2, WFMin
<1>4. \A y \in Bad : ~(y < x)
  <2> TAKE y \in Bad
  <2>1. <<y, x>> \in Nat \X Nat /\ <<y, x>>[1] = y /\ <<y, x>>[2] = x
    OBVIOUS
  <2>2. QED
    BY <2>1, <1>3
<1>5. x \in Nat /\ x \notin G
  OBVIOUS
<1>6. x - 1 \in Nat /\ x - 1 \notin G => FALSE
  BY <1>4, <1>5
<1>7. x # 0
  BY <1>5
<1>8. x - 1 \in Nat
  BY <1>5, <1>7
<1>9. (x - 1) + 1 = x
  BY <1>5
<1>10. QED
  BY <1>5, <1>6, <1>8, <1>9


\* Numbers have a least one.
LEMMA MinIsLeast ==
    ASSUME NEW S \in SUBSET Nat, S # {}
    PROVE  Min(S) \in S /\ \A y \in S : Min(S) <= y
<1>1. PICK x \in S : \A y \in S : <<y, x>> \notin OpToRel(<, Nat)
  BY NatLessThanWellFounded, WFMin
<1>2. ASSUME NEW y \in S PROVE x <= y
  <2>1. ~(y < x)
    BY <1>1 DEF OpToRel
  <2> QED
    BY <2>1
<1> QED
  BY <1>2 DEF Min

\* So is it of the subsets of a finite set, which are built one element at a time.
LEMMA SetOfSets ==
    ASSUME NEW S, IsFiniteSet(S), NEW G, {} \in G,
           \A T \in SUBSET S : \A x \in S \ T : T \in G => T \cup {x} \in G
    PROVE  \A T \in SUBSET S : T \in G
<1> DEFINE H == {n \in Nat : \A T \in SUBSET S : Cardinality(T) = n => T \in G}
<1>1. \A T \in SUBSET S : IsFiniteSet(T) /\ Cardinality(T) \in Nat
  BY FS_Subset, FS_CardinalityType
<1>2. 0 \in H
  BY <1>1, FS_EmptySet
<1>3. ASSUME NEW n \in Nat, n \in H PROVE n + 1 \in H
  <2> SUFFICES ASSUME NEW T \in SUBSET S, Cardinality(T) = n + 1 PROVE T \in G
    OBVIOUS
  <2>1. PICK x \in T : TRUE
    BY <1>1, FS_EmptySet
  <2>2. Cardinality(T \ {x}) = n
    <3>1. x \in T /\ IsFiniteSet(T)
      BY <1>1
    <3>2. Cardinality(T \ {x}) = Cardinality(T) - 1
      BY <3>1, FS_RemoveElement
    <3>3. QED
      BY <3>2
  <2>3. T \ {x} \in G
    BY <1>3, <2>2
  <2>4. (T \ {x}) \cup {x} = T /\ x \in S \ (T \ {x}) /\ T \ {x} \in SUBSET S
    BY <2>1
  <2>5. (T \ {x}) \cup {x} \in G
    BY <2>3, <2>4
  <2>6. QED
    BY <2>4, <2>5
<1>4. \A n \in Nat : n \in H
  <2> HIDE DEF H
  <2>1. QED
    BY <1>2, <1>3, SetOfNumbers
<1>5. QED
  BY <1>1, <1>4

-----------------------------------------------------------------------------
(* The sum is what its recursive definition says ...                       *)

AnyOf(s) == CHOOSE x \in s : TRUE

Summing(f, S, g) ==
    g = [s \in SUBSET S |-> IF s = {} THEN 0 ELSE f[AnyOf(s)] + g[s \ {AnyOf(s)}]]

\* A function that sums up the subsets with at most n elements.
SummingTo(f, S, n, g) ==
    \A s \in SUBSET S : Cardinality(s) <= n =>
       g[s] = IF s = {} THEN 0 ELSE f[AnyOf(s)] + g[s \ {AnyOf(s)}]

\* What the fold picks from a set is one of its elements.
LEMMA AnyOfIsElement == \A s : s # {} => AnyOf(s) \in s
BY DEF AnyOf

\* Two functions that sum up the subsets of a set agree on them.
LEMMA SummingsAgree ==
    ASSUME NEW f, NEW S, IsFiniteSet(S), NEW n \in Nat, NEW g, NEW h,
           SummingTo(f, S, n, g), SummingTo(f, S, n, h)
    PROVE  \A s \in SUBSET S : Cardinality(s) <= n => g[s] = h[s]
<1> DEFINE H == {m \in Nat : m <= n => \A s \in SUBSET S : Cardinality(s) = m => g[s] = h[s]}
<1>1. \A T \in SUBSET S : IsFiniteSet(T) /\ Cardinality(T) \in Nat
  BY FS_Subset, FS_CardinalityType
<1>2. 0 \in H
  BY <1>1, FS_EmptySet DEF SummingTo
<1>3. ASSUME NEW m \in Nat, m \in H PROVE m + 1 \in H
  <2> SUFFICES ASSUME m + 1 <= n, NEW s \in SUBSET S, Cardinality(s) = m + 1
               PROVE  g[s] = h[s]
    OBVIOUS
  <2>1. s # {} /\ AnyOf(s) \in s
    BY FS_EmptySet, AnyOfIsElement
  <2>2. Cardinality(s \ {AnyOf(s)}) = m /\ s \ {AnyOf(s)} \in SUBSET S
    <3>1. IsFiniteSet(s)
      BY <1>1
    <3>2. Cardinality(s \ {AnyOf(s)}) = Cardinality(s) - 1
      BY <2>1, <3>1, FS_RemoveElement
    <3>3. s \ {AnyOf(s)} \in SUBSET S
      OBVIOUS
    <3>4. QED
      BY <3>2, <3>3
  <2>3. g[s \ {AnyOf(s)}] = h[s \ {AnyOf(s)}]
    BY <1>3, <2>2
  <2>4. QED
    BY <2>1, <2>3 DEF SummingTo
<1>4. \A m \in Nat : m \in H
  <2> HIDE DEF H
  <2>1. QED
    BY <1>2, <1>3, SetOfNumbers
<1>5. QED
  BY <1>1, <1>4

\* The recursive definition of the fold has a solution.
LEMMA SummingExists ==
    ASSUME NEW f, NEW S, IsFiniteSet(S)
    PROVE  \E g : Summing(f, S, g)
<1> DEFINE Next(g) == [s \in SUBSET S |-> IF s = {} THEN 0 ELSE f[AnyOf(s)] + g[s \ {AnyOf(s)}]]
           H == {n \in Nat : \E g : SummingTo(f, S, n, g)}
<1>1. \A T \in SUBSET S : IsFiniteSet(T) /\ Cardinality(T) \in Nat
  BY FS_Subset, FS_CardinalityType
<1>2. 0 \in H
  <2>1. SummingTo(f, S, 0, [s \in SUBSET S |-> 0])
    BY <1>1, FS_EmptySet DEF SummingTo
  <2>2. QED
    BY <2>1
<1>3. ASSUME NEW n \in Nat, n \in H PROVE n + 1 \in H
  <2>1. PICK g : SummingTo(f, S, n, g)
    BY <1>3
  <2>2. ASSUME NEW s \in SUBSET S, Cardinality(s) <= n PROVE Next(g)[s] = g[s]
    BY <2>1, <2>2 DEF SummingTo
  <2>3. ASSUME NEW s \in SUBSET S, Cardinality(s) <= n + 1, s # {}
        PROVE  Next(g)[s] = f[AnyOf(s)] + Next(g)[s \ {AnyOf(s)}]
    <3>1. Cardinality(s \ {AnyOf(s)}) <= n /\ s \ {AnyOf(s)} \in SUBSET S
      BY <1>1, <2>3, AnyOfIsElement, FS_RemoveElement
    <3>2. Next(g)[s \ {AnyOf(s)}] = g[s \ {AnyOf(s)}]
      BY <2>2, <3>1
    <3>3. QED
      BY <2>3, <3>2
  <2>4. SummingTo(f, S, n + 1, Next(g))
    BY <2>3 DEF SummingTo
  <2>5. QED
    BY <2>4
<1>4. Cardinality(S) \in H
  <2> HIDE DEF H
  <2>1. QED
    BY <1>1, <1>2, <1>3, SetOfNumbers
<1>5. PICK g : SummingTo(f, S, Cardinality(S), g)
  BY <1>4
<1>6. \A s \in SUBSET S : Cardinality(s) <= Cardinality(S) 
  BY FS_Subset
<1>7. \A s \in SUBSET S : g[s] = Next(g)[s]
  BY <1>5, <1>6 DEF SummingTo
<1>8. ASSUME NEW s \in SUBSET S, s # {} PROVE Next(g)[s] = f[AnyOf(s)] + Next(g)[s \ {AnyOf(s)}]
  <2>1. s \ {AnyOf(s)} \in SUBSET S
    OBVIOUS
  <2>2. QED
    BY <1>7, <1>8, <2>1
<1>9. Next(g) = Next(Next(g))
  BY <1>8
<1>10. QED
  BY <1>9 DEF Summing

\* SumFunctionOnSet is such a function.
LEMMA SumIsSumming ==
    ASSUME NEW f, NEW S, IsFiniteSet(S)
    PROVE  \E g : Summing(f, S, g) /\ SumFunctionOnSet(f, S) = g[S]
<1> DEFINE iter == CHOOSE g : Summing(f, S, g)
<1>1. Summing(f, S, iter)
  BY SummingExists
<1>2. SumFunctionOnSet(f, S) = iter[S]
  BY DEF SumFunctionOnSet, FoldFunctionOnSet, MapThenFoldSet, Summing, AnyOf
<1>3. QED
  BY <1>1, <1>2

\* The sum over no element is 0 ...
LEMMA SumEmpty == \A f : SumFunctionOnSet(f, {}) = 0
<1> TAKE f
<1>1. PICK g : Summing(f, {}, g) /\ SumFunctionOnSet(f, {}) = g[{}]
  BY SumIsSumming, FS_EmptySet
<1>2. QED
  BY <1>1 DEF Summing

\* ... and over a set, what one element contributes and the sum over the others.
LEMMA SumAny ==
    ASSUME NEW f, NEW S, IsFiniteSet(S), S # {}
    PROVE  SumFunctionOnSet(f, S) = f[AnyOf(S)] + SumFunctionOnSet(f, S \ {AnyOf(S)})
<1> DEFINE T == S \ {AnyOf(S)}
           n == Cardinality(T)
<1>1. IsFiniteSet(T) /\ n \in Nat
  BY FS_Subset, FS_CardinalityType
<1>2. PICK g : Summing(f, S, g) /\ SumFunctionOnSet(f, S) = g[S]
  BY SumIsSumming
<1>3. PICK h : Summing(f, T, h) /\ SumFunctionOnSet(f, T) = h[T]
  BY <1>1, SumIsSumming
<1>4. SummingTo(f, T, n, g) /\ SummingTo(f, T, n, h)
  <2>1. \A s \in SUBSET T : s \in SUBSET S
    OBVIOUS
  <2>2. \A s \in SUBSET S : g[s] = IF s = {} THEN 0 ELSE f[AnyOf(s)] + g[s \ {AnyOf(s)}]
    BY <1>2 DEF Summing
  <2>3. \A s \in SUBSET T : h[s] = IF s = {} THEN 0 ELSE f[AnyOf(s)] + h[s \ {AnyOf(s)}]
    BY <1>3 DEF Summing
  <2>4. QED
    BY <2>1, <2>2, <2>3 DEF SummingTo
<1>5. g[T] = h[T]
  BY <1>1, <1>4, SummingsAgree
<1>6. g[S] = f[AnyOf(S)] + g[T]
  BY <1>2 DEF Summing
<1>7. QED
  BY <1>2, <1>3, <1>5, <1>6

-----------------------------------------------------------------------------
(* ... and it does not depend on the order.                                *)

\* The sum of numbers is a number.
LEMMA SumType ==
    ASSUME NEW f, NEW S, IsFiniteSet(S), \A x \in S : f[x] \in Nat
    PROVE  SumFunctionOnSet(f, S) \in Nat
<1> DEFINE H == {n \in Nat : \A T \in SUBSET S :
                    Cardinality(T) = n => SumFunctionOnSet(f, T) \in Nat}
<1>1. \A T \in SUBSET S : IsFiniteSet(T) /\ Cardinality(T) \in Nat
  BY FS_Subset, FS_CardinalityType
<1>2. 0 \in H
  BY <1>1, FS_EmptySet, SumEmpty
<1>3. ASSUME NEW n \in Nat, n \in H PROVE n + 1 \in H
  <2> SUFFICES ASSUME NEW T \in SUBSET S, Cardinality(T) = n + 1
               PROVE  SumFunctionOnSet(f, T) \in Nat
    OBVIOUS
  <2>1. IsFiniteSet(T) /\ T # {} /\ AnyOf(T) \in T
    BY <1>1, FS_EmptySet, AnyOfIsElement
  <2>2. Cardinality(T \ {AnyOf(T)}) = Cardinality(T) - 1
    BY <2>1, FS_RemoveElement
  <2>3. T \ {AnyOf(T)} \in SUBSET S /\ Cardinality(T \ {AnyOf(T)}) = n
    BY <2>2
  <2>4. SumFunctionOnSet(f, T \ {AnyOf(T)}) \in Nat /\ f[AnyOf(T)] \in Nat
    BY <1>3, <2>1, <2>3
  <2>5. QED
    BY <2>1, <2>4, SumAny
<1>4. \A n \in Nat : n \in H
  <2> HIDE DEF H
  <2>1. QED
    BY <1>2, <1>3, SetOfNumbers
<1>5. QED
  BY <1>1, <1>4

\* Any element can be taken out first.
LEMMA SumRemove ==
    ASSUME NEW f, NEW S, IsFiniteSet(S), \A x \in S : f[x] \in Nat, NEW x \in S
    PROVE  SumFunctionOnSet(f, S) = f[x] + SumFunctionOnSet(f, S \ {x})
<1> DEFINE H == {n \in Nat : \A T \in SUBSET S : \A y \in T :
                    Cardinality(T) = n =>
                      SumFunctionOnSet(f, T) = f[y] + SumFunctionOnSet(f, T \ {y})}
<1>1. \A T \in SUBSET S : IsFiniteSet(T) /\ Cardinality(T) \in Nat
  BY FS_Subset, FS_CardinalityType
<1>2. 0 \in H
  BY <1>1, FS_EmptySet
<1>3. ASSUME NEW n \in Nat, n \in H PROVE n + 1 \in H
  <2> SUFFICES ASSUME NEW T \in SUBSET S, NEW y \in T, Cardinality(T) = n + 1
               PROVE  SumFunctionOnSet(f, T) = f[y] + SumFunctionOnSet(f, T \ {y})
    OBVIOUS
  <2> DEFINE a == AnyOf(T)
  <2>1. IsFiniteSet(T) /\ T # {} /\ a \in T
    BY <1>1, AnyOfIsElement
  <2>2. SumFunctionOnSet(f, T) = f[a] + SumFunctionOnSet(f, T \ {a})
    BY <2>1, SumAny
  <2>3. CASE y = a
    BY <2>2, <2>3
  <2>4. CASE y # a
    <3> DEFINE U == T \ {a}
               V == T \ {y}
               W == U \ {y}
    <3>1. Cardinality(U) = Cardinality(T) - 1 /\ Cardinality(V) = Cardinality(T) - 1
      BY <2>1, FS_RemoveElement
    <3>2. U \in SUBSET S /\ V \in SUBSET S /\ W \in SUBSET S /\ y \in U /\ a \in V
      BY <2>1, <2>4
    <3>3. Cardinality(U) = n /\ Cardinality(V) = n
      BY <3>1
    <3>4. SumFunctionOnSet(f, U) = f[y] + SumFunctionOnSet(f, W)
      BY <1>3, <3>2, <3>3
    <3>5. SumFunctionOnSet(f, V) = f[a] + SumFunctionOnSet(f, V \ {a})
      BY <1>3, <3>2, <3>3
    <3>6. V \ {a} = W
      OBVIOUS
    <3>7. SumFunctionOnSet(f, W) \in Nat /\ f[a] \in Nat /\ f[y] \in Nat
      BY <1>1, <2>1, <3>2, SumType
    <3>8. /\ SumFunctionOnSet(f, T) = f[a] + (f[y] + SumFunctionOnSet(f, W))
          /\ SumFunctionOnSet(f, V) = f[a] + SumFunctionOnSet(f, W)
      BY <2>2, <3>4, <3>5, <3>6
    <3> HIDE DEF W, a
    <3>9. f[a] + (f[y] + SumFunctionOnSet(f, W)) = f[y] + (f[a] + SumFunctionOnSet(f, W))
      BY <3>7
    <3>10. QED
      BY <3>8, <3>9
  <2>5. QED
    BY <2>3, <2>4
<1>4. \A n \in Nat : n \in H
  <2> HIDE DEF H
  <2>1. QED
    BY <1>2, <1>3, SetOfNumbers
<1>5. QED
  BY <1>1, <1>4

\* An element more adds its number.
LEMMA SumAdd ==
    ASSUME NEW f, NEW S, IsFiniteSet(S), NEW x, x \notin S,
           \A y \in S \cup {x} : f[y] \in Nat
    PROVE  SumFunctionOnSet(f, S \cup {x}) = f[x] + SumFunctionOnSet(f, S)
<1>1. IsFiniteSet(S \cup {x})
  BY FS_AddElement
<1>2. (S \cup {x}) \ {x} = S
  OBVIOUS
<1>3. QED
  BY <1>1, <1>2, SumRemove

\* A sum over two sets, or over the image of a set, is a sum.
LEMMA SumDisjointUnion ==
    ASSUME NEW f, NEW S, IsFiniteSet(S), NEW T, IsFiniteSet(T), S \cap T = {},
           \A x \in S \cup T : f[x] \in Nat
    PROVE  SumFunctionOnSet(f, S \cup T) = SumFunctionOnSet(f, S) + SumFunctionOnSet(f, T)
<1> DEFINE G == {U \in SUBSET T :
                    SumFunctionOnSet(f, S \cup U)
                      = SumFunctionOnSet(f, S) + SumFunctionOnSet(f, U)}
<1>1. SumFunctionOnSet(f, S) \in Nat
  BY SumType
<1>2. {} \in G
  <2>1. S \cup {} = S
    OBVIOUS
  <2>2. QED
    BY <1>1, <2>1, SumEmpty
<1>3. ASSUME NEW U \in SUBSET T, NEW x \in T \ U, U \in G PROVE U \cup {x} \in G
  <2>1. IsFiniteSet(U) /\ IsFiniteSet(S \cup U)
    BY FS_Subset, FS_Union
  <2>2. SumFunctionOnSet(f, U) \in Nat /\ f[x] \in Nat
    BY <2>1, SumType
  <2>3. x \notin S \cup U /\ S \cup (U \cup {x}) = (S \cup U) \cup {x}
    OBVIOUS
  <2>4. SumFunctionOnSet(f, S \cup (U \cup {x})) = f[x] + SumFunctionOnSet(f, S \cup U)
    BY <2>1, <2>3, SumAdd
  <2>5. SumFunctionOnSet(f, U \cup {x}) = f[x] + SumFunctionOnSet(f, U)
    BY <2>1, SumAdd
  <2>6. QED
    BY <1>1, <1>3, <2>2, <2>4, <2>5
<1>4. T \in G
  <2> HIDE DEF G
  <2>1. QED
    BY <1>2, <1>3, SetOfSets
<1>5. QED
  BY <1>4

\* Renaming the elements one to one keeps the sum.
LEMMA SumImage ==
    ASSUME NEW f, NEW g, NEW h, NEW S, IsFiniteSet(S),
           \A x \in S : f[x] \in Nat /\ g[h[x]] = f[x],
           \A x, y \in S : h[x] = h[y] => x = y
    PROVE  SumFunctionOnSet(g, {h[x] : x \in S}) = SumFunctionOnSet(f, S)
<1> DEFINE G == {U \in SUBSET S :
                    SumFunctionOnSet(g, {h[x] : x \in U}) = SumFunctionOnSet(f, U)}
<1>1. {} \in G
  <2>1. {h[x] : x \in {}} = {}
    OBVIOUS
  <2>2. QED
    BY <2>1, SumEmpty
<1>2. ASSUME NEW U \in SUBSET S, NEW y \in S \ U, U \in G PROVE U \cup {y} \in G
  <2> DEFINE I == {h[x] : x \in U}
  <2>1. IsFiniteSet(U)
    BY FS_Subset
  <2>2. IsFiniteSet(I)
    <3> DEFINE k == [x \in U |-> h[x]]
    <3>1. k \in Surjection(U, I)
      BY DEF Surjection
    <3>2. QED
      BY <2>1, <3>1, FS_Surjection
  <2>3. h[y] \notin I /\ {h[x] : x \in U \cup {y}} = I \cup {h[y]}
    OBVIOUS
  <2>4. \A z \in I \cup {h[y]} : g[z] \in Nat
    OBVIOUS
  <2>5. SumFunctionOnSet(g, I \cup {h[y]}) = g[h[y]] + SumFunctionOnSet(g, I)
    BY <2>2, <2>3, <2>4, SumAdd
  <2>6. SumFunctionOnSet(f, U \cup {y}) = f[y] + SumFunctionOnSet(f, U)
    BY <2>1, SumAdd
  <2>7. QED
    BY <1>2, <2>3, <2>5, <2>6
<1>3. S \in G
  <2> HIDE DEF G
  <2>1. QED
    BY <1>1, <1>2, SetOfSets
<1>4. QED
  BY <1>3

\* Functions that agree on a set have the same sum over it.
LEMMA SumSame ==
    ASSUME NEW f, NEW g, NEW S, IsFiniteSet(S), \A x \in S : f[x] \in Nat /\ f[x] = g[x]
    PROVE  SumFunctionOnSet(f, S) = SumFunctionOnSet(g, S)
<1> DEFINE h == [x \in S |-> x]
<1>1. {h[x] : x \in S} = S
  OBVIOUS
<1>2. /\ \A x \in S : f[x] \in Nat /\ g[h[x]] = f[x]
      /\ \A x, y \in S : h[x] = h[y] => x = y
  OBVIOUS
<1> HIDE DEF h
<1>3. SumFunctionOnSet(g, {h[x] : x \in S}) = SumFunctionOnSet(f, S)
  BY <1>2, SumImage
<1>4. QED
  BY <1>1, <1>3

\* Greater numbers have a greater sum.
LEMMA SumMonotone ==
    ASSUME NEW f, NEW g, NEW S, IsFiniteSet(S),
           \A x \in S : f[x] \in Nat /\ g[x] \in Nat /\ f[x] <= g[x]
    PROVE  SumFunctionOnSet(f, S) <= SumFunctionOnSet(g, S)
<1> DEFINE G == {U \in SUBSET S : SumFunctionOnSet(f, U) <= SumFunctionOnSet(g, U)}
<1>1. {} \in G
  BY SumEmpty
<1>2. ASSUME NEW U \in SUBSET S, NEW x \in S \ U, U \in G
      PROVE  U \cup {x} \in G
  <2>1. IsFiniteSet(U)
    BY FS_Subset
  <2>2. SumFunctionOnSet(f, U) \in Nat /\ SumFunctionOnSet(g, U) \in Nat
    BY <2>1, SumType
  <2>3. SumFunctionOnSet(f, U \cup {x}) = f[x] + SumFunctionOnSet(f, U)
    BY <2>1, SumAdd
  <2>4. SumFunctionOnSet(g, U \cup {x}) = g[x] + SumFunctionOnSet(g, U)
    BY <2>1, SumAdd
  <2>5. SumFunctionOnSet(f, U) <= SumFunctionOnSet(g, U)
    BY <1>2
  <2>6. f[x] \in Nat /\ g[x] \in Nat /\ f[x] <= g[x]
    OBVIOUS
  <2>7. \A a, b, c, d \in Nat : a <= b /\ c <= d => a + c <= b + d
    OBVIOUS
  <2>8. f[x] + SumFunctionOnSet(f, U) <= g[x] + SumFunctionOnSet(g, U)
    BY <2>2, <2>5, <2>6, <2>7
  <2> QED
    BY <2>3, <2>4, <2>8
<1>3. S \in G
  <2> HIDE DEF G
  <2> QED
    BY <1>1, <1>2, SetOfSets
<1> QED
  BY <1>3

\* A part has no greater sum.
LEMMA SumOfSubset ==
    ASSUME NEW f, NEW S, IsFiniteSet(S), \A x \in S : f[x] \in Nat, NEW T \in SUBSET S
    PROVE  SumFunctionOnSet(f, T) <= SumFunctionOnSet(f, S)
<1>1. IsFiniteSet(T) /\ IsFiniteSet(S \ T)
  BY FS_Subset
<1>2. SumFunctionOnSet(f, T) \in Nat /\ SumFunctionOnSet(f, S \ T) \in Nat
  BY <1>1, SumType
<1>3. T \cup (S \ T) = S /\ T \cap (S \ T) = {}
  OBVIOUS
<1>4. SumFunctionOnSet(f, T \cup (S \ T)) = SumFunctionOnSet(f, T) + SumFunctionOnSet(f, S \ T)
  BY <1>1, <1>3, SumDisjointUnion
<1>5. \A a, b \in Nat : a <= a + b
  OBVIOUS
<1> QED
  BY <1>2, <1>3, <1>4, <1>5

\* The elements of two sets that have none in common are counted apart.
LEMMA CardinalityDisjointUnion ==
    ASSUME NEW S, NEW T, IsFiniteSet(S), IsFiniteSet(T), S \cap T = {}
    PROVE  IsFiniteSet(S \cup T) /\ Cardinality(S \cup T) = Cardinality(S) + Cardinality(T)
<1>1. /\ IsFiniteSet(S \cup T)
      /\ Cardinality(S \cup T) = Cardinality(S) + Cardinality(T) - Cardinality(S \cap T)
  BY FS_Union
<1>2. Cardinality(S \cap T) = 0
  BY FS_EmptySet
<1>3. Cardinality(S) \in Nat /\ Cardinality(T) \in Nat
  BY FS_CardinalityType
<1> QED
  BY ONLY <1>1, <1>2, <1>3

\* The elements of sets that have none in common are counted set by set.
LEMMA SumOfCardinalities ==
    ASSUME NEW F, NEW f, NEW S, IsFiniteSet(S),
           \A x \in S : IsFiniteSet(F[x]) /\ f[x] = Cardinality(F[x]),
           \A x, y \in S : x # y => F[x] \cap F[y] = {}
    PROVE  /\ IsFiniteSet(UNION {F[x] : x \in S})
           /\ SumFunctionOnSet(f, S) = Cardinality(UNION {F[x] : x \in S})
<1> DEFINE All(U) == UNION {F[x] : x \in U}
           G == {U \in SUBSET S : IsFiniteSet(All(U)) /\ SumFunctionOnSet(f, U) = Cardinality(All(U))}
<1>1. {} \in G
  <2>1. All({}) = {}
    OBVIOUS
  <2>2. QED
    BY <2>1, SumEmpty, FS_EmptySet
<1>2. ASSUME NEW U \in SUBSET S, NEW y \in S \ U, U \in G PROVE U \cup {y} \in G
  <2>1. IsFiniteSet(U) /\ \A x \in S : f[x] \in Nat
    BY FS_Subset, FS_CardinalityType
  <2>2. All(U \cup {y}) = All(U) \cup F[y] /\ All(U) \cap F[y] = {}
    OBVIOUS
  <2>3. IsFiniteSet(All(U)) /\ IsFiniteSet(F[y]) /\ f[y] = Cardinality(F[y])
    BY <1>2
  <2>8. SumFunctionOnSet(f, U \cup {y}) = f[y] + SumFunctionOnSet(f, U)
    BY <2>1, SumAdd
  <2>9. SumFunctionOnSet(f, U) = Cardinality(All(U))
    BY <1>2
  <2>11. /\ IsFiniteSet(All(U \cup {y}))
         /\ SumFunctionOnSet(f, U \cup {y}) = Cardinality(All(U \cup {y}))
         => U \cup {y} \in G
    OBVIOUS
  <2>4. /\ IsFiniteSet(All(U) \cup F[y])
        /\ Cardinality(All(U) \cup F[y]) = Cardinality(All(U)) + Cardinality(F[y])
    BY <2>2, <2>3, CardinalityDisjointUnion
  <2>5. IsFiniteSet(All(U \cup {y}))
    BY <2>2, <2>4
  <2>6. Cardinality(All(U \cup {y})) = Cardinality(All(U)) + Cardinality(F[y])
    BY <2>2, <2>4
  <2>7. Cardinality(All(U)) \in Nat /\ Cardinality(F[y]) \in Nat
    BY <2>3, FS_CardinalityType
  <2>10. SumFunctionOnSet(f, U \cup {y}) = Cardinality(All(U \cup {y}))
    BY <2>3, <2>6, <2>7, <2>8, <2>9
  <2>12. QED
    BY <2>5, <2>10, <2>11
<1>3. S \in G
  <2> HIDE DEF G
  <2>1. QED
    BY <1>1, <1>2, SetOfSets
<1>4. QED
  BY <1>3

-----------------------------------------------------------------------------
(* Counting up, and the ranks of the keys of a map.                       *)

\* Induction up to a number.
LEMMA NumbersUpTo ==
    ASSUME NEW n \in Nat, NEW G, 0 \in G, \A k \in 0..(n - 1) : k \in G => k + 1 \in G
    PROVE  \A k \in 0..n : k \in G
<1> DEFINE H == {k \in Nat : k <= n => k \in G}
<1>1. 0 \in H
  OBVIOUS
<1>2. ASSUME NEW k \in Nat, k \in H PROVE k + 1 \in H
  BY <1>2
<1>3. \A k \in Nat : k \in H
  <2> HIDE DEF H
  <2> QED
    BY <1>1, <1>2, SetOfNumbers
<1> QED
  BY <1>3

\* Induction on all the smaller numbers.
LEMMA FromSmaller ==
    ASSUME NEW G, \A n \in Nat : (\A m \in 0..(n - 1) : m \in G) => n \in G
    PROVE  \A n \in Nat : n \in G
<1> DEFINE H == {n \in Nat : \A m \in 0..(n - 1) : m \in G}
<1>1. 0 \in H
  OBVIOUS
<1>2. ASSUME NEW n \in Nat, n \in H PROVE n + 1 \in H
  <2>1. n \in G
    BY <1>2
  <2>2. \A m \in 0..((n + 1) - 1) : m = n \/ m \in 0..(n - 1)
    OBVIOUS
  <2> QED
    BY <1>2, <2>1, <2>2
<1>3. \A n \in Nat : n \in H
  <2> HIDE DEF H
  <2> QED
    BY <1>1, <1>2, SetOfNumbers
<1> QED
  BY <1>3

\* The values of a loop after each of n rounds.
IsLoop(f, n, V, v0, round) ==
    /\ f \in [0..n -> V] /\ f[0] = v0
    /\ \A k \in 1..n : f[k] = round[k][f[k - 1]]

StaysIn(n, V, round) == \A k \in 1..n : \A v \in V : round[k][v] \in V

\* A loop comes to a value after each round, as long as each round has one.
LEMMA LoopEnds ==
    ASSUME NEW n \in Nat, NEW V, NEW v0 \in V, NEW round, StaysIn(n, V, round)
    PROVE  \E f : IsLoop(f, n, V, v0, round)
<1>0. \A k \in 1..n : \A v \in V : round[k][v] \in V
  BY DEF StaysIn
<1> DEFINE Runs(m, f) == /\ f \in [0..m -> V] /\ f[0] = v0
                         /\ \A k \in 1..m : f[k] = round[k][f[k - 1]]
           G == {m \in Nat : \E f : Runs(m, f)}
<1>1. 0 \in G
  <2>1. Runs(0, [k \in 0..0 |-> v0])
    OBVIOUS
  <2> QED
    BY <2>1
<1>2. ASSUME NEW m \in 0..(n - 1), m \in G PROVE m + 1 \in G
  <2>1. PICK f : Runs(m, f)
    BY <1>2
  <2> DEFINE g == [k \in 0..(m + 1) |-> IF k = m + 1 THEN round[k][f[m]] ELSE f[k]]
  <2>2. m \in Nat /\ m + 1 \in 1..n /\ m \in 0..m /\ m \in 0..(m + 1) /\ m # m + 1
    OBVIOUS
  <2>3. f[m] \in V /\ round[m + 1][f[m]] \in V
    BY <1>0, <2>1, <2>2
  <2>4. \A k \in 0..(m + 1) : k = m + 1 \/ k \in 0..m
    BY <2>2
  <2>5. g \in [0..(m + 1) -> V]
    BY <2>1, <2>3, <2>4
  <2>6. g[0] = v0
    BY <2>1, <2>2
  <2>7. ASSUME NEW k \in 1..(m + 1) PROVE g[k] = round[k][g[k - 1]]
    <3>1. k - 1 \in 0..m /\ k - 1 \in 0..(m + 1) /\ k - 1 # m + 1 /\ k \in 0..(m + 1)
      BY <2>2
    <3>2. g[k - 1] = f[k - 1]
      BY <3>1
    <3>3. CASE k = m + 1
      <4>1. k - 1 = m /\ g[k] = round[k][f[m]]
        BY <3>1, <3>3
      <4> QED
        BY <3>2, <4>1
    <3>4. CASE k # m + 1
      <4>1. k \in 1..m /\ g[k] = f[k]
        BY <3>1, <3>4
      <4> QED
        BY <2>1, <3>2, <4>1
    <3> QED
      BY <3>3, <3>4
  <2> HIDE DEF g
  <2>8. Runs(m + 1, g)
    BY <2>5, <2>6, <2>7
  <2> HIDE DEF Runs
  <2> QED
    BY <2>2, <2>8
<1>3. n \in G
  <2> HIDE DEF G
  <2>1. \A k \in 0..n : k \in G
    BY <1>1, <1>2, NumbersUpTo
  <2> QED
    BY <2>1
<1> QED
  BY <1>3 DEF IsLoop

\* The keys of a map that are before one.
Below(S, t) == {u \in S : u < t}

\* The more keys are before it, the greater a key is.
LEMMA KeysAreRanked ==
    ASSUME NEW S \in SUBSET Nat, IsFiniteSet(S)
    PROVE  /\ Cardinality(S) \in Nat
           /\ \A t \in S :
                 Cardinality(Below(S, t)) \in Nat /\ Cardinality(Below(S, t)) < Cardinality(S)
           /\ \A t, u \in S : t < u => Cardinality(Below(S, t)) + 1 <= Cardinality(Below(S, u))
<1>1. Cardinality(S) \in Nat
  BY FS_CardinalityType
<1>2. ASSUME NEW t \in S, NEW V, IsFiniteSet(V), Below(S, t) \subseteq V, t \in V
      PROVE  /\ Cardinality(Below(S, t)) \in Nat /\ Cardinality(V) \in Nat
             /\ Cardinality(Below(S, t)) + 1 <= Cardinality(V)
  <2>1. t \notin Below(S, t) /\ Below(S, t) \cup {t} \subseteq V
    BY <1>2 DEF Below
  <2>2. IsFiniteSet(Below(S, t)) /\ Cardinality(Below(S, t)) \in Nat
    BY <1>2, FS_Subset, FS_CardinalityType
  <2>3. Cardinality(Below(S, t) \cup {t}) = Cardinality(Below(S, t)) + 1
    BY <2>1, <2>2, FS_AddElement
  <2>4. Cardinality(Below(S, t) \cup {t}) <= Cardinality(V)
    BY <1>2, <2>1, FS_Subset
  <2>5. Cardinality(V) \in Nat
    BY <1>2, FS_CardinalityType
  <2> QED
    BY <2>2, <2>3, <2>4, <2>5
<1>3. ASSUME NEW t \in S
      PROVE  Cardinality(Below(S, t)) \in Nat /\ Cardinality(Below(S, t)) < Cardinality(S)
  <2>1. Below(S, t) \subseteq S
    BY DEF Below
  <2>2. Cardinality(Below(S, t)) \in Nat /\ Cardinality(Below(S, t)) + 1 <= Cardinality(S)
    BY <1>2, <2>1
  <2> QED
    BY <1>1, <2>2
<1>4. ASSUME NEW t \in S, NEW u \in S, t < u
      PROVE  Cardinality(Below(S, t)) + 1 <= Cardinality(Below(S, u))
  <2>1. Below(S, t) \subseteq Below(S, u) /\ t \in Below(S, u)
    <3>1. \A v \in S : v \in Nat /\ (v < t => v < u)
      BY <1>4
    <3> QED
      BY <1>4, <3>1 DEF Below
  <2>2. IsFiniteSet(Below(S, u))
    <3>1. Below(S, u) \subseteq S
      BY DEF Below
    <3> QED
      BY <3>1, FS_Subset
  <2> QED
    BY <1>2, <2>1, <2>2
<1> QED
  BY <1>1, <1>3, <1>4

\* Each index has its key.
LEMMA IndexHasKey ==
    ASSUME NEW S \in SUBSET Nat, IsFiniteSet(S), NEW n \in Nat, n < Cardinality(S)
    PROVE  \E t \in S : Cardinality(Below(S, t)) = n
<1> DEFINE c(t) == Cardinality(Below(S, t))
           G == {k \in Nat : k < Cardinality(S) => \E t \in S : c(t) = k}
<1>1. /\ Cardinality(S) \in Nat
      /\ \A t \in S : c(t) \in Nat /\ c(t) < Cardinality(S)
      /\ \A t, u \in S : t < u => c(t) + 1 <= c(u)
      /\ \A t \in S : t \in Nat
  BY KeysAreRanked
<1>2. 0 \in G
  <2> SUFFICES ASSUME 0 < Cardinality(S) PROVE \E t \in S : c(t) = 0
    OBVIOUS
  <2>1. S # {}
    BY <1>1, FS_EmptySet
  <2>2. Min(S) \in S /\ \A y \in S : Min(S) <= y
    BY <2>1, MinIsLeast
  <2>3. Below(S, Min(S)) = {}
    <3>1. ASSUME NEW y \in S PROVE ~(y < Min(S))
      <4>1. y \in Nat /\ Min(S) \in Nat /\ Min(S) <= y
        BY <1>1, <2>2
      <4> QED
        BY <4>1
    <3> QED
      BY <3>1 DEF Below
  <2>4. c(Min(S)) = 0
    BY <2>3, FS_EmptySet
  <2> QED
    BY <2>2, <2>4
<1>3. ASSUME NEW k \in Nat, k \in G PROVE k + 1 \in G
  <2> SUFFICES ASSUME k + 1 < Cardinality(S) PROVE \E t \in S : c(t) = k + 1
    OBVIOUS
  <2>1. PICK t \in S : c(t) = k
    <3>1. k < Cardinality(S)
      BY <1>1
    <3> QED
      BY <1>3, <3>1
  <2> DEFINE V == {u \in S : t < u}
  <2>2. V # {}
    <3> SUFFICES ASSUME V = {} PROVE FALSE
      OBVIOUS
    <3>1. S = Below(S, t) \cup {t} /\ t \notin Below(S, t)
      <4>1. \A u \in S : ~(t < u) /\ u \in Nat /\ t \in Nat
        BY <1>1
      <4>2. \A u \in S : u < t \/ u = t
        BY <4>1
      <4>3. t \notin Below(S, t)
        BY <1>1 DEF Below
      <4> HIDE DEF V
      <4> QED
        BY <4>2, <4>3 DEF Below
    <3>2. IsFiniteSet(Below(S, t))
      <4>1. Below(S, t) \subseteq S
        BY DEF Below
      <4> QED
        BY <4>1, FS_Subset
    <3>3. Cardinality(S) = k + 1
      BY <2>1, <3>1, <3>2, FS_AddElement
    <3> QED
      BY <1>1, <3>3
  <2>3. Min(V) \in V /\ \A y \in V : Min(V) <= y
    <3>1. V \in SUBSET Nat
      OBVIOUS
    <3> QED
      BY <2>2, <3>1, MinIsLeast
  <2>4. Below(S, Min(V)) = Below(S, t) \cup {t} /\ t \notin Below(S, t)
    <3>1. ASSUME NEW u \in S PROVE u < Min(V) <=> u < t \/ u = t
      <4>1. u \in Nat /\ t \in Nat /\ Min(V) \in Nat /\ t < Min(V) /\ (t < u => Min(V) <= u)
        BY <1>1, <2>3
      <4> HIDE DEF V
      <4> QED
        BY <4>1
    <3>2. t \notin Below(S, t) /\ t \in S
      BY <1>1 DEF Below
    <3> HIDE DEF V
    <3> QED
      BY <3>1, <3>2 DEF Below
  <2>5. IsFiniteSet(Below(S, t))
    <3>1. Below(S, t) \subseteq S
      BY DEF Below
    <3> QED
      BY <3>1, FS_Subset
  <2>6. c(Min(V)) = k + 1
    BY <2>1, <2>4, <2>5, FS_AddElement
  <2> QED
    BY <2>3, <2>6
<1>4. \A k \in Nat : k \in G
  <2> HIDE DEF G
  <2> QED
    BY <1>2, <1>3, SetOfNumbers
<1> QED
  BY <1>4

=============================================================================
