-------------------------- MODULE PostingListProofs --------------------------
(***************************************************************************)
(* Proofs of the safety properties of a posting list, for any postings and *)
(* any sizes: that skipping blocks finds what a scan would, and that       *)
(* blocks and their bounds belong to the postings they are used for; of    *)
(* the two codes that lists are written in, for any values; and of the     *)
(* files of a chunk, for any documents: what is written is read back.      *)
(***************************************************************************)
EXTENDS PostingList, UnaryCode, LocalIndex, NumberFacts

-----------------------------------------------------------------------------
(* The bits of a list of values.                                           *)

\* Where a value starts is where the one before ends.
LEMMA Starts ==
    ASSUME NEW values \in Seq(Nat \ {0})
    PROVE  /\ StartOf(values, 1) = 0
           /\ \A i \in 1..(Len(values) + 1) : StartOf(values, i) \in Nat
           /\ \A i \in 1..Len(values) :
                 /\ StartOf(values, i + 1) = StartOf(values, i) + values[i]
                 /\ EndOf(values, i) \in Nat /\ EndOf(values, i) + 1 = StartOf(values, i + 1)
                 /\ StartOf(values, i) <= EndOf(values, i)
<1>1. Len(values) \in Nat /\ \A i \in 1..Len(values) : values[i] \in Nat /\ values[i] > 0
  OBVIOUS
<1>2. StartOf(values, 1) = 0
  <2>1. 1..(1 - 1) = {}
    OBVIOUS
  <2> QED
    BY <2>1, SumEmpty DEF StartOf
<1>3. ASSUME NEW i \in 1..(Len(values) + 1) PROVE StartOf(values, i) \in Nat
  <2>1. IsFiniteSet(1..(i - 1))
    BY FS_Interval
  <2>2. \A j \in 1..(i - 1) : values[j] \in Nat
    BY <1>1
  <2> QED
    BY <2>1, <2>2, SumType DEF StartOf
<1>4. ASSUME NEW i \in 1..Len(values)
      PROVE  StartOf(values, i + 1) = StartOf(values, i) + values[i]
  <2> DEFINE S == 1..(i - 1)
  <2>1. IsFiniteSet(S) /\ i \notin S /\ S \cup {i} = 1..((i + 1) - 1)
    <3>1. 1 \in Int /\ i - 1 \in Int /\ i \notin S /\ S \cup {i} = 1..((i + 1) - 1)
      BY <1>1
    <3> QED
      BY <3>1, FS_Interval
  <2>2. \A j \in S \cup {i} : values[j] \in Nat
    BY <1>1
  <2> HIDE DEF S
  <2>3. SumFunctionOnSet(values, S \cup {i}) = values[i] + SumFunctionOnSet(values, S)
    BY <2>1, <2>2, SumAdd
  <2>4. StartOf(values, i) = SumFunctionOnSet(values, S) /\ StartOf(values, i) \in Nat
    BY <1>1, <1>3 DEF StartOf, S
  <2>5. StartOf(values, i + 1) = SumFunctionOnSet(values, S \cup {i})
    BY <2>1 DEF StartOf
  <2> QED
    BY <1>1, <2>3, <2>4, <2>5
<1>5. ASSUME NEW i \in 1..Len(values)
      PROVE  /\ EndOf(values, i) \in Nat /\ EndOf(values, i) + 1 = StartOf(values, i + 1)
             /\ StartOf(values, i) <= EndOf(values, i)
  <2>1. i \in 1..(Len(values) + 1) /\ values[i] \in Nat /\ values[i] > 0
    BY <1>1
  <2>2. StartOf(values, i) \in Nat /\ StartOf(values, i + 1) = StartOf(values, i) + values[i]
    BY <1>3, <1>4, <2>1
  <2> QED
    BY <2>1, <2>2 DEF EndOf
<1> QED
  BY <1>2, <1>3, <1>4, <1>5

\* Values end before the next ones start.
LEMMA Ordered ==
    ASSUME NEW values \in Seq(Nat \ {0}), NEW i \in 1..Len(values),
           NEW j \in 1..(Len(values) + 1), i < j
    PROVE  EndOf(values, i) < StartOf(values, j)
<1>1. /\ i + 1 \in 1..(Len(values) + 1) /\ IsFiniteSet(1..(j - 1))
      /\ Len(values) \in Nat
  <2>1. Len(values) \in Nat /\ 1 \in Int /\ j - 1 \in Int /\ i + 1 \in 1..(Len(values) + 1)
    OBVIOUS
  <2> QED
    BY <2>1, FS_Interval
<1>2. StartOf(values, i + 1) <= StartOf(values, j)
  <2>1. 1..((i + 1) - 1) \in SUBSET (1..(j - 1))
    BY <1>1
  <2>2. \A k \in 1..(j - 1) : values[k] \in Nat
    BY <1>1
  <2> QED
    BY <1>1, <2>1, <2>2, SumOfSubset DEF StartOf
<1>3. /\ EndOf(values, i) \in Nat /\ EndOf(values, i) + 1 = StartOf(values, i + 1)
      /\ StartOf(values, i + 1) \in Nat /\ StartOf(values, j) \in Nat
  BY <1>1, Starts
<1> QED
  BY <1>2, <1>3

\* The bits of a value are ones, but for the last.
LEMMA BitsOfValue ==
    ASSUME NEW values \in Seq(Nat \ {0}), NEW i \in 1..Len(values),
           NEW b \in StartOf(values, i)..EndOf(values, i)
    PROVE  BitAt(values, b) = IF b = EndOf(values, i) THEN 0 ELSE 1
<1> DEFINE n == Len(values)
<1>1. n \in Nat /\ n \in 1..n /\ n \in 1..(n + 1) /\ i \in 1..(n + 1) /\ DOMAIN values = 1..n
  OBVIOUS
<1>5. i = n \/ i < n
  OBVIOUS
<1>2. /\ StartOf(values, i) \in Nat /\ EndOf(values, i) \in Nat /\ b \in Nat
      /\ StartOf(values, i) <= b /\ b <= EndOf(values, i)
  BY <1>1, Starts
<1>3. CASE b = EndOf(values, i)
  BY <1>1, <1>3 DEF BitAt
<1>4. CASE b # EndOf(values, i)
  <2>1. ~(b > EndOf(values, n))
    <3>1. CASE i = n
      BY <1>2, <3>1
    <3>2. CASE i < n
      <4>1. EndOf(values, i) < StartOf(values, n)
        BY <1>1, <3>2, Ordered
      <4>2. /\ StartOf(values, n) \in Nat /\ EndOf(values, n) \in Nat
            /\ StartOf(values, n) <= EndOf(values, n)
        BY <1>1, Starts
      <4> QED
        BY <1>2, <4>1, <4>2
    <3> QED
      BY <1>5, <3>1, <3>2
  <2>2. ASSUME NEW j \in 1..n, b = EndOf(values, j) PROVE FALSE
    <3>0. j \in 1..(n + 1)
      BY <1>1
    <3>1. j \in 1..(n + 1) /\ EndOf(values, j) \in Nat /\ StartOf(values, j) \in Nat
          /\ StartOf(values, j) <= EndOf(values, j)
      BY <3>0, Starts
    <3>2. CASE j < i
      <4>1. EndOf(values, j) < StartOf(values, i)
        BY <1>1, <3>2, Ordered
      <4> QED
        BY <1>2, <2>2, <4>1
    <3>3. CASE i < j
      <4>1. EndOf(values, i) < StartOf(values, j)
        BY <1>1, <3>1, <3>3, Ordered
      <4> QED
        BY <1>2, <2>2, <3>1, <4>1
    <3> QED
      BY <1>1, <1>4, <2>2, <3>2, <3>3
  <2> QED
    BY <1>1, <1>4, <2>1, <2>2 DEF BitAt
<1> QED
  BY <1>3, <1>4

\* A file of zeros and ones.
IsFile(f) == f \in Seq({0, 1})

\* The decoder stops somewhere.
LEMMA ZeroIsFound ==
    ASSUME NEW f, IsFile(f), NEW bit \in Nat
    PROVE  /\ ZeroFrom(f, bit) \in Nat /\ bit <= ZeroFrom(f, bit)
           /\ ZeroFrom(f, bit) < Len(f) => f[ZeroFrom(f, bit) + 1] = 0
           /\ \A b \in bit..(ZeroFrom(f, bit) - 1) : b < Len(f) /\ f[b + 1] = 1
<1> DEFINE n == Len(f)
           Z == {z \in bit..(n + bit) : z < n => f[z + 1] = 0}
           Stops(z) == /\ z < n => f[z + 1] = 0
                       /\ \A b \in bit..(z - 1) : b < n /\ f[b + 1] = 1
<1>1. n \in Nat /\ \A b \in Nat : b < n => f[b + 1] \in {0, 1}
  BY DEF IsFile
<1>2. Z \subseteq Nat /\ Z # {}
  <2>1. n + bit \in Z
    BY <1>1
  <2> QED
    BY <1>1, <2>1
<1> DEFINE z0 == Min(Z)
<1>3. z0 \in Z /\ \A y \in Z : z0 <= y
  BY <1>2, MinIsLeast
<1>4. Stops(z0) /\ z0 \in bit..(n + bit)
  <2>1. z0 \in bit..(n + bit) /\ (z0 < n => f[z0 + 1] = 0)
    BY <1>3
  <2>2. ASSUME NEW b \in bit..(z0 - 1) PROVE b < n /\ f[b + 1] = 1
    <3>1. b \in bit..(n + bit) /\ b \in Nat /\ ~(z0 <= b)
      BY <1>1, <2>1
    <3>2. b \notin Z
      BY <1>3, <3>1
    <3>3. b < n /\ f[b + 1] # 0
      BY <1>1, <3>1, <3>2
    <3> QED
      BY <1>1, <3>1, <3>3
  <2> QED
    BY <2>1, <2>2
<1>5. ZeroFrom(f, bit) = CHOOSE z \in bit..(n + bit) : Stops(z)
  BY DEF ZeroFrom
<1> HIDE DEF Stops, z0, Z
<1>6. ZeroFrom(f, bit) \in bit..(n + bit) /\ Stops(ZeroFrom(f, bit))
  BY <1>4, <1>5
<1> QED
  BY <1>1, <1>6 DEF Stops

\* There is one place to stop.
LEMMA ZeroIsThere ==
    ASSUME NEW f, IsFile(f), NEW bit \in Nat, NEW z \in Nat, bit <= z, z < Len(f),
           f[z + 1] = 0, \A b \in bit..(z - 1) : f[b + 1] = 1
    PROVE  ZeroFrom(f, bit) = z
<1> DEFINE y == ZeroFrom(f, bit)
<1>1. /\ y \in Nat /\ bit <= y /\ (y < Len(f) => f[y + 1] = 0)
      /\ \A b \in bit..(y - 1) : b < Len(f) /\ f[b + 1] = 1
  BY ZeroIsFound
<1>2. Len(f) \in Nat
  BY DEF IsFile
<1> HIDE DEF y
<1>3. ~(y < z)
  <2> SUFFICES ASSUME y < z PROVE FALSE
    OBVIOUS
  <2>1. y \in bit..(z - 1) /\ y < Len(f)
    BY <1>1, <1>2
  <2> QED
    BY <1>1, <2>1
<1>4. ~(z < y)
  <2> SUFFICES ASSUME z < y PROVE FALSE
    OBVIOUS
  <2>1. z \in bit..(y - 1)
    BY <1>1
  <2> QED
    BY <1>1, <2>1
<1>5. y = z
  BY <1>1, <1>3, <1>4
<1> QED
  BY <1>5 DEF y

\* The file has the bits of the values up to the byte where the last one starts.
LEMMA FileBits ==
    ASSUME NEW values \in Seq(Nat \ {0}), values # <<>>, NEW fill \in {0, 1}, NEW f,
           f = FileOf(values, [k \in 1..ByteBits |-> fill])
    PROVE  /\ IsFile(f)
           /\ BytesOf(values) = Byte(StartOf(values, Len(values))) + 1
           /\ \A bit \in 0..StartOf(values, Len(values)) :
                 bit < Len(f) /\ f[bit + 1] = BitAt(values, bit)
           /\ \A bit \in Nat : bit < ByteBits * BytesOf(values) =>
                 bit < Len(f) /\ f[bit + 1] = BitAt(values, bit)
<1> DEFINE n == Len(values)
           s == StartOf(values, n)
           m == ByteBits * BytesOf(values)
           g == [b \in 1..m |-> BitAt(values, b - 1)]
           h == [k \in 1..ByteBits |-> fill]
<1>1. ByteBits \in Nat /\ ByteBits > 0 /\ n \in Nat /\ n >= 1
  BY ByteAssumption
<1>2. s \in Nat
  <2>1. n \in 1..(n + 1)
    BY <1>1
  <2> HIDE DEF n
  <2>2. StartOf(values, n) \in Nat
    BY <2>1, Starts DEF n
  <2> QED
    BY <2>2
<1>3. BytesOf(values) = Byte(s) + 1
  BY DEF BytesOf
<1> HIDE DEF s, n
<1>4. Byte(s) \in Nat /\ m \in Nat /\ s < m
  <2>1. /\ s \div ByteBits \in Nat /\ s % ByteBits \in Nat /\ s % ByteBits < ByteBits
        /\ s = ByteBits * (s \div ByteBits) + (s % ByteBits)
    BY <1>1, <1>2, Division
  <2>2. \A q, r \in Nat : r < ByteBits /\ s = ByteBits * q + r =>
           ByteBits * (q + 1) \in Nat /\ s < ByteBits * (q + 1)
    <3> TAKE q, r \in Nat
    <3> HAVE r < ByteBits /\ s = ByteBits * q + r
    <3>1. ByteBits * (q + 1) = ByteBits * q + ByteBits /\ ByteBits * q \in Nat
      BY <1>1
    <3> QED
      BY <1>1, <3>1
  <2>3. ByteBits * (s \div ByteBits + 1) \in Nat /\ s < ByteBits * (s \div ByteBits + 1)
    BY <2>1, <2>2
  <2> QED
    BY <1>3, <2>1, <2>3 DEF Byte
<1> HIDE DEF m
<1>5. g \in Seq({0, 1}) /\ Len(g) = m /\ \A b \in 1..m : g[b] = BitAt(values, b - 1)
  <2>1. \A b \in 1..m : BitAt(values, b - 1) \in {0, 1}
    BY DEF BitAt
  <2> QED
    BY <1>4, <2>1
<1>6. h \in Seq({0, 1}) /\ Len(h) = ByteBits
  BY <1>1
<1>7. f = g \o h
  BY DEF FileOf, m
<1> HIDE DEF g, h
<1>8. IsFile(f) /\ Len(f) = m + ByteBits /\ \A b \in 1..m : f[b] = g[b]
  <2>1. \A u, w \in Seq({0, 1}) :
           /\ u \o w \in Seq({0, 1}) /\ Len(u \o w) = Len(u) + Len(w)
           /\ \A b \in 1..Len(u) : (u \o w)[b] = u[b]
    OBVIOUS
  <2>2. /\ g \o h \in Seq({0, 1}) /\ Len(g \o h) = Len(g) + Len(h)
        /\ \A b \in 1..Len(g) : (g \o h)[b] = g[b]
    BY ONLY <1>5, <1>6, <2>1
  <2>3. Len(g) = m /\ Len(h) = ByteBits
    BY <1>5, <1>6
  <2> QED
    BY ONLY <1>7, <2>2, <2>3 DEF IsFile
<1>9. ASSUME NEW bit \in Nat, bit < m PROVE bit < Len(f) /\ f[bit + 1] = BitAt(values, bit)
  <2>1. bit + 1 \in 1..m /\ (bit + 1) - 1 = bit
    BY <1>4, <1>9
  <2>2. bit < Len(f)
    BY <1>1, <1>4, <1>8, <1>9
  <2> QED
    BY <1>5, <1>8, <2>1, <2>2
<1>10. \A bit \in 0..s : bit \in Nat /\ bit < m
  BY <1>2, <1>4
<1>11. \A bit \in 0..s : bit < Len(f) /\ f[bit + 1] = BitAt(values, bit)
  BY <1>9, <1>10
<1> QED
  BY <1>3, <1>8, <1>9, <1>11 DEF s, n, m

\* Every value but the last ends with the first zero after its start, and the decoder goes
\* on from there.
LEMMA ValueEnds ==
    ASSUME NEW values \in Seq(Nat \ {0}), NEW fill \in {0, 1}, NEW f,
           f = FileOf(values, [k \in 1..ByteBits |-> fill]),
           NEW i \in 1..Len(values), i # Len(values)
    PROVE  /\ ZeroFrom(f, StartOf(values, i)) = EndOf(values, i)
           /\ EndOf(values, i) + 1 = StartOf(values, i + 1)
           /\ Byte(EndOf(values, i) + 1) # BytesOf(values)
<1> DEFINE n == Len(values)
           s == StartOf(values, i)
           e == EndOf(values, i)
<1>1. n \in Nat /\ n \in 1..n /\ i < n /\ values # <<>> /\ n \in 1..(n + 1)
      /\ i \in 1..(n + 1) /\ i + 1 \in 1..(n + 1)
  OBVIOUS
<1>2. /\ s \in Nat /\ e \in Nat /\ s <= e /\ e + 1 = StartOf(values, i + 1)
      /\ EndOf(values, n) \in Nat /\ StartOf(values, n) \in Nat
      /\ StartOf(values, n) <= EndOf(values, n)
  BY <1>1, Starts
<1>3. e < StartOf(values, n)
  BY <1>1, Ordered
<1>4. /\ IsFile(f) /\ BytesOf(values) = Byte(StartOf(values, n)) + 1
      /\ \A bit \in 0..StartOf(values, n) : bit < Len(f) /\ f[bit + 1] = BitAt(values, bit)
  BY <1>1, FileBits
<1>5. f[e + 1] = 0 /\ e < Len(f)
  <2>1. e \in 0..StartOf(values, n)
    BY <1>2, <1>3
  <2>2. BitAt(values, e) = 0
    BY DEF BitAt
  <2> HIDE DEF e
  <2> QED
    BY <1>4, <2>1, <2>2
<1>6. ASSUME NEW b \in s..(e - 1) PROVE f[b + 1] = 1
  <2>1. b \in 0..StartOf(values, n) /\ b < e /\ b \in Nat
    BY <1>2, <1>3
  <2>2. BitAt(values, b) = 1
    <3>1. b \in s..e /\ b # e
      BY <1>2, <2>1
    <3> QED
      BY <3>1, BitsOfValue
  <2> QED
    BY <1>4, <2>1, <2>2
<1>7. ZeroFrom(f, s) = e
  <2> HIDE DEF s, e
  <2> QED
    BY <1>2, <1>4, <1>5, <1>6, ZeroIsThere
<1>8. Byte(e + 1) # BytesOf(values)
  <2> DEFINE t == StartOf(values, n)
  <2>1. e + 1 <= t /\ e + 1 \in Nat /\ t \in Nat
    BY <1>2, <1>3
  <2> HIDE DEF t, e
  <2>2. ByteBits \in Nat /\ ByteBits > 0
    BY ByteAssumption
  <2>3. \A x \in Nat : /\ x \div ByteBits \in Nat /\ x % ByteBits \in Nat
                       /\ x % ByteBits < ByteBits
                       /\ x = ByteBits * (x \div ByteBits) + (x % ByteBits)
    BY <2>2, Division
  <2> DEFINE q == t \div ByteBits
             p == (e + 1) \div ByteBits
  <2>4. SUFFICES ASSUME p = q + 1 PROVE FALSE
    BY <1>4 DEF Byte, t
  <2>5. /\ q \in Nat /\ p \in Nat /\ ByteBits * p <= e + 1 /\ t < ByteBits * q + ByteBits
        /\ ByteBits * q \in Nat /\ ByteBits * p \in Nat
    <3>1. /\ q \in Nat /\ t % ByteBits \in Nat /\ t % ByteBits < ByteBits
          /\ t = ByteBits * q + (t % ByteBits)
      BY <2>1, <2>3
    <3>2. /\ p \in Nat /\ (e + 1) % ByteBits \in Nat
          /\ e + 1 = ByteBits * p + ((e + 1) % ByteBits)
      BY <2>1, <2>3
    <3> DEFINE u == t % ByteBits
               v == (e + 1) % ByteBits
    <3> HIDE DEF q, p, u, v
    <3>3. ByteBits * q \in Nat /\ ByteBits * p \in Nat
      BY <2>2, <3>1, <3>2
    <3>4. u \in Nat /\ u < ByteBits /\ t = ByteBits * q + u /\ v \in Nat /\ e + 1 = ByteBits * p + v
      BY <3>1, <3>2 DEF u, v
    <3> QED
      BY <2>1, <2>2, <3>1, <3>2, <3>3, <3>4
  <2> HIDE DEF q, p
  <2>6. ByteBits * p = ByteBits * q + ByteBits
    BY <2>2, <2>4, <2>5
  <2>7. \A bp, bq, x, u, b \in Nat : bp <= x /\ x <= u /\ u < bq + b /\ bp = bq + b => FALSE
    OBVIOUS
  <2>8. ByteBits * p \in Nat /\ ByteBits * q \in Nat /\ e + 1 \in Nat /\ t \in Nat
    BY <2>1, <2>5
  <2> QED
    BY ONLY <2>1, <2>2, <2>5, <2>6, <2>7, <2>8
<1> QED
  BY <1>2, <1>7, <1>8

-----------------------------------------------------------------------------
(* The inductive invariant.                                                *)

Fields == {"position", "freq", "current", "block"}

Calling == pc \in {"nextG", "nextGEQ"}

NBlocks == Len(skip_pointers)

\* How many postings k full blocks hold, and the last posting of the k-th block.
UpTo(k) == k * SKIP_BLOCK_SIZE
LastOf(k) == IF UpTo(k) <= NPostings THEN UpTo(k) ELSE NPostings

Freq == [bit : Nat, start : Nat, datum : Nat]
FreqOff == [byte : Int, bit : Int]

Types ==
    /\ freqs \in Seq(Nat \ {0}) /\ freqs # <<>> /\ docid_after \in Nat
    /\ \E b \in {0, 1} : file = FileOf(freqs, [k \in 1..ByteBits |-> b])
    /\ DOMAIN it = Fields /\ it.position \in 1..EndPosition /\ it.block \in Nat \ {0}
    /\ skip_pointers \in Seq([last_docid : Nat, ub : Nat, docid_offset : Nat,
                              freq_offset : FreqOff])
    /\ block_ub \in Nat /\ sigma \in Nat
    /\ pc \in {"score", "ready", "nextG", "nextGEQ"}
    /\ target \in Nat /\ from \in 1..EndPosition

\* A pointer is to the first posting of its block, or to the end; its docid is that of the
\* last one, and its bound exceeds their scores but for less than a step.
Describes(p, k) ==
    /\ p.docid_offset = UpTo(k - 1) + 1
    /\ p.docid_offset <= EndPosition
    /\ p.last_docid = Docid(LastOf(k))
    /\ \A i \in p.docid_offset..LastOf(k) : ReadFreq(i) < p.ub + Precision

Pointers == \A k \in 1..NBlocks : Describes(skip_pointers[k], k)

\* While the list is scored, each posting is read with its frequency, the blocks before it
\* have their pointers, and the bounds are those of what has been scored.
Scoring ==
    pc = "score" =>
       /\ UpTo(NBlocks) < it.position /\ it.position <= UpTo(NBlocks) + SKIP_BLOCK_SIZE
       /\ block_off.docid_off = UpTo(NBlocks) + 1
       /\ block_off.freq_off \in FreqOff
       /\ it.freq \in Freq
       /\ ~AtEnd(it) => /\ it.freq = Parsed(StartOf(freqs, it.position))
                        /\ it.current = <<Docid(it.position), ReadFreq(it.position)>>
       /\ AtEnd(it) => it.current[1] = Docid(NPostings)
       /\ \A i \in 1..(it.position - 1) : ReadFreq(i) <= sigma
       /\ \A i \in (UpTo(NBlocks) + 1)..(it.position - 1) : ReadFreq(i) <= block_ub

\* Then each posting has a pointer, but for those of a block that lacks one posting.
Scored ==
    pc # "score" => \A i \in 1..NPostings :
       /\ ReadFreq(i) < sigma + Precision
       /\ IF LastBlockLeftOut(i) THEN BlockOf(i) = NBlocks + 1 ELSE BlockOf(i) <= NBlocks

\* The iterator is at the posting of its position, and its block is that posting's, unless
\* a call has left the last pointer behind.  At the end it is not before the last block.
InBlock ==
    pc # "score" =>
       /\ ~AtEnd(it) =>
            /\ it.current[1] = Docid(it.position)
            /\ \/ it.block = BlockOf(it.position)
               \/ /\ Calling /\ it.block = NBlocks + 1 /\ NBlocks > 0
                  /\ skip_pointers[NBlocks].last_docid < target
       /\ AtEnd(it) => BlockOf(NPostings) <= it.block

\* What a call has passed over it does not look for.
IsBeforeTarget(docid) == IF pc = "nextG" THEN docid <= target ELSE docid < target

Passed ==
    Calling => /\ from <= it.position
               /\ \A i \in from..(it.position - 1) : IsBeforeTarget(Docid(i))

IInv == Types /\ Pointers /\ Scoring /\ Scored /\ InBlock /\ Passed

-----------------------------------------------------------------------------
(* Blocks, and numbers.                                                    *)

LEMMA MaxOfTwo ==
    ASSUME NEW x \in Nat, NEW y \in Nat
    PROVE  Max({x, y}) \in Nat /\ x <= Max({x, y}) /\ y <= Max({x, y})
BY DEF Max

LEMMA MinIs ==
    ASSUME NEW S \in SUBSET Nat, NEW m \in S, \A y \in S : m <= y
    PROVE  Min(S) = m
<1>1. Min(S) \in S /\ Min(S) <= m /\ m <= Min(S) /\ Min(S) \in Nat /\ m \in Nat
  BY MinIsLeast
<1> QED
  BY <1>1

\* A score in the file is less than a step below what it was.
LEMMA FixedPoints ==
    ASSUME NEW score \in Nat
    PROVE  FixedPoint(score) \in Nat /\ score < FixedPoint(score) + Precision
<1>1. Precision \in Nat /\ Precision > 0
  BY PostingAssumption
<1>2. /\ score \div Precision \in Nat /\ score % Precision \in Nat
      /\ score % Precision < Precision
      /\ score = Precision * (score \div Precision) + (score % Precision)
  BY <1>1, Division
<1>3. \A q \in Nat : Precision * q = q * Precision /\ Precision * q \in Nat
  BY <1>1
<1>4. /\ FixedPoint(score) = Precision * (score \div Precision)
      /\ Precision * (score \div Precision) \in Nat
  BY <1>2, <1>3 DEF FixedPoint
<1> QED
  BY <1>1, <1>2, <1>4

LEMMA Blocks ==
    /\ SKIP_BLOCK_SIZE \in Nat /\ SKIP_BLOCK_SIZE > 0
    /\ UpTo(0) = 0
    /\ \A k \in Nat : UpTo(k) \in Nat /\ UpTo(k + 1) = UpTo(k) + SKIP_BLOCK_SIZE
    /\ \A k, l \in Nat : k < l => UpTo(k) + SKIP_BLOCK_SIZE <= UpTo(l)
<1>1. SKIP_BLOCK_SIZE \in Nat /\ SKIP_BLOCK_SIZE > 0
  BY PostingAssumption
<1>2. UpTo(0) = 0
  BY <1>1 DEF UpTo
<1>3. ASSUME NEW k \in Nat PROVE UpTo(k) \in Nat /\ UpTo(k + 1) = UpTo(k) + SKIP_BLOCK_SIZE
  BY <1>1 DEF UpTo
<1>4. ASSUME NEW k \in Nat, NEW l \in Nat, k < l PROVE UpTo(k) + SKIP_BLOCK_SIZE <= UpTo(l)
  <2>1. SKIP_BLOCK_SIZE * k + SKIP_BLOCK_SIZE <= SKIP_BLOCK_SIZE * l
    BY <1>1, <1>4, Products
  <2>2. UpTo(k) = SKIP_BLOCK_SIZE * k /\ UpTo(l) = SKIP_BLOCK_SIZE * l
    BY <1>1 DEF UpTo
  <2> QED
    BY <2>1, <2>2
<1> QED
  BY <1>1, <1>2, <1>3, <1>4

\* The block of a posting is the one that holds it.
LEMMA BlockHolds ==
    ASSUME NEW i \in Nat, i > 0
    PROVE  /\ BlockOf(i) \in Nat /\ BlockOf(i) > 0
           /\ UpTo(BlockOf(i) - 1) < i /\ i <= UpTo(BlockOf(i))
           /\ UpTo(BlockOf(i)) = UpTo(BlockOf(i) - 1) + SKIP_BLOCK_SIZE
<1> DEFINE q == (i - 1) \div SKIP_BLOCK_SIZE
           r == (i - 1) % SKIP_BLOCK_SIZE
<1>1. SKIP_BLOCK_SIZE \in Nat /\ SKIP_BLOCK_SIZE > 0 /\ i - 1 \in Nat
  BY Blocks
<1>2. q \in Nat /\ r \in Nat /\ r < SKIP_BLOCK_SIZE /\ i - 1 = SKIP_BLOCK_SIZE * q + r
  BY <1>1, Division
<1>3. BlockOf(i) = q + 1
  BY DEF BlockOf
<1> HIDE DEF q, r
<1>4. UpTo(q) = SKIP_BLOCK_SIZE * q /\ UpTo(q) \in Nat /\ UpTo(q + 1) = UpTo(q) + SKIP_BLOCK_SIZE
  BY <1>1, <1>2, Blocks DEF UpTo
<1>5. BlockOf(i) \in Nat /\ BlockOf(i) > 0 /\ BlockOf(i) - 1 = q
  BY <1>2, <1>3
<1> QED
  BY <1>1, <1>2, <1>3, <1>4, <1>5

\* No other block does, and a posting is not in a block before that of an earlier one.
LEMMA BlockIs ==
    ASSUME NEW i \in Nat, NEW k \in Nat, k > 0, UpTo(k - 1) < i, i <= UpTo(k)
    PROVE  BlockOf(i) = k
<1>1. k - 1 \in Nat /\ UpTo(k - 1) \in Nat /\ UpTo(k) \in Nat /\ i > 0
  BY Blocks
<1> DEFINE b == BlockOf(i)
<1>2. /\ b \in Nat /\ b > 0 /\ b - 1 \in Nat /\ UpTo(b - 1) < i /\ i <= UpTo(b)
      /\ UpTo(b) \in Nat /\ UpTo(b - 1) \in Nat
  <2>1. b \in Nat /\ b > 0 /\ UpTo(b - 1) < i /\ i <= UpTo(b)
    BY <1>1, BlockHolds
  <2> HIDE DEF b
  <2>2. b - 1 \in Nat
    BY <2>1
  <2> QED
    BY <2>1, <2>2, Blocks
<1> HIDE DEF b
<1>3. ~(b < k)
  <2> SUFFICES ASSUME b < k PROVE FALSE
    OBVIOUS
  <2>1. b = k - 1 \/ b < k - 1
    BY <1>2
  <2>2. UpTo(b) <= UpTo(k - 1)
    <3>1. \A x, y \in Nat : x < y => UpTo(x) <= UpTo(y)
      BY Blocks
    <3> QED
      BY <1>1, <1>2, <2>1, <3>1
  <2> QED
    BY <1>1, <1>2, <2>2
<1>4. ~(k < b)
  <2> SUFFICES ASSUME k < b PROVE FALSE
    OBVIOUS
  <2>1. k = b - 1 \/ k < b - 1
    BY <1>2
  <2>2. UpTo(k) <= UpTo(b - 1)
    <3>1. \A x, y \in Nat : x < y => UpTo(x) <= UpTo(y)
      BY Blocks
    <3> QED
      BY <1>1, <1>2, <2>1, <3>1
  <2> QED
    BY <1>1, <1>2, <2>2
<1> QED
  BY <1>2, <1>3, <1>4 DEF b

LEMMA BlocksAscend ==
    ASSUME NEW i \in Nat, i > 0, NEW j \in Nat, i <= j
    PROVE  BlockOf(i) <= BlockOf(j)
<1>1. /\ BlockOf(i) \in Nat /\ BlockOf(i) > 0 /\ UpTo(BlockOf(i) - 1) < i
      /\ BlockOf(j) \in Nat /\ j <= UpTo(BlockOf(j))
  BY BlockHolds
<1>2. SUFFICES ASSUME BlockOf(j) < BlockOf(i) PROVE FALSE
  BY <1>1
<1>3. BlockOf(j) = BlockOf(i) - 1 \/ BlockOf(j) < BlockOf(i) - 1
  BY <1>1, <1>2
<1>4. UpTo(BlockOf(j)) <= UpTo(BlockOf(i) - 1)
  <2>1. \A x, y \in Nat : x < y => UpTo(x) <= UpTo(y)
    BY Blocks
  <2>2. \A x \in Nat : UpTo(x) \in Nat
    BY Blocks
  <2> QED
    BY <1>1, <1>3, <2>1, <2>2
<1>5. UpTo(BlockOf(j)) \in Nat /\ UpTo(BlockOf(i) - 1) \in Nat
  BY <1>1, Blocks
<1> QED
  BY <1>1, <1>4, <1>5

\* The loop counter of the builder says when a block ends.
LEMMA EndsBlock ==
    ASSUME NEW k \in Nat, NEW i \in Nat, UpTo(k) < i, i <= UpTo(k) + SKIP_BLOCK_SIZE
    PROVE  i % SKIP_BLOCK_SIZE = 0 <=> i = UpTo(k) + SKIP_BLOCK_SIZE
<1>1. /\ SKIP_BLOCK_SIZE \in Nat /\ SKIP_BLOCK_SIZE > 0 /\ UpTo(k) \in Nat
      /\ UpTo(k) = SKIP_BLOCK_SIZE * k /\ UpTo(k + 1) = SKIP_BLOCK_SIZE * (k + 1)
      /\ UpTo(k + 1) = UpTo(k) + SKIP_BLOCK_SIZE
  BY Blocks DEF UpTo
<1>2. CASE i = UpTo(k) + SKIP_BLOCK_SIZE
  <2>1. i = SKIP_BLOCK_SIZE * (k + 1) + 0
    BY <1>1, <1>2
  <2>2. (SKIP_BLOCK_SIZE * (k + 1) + 0) % SKIP_BLOCK_SIZE = 0
    BY <1>1, Quotient
  <2> QED
    BY <1>2, <2>1, <2>2
<1>3. CASE i # UpTo(k) + SKIP_BLOCK_SIZE
  <2> DEFINE r == i - UpTo(k)
  <2>1. r \in Nat /\ r > 0 /\ r < SKIP_BLOCK_SIZE /\ i = SKIP_BLOCK_SIZE * k + r
    BY <1>1, <1>3
  <2> HIDE DEF r
  <2>2. (SKIP_BLOCK_SIZE * k + r) % SKIP_BLOCK_SIZE = r
    BY <1>1, <2>1, Quotient
  <2> QED
    BY <1>3, <2>1, <2>2
<1> QED
  BY <1>2, <1>3

-----------------------------------------------------------------------------
(* What is read from the file.                                             *)

LEMMA SizeType ==
    ASSUME Types
    PROVE  NPostings \in Nat /\ NPostings > 0 /\ EndPosition = NPostings + 1
BY DEF Types, NPostings, EndPosition

LEMMA ParsedType ==
    ASSUME Types, NEW bit \in Nat
    PROVE  Parsed(bit) \in Freq
<1>1. PICK fill \in {0, 1} : file = FileOf(freqs, [k \in 1..ByteBits |-> fill])
  BY DEF Types
<1>2. IsFile(file)
  BY <1>1, FileBits DEF Types
<1>3. ZeroFrom(file, bit) \in Nat /\ bit <= ZeroFrom(file, bit)
  BY <1>2, ZeroIsFound
<1>4. bit % ByteBits \in Nat
  BY ByteAssumption, Division
<1>5. ZeroFrom(file, bit) - bit + 1 \in Nat
  BY <1>3
<1> QED
  BY <1>3, <1>4, <1>5 DEF Parsed, Freq

LEMMA NextFreqType ==
    ASSUME Types, NEW f \in Freq
    PROVE  NextFreq(f) \in Freq
<1>1. f.bit + 1 \in Nat /\ [f EXCEPT !.bit = @ + 1] \in Freq
  BY DEF Freq
<1>2. Parsed(f.bit + 1) \in Freq
  BY <1>1, ParsedType
<1> QED
  BY <1>1, <1>2 DEF NextFreq

LEMMA ReadType ==
    ASSUME Types, NEW i \in 1..NPostings
    PROVE  StartOf(freqs, i) \in Nat /\ Parsed(StartOf(freqs, i)) \in Freq /\ ReadFreq(i) \in Nat
<1>1. StartOf(freqs, i) \in Nat
  <2>1. freqs \in Seq(Nat \ {0}) /\ i \in 1..(Len(freqs) + 1)
    BY SizeType DEF Types, NPostings
  <2> QED
    BY <2>1, Starts
<1>2. Parsed(StartOf(freqs, i)) \in Freq
  BY <1>1, ParsedType
<1> QED
  BY <1>1, <1>2 DEF ReadFreq, Freq

\* The frequency after that of a posting is that of the next one.
LEMMA NextPosting ==
    ASSUME Types, NEW i \in 1..NPostings, i # NPostings
    PROVE  NextFreq(Parsed(StartOf(freqs, i))) = Parsed(StartOf(freqs, i + 1))
<1>1. PICK fill \in {0, 1} : file = FileOf(freqs, [k \in 1..ByteBits |-> fill])
  BY DEF Types
<1>2. freqs \in Seq(Nat \ {0}) /\ i \in 1..Len(freqs) /\ i # Len(freqs)
  BY DEF Types, NPostings
<1>3. /\ ZeroFrom(file, StartOf(freqs, i)) = EndOf(freqs, i)
      /\ EndOf(freqs, i) + 1 = StartOf(freqs, i + 1)
      /\ Byte(EndOf(freqs, i) + 1) # BytesOf(freqs)
  BY <1>1, <1>2, ValueEnds
<1>4. Parsed(StartOf(freqs, i)).bit = EndOf(freqs, i)
  BY <1>3 DEF Parsed
<1> QED
  BY <1>3, <1>4 DEF NextFreq

\* An increment, before the end.
LEMMA IncrementedIs ==
    ASSUME Types, ~AtEnd(it)
    PROVE  /\ it.position \in 1..NPostings
           /\ DOMAIN Incremented(it) = Fields
           /\ Incremented(it).position = it.position + 1
           /\ Incremented(it).freq = NextFreq(it.freq)
           /\ Incremented(it).block = it.block
           /\ it.position = NPostings => Incremented(it).current = it.current
           /\ it.position # NPostings =>
                Incremented(it).current = <<Docid(it.position + 1), NextFreq(it.freq).datum>>
<1>1. /\ it.position \in 1..NPostings /\ NPostings \in Nat /\ EndPosition = NPostings + 1
      /\ DOMAIN it = {"position", "freq", "current", "block"}
  <2>1. NPostings \in Nat /\ EndPosition = NPostings + 1
    BY SizeType
  <2>2. /\ it.position \in 1..EndPosition /\ it.position # EndPosition
        /\ DOMAIN it = {"position", "freq", "current", "block"}
    BY DEF Types, AtEnd, Fields
  <2> QED
    BY <2>1, <2>2
<1>2. Min({it.position + 1, EndPosition}) = it.position + 1
  BY <1>1, MinIs
<1>3. it.position # NPostings => DocidAt(it.position + 1) = Docid(it.position + 1)
  BY <1>1 DEF DocidAt
<1> QED
  BY <1>1, <1>2, <1>3 DEF Incremented, Fields

\* The iterator starts at the first posting.
LEMMA BeginIs ==
    ASSUME Types
    PROVE  /\ DOMAIN BeginIterator = Fields
           /\ BeginIterator.position = 1 /\ BeginIterator.block = 1
           /\ BeginIterator.freq = Parsed(StartOf(freqs, 1)) /\ BeginIterator.freq \in Freq
           /\ BeginIterator.current = <<Docid(1), ReadFreq(1)>>
<1>1. StartOf(freqs, 1) = 0
  BY Starts DEF Types
<1>2. DocidAt(1) = Docid(1)
  BY SizeType DEF DocidAt
<1>3. Parsed(0) \in Freq
  BY ParsedType
<1> QED
  BY <1>1, <1>2, <1>3 DEF BeginIterator, Fields, ReadFreq

LEMMA OffsetType ==
    ASSUME Types, NEW i, i.freq \in Freq
    PROVE  Offset(i).docid_off = i.position /\ Offset(i).freq_off \in FreqOff
<1>1. \A f \in Freq : Byte(f.bit) \in Nat /\ f.start \in Int
  BY ByteAssumption, Division DEF Freq, Byte
<1>2. BeginIterator.freq \in Freq
  BY BeginIs
<1>3. Byte(i.freq.bit) - Byte(BeginIterator.freq.bit) \in Int /\ i.freq.start \in Int
  BY <1>1, <1>2
<1> QED
  BY <1>3 DEF Offset, FreqOff

-----------------------------------------------------------------------------
(* The invariant holds at the start and while the list is scored.          *)

LEMMA InitTypes == Init => Types
<1> SUFFICES ASSUME Init PROVE Types
  OBVIOUS
<1>1. freqs \in Seq(Nat \ {0}) /\ freqs # <<>>
  <2>1. PICK n \in 0..MaxPostings : freqs \in [1..n -> 1..MaxFreq]
    BY DEF Init, SeqOf
  <2>2. n \in Nat /\ 1..MaxFreq \subseteq Nat \ {0}
    BY PostingAssumption
  <2>3. freqs \in [1..n -> Nat \ {0}]
    BY <2>1, <2>2
  <2> QED
    BY <2>2, <2>3 DEF Init
<1>2. NPostings \in Nat /\ NPostings > 0 /\ EndPosition = NPostings + 1
  BY <1>1 DEF NPostings, EndPosition
<1>3. DOMAIN it = Fields /\ it.position = 1 /\ it.block = 1
  BY DEF Init, BeginIterator, Fields
<1>4. docid_after \in Nat
  <2>1. docid_after \in {0, 1}
    BY DEF Init
  <2> QED
    BY <2>1
<1>5. \E b \in {0, 1} : file = FileOf(freqs, [k \in 1..ByteBits |-> b])
  BY DEF Init
<1>6. /\ skip_pointers = <<>> /\ block_ub = 0 /\ sigma = 0 /\ pc = "score"
      /\ target = 0 /\ from = 1
  BY DEF Init
<1>7. \A S : <<>> \in Seq(S)
  OBVIOUS
<1>8. /\ it.position \in 1..EndPosition /\ it.block \in Nat \ {0} /\ from \in 1..EndPosition
      /\ 0 \in Nat
  BY <1>2, <1>3, <1>6
<1> QED
  BY <1>1, <1>3, <1>4, <1>5, <1>6, <1>7, <1>8 DEF Types

LEMMA InitIInv == Init => IInv
<1> SUFFICES ASSUME Init PROVE IInv
  OBVIOUS
<1>1. Types
  BY InitTypes
<1>2. NPostings \in Nat /\ NPostings > 0 /\ EndPosition = NPostings + 1 /\ NBlocks = 0
  BY <1>1, SizeType DEF Init, NBlocks
<1>3. Pointers
  BY <1>2 DEF Pointers
<1>4. Scoring
  <2>1. /\ it.position = 1 /\ it.freq = Parsed(StartOf(freqs, 1)) /\ it.freq \in Freq
        /\ it.current = <<Docid(1), ReadFreq(1)>>
    BY <1>1, BeginIs DEF Init
  <2>2. block_off.docid_off = 1 /\ block_off.freq_off \in FreqOff
    BY <1>1, BeginIs, OffsetType DEF Init
  <2>3. UpTo(NBlocks) = 0 /\ SKIP_BLOCK_SIZE \in Nat /\ SKIP_BLOCK_SIZE > 0
    BY <1>2, Blocks
  <2>4. ~AtEnd(it)
    BY <1>2, <2>1 DEF AtEnd
  <2> QED
    BY <2>1, <2>2, <2>3, <2>4 DEF Scoring
<1>5. Scored /\ InBlock /\ Passed
  BY DEF Init, Scored, InBlock, Passed, Calling
<1> QED
  BY <1>1, <1>3, <1>4, <1>5 DEF IInv

\* What depends on the file stays as it is.
LEMMA SameFile ==
    ASSUME UNCHANGED fileVars
    PROVE  /\ NPostings' = NPostings /\ EndPosition' = EndPosition
           /\ \A i : ReadFreq(i)' = ReadFreq(i)
           /\ \A k : LastOf(k)' = LastOf(k)
           /\ \A i : LastBlockLeftOut(i)' = LastBlockLeftOut(i)
BY DEF fileVars, NPostings, EndPosition, ReadFreq, Parsed, LastOf, LastBlockLeftOut

\* The pointer of the block that is being scored, with a bound on its scores.
LEMMA BuiltSkip ==
    ASSUME Types, Pointers, UNCHANGED fileVars, NEW ub \in Nat, NEW last \in Nat,
           BuildSkip(ub), it.freq \in Freq,
           block_off.docid_off = UpTo(NBlocks) + 1, block_off.freq_off \in FreqOff,
           UpTo(NBlocks) <= NPostings, last = LastOf(NBlocks + 1),
           it.current[1] = Docid(last),
           \A i \in (UpTo(NBlocks) + 1)..last : ReadFreq(i) <= ub
    PROVE  /\ skip_pointers' \in Seq([last_docid : Nat, ub : Nat, docid_offset : Nat,
                                      freq_offset : FreqOff])
           /\ NBlocks' = NBlocks + 1 /\ Pointers' /\ block_ub' = 0
<1> DEFINE new == [last_docid |-> it.current[1], ub |-> FixedPoint(ub),
                   docid_offset |-> block_off.docid_off, freq_offset |-> block_off.freq_off]
           P == [last_docid : Nat, ub : Nat, docid_offset : Nat, freq_offset : FreqOff]
<1>1. skip_pointers' = Append(skip_pointers, new) /\ block_ub' = 0
  BY DEF BuildSkip
<1>2. skip_pointers \in Seq(P) /\ NBlocks \in Nat
  BY DEF Types, NBlocks
<1>3. /\ UpTo(NBlocks) \in Nat /\ NPostings \in Nat /\ EndPosition = NPostings + 1
      /\ FixedPoint(ub) \in Nat /\ ub < FixedPoint(ub) + Precision /\ Precision \in Nat
  BY <1>2, Blocks, SizeType, FixedPoints, PostingAssumption
<1>4. Docid(last) \in Nat
  BY DEF Docid
<1>5. new \in P
  BY <1>3, <1>4
<1>6. /\ new.docid_offset = UpTo(NBlocks) + 1 /\ new.last_docid = Docid(last)
      /\ new.ub = FixedPoint(ub)
  OBVIOUS
<1> HIDE DEF new, P
<1>7. /\ skip_pointers' \in Seq(P) /\ NBlocks' = NBlocks + 1
      /\ \A k \in 1..NBlocks : skip_pointers'[k] = skip_pointers[k]
      /\ skip_pointers'[NBlocks + 1] = new
  BY <1>1, <1>2, <1>5 DEF NBlocks
<1>8. Describes(new, NBlocks + 1)
  <2>1. (NBlocks + 1) - 1 = NBlocks /\ new.docid_offset <= EndPosition
    BY <1>2, <1>3, <1>6
  <2>2. ASSUME NEW i \in new.docid_offset..LastOf(NBlocks + 1)
        PROVE  ReadFreq(i) < new.ub + Precision
    <3>1. i \in 1..NPostings /\ i \in (UpTo(NBlocks) + 1)..last
      <4>1. last <= NPostings
        BY <1>3 DEF LastOf
      <4> QED
        BY <1>3, <1>6, <4>1
    <3>2. ReadFreq(i) <= ub /\ ReadFreq(i) \in Nat
      BY <3>1, ReadType
    <3> QED
      BY <1>3, <1>6, <3>2
  <2> QED
    BY <1>6, <2>1, <2>2 DEF Describes
<1>9. Pointers'
  <2>1. ASSUME NEW k \in 1..(NBlocks + 1) PROVE Describes(skip_pointers'[k], k)
    <3>1. CASE k \in 1..NBlocks
      BY <1>7, <3>1 DEF Pointers
    <3>2. CASE k = NBlocks + 1
      BY <1>7, <1>8, <3>2
    <3> QED
      BY <1>2, <3>1, <3>2
  <2>2. \A k \in 1..NBlocks' : Describes(skip_pointers'[k], k)
    BY <1>7, <2>1
  <2> QED
    BY <2>2, SameFile DEF Pointers, Describes
<1> QED
  BY <1>1, <1>7, <1>9 DEF P

LEMMA ScorePostingKeepsIInv == IInv /\ ScorePosting => IInv'
<1> SUFFICES ASSUME IInv, ScorePosting PROVE IInv'
  OBVIOUS
<1> DEFINE n == NPostings
           pos == it.position
           r == ReadFreq(pos)
           done == UpTo(NBlocks)
           S == SKIP_BLOCK_SIZE
<1>1. Types /\ Pointers
  BY DEF IInv
<1>2. /\ pc = "score" /\ pc' = "score" /\ ~AtEnd(it) /\ it' = Incremented(it)
      /\ UNCHANGED <<fileVars, target, from>> /\ UNCHANGED fileVars
      /\ UNCHANGED <<freqs, file, docid_after>>
  BY DEF ScorePosting, fileVars
<1>3. /\ n \in Nat /\ EndPosition = n + 1 /\ NBlocks \in Nat /\ done \in Nat
      /\ S \in Nat /\ S > 0 /\ UpTo(NBlocks + 1) = done + S
      /\ block_ub \in Nat /\ sigma \in Nat
  <2>1. NBlocks \in Nat /\ block_ub \in Nat /\ sigma \in Nat
    BY <1>1 DEF Types, NBlocks
  <2>2. n \in Nat /\ EndPosition = n + 1
    BY <1>1, SizeType
  <2> QED
    BY <2>1, <2>2, Blocks
<1>4. /\ done < pos /\ pos <= done + S
      /\ block_off.docid_off = done + 1 /\ block_off.freq_off \in FreqOff
      /\ it.freq \in Freq /\ it.freq = Parsed(StartOf(freqs, pos))
      /\ it.current = <<Docid(pos), r>>
      /\ \A i \in 1..(pos - 1) : ReadFreq(i) <= sigma
      /\ \A i \in (done + 1)..(pos - 1) : ReadFreq(i) <= block_ub
  BY <1>2 DEF IInv, Scoring
<1>5. pos \in 1..n /\ r \in Nat /\ it.current[1] = Docid(pos) /\ it.current[2] = r
  BY <1>1, <1>2, <1>4, IncrementedIs, ReadType
<1>6. /\ DOMAIN it' = Fields /\ it'.position = pos + 1 /\ it'.block = it.block
      /\ it'.freq \in Freq
      /\ pos # n => /\ it'.freq = Parsed(StartOf(freqs, pos + 1))
                    /\ it'.current = <<Docid(pos + 1), ReadFreq(pos + 1)>>
      /\ pos = n => it'.current[1] = Docid(n)
  BY <1>1, <1>2, <1>4, <1>5, IncrementedIs, NextPosting, NextFreqType DEF ReadFreq
<1>7. /\ Raised \in Nat /\ block_ub <= Raised /\ r <= Raised
      /\ sigma' \in Nat /\ sigma <= sigma' /\ r <= sigma'
  BY <1>3, <1>5, MaxOfTwo DEF Raised, ScorePosting
<1> HIDE DEF n, pos, r, done, S
<1>8. \A i \in (done + 1)..pos : ReadFreq(i) <= Raised
  <2> TAKE i \in (done + 1)..pos
  <2>1. CASE i = pos
    BY <1>7, <2>1 DEF r
  <2>2. CASE i # pos
    <3>1. i \in (done + 1)..(pos - 1) /\ i \in 1..n
      BY <1>3, <1>5, <2>2
    <3>2. ReadFreq(i) <= block_ub /\ ReadFreq(i) \in Nat
      BY <1>1, <1>4, <3>1, ReadType DEF n
    <3> QED
      BY <1>3, <1>7, <3>2
  <2> QED
    BY <2>1, <2>2
<1>9. \A i \in 1..pos : ReadFreq(i) <= sigma'
  <2> TAKE i \in 1..pos
  <2>1. CASE i = pos
    BY <1>7, <2>1 DEF r
  <2>2. CASE i # pos
    <3>1. i \in 1..(pos - 1) /\ i \in 1..n
      BY <1>3, <1>5, <2>2
    <3>2. ReadFreq(i) <= sigma /\ ReadFreq(i) \in Nat
      BY <1>1, <1>4, <3>1, ReadType DEF n
    <3> QED
      BY <1>3, <1>7, <3>2
  <2> QED
    BY <2>1, <2>2
<1>10. pos % S = 0 <=> pos = done + S
  BY <1>3, <1>4, <1>5, EndsBlock DEF done, S
<1>11. /\ skip_pointers' \in Seq([last_docid : Nat, ub : Nat, docid_offset : Nat,
                                  freq_offset : FreqOff])
       /\ Pointers' /\ block_ub' \in Nat
       /\ UpTo(NBlocks') < pos + 1 /\ pos + 1 <= UpTo(NBlocks') + S
       /\ block_off'.docid_off = UpTo(NBlocks') + 1 /\ block_off'.freq_off \in FreqOff
       /\ \A i \in (UpTo(NBlocks') + 1)..pos : ReadFreq(i) <= block_ub'
  <2>1. CASE BlockEnds
    <3>1. pos = done + S /\ BuildSkip(Raised)
      BY <1>10, <2>1 DEF BlockEnds, ScorePosting, pos, S
    <3>2. pos = LastOf(NBlocks + 1) /\ UpTo(NBlocks) <= NPostings /\ it.freq \in Freq
      BY <1>3, <1>4, <1>5, <3>1 DEF LastOf, n, done
    <3>3. /\ skip_pointers' \in Seq([last_docid : Nat, ub : Nat, docid_offset : Nat,
                                     freq_offset : FreqOff])
          /\ NBlocks' = NBlocks + 1 /\ Pointers' /\ block_ub' = 0
      <4>1. pos \in Nat /\ \A i \in (UpTo(NBlocks) + 1)..pos : ReadFreq(i) <= Raised
        BY <1>5, <1>8 DEF done
      <4>2. block_off.docid_off = UpTo(NBlocks) + 1 /\ block_off.freq_off \in FreqOff
        BY <1>4 DEF done
      <4> QED
        BY <1>1, <1>2, <1>5, <1>7, <3>1, <3>2, <4>1, <4>2, BuiltSkip
    <3>4. block_off' = Offset(it')
      BY <1>2, <3>1 DEF BuildSkip, NextBlockOffset
    <3>5. block_off'.docid_off = pos + 1 /\ block_off'.freq_off \in FreqOff
      BY <1>1, <1>6, <3>4, OffsetType
    <3>6. UpTo(NBlocks') = pos
      BY <1>3, <3>1, <3>3
    <3>7. (UpTo(NBlocks') + 1)..pos = {}
      BY <1>5, <1>3, <3>6
    <3> QED
      BY <1>3, <1>5, <3>3, <3>5, <3>6, <3>7
  <2>2. CASE ~BlockEnds
    <3>1. pos # done + S /\ block_ub' = Raised /\ UNCHANGED <<skip_pointers, block_off>>
      BY <1>10, <2>2 DEF BlockEnds, ScorePosting, pos, S
    <3>2. UpTo(NBlocks') = done /\ NBlocks' = NBlocks
      BY <3>1 DEF NBlocks, done
    <3>3. Pointers'
      BY <1>1, <1>2, <3>1, <3>2, SameFile DEF Pointers, Describes
    <3>4. done < pos + 1 /\ pos + 1 <= done + S
      BY <1>3, <1>4, <1>5, <3>1
    <3> QED
      BY <1>1, <1>4, <1>7, <1>8, <3>1, <3>2, <3>3, <3>4 DEF Types
  <2> QED
    BY <2>1, <2>2
<1>12. Types'
  <2>1. it'.position \in 1..EndPosition /\ it'.block \in Nat \ {0}
    <3>1. it.block \in Nat \ {0}
      BY <1>1 DEF Types
    <3>2. pos + 1 \in 1..EndPosition
      BY <1>3, <1>5
    <3> QED
      BY <1>6, <3>1, <3>2
  <2>2. EndPosition' = EndPosition
    BY <1>2, SameFile
  <2> QED
    BY <1>1, <1>2, <1>6, <1>7, <1>11, <2>1, <2>2 DEF Types
<1>13. Scoring'
  <2>1. n' = n /\ EndPosition' = n + 1 /\ \A i : ReadFreq(i)' = ReadFreq(i)
    BY <1>2, <1>3, SameFile DEF n
  <2>2. it'.position = pos + 1 /\ (pos + 1) - 1 = pos
    BY <1>5, <1>6
  <2>3. AtEnd(it)' <=> pos = n
    BY <1>3, <1>5, <2>1, <2>2 DEF AtEnd
  <2>4. (\A b : Parsed(b)' = Parsed(b)) /\ freqs' = freqs
    BY <1>2 DEF Parsed
  <2>5. /\ \A i \in 1..pos : ReadFreq(i)' <= sigma'
        /\ \A i \in (UpTo(NBlocks') + 1)..pos : ReadFreq(i)' <= block_ub'
    BY <1>9, <1>11, <2>1
  <2>6. /\ UpTo(NBlocks') < it'.position /\ it'.position <= UpTo(NBlocks') + SKIP_BLOCK_SIZE
        /\ block_off'.docid_off = UpTo(NBlocks') + 1 /\ block_off'.freq_off \in FreqOff
        /\ it'.freq \in Freq
    BY <1>6, <1>11, <2>2 DEF S
  <2>7. ~AtEnd(it)' => /\ it'.freq = Parsed(StartOf(freqs, it.position))'
                       /\ it'.current = <<Docid(it'.position), ReadFreq(it.position)'>>
    <3> SUFFICES ASSUME ~AtEnd(it)'
                 PROVE  /\ it'.freq = Parsed(StartOf(freqs, it.position))'
                        /\ it'.current = <<Docid(it'.position), ReadFreq(it.position)'>>
      OBVIOUS
    <3>1. /\ it'.freq = Parsed(StartOf(freqs, it'.position))
          /\ it'.current = <<Docid(it'.position), ReadFreq(it'.position)>>
      BY <1>6, <2>2, <2>3
    <3> QED
      BY <2>1, <2>4, <3>1
  <2>8. AtEnd(it)' => it'.current[1] = Docid(NPostings')
    BY <1>6, <2>1, <2>3 DEF n
  <2>9. /\ \A i \in 1..(it'.position - 1) : ReadFreq(i)' <= sigma'
        /\ \A i \in (UpTo(NBlocks') + 1)..(it'.position - 1) : ReadFreq(i)' <= block_ub'
    BY <2>2, <2>5
  <2> QED
    BY <2>6, <2>7, <2>8, <2>9 DEF Scoring
<1>14. Scored' /\ InBlock' /\ Passed'
  BY <1>2 DEF Scored, InBlock, Passed, Calling
<1> QED
  BY <1>11, <1>12, <1>13, <1>14 DEF IInv

\* The block that is left out is one that lacks one posting.
LEMMA ClosePartialBlockKeepsIInv == IInv /\ ClosePartialBlock => IInv'
<1> SUFFICES ASSUME IInv, ClosePartialBlock PROVE IInv'
  OBVIOUS
<1> DEFINE n == NPostings
           done == UpTo(NBlocks)
           S == SKIP_BLOCK_SIZE
<1>1. Types /\ Pointers
  BY DEF IInv
<1>2. /\ pc = "score" /\ pc' = "ready" /\ AtEnd(it) /\ it' = BeginIterator
      /\ sigma' = FixedPoint(sigma)
      /\ UNCHANGED <<fileVars, target, from>> /\ UNCHANGED fileVars
      /\ UNCHANGED <<freqs, file, docid_after>>
  BY DEF ClosePartialBlock, fileVars
<1>3. /\ n \in Nat /\ n > 0 /\ EndPosition = n + 1 /\ NBlocks \in Nat /\ done \in Nat
      /\ S \in Nat /\ S > 0 /\ UpTo(NBlocks + 1) = done + S
      /\ block_ub \in Nat /\ sigma \in Nat
  <2>1. NBlocks \in Nat /\ block_ub \in Nat /\ sigma \in Nat
    BY <1>1 DEF Types, NBlocks
  <2>2. n \in Nat /\ n > 0 /\ EndPosition = n + 1
    BY <1>1, SizeType
  <2> QED
    BY <2>1, <2>2, Blocks
<1>4. /\ done < n + 1 /\ n + 1 <= done + S
      /\ block_off.docid_off = done + 1 /\ block_off.freq_off \in FreqOff
      /\ it.freq \in Freq /\ it.current[1] = Docid(n)
      /\ \A i \in 1..n : ReadFreq(i) <= sigma
      /\ \A i \in (done + 1)..n : ReadFreq(i) <= block_ub
  <2>1. it.position = n + 1 /\ it.position - 1 = n
    BY <1>2, <1>3 DEF AtEnd
  <2> QED
    BY <1>2, <2>1 DEF IInv, Scoring
<1>5. BlockEnds <=> (n + 1) % S = 0
  BY <1>2, <1>3 DEF BlockEnds, AtEnd
<1>6. (n + 1) % S = 0 <=> n + 1 = done + S
  BY <1>3, <1>4, EndsBlock
<1>7. /\ skip_pointers' \in Seq([last_docid : Nat, ub : Nat, docid_offset : Nat,
                                 freq_offset : FreqOff])
      /\ Pointers' /\ block_ub' \in Nat
      /\ NBlocks' = IF n + 1 = done + S THEN NBlocks ELSE NBlocks + 1
  <2>1. CASE n + 1 = done + S
    <3>1. UNCHANGED <<skip_pointers, block_ub>> /\ NBlocks' = NBlocks
      BY <1>5, <1>6, <2>1 DEF ClosePartialBlock, NBlocks
    <3>2. Pointers'
      BY <1>1, <1>2, <3>1, SameFile DEF Pointers, Describes
    <3> QED
      BY <1>1, <2>1, <3>1, <3>2 DEF Types
  <2>2. CASE n + 1 # done + S
    <3>1. BuildSkip(block_ub)
      BY <1>5, <1>6, <2>2 DEF ClosePartialBlock
    <3>2. n = LastOf(NBlocks + 1) /\ UpTo(NBlocks) <= NPostings
      BY <1>3, <1>4, <2>2 DEF LastOf
    <3>3. /\ skip_pointers' \in Seq([last_docid : Nat, ub : Nat, docid_offset : Nat,
                                     freq_offset : FreqOff])
          /\ NBlocks' = NBlocks + 1 /\ Pointers' /\ block_ub' = 0
      <4> HIDE DEF n
      <4>1. n \in Nat /\ \A i \in (UpTo(NBlocks) + 1)..n : ReadFreq(i) <= block_ub
        BY <1>3, <1>4
      <4>2. block_off.docid_off = UpTo(NBlocks) + 1 /\ block_off.freq_off \in FreqOff
        BY <1>4
      <4> QED
        BY <1>1, <1>2, <1>3, <1>4, <3>1, <3>2, <4>1, <4>2, BuiltSkip
    <3> QED
      BY <1>3, <2>2, <3>3
  <2> QED
    BY <2>1, <2>2
<1>8. /\ DOMAIN it' = Fields /\ it'.position = 1 /\ it'.block = 1
      /\ it'.current[1] = Docid(1)
  BY <1>1, <1>2, BeginIs
<1>9. Types'
  <2>1. it'.position \in 1..EndPosition /\ it'.block \in Nat \ {0} /\ EndPosition' = EndPosition
    BY <1>2, <1>3, <1>8, SameFile
  <2>2. sigma' \in Nat
    BY <1>2, <1>3, FixedPoints
  <2> QED
    BY <1>1, <1>2, <1>7, <1>8, <2>1, <2>2 DEF Types
<1>10. Scored'
  <2>1. n' = n /\ \A i : ReadFreq(i)' = ReadFreq(i) /\ LastBlockLeftOut(i)' = LastBlockLeftOut(i)
    BY <1>2, SameFile
  <2>2. BlockOf(n) \in Nat /\ n <= UpTo(BlockOf(n)) /\ UpTo(BlockOf(n) - 1) < n
    BY <1>3, BlockHolds
  <2>3. BlockOf(n) <= NBlocks + 1
    <3> SUFFICES ASSUME NBlocks + 1 < BlockOf(n) PROVE FALSE
      BY <1>3, <2>2
    <3>1. NBlocks + 1 \in Nat /\ BlockOf(n) - 1 \in Nat
      BY <1>3, <2>2
    <3>2. NBlocks + 1 = BlockOf(n) - 1 \/ NBlocks + 1 < BlockOf(n) - 1
      BY <1>3, <2>2
    <3>3. UpTo(NBlocks + 1) <= UpTo(BlockOf(n) - 1) /\ UpTo(BlockOf(n) - 1) \in Nat
      <4>1. \A x, y \in Nat : x < y => UpTo(x) <= UpTo(y)
        BY Blocks
      <4>2. \A x \in Nat : UpTo(x) \in Nat
        BY Blocks
      <4> QED
        BY <3>1, <3>2, <4>1, <4>2
    <3> QED
      BY <1>3, <1>4, <2>2, <3>3
  <2>4. ASSUME NEW i \in 1..n PROVE ReadFreq(i)' < sigma' + Precision
    <3>1. ReadFreq(i) \in Nat /\ ReadFreq(i) <= sigma
      BY <1>1, <1>4, ReadType
    <3>2. sigma < sigma' + Precision /\ sigma' \in Nat /\ Precision \in Nat
      BY <1>2, <1>3, FixedPoints, PostingAssumption
    <3>3. ReadFreq(i)' = ReadFreq(i)
      BY <2>1
    <3>4. \A a, b, c, d \in Nat : a <= b /\ b < c + d => a < c + d
      OBVIOUS
    <3>5. ReadFreq(i) < sigma' + Precision
      BY ONLY <1>3, <3>1, <3>2, <3>4
    <3> QED
      BY <3>3, <3>5
  <2>5. ASSUME NEW i \in 1..n
        PROVE  IF LastBlockLeftOut(i)' THEN BlockOf(i) = NBlocks' + 1 ELSE BlockOf(i) <= NBlocks'
    <3>1. BlockOf(i) \in Nat /\ BlockOf(i) <= BlockOf(n)
      BY <1>3, BlockHolds, BlocksAscend
    <3>2. LastBlockLeftOut(i) <=> n % S # 0 /\ n + 1 = done + S /\ BlockOf(i) = BlockOf(n)
      BY <1>6 DEF LastBlockLeftOut
    <3>3. CASE n + 1 # done + S
      BY <1>3, <1>7, <2>1, <2>2, <2>3, <3>1, <3>2, <3>3
    <3>4. CASE n + 1 = done + S /\ done < n
      <4>1. BlockOf(n) = NBlocks + 1
        <5>1. (NBlocks + 1) - 1 = NBlocks /\ NBlocks + 1 \in Nat /\ NBlocks + 1 > 0
          BY <1>3
        <5> QED
          BY <1>3, <3>4, <5>1, BlockIs
      <4>2. n % S # 0
        <5>1. n <= done + S /\ n # done + S
          BY <1>3, <3>4
        <5> QED
          BY <1>3, <3>4, <5>1, EndsBlock
      <4>3. NBlocks' = NBlocks
        BY <1>7, <3>4
      <4> QED
        BY <1>3, <2>1, <3>1, <3>2, <3>4, <4>1, <4>2, <4>3
    <3>5. CASE n + 1 = done + S /\ done = n
      <4>1. S = 1
        BY <1>3, <3>5
      <4>2. n % S = 0
        BY <1>3, <4>1
      <4>3. NBlocks' = NBlocks
        BY <1>7, <3>5
      <4>4. BlockOf(n) <= NBlocks
        <5>1. NBlocks > 0
          BY <1>3, <3>5, Blocks
        <5>2. NBlocks - 1 \in Nat /\ (NBlocks - 1) + 1 = NBlocks
          BY <1>3, <5>1
        <5>3. UpTo(NBlocks) = UpTo(NBlocks - 1) + S /\ UpTo(NBlocks - 1) \in Nat
          BY <5>2, Blocks
        <5>4. UpTo(NBlocks - 1) < n /\ n <= UpTo(NBlocks)
          BY <1>3, <3>5, <5>3
        <5>5. BlockOf(n) = NBlocks
          BY <1>3, <5>1, <5>4, BlockIs
        <5> QED
          BY <1>3, <5>5
      <4> QED
        BY <1>3, <2>1, <2>2, <3>1, <3>2, <4>2, <4>3, <4>4
    <3> QED
      BY <1>3, <1>4, <3>3, <3>4, <3>5
  <2> QED
    BY <2>1, <2>4, <2>5 DEF Scored, BlockOf
<1>11. InBlock'
  <2>1. BlockOf(1) = 1
    <3>1. 1 - 1 = 0 /\ 0 + 1 = 1 /\ 0 \in Nat /\ 1 \in Nat
      OBVIOUS
    <3>2. UpTo(0) = 0 /\ UpTo(1) = UpTo(0) + SKIP_BLOCK_SIZE
      BY <3>1, Blocks
    <3>3. UpTo(1 - 1) < 1 /\ 1 <= UpTo(1)
      BY <1>3, <3>1, <3>2
    <3> QED
      BY <3>1, <3>3, BlockIs
  <2>2. ~AtEnd(it)'
    BY <1>2, <1>3, <1>8, SameFile DEF AtEnd
  <2> QED
    BY <1>8, <2>1, <2>2 DEF InBlock, BlockOf
<1>12. Scoring' /\ Passed'
  BY <1>2 DEF Scoring, Passed, Calling
<1> QED
  BY <1>7, <1>9, <1>10, <1>11, <1>12 DEF IInv

-----------------------------------------------------------------------------
(* The iterator keeps the invariant.                                       *)

\* The last posting of a block.
LEMMA LastOfBlock ==
    ASSUME Types, NEW i \in 1..NPostings
    PROVE  /\ BlockOf(i) \in Nat /\ BlockOf(i) > 0
           /\ i <= LastOf(BlockOf(i)) /\ LastOf(BlockOf(i)) <= NPostings
           /\ LastOf(BlockOf(i)) \in Nat
           /\ \A j \in 1..NPostings : j > LastOf(BlockOf(i)) => BlockOf(j) > BlockOf(i)
           /\ i # NPostings =>
                BlockOf(i + 1) = IF i + 1 > LastOf(BlockOf(i)) THEN BlockOf(i) + 1 ELSE BlockOf(i)
<1> DEFINE b == BlockOf(i)
           S == SKIP_BLOCK_SIZE
<1>1. NPostings \in Nat
  BY SizeType
<1>2. /\ b \in Nat /\ b > 0 /\ UpTo(b - 1) < i /\ i <= UpTo(b)
  BY <1>1, BlockHolds
<1> HIDE DEF b
<1>3. /\ UpTo(b) \in Nat /\ UpTo(b + 1) = UpTo(b) + S /\ S \in Nat /\ S > 0
      /\ b - 1 \in Nat /\ UpTo(b - 1) \in Nat
  BY <1>2, Blocks
<1>4. i <= LastOf(b) /\ LastOf(b) <= NPostings /\ LastOf(b) \in Nat
  BY <1>1, <1>2, <1>3 DEF LastOf
<1>5. ASSUME NEW j \in 1..NPostings, j > LastOf(b) PROVE BlockOf(j) > b
  <2>1. j > UpTo(b) /\ i <= j
    BY <1>1, <1>3, <1>4, <1>5 DEF LastOf
  <2>2. BlockOf(j) \in Nat /\ b <= BlockOf(j) /\ j <= UpTo(BlockOf(j))
    BY <1>1, <2>1, BlockHolds, BlocksAscend DEF b
  <2>3. BlockOf(j) # b
    <3> SUFFICES ASSUME BlockOf(j) = b PROVE FALSE
      OBVIOUS
    <3>1. j <= UpTo(b)
      BY <2>2
    <3> QED
      BY <1>3, <2>1, <3>1
  <2> QED
    BY <1>2, <2>2, <2>3
<1>6. ASSUME i # NPostings
      PROVE  BlockOf(i + 1) = IF i + 1 > LastOf(b) THEN b + 1 ELSE b
  <2>1. i + 1 \in Nat /\ i + 1 <= NPostings
    BY <1>1, <1>6
  <2>2. CASE i + 1 > LastOf(b)
    <3>1. LastOf(b) = UpTo(b) /\ i + 1 = UpTo(b) + 1
      BY <1>1, <1>2, <1>3, <2>1, <2>2 DEF LastOf
    <3>2. (b + 1) - 1 = b /\ b + 1 \in Nat /\ b + 1 > 0
      BY <1>2
    <3>3. BlockOf(i + 1) = b + 1
      BY <1>3, <2>1, <3>1, <3>2, BlockIs
    <3> QED
      BY <2>2, <3>3
  <2>3. CASE ~(i + 1 > LastOf(b))
    <3>1. i + 1 <= UpTo(b) /\ UpTo(b - 1) < i + 1
      BY <1>1, <1>2, <1>3, <2>1, <2>3 DEF LastOf
    <3>2. BlockOf(i + 1) = b
      BY <1>2, <2>1, <3>1, BlockIs
    <3> QED
      BY <2>3, <3>2
  <2> QED
    BY <2>2, <2>3
<1> QED
  BY <1>2, <1>4, <1>5, <1>6 DEF b

\* When a posting's block has no pointer, the block is the last one.
LEMMA NoMoreBlocksAfter ==
    ASSUME Types, Scored, pc # "score", NEW i \in 1..NPostings
    PROVE  /\ BlockOf(i) <= NBlocks + 1 /\ NBlocks \in Nat
           /\ \A j \in i..NPostings : BlockOf(i) = NBlocks + 1 => BlockOf(j) = NBlocks + 1
<1>1. NPostings \in Nat
  BY SizeType
<1>2. NBlocks \in Nat
  BY DEF Types, NBlocks
<1>3. \A j \in 1..NPostings : BlockOf(j) <= NBlocks + 1 /\ BlockOf(j) \in Nat
  <2> TAKE j \in 1..NPostings
  <2>1. BlockOf(j) \in Nat
    BY <1>1, BlockHolds
  <2>2. BlockOf(j) = NBlocks + 1 \/ BlockOf(j) <= NBlocks
    BY DEF Scored
  <2> QED
    BY <1>2, <2>1, <2>2
<1>4. ASSUME NEW j \in i..NPostings, BlockOf(i) = NBlocks + 1 PROVE BlockOf(j) = NBlocks + 1
  <2>1. j \in 1..NPostings /\ i <= j
    BY <1>1
  <2>2. BlockOf(i) <= BlockOf(j)
    BY <1>1, <2>1, BlocksAscend
  <2> QED
    BY <1>2, <1>3, <1>4, <2>1, <2>2
<1> QED
  BY <1>2, <1>3, <1>4

\* An increment follows the postings into the next block.
LEMMA MovedOnIs ==
    ASSUME IInv, pc # "score", ~AtEnd(it)
    PROVE  /\ DOMAIN MovedOn(it) = Fields
           /\ MovedOn(it).position = it.position + 1 /\ it.position \in 1..NPostings
           /\ MovedOn(it).block \in Nat \ {0}
           /\ it.position # NPostings =>
                /\ MovedOn(it).current[1] = Docid(it.position + 1)
                /\ \/ MovedOn(it).block = BlockOf(it.position + 1)
                   \/ /\ Calling /\ MovedOn(it).block = NBlocks + 1 /\ NBlocks > 0
                      /\ skip_pointers[NBlocks].last_docid < target
           /\ it.position = NPostings => BlockOf(NPostings) <= MovedOn(it).block
<1> DEFINE n == NPostings
           pos == it.position
           next == Incremented(it)
<1>1. Types /\ Pointers /\ Scored /\ InBlock
  BY DEF IInv
<1>2. /\ n \in Nat /\ n > 0 /\ EndPosition = n + 1 /\ NBlocks \in Nat
      /\ it.block \in Nat \ {0} /\ DOMAIN it = Fields
  <2>1. NBlocks \in Nat /\ it.block \in Nat \ {0} /\ DOMAIN it = Fields
    BY <1>1 DEF Types, NBlocks
  <2> QED
    BY <1>1, <2>1, SizeType
<1>3. /\ pos \in 1..n /\ DOMAIN next = Fields /\ next.position = pos + 1
      /\ next.block = it.block
      /\ pos # n => next.current[1] = Docid(pos + 1)
  BY <1>1, IncrementedIs
<1> HIDE DEF next
<1>4. MovedOn(it) = IF /\ next.position # EndPosition /\ it.block <= NBlocks
                       /\ next.current[1] > skip_pointers[it.block].last_docid
                    THEN [next EXCEPT !.block = @ + 1] ELSE next
  BY DEF MovedOn, next, NBlocks
<1>5. /\ DOMAIN MovedOn(it) = Fields /\ MovedOn(it).position = next.position
      /\ MovedOn(it).current = next.current
      /\ MovedOn(it).block \in {it.block, it.block + 1}
  BY <1>3, <1>4 DEF Fields
<1>6. /\ BlockOf(pos) <= NBlocks + 1 /\ BlockOf(pos) \in Nat /\ BlockOf(pos) > 0
  BY <1>1, <1>3, NoMoreBlocksAfter, LastOfBlock
<1>7. \/ it.block = BlockOf(pos)
      \/ /\ Calling /\ it.block = NBlocks + 1 /\ NBlocks > 0
         /\ skip_pointers[NBlocks].last_docid < target
  BY <1>1 DEF InBlock
<1>8. CASE pos = n
  <2>1. MovedOn(it).block = it.block
    <3>1. next.position = EndPosition
      BY <1>2, <1>3, <1>8
    <3>2. MovedOn(it) = next
      BY <1>4, <3>1
    <3> QED
      BY <1>3, <3>2
  <2> QED
    BY <1>2, <1>3, <1>5, <1>6, <1>7, <1>8, <2>1
<1>9. CASE pos # n /\ it.block = BlockOf(pos) /\ it.block <= NBlocks
  <2> DEFINE last == LastOf(BlockOf(pos))
  <2>1. last \in Nat /\ BlockOf(pos + 1) = IF pos + 1 > last THEN it.block + 1 ELSE it.block
    BY <1>1, <1>3, <1>9, LastOfBlock
  <2>2. skip_pointers[it.block].last_docid = Docid(last)
    BY <1>1, <1>2, <1>9 DEF Pointers, Describes
  <2> HIDE DEF last
  <2>3. Docid(pos + 1) > Docid(last) <=> pos + 1 > last
    BY <1>3, <2>1 DEF Docid
  <2>4. MovedOn(it).block = BlockOf(pos + 1)
    BY <1>2, <1>3, <1>4, <1>9, <2>1, <2>2, <2>3 DEF Fields
  <2> QED
    BY <1>2, <1>3, <1>5, <1>9, <2>4
<1>10. CASE pos # n /\ it.block > NBlocks
  <2>1. it.block = NBlocks + 1
    BY <1>2, <1>6, <1>7, <1>10
  <2>2. MovedOn(it).block = it.block
    BY <1>2, <1>3, <1>4, <1>10
  <2>3. it.block = BlockOf(pos) => it.block = BlockOf(pos + 1)
    <3>1. pos + 1 \in pos..n
      BY <1>2, <1>3, <1>10
    <3> QED
      BY <1>1, <1>3, <2>1, <3>1, NoMoreBlocksAfter
  <2> QED
    BY <1>2, <1>3, <1>5, <1>7, <1>10, <2>1, <2>2, <2>3
<1> QED
  BY <1>2, <1>7, <1>8, <1>9, <1>10

\* So does an increment of the iterator, alone or in a search.
LEMMA MovedOnKeepsIInv ==
    ASSUME IInv, pc # "score", pc' = pc, ~AtEnd(it), it' = MovedOn(it),
           UNCHANGED <<freqs, file, docid_after>>,
           UNCHANGED <<skip_pointers, block_off, block_ub, sigma, target, from>>,
           Calling => IsBeforeTarget(Docid(it.position))
    PROVE  IInv'
<1> DEFINE n == NPostings
           pos == it.position
<1>1. Types /\ Pointers /\ Scored /\ InBlock /\ Passed
  BY DEF IInv
<1>2. n \in Nat /\ n > 0 /\ EndPosition = n + 1
  BY <1>1, SizeType
<1>3. /\ DOMAIN it' = Fields /\ it'.position = pos + 1 /\ pos \in 1..n
      /\ it'.block \in Nat \ {0}
      /\ pos # n =>
           /\ it'.current[1] = Docid(pos + 1)
           /\ \/ it'.block = BlockOf(pos + 1)
              \/ /\ Calling /\ it'.block = NBlocks + 1 /\ NBlocks > 0
                 /\ skip_pointers[NBlocks].last_docid < target
      /\ pos = n => BlockOf(NPostings) <= it'.block
  BY MovedOnIs
<1>4. /\ n' = n /\ EndPosition' = EndPosition /\ NBlocks' = NBlocks /\ Calling' = Calling
      /\ \A i : ReadFreq(i)' = ReadFreq(i) /\ LastBlockLeftOut(i)' = LastBlockLeftOut(i)
      /\ \A k : LastOf(k)' = LastOf(k)
      /\ \A d : IsBeforeTarget(d)' = IsBeforeTarget(d)
  BY SameFile DEF fileVars, NBlocks, Calling, IsBeforeTarget
<1>5. Types'
  <2>1. it'.position \in 1..EndPosition
    BY <1>2, <1>3
  <2> QED
    BY <1>1, <1>3, <1>4, <2>1 DEF Types
<1>6. Pointers'
  BY <1>1, <1>4 DEF Pointers, Describes
<1>7. Scored'
  BY <1>1, <1>4 DEF Scored, BlockOf
<1>8. InBlock'
  <2>1. AtEnd(it)' <=> pos = n
    BY <1>2, <1>3, <1>4 DEF AtEnd
  <2> HIDE DEF pos, n
  <2> QED
    BY <1>3, <1>4, <2>1 DEF InBlock, BlockOf, n
<1>9. Passed'
  <2> SUFFICES ASSUME Calling
               PROVE  /\ from <= pos + 1 /\ \A i \in from..pos : IsBeforeTarget(Docid(i))
    <3>1. (pos + 1) - 1 = pos
      BY <1>3
    <3> QED
      BY <1>3, <1>4, <3>1 DEF Passed
  <2>1. from \in Nat /\ from <= pos /\ \A i \in from..(pos - 1) : IsBeforeTarget(Docid(i))
    BY <1>1, <1>2 DEF Types, Passed
  <2>2. ASSUME NEW i \in from..pos PROVE IsBeforeTarget(Docid(i))
    <3>1. i = pos \/ i \in from..(pos - 1)
      BY <1>3, <2>1
    <3> QED
      BY <2>1, <3>1
  <2> QED
    BY <1>3, <2>1, <2>2
<1>10. Scoring'
  BY DEF Scoring
<1> QED
  BY <1>5, <1>6, <1>7, <1>8, <1>9, <1>10 DEF IInv

LEMMA IncrementKeepsIInv == IInv /\ Increment => IInv'
<1> SUFFICES ASSUME IInv, Increment PROVE IInv'
  OBVIOUS
<1>1. /\ pc = "ready" /\ pc' = "ready" /\ ~AtEnd(it) /\ it' = MovedOn(it)
      /\ UNCHANGED fileVars /\ UNCHANGED <<freqs, file, docid_after>>
      /\ UNCHANGED <<skip_pointers, block_off, block_ub, sigma, target, from>>
  BY DEF Increment, fileVars, skipVars
<1>2. ~Calling
  BY <1>1 DEF Calling
<1> QED
  BY <1>1, <1>2, MovedOnKeepsIInv

LEMMA CallKeepsIInv ==
    ASSUME IInv, NEW method \in {"nextG", "nextGEQ"}, NEW docid \in Docids, Call(method, docid)
    PROVE  IInv'
<1>1. /\ pc = "ready" /\ pc' = method /\ target' = docid /\ from' = it.position
      /\ UNCHANGED fileVars /\ UNCHANGED <<freqs, file, docid_after, it>>
      /\ UNCHANGED <<skip_pointers, block_off, block_ub, sigma>>
  BY DEF Call, fileVars, skipVars
<1>2. Types'
  <2>1. docid \in Nat
    BY PostingAssumption DEF Docids
  <2>2. EndPosition' = EndPosition /\ it.position \in 1..EndPosition
    BY <1>1, SameFile DEF IInv, Types
  <2> QED
    BY <1>1, <2>1, <2>2 DEF IInv, Types
<1>3. Pointers'
  BY <1>1, SameFile DEF IInv, Pointers, Describes, NBlocks
<1>4. Scored'
  BY <1>1, SameFile DEF IInv, Scored, BlockOf, NBlocks
<1>5. InBlock'
  BY <1>1, SameFile DEF IInv, InBlock, AtEnd, BlockOf, NBlocks, Calling
<1>6. Passed'
  <2>1. it.position \in Nat
    BY SizeType DEF IInv, Types
  <2> QED
    BY <1>1, <2>1 DEF Passed
<1>7. Scoring'
  BY <1>1 DEF Scoring
<1> QED
  BY <1>2, <1>3, <1>4, <1>5, <1>6, <1>7 DEF IInv

\* Skipping a block passes over documents before the target only.
LEMMA SkipBlockKeepsIInv == IInv /\ SkipBlock => IInv'
<1> SUFFICES ASSUME IInv, SkipBlock PROVE IInv'
  OBVIOUS
<1> DEFINE n == NPostings
           pos == it.position
           old == it.block
           b == it.block + 1
           p == UpTo(it.block) + 1
<1>1. Types /\ Pointers /\ Scored /\ InBlock /\ Passed
  BY DEF IInv
<1>2. /\ n \in Nat /\ n > 0 /\ EndPosition = n + 1 /\ NBlocks \in Nat /\ pos \in 1..(n + 1)
      /\ old \in Nat /\ old > 0 /\ from \in Nat /\ target \in Nat /\ from <= pos
  <2>1. /\ NBlocks \in Nat /\ old \in Nat /\ old > 0 /\ target \in Nat
        /\ pos \in 1..EndPosition /\ from \in 1..EndPosition
    BY <1>1 DEF Types, NBlocks
  <2>2. n \in Nat /\ n > 0 /\ EndPosition = n + 1
    BY <1>1, SizeType
  <2>3. from <= pos
    BY <1>1 DEF Passed, SkipBlock, Calling
  <2> QED
    BY <2>1, <2>2, <2>3
<1>3. /\ pc \in {"nextG", "nextGEQ"} /\ pc' = pc /\ Calling /\ pc # "score"
      /\ old <= NBlocks /\ skip_pointers[old].last_docid < target
      /\ UNCHANGED fileVars /\ UNCHANGED <<freqs, file, docid_after>>
      /\ UNCHANGED <<skip_pointers, block_off, block_ub, sigma, target, from>>
  BY <1>2 DEF SkipBlock, BlockIsBehind, NoMoreBlocks, NBlocks, Calling, fileVars, skipVars
<1>4. skip_pointers[old].last_docid = Docid(LastOf(old))
  BY <1>1, <1>2, <1>3 DEF Pointers, Describes
<1>5. /\ n' = n /\ EndPosition' = EndPosition /\ NBlocks' = NBlocks /\ Calling' = Calling
      /\ \A i : ReadFreq(i)' = ReadFreq(i) /\ LastBlockLeftOut(i)' = LastBlockLeftOut(i)
      /\ \A k : LastOf(k)' = LastOf(k)
      /\ \A d : IsBeforeTarget(d)' = IsBeforeTarget(d)
  BY <1>3, SameFile DEF NBlocks, Calling, IsBeforeTarget
<1>6. ~AtEnd(it) => it.block = BlockOf(pos)
  BY <1>1, <1>2, <1>3 DEF InBlock
<1>7. /\ UpTo(old) \in Nat /\ UpTo(old - 1) \in Nat /\ UpTo(old) = UpTo(old - 1) + SKIP_BLOCK_SIZE
      /\ UpTo(b) = UpTo(old) + SKIP_BLOCK_SIZE /\ SKIP_BLOCK_SIZE \in Nat /\ SKIP_BLOCK_SIZE > 0
  <2>1. old - 1 \in Nat /\ (old - 1) + 1 = old
    BY <1>2
  <2> HIDE DEF old
  <2> QED
    BY <1>2, <2>1, Blocks DEF old
<1>8. Pointers' /\ Scored' /\ Scoring'
  BY <1>1, <1>3, <1>5 DEF Pointers, Describes, Scored, BlockOf, Scoring
<1>9. CASE b <= NBlocks
  <2>1. skip_pointers[b].docid_offset = p /\ p <= n + 1
    <3>1. b \in 1..NBlocks /\ b - 1 = old
      BY <1>2, <1>9
    <3> QED
      BY <1>1, <1>2, <3>1 DEF Pointers, Describes
  <2>2. /\ DOMAIN it' = Fields /\ it'.position = p /\ it'.block = b /\ it'.current[1] = DocidAt(p)
    BY <1>2, <1>9, <2>1 DEF SkipBlock, Fields, NBlocks
  <2>3. LastOf(old) = UpTo(old) /\ p - 1 = UpTo(old) /\ p \in 1..(n + 1)
    BY <1>2, <1>7, <2>1 DEF LastOf
  <2>4. pos <= p
    <3>1. CASE AtEnd(it)
      <4>1. BlockOf(n) <= old
        BY <1>1, <1>3, <3>1 DEF InBlock
      <4>2. BlockOf(n) \in Nat /\ n <= UpTo(BlockOf(n))
        BY <1>2, BlockHolds
      <4>3. UpTo(BlockOf(n)) <= UpTo(old) /\ UpTo(BlockOf(n)) \in Nat
        <5>1. \A x, y \in Nat : x < y => UpTo(x) <= UpTo(y)
          BY Blocks
        <5>2. \A x \in Nat : UpTo(x) \in Nat
          BY Blocks
        <5>3. BlockOf(n) = old \/ BlockOf(n) < old
          BY <1>2, <4>1, <4>2
        <5> QED
          BY <1>2, <4>2, <5>1, <5>2, <5>3
      <4> QED
        BY <1>2, <1>7, <4>2, <4>3
    <3>2. CASE ~AtEnd(it)
      <4>1. pos <= UpTo(old)
        BY <1>2, <1>6, <3>2, BlockHolds
      <4> QED
        BY <1>2, <1>7, <4>1
    <3> QED
      BY <3>1, <3>2
  <2>5. Types'
    <3>1. it'.position \in 1..EndPosition /\ it'.block \in Nat \ {0}
      BY <1>2, <2>2, <2>3
    <3> QED
      BY <1>1, <1>3, <1>5, <2>2, <3>1 DEF Types
  <2>6. Passed'
    <3>1. from <= p
      BY <1>2, <2>3, <2>4
    <3>2. ASSUME NEW i \in from..(p - 1) PROVE IsBeforeTarget(Docid(i))
      <4>1. Docid(i) <= Docid(p - 1) /\ Docid(i) \in Nat /\ Docid(p - 1) \in Nat
        BY <1>2, <2>3 DEF Docid
      <4>2. Docid(p - 1) < target
        BY <1>3, <1>4, <2>3
      <4>3. Docid(i) < target
        BY <1>2, <4>1, <4>2
      <4> QED
        BY <1>2, <4>1, <4>3 DEF IsBeforeTarget
    <3> QED
      BY <1>3, <1>5, <2>2, <3>1, <3>2 DEF Passed
  <2>7. InBlock'
    <3>1. AtEnd(it)' <=> p = n + 1
      BY <1>2, <1>5, <2>2 DEF AtEnd
    <3>2. CASE p = n + 1
      <4>1. BlockOf(n) = old
        BY <1>2, <1>7, <3>2, BlockIs
      <4>2. n' = n /\ BlockOf(n) <= b
        BY <1>2, <1>5, <4>1
      <4> QED
        BY <1>5, <2>2, <3>1, <3>2, <4>2 DEF InBlock, BlockOf
    <3>3. CASE p # n + 1
      <4>1. DocidAt(p) = Docid(p)
        BY <1>2, <2>3, <3>3 DEF DocidAt
      <4>2. BlockOf(p) = b
        <5>1. b \in Nat /\ b > 0 /\ b - 1 = old /\ p \in Nat
          BY <1>2, <2>3
        <5>2. UpTo(b - 1) < p /\ p <= UpTo(b)
          BY <1>7, <5>1
        <5> QED
          BY <5>1, <5>2, BlockIs
      <4>3. it'.current[1] = Docid(it'.position) /\ it'.block = BlockOf(it'.position)
        BY <2>2, <4>1, <4>2
      <4> QED
        BY <3>1, <3>3, <4>3 DEF InBlock, BlockOf
    <3> QED
      BY <3>2, <3>3
  <2> QED
    BY <1>8, <2>5, <2>6, <2>7 DEF IInv
<1>10. CASE ~(b <= NBlocks)
  <2>1. b = NBlocks + 1 /\ old = NBlocks
    BY <1>2, <1>3, <1>10
  <2>2. it' = [it EXCEPT !.block = b]
    BY <1>2, <1>10 DEF SkipBlock, NBlocks
  <2>3. /\ DOMAIN it' = Fields /\ it'.position = pos /\ it'.block = b
        /\ it'.current = it.current
    BY <1>1, <2>2 DEF Types, Fields
  <2>4. AtEnd(it)' <=> AtEnd(it)
    BY <1>5, <2>3 DEF AtEnd
  <2>5. Types'
    <3>1. it'.position \in 1..EndPosition /\ it'.block \in Nat \ {0}
      BY <1>2, <2>1, <2>3
    <3> QED
      BY <1>1, <1>3, <1>5, <2>3, <3>1 DEF Types
  <2>6. Passed'
    BY <1>1, <1>3, <1>5, <2>3 DEF Passed
  <2>7. InBlock'
    <3>1. CASE AtEnd(it)
      <4>1. BlockOf(n) <= old /\ BlockOf(n) \in Nat
        BY <1>1, <1>2, <1>3, <3>1, BlockHolds DEF InBlock
      <4>2. BlockOf(n) <= b
        BY <1>2, <4>1
      <4> QED
        BY <1>5, <2>3, <2>4, <3>1, <4>2 DEF InBlock, BlockOf
    <3>2. CASE ~AtEnd(it)
      <4>1. it.current[1] = Docid(pos)
        BY <1>1, <1>3, <3>2 DEF InBlock
      <4>2. NBlocks > 0 /\ skip_pointers[NBlocks].last_docid < target
        BY <1>2, <1>3, <2>1
      <4>3. skip_pointers'[NBlocks'].last_docid < target' /\ NBlocks' > 0
            /\ it'.block = NBlocks' + 1
        BY <1>3, <1>5, <2>1, <2>3, <4>2
      <4>4. it'.current[1] = Docid(it'.position) /\ Calling'
        BY <1>3, <1>5, <2>3, <4>1
      <4> QED
        BY <2>4, <3>2, <4>3, <4>4 DEF InBlock
    <3> QED
      BY <3>1, <3>2
  <2> QED
    BY <1>8, <2>5, <2>6, <2>7 DEF IInv
<1> QED
  BY <1>9, <1>10

\* A call that ends in a block without a pointer has found one of its postings.
LEMMA ScanBlockKeepsIInv == IInv /\ ScanBlock => IInv'
<1> SUFFICES ASSUME IInv, ScanBlock PROVE IInv'
  OBVIOUS
<1> DEFINE n == NPostings
           pos == it.position
<1>1. Types /\ Pointers /\ Scored /\ InBlock /\ Passed
  BY DEF IInv
<1>2. /\ pc \in {"nextG", "nextGEQ"} /\ pc # "score" /\ Calling
      /\ UNCHANGED fileVars /\ UNCHANGED <<freqs, file, docid_after>>
      /\ UNCHANGED <<skip_pointers, block_off, block_ub, sigma>>
  BY DEF ScanBlock, Calling, fileVars, skipVars
<1>3. CASE ~AtEnd(it) /\ IsBefore
  <2>1. it' = MovedOn(it) /\ pc' = pc /\ pc' # "ready"
    BY <1>2, <1>3 DEF ScanBlock
  <2>2. UNCHANGED <<target, from>>
    BY <2>1 DEF ScanBlock
  <2>3. IsBeforeTarget(Docid(pos))
    BY <1>1, <1>2, <1>3 DEF IsBefore, IsBeforeTarget, InBlock
  <2> QED
    BY <1>2, <1>3, <2>1, <2>2, <2>3, MovedOnKeepsIInv
<1>4. CASE ~(~AtEnd(it) /\ IsBefore)
  <2>1. pc' = "ready" /\ UNCHANGED it
    BY <1>4 DEF ScanBlock
  <2>2. target' = 0 /\ from' = 1
    BY <2>1 DEF ScanBlock
  <2>3. /\ n \in Nat /\ n > 0 /\ EndPosition = n + 1 /\ NBlocks \in Nat /\ target \in Nat
    <3>1. NBlocks \in Nat /\ target \in Nat
      BY <1>1 DEF Types, NBlocks
    <3> QED
      BY <1>1, <3>1, SizeType
  <2>4. /\ n' = n /\ EndPosition' = EndPosition /\ NBlocks' = NBlocks
        /\ \A i : ReadFreq(i)' = ReadFreq(i) /\ LastBlockLeftOut(i)' = LastBlockLeftOut(i)
        /\ \A k : LastOf(k)' = LastOf(k)
    BY <1>2, SameFile DEF NBlocks
  <2>5. Types'
    <3>1. from' \in 1..EndPosition /\ target' \in Nat
      BY <2>2, <2>3
    <3> QED
      BY <1>1, <1>2, <2>1, <2>4, <3>1 DEF Types
  <2>6. Pointers' /\ Scored'
    BY <1>1, <1>2, <2>1, <2>4 DEF Pointers, Describes, Scored, BlockOf
  <2>7. ~AtEnd(it) => it.block = BlockOf(pos)
    <3> SUFFICES ASSUME ~AtEnd(it), it.block = NBlocks + 1, NBlocks > 0,
                        skip_pointers[NBlocks].last_docid < target
                 PROVE  BlockOf(pos) = NBlocks + 1
      BY <1>1, <1>2 DEF InBlock
    <3>1. pos \in 1..n /\ it.current[1] = Docid(pos)
      BY <1>1, <1>2, <2>3, IncrementedIs DEF InBlock
    <3>2. target <= Docid(pos)
      BY <1>2, <1>4, <2>3, <3>1 DEF IsBefore, Docid
    <3>3. skip_pointers[NBlocks].last_docid = Docid(LastOf(NBlocks))
      BY <1>1, <2>3 DEF Pointers, Describes
    <3>4. UpTo(NBlocks) \in Nat /\ UpTo(NBlocks) < pos
      <4>1. LastOf(NBlocks) \in Nat /\ UpTo(NBlocks) \in Nat
        BY <2>3, Blocks DEF LastOf
      <4>2. LastOf(NBlocks) < pos
        BY <2>3, <3>1, <3>2, <3>3, <4>1 DEF Docid
      <4> QED
        BY <2>3, <3>1, <4>1, <4>2 DEF LastOf
    <3>5. BlockOf(pos) <= NBlocks + 1 /\ BlockOf(pos) \in Nat /\ pos <= UpTo(BlockOf(pos))
      BY <1>1, <1>2, <2>3, <3>1, NoMoreBlocksAfter, BlockHolds
    <3>6. ~(BlockOf(pos) <= NBlocks)
      <4> SUFFICES ASSUME BlockOf(pos) <= NBlocks PROVE FALSE
        OBVIOUS
      <4>1. \A x, y \in Nat : x < y => UpTo(x) <= UpTo(y)
        BY Blocks
      <4>2. UpTo(BlockOf(pos)) <= UpTo(NBlocks) /\ UpTo(BlockOf(pos)) \in Nat
        BY <2>3, <3>4, <3>5, <4>1, Blocks
      <4> QED
        BY <3>1, <3>4, <3>5, <4>2
    <3> QED
      BY <2>3, <3>5, <3>6
  <2>8. InBlock'
    <3>1. AtEnd(it)' <=> AtEnd(it)
      BY <2>1, <2>4 DEF AtEnd
    <3> QED
      BY <1>1, <1>2, <2>1, <2>4, <2>7, <3>1 DEF InBlock, BlockOf
  <2>9. Scoring' /\ Passed'
    BY <2>1 DEF Scoring, Passed, Calling
  <2> QED
    BY <2>5, <2>6, <2>8, <2>9 DEF IInv
<1> QED
  BY <1>3, <1>4

LEMMA NextKeepsIInv == IInv /\ [Next]_vars => IInv'
<1> SUFFICES ASSUME IInv, [Next]_vars PROVE IInv'
  OBVIOUS
<1>1. CASE ScorePosting
  BY <1>1, ScorePostingKeepsIInv
<1>2. CASE ClosePartialBlock
  BY <1>2, ClosePartialBlockKeepsIInv
<1>3. CASE Increment
  BY <1>3, IncrementKeepsIInv
<1>4. CASE \E method \in {"nextG", "nextGEQ"}, docid \in Docids : Call(method, docid)
  BY <1>4, CallKeepsIInv
<1>5. CASE SkipBlock
  BY <1>5, SkipBlockKeepsIInv
<1>6. CASE ScanBlock
  BY <1>6, ScanBlockKeepsIInv
<1>7. CASE UNCHANGED vars
  <2>1. /\ UNCHANGED fileVars /\ UNCHANGED <<freqs, file, docid_after, it>>
        /\ UNCHANGED <<skip_pointers, block_off, block_ub, sigma, pc, target, from>>
    BY <1>7 DEF vars, fileVars, skipVars
  <2>2. (\A b : Parsed(b)' = Parsed(b)) /\ freqs' = freqs
    BY <2>1 DEF Parsed
  <2>3. /\ NPostings' = NPostings /\ EndPosition' = EndPosition /\ NBlocks' = NBlocks
        /\ \A i : ReadFreq(i)' = ReadFreq(i) /\ LastBlockLeftOut(i)' = LastBlockLeftOut(i)
        /\ \A k : LastOf(k)' = LastOf(k)
        /\ Calling' = Calling /\ AtEnd(it)' = AtEnd(it)
        /\ \A d : IsBeforeTarget(d)' = IsBeforeTarget(d)
    BY <2>1, SameFile DEF NBlocks, Calling, IsBeforeTarget, AtEnd
  <2>4. Types' /\ Pointers' /\ Passed'
    BY <2>1, <2>3 DEF IInv, Types, Pointers, Describes, Passed
  <2>5. Scored' /\ InBlock'
    BY <2>1, <2>3 DEF IInv, Scored, InBlock, BlockOf
  <2>6. Scoring'
    BY <2>1, <2>2, <2>3 DEF IInv, Scoring, UpTo
  <2> QED
    BY <2>4, <2>5, <2>6 DEF IInv
<1> QED
  BY <1>1, <1>2, <1>3, <1>4, <1>5, <1>6, <1>7 DEF Next

-----------------------------------------------------------------------------
(* What follows.                                                           *)

\* While the list is scored, and in any mixture of increments and skips after it, the
\* pointers, the bounds and the iterator's block are as IInv says (builder.cpp:221-253,
\* Index.cpp:161-214).
THEOREM PostingListInvariant == Spec => []IInv
<1>1. Init => IInv
  BY InitIInv
<1>2. IInv /\ [Next]_vars => IInv'
  BY NextKeepsIInv
<1> QED
  BY <1>1, <1>2, PTL DEF Spec

\* The block of an iterator is the one of its posting: no stale block bounds the scores of
\* other documents (Index.cpp:161-163, 196-214).
THEOREM BlockIsOfCurrent == Spec => []BlockHoldsCurrent
<1>1. IInv => BlockHoldsCurrent
  <2> SUFFICES ASSUME IInv, pc # "score", ~AtEnd(it)
               PROVE  /\ it.current[1] = Docid(it.position)
                      /\ ~NoMoreBlocks(it) =>
                           /\ it.current[1] <= skip_pointers[it.block].last_docid
                           /\ it.block > 1 =>
                                it.current[1] > skip_pointers[it.block - 1].last_docid
    BY DEF BlockHoldsCurrent
  <2> DEFINE pos == it.position
             b == it.block
  <2>1. Types /\ Pointers /\ InBlock
    BY DEF IInv
  <2>2. NPostings \in Nat /\ pos \in 1..NPostings /\ NBlocks \in Nat /\ b \in Nat
    <3>1. NBlocks \in Nat /\ b \in Nat
      BY <2>1 DEF Types, NBlocks
    <3> QED
      BY <2>1, <3>1, SizeType, IncrementedIs
  <2>3. it.current[1] = Docid(pos)
    BY <2>1 DEF InBlock
  <2>4. ASSUME ~NoMoreBlocks(it)
        PROVE  /\ Docid(pos) <= skip_pointers[b].last_docid
               /\ b > 1 => Docid(pos) > skip_pointers[b - 1].last_docid
    <3>1. b <= NBlocks
      BY <2>2, <2>4 DEF NoMoreBlocks, NBlocks
    <3>2. b = BlockOf(pos)
      BY <2>1, <2>2, <3>1 DEF InBlock
    <3>3. b > 0 /\ pos <= LastOf(b) /\ LastOf(b) \in Nat
      BY <2>1, <2>2, <3>2, LastOfBlock
    <3>4. skip_pointers[b].last_docid = Docid(LastOf(b))
      BY <2>1, <2>2, <3>1, <3>3 DEF Pointers, Describes
    <3>5. ASSUME b > 1 PROVE Docid(pos) > skip_pointers[b - 1].last_docid
      <4>1. b - 1 \in 1..NBlocks /\ b - 1 \in Nat
        BY <2>2, <3>1, <3>5
      <4>2. skip_pointers[b - 1].last_docid = Docid(LastOf(b - 1))
        BY <2>1, <4>1 DEF Pointers, Describes
      <4>3. UpTo(b - 1) < pos /\ UpTo(b - 1) \in Nat
        <5>1. UpTo(b - 1) \in Nat
          BY <4>1, Blocks
        <5>2. UpTo(BlockOf(pos) - 1) < pos
          BY <2>2, BlockHolds
        <5> QED
          BY <3>2, <5>1, <5>2
      <4>4. LastOf(b - 1) \in Nat /\ LastOf(b - 1) < pos
        BY <2>2, <4>3 DEF LastOf
      <4> QED
        BY <2>2, <4>2, <4>4 DEF Docid
    <3>6. Docid(pos) <= Docid(LastOf(b))
      BY <2>2, <3>3 DEF Docid
    <3> QED
      BY <3>4, <3>5, <3>6
  <2> QED
    BY <2>3, <2>4
<1> QED
  BY <1>1, PostingListInvariant, PTL

\* A pointer is to its block's first posting and its bounds exceed the scores they are for,
\* but for less than the step of the fixed point (builder.cpp:221-253).
THEOREM PointersAreOfBlocks == Spec => []PointersDescribeBlocks
<1>1. IInv => PointersDescribeBlocks
  <2> SUFFICES ASSUME IInv, pc # "score", NEW i \in 1..NPostings
               PROVE  /\ ReadFreq(i) < sigma + Precision
                      /\ BlockOf(i) <= Len(skip_pointers) =>
                           LET p == skip_pointers[BlockOf(i)]
                           IN  /\ p.docid_offset = (BlockOf(i) - 1) * SKIP_BLOCK_SIZE + 1
                               /\ Docid(i) <= p.last_docid
                               /\ ReadFreq(i) < p.ub + Precision
    BY DEF PointersDescribeBlocks
  <2>1. Types /\ Pointers /\ Scored
    BY DEF IInv
  <2>2. NPostings \in Nat /\ NBlocks \in Nat
    <3>1. NBlocks \in Nat
      BY <2>1 DEF Types, NBlocks
    <3> QED
      BY <2>1, <3>1, SizeType
  <2>3. ReadFreq(i) < sigma + Precision
    BY <2>1 DEF Scored
  <2> DEFINE b == BlockOf(i)
             p == skip_pointers[b]
  <2>4. ASSUME b <= NBlocks
        PROVE  /\ p.docid_offset = (b - 1) * SKIP_BLOCK_SIZE + 1 /\ Docid(i) <= p.last_docid
               /\ ReadFreq(i) < p.ub + Precision
    <3>1. b \in Nat /\ b > 0 /\ i <= LastOf(b) /\ LastOf(b) \in Nat
      BY <2>1, LastOfBlock
    <3>2. UpTo(b - 1) < i /\ UpTo(b - 1) \in Nat
      <4>1. b - 1 \in Nat
        BY <3>1
      <4> QED
        BY <2>2, <4>1, BlockHolds, Blocks
    <3>3. Describes(p, b)
      BY <2>1, <2>2, <2>4, <3>1 DEF Pointers
    <3> HIDE DEF b, p
    <3>4. i \in p.docid_offset..LastOf(b)
      BY <2>2, <3>1, <3>2, <3>3 DEF Describes
    <3>5. ReadFreq(i) < p.ub + Precision
      BY <3>3, <3>4 DEF Describes
    <3>6. Docid(i) <= p.last_docid
      BY <2>2, <3>1, <3>3 DEF Describes, Docid
    <3>7. p.docid_offset = (b - 1) * SKIP_BLOCK_SIZE + 1
      BY <3>3 DEF Describes, UpTo
    <3> QED
      BY <3>5, <3>6, <3>7
  <2> QED
    BY <2>3, <2>4 DEF NBlocks
<1> QED
  BY <1>1, PostingListInvariant, PTL

\* The postings without a block are those of a last block that lacks one posting, and the
\* iterator has no block there and nowhere else (builder.cpp:252, Index.cpp:217-220).
THEOREM LeftOutAreKnown == Spec => []BlocksLeftOut
<1>1. IInv => BlocksLeftOut
  <2> SUFFICES ASSUME IInv, pc = "ready", ~AtEnd(it)
               PROVE  NoMoreBlocks(it) <=> LastBlockLeftOut(it.position)
    BY DEF BlocksLeftOut
  <2>1. Types /\ Scored /\ InBlock
    BY DEF IInv
  <2>2. it.position \in 1..NPostings /\ it.block = BlockOf(it.position)
    BY <2>1, IncrementedIs DEF InBlock, Calling
  <2>3. NBlocks \in Nat /\ it.block \in Nat
    BY <2>1 DEF Types, NBlocks
  <2>4. IF LastBlockLeftOut(it.position) THEN it.block = NBlocks + 1 ELSE it.block <= NBlocks
    BY <2>1, <2>2 DEF Scored
  <2> QED
    BY <2>3, <2>4 DEF NoMoreBlocks, NBlocks
<1> QED
  BY <1>1, PostingListInvariant, PTL

\* nextG and nextGEQ find what a scan of the whole list would, however many blocks they
\* skip and wherever the iterator was (Index.cpp:169-190).
THEOREM SkippingFinds == Spec => NextFindsDocument
<1>1. ASSUME IInv, [Next]_vars, pc \in {"nextG", "nextGEQ"}, pc' = "ready"
      PROVE  it'.position = Found(pc, target)
  <2> DEFINE n == NPostings
             pos == it.position
             Right(i) == IF pc = "nextG" THEN Docid(i) > target ELSE Docid(i) >= target
             F == {n + 1} \cup {i \in from..n : Right(i)}
  <2>1. ScanBlock /\ ~(~AtEnd(it) /\ IsBefore) /\ it' = it
    <3>1. ScanBlock
      BY <1>1 DEF Next, ScorePosting, ClosePartialBlock, Increment, Call, SkipBlock, vars
    <3> QED
      BY <1>1, <3>1 DEF ScanBlock
  <2>2. Types /\ InBlock /\ Passed /\ Calling /\ pc # "score"
    BY <1>1 DEF IInv, Calling
  <2>3. /\ n \in Nat /\ EndPosition = n + 1 /\ pos \in 1..(n + 1) /\ from \in Nat
        /\ target \in Nat /\ from <= pos
    <3>1. pos \in 1..EndPosition /\ from \in 1..EndPosition /\ target \in Nat
      BY <2>2 DEF Types
    <3>2. from <= pos
      BY <2>2 DEF Passed
    <3> QED
      BY <2>2, <3>1, <3>2, SizeType
  <2>4. Found(pc, target) = Min(F)
    BY <2>3 DEF Found
  <2>5. pos \in F
    <3>1. CASE AtEnd(it)
      BY <2>3, <3>1 DEF AtEnd
    <3>2. CASE ~AtEnd(it)
      <4>1. pos \in from..n /\ it.current[1] = Docid(pos)
        BY <2>2, <2>3, <3>2 DEF AtEnd, InBlock
      <4>2. Right(pos)
        BY <1>1, <2>1, <2>3, <3>2, <4>1 DEF IsBefore, Docid
      <4> QED
        BY <4>1, <4>2
    <3> QED
      BY <3>1, <3>2
  <2>6. ASSUME NEW i \in F PROVE pos <= i
    <3>1. CASE i = n + 1
      BY <2>3, <3>1
    <3>2. CASE i \in from..n /\ Right(i)
      <4> SUFFICES ASSUME i < pos PROVE FALSE
        BY <2>3, <3>2
      <4>1. i \in from..(pos - 1)
        BY <2>3, <3>2
      <4>2. IsBeforeTarget(Docid(i))
        BY <2>2, <4>1 DEF Passed
      <4> QED
        BY <2>3, <3>2, <4>1, <4>2 DEF IsBeforeTarget, Docid
    <3> QED
      BY <3>1, <3>2
  <2>7. F \in SUBSET Nat
    BY <2>3
  <2> HIDE DEF F
  <2>8. Min(F) = pos
    BY <2>5, <2>6, <2>7, MinIs
  <2> QED
    BY <2>1, <2>4, <2>8
<1>2. IInv /\ [Next]_vars
        => [(pc) \in {"nextG", "nextGEQ"} /\ pc' = "ready"
              => it'.position = Found(pc, target)]_vars
  BY <1>1
<1> QED
  BY <1>2, PostingListInvariant, PTL DEF Spec, NextFindsDocument

-----------------------------------------------------------------------------
(* The file that the list's frequencies are in is what UnaryCode's encoder *)
(* writes.  The inductive invariant of the encoder and the decoder.        *)

\* Once k bits have been emitted, the value before the r-th has b of them left; after the
\* last there are zeros.
Reached(k, r, b) ==
    /\ r \in 1..(Len(data) + 1) /\ b \in Nat
    /\ IF r = 1 THEN b = 0 ELSE b < data[r - 1]
    /\ IF b = 0 /\ r = Len(data) + 1 THEN StartOf(data, r) <= k
                                     ELSE k + b = StartOf(data, r)

Bits(start, n) == [b \in 1..n |-> BitAt(data, start + b - 1)]

\* The state of the loop: n bits from start on, and k bits emitted altogether.
IsRound(s, start, n) ==
    \E r, b \in Nat : /\ s = [raw |-> r, buffer |-> b, bits |-> Bits(start, n)]
                      /\ Reached(start + n, r, b)

\* Sequences of bits are the same if their elements are.
LEMMA SameBits ==
    \A u, w \in Seq({0, 1}) : Len(u) = Len(w) /\ (\A b \in 1..Len(u) : u[b] = w[b]) => u = w
OBVIOUS

\* One more bit.
LEMMA BitsGrow ==
    ASSUME NEW start \in Nat, NEW n \in Nat
    PROVE  /\ Bits(start, n) \in Seq({0, 1}) /\ Len(Bits(start, n)) = n
           /\ Bits(start, n + 1) = Append(Bits(start, n), BitAt(data, start + n))
<1>1. \A m \in Nat : Bits(start, m) \in Seq({0, 1}) /\ Len(Bits(start, m)) = m
  <2> TAKE m \in Nat
  <2>1. \A b \in 1..m : BitAt(data, start + b - 1) \in {0, 1}
    BY DEF BitAt
  <2> QED
    BY <2>1 DEF Bits
<1>2. \A b \in 1..(n + 1) : Bits(start, n + 1)[b] = Append(Bits(start, n), BitAt(data, start + n))[b]
  <2> TAKE b \in 1..(n + 1)
  <2>1. Bits(start, n + 1)[b] = BitAt(data, start + b - 1)
    BY DEF Bits
  <2>2. CASE b = n + 1
    <3>1. Append(Bits(start, n), BitAt(data, start + n))[b] = BitAt(data, start + n)
      BY <1>1, <2>2
    <3>2. start + b - 1 = start + n
      BY <2>2
    <3> QED
      BY <2>1, <3>1, <3>2
  <2>3. CASE b \in 1..n
    <3>1. Append(Bits(start, n), BitAt(data, start + n))[b] = Bits(start, n)[b]
      BY <1>1, <2>3
    <3>2. Bits(start, n)[b] = BitAt(data, start + b - 1)
      BY <2>3 DEF Bits
    <3> QED
      BY <2>1, <3>1, <3>2
  <2>4. b = n + 1 \/ b \in 1..n
    OBVIOUS
  <2> QED
    BY <2>2, <2>3, <2>4
<1>3. /\ Append(Bits(start, n), BitAt(data, start + n)) \in Seq({0, 1})
      /\ Len(Append(Bits(start, n), BitAt(data, start + n))) = n + 1
      /\ n + 1 \in Nat
  <2>1. BitAt(data, start + n) \in {0, 1}
    BY DEF BitAt
  <2> QED
    BY <1>1, <2>1
<1>4. Bits(start, n + 1) \in Seq({0, 1}) /\ Len(Bits(start, n + 1)) = n + 1
  BY <1>1, <1>3
<1> QED
  BY <1>1, <1>2, <1>3, <1>4, SameBits

\* A round emits the next bit.
LEMMA RoundEmits ==
    ASSUME data \in Seq(Nat \ {0}), data # <<>>, NEW k \in Nat, NEW bits,
           NEW r \in Nat, NEW b \in Nat, Reached(k, r, b)
    PROVE  \E nr, nb \in Nat :
             /\ NextBit([raw |-> r, buffer |-> b, bits |-> bits])
                  = [raw |-> nr, buffer |-> nb, bits |-> Append(bits, BitAt(data, k))]
             /\ Reached(k + 1, nr, nb)
<1> DEFINE s == [raw |-> r, buffer |-> b, bits |-> bits]
<1>1. /\ Len(data) \in Nat /\ Len(data) >= 1 /\ Len(data) \in 1..Len(data)
      /\ \A i \in 1..Len(data) : data[i] \in Nat /\ data[i] > 0
  OBVIOUS
<1>2. r \in 1..(Len(data) + 1)
  BY DEF Reached
<1>3. s.raw = r /\ s.buffer = b /\ s.bits = bits
  OBVIOUS
<1>4. StartOf(data, r) \in Nat
  BY <1>2, Starts
<1>5. SUFFICES \E nr, nb \in Nat :
         /\ NextBit(s) = [raw |-> nr, buffer |-> nb, bits |-> Append(bits, BitAt(data, k))]
         /\ Reached(k + 1, nr, nb)
  OBVIOUS
<1> HIDE DEF s
<1>6. CASE b = 0 /\ r = Len(data) + 1
  <2>1. NextBit(s) = [raw |-> r, buffer |-> b, bits |-> Append(bits, 0)]
    <3>1. NoMoreBits(s)
      BY <1>1, <1>3, <1>6 DEF NoMoreBits
    <3> QED
      BY <3>1 DEF NextBit, s
  <2>2. StartOf(data, Len(data) + 1) <= k
    BY <1>2, <1>6 DEF Reached
  <2>3. BitAt(data, k) = 0
    <3>1. EndOf(data, Len(data)) \in Nat /\ EndOf(data, Len(data)) + 1 = StartOf(data, Len(data) + 1)
      BY <1>1, Starts
    <3>2. k > EndOf(data, Len(data))
      BY <1>1, <2>2, <3>1
    <3> QED
      BY <3>2 DEF BitAt
  <2>4. Reached(k + 1, r, b)
    <3>1. StartOf(data, r) <= k + 1
      BY <1>1, <1>4, <1>6, <2>2
    <3> QED
      BY <1>2, <1>6, <3>1 DEF Reached
  <2> QED
    BY <1>1, <1>2, <2>1, <2>3, <2>4
<1>7. CASE b = 0 /\ r # Len(data) + 1
  <2>1. r \in 1..Len(data) /\ data[r] \in Nat /\ data[r] > 0 /\ k = StartOf(data, r)
    <3>1. k + 0 = StartOf(data, r)
      BY <1>2, <1>7 DEF Reached
    <3> QED
      BY <1>1, <1>2, <1>7, <3>1
  <2>2. NextBit(s) = [raw |-> r + 1, buffer |-> data[r] - 1,
                      bits |-> Append(bits, IF data[r] > 1 THEN 1 ELSE 0)]
    <3>1. ~NoMoreBits(s) /\ Fetched(s) = data[r]
      BY <1>1, <1>2, <1>3, <1>7, <2>1 DEF NoMoreBits, Fetched
    <3> QED
      BY <1>3, <1>7, <3>1 DEF NextBit, WithBit
  <2>3. /\ StartOf(data, r + 1) = StartOf(data, r) + data[r]
        /\ EndOf(data, r) = k + data[r] - 1
    BY <2>1, Starts DEF EndOf
  <2>4. BitAt(data, k) = IF data[r] > 1 THEN 1 ELSE 0
    <3>1. k \in StartOf(data, r)..EndOf(data, r) /\ (k = EndOf(data, r) <=> ~(data[r] > 1))
      BY <1>1, <2>1, <2>3
    <3> QED
      BY <2>1, <3>1, BitsOfValue
  <2>5. Reached(k + 1, r + 1, data[r] - 1)
    <3>1. (k + 1) + (data[r] - 1) = StartOf(data, r + 1) /\ StartOf(data, r + 1) \in Nat
      BY <1>1, <2>1, <2>3
    <3>2. /\ r + 1 \in 1..(Len(data) + 1) /\ data[r] - 1 \in Nat /\ r + 1 # 1
          /\ (r + 1) - 1 = r /\ data[r] - 1 < data[r]
      BY <1>1, <2>1
    <3>3. data[r] - 1 = 0 => StartOf(data, r + 1) <= k + 1
      BY <1>1, <3>1
    <3> QED
      BY <3>1, <3>2, <3>3 DEF Reached
  <2>6. r + 1 \in Nat /\ data[r] - 1 \in Nat
    BY <2>1
  <2> QED
    BY <2>2, <2>4, <2>5, <2>6
<1>8. CASE b # 0
  <2>1. /\ r - 1 \in 1..Len(data) /\ b < data[r - 1] /\ k + b = StartOf(data, r) /\ b > 0
        /\ (r - 1) + 1 = r /\ r # 1 /\ data[r - 1] \in Nat
    <3>1. r # 1 /\ b < data[r - 1] /\ k + b = StartOf(data, r)
      BY <1>2, <1>8 DEF Reached
    <3> QED
      BY <1>1, <1>2, <1>8, <3>1
  <2>2. NextBit(s) = [raw |-> r, buffer |-> b - 1,
                      bits |-> Append(bits, IF b > 1 THEN 1 ELSE 0)]
    <3>1. ~NoMoreBits(s) /\ Fetched(s) = b
      BY <1>3, <1>8 DEF NoMoreBits, Fetched
    <3> QED
      BY <1>3, <1>8, <3>1 DEF NextBit, WithBit
  <2>3. /\ StartOf(data, r) = StartOf(data, r - 1) + data[r - 1]
        /\ EndOf(data, r - 1) \in Nat /\ EndOf(data, r - 1) + 1 = StartOf(data, r)
        /\ StartOf(data, r - 1) \in Nat
    <3>1. r - 1 \in 1..(Len(data) + 1)
      BY <1>1, <2>1
    <3> QED
      BY <2>1, <3>1, Starts
  <2>4. BitAt(data, k) = IF b > 1 THEN 1 ELSE 0
    <3>1. k \in StartOf(data, r - 1)..EndOf(data, r - 1) /\ (k = EndOf(data, r - 1) <=> ~(b > 1))
      <4>1. b \in Nat /\ k \in Nat /\ StartOf(data, r) \in Nat
        BY <1>1, <1>2, <1>4, <2>1, <2>3
      <4> QED
        BY ONLY <2>1, <2>3, <4>1
    <3> QED
      BY <2>1, <3>1, BitsOfValue
  <2>5. Reached(k + 1, r, b - 1)
    <3>1. (k + 1) + (b - 1) = StartOf(data, r)
      BY <1>1, <1>2, <2>1
    <3>2. b - 1 \in Nat /\ b - 1 < data[r - 1] /\ r # 1
      BY <1>2, <2>1
    <3>3. b - 1 = 0 => StartOf(data, r) <= k + 1
      BY <1>1, <1>4, <3>1
    <3> QED
      BY <1>2, <3>1, <3>2, <3>3 DEF Reached
  <2>6. r \in Nat /\ b - 1 \in Nat
    BY <1>2, <2>1
  <2> QED
    BY <2>2, <2>4, <2>5, <2>6
<1> QED
  BY <1>6, <1>7, <1>8

\* The rounds of a loop, from a state on.
Rounds(s, f) == f = [n \in 0..ByteBits |-> IF n = 0 THEN s ELSE NextBit(f[n - 1])]

LEMMA RoundsExist ==
    ASSUME NEW s
    PROVE  \E f : Rounds(s, f)
<1> DEFINE To(n, f) == \A j \in 0..n : f[j] = IF j = 0 THEN s ELSE NextBit(f[j - 1])
           G == {n \in Nat : \E f : To(n, f)}
<1>1. 0 \in G
  <2>1. To(0, [j \in {0} |-> s])
    OBVIOUS
  <2> QED
    BY <2>1
<1>2. ASSUME NEW n \in Nat, n \in G PROVE n + 1 \in G
  <2>1. PICK f : To(n, f)
    BY <1>2
  <2> DEFINE g == [j \in 0..(n + 1) |-> IF j = n + 1 THEN NextBit(f[n]) ELSE f[j]]
  <2>2. ASSUME NEW j \in 0..(n + 1) PROVE g[j] = IF j = 0 THEN s ELSE NextBit(g[j - 1])
    <3>1. CASE j = n + 1
      <4>1. j # 0 /\ j - 1 = n /\ n \in 0..(n + 1) /\ n # n + 1
        BY <3>1
      <4>2. g[n] = f[n] /\ g[j] = NextBit(f[n])
        BY <3>1, <4>1
      <4> QED
        BY <4>1, <4>2
    <3>2. CASE j # n + 1
      <4>1. j \in 0..n /\ g[j] = f[j]
        BY <3>2
      <4>2. f[j] = IF j = 0 THEN s ELSE NextBit(f[j - 1])
        BY <2>1, <4>1
      <4>3. j # 0 => j - 1 \in 0..(n + 1) /\ j - 1 # n + 1
        BY <4>1
      <4>4. j # 0 => g[j - 1] = f[j - 1]
        BY <4>3
      <4> HIDE DEF g
      <4> QED
        BY <4>1, <4>2, <4>4
    <3> QED
      BY <3>1, <3>2
  <2>3. To(n + 1, g)
    BY <2>2
  <2> HIDE DEF To
  <2> QED
    BY <2>3
<1>3. ByteBits \in G /\ ByteBits \in Nat
  <2>1. \A n \in Nat : n \in G
    <3> HIDE DEF G
    <3> QED
      BY <1>1, <1>2, SetOfNumbers
  <2> QED
    BY <2>1, ByteAssumption
<1>4. PICK f : To(ByteBits, f)
  BY <1>3
<1> DEFINE g == [n \in 0..ByteBits |-> f[n]]
<1>5. ASSUME NEW n \in 0..ByteBits PROVE g[n] = IF n = 0 THEN s ELSE NextBit(g[n - 1])
  <2>1. f[n] = IF n = 0 THEN s ELSE NextBit(f[n - 1])
    BY <1>4
  <2>2. n # 0 => n - 1 \in 0..ByteBits
    BY <1>3
  <2>3. g[n] = f[n] /\ (n # 0 => g[n - 1] = f[n - 1])
    BY <2>2
  <2> HIDE DEF g
  <2> QED
    BY <2>1, <2>3
<1>6. g = [n \in 0..ByteBits |-> IF n = 0 THEN s ELSE NextBit(g[n - 1])]
  <2>1. g = [n \in 0..ByteBits |-> g[n]]
    OBVIOUS
  <2> HIDE DEF g
  <2> QED
    BY <1>5, <2>1
<1> HIDE DEF g
<1> QED
  BY <1>6 DEF Rounds

\* After the rounds of a byte, the byte is built.
LEMMA RoundsEmit ==
    ASSUME data \in Seq(Nat \ {0}), data # <<>>, NEW start \in Nat,
           NEW s, IsRound(s, start, 0), NEW f, Rounds(s, f)
    PROVE  IsRound(f[ByteBits], start, ByteBits)
<1> DEFINE G == {n \in Nat : n <= ByteBits => IsRound(f[n], start, n)}
<1>1. ByteBits \in Nat
  BY ByteAssumption
<1>2. \A n \in 0..ByteBits : f[n] = IF n = 0 THEN s ELSE NextBit(f[n - 1])
  BY DEF Rounds
<1>3. 0 \in G
  <2>1. f[0] = s
    BY <1>1, <1>2
  <2> QED
    BY <2>1
<1>4. ASSUME NEW n \in Nat, n \in G PROVE n + 1 \in G
  <2> SUFFICES ASSUME n + 1 <= ByteBits PROVE IsRound(f[n + 1], start, n + 1)
    OBVIOUS
  <2>1. IsRound(f[n], start, n)
    BY <1>1, <1>4
  <2>2. f[n + 1] = NextBit(f[n])
    <3>1. n + 1 \in 0..ByteBits /\ n + 1 # 0 /\ (n + 1) - 1 = n
      BY <1>1
    <3> QED
      BY <1>2, <3>1
  <2>3. PICK r, b \in Nat : /\ f[n] = [raw |-> r, buffer |-> b, bits |-> Bits(start, n)]
                            /\ Reached(start + n, r, b)
    BY <2>1 DEF IsRound
  <2>4. start + n \in Nat /\ (start + n) + 1 = start + (n + 1)
    OBVIOUS
  <2>5. PICK nr, nb \in Nat :
           /\ NextBit([raw |-> r, buffer |-> b, bits |-> Bits(start, n)])
                = [raw |-> nr, buffer |-> nb, bits |-> Append(Bits(start, n), BitAt(data, start + n))]
           /\ Reached((start + n) + 1, nr, nb)
    BY <2>3, <2>4, RoundEmits
  <2>6. Bits(start, n + 1) = Append(Bits(start, n), BitAt(data, start + n))
    BY BitsGrow
  <2> QED
    BY <2>2, <2>3, <2>4, <2>5, <2>6 DEF IsRound
<1>5. \A n \in Nat : n \in G
  <2> HIDE DEF G
  <2> QED
    BY <1>3, <1>4, SetOfNumbers
<1> QED
  BY <1>1, <1>5

\* A byte is built, from the bits that have been emitted.
LEMMA ByteIsBuilt ==
    ASSUME data \in Seq(Nat \ {0}), data # <<>>, NEW start \in Nat,
           Reached(start, raw, buffer), BuildOutBuffer
    PROVE  /\ out_buffer' = Bits(start, ByteBits)
           /\ Reached(start + ByteBits, raw', buffer')
<1> DEFINE s == [raw |-> raw, buffer |-> buffer, bits |-> <<>>]
           round == CHOOSE f : Rounds(s, f)
<1>1. Rounds(s, round)
  BY RoundsExist
<1>2. /\ raw' = round[ByteBits].raw /\ buffer' = round[ByteBits].buffer
      /\ out_buffer' = round[ByteBits].bits
  BY DEF BuildOutBuffer, Rounds
<1>3. IsRound(s, start, 0)
  <2>1. Bits(start, 0) = <<>>
    BY BitsGrow
  <2>2. Reached(start + 0, raw, buffer) /\ raw \in Nat /\ buffer \in Nat
    BY DEF Reached
  <2> QED
    BY <2>1, <2>2 DEF IsRound
<1> HIDE DEF s, round
<1>4. IsRound(round[ByteBits], start, ByteBits)
  BY <1>1, <1>3, RoundsEmit
<1> QED
  BY <1>2, <1>4 DEF IsRound

CodeTypes ==
    /\ data \in Seq(Nat \ {0}) /\ data # <<>>
    /\ raw \in Nat /\ buffer \in Nat /\ eos \in BOOLEAN /\ at_bit \in Nat
    /\ \E fill \in {0, 1} : after = [k \in 1..ByteBits |-> fill]
    /\ decoded \in Seq(Nat) /\ Len(decoded) <= Len(data)
    /\ phase \in {"begin", "encode", "decode"}

\* The bytes in the file and the one that is built are the next bytes of the code; the end of
\* the stream is the end of the byte in which the last value starts.
Encoding ==
    /\ phase = "begin" => Reached(0, raw, buffer) /\ written = <<>> /\ eos = FALSE
    /\ phase = "encode" => \E m \in 0..BytesOf(data) :
          /\ written = Bits(0, ByteBits * m)
          /\ out_buffer = Bits(ByteBits * m, ByteBits)
          /\ Reached(ByteBits * m + ByteBits, raw, buffer)
          /\ eos <=> m = BytesOf(data)
    /\ phase = "decode" => written = FileOf(data, <<>>)

\* The decoder is on the zero of the value that it has read last, unless that is the last one.
Decoding ==
    /\ phase # "decode" => decoded = <<>>
    /\ \A i \in 1..Len(decoded) :
          i < Len(data) \/ Byte(StartOf(data, i)) = Byte(EndOf(data, i)) => decoded[i] = data[i]
    /\ decoded # <<>> /\ Len(decoded) < Len(data) => at_bit = EndOf(data, Len(decoded))

CodeInv == CodeTypes /\ Encoding /\ Decoding

\* Two sequences of bits, joined.
LEMMA JoinedBits ==
    ASSUME NEW u \in Seq({0, 1}), NEW v \in Seq({0, 1}), NEW w \in Seq({0, 1}),
           Len(w) = Len(u) + Len(v),
           \A b \in 1..Len(u) : w[b] = u[b],
           \A b \in 1..Len(v) : w[Len(u) + b] = v[b]
    PROVE  u \o v = w
<1>1. u \o v \in Seq({0, 1}) /\ Len(u \o v) = Len(w) /\ Len(u) \in Nat /\ Len(v) \in Nat
  OBVIOUS
<1>2. ASSUME NEW b \in 1..(Len(u) + Len(v)) PROVE (u \o v)[b] = w[b]
  <2>1. CASE b \in 1..Len(u)
    BY <2>1
  <2>2. CASE b \notin 1..Len(u)
    <3>1. b - Len(u) \in 1..Len(v) /\ Len(u) + (b - Len(u)) = b
      BY <1>1, <2>2
    <3>2. w[b] = v[b - Len(u)]
      BY <3>1
    <3>3. (u \o v)[b] = v[b - Len(u)]
      BY <1>1, <2>2
    <3> QED
      BY <3>2, <3>3
  <2> QED
    BY <2>1, <2>2
<1> QED
  BY <1>1, <1>2, SameBits

LEMMA BitsJoin ==
    ASSUME NEW m \in Nat, NEW n \in Nat
    PROVE  Bits(0, m) \o Bits(m, n) = Bits(0, m + n)
<1> DEFINE u == Bits(0, m)
           v == Bits(m, n)
           w == Bits(0, m + n)
<1>1. 0 \in Nat /\ m + n \in Nat
  OBVIOUS
<1>2. u \in Seq({0, 1}) /\ Len(u) = m /\ v \in Seq({0, 1}) /\ Len(v) = n
  BY <1>1, BitsGrow
<1>3. w \in Seq({0, 1}) /\ Len(w) = m + n
  BY <1>1, BitsGrow
<1>4. \A b \in 1..m : w[b] = u[b]
  BY DEF Bits
<1>5. \A b \in 1..n : w[m + b] = v[b]
  <2> TAKE b \in 1..n
  <2>1. m + b \in 1..(m + n) /\ 0 + (m + b) - 1 = m + b - 1
    OBVIOUS
  <2> QED
    BY <2>1 DEF Bits
<1> HIDE DEF u, v, w
<1>6. u \o v = w
  BY <1>2, <1>3, <1>4, <1>5, JoinedBits
<1> QED
  BY <1>6 DEF u, v, w

\* The number of bytes, of which the last is the one in which the last value starts.
LEMMA BytesAre ==
    ASSUME data \in Seq(Nat \ {0}), data # <<>>
    PROVE  /\ BytesOf(data) \in Nat /\ BytesOf(data) > 0
           /\ StartOf(data, Len(data)) \in Nat
           /\ \A m \in Nat : /\ ByteBits * m \in Nat
                             /\ StartOf(data, Len(data)) < ByteBits * m <=> BytesOf(data) <= m
<1> DEFINE s == StartOf(data, Len(data))
           q == s \div ByteBits
           r == s % ByteBits
<1>1. s \in Nat
  <2>1. Len(data) \in 1..(Len(data) + 1)
    OBVIOUS
  <2> QED
    BY <2>1, Starts
<1>2. BytesOf(data) = q + 1
  BY DEF BytesOf, Byte
<1> HIDE DEF s
<1>3. ByteBits \in Nat /\ ByteBits > 0
  BY ByteAssumption
<1>4. q \in Nat /\ r \in Nat /\ r < ByteBits /\ s = ByteBits * q + r
  BY <1>1, <1>3, Division
<1> HIDE DEF q, r
<1>5. ASSUME NEW m \in Nat PROVE ByteBits * m \in Nat /\ (s < ByteBits * m <=> q < m)
  <2>1. ByteBits * m \in Nat /\ ByteBits * q \in Nat
    BY <1>3, <1>4, Products
  <2>2. q < m => ByteBits * q + ByteBits <= ByteBits * m
    BY <1>3, <1>4, Products
  <2>3. ByteBits * q < ByteBits * m => q < m
    BY <1>3, <1>4, Products
  <2> QED
    BY <1>3, <1>4, <2>1, <2>2, <2>3
<1>6. ASSUME NEW m \in Nat PROVE s < ByteBits * m <=> BytesOf(data) <= m
  <2>1. q + 1 <= m <=> q < m
    BY <1>4
  <2> QED
    BY <1>2, <1>5, <2>1
<1>7. BytesOf(data) \in Nat /\ BytesOf(data) > 0
  BY <1>2, <1>4
<1> QED
  BY <1>1, <1>5, <1>6, <1>7 DEF s

\* The last value has been fetched once the bit in which it starts has been emitted.
LEMMA LastIsFetched ==
    ASSUME data \in Seq(Nat \ {0}), data # <<>>, NEW k \in Nat, NEW r, NEW b, Reached(k, r, b)
    PROVE  r > Len(data) <=> StartOf(data, Len(data)) < k
<1> DEFINE n == Len(data)
<1>1. /\ n \in 1..n /\ n \in 1..(n + 1) /\ n \in Nat /\ data[n] \in Nat /\ data[n] > 0
      /\ n + 1 # 1 /\ (n + 1) - 1 = n
  OBVIOUS
<1>2. r \in 1..(n + 1) /\ b \in Nat
  BY DEF Reached
<1>3. /\ StartOf(data, n) \in Nat /\ StartOf(data, r) \in Nat
      /\ StartOf(data, n + 1) = StartOf(data, n) + data[n]
  BY <1>1, <1>2, Starts
<1>4. CASE r = n + 1
  <2>1. b < data[n] /\ (StartOf(data, n + 1) <= k \/ k + b = StartOf(data, n + 1))
    BY <1>1, <1>4 DEF Reached
  <2> QED
    BY <1>1, <1>2, <1>3, <1>4, <2>1
<1>5. CASE r <= n
  <2>1. k + b = StartOf(data, r)
    BY <1>1, <1>2, <1>5 DEF Reached
  <2>2. StartOf(data, r) <= StartOf(data, n)
    <3>1. CASE r = n
      <4>1. StartOf(data, r) = StartOf(data, n)
        BY <3>1
      <4> HIDE DEF n
      <4> QED
        BY <1>3, <4>1
    <3>2. CASE r < n
      <4>1. r \in 1..n
        BY <1>2, <1>5
      <4>2. EndOf(data, r) < StartOf(data, n) /\ StartOf(data, r) <= EndOf(data, r)
            /\ EndOf(data, r) \in Nat
        BY <1>1, <3>2, <4>1, Starts, Ordered
      <4> QED
        BY <1>3, <4>2
    <3> QED
      <4>1. r = n \/ r < n
        <5>1. r \in Nat /\ n \in Nat /\ r <= n
          BY <1>1, <1>2, <1>5
        <5> HIDE DEF n
        <5> QED
          BY <5>1
      <4> QED
        BY <3>1, <3>2, <4>1
  <2> HIDE DEF n
  <2> QED
    BY <1>1, <1>2, <1>3, <1>5, <2>1, <2>2 DEF n
<1> QED
  BY <1>1, <1>2, <1>4, <1>5

LEMMA CodeInitInv == CodeInit => CodeInv
<1> SUFFICES ASSUME CodeInit PROVE CodeInv
  OBVIOUS
<1>1. data \in Seq(Nat \ {0}) /\ data # <<>>
  <2>1. PICK n \in 0..MaxValues : data \in [1..n -> 1..MaxValue]
    BY DEF CodeInit, SeqOf
  <2>2. n \in Nat /\ 1..MaxValue \subseteq Nat \ {0}
    BY UnaryAssumption
  <2>3. data \in [1..n -> Nat \ {0}]
    BY <2>1, <2>2
  <2> QED
    BY <2>2, <2>3 DEF CodeInit
<1>2. CodeTypes
  <2>1. \E fill \in {0, 1} : after = [k \in 1..ByteBits |-> fill]
    BY DEF CodeInit, Zeros, Ones
  <2>2. Len(data) \in Nat /\ decoded = <<>> /\ decoded \in Seq(Nat) /\ Len(decoded) = 0
    BY <1>1 DEF CodeInit
  <2>3. raw \in Nat /\ buffer \in Nat /\ eos \in BOOLEAN /\ at_bit \in Nat /\ phase = "begin"
    BY DEF CodeInit
  <2>4. Len(decoded) <= Len(data)
    BY <2>2
  <2> QED
    BY <1>1, <2>1, <2>2, <2>3, <2>4 DEF CodeTypes
<1>3. Encoding
  <2>1. StartOf(data, 1) = 0 /\ Len(data) \in Nat /\ Len(data) # 0
    BY <1>1, Starts
  <2>2. Reached(0, 1, 0)
    BY <2>1 DEF Reached
  <2> QED
    BY <2>2 DEF CodeInit, Encoding
<1>4. Decoding
  BY DEF CodeInit, Decoding
<1> QED
  BY <1>2, <1>3, <1>4 DEF CodeInv

\* The first byte is built.
LEMMA BeginKeepsCodeInv == CodeInv /\ Begin => CodeInv'
<1> SUFFICES ASSUME CodeInv, Begin PROVE CodeInv'
  OBVIOUS
<1>1. data \in Seq(Nat \ {0}) /\ data # <<>> /\ ByteBits \in Nat /\ BytesOf(data) \in Nat
      /\ BytesOf(data) > 0
  <2>1. data \in Seq(Nat \ {0}) /\ data # <<>>
    BY DEF CodeInv, CodeTypes
  <2> QED
    BY <2>1, ByteAssumption, BytesAre
<1>2. /\ phase = "begin" /\ phase' = "encode" /\ BuildOutBuffer /\ data' = data /\ eos' = eos
      /\ written' = written /\ after' = after /\ decoded' = decoded /\ at_bit' = at_bit
  BY DEF Begin
<1>3. out_buffer' = Bits(0, ByteBits) /\ Reached(0 + ByteBits, raw', buffer')
  <2>1. Reached(0, raw, buffer)
    BY <1>2 DEF CodeInv, Encoding
  <2> QED
    BY <1>1, <1>2, <2>1, ByteIsBuilt
<1>4. CodeTypes'
  <2>1. raw' \in Nat /\ buffer' \in Nat
    BY <1>3 DEF Reached
  <2> QED
    BY <1>2, <2>1 DEF CodeInv, CodeTypes
<1>5. Encoding'
  <2>1. ByteBits * 0 = 0 /\ ByteBits * 0 + ByteBits = 0 + ByteBits
    BY <1>1
  <2>2. written = Bits(0, ByteBits * 0)
    <3>1. Bits(0, 0) = <<>>
      BY BitsGrow
    <3> QED
      BY <1>2, <2>1, <3>1 DEF CodeInv, Encoding
  <2>3. eos' = FALSE /\ 0 # BytesOf(data) /\ 0 \in 0..BytesOf(data)
    BY <1>1, <1>2 DEF CodeInv, Encoding
  <2>4. /\ written' = Bits(0, ByteBits * 0)' /\ out_buffer' = Bits(ByteBits * 0, ByteBits)'
        /\ Reached(ByteBits * 0 + ByteBits, raw, buffer)' /\ BytesOf(data)' = BytesOf(data)
    BY <1>2, <1>3, <2>1, <2>2 DEF Bits, Reached
  <2>5. \E m \in 0..BytesOf(data)' :
           /\ written' = Bits(0, ByteBits * m)'
           /\ out_buffer' = Bits(ByteBits * m, ByteBits)'
           /\ Reached(ByteBits * m + ByteBits, raw, buffer)'
           /\ eos' <=> m = BytesOf(data)'
    BY <2>3, <2>4
  <2> QED
    BY <1>2, <2>5 DEF Encoding
<1>6. Decoding'
  BY <1>2 DEF CodeInv, Decoding
<1> QED
  BY <1>4, <1>5, <1>6 DEF CodeInv

\* A byte is written and the next one built.
LEMMA PutByteKeepsCodeInv == CodeInv /\ PutByte => CodeInv'
<1> SUFFICES ASSUME CodeInv, PutByte PROVE CodeInv'
  OBVIOUS
<1>1. data \in Seq(Nat \ {0}) /\ data # <<>> /\ ByteBits \in Nat /\ BytesOf(data) \in Nat
      /\ BytesOf(data) > 0
  <2>1. data \in Seq(Nat \ {0}) /\ data # <<>>
    BY DEF CodeInv, CodeTypes
  <2> QED
    BY <2>1, ByteAssumption, BytesAre
<1>2. /\ phase = "encode" /\ phase' = phase /\ BuildOutBuffer /\ data' = data /\ eos = FALSE
      /\ eos' = (raw > Len(data))
      /\ written' = written \o out_buffer
      /\ after' = after /\ decoded' = decoded /\ at_bit' = at_bit
  BY DEF PutByte, AtRawEnd, CodeInv, CodeTypes
<1>3. PICK m \in 0..BytesOf(data) :
          /\ written = Bits(0, ByteBits * m)
          /\ out_buffer = Bits(ByteBits * m, ByteBits)
          /\ Reached(ByteBits * m + ByteBits, raw, buffer)
          /\ eos <=> m = BytesOf(data)
  BY <1>2 DEF CodeInv, Encoding
<1> DEFINE k == ByteBits * m
<1>4. /\ m \in Nat /\ m < BytesOf(data) /\ k \in Nat /\ k + ByteBits \in Nat
      /\ m + 1 \in 0..BytesOf(data) /\ m + 1 \in Nat
      /\ ByteBits * (m + 1) = k + ByteBits
  <2>1. m \in Nat /\ m # BytesOf(data)
    BY <1>2, <1>3
  <2>2. k \in Nat /\ ByteBits * (m + 1) = k + ByteBits
    BY <1>1, <2>1
  <2> QED
    BY <1>1, <1>3, <2>1, <2>2
<1> HIDE DEF k
<1>5. Reached(k + ByteBits, raw, buffer)
  BY <1>3 DEF k
<1>6. /\ out_buffer' = Bits(k + ByteBits, ByteBits)
      /\ Reached((k + ByteBits) + ByteBits, raw', buffer')
  BY <1>1, <1>2, <1>4, <1>5, ByteIsBuilt
<1>7. written' = Bits(0, k + ByteBits)
  BY <1>1, <1>2, <1>3, <1>4, BitsJoin DEF k
<1>8. eos' <=> m + 1 = BytesOf(data)
  <2>1. raw > Len(data) <=> StartOf(data, Len(data)) < k + ByteBits
    BY <1>1, <1>4, <1>5, LastIsFetched
  <2>2. StartOf(data, Len(data)) < ByteBits * (m + 1) <=> BytesOf(data) <= m + 1
    BY <1>1, <1>4, BytesAre
  <2>3. BytesOf(data) <= m + 1 <=> m + 1 = BytesOf(data)
    BY <1>1, <1>4
  <2> QED
    BY <1>2, <1>4, <2>1, <2>2, <2>3
<1>9. CodeTypes'
  <2>1. raw' \in Nat /\ buffer' \in Nat /\ eos' \in BOOLEAN
    BY <1>2, <1>6 DEF Reached
  <2> QED
    BY <1>2, <2>1 DEF CodeInv, CodeTypes
<1>10. Encoding'
  <2>1. /\ written' = Bits(0, ByteBits * (m + 1))'
        /\ out_buffer' = Bits(ByteBits * (m + 1), ByteBits)'
        /\ Reached(ByteBits * (m + 1) + ByteBits, raw, buffer)' /\ BytesOf(data)' = BytesOf(data)
    BY <1>2, <1>4, <1>6, <1>7 DEF Bits, Reached
  <2>2. \E j \in 0..BytesOf(data)' :
           /\ written' = Bits(0, ByteBits * j)'
           /\ out_buffer' = Bits(ByteBits * j, ByteBits)'
           /\ Reached(ByteBits * j + ByteBits, raw, buffer)'
           /\ eos' <=> j = BytesOf(data)'
    BY <1>4, <1>8, <2>1
  <2> QED
    BY <1>2, <2>2 DEF Encoding
<1>11. Decoding'
  BY <1>2 DEF CodeInv, Decoding
<1> QED
  BY <1>9, <1>10, <1>11 DEF CodeInv

\* At the end of the stream the file is complete.
LEMMA EndOfStreamKeepsCodeInv == CodeInv /\ EndOfStream => CodeInv'
<1> SUFFICES ASSUME CodeInv, EndOfStream PROVE CodeInv'
  OBVIOUS
<1>1. /\ phase = "encode" /\ eos = TRUE /\ phase' = "decode"
      /\ data' = data /\ raw' = raw /\ buffer' = buffer /\ out_buffer' = out_buffer /\ eos' = eos
      /\ written' = written /\ after' = after /\ decoded' = decoded /\ at_bit' = at_bit
  BY DEF EndOfStream, encoderVars, CodeInv, CodeTypes
<1>2. CodeTypes'
  BY <1>1 DEF CodeInv, CodeTypes
<1>3. written = FileOf(data, <<>>)
  <2>1. written = Bits(0, ByteBits * BytesOf(data))
    BY <1>1 DEF CodeInv, Encoding
  <2>2. ByteBits * BytesOf(data) \in Nat
    BY BytesAre DEF CodeInv, CodeTypes
  <2> DEFINE n == ByteBits * BytesOf(data)
             g == [b \in 1..n |-> BitAt(data, b - 1)]
  <2>3. Bits(0, n) = g
    <3>1. \A b \in 1..n : 0 + b - 1 = b - 1
      BY <2>2
    <3> HIDE DEF n
    <3> QED
      BY <3>1 DEF Bits
  <2>4. Bits(0, n) \in Seq({0, 1})
    BY <2>2, BitsGrow
  <2>5. \A u \in Seq({0, 1}) : u \o <<>> = u
    OBVIOUS
  <2>6. FileOf(data, <<>>) = g \o <<>>
    BY DEF FileOf
  <2> HIDE DEF n, g
  <2> QED
    BY <2>1, <2>3, <2>4, <2>5, <2>6 DEF n
<1>4. Encoding'
  <2>1. FileOf(data, <<>>)' = FileOf(data, <<>>)
    BY <1>1
  <2> QED
    BY <1>1, <1>3, <2>1 DEF Encoding
<1>5. Decoding'
  BY <1>1 DEF CodeInv, Decoding
<1> QED
  BY <1>2, <1>4, <1>5 DEF CodeInv

\* The bits of the last value that are in the byte in which it starts are in the file.
LEMMA LastByte ==
    ASSUME NEW values \in Seq(Nat \ {0}), values # <<>>, NEW fill \in {0, 1}, NEW f,
           f = FileOf(values, [k \in 1..ByteBits |-> fill]),
           Byte(StartOf(values, Len(values))) = Byte(EndOf(values, Len(values)))
    PROVE  /\ EndOf(values, Len(values)) < Len(f)
           /\ \A b \in 0..EndOf(values, Len(values)) : f[b + 1] = BitAt(values, b)
<1> DEFINE n == Len(values)
           e == EndOf(values, n)
           q == e \div ByteBits
           m == ByteBits * BytesOf(values)
<1>1. ByteBits \in Nat /\ ByteBits > 0 /\ n \in Nat /\ n \in 1..n
  BY ByteAssumption
<1>2. e \in Nat
  BY <1>1, Starts
<1>3. BytesOf(values) = q + 1
  BY DEF BytesOf, Byte
<1>4. \A b \in Nat : b < m => b < Len(f) /\ f[b + 1] = BitAt(values, b)
  BY FileBits
<1> HIDE DEF e
<1>5. q \in Nat /\ e % ByteBits \in Nat /\ e % ByteBits < ByteBits /\ e = ByteBits * q + (e % ByteBits)
  BY <1>1, <1>2, Division
<1> HIDE DEF q
<1>6. m \in Nat /\ e < m
  <2>1. m = ByteBits * q + ByteBits /\ ByteBits * q \in Nat
    BY <1>1, <1>3, <1>5
  <2> HIDE DEF m
  <2> QED
    BY <1>1, <1>2, <1>5, <2>1
<1> HIDE DEF m
<1>7. \A b \in 0..e : b \in Nat /\ b < m
  BY <1>2, <1>6
<1> QED
  BY <1>2, <1>4, <1>6, <1>7 DEF e, n

\* Where a value that is not lost is read, in the file with the bits after it.
LEMMA ValueIsRead ==
    ASSUME CodeTypes, written = FileOf(data, <<>>), NEW i \in 1..Len(data)
    PROVE  /\ ZeroFrom(written \o after, StartOf(data, i)) \in Nat
           /\ StartOf(data, i) \in Nat /\ EndOf(data, i) \in Nat
           /\ StartOf(data, i) <= ZeroFrom(written \o after, StartOf(data, i))
           /\ i < Len(data) \/ Byte(StartOf(data, i)) = Byte(EndOf(data, i)) =>
                 ZeroFrom(written \o after, StartOf(data, i)) = EndOf(data, i)
           /\ EndOf(data, i) - StartOf(data, i) + 1 = data[i]
           /\ EndOf(data, i) + 1 = StartOf(data, i + 1)
<1>1. /\ data \in Seq(Nat \ {0}) /\ data # <<>> /\ Len(data) \in Nat /\ data[i] \in Nat
      /\ i \in 1..(Len(data) + 1)
  BY DEF CodeTypes
<1>2. PICK fill \in {0, 1} : after = [k \in 1..ByteBits |-> fill]
  BY DEF CodeTypes
<1> DEFINE f == written \o after
           s == StartOf(data, i)
           e == EndOf(data, i)
<1>3. f = FileOf(data, [k \in 1..ByteBits |-> fill])
  <2> DEFINE g == [b \in 1..(ByteBits * BytesOf(data)) |-> BitAt(data, b - 1)]
  <2>1. FileOf(data, <<>>) = g \o <<>> /\ FileOf(data, after) = g \o after
    BY DEF FileOf
  <2>2. g \in Seq({0, 1})
    <3>1. ByteBits * BytesOf(data) \in Nat
      BY <1>1, BytesAre
    <3>2. \A b \in 1..(ByteBits * BytesOf(data)) : BitAt(data, b - 1) \in {0, 1}
      BY DEF BitAt
    <3> QED
      BY <3>1, <3>2
  <2>3. \A u \in Seq({0, 1}) : u \o <<>> = u
    OBVIOUS
  <2> HIDE DEF g
  <2>4. FileOf(data, <<>>) = g
    BY <2>1, <2>2, <2>3
  <2> QED
    BY <1>2, <2>1, <2>4
<1> HIDE DEF f
<1>4. /\ s \in Nat /\ e \in Nat /\ s <= e /\ e + 1 = StartOf(data, i + 1)
      /\ e = s + data[i] - 1
  BY <1>1, Starts DEF EndOf
<1>5. IsFile(f)
  BY <1>1, <1>3, FileBits
<1>6. ZeroFrom(f, s) \in Nat /\ s <= ZeroFrom(f, s)
  <2> HIDE DEF s
  <2> QED
    BY <1>4, <1>5, ZeroIsFound
<1>7. i < Len(data) => ZeroFrom(f, s) = e
  <2> SUFFICES ASSUME i # Len(data) PROVE ZeroFrom(f, s) = e
    BY <1>1
  <2> QED
    BY <1>1, <1>3, ValueEnds
<1>8. i = Len(data) /\ Byte(s) = Byte(e) => ZeroFrom(f, s) = e
  <2> SUFFICES ASSUME i = Len(data), Byte(s) = Byte(e) PROVE ZeroFrom(f, s) = e
    OBVIOUS
  <2>1. /\ e < Len(f) /\ \A b \in s..e : f[b + 1] = BitAt(data, b)
    <3>1. e < Len(f) /\ \A b \in 0..e : f[b + 1] = BitAt(data, b)
      BY <1>1, <1>3, LastByte
    <3>2. \A b \in s..e : b \in 0..e
      BY <1>4
    <3> QED
      BY <3>1, <3>2
  <2>2. f[e + 1] = 0
    <3>1. BitAt(data, e) = 0 /\ e \in s..e
      BY <1>4 DEF BitAt
    <3> HIDE DEF s, e
    <3> QED
      BY <2>1, <3>1
  <2>3. \A b \in s..(e - 1) : f[b + 1] = 1
    <3> TAKE b \in s..(e - 1)
    <3>1. b \in s..e /\ b # e
      BY <1>4
    <3>2. BitAt(data, b) = 1
      BY <1>1, <3>1, BitsOfValue
    <3> HIDE DEF s, e
    <3> QED
      BY <2>1, <3>1, <3>2
  <2> HIDE DEF s, e
  <2> QED
    BY <1>4, <1>5, <2>1, <2>2, <2>3, ZeroIsThere
<1>9. e - s + 1 = data[i]
  BY <1>1, <1>4
<1>10. i < Len(data) \/ i = Len(data)
  BY <1>1
<1> QED
  BY <1>4, <1>6, <1>7, <1>8, <1>9, <1>10 DEF f

\* A value is read.
LEMMA ParseReads ==
    ASSUME CodeTypes, written = FileOf(data, <<>>), NEW i \in 1..Len(data),
           Len(decoded) = i - 1, Parse(StartOf(data, i))
    PROVE  /\ at_bit' \in Nat /\ decoded' \in Seq(Nat) /\ Len(decoded') = i
           /\ \A j \in 1..(i - 1) : decoded'[j] = decoded[j]
           /\ i < Len(data) \/ Byte(StartOf(data, i)) = Byte(EndOf(data, i)) =>
                 decoded'[i] = data[i] /\ at_bit' = EndOf(data, i)
<1> DEFINE s == StartOf(data, i)
           z == ZeroFrom(written \o after, s)
<1>1. /\ z \in Nat /\ s \in Nat /\ EndOf(data, i) \in Nat /\ s <= z
      /\ i < Len(data) \/ Byte(s) = Byte(EndOf(data, i)) => z = EndOf(data, i)
      /\ EndOf(data, i) - s + 1 = data[i]
  BY ValueIsRead
<1>2. at_bit' = z /\ decoded' = Append(decoded, z - s + 1)
  BY DEF Parse
<1> HIDE DEF z, s
<1>3. z - s + 1 \in Nat /\ decoded \in Seq(Nat) /\ i \in Nat
  BY <1>1 DEF CodeTypes
<1>4. /\ decoded' \in Seq(Nat) /\ Len(decoded') = i /\ decoded'[i] = z - s + 1
      /\ \A j \in 1..(i - 1) : decoded'[j] = decoded[j]
  BY <1>2, <1>3
<1> QED
  BY <1>1, <1>2, <1>4 DEF s

\* What a step of the decoder leaves as it is.
LEMMA DecodingKeeps ==
    ASSUME CodeInv, phase = "decode", NEW i \in 1..Len(data), Len(decoded) = i - 1,
           Parse(StartOf(data, i)), UNCHANGED <<data, encoderVars, written, after, phase>>
    PROVE  CodeInv'
<1>1. /\ data' = data /\ raw' = raw /\ buffer' = buffer /\ out_buffer' = out_buffer /\ eos' = eos
      /\ written' = written /\ after' = after /\ phase' = phase
      /\ written = FileOf(data, <<>>) /\ i \in Nat /\ Len(data) \in Nat /\ i <= Len(data)
  BY DEF encoderVars, CodeInv, CodeTypes, Encoding
<1>2. /\ at_bit' \in Nat /\ decoded' \in Seq(Nat) /\ Len(decoded') = i
      /\ \A j \in 1..(i - 1) : decoded'[j] = decoded[j]
      /\ i < Len(data) \/ Byte(StartOf(data, i)) = Byte(EndOf(data, i)) =>
            decoded'[i] = data[i] /\ at_bit' = EndOf(data, i)
  BY <1>1, ParseReads DEF CodeInv
<1>3. CodeTypes'
  BY <1>1, <1>2 DEF CodeInv, CodeTypes
<1>4. Encoding'
  <2>1. FileOf(data, <<>>)' = FileOf(data, <<>>)
    BY <1>1
  <2> QED
    BY <1>1, <2>1 DEF Encoding
<1>5. Decoding'
  <2>1. ASSUME NEW j \in 1..i, j < Len(data) \/ Byte(StartOf(data, j)) = Byte(EndOf(data, j))
        PROVE  decoded'[j] = data[j]
    <3>1. CASE j = i
      BY <1>2, <2>1, <3>1
    <3>2. CASE j \in 1..(i - 1)
      <4>1. decoded[j] = data[j]
        BY <2>1, <3>2 DEF CodeInv, Decoding
      <4> QED
        BY <1>2, <3>2, <4>1
    <3>3. j = i \/ j \in 1..(i - 1)
      BY <1>1
    <3> QED
      BY <3>1, <3>2, <3>3
  <2>2. phase' = "decode"
    BY <1>1
  <2>3. \A j \in 1..Len(decoded') :
           j < Len(data) \/ Byte(StartOf(data, j)) = Byte(EndOf(data, j)) => decoded'[j] = data[j]
    BY <1>2, <2>1
  <2>4. Len(decoded') < Len(data) => at_bit' = EndOf(data, Len(decoded'))
    BY <1>2
  <2> QED
    BY <1>1, <2>2, <2>3, <2>4 DEF Decoding
<1> QED
  BY <1>3, <1>4, <1>5 DEF CodeInv

LEMMA DecodeFirstKeepsCodeInv == CodeInv /\ DecodeFirst => CodeInv'
<1> SUFFICES ASSUME CodeInv, DecodeFirst PROVE CodeInv'
  OBVIOUS
<1>1. 1 \in 1..Len(data) /\ Len(decoded) = 1 - 1 /\ phase = "decode"
  BY DEF CodeInv, CodeTypes, DecodeFirst
<1>2. StartOf(data, 1) = 0
  BY Starts DEF CodeInv, CodeTypes
<1>3. Parse(StartOf(data, 1)) /\ UNCHANGED <<data, encoderVars, written, after, phase>>
  BY <1>2 DEF DecodeFirst
<1> QED
  BY <1>1, <1>3, DecodingKeeps

\* The next value starts before the end of the bytes, so it is read.
LEMMA DecodeNextKeepsCodeInv == CodeInv /\ DecodeNext => CodeInv'
<1> SUFFICES ASSUME CodeInv, DecodeNext PROVE CodeInv'
  OBVIOUS
<1> DEFINE n == Len(data)
           i == Len(decoded) + 1
<1>1. /\ phase = "decode" /\ decoded # <<>> /\ Len(decoded) < n
      /\ written = FileOf(data, <<>>) /\ at_bit = EndOf(data, Len(decoded))
      /\ data \in Seq(Nat \ {0}) /\ data # <<>> /\ decoded \in Seq(Nat)
      /\ UNCHANGED <<data, encoderVars, written, after, phase>>
  BY DEF CodeInv, CodeTypes, Encoding, Decoding, DecodeNext
<1>2. /\ n \in Nat /\ n \in 1..n /\ n \in 1..(n + 1) /\ Len(decoded) \in 1..n /\ i \in 1..n /\ i \in Nat
      /\ Len(decoded) = i - 1 /\ (i = n \/ i < n) /\ i \in 1..(n + 1)
  BY <1>1
<1>3. NextStart = StartOf(data, i) /\ StartOf(data, i) \in Nat
  <2>1. EndOf(data, Len(decoded)) + 1 = StartOf(data, Len(decoded) + 1)
    BY <1>1, <1>2, Starts
  <2>2. StartOf(data, i) \in Nat
    BY <1>1, <1>2, Starts
  <2> QED
    BY <1>1, <2>1, <2>2 DEF NextStart
<1>4. StartOf(data, i) <= StartOf(data, n) /\ StartOf(data, n) \in Nat
  <2>1. StartOf(data, n) \in Nat
    BY <1>1, <1>2, Starts
  <2>2. CASE i = n
    BY <1>3, <2>1, <2>2
  <2>3. CASE i < n
    <3>1. EndOf(data, i) < StartOf(data, n) /\ StartOf(data, i) <= EndOf(data, i) /\ EndOf(data, i) \in Nat
      BY <1>1, <1>2, <2>3, Starts, Ordered
    <3> QED
      BY <1>3, <2>1, <3>1
  <2> QED
    BY <1>2, <2>2, <2>3
<1>5. ByteBits * Byte(NextStart) # Len(written)
  <2> DEFINE s == StartOf(data, i)
             q == s \div ByteBits
             m == ByteBits * BytesOf(data)
  <2>1. ByteBits \in Nat /\ ByteBits > 0
    BY ByteAssumption
  <2>2. BytesOf(data) \in Nat /\ StartOf(data, n) < m /\ m \in Nat
    BY <1>1, <1>2, BytesAre
  <2>3. Len(written) = m
    <3>1. [b \in 1..m |-> BitAt(data, b - 1)] \in Seq({0, 1}) /\ Len([b \in 1..m |-> BitAt(data, b - 1)]) = m
      <4>1. \A b \in 1..m : BitAt(data, b - 1) \in {0, 1}
        BY DEF BitAt
      <4> QED
        BY <2>2, <4>1
    <3>2. \A u \in Seq({0, 1}) : u \o <<>> = u
      OBVIOUS
    <3>3. FileOf(data, <<>>) = [b \in 1..m |-> BitAt(data, b - 1)] \o <<>>
      BY DEF FileOf
    <3> HIDE DEF m
    <3> QED
      BY <1>1, <3>1, <3>2, <3>3
  <2> HIDE DEF s, m
  <2>4. s \in Nat /\ s < m
    BY <1>3, <1>4, <2>2 DEF s
  <2>5. q \in Nat /\ s % ByteBits \in Nat /\ s = ByteBits * q + (s % ByteBits)
    BY <2>1, <2>4, Division
  <2> HIDE DEF q
  <2>6. ByteBits * q # m
    BY <2>1, <2>2, <2>4, <2>5
  <2> QED
    BY <1>3, <2>3, <2>6 DEF Byte, q, s
<1>6. Parse(NextStart)
  BY <1>5 DEF DecodeNext
<1>7. Parse(StartOf(data, i))
  BY <1>3, <1>6
<1> QED
  BY <1>1, <1>2, <1>7, DecodingKeeps

LEMMA CodeNextKeepsInv == CodeInv /\ [CodeNext]_codeVars => CodeInv'
<1>1. CodeInv /\ UNCHANGED codeVars => CodeInv'
  BY DEF codeVars, encoderVars, CodeInv, CodeTypes, Encoding, Decoding, Reached, Bits
<1>2. CodeInv /\ Done => CodeInv'
  BY <1>1 DEF Done
<1> QED
  BY <1>1, <1>2, BeginKeepsCodeInv, PutByteKeepsCodeInv, EndOfStreamKeepsCodeInv,
     DecodeFirstKeepsCodeInv, DecodeNextKeepsCodeInv DEF CodeNext

\* The code of a list of values, at every moment of writing and reading it: the bytes in the
\* file are the first ones of the code, the encoder's state is what is left of the values, and
\* the decoder is on the zero of the value it has read last.
THEOREM UnaryCodeInvariant == CodeSpec => []CodeInv
<1>1. CodeInit => CodeInv
  BY CodeInitInv
<1>2. CodeInv /\ [CodeNext]_codeVars => CodeInv'
  BY CodeNextKeepsInv
<1> QED
  BY <1>1, <1>2, PTL DEF CodeSpec

\* The encoder writes each value v as v-1 ones and a zero, across the bytes, and stops after the
\* byte in which the last value starts, for any values and any size of a byte.
THEOREM EncoderWritesCode == CodeSpec => []EncoderEmits
<1>1. CodeInv => EncoderEmits
  BY DEF CodeInv, Encoding, EncoderEmits
<1> QED
  BY <1>1, UnaryCodeInvariant, PTL

\* Every value is read back, whatever follows the bytes in the file, but for the last one of a
\* list if it does not end in the byte in which it starts.
THEOREM DecoderReadsValues == CodeSpec => []OnlyLastValueIsLost
<1>1. CodeInv => OnlyLastValueIsLost
  <2> SUFFICES ASSUME CodeInv PROVE OnlyLastValueIsLost
    OBVIOUS
  <2>1. DOMAIN decoded = 1..Len(decoded)
    BY DEF CodeInv, CodeTypes
  <2> QED
    BY <2>1 DEF CodeInv, Decoding, OnlyLastValueIsLost
<1> QED
  BY <1>1, UnaryCodeInvariant, PTL

-----------------------------------------------------------------------------
(* The variable-byte code.                                                 *)

\* The bytes of a number are those of its lowest digit and of the rest.
Unfolds(n, e) == IF n < Radix THEN <<n>> ELSE <<Radix + (n % Radix)>> \o e

\* The rest of a number is smaller.
LEMMA RestIsSmaller ==
    ASSUME NEW n \in Nat, ~(n < Radix)
    PROVE  /\ n \div Radix \in Nat /\ n \div Radix < n
           /\ n % Radix \in Nat /\ n % Radix < Radix
           /\ n = Radix * (n \div Radix) + (n % Radix)
<1>1. Radix \in Nat /\ Radix >= 2
  BY RadixAssumption
<1> DEFINE q == n \div Radix
           r == n % Radix
<1>2. q \in Nat /\ r \in Nat /\ r < Radix /\ n = Radix * q + r
  BY <1>1, Division
<1> HIDE DEF q, r
<1>3. q < n
  <2>1. CASE q = 0
    BY <1>1, <2>1
  <2>2. CASE q # 0
    <3>1. Radix * q >= 2 * q
      <4>1. \A a, b, c \in Nat : a >= b => c * a >= c * b
        BY Z3
      <4>2. q * Radix >= q * 2 /\ q * Radix = Radix * q
        BY <1>1, <1>2, <4>1
      <4> QED
        BY <1>2, <4>2
    <3>2. Radix * q \in Nat
      BY <1>1, <1>2
    <3> QED
      BY <1>2, <2>2, <3>1, <3>2
  <2> QED
    BY <2>1, <2>2
<1> QED
  BY <1>2, <1>3 DEF q, r

\* What the code of a number is: its lowest digit, and the code of the rest after it.
LEMMA EncodedIs ==
    ASSUME NEW n \in Nat
    PROVE  Encoded[n] = IF n < Radix THEN <<n>> ELSE <<Radix + (n % Radix)>> \o Encoded[n \div Radix]
<1> DEFINE To(k, f) == f = [m \in 0..k |-> Unfolds(m, f[m \div Radix])]
           E(k) == CHOOSE f : To(k, f)
           e == [m \in Nat |-> E(m)[m]]
<1>1. \A k \in Nat : \E f : To(k, f)
  <2> DEFINE G == {k \in Nat : \E f : To(k, f)}
  <2>1. 0 \in G
    <3>1. 0 < Radix
      BY RadixAssumption
    <3>2. To(0, [m \in 0..0 |-> <<0>>])
      BY <3>1 DEF Unfolds
    <3> QED
      BY <3>2
  <2>2. ASSUME NEW k \in Nat, k \in G PROVE k + 1 \in G
    <3>1. PICK f : To(k, f)
      BY <2>2
    <3> DEFINE g == [m \in 0..(k + 1) |-> IF m = k + 1 THEN Unfolds(m, f[m \div Radix]) ELSE f[m]]
    <3>2. ASSUME NEW m \in 0..(k + 1) PROVE g[m] = Unfolds(m, g[m \div Radix])
      <4>1. g[m] = Unfolds(m, f[m \div Radix])
        BY <3>1
      <4>2. CASE m < Radix
        BY <4>1, <4>2 DEF Unfolds
      <4>3. CASE ~(m < Radix)
        <5>1. m \in Nat /\ m \div Radix \in Nat /\ m \div Radix < m
          BY <4>3, RestIsSmaller
        <5>2. m \div Radix \in 0..(k + 1) /\ m \div Radix # k + 1
          BY <5>1
        <5>3. g[m \div Radix] = f[m \div Radix]
          BY <5>2
        <5> QED
          BY <4>1, <5>3
      <4> QED
        BY <4>2, <4>3
    <3>3. g = [m \in 0..(k + 1) |-> g[m]]
      OBVIOUS
    <3> HIDE DEF g
    <3>4. To(k + 1, g)
      BY <3>2, <3>3
    <3> HIDE DEF To
    <3> QED
      BY <3>4
  <2>3. \A k \in Nat : k \in G
    <3> HIDE DEF G
    <3> QED
      BY <2>1, <2>2, SetOfNumbers
  <2> QED
    BY <2>3
<1>2. \A k \in Nat : To(k, E(k))
  BY <1>1
<1>3. ASSUME NEW k \in Nat, NEW m \in 0..k PROVE E(k)[m] = Unfolds(m, E(k)[m \div Radix])
  <2>1. To(k, E(k))
    BY <1>2
  <2> HIDE DEF E
  <2> QED
    BY <2>1
<1> HIDE DEF E, To
<1>4. ASSUME NEW j \in Nat, NEW k \in Nat
      PROVE  \A m \in Nat : m <= j /\ m <= k => E(j)[m] = E(k)[m]
  <2> DEFINE G == {m \in Nat : m <= j /\ m <= k => E(j)[m] = E(k)[m]}
  <2>1. ASSUME NEW m \in Nat, \A p \in 0..(m - 1) : p \in G PROVE m \in G
    <3> SUFFICES ASSUME m <= j, m <= k PROVE E(j)[m] = E(k)[m]
      OBVIOUS
    <3>1. /\ E(j)[m] = Unfolds(m, E(j)[m \div Radix])
          /\ E(k)[m] = Unfolds(m, E(k)[m \div Radix])
      <4>1. m \in 0..j /\ m \in 0..k
        OBVIOUS
      <4> QED
        BY <1>3, <4>1
    <3>2. CASE m < Radix
      BY <3>1, <3>2 DEF Unfolds
    <3>3. CASE ~(m < Radix)
      <4>1. m \div Radix \in Nat /\ m \div Radix < m
        BY <3>3, RestIsSmaller
      <4>2. m \div Radix \in 0..(m - 1) /\ m \div Radix <= j /\ m \div Radix <= k
        BY <4>1
      <4>3. E(j)[m \div Radix] = E(k)[m \div Radix]
        BY <2>1, <4>1, <4>2
      <4> QED
        BY <3>1, <4>3
    <3> QED
      BY <3>2, <3>3
  <2> HIDE DEF G
  <2>2. \A m \in Nat : m \in G
    BY <2>1, FromSmaller
  <2> QED
    BY <2>2 DEF G
<1>5. ASSUME NEW m \in Nat PROVE e[m] = Unfolds(m, e[m \div Radix])
  <2>1. e[m] = Unfolds(m, E(m)[m \div Radix])
    <3>1. m \in 0..m
      OBVIOUS
    <3> QED
      BY <1>3, <3>1
  <2>2. CASE m < Radix
    BY <2>1, <2>2 DEF Unfolds
  <2>3. CASE ~(m < Radix)
    <3>1. m \div Radix \in Nat /\ m \div Radix < m
      BY <2>3, RestIsSmaller
    <3>2. E(m)[m \div Radix] = E(m \div Radix)[m \div Radix]
      <4>1. m \div Radix <= m /\ m \div Radix <= m \div Radix
        BY <3>1
      <4> QED
        BY <1>4, <3>1, <4>1
    <3> QED
      BY <2>1, <3>1, <3>2
  <2> QED
    BY <2>2, <2>3
<1>6. e = [m \in Nat |-> Unfolds(m, e[m \div Radix])]
  <2>1. e = [m \in Nat |-> e[m]]
    OBVIOUS
  <2> HIDE DEF e
  <2> QED
    BY <1>5, <2>1
<1> HIDE DEF e
<1>7. Encoded = [m \in Nat |-> Unfolds(m, Encoded[m \div Radix])]
  <2>1. Encoded = CHOOSE f : f = [m \in Nat |-> Unfolds(m, f[m \div Radix])]
    BY DEF Encoded, Unfolds
  <2> QED
    BY <1>6, <2>1
<1>8. Encoded[n] = Unfolds(n, Encoded[n \div Radix])
  BY <1>7
<1> QED
  BY <1>8 DEF Unfolds

\* All the bytes of a number but its last say that another follows, and the last one does not.
LEMMA EncodedBytes ==
    ASSUME NEW n \in Nat
    PROVE  /\ Encoded[n] \in Seq(Nat) /\ Len(Encoded[n]) \in Nat /\ Len(Encoded[n]) >= 1
           /\ \A j \in 1..(Len(Encoded[n]) - 1) : Encoded[n][j] >= Radix
           /\ Encoded[n][Len(Encoded[n])] < Radix
<1> DEFINE Good(m) == /\ Encoded[m] \in Seq(Nat) /\ Len(Encoded[m]) \in Nat /\ Len(Encoded[m]) >= 1
                      /\ \A j \in 1..(Len(Encoded[m]) - 1) : Encoded[m][j] >= Radix
                      /\ Encoded[m][Len(Encoded[m])] < Radix
           G == {m \in Nat : Good(m)}
<1>1. ASSUME NEW m \in Nat, \A p \in 0..(m - 1) : p \in G PROVE m \in G
  <2>1. CASE m < Radix
    <3>1. Encoded[m] = <<m>>
      BY <2>1, EncodedIs
    <3>2. <<m>> \in Seq(Nat) /\ Len(<<m>>) = 1 /\ <<m>>[1] = m
      OBVIOUS
    <3>3. Good(m)
      BY <2>1, <3>1, <3>2
    <3> QED
      BY <3>3
  <2>2. CASE ~(m < Radix)
    <3> DEFINE q == m \div Radix
               r == m % Radix
               e == Encoded[q]
    <3>1. q \in Nat /\ q < m /\ r \in Nat /\ Radix \in Nat
      BY <2>2, RestIsSmaller, RadixAssumption
    <3>2. Encoded[m] = <<Radix + r>> \o e
      BY <2>2, EncodedIs
    <3>3. Good(q)
      <4>1. q \in 0..(m - 1)
        BY <3>1
      <4> HIDE DEF Good, q
      <4> QED
        BY <1>1, <4>1
    <3>4. /\ e \in Seq(Nat) /\ Len(e) \in Nat /\ Len(e) >= 1
          /\ \A j \in 1..(Len(e) - 1) : e[j] >= Radix
          /\ e[Len(e)] < Radix
      BY <3>3
    <3> HIDE DEF e, q, r
    <3>5. /\ <<Radix + r>> \o e \in Seq(Nat) /\ Len(<<Radix + r>> \o e) = Len(e) + 1
          /\ (<<Radix + r>> \o e)[1] = Radix + r
          /\ \A j \in 1..Len(e) : (<<Radix + r>> \o e)[j + 1] = e[j]
      BY <3>1, <3>4
    <3> DEFINE w == Encoded[m]
    <3>6. /\ w \in Seq(Nat) /\ Len(w) = Len(e) + 1 /\ w[1] = Radix + r
          /\ \A j \in 1..Len(e) : w[j + 1] = e[j]
      BY <3>2, <3>5
    <3> HIDE DEF w
    <3>7. ASSUME NEW j \in 1..(Len(w) - 1) PROVE w[j] >= Radix
      <4>1. CASE j = 1
        BY <3>1, <3>6, <4>1
      <4>2. CASE j # 1
        <5>1. j - 1 \in 1..(Len(e) - 1) /\ j - 1 \in 1..Len(e) /\ (j - 1) + 1 = j
          BY <3>4, <3>6, <4>2
        <5>2. w[(j - 1) + 1] = e[j - 1] /\ e[j - 1] >= Radix
          BY <3>4, <3>6, <5>1
        <5> QED
          BY <5>1, <5>2
      <4> QED
        BY <4>1, <4>2
    <3>8. w[Len(w)] < Radix
      <4>1. Len(e) \in 1..Len(e)
        BY <3>4
      <4> QED
        BY <3>4, <3>6, <4>1
    <3>9. Len(w) \in Nat /\ Len(w) >= 1
      BY <3>4, <3>6
    <3>10. Good(m)
      BY ONLY <3>6, <3>7, <3>8, <3>9 DEF w
    <3> HIDE DEF Good, w
    <3> QED
      BY ONLY <3>10, m \in Nat
  <2> QED
    BY <2>1, <2>2
<1>2. \A m \in Nat : m \in G
  <2> HIDE DEF G
  <2> QED
    BY <1>1, FromSmaller
<1> QED
  BY <1>2

Size(n) == Len(Encoded[n])

\* The bytes after an offset are those of a number.
NumberAt(bytes, s, n) ==
    /\ s \in Nat /\ n \in Nat /\ s + Size(n) <= Len(bytes)
    /\ \A j \in 1..Size(n) : bytes[s + j] = Encoded[n][j]

\* From the most significant byte down, the bytes make the number.
LEMMA DigitsMakeNumber ==
    ASSUME NEW n \in Nat
    PROVE  \A bytes \in Seq(Nat) : \A s, last \in Nat : \A high :
              /\ NumberAt(bytes, s, n) /\ last + 1 = s + Size(n)
              /\ high[0] = 0
              /\ \A d \in 1..Size(n) : high[d] = (bytes[last + 2 - d] % Radix) + Radix * high[d - 1]
              => high[Size(n)] = n
<1> DEFINE Good(m) ==
             \A bytes \in Seq(Nat) : \A s, last \in Nat : \A high :
                /\ NumberAt(bytes, s, m) /\ last + 1 = s + Size(m)
                /\ high[0] = 0
                /\ \A d \in 1..Size(m) : high[d] = (bytes[last + 2 - d] % Radix) + Radix * high[d - 1]
                => high[Size(m)] = m
           G == {m \in Nat : Good(m)}
<1>1. ASSUME NEW m \in Nat, \A p \in 0..(m - 1) : p \in G PROVE m \in G
  <2> SUFFICES ASSUME NEW bytes \in Seq(Nat), NEW s \in Nat, NEW last \in Nat, NEW high,
                      NumberAt(bytes, s, m), last + 1 = s + Size(m), high[0] = 0,
                      \A d \in 1..Size(m) :
                         high[d] = (bytes[last + 2 - d] % Radix) + Radix * high[d - 1]
               PROVE  high[Size(m)] = m
    OBVIOUS
  <2>0. Radix \in Nat /\ Radix >= 2
    BY RadixAssumption
  <2>1. /\ Size(m) \in Nat /\ Size(m) >= 1
        /\ \A j \in 1..Size(m) : bytes[s + j] = Encoded[m][j]
    BY EncodedBytes DEF Size, NumberAt
  <2>2. /\ bytes[s + 1] = Encoded[m][1]
        /\ high[Size(m)] = (bytes[s + 1] % Radix) + Radix * high[Size(m) - 1]
    <3>1. last + 2 - Size(m) = s + 1 /\ 1 \in 1..Size(m) /\ Size(m) \in 1..Size(m)
      BY <2>1
    <3> QED
      BY <2>1, <3>1
  <2>3. CASE m < Radix
    <3>1. Encoded[m] = <<m>>
      BY <2>3, EncodedIs
    <3>2. Size(m) = 1 /\ Encoded[m][1] = m
      BY <3>1 DEF Size
    <3>3. m % Radix = m
      <4>1. Radix * 0 + m = m
        BY <2>0
      <4>2. (Radix * 0 + m) % Radix = m
        BY <2>0, <2>3, Quotient
      <4> QED
        BY <4>1, <4>2
    <3> QED
      BY <2>0, <2>2, <3>2, <3>3
  <2>4. CASE ~(m < Radix)
    <3> DEFINE q == m \div Radix
               r == m % Radix
    <3>1. q \in Nat /\ q < m /\ r \in Nat /\ r < Radix /\ m = Radix * q + r
      BY <2>4, RestIsSmaller
    <3>2. Encoded[m] = <<Radix + r>> \o Encoded[q]
      BY <2>4, EncodedIs
    <3>3. Good(q)
      <4>1. q \in 0..(m - 1)
        BY <3>1
      <4> HIDE DEF Good, q
      <4> QED
        BY <1>1, <4>1
    <3> HIDE DEF q, r
    <3>4. Encoded[q] \in Seq(Nat) /\ Size(q) \in Nat /\ Size(q) >= 1 /\ Size(q) = Len(Encoded[q])
      BY <3>1, EncodedBytes DEF Size
    <3>5. /\ Size(m) = Size(q) + 1 /\ Encoded[m][1] = Radix + r
          /\ \A j \in 1..Size(q) : Encoded[m][j + 1] = Encoded[q][j]
      BY <2>0, <3>1, <3>2, <3>4 DEF Size
    <3>6. NumberAt(bytes, s + 1, q)
      <4>1. s + Size(m) <= Len(bytes) /\ Len(bytes) \in Nat
        BY DEF NumberAt
      <4>2. s + 1 \in Nat /\ (s + 1) + Size(q) <= Len(bytes)
        <5>1. Size(q) \in Nat /\ Size(m) = Size(q) + 1
          BY <3>4, <3>5
        <5> QED
          BY ONLY <4>1, <5>1, s \in Nat
      <4>3. ASSUME NEW j \in 1..Size(q) PROVE bytes[(s + 1) + j] = Encoded[q][j]
        <5>1. j + 1 \in 1..Size(m) /\ (s + 1) + j = s + (j + 1)
          BY <3>4, <3>5
        <5> QED
          BY <2>1, <3>5, <5>1
      <4> QED
        BY <3>1, <4>2, <4>3 DEF NumberAt
    <3>7. \A d \in 1..Size(q) : d \in 1..Size(m)
      BY <3>4, <3>5
    <3>8. last + 1 = (s + 1) + Size(q) /\ s + 1 \in Nat
      <4>1. Size(q) \in Nat /\ Size(m) = Size(q) + 1
        BY <3>4, <3>5
      <4> QED
        BY ONLY <4>1, last + 1 = s + Size(m), s \in Nat, last \in Nat
    <3>9. high[Size(q)] = q
      BY <3>3, <3>6, <3>7, <3>8
    <3>10. (Radix + r) % Radix = r
      <4>1. Radix * 1 + r = Radix + r
        BY <2>0
      <4>2. (Radix * 1 + r) % Radix = r
        BY <2>0, <3>1, Quotient
      <4> QED
        BY <4>1, <4>2
    <3>11. Size(m) - 1 = Size(q)
      BY <3>4, <3>5
    <3>12. high[Size(m)] = r + Radix * q
      BY <2>2, <3>5, <3>9, <3>10, <3>11
    <3>13. Radix * q \in Nat
      BY <2>0, <3>1
    <3> QED
      BY <3>1, <3>12, <3>13
  <2> QED
    BY <2>3, <2>4
<1>2. \A m \in Nat : m \in G
  <2> HIDE DEF G
  <2> QED
    BY <1>1, FromSmaller
<1> QED
  BY <1>2

\* parse_and_align reads the number that is there, and goes to the byte after it.
LEMMA NumberIsParsed ==
    ASSUME NEW bytes \in Seq(Nat), NEW s, NEW n, NumberAt(bytes, s, n)
    PROVE  ParseAndAlign(bytes, s) = [datum |-> n, next |-> s + Size(n)]
<1>0. Radix \in Nat /\ Radix >= 2
  BY RadixAssumption
<1>1. /\ s \in Nat /\ n \in Nat /\ s + Size(n) <= Len(bytes) /\ Len(bytes) \in Nat
      /\ \A j \in 1..Size(n) : bytes[s + j] = Encoded[n][j]
  BY DEF NumberAt
<1>2. /\ Size(n) \in Nat /\ Size(n) >= 1
      /\ \A j \in 1..(Size(n) - 1) : Encoded[n][j] >= Radix
      /\ Encoded[n][Size(n)] < Radix /\ Encoded[n] \in Seq(Nat)
  BY <1>1, EncodedBytes DEF Size
<1>13. /\ s \in Nat /\ Size(n) \in Nat /\ Size(n) >= 1 /\ Len(bytes) \in Nat
       /\ s + Size(n) <= Len(bytes)
  BY <1>1, <1>2
<1> DEFINE Ends == {o \in s..(Len(bytes) - 1) : ~More(bytes[o + 1])}
           last == Min(Ends)
           x == s + Size(n) - 1
<1>11. x \in Nat /\ x + 1 = s + Size(n) /\ x + 1 - s = Size(n) /\ x \in s..(Len(bytes) - 1)
  BY ONLY <1>13
<1> HIDE DEF x
<1>3. x \in Ends
  <2>1. Size(n) \in 1..Size(n)
    BY ONLY <1>13
  <2>2. bytes[s + Size(n)] = Encoded[n][Size(n)]
    BY <1>1, <2>1
  <2>3. Encoded[n][Size(n)] \in Nat
    <3>1. Len(Encoded[n]) = Size(n)
      BY DEF Size
    <3> QED
      BY <1>2, <2>1, <3>1
  <2>4. bytes[x + 1] \in Nat /\ bytes[x + 1] < Radix
    BY <1>2, <1>11, <2>2, <2>3
  <2>5. ~(bytes[x + 1] >= Radix)
    BY ONLY <1>0, <2>4
  <2> QED
    BY <1>11, <2>5 DEF More
<1>4. ASSUME NEW o \in Ends PROVE ~(o < x)
  <2> SUFFICES ASSUME o < x PROVE FALSE
    OBVIOUS
  <2> DEFINE j == o - s + 1
  <2>0. o \in s..(Len(bytes) - 1)
    OBVIOUS
  <2>1. j \in 1..(Size(n) - 1) /\ j \in 1..Size(n) /\ s + j = o + 1
    BY ONLY <1>11, <1>13, <2>0, o < x
  <2> HIDE DEF j
  <2>2. bytes[o + 1] >= Radix
    BY <1>1, <1>2, <2>1
  <2> QED
    BY <2>2 DEF More
<1>5. last = x
  <2>1. Ends \in SUBSET Nat
    BY <1>13
  <2>2. last \in Ends /\ \A y \in Ends : last <= y
    <3> HIDE DEF Ends
    <3> QED
      BY <1>3, <2>1, MinIsLeast
  <2>3. last \in Nat /\ last <= x /\ ~(last < x)
    BY <1>3, <1>4, <2>1, <2>2
  <2> QED
    BY <1>11, <2>3
<1> DEFINE Round(d, v) == (bytes[x + 2 - d] % Radix) + Radix * v
           To(f) == f = [d \in 0..Size(n) |-> IF d = 0 THEN 0 ELSE Round(d, f[d - 1])]
           high == CHOOSE f : To(f)
<1>6. ASSUME NEW d \in 1..Size(n), NEW v \in Nat PROVE Round(d, v) \in Nat
  <2>1. x + 2 - d \in 1..Len(bytes)
    BY ONLY <1>11, <1>13, d \in 1..Size(n)
  <2>2. bytes[x + 2 - d] \in Nat
    BY <2>1
  <2>3. bytes[x + 2 - d] % Radix \in Nat /\ Radix * v \in Nat
    BY <1>0, <2>2, Division
  <2> QED
    BY <2>3
<1>7. \E f : To(f)
  <2> HIDE DEF Round
  <2> DEFINE round == [d \in 1..Size(n) |-> [v \in Nat |-> Round(d, v)]]
  <2>1. \A d \in 1..Size(n) : \A v \in Nat : round[d][v] = Round(d, v)
    OBVIOUS
  <2> HIDE DEF round
  <2>2. \A d \in 1..Size(n) : \A v \in Nat : round[d][v] \in Nat
    BY <1>6, <2>1
  <2>3. PICK f \in [0..Size(n) -> Nat] :
           f[0] = 0 /\ \A d \in 1..Size(n) : f[d] = round[d][f[d - 1]]
    <3>1. StaysIn(Size(n), Nat, round)
      BY <2>2 DEF StaysIn
    <3>2. \E f : IsLoop(f, Size(n), Nat, 0, round)
      BY <1>13, <3>1, LoopEnds
    <3> QED
      BY <3>2 DEF IsLoop
  <2>4. \A d \in 1..Size(n) : d - 1 \in 0..Size(n)
    BY <1>2
  <2>5. \A d \in 1..Size(n) : f[d] = Round(d, f[d - 1])
    BY <2>1, <2>3, <2>4
  <2>6. \A d \in 0..Size(n) : d = 0 \/ d \in 1..Size(n)
    BY <1>2
  <2>7. \A d \in 0..Size(n) : f[d] = IF d = 0 THEN 0 ELSE Round(d, f[d - 1])
    BY <2>3, <2>5, <2>6
  <2>8. To(f)
    BY <2>3, <2>7
  <2> QED
    BY <2>8
<1>8. To(high)
  <2> HIDE DEF To
  <2> QED
    BY <1>7
<1>9. ParseAndAlign(bytes, s) = [datum |-> high[Size(n)], next |-> s + Size(n)]
  <2>1. last + 1 - s = Size(n) /\ last + 1 = s + Size(n)
    <3> HIDE DEF last
    <3> QED
      BY <1>5, <1>11
  <2>2. ParseAndAlign(bytes, s) =
           LET h == CHOOSE f : f = [d \in 0..(last + 1 - s) |->
                                      IF d = 0 THEN 0
                                      ELSE (bytes[last + 2 - d] % Radix) + Radix * f[d - 1]]
           IN  [datum |-> h[last + 1 - s], next |-> last + 1]
    BY DEF ParseAndAlign
  <2> HIDE DEF last, x
  <2> QED
    BY <1>5, <2>1, <2>2
<1> HIDE DEF high
<1>10. high[0] = 0 /\ \A d \in 1..Size(n) : high[d] = Round(d, high[d - 1])
  <2>1. 0 \in 0..Size(n) /\ \A d \in 1..Size(n) : d \in 0..Size(n) /\ d # 0
    BY <1>2
  <2> HIDE DEF Round
  <2> QED
    BY <1>8, <2>1
<1>12. high[Size(n)] = n
  BY <1>1, <1>10, <1>11, DigitsMakeNumber
<1> QED
  BY <1>9, <1>12

\* The bytes between two offsets are those of the numbers, each one starting where the one before
\* ends.
AreStarts(starts, bytes, begin, end, numbers) ==
    /\ starts \in [1..(Len(numbers) + 1) -> Nat]
    /\ starts[1] = begin /\ starts[Len(numbers) + 1] = end
    /\ \A k \in 1..Len(numbers) :
          /\ starts[k + 1] = starts[k] + Size(numbers[k])
          /\ NumberAt(bytes, starts[k], numbers[k])

IsCode(bytes, begin, end, numbers) == \E starts : AreStarts(starts, bytes, begin, end, numbers)

\* A code takes a byte at least.
LEMMA SizeIs == ASSUME NEW n \in Nat PROVE Size(n) \in Nat /\ Size(n) >= 1
  BY EncodedBytes DEF Size

\* Numbers are read from wherever their bytes are.
LEMMA CodeMoves ==
    ASSUME NEW bytes \in Seq(Nat), NEW begin, NEW end, NEW numbers \in Seq(Nat),
           IsCode(bytes, begin, end, numbers),
           NEW other \in Seq(Nat), NEW d \in Nat, d + Len(bytes) <= Len(other),
           \A i \in 1..Len(bytes) : other[d + i] = bytes[i]
    PROVE  IsCode(other, begin + d, end + d, numbers)
<1>1. PICK starts : AreStarts(starts, bytes, begin, end, numbers)
  BY DEF IsCode
<1> DEFINE n == Len(numbers)
           moved == [k \in 1..(n + 1) |-> starts[k] + d]
<1>2. n \in Nat /\ Len(bytes) \in Nat /\ Len(other) \in Nat
  OBVIOUS
<1>3. /\ \A k \in 1..(n + 1) : starts[k] \in Nat
      /\ starts[1] = begin /\ starts[n + 1] = end
      /\ \A k \in 1..n : starts[k + 1] = starts[k] + Size(numbers[k])
      /\ \A k \in 1..n : NumberAt(bytes, starts[k], numbers[k])
  BY <1>1 DEF AreStarts
<1>4. ASSUME NEW k \in 1..n PROVE NumberAt(other, starts[k] + d, numbers[k])
  <2> DEFINE s == starts[k]
             m == numbers[k]
  <2>1. /\ s \in Nat /\ m \in Nat /\ s + Size(m) <= Len(bytes)
        /\ \A j \in 1..Size(m) : bytes[s + j] = Encoded[m][j]
    BY <1>3 DEF NumberAt
  <2> HIDE DEF s, m
  <2>2. Size(m) \in Nat
    BY <2>1, SizeIs
  <2>3. s + d \in Nat /\ (s + d) + Size(m) <= Len(other)
    BY <1>2, <2>1, <2>2
  <2>4. ASSUME NEW j \in 1..Size(m) PROVE other[(s + d) + j] = Encoded[m][j]
    <3>1. s + j \in 1..Len(bytes) /\ (s + d) + j = d + (s + j)
      BY <1>2, <2>1, <2>2
    <3> QED
      BY <2>1, <3>1
  <2>5. NumberAt(other, s + d, m)
    BY <2>1, <2>3, <2>4 DEF NumberAt
  <2> QED
    BY <2>5 DEF s, m
<1> HIDE DEF n
<1>5. /\ moved \in [1..(n + 1) -> Nat] /\ moved[1] = begin + d /\ moved[n + 1] = end + d
      /\ \A k \in 1..n : moved[k] = starts[k] + d /\ moved[k + 1] = starts[k + 1] + d
  <2>1. n \in Nat /\ d \in Nat
    BY <1>2
  <2>2. /\ \A k \in 1..(n + 1) : starts[k] \in Nat
        /\ starts[1] = begin /\ starts[n + 1] = end
    BY <1>3
  <2>3. \A k \in 1..(n + 1) : starts[k] + d \in Nat
    BY ONLY <2>1, <2>2
  <2>4. \A k \in 1..n : k \in 1..(n + 1) /\ k + 1 \in 1..(n + 1)
    BY ONLY <2>1
  <2>5. 1 \in 1..(n + 1) /\ n + 1 \in 1..(n + 1)
    BY ONLY <2>1
  <2>6. moved \in [1..(n + 1) -> Nat] /\ \A k \in 1..(n + 1) : moved[k] = starts[k] + d
    BY <2>3
  <2> HIDE DEF moved
  <2> QED
    BY ONLY <2>2, <2>4, <2>5, <2>6
<1> HIDE DEF moved
<1>6. ASSUME NEW k \in 1..n
      PROVE  moved[k + 1] = moved[k] + Size(numbers[k]) /\ NumberAt(other, moved[k], numbers[k])
  <2>1. starts[k] \in Nat /\ numbers[k] \in Nat
    BY <1>2, <1>3 DEF n
  <2>2. Size(numbers[k]) \in Nat
    BY <2>1, SizeIs
  <2>3. /\ moved[k] = starts[k] + d /\ moved[k + 1] = starts[k + 1] + d
        /\ starts[k + 1] = starts[k] + Size(numbers[k])
        /\ NumberAt(other, starts[k] + d, numbers[k])
    BY <1>3, <1>4, <1>5
  <2>4. moved[k + 1] = moved[k] + Size(numbers[k])
    BY ONLY d \in Nat, <2>1, <2>2, <2>3
  <2>5. NumberAt(other, moved[k], numbers[k])
    BY ONLY <2>3
  <2> QED
    BY <2>4, <2>5
<1>7. AreStarts(moved, other, begin + d, end + d, numbers)
  BY <1>5, <1>6 DEF AreStarts, n
<1> QED
  BY <1>7 DEF IsCode

\* No bytes are no numbers.
LEMMA NoCode == IsCode(<<>>, 0, 0, <<>>)
<1>1. AreStarts([k \in 1..1 |-> 0], <<>>, 0, 0, <<>>)
  BY DEF AreStarts
<1> QED
  BY <1>1 DEF IsCode

\* One more number.
LEMMA CodeGrows ==
    ASSUME NEW bytes \in Seq(Nat), NEW numbers \in Seq(Nat), NEW n \in Nat,
           IsCode(bytes, 0, Len(bytes), numbers)
    PROVE  LET more == bytes \o Encoded[n]
           IN  more \in Seq(Nat) /\ IsCode(more, 0, Len(more), Append(numbers, n))
<1> DEFINE more == bytes \o Encoded[n]
           all == Append(numbers, n)
           m == Len(numbers)
<1>1. Encoded[n] \in Seq(Nat) /\ Len(Encoded[n]) = Size(n) /\ Size(n) \in Nat
  BY EncodedBytes DEF Size
<1>2. /\ more \in Seq(Nat) /\ Len(more) = Len(bytes) + Size(n)
      /\ \A i \in 1..Len(bytes) : more[i] = bytes[i]
      /\ \A j \in 1..Size(n) : more[Len(bytes) + j] = Encoded[n][j]
  <2>1. \A u, w \in Seq(Nat) :
           /\ u \o w \in Seq(Nat) /\ Len(u \o w) = Len(u) + Len(w)
           /\ \A i \in 1..Len(u) : (u \o w)[i] = u[i]
           /\ \A j \in 1..Len(w) : (u \o w)[Len(u) + j] = w[j]
    OBVIOUS
  <2> DEFINE e == Encoded[n]
  <2>2. e \in Seq(Nat) /\ Len(e) = Size(n)
    BY <1>1
  <2> HIDE DEF e
  <2>3. /\ bytes \o e \in Seq(Nat) /\ Len(bytes \o e) = Len(bytes) + Size(n)
        /\ \A i \in 1..Len(bytes) : (bytes \o e)[i] = bytes[i]
        /\ \A j \in 1..Size(n) : (bytes \o e)[Len(bytes) + j] = e[j]
    <3> DEFINE x == bytes \o e
    <3>1. /\ x \in Seq(Nat) /\ Len(x) = Len(bytes) + Len(e)
          /\ \A i \in 1..Len(bytes) : x[i] = bytes[i]
          /\ \A j \in 1..Len(e) : x[Len(bytes) + j] = e[j]
      BY ONLY <2>1, <2>2, bytes \in Seq(Nat)
    <3> HIDE DEF x
    <3>2. /\ x \in Seq(Nat) /\ Len(x) = Len(bytes) + Size(n)
          /\ \A i \in 1..Len(bytes) : x[i] = bytes[i]
          /\ \A j \in 1..Size(n) : x[Len(bytes) + j] = e[j]
      BY ONLY <2>2, <3>1, Zenon
    <3> QED
      BY ONLY <3>2 DEF x
  <2> QED
    BY ONLY <2>3 DEF more, e
<1>3. /\ all \in Seq(Nat) /\ Len(all) = m + 1 /\ m \in Nat
      /\ \A k \in 1..m : all[k] = numbers[k] /\ numbers[k] \in Nat
      /\ all[m + 1] = n
  OBVIOUS
<1>4. Len(bytes) \in Nat
  OBVIOUS
<1> HIDE DEF more, all
<1>5. IsCode(more, 0, Len(bytes), numbers)
  <2>1. 0 + Len(bytes) <= Len(more)
    BY <1>1, <1>2, <1>4
  <2>2. \A i \in 1..Len(bytes) : more[0 + i] = bytes[i]
    BY <1>2
  <2>3. IsCode(more, 0 + 0, Len(bytes) + 0, numbers)
    BY <1>2, <2>1, <2>2, CodeMoves
  <2> QED
    BY <1>4, <2>3
<1>6. PICK starts : AreStarts(starts, more, 0, Len(bytes), numbers)
  BY <1>5 DEF IsCode
<1> HIDE DEF m
<1>7. /\ \A k \in 1..(m + 1) : starts[k] \in Nat
      /\ starts[1] = 0 /\ starts[m + 1] = Len(bytes)
      /\ \A k \in 1..m : starts[k + 1] = starts[k] + Size(numbers[k])
      /\ \A k \in 1..m : NumberAt(more, starts[k], numbers[k])
  BY <1>6 DEF AreStarts, m
<1> DEFINE longer == [k \in 1..(m + 2) |-> IF k = m + 2 THEN Len(more) ELSE starts[k]]
<1>8. Len(more) \in Nat
  BY <1>2
<1>9. /\ longer \in [1..((m + 1) + 1) -> Nat] /\ longer[1] = 0 /\ longer[(m + 1) + 1] = Len(more)
      /\ \A k \in 1..(m + 1) : longer[k] = starts[k]
  <2>1. (m + 1) + 1 = m + 2 /\ \A k \in 1..(m + 2) : k = m + 2 \/ k \in 1..(m + 1)
    BY <1>3
  <2>2. 1 \in 1..(m + 1) /\ m + 2 \in 1..(m + 2)
        /\ \A k \in 1..(m + 1) : k \in 1..(m + 2) /\ k # m + 2
    BY <1>3
  <2>3. \A k \in 1..(m + 2) : longer[k] \in Nat
    BY <1>7, <1>8, <2>1
  <2> QED
    BY <1>7, <2>1, <2>2, <2>3
<1> HIDE DEF longer
<1>10. ASSUME NEW k \in 1..(m + 1)
       PROVE  longer[k + 1] = longer[k] + Size(all[k]) /\ NumberAt(more, longer[k], all[k])
  <2>1. CASE k \in 1..m
    <3>1. k + 1 \in 1..(m + 1)
      BY <1>3, <2>1
    <3> QED
      BY <1>3, <1>7, <1>9, <2>1, <3>1
  <2>2. CASE k \notin 1..m
    <3>1. k = m + 1
      BY <1>3, <2>2
    <3>2. longer[k] = Len(bytes) /\ longer[k + 1] = Len(more) /\ all[k] = n
      BY <1>3, <1>7, <1>9, <3>1
    <3>3. NumberAt(more, Len(bytes), n)
      <4>1. Len(bytes) + Size(n) <= Len(more)
        BY <1>1, <1>2, <1>4
      <4> QED
        BY <1>2, <1>4, <4>1 DEF NumberAt
    <3> QED
      BY <1>2, <3>2, <3>3
  <2> QED
    BY <2>1, <2>2
<1>11. AreStarts(longer, more, 0, Len(more), all)
  BY <1>3, <1>9, <1>10 DEF AreStarts
<1>12. more \in Seq(Nat) /\ IsCode(more, 0, Len(more), all)
  BY <1>2, <1>11 DEF IsCode
<1> QED
  BY <1>12 DEF more, all

\* Parts of a sequence.
LEMMA Parts ==
    ASSUME NEW numbers \in Seq(Nat)
    PROVE  /\ Len(numbers) \in Nat /\ SubSeq(numbers, 1, 0) = <<>>
           /\ SubSeq(numbers, 1, Len(numbers)) = numbers
           /\ \A k \in 0..Len(numbers) : SubSeq(numbers, 1, k) \in Seq(Nat)
           /\ \A k \in 1..Len(numbers) :
                 SubSeq(numbers, 1, k) = Append(SubSeq(numbers, 1, k - 1), numbers[k])
<1>1. Len(numbers) \in Nat /\ SubSeq(numbers, 1, 0) = <<>> /\ SubSeq(numbers, 1, Len(numbers)) = numbers
  OBVIOUS
<1>2. \A k \in 0..Len(numbers) : SubSeq(numbers, 1, k) \in Seq(Nat)
  OBVIOUS
<1>3. ASSUME NEW k \in 1..Len(numbers)
      PROVE  SubSeq(numbers, 1, k) = Append(SubSeq(numbers, 1, k - 1), numbers[k])
  OBVIOUS
<1> QED
  BY <1>1, <1>2, <1>3

\* The bytes of the numbers, one after the other.
LEMMA AllEncoded ==
    ASSUME NEW numbers \in Seq(Nat)
    PROVE  /\ EncodedAll(numbers) \in Seq(Nat)
           /\ IsCode(EncodedAll(numbers), 0, Len(EncodedAll(numbers)), numbers)
<1> DEFINE n == Len(numbers)
           To(f) == f = [k \in 0..n |-> IF k = 0 THEN <<>> ELSE f[k - 1] \o Encoded[numbers[k]]]
           bytes == CHOOSE f : To(f)
           round == [k \in 1..n |-> [v \in Seq(Nat) |-> v \o Encoded[numbers[k]]]]
<1>1. EncodedAll(numbers) = bytes[n]
  BY DEF EncodedAll
<1>2. n \in Nat /\ \A k \in 1..n : numbers[k] \in Nat /\ Encoded[numbers[k]] \in Seq(Nat)
  BY EncodedBytes
<1>3. \E f : To(f)
  <2>1. \A k \in 1..n : \A v \in Seq(Nat) : round[k][v] = v \o Encoded[numbers[k]]
    OBVIOUS
  <2>2. \A k \in 1..n : \A v \in Seq(Nat) : v \o Encoded[numbers[k]] \in Seq(Nat)
    BY <1>2
  <2> HIDE DEF round, n
  <2>3. StaysIn(n, Seq(Nat), round)
    BY <2>1, <2>2 DEF StaysIn
  <2>4. <<>> \in Seq(Nat)
    OBVIOUS
  <2>5. \E f : IsLoop(f, n, Seq(Nat), <<>>, round)
    BY <1>2, <2>3, <2>4, LoopEnds
  <2>6. PICK f \in [0..n -> Seq(Nat)] : f[0] = <<>> /\ \A k \in 1..n : f[k] = round[k][f[k - 1]]
    BY <2>5 DEF IsLoop
  <2>7. \A k \in 0..n : (k = 0 \/ k \in 1..n) /\ (k \in 1..n => k - 1 \in 0..n)
    BY <1>2
  <2>8. \A k \in 0..n : f[k] = IF k = 0 THEN <<>> ELSE f[k - 1] \o Encoded[numbers[k]]
    BY <2>1, <2>6, <2>7
  <2>9. To(f)
    BY <2>6, <2>8
  <2> QED
    BY <2>9
<1>4. To(bytes)
  <2> HIDE DEF To
  <2> QED
    BY <1>3
<1> HIDE DEF bytes
<1>5. bytes[0] = <<>> /\ \A k \in 1..n : bytes[k] = bytes[k - 1] \o Encoded[numbers[k]]
  <2>1. 0 \in 0..n /\ \A k \in 1..n : k \in 0..n /\ k # 0
    BY <1>2
  <2> HIDE DEF n
  <2> QED
    BY <1>4, <2>1
<1> DEFINE Part(k) == SubSeq(numbers, 1, k)
           Good(k) == bytes[k] \in Seq(Nat) /\ IsCode(bytes[k], 0, Len(bytes[k]), Part(k))
           G == {k \in 0..n : Good(k)}
<1>6. /\ Part(0) = <<>> /\ Part(n) = numbers
      /\ \A k \in 0..n : Part(k) \in Seq(Nat)
      /\ \A k \in 1..n : Part(k) = Append(Part(k - 1), numbers[k])
  BY Parts
<1> HIDE DEF n, Part
<1>7. Good(0)
  <2>1. bytes[0] = <<>> /\ Len(<<>>) = 0 /\ <<>> \in Seq(Nat)
    BY <1>5
  <2> QED
    BY <1>6, <2>1, NoCode
<1>8. ASSUME NEW k \in 0..(n - 1), Good(k) PROVE Good(k + 1)
  <2>1. k + 1 \in 1..n /\ (k + 1) - 1 = k /\ k \in 0..n
    BY <1>2
  <2>2. /\ bytes[k + 1] = bytes[k] \o Encoded[numbers[k + 1]]
        /\ Part(k + 1) = Append(Part(k), numbers[k + 1])
        /\ numbers[k + 1] \in Nat /\ Part(k) \in Seq(Nat)
    <3>1. /\ bytes[k + 1] = bytes[(k + 1) - 1] \o Encoded[numbers[k + 1]]
          /\ Part(k + 1) = Append(Part((k + 1) - 1), numbers[k + 1])
      BY <1>5, <1>6, <2>1
    <3> QED
      BY <1>2, <1>6, <2>1, <3>1
  <2> DEFINE w == bytes[k]
             p == Part(k)
             m == numbers[k + 1]
  <2>3. /\ w \in Seq(Nat) /\ p \in Seq(Nat) /\ m \in Nat
        /\ IsCode(w, 0, Len(w), p)
    BY <1>8, <2>2
  <2> HIDE DEF w, p, m
  <2>4. w \o Encoded[m] \in Seq(Nat) /\ IsCode(w \o Encoded[m], 0, Len(w \o Encoded[m]), Append(p, m))
    BY <2>3, CodeGrows
  <2> QED
    BY <2>2, <2>4 DEF w, p, m
<1>9. \A k \in 0..n : k \in G
  <2>1. 0 \in G /\ \A k \in 0..(n - 1) : k \in G => k + 1 \in G
    <3>1. 0 \in 0..n /\ \A k \in 0..(n - 1) : k + 1 \in 0..n
      BY <1>2
    <3> HIDE DEF Good
    <3> QED
      BY <1>7, <1>8, <3>1
  <2> HIDE DEF G
  <2> QED
    BY <1>2, <2>1, NumbersUpTo
<1>10. Good(n)
  <2>1. n \in 0..n
    BY <1>2
  <2> QED
    BY <1>9, <2>1
<1> QED
  BY <1>1, <1>6, <1>10

\* What is read between two offsets are the numbers whose code is there.
LEMMA DecodedIs ==
    ASSUME NEW bytes \in Seq(Nat), NEW begin, NEW end, NEW numbers \in Seq(Nat),
           IsCode(bytes, begin, end, numbers)
    PROVE  Decoded(bytes, begin, end) = numbers
<1>1. PICK starts : AreStarts(starts, bytes, begin, end, numbers)
  BY DEF IsCode
<1> DEFINE n == Len(numbers)
           N == end - begin
           Part(k) == SubSeq(numbers, 1, k)
<1>2. /\ \A k \in 1..(n + 1) : starts[k] \in Nat
      /\ starts[1] = begin /\ starts[n + 1] = end
      /\ \A k \in 1..n : starts[k + 1] = starts[k] + Size(numbers[k])
      /\ \A k \in 1..n : NumberAt(bytes, starts[k], numbers[k])
  BY <1>1 DEF AreStarts
<1>3. /\ n \in Nat /\ \A k \in 1..n : numbers[k] \in Nat
      /\ Part(0) = <<>> /\ Part(n) = numbers
      /\ \A k \in 1..n : Part(k) = Append(Part(k - 1), numbers[k])
  BY Parts
<1> HIDE DEF n, Part
<1>4. \A k \in 1..n : Size(numbers[k]) \in Nat /\ Size(numbers[k]) >= 1
  BY <1>3, SizeIs
<1>5. \A j \in 0..n : starts[(n + 1) - j] + j <= end
  <2> DEFINE G == {j \in 0..n : starts[(n + 1) - j] + j <= end}
  <2>1. 0 \in G
    <3>1. (n + 1) - 0 = n + 1 /\ n + 1 \in 1..(n + 1) /\ 0 \in 0..n
      BY <1>3
    <3>2. starts[n + 1] + 0 <= end
      BY <1>2, <3>1
    <3> QED
      BY <3>1, <3>2
  <2>2. ASSUME NEW j \in 0..(n - 1), j \in G PROVE j + 1 \in G
    <3> DEFINE k == n - j
    <3>1. /\ k \in 1..n /\ k + 1 = (n + 1) - j /\ k = (n + 1) - (j + 1)
          /\ k \in 1..(n + 1) /\ k + 1 \in 1..(n + 1) /\ j + 1 \in 0..n /\ j \in Nat
      BY <1>3
    <3> HIDE DEF k
    <3>2. starts[k + 1] + j <= end /\ starts[k + 1] = starts[k] + Size(numbers[k])
      BY <1>2, <2>2, <3>1
    <3>3. starts[k] \in Nat /\ Size(numbers[k]) \in Nat /\ Size(numbers[k]) >= 1 /\ end \in Nat
      <4>1. n + 1 \in 1..(n + 1)
        BY <1>3
      <4> QED
        BY <1>2, <1>4, <3>1, <4>1
    <3>4. starts[k] + (j + 1) <= end
      BY ONLY <3>2, <3>3, j \in Nat, <3>1
    <3> QED
      BY <3>1, <3>4
  <2>3. \A j \in 0..n : j \in G
    <3> HIDE DEF G
    <3> QED
      BY <1>3, <2>1, <2>2, NumbersUpTo
  <2> QED
    BY <2>3
<1>6. begin \in Nat /\ end \in Nat /\ N \in Nat /\ n <= N
  <2>1. begin \in Nat /\ end \in Nat
    <3>1. 1 \in 1..(n + 1) /\ n + 1 \in 1..(n + 1)
      BY <1>3
    <3> QED
      BY <1>2, <3>1
  <2>2. begin + n <= end
    <3>1. n \in 0..n /\ (n + 1) - n = 1
      BY <1>3
    <3> QED
      BY <1>2, <1>5, <3>1
  <2> QED
    BY <1>3, <2>1, <2>2
<1>7. \A k \in 1..n : starts[k] # end
  <2> TAKE k \in 1..n
  <2> DEFINE j == (n + 1) - k
  <2>1. j \in 0..n /\ j >= 1 /\ (n + 1) - j = k /\ k \in 1..(n + 1) /\ j \in Nat
    BY <1>3
  <2> HIDE DEF j
  <2>2. starts[k] + j <= end /\ starts[k] \in Nat
    BY <1>2, <1>5, <2>1
  <2> QED
    BY <1>6, <2>1, <2>2
<1> DEFINE To(f) == f = [k \in 0..N |->
                           IF k = 0 THEN [current |-> begin, read |-> <<>>]
                           ELSE Decode(bytes, f[k - 1], end)]
           iter == CHOOSE f : To(f)
           g == [k \in 0..N |-> IF k <= n THEN [current |-> starts[k + 1], read |-> Part(k)]
                                ELSE [current |-> end, read |-> numbers]]
<1>8. Decoded(bytes, begin, end) = iter[N].read
  BY DEF Decoded
<1> HIDE DEF N
<1>9. /\ g[0] = [current |-> begin, read |-> <<>>]
      /\ \A k \in 0..n : g[k] = [current |-> starts[k + 1], read |-> Part(k)]
      /\ \A k \in n..N : g[k] = [current |-> end, read |-> numbers]
  <2>1. 0 \in 0..N /\ 0 <= n /\ 0 + 1 = 1
    BY <1>3, <1>6
  <2>2. \A k \in 0..n : k \in 0..N /\ k <= n
    BY <1>3, <1>6
  <2>3. \A k \in n..N : k \in 0..N /\ (k <= n => k = n)
    BY <1>3, <1>6
  <2> QED
    BY <1>2, <1>3, <2>1, <2>2, <2>3
<1> HIDE DEF g
<1>10. ASSUME NEW k \in 1..N PROVE g[k] = Decode(bytes, g[k - 1], end)
  <2>1. CASE k <= n
    <3>1. k \in 1..n /\ k \in 0..n /\ k - 1 \in 0..n /\ (k - 1) + 1 = k
      BY <1>3, <2>1
    <3>2. g[k - 1] = [current |-> starts[k], read |-> Part(k - 1)]
      BY <1>9, <3>1
    <3>3. ParseAndAlign(bytes, starts[k]) = [datum |-> numbers[k], next |-> starts[k] + Size(numbers[k])]
      BY <1>2, <3>1, NumberIsParsed
    <3>4. Decode(bytes, g[k - 1], end)
             = [current |-> starts[k] + Size(numbers[k]), read |-> Append(Part(k - 1), numbers[k])]
      <4>1. g[k - 1].current = starts[k] /\ g[k - 1].read = Part(k - 1)
        BY <3>2
      <4>2. starts[k] # end
        BY <1>7, <3>1
      <4>3. Decode(bytes, g[k - 1], end)
               = LET parsed == ParseAndAlign(bytes, starts[k])
                 IN  [current |-> parsed.next, read |-> Append(Part(k - 1), parsed.datum)]
        BY ONLY <4>1, <4>2 DEF Decode
      <4> QED
        BY ONLY <3>3, <4>3
    <3> QED
      BY <1>2, <1>3, <1>9, <3>1, <3>4
  <2>2. CASE ~(k <= n)
    <3>1. k \in n..N /\ k - 1 \in n..N
      BY <1>3, <1>6, <2>2
    <3> QED
      BY <1>9, <3>1 DEF Decode
  <2> QED
    BY <2>1, <2>2
<1>11. To(g)
  <2>1. g = [k \in 0..N |-> g[k]]
    BY DEF g
  <2>2. \A k \in 0..N : g[k] = IF k = 0 THEN [current |-> begin, read |-> <<>>]
                               ELSE Decode(bytes, g[k - 1], end)
    <3>1. \A k \in 0..N : k = 0 \/ k \in 1..N
      BY <1>6
    <3> QED
      BY <1>9, <1>10, <3>1
  <2> QED
    BY <2>1, <2>2
<1>12. To(iter)
  <2> HIDE DEF To
  <2> QED
    BY <1>11
<1> HIDE DEF iter
<1>13. iter[0] = g[0] /\ \A k \in 1..N : iter[k] = Decode(bytes, iter[k - 1], end)
  <2>1. 0 \in 0..N /\ \A k \in 1..N : k \in 0..N /\ k # 0
    BY <1>6
  <2> QED
    BY <1>9, <1>12, <2>1
<1>14. \A k \in 0..N : iter[k] = g[k]
  <2> DEFINE G == {k \in 0..N : iter[k] = g[k]}
  <2>1. 0 \in G
    BY <1>6, <1>13
  <2>2. ASSUME NEW k \in 0..(N - 1), k \in G PROVE k + 1 \in G
    <3>1. k + 1 \in 1..N /\ (k + 1) - 1 = k /\ k + 1 \in 0..N
      BY <1>6
    <3>2. iter[k + 1] = Decode(bytes, iter[k], end) /\ g[k + 1] = Decode(bytes, g[k], end)
      <4>1. /\ iter[k + 1] = Decode(bytes, iter[(k + 1) - 1], end)
            /\ g[k + 1] = Decode(bytes, g[(k + 1) - 1], end)
        BY <1>10, <1>13, <3>1
      <4> QED
        BY <3>1, <4>1
    <3> QED
      BY <2>2, <3>1, <3>2
  <2>3. \A k \in 0..N : k \in G
    <3> HIDE DEF G
    <3> QED
      BY <1>6, <2>1, <2>2, NumbersUpTo
  <2> QED
    BY <2>3
<1>15. iter[N].read = numbers
  <2>1. N \in 0..N /\ N \in n..N
    BY <1>3, <1>6
  <2> QED
    BY <1>9, <1>14, <2>1
<1> QED
  BY <1>8, <1>15

-----------------------------------------------------------------------------
(* The index of a chunk.                                                   *)

\* The documents that hold a term, among the first ones, and what its list says of them.
Hold(t, n) == HoldingUpTo(t)[n]
DocidsOf(t, n) == [k \in DOMAIN Hold(t, n) |-> base_docid + Hold(t, n)[k] - 1]
FreqsOf(t, n) == [k \in DOMAIN Hold(t, n) |-> chunk[Hold(t, n)[k]].freqs[t]]

Input == chunk \in Seq(Docs) /\ base_docid \in Nat \ {0}

\* What the documents of a chunk are.
LEMMA ChunkIs ==
    ASSUME Input
    PROVE  /\ Len(chunk) \in Nat /\ DOMAIN chunk = 1..Len(chunk)
           /\ base_docid \in Nat /\ base_docid > 0
           /\ \A i \in 1..Len(chunk) :
                 /\ chunk[i].docno \in Nat /\ DOMAIN chunk[i].freqs \subseteq Terms
                 /\ \A t \in DOMAIN chunk[i].freqs : chunk[i].freqs[t] \in Nat \ {0}
<1>1. chunk \in Seq(Docs) /\ base_docid \in Nat \ {0}
  BY DEF Input
<1>2. /\ Len(chunk) \in Nat /\ DOMAIN chunk = 1..Len(chunk)
      /\ \A i \in 1..Len(chunk) : chunk[i] \in Docs
  BY <1>1
<1>3. \A d \in Docs : /\ d.docno \in Nat /\ DOMAIN d.freqs \subseteq Terms
                      /\ \A t \in DOMAIN d.freqs : d.freqs[t] \in Nat \ {0}
  BY LocalIndexAssumption
<1>4. base_docid \in Nat /\ base_docid > 0
  BY <1>1
<1> QED
  BY ONLY <1>2, <1>3, <1>4

\* A document is held by the terms that it has.
LEMMA HoldIs ==
    ASSUME Input, NEW t
    PROVE  /\ Hold(t, 0) = <<>>
           /\ \A n \in 1..Len(chunk) :
                 Hold(t, n) = IF t \in DOMAIN chunk[n].freqs THEN Append(Hold(t, n - 1), n)
                              ELSE Hold(t, n - 1)
           /\ \A n \in 0..Len(chunk) :
                 /\ Hold(t, n) \in Seq(Nat)
                 /\ \A k \in 1..Len(Hold(t, n)) :
                       Hold(t, n)[k] \in 1..n /\ t \in DOMAIN chunk[Hold(t, n)[k]].freqs
<1> DEFINE D == Len(chunk)
           Has(n) == t \in DOMAIN chunk[n].freqs
           To(f) == f = [n \in 0..D |-> IF n = 0 THEN <<>>
                                        ELSE IF Has(n) THEN Append(f[n - 1], n) ELSE f[n - 1]]
           held == CHOOSE f : To(f)
           round == [n \in 1..D |-> [v \in Seq(Nat) |-> IF Has(n) THEN Append(v, n) ELSE v]]
<1>1. \A n : Hold(t, n) = held[n]
  BY DEF Hold, HoldingUpTo
<1>2. D \in Nat
  BY ChunkIs
<1> HIDE DEF D, Has
<1>3. \E f : To(f)
  <2>1. \A n \in 1..D : \A v \in Seq(Nat) : round[n][v] = IF Has(n) THEN Append(v, n) ELSE v
    OBVIOUS
  <2>2. \A n \in 1..D : \A v \in Seq(Nat) : n \in Nat /\ Append(v, n) \in Seq(Nat)
    BY <1>2
  <2> HIDE DEF round
  <2>3. StaysIn(D, Seq(Nat), round)
    BY <2>1, <2>2 DEF StaysIn
  <2>4. <<>> \in Seq(Nat)
    OBVIOUS
  <2>5. \E f : IsLoop(f, D, Seq(Nat), <<>>, round)
    BY <1>2, <2>3, <2>4, LoopEnds
  <2>6. PICK f \in [0..D -> Seq(Nat)] : f[0] = <<>> /\ \A n \in 1..D : f[n] = round[n][f[n - 1]]
    BY <2>5 DEF IsLoop
  <2>7. \A n \in 0..D : (n = 0 \/ n \in 1..D) /\ (n \in 1..D => n - 1 \in 0..D)
    BY <1>2
  <2>8. \A n \in 0..D : f[n] = IF n = 0 THEN <<>>
                               ELSE IF Has(n) THEN Append(f[n - 1], n) ELSE f[n - 1]
    <3>1. \A n \in 1..D : f[n - 1] \in Seq(Nat)
      BY <2>6, <2>7
    <3>2. \A n \in 1..D : f[n] = IF Has(n) THEN Append(f[n - 1], n) ELSE f[n - 1]
      BY <2>1, <2>6, <3>1
    <3>3. \A n \in 1..D : n # 0
      BY <1>2
    <3> QED
      BY <2>6, <2>7, <3>2, <3>3
  <2>9. To(f)
    BY <2>6, <2>8
  <2> QED
    BY <2>9
<1>4. To(held)
  <2> HIDE DEF To
  <2> QED
    BY <1>3
<1> HIDE DEF held
<1>5. /\ held[0] = <<>>
      /\ \A n \in 1..D : held[n] = IF Has(n) THEN Append(held[n - 1], n) ELSE held[n - 1]
  <2>1. 0 \in 0..D /\ \A n \in 1..D : n \in 0..D /\ n # 0
    BY <1>2
  <2> QED
    BY <1>4, <2>1
<1> DEFINE Good(n) == /\ held[n] \in Seq(Nat)
                      /\ \A k \in 1..Len(held[n]) : held[n][k] \in 1..n /\ Has(held[n][k])
           G == {n \in 0..D : Good(n)}
<1>6. Good(0)
  <2>1. <<>> \in Seq(Nat) /\ Len(<<>>) = 0 /\ \A k \in 1..Len(<<>>) : FALSE
    OBVIOUS
  <2> QED
    BY <1>5, <2>1
<1>7. ASSUME NEW n \in 0..(D - 1), Good(n) PROVE Good(n + 1)
  <2>1. n + 1 \in 1..D /\ (n + 1) - 1 = n /\ n \in Nat /\ n + 1 \in Nat
    BY <1>2
  <2>2. held[n + 1] = IF Has(n + 1) THEN Append(held[n], n + 1) ELSE held[n]
    <3>1. held[n + 1] = IF Has(n + 1) THEN Append(held[(n + 1) - 1], n + 1) ELSE held[(n + 1) - 1]
      BY <1>5, <2>1
    <3> QED
      BY <2>1, <3>1
  <2> DEFINE w == held[n]
  <2>3. w \in Seq(Nat) /\ \A k \in 1..Len(w) : w[k] \in 1..n /\ Has(w[k])
    BY <1>7
  <2> HIDE DEF w
  <2>4. \A k \in 1..Len(w) : w[k] \in 1..(n + 1)
    BY <2>1, <2>3
  <2>5. CASE Has(n + 1)
    <3> DEFINE a == Append(w, n + 1)
    <3>1. /\ a \in Seq(Nat) /\ Len(a) = Len(w) + 1 /\ a[Len(w) + 1] = n + 1
          /\ \A k \in 1..Len(w) : a[k] = w[k]
          /\ \A k \in 1..(Len(w) + 1) : k \in 1..Len(w) \/ k = Len(w) + 1
          /\ n + 1 \in 1..(n + 1)
      BY <2>1, <2>3
    <3>2. held[n + 1] = a
      BY <2>2, <2>5 DEF w
    <3> HIDE DEF a
    <3>3. \A k \in 1..Len(a) : a[k] \in 1..(n + 1) /\ Has(a[k])
      BY <2>3, <2>4, <2>5, <3>1
    <3> QED
      BY <3>1, <3>2, <3>3
  <2>6. CASE ~Has(n + 1)
    <3>1. held[n + 1] = w
      BY <2>2, <2>6 DEF w
    <3> QED
      BY <2>3, <2>4, <3>1
  <2> QED
    BY <2>5, <2>6
<1>8. \A n \in 0..D : n \in G
  <2>1. 0 \in G /\ \A n \in 0..(D - 1) : n \in G => n + 1 \in G
    <3>1. 0 \in 0..D /\ \A n \in 0..(D - 1) : n + 1 \in 0..D
      BY <1>2
    <3> HIDE DEF Good
    <3> QED
      BY <1>6, <1>7, <3>1
  <2> HIDE DEF G
  <2> QED
    BY <1>2, <2>1, NumbersUpTo
<1>9. \A n \in 0..D : Good(n)
  BY <1>8
<1> HIDE DEF G
<1>10. /\ Hold(t, 0) = <<>>
       /\ \A n \in 1..D : Hold(t, n) = IF Has(n) THEN Append(Hold(t, n - 1), n)
                                      ELSE Hold(t, n - 1)
  BY <1>1, <1>5
<1>11. \A n \in 0..D : /\ Hold(t, n) \in Seq(Nat)
                       /\ \A k \in 1..Len(Hold(t, n)) :
                             Hold(t, n)[k] \in 1..n /\ Has(Hold(t, n)[k])
  BY <1>1, <1>9
<1> QED
  BY <1>10, <1>11 DEF D, Has

\* Two sequences of the same numbers are the same.
LEMMA SameNumbers ==
    \A u, w \in Seq(Nat) : Len(u) = Len(w) /\ (\A k \in 1..Len(u) : u[k] = w[k]) => u = w
OBVIOUS

\* What the lists of a term are, among the first documents.
LEMMA ListsAre ==
    ASSUME Input, NEW t, NEW n \in 0..Len(chunk)
    PROVE  /\ Len(Hold(t, n)) \in Nat /\ DOMAIN Hold(t, n) = 1..Len(Hold(t, n))
           /\ DocidsOf(t, n) \in Seq(Nat) /\ FreqsOf(t, n) \in Seq(Nat \ {0})
           /\ FreqsOf(t, n) \in Seq(Nat)
           /\ Len(DocidsOf(t, n)) = Len(Hold(t, n)) /\ Len(FreqsOf(t, n)) = Len(Hold(t, n))
<1> DEFINE h == Hold(t, n)
           l == Len(h)
<1>1. /\ h \in Seq(Nat) /\ \A k \in 1..l : h[k] \in 1..n /\ t \in DOMAIN chunk[h[k]].freqs
  BY HoldIs
<1>2. /\ Len(chunk) \in Nat /\ base_docid \in Nat /\ base_docid > 0
      /\ \A i \in 1..Len(chunk) : \A u \in DOMAIN chunk[i].freqs : chunk[i].freqs[u] \in Nat \ {0}
  BY ChunkIs
<1>3. DocidsOf(t, n) = [k \in DOMAIN h |-> base_docid + h[k] - 1]
  BY DEF DocidsOf
<1>4. FreqsOf(t, n) = [k \in DOMAIN h |-> chunk[h[k]].freqs[t]]
  BY DEF FreqsOf
<1> HIDE DEF h
<1>5. l \in Nat /\ DOMAIN h = 1..l
  BY <1>1
<1> HIDE DEF l
<1>6. \A k \in 1..l : h[k] \in Nat /\ h[k] >= 1 /\ h[k] \in 1..Len(chunk)
  <2> TAKE k \in 1..l
  <2>1. h[k] \in 1..n
    BY <1>1
  <2> QED
    BY <1>2, <2>1
<1>7. \A k \in 1..l : base_docid + h[k] - 1 \in Nat
  BY <1>2, <1>6
<1>8. \A k \in 1..l : chunk[h[k]].freqs[t] \in Nat \ {0}
  BY <1>1, <1>2, <1>6
<1>9. DocidsOf(t, n) \in Seq(Nat) /\ Len(DocidsOf(t, n)) = l
  BY <1>3, <1>5, <1>7
<1>10. FreqsOf(t, n) \in Seq(Nat \ {0}) /\ Len(FreqsOf(t, n)) = l
  BY <1>4, <1>5, <1>8
<1>11. FreqsOf(t, n) \in Seq(Nat)
  BY <1>10
<1> QED
  BY <1>5, <1>9, <1>10, <1>11 DEF h, l

\* A document with the term adds its docid and its frequency.
LEMMA ListsGrow ==
    ASSUME Input, NEW t, NEW n \in 1..Len(chunk)
    PROVE  IF t \in DOMAIN chunk[n].freqs
           THEN /\ DocidsOf(t, n) = Append(DocidsOf(t, n - 1), base_docid + n - 1)
                /\ FreqsOf(t, n) = Append(FreqsOf(t, n - 1), chunk[n].freqs[t])
                /\ Len(Hold(t, n)) = Len(Hold(t, n - 1)) + 1
           ELSE /\ DocidsOf(t, n) = DocidsOf(t, n - 1) /\ FreqsOf(t, n) = FreqsOf(t, n - 1)
                /\ Hold(t, n) = Hold(t, n - 1)
<1>0. Len(chunk) \in Nat /\ base_docid \in Nat /\ base_docid > 0
  BY ChunkIs
<1>1. n \in 0..Len(chunk) /\ n - 1 \in 0..Len(chunk) /\ n \in Nat /\ n >= 1
  BY <1>0
<1>2. CASE t \in DOMAIN chunk[n].freqs
  <2> DEFINE h == Hold(t, n - 1)
             a == Hold(t, n)
  <2>1. a = Append(h, n) /\ h \in Seq(Nat)
    BY <1>1, <1>2, HoldIs
  <2>2. /\ DocidsOf(t, n) = [k \in DOMAIN a |-> base_docid + a[k] - 1]
        /\ FreqsOf(t, n) = [k \in DOMAIN a |-> chunk[a[k]].freqs[t]]
        /\ DocidsOf(t, n - 1) = [k \in DOMAIN h |-> base_docid + h[k] - 1]
        /\ FreqsOf(t, n - 1) = [k \in DOMAIN h |-> chunk[h[k]].freqs[t]]
    BY DEF DocidsOf, FreqsOf
  <2>3. /\ DocidsOf(t, n) \in Seq(Nat) /\ FreqsOf(t, n) \in Seq(Nat)
        /\ Len(DocidsOf(t, n)) = Len(a) /\ Len(FreqsOf(t, n)) = Len(a)
        /\ DocidsOf(t, n - 1) \in Seq(Nat) /\ FreqsOf(t, n - 1) \in Seq(Nat)
        /\ Len(DocidsOf(t, n - 1)) = Len(h) /\ Len(FreqsOf(t, n - 1)) = Len(h)
    BY <1>1, ListsAre
  <2> HIDE DEF h, a
  <2>4. /\ Len(h) \in Nat /\ Len(a) = Len(h) + 1 /\ a[Len(h) + 1] = n
        /\ DOMAIN a = 1..(Len(h) + 1) /\ DOMAIN h = 1..Len(h)
        /\ \A k \in 1..Len(h) : a[k] = h[k]
        /\ \A k \in 1..(Len(h) + 1) : k \in 1..Len(h) \/ k = Len(h) + 1
        /\ \A k \in 1..Len(h) : k \in 1..(Len(h) + 1)
        /\ Len(h) + 1 \in 1..(Len(h) + 1)
    BY <2>1
  <2> DEFINE l == Len(h)
             x == base_docid + n - 1
             y == chunk[n].freqs[t]
             ds == DocidsOf(t, n)
             fs == FreqsOf(t, n)
             ds0 == DocidsOf(t, n - 1)
             fs0 == FreqsOf(t, n - 1)
  <2>5. x \in Nat /\ y \in Nat
    <3>1. y \in Nat
      BY <1>2, ChunkIs
    <3> QED
      BY <1>0, <1>1, <3>1
  <2>6. /\ \A k \in 1..l : ds[k] = ds0[k] /\ fs[k] = fs0[k]
        /\ ds[l + 1] = x /\ fs[l + 1] = y
    <3>1. /\ \A k \in DOMAIN a : /\ DocidsOf(t, n)[k] = base_docid + a[k] - 1
                                /\ FreqsOf(t, n)[k] = chunk[a[k]].freqs[t]
          /\ \A k \in DOMAIN h : /\ DocidsOf(t, n - 1)[k] = base_docid + h[k] - 1
                                /\ FreqsOf(t, n - 1)[k] = chunk[h[k]].freqs[t]
      BY ONLY <2>2
    <3>2. \A k \in 1..Len(h) : k \in DOMAIN a /\ k \in DOMAIN h /\ a[k] = h[k]
      BY ONLY <2>4
    <3>3. Len(h) + 1 \in DOMAIN a
      BY ONLY <2>4
    <3>4. \A k \in 1..Len(h) : /\ DocidsOf(t, n)[k] = DocidsOf(t, n - 1)[k]
                               /\ FreqsOf(t, n)[k] = FreqsOf(t, n - 1)[k]
      BY ONLY <3>1, <3>2
    <3>5. /\ DocidsOf(t, n)[Len(h) + 1] = base_docid + n - 1
          /\ FreqsOf(t, n)[Len(h) + 1] = chunk[n].freqs[t]
      BY ONLY <2>4, <3>1, <3>3
    <3> QED
      BY <3>4, <3>5
  <2>7. /\ ds \in Seq(Nat) /\ fs \in Seq(Nat) /\ ds0 \in Seq(Nat) /\ fs0 \in Seq(Nat)
        /\ Len(ds) = l + 1 /\ Len(fs) = l + 1 /\ Len(ds0) = l /\ Len(fs0) = l
        /\ l \in Nat
    BY <2>3, <2>4
  <2> HIDE DEF l, x, y, ds, fs, ds0, fs0
  <2>8. \A u, w \in Seq(Nat) : \A z \in Nat :
           Len(w) = Len(u) + 1 /\ (\A k \in 1..Len(u) : w[k] = u[k]) /\ w[Len(u) + 1] = z
           => w = Append(u, z)
    OBVIOUS
  <2>9. ds = Append(ds0, x) /\ fs = Append(fs0, y)
    <3>1. ds = Append(ds0, x)
      BY ONLY <2>5, <2>6, <2>7, <2>8
    <3>2. fs = Append(fs0, y)
      BY ONLY <2>5, <2>6, <2>7, <2>8
    <3> QED
      BY <3>1, <3>2
  <2> QED
    BY <1>2, <2>4, <2>9 DEF h, a, x, y, ds, fs, ds0, fs0
<1>3. CASE t \notin DOMAIN chunk[n].freqs
  <2>1. Hold(t, n) = Hold(t, n - 1)
    BY <1>1, <1>3, HoldIs
  <2> QED
    BY <1>3, <2>1 DEF DocidsOf, FreqsOf
<1> QED
  BY <1>2, <1>3

NIndexed == Cardinality(DOMAIN inverted_index)

\* The loops over the map go through its terms, once each.
LEMMA OrderIs ==
    ASSUME DOMAIN inverted_index \in SUBSET Terms
    PROVE  /\ NIndexed \in Nat /\ DOMAIN InOrder = 1..NIndexed
           /\ \A j \in 1..NIndexed : InOrder[j] \in DOMAIN inverted_index
           /\ \A j, k \in 1..NIndexed : InOrder[j] = InOrder[k] => j = k
           /\ \A t \in DOMAIN inverted_index : \E j \in 1..NIndexed : InOrder[j] = t
<1> DEFINE S == DOMAIN inverted_index
           Rank(t) == Cardinality(Below(S, t))
           n == Cardinality(S)
<1>1. IsFiniteSet(S) /\ S \in SUBSET Nat /\ n \in Nat
  <2>1. NTerms \in Nat
    BY LocalIndexAssumption
  <2>2. IsFiniteSet(Terms) /\ Terms \subseteq Nat
    BY <2>1, FS_Interval DEF Terms
  <2> QED
    BY <2>2, FS_Subset, FS_CardinalityType
<1>2. InOrder = [j \in 1..n |-> CHOOSE t \in S : Rank(t) = j - 1]
  BY DEF InOrder, Below
<1>3. \A t \in S : Rank(t) \in Nat /\ Rank(t) < n
  BY <1>1, KeysAreRanked
<1>4. \A t, u \in S : t < u => Rank(t) + 1 <= Rank(u)
  BY <1>1, KeysAreRanked
<1> HIDE DEF Rank
<1>5. \A k \in Nat : k < n => \E t \in S : Rank(t) = k
  <2> TAKE k \in Nat
  <2> HAVE k < n
  <2> HIDE DEF S
  <2> QED
    BY <1>1, IndexHasKey DEF Rank
<1>6. \A j \in 1..n : InOrder[j] \in S /\ Rank(InOrder[j]) = j - 1
  <2> TAKE j \in 1..n
  <2>1. j - 1 \in Nat /\ j - 1 < n
    BY <1>1
  <2>2. \E t \in S : Rank(t) = j - 1
    BY <1>5, <2>1
  <2> HIDE DEF S, n
  <2> QED
    BY <1>2, <2>2
<1>7. \A t, u \in S : Rank(t) = Rank(u) => t = u
  <2> TAKE t, u \in S
  <2> HAVE Rank(t) = Rank(u)
  <2>1. t \in Nat /\ u \in Nat /\ Rank(t) \in Nat
    BY <1>1, <1>3
  <2>2. ~(t < u) /\ ~(u < t)
    BY <1>3, <1>4
  <2> QED
    BY <2>1, <2>2
<1>8. \A t \in S : \E j \in 1..n : InOrder[j] = t
  <2> TAKE t \in S
  <2>1. Rank(t) + 1 \in 1..n /\ (Rank(t) + 1) - 1 = Rank(t)
    BY <1>1, <1>3
  <2> HIDE DEF S, n
  <2>2. InOrder[Rank(t) + 1] = t
    BY <1>6, <1>7, <2>1
  <2> QED
    BY <2>1, <2>2
<1>9. \A j, k \in 1..n : InOrder[j] = InOrder[k] => j = k
  <2> TAKE j, k \in 1..n
  <2> HAVE InOrder[j] = InOrder[k]
  <2>1. j - 1 = k - 1 /\ j \in Int /\ k \in Int
    BY <1>6
  <2> QED
    BY <2>1
<1>10. DOMAIN InOrder = 1..n
  BY <1>2
<1> QED
  BY <1>1, <1>6, <1>8, <1>9, <1>10 DEF NIndexed

-----------------------------------------------------------------------------
(* The invariant.                                                          *)

\* The documents in the index, the terms in the lexicon's vector, those whose frequencies are
\* written, and those in the lexicon.
Added == IF stage = "add" THEN at - 1 ELSE Len(chunk)
Gathered == IF stage = "add" THEN 0 ELSE IF stage = "docids" THEN at - 1 ELSE NIndexed
Recoded == IF stage \in {"add", "docids"} THEN 0 ELSE IF stage = "freqs" THEN at - 1 ELSE NIndexed
InLexicon == IF stage = "lexicon" THEN at - 1 ELSE IF stage = "loaded" THEN NIndexed ELSE 0

TermsUpTo(n) == UNION {DOMAIN chunk[i].freqs : i \in 1..n}

Control ==
    /\ stage \in {"add", "docids", "freqs", "lexicon", "loaded"} /\ at \in Nat \ {0}
    /\ stage = "add" => at <= Len(chunk) + 1
    /\ stage \in {"docids", "freqs", "lexicon"} => at <= NIndexed + 1

\* The postings of a term, of the first documents.
AsPosts(entry, t, n) ==
    /\ entry.docids \in Seq(Nat) /\ IsCode(entry.docids, 0, Len(entry.docids), DocidsOf(t, n))
    /\ entry.freqs \in Seq(Nat) /\ IsCode(entry.freqs, 0, Len(entry.freqs), FreqsOf(t, n))
    /\ entry.n_docs = Len(Hold(t, n))

Posts ==
    /\ DOMAIN inverted_index = TermsUpTo(Added)
    /\ \A t \in DOMAIN inverted_index : AsPosts(inverted_index[t], t, Added)
    /\ \A t \in Terms \ DOMAIN inverted_index : Hold(t, Added) = <<>>

IndexedDocuments ==
    document_index = [i \in 1..Len(chunk) |->
                        IF i <= Added THEN [docno |-> Docno(i), lenght |-> Lenght(chunk[i])]
                        ELSE NoDoc]

Values == [start_pos_docid : Nat, end_pos_docid : Nat, start_pos_freq : Nat,
           end_pos_freq : Nat, n_docs : Nat]

Vector == lexicon_vector \in Seq(Values) /\ Len(lexicon_vector) = Gathered

\* What the files hold for a term.
HasDocids(v, t) ==
    /\ IsCode(docid_teletype, v.start_pos_docid, v.end_pos_docid, DocidsOf(t, Len(chunk)))
    /\ v.n_docs = Len(Hold(t, Len(chunk)))

HasFreqs(v, freqs_of_term) ==
    /\ v.end_pos_freq = v.start_pos_freq + BytesOf(freqs_of_term)
    /\ ByteBits * v.end_pos_freq <= Len(freq_teletype)
    /\ \A b \in Nat : b < ByteBits * BytesOf(freqs_of_term) =>
          freq_teletype[ByteBits * v.start_pos_freq + b + 1] = BitAt(freqs_of_term, b)

DocidFile ==
    /\ docid_teletype \in Seq(Nat)
    /\ \A j \in 1..Gathered : HasDocids(lexicon_vector[j], InOrder[j])

FreqFile ==
    /\ freq_teletype \in Seq({0, 1}) /\ Len(freq_teletype) = ByteBits * Tellp(freq_teletype)
    /\ \A j \in 1..Recoded : HasFreqs(lexicon_vector[j], FreqsOf(InOrder[j], Len(chunk)))

DocumentFile ==
    stage \in {"lexicon", "loaded"} =>
       document_teletype =
          <<base_docid, Len(document_index)>>
          \o [i \in DOMAIN document_index |->
                [docno_offset |-> DocnoOffsets[i], lenght |-> document_index[i].lenght]]
          \o Strings[Len(document_index)]

LexiconFile ==
    /\ DOMAIN lexicon = {InOrder[j] : j \in 1..InLexicon}
    /\ \A j \in 1..InLexicon : lexicon[InOrder[j]] = EncodedAll(Serialized(lexicon_vector[j]))

Mapped ==
    stage = "loaded" =>
       index = [base_docid     |-> base_docid,
                length         |-> Len(chunk),
                document_index |-> 2,
                base_docno     |-> 2 + Len(chunk)]

LocalInv ==
    /\ Input /\ Control /\ Posts /\ IndexedDocuments /\ Vector /\ DocidFile /\ FreqFile
    /\ DocumentFile /\ LexiconFile /\ Mapped

\* While the chunk stays, so do the lists of its terms.
LEMMA SameInput ==
    ASSUME UNCHANGED inputVars
    PROVE  /\ chunk' = chunk /\ base_docid' = base_docid
           /\ Input => Input'
           /\ \A t, n : /\ Hold(t, n)' = Hold(t, n) /\ DocidsOf(t, n)' = DocidsOf(t, n)
                        /\ FreqsOf(t, n)' = FreqsOf(t, n)
           /\ \A n : TermsUpTo(n)' = TermsUpTo(n)
           /\ \A i : Docno(i)' = Docno(i)
<1>1. chunk' = chunk /\ base_docid' = base_docid
  BY DEF inputVars
<1>2. \A t, n : Hold(t, n)' = Hold(t, n)
  BY <1>1 DEF Hold, HoldingUpTo
<1>3. \A t, n : DocidsOf(t, n)' = DocidsOf(t, n) /\ FreqsOf(t, n)' = FreqsOf(t, n)
  BY <1>1, <1>2 DEF DocidsOf, FreqsOf
<1>4. /\ \A n : TermsUpTo(n)' = TermsUpTo(n)
      /\ \A i : Docno(i)' = Docno(i)
      /\ Input => Input'
  BY <1>1 DEF TermsUpTo, Docno, Input
<1> QED
  BY <1>1, <1>2, <1>3, <1>4

\* While the index stays, so does the order that its terms are written in.
LEMMA SameOrder ==
    ASSUME UNCHANGED inverted_index
    PROVE  InOrder' = InOrder /\ NIndexed' = NIndexed
BY DEF InOrder, NIndexed

\* The terms of the index are terms, and it has those of the documents that were added.
LEMMA IndexedTerms ==
    ASSUME Input, Control, Posts
    PROVE  /\ DOMAIN inverted_index \in SUBSET Terms
           /\ Added \in 0..Len(chunk)
<1>1. Len(chunk) \in Nat /\ \A i \in 1..Len(chunk) : DOMAIN chunk[i].freqs \subseteq Terms
  BY ChunkIs
<1>2. Added \in 0..Len(chunk)
  BY <1>1 DEF Control, Added
<1>3. \A i \in 1..Added : i \in 1..Len(chunk)
  BY <1>1, <1>2
<1>4. DOMAIN inverted_index \subseteq Terms
  BY <1>1, <1>3 DEF Posts, TermsUpTo
<1> QED
  BY <1>2, <1>4

\* Each part of the invariant is kept by a step that leaves what it speaks of: the lists,
LEMMA ListsKept ==
    ASSUME UNCHANGED inputVars
    PROVE  \A t, n : \A entry : AsPosts(entry, t, n) => AsPosts(entry, t, n)'
<1> SUFFICES ASSUME NEW t, NEW n, NEW entry, AsPosts(entry, t, n)
             PROVE  /\ entry.docids \in Seq(Nat)
                    /\ IsCode(entry.docids, 0, Len(entry.docids), DocidsOf(t, n)')
                    /\ entry.freqs \in Seq(Nat)
                    /\ IsCode(entry.freqs, 0, Len(entry.freqs), FreqsOf(t, n)')
                    /\ entry.n_docs = Len(Hold(t, n)')
  BY DEF AsPosts
<1>1. Hold(t, n)' = Hold(t, n) /\ DocidsOf(t, n)' = DocidsOf(t, n) /\ FreqsOf(t, n)' = FreqsOf(t, n)
  BY SameInput
<1> QED
  BY <1>1 DEF AsPosts

\* the index,
LEMMA PostsKept ==
    ASSUME Posts, UNCHANGED inputVars, UNCHANGED inverted_index, Added' = Added
    PROVE  Posts'
BY ListsKept, SameInput DEF Posts

\* the documents,
LEMMA DocumentsKept ==
    ASSUME IndexedDocuments, UNCHANGED inputVars, UNCHANGED document_index, Added' = Added
    PROVE  IndexedDocuments'
BY SameInput DEF IndexedDocuments

\* the vector of the terms' values,
LEMMA VectorKept ==
    ASSUME Vector, UNCHANGED lexicon_vector, Gathered' = Gathered
    PROVE  Vector'
BY DEF Vector

\* the three files,
LEMMA DocidFileKept ==
    ASSUME DocidFile, UNCHANGED inputVars, UNCHANGED inverted_index, UNCHANGED docid_teletype,
           UNCHANGED lexicon_vector, Gathered' = Gathered
    PROVE  DocidFile'
<1>1. \A v, t : HasDocids(v, t) => HasDocids(v, t)'
  <2> SUFFICES ASSUME NEW v, NEW t, HasDocids(v, t)
               PROVE  /\ IsCode(docid_teletype', v.start_pos_docid, v.end_pos_docid,
                                DocidsOf(t, Len(chunk))')
                      /\ v.n_docs = Len(Hold(t, Len(chunk))')
    BY DEF HasDocids
  <2>1. \A n : DocidsOf(t, n)' = DocidsOf(t, n) /\ Hold(t, n)' = Hold(t, n)
    BY SameInput
  <2> QED
    BY <2>1, SameInput DEF HasDocids
<1> QED
  BY <1>1, SameOrder DEF DocidFile

LEMMA FreqFileKept ==
    ASSUME FreqFile, UNCHANGED inputVars, UNCHANGED inverted_index, UNCHANGED freq_teletype,
           UNCHANGED lexicon_vector, Recoded' = Recoded
    PROVE  FreqFile'
<1>1. \A v, fs : HasFreqs(v, fs) => HasFreqs(v, fs)'
  BY DEF HasFreqs
<1>2. \A t : FreqsOf(t, Len(chunk))' = FreqsOf(t, Len(chunk))
  BY SameInput
<1> QED
  BY <1>1, <1>2, SameOrder DEF FreqFile, Tellp

LEMMA DocumentFileKept ==
    ASSUME DocumentFile, UNCHANGED inputVars, UNCHANGED builderVars, UNCHANGED document_teletype,
           stage' \in {"lexicon", "loaded"} => stage \in {"lexicon", "loaded"}
    PROVE  DocumentFile'
<1>1. document_index' = document_index
  BY DEF builderVars
<1>2. DocnoOffsets' = DocnoOffsets /\ Strings' = Strings
  BY <1>1 DEF DocnoOffsets, Strings
<1> QED
  BY <1>1, <1>2, SameInput DEF DocumentFile

\* and the lexicon.
LEMMA LexiconKept ==
    ASSUME LexiconFile, UNCHANGED inverted_index, UNCHANGED lexicon, UNCHANGED lexicon_vector,
           InLexicon' = InLexicon
    PROVE  LexiconFile'
BY SameOrder DEF LexiconFile

\* A lexicon where nothing is written yet.
LEMMA NoLexicon ==
    ASSUME LexiconFile, UNCHANGED lexicon, InLexicon = 0, InLexicon' = 0
    PROVE  LexiconFile'
<1>1. \A j \in 1..0 : FALSE
  OBVIOUS
<1>2. DOMAIN lexicon = {}
  BY <1>1 DEF LexiconFile
<1> QED
  BY <1>1, <1>2 DEF LexiconFile

LEMMA NothingWritten ==
    ASSUME DocidFile, FreqFile, UNCHANGED docid_teletype, UNCHANGED freq_teletype,
           Gathered' = 0, Recoded' = 0
    PROVE  DocidFile' /\ FreqFile'
<1>1. \A j \in 1..0 : FALSE
  OBVIOUS
<1> QED
  BY <1>1 DEF DocidFile, FreqFile, Tellp

\* The invariant holds before a document is added, and every step keeps it.
LEMMA LocalInitInv == LocalInit => LocalInv
<1> SUFFICES ASSUME LocalInit PROVE LocalInv
  OBVIOUS
<1>0. \A j \in 1..0 : FALSE
  OBVIOUS
<1>1. Input
  <2>1. chunk \in SeqOf(Docs, MaxDocs) /\ base_docid \in Bases
    BY DEF LocalInit
  <2>2. PICK m \in 0..MaxDocs : chunk \in [1..m -> Docs]
    BY <2>1 DEF SeqOf
  <2>3. m \in Nat
    BY <2>2, LocalIndexAssumption
  <2>4. chunk \in Seq(Docs)
    BY <2>2, <2>3
  <2>5. Bases \subseteq Nat \ {0}
    BY LocalIndexAssumption
  <2> QED
    BY <2>1, <2>4, <2>5 DEF Input
<1>2. Len(chunk) \in Nat /\ DOMAIN chunk = 1..Len(chunk)
  BY <1>1, ChunkIs
<1>3. Added = 0 /\ Gathered = 0 /\ Recoded = 0 /\ InLexicon = 0
  BY DEF LocalInit, Added, Gathered, Recoded, InLexicon
<1>4. DOMAIN <<>> = {} /\ <<>> \in Seq(Nat) /\ <<>> \in Seq({0, 1}) /\ Len(<<>>) = 0
  BY <1>0
<1>5. Control
  BY <1>2 DEF LocalInit, Control
<1>6. Posts
  <2>1. DOMAIN inverted_index = {}
    BY <1>4 DEF LocalInit
  <2>2. TermsUpTo(0) = {}
    BY <1>0 DEF TermsUpTo
  <2>3. \A t : Hold(t, 0) = <<>>
    BY <1>1, HoldIs
  <2> QED
    BY <1>3, <2>1, <2>2, <2>3 DEF Posts
<1>7. IndexedDocuments
  <2>1. document_index = [i \in DOMAIN chunk |-> NoDoc]
    BY DEF LocalInit
  <2>2. \A i \in 1..Len(chunk) : ~(i <= 0)
    BY <1>2
  <2> QED
    BY <1>2, <1>3, <2>1, <2>2 DEF IndexedDocuments
<1>8. Vector
  <2>1. <<>> \in Seq(Values)
    OBVIOUS
  <2> QED
    BY <1>3, <1>4, <2>1 DEF LocalInit, Vector
<1>9. DocidFile
  BY <1>0, <1>3, <1>4 DEF LocalInit, DocidFile
<1>10. FreqFile
  <2>1. ByteBits \in Nat /\ ByteBits > 0
    BY ByteAssumption
  <2>2. freq_teletype = <<>>
    BY DEF LocalInit
  <2>3. 0 \div ByteBits = 0 /\ ByteBits * 0 = 0
    <3>1. (ByteBits * 0 + 0) \div ByteBits = 0
      BY <2>1, Quotient
    <3> QED
      BY <2>1, <3>1
  <2>4. Len(freq_teletype) = ByteBits * Tellp(freq_teletype)
    BY <1>4, <2>2, <2>3 DEF Tellp
  <2> QED
    BY <1>0, <1>3, <1>4, <2>2, <2>4 DEF FreqFile
<1>11. DocumentFile
  BY DEF LocalInit, DocumentFile
<1>12. LexiconFile
  BY <1>0, <1>3, <1>4 DEF LocalInit, LexiconFile
<1>13. Mapped
  BY DEF LocalInit, Mapped
<1> QED
  BY <1>1, <1>5, <1>6, <1>7, <1>8, <1>9, <1>10, <1>11, <1>12, <1>13 DEF LocalInv

\* One more posting.
LEMMA PostsGrow ==
    ASSUME Input, NEW t, NEW n \in 1..Len(chunk), t \in DOMAIN chunk[n].freqs,
           NEW entry, AsPosts(entry, t, n - 1)
    PROVE  AsPosts(WithPost(entry, base_docid + n - 1, chunk[n].freqs[t]), t, n)
<1> DEFINE docid == base_docid + n - 1
           occurrences == chunk[n].freqs[t]
           ds == DocidsOf(t, n - 1)
           fs == FreqsOf(t, n - 1)
<1>1. docid \in Nat /\ occurrences \in Nat /\ n - 1 \in 0..Len(chunk)
  <2>1. /\ base_docid \in Nat /\ base_docid > 0 /\ Len(chunk) \in Nat
        /\ occurrences \in Nat
    BY ChunkIs
  <2> QED
    BY <2>1
<1>2. ds \in Seq(Nat) /\ fs \in Seq(Nat)
  BY <1>1, ListsAre
<1>3. /\ DocidsOf(t, n) = Append(ds, docid) /\ FreqsOf(t, n) = Append(fs, occurrences)
      /\ Len(Hold(t, n)) = Len(Hold(t, n - 1)) + 1
  BY ListsGrow
<1>4. /\ entry.docids \in Seq(Nat) /\ IsCode(entry.docids, 0, Len(entry.docids), ds)
      /\ entry.freqs \in Seq(Nat) /\ IsCode(entry.freqs, 0, Len(entry.freqs), fs)
      /\ entry.n_docs = Len(Hold(t, n - 1))
  BY DEF AsPosts
<1> HIDE DEF docid, occurrences, ds, fs
<1> DEFINE d == entry.docids \o Encoded[docid]
           f == entry.freqs \o Encoded[occurrences]
<1>5. d \in Seq(Nat) /\ IsCode(d, 0, Len(d), Append(ds, docid))
  BY <1>1, <1>2, <1>4, CodeGrows
<1>6. f \in Seq(Nat) /\ IsCode(f, 0, Len(f), Append(fs, occurrences))
  BY <1>1, <1>2, <1>4, CodeGrows
<1>7. WithPost(entry, docid, occurrences) = [docids |-> d, freqs |-> f, n_docs |-> entry.n_docs + 1]
  BY DEF WithPost
<1> HIDE DEF d, f
<1>8. AsPosts(WithPost(entry, docid, occurrences), t, n)
  BY <1>3, <1>4, <1>5, <1>6, <1>7 DEF AsPosts
<1> QED
  BY <1>8 DEF docid, occurrences

LEMMA AddDocumentKeepsLocalInv == LocalInv /\ AddDocument => LocalInv'
<1> SUFFICES ASSUME LocalInv, AddDocument PROVE LocalInv'
  OBVIOUS
<1>0. /\ Input /\ Control /\ Posts /\ IndexedDocuments /\ Vector /\ DocidFile /\ FreqFile
      /\ DocumentFile /\ LexiconFile /\ Mapped
  BY DEF LocalInv
<1>1. /\ Len(chunk) \in Nat /\ DOMAIN chunk = 1..Len(chunk)
      /\ base_docid \in Nat
      /\ \A i \in 1..Len(chunk) : DOMAIN chunk[i].freqs \subseteq Terms
  BY <1>0, ChunkIs
<1>2. /\ stage = "add" /\ stage' = "add" /\ at \in 1..Len(chunk) /\ at' = at + 1
      /\ UNCHANGED inputVars /\ UNCHANGED lexicon_vector /\ UNCHANGED docid_teletype
      /\ UNCHANGED freq_teletype /\ UNCHANGED document_teletype /\ UNCHANGED lexicon
      /\ UNCHANGED index
  BY <1>1 DEF AddDocument
<1>3. /\ chunk' = chunk /\ base_docid' = base_docid /\ Input'
      /\ \A t, n : Hold(t, n)' = Hold(t, n)
      /\ \A n : TermsUpTo(n)' = TermsUpTo(n)
      /\ \A i : Docno(i)' = Docno(i)
  BY <1>0, <1>2, SameInput
<1>4. /\ Added = at - 1 /\ Added' = at
      /\ Gathered = 0 /\ Gathered' = 0 /\ Recoded = 0 /\ Recoded' = 0
      /\ InLexicon = 0 /\ InLexicon' = 0
  BY <1>1, <1>2 DEF Added, Gathered, Recoded, InLexicon
<1>5. Control'
  BY <1>1, <1>2, <1>3 DEF Control
<1>6. Posts'
  <2> DEFINE new == DOMAIN chunk[at].freqs
             old == DOMAIN inverted_index
  <2>1. inverted_index' =
           [t \in old \cup new |->
              IF t \in new THEN WithPost(Entry(t), base_docid + at - 1, chunk[at].freqs[t])
              ELSE inverted_index[t]]
    BY DEF AddDocument
  <2>2. TermsUpTo(at) = TermsUpTo(at - 1) \cup DOMAIN chunk[at].freqs
    <3>1. \A i : i \in 1..at <=> i \in 1..(at - 1) \/ i = at
      BY <1>1, <1>2
    <3> QED
      BY <3>1 DEF TermsUpTo
  <2>3. /\ old = TermsUpTo(at - 1)
        /\ \A t \in old : AsPosts(inverted_index[t], t, at - 1)
        /\ \A t \in Terms \ old : Hold(t, at - 1) = <<>>
    BY <1>0, <1>4 DEF Posts
  <2>4. new \subseteq Terms
    BY <1>1, <1>2
  <2>5. ASSUME NEW t \in new PROVE AsPosts(Entry(t), t, at - 1)
    <3>1. CASE t \in old
      BY <2>3, <3>1 DEF Entry
    <3>2. CASE t \notin old
      <4>1. Hold(t, at - 1) = <<>>
        BY <2>3, <2>4, <3>2
      <4>2. DOMAIN <<>> = {} /\ Len(<<>>) = 0 /\ <<>> \in Seq(Nat)
        OBVIOUS
      <4>3. DocidsOf(t, at - 1) = <<>> /\ FreqsOf(t, at - 1) = <<>>
        BY <4>1, <4>2 DEF DocidsOf, FreqsOf
      <4>4. Entry(t) = [docids |-> <<>>, freqs |-> <<>>, n_docs |-> 0]
        BY <3>2 DEF Entry, NoPostings
      <4> QED
        BY <4>1, <4>2, <4>3, <4>4, NoCode DEF AsPosts
    <3> QED
      BY <3>1, <3>2
  <2>6. ASSUME NEW t \in new
        PROVE  AsPosts(WithPost(Entry(t), base_docid + at - 1, chunk[at].freqs[t]), t, at)
    BY <1>0, <1>2, <2>5, PostsGrow
  <2>7. ASSUME NEW t, t \notin new PROVE
           /\ Hold(t, at) = Hold(t, at - 1)
           /\ \A entry : AsPosts(entry, t, at - 1) => AsPosts(entry, t, at)
    <3>1. /\ Hold(t, at) = Hold(t, at - 1) /\ DocidsOf(t, at) = DocidsOf(t, at - 1)
          /\ FreqsOf(t, at) = FreqsOf(t, at - 1)
      BY <1>0, <1>2, <2>7, ListsGrow
    <3> QED
      BY <3>1 DEF AsPosts
  <2> HIDE DEF new, old
  <2>8. DOMAIN inverted_index' = old \cup new /\ old \cup new = TermsUpTo(at)
    BY <2>1, <2>2, <2>3 DEF new
  <2>9. \A t \in old \cup new : AsPosts(inverted_index'[t], t, at)
    BY <2>1, <2>3, <2>6, <2>7
  <2>10. \A t \in Terms \ (old \cup new) : Hold(t, at) = <<>>
    BY <2>3, <2>7
  <2>11. \A t \in old \cup new : AsPosts(inverted_index[t], t, Added)'
    <3>1. \A t, n : \A entry : AsPosts(entry, t, n) => AsPosts(entry, t, n)'
      BY <1>2, ListsKept
    <3> QED
      BY <1>4, <2>9, <3>1
  <2>12. \A t \in Terms \ (old \cup new) : Hold(t, Added)' = <<>>
    BY <1>3, <1>4, <2>10
  <2>13. TermsUpTo(Added)' = TermsUpTo(at)
    BY <1>3, <1>4
  <2> QED
    BY <2>8, <2>11, <2>12, <2>13 DEF Posts
<1>7. IndexedDocuments'
  <2> DEFINE D == Len(chunk)
             info == [docno |-> Docno(at), lenght |-> Lenght(chunk[at])]
             Info(i) == [docno |-> Docno(i), lenght |-> Lenght(chunk[i])]
  <2>1. document_index' = [document_index EXCEPT ![(base_docid + at - 1) - base_docid + 1] = info]
    BY DEF AddDocument
  <2>2. (base_docid + at - 1) - base_docid + 1 = at
    BY <1>1, <1>2
  <2>3. document_index = [i \in 1..D |-> IF i <= at - 1 THEN Info(i) ELSE NoDoc]
    BY <1>0, <1>4 DEF IndexedDocuments
  <2>4. info = Info(at)
    OBVIOUS
  <2> HIDE DEF D, info, Info
  <2>5. \A i \in 1..D : (i <= at <=> i <= at - 1 \/ i = at) /\ (i = at => ~(i <= at - 1))
    BY <1>1, <1>2 DEF D
  <2>6. document_index' = [i \in 1..D |-> IF i <= at THEN Info(i) ELSE NoDoc]
    BY <2>1, <2>2, <2>3, <2>4, <2>5
  <2> QED
    BY <1>3, <1>4, <2>6 DEF IndexedDocuments, D, Info
<1>8. Vector'
  BY <1>0, <1>2, <1>4, VectorKept
<1>9. DocidFile' /\ FreqFile'
  BY <1>0, <1>2, <1>4, NothingWritten
<1>10. LexiconFile'
  BY <1>0, <1>2, <1>4, NoLexicon
<1>11. DocumentFile' /\ Mapped'
  BY <1>2 DEF DocumentFile, Mapped
<1> QED
  BY <1>3, <1>5, <1>6, <1>7, <1>8, <1>9, <1>10, <1>11 DEF LocalInv

\* A file of frequencies where nothing is written yet.
LEMMA NoFreqs ==
    ASSUME FreqFile, UNCHANGED freq_teletype, Recoded' = 0
    PROVE  FreqFile'
<1>1. \A j \in 1..0 : FALSE
  OBVIOUS
<1> QED
  BY <1>1 DEF FreqFile, Tellp

LEMMA BeginWriteKeepsLocalInv == LocalInv /\ BeginWrite => LocalInv'
<1> SUFFICES ASSUME LocalInv, BeginWrite PROVE LocalInv'
  OBVIOUS
<1>0. /\ Input /\ Control /\ Posts /\ IndexedDocuments /\ Vector /\ DocidFile /\ FreqFile
      /\ DocumentFile /\ LexiconFile /\ Mapped
  BY DEF LocalInv
<1>1. Len(chunk) \in Nat /\ DOMAIN chunk = 1..Len(chunk)
  BY <1>0, ChunkIs
<1>2. /\ stage = "add" /\ stage' = "docids" /\ at \notin 1..Len(chunk) /\ at' = 1
      /\ UNCHANGED inputVars /\ UNCHANGED inverted_index /\ UNCHANGED document_index
      /\ UNCHANGED lexicon_vector /\ UNCHANGED docid_teletype
      /\ UNCHANGED freq_teletype /\ UNCHANGED document_teletype /\ UNCHANGED lexicon
      /\ UNCHANGED index
  BY <1>1 DEF BeginWrite, StartLoop, builderVars
<1>3. Input' /\ chunk' = chunk /\ NIndexed' = NIndexed /\ NIndexed \in Nat
  BY <1>0, <1>2, SameInput, SameOrder, IndexedTerms, OrderIs
<1>4. at = Len(chunk) + 1
  BY <1>0, <1>1, <1>2 DEF Control
<1>5. /\ Added' = Added /\ Gathered = 0 /\ Gathered' = 0 /\ Recoded = 0 /\ Recoded' = 0
      /\ InLexicon = 0 /\ InLexicon' = 0
  BY <1>1, <1>2, <1>3, <1>4 DEF Added, Gathered, Recoded, InLexicon
<1>6. Control'
  BY <1>2, <1>3 DEF Control
<1>7. Posts' /\ IndexedDocuments'
  BY <1>0, <1>2, <1>5, PostsKept, DocumentsKept
<1>8. Vector' /\ DocidFile' /\ FreqFile'
  BY <1>0, <1>2, <1>5, VectorKept, NothingWritten
<1>9. LexiconFile'
  BY <1>0, <1>2, <1>5, NoLexicon
<1>10. DocumentFile' /\ Mapped'
  BY <1>2 DEF DocumentFile, Mapped
<1> QED
  BY <1>3, <1>6, <1>7, <1>8, <1>9, <1>10 DEF LocalInv

\* Bytes after other bytes.
LEMMA Joined ==
    \A u, w \in Seq(Nat) :
       /\ u \o w \in Seq(Nat) /\ Len(u \o w) = Len(u) + Len(w)
       /\ \A i \in 1..Len(u) : (u \o w)[i] = u[i]
       /\ \A j \in 1..Len(w) : (u \o w)[Len(u) + j] = w[j]
OBVIOUS

\* One value more at the end of the vector.
LEMMA OneMoreValue ==
    ASSUME NEW vs \in Seq(Values), NEW v \in Values
    PROVE  /\ Append(vs, v) \in Seq(Values) /\ Len(Append(vs, v)) = Len(vs) + 1
           /\ Len(vs) \in Nat
           /\ \A j \in 1..Len(vs) : Append(vs, v)[j] = vs[j]
           /\ Append(vs, v)[Len(vs) + 1] = v
OBVIOUS

\* Where codes begin and end.
LEMMA CodeOffsets ==
    ASSUME NEW bytes, NEW begin, NEW end, NEW numbers \in Seq(Nat),
           IsCode(bytes, begin, end, numbers)
    PROVE  begin \in Nat /\ end \in Nat
<1>1. PICK starts : AreStarts(starts, bytes, begin, end, numbers)
  BY DEF IsCode
<1>2. Len(numbers) \in Nat
  OBVIOUS
<1>3. 1 \in 1..(Len(numbers) + 1) /\ Len(numbers) + 1 \in 1..(Len(numbers) + 1)
  BY <1>2
<1> QED
  BY <1>1, <1>3 DEF AreStarts

LEMMA WriteDocidsKeepsLocalInv == LocalInv /\ WriteDocids => LocalInv'
<1> SUFFICES ASSUME LocalInv, WriteDocids PROVE LocalInv'
  OBVIOUS
<1>0. /\ Input /\ Control /\ Posts /\ IndexedDocuments /\ Vector /\ DocidFile /\ FreqFile
      /\ DocumentFile /\ LexiconFile /\ Mapped
  BY DEF LocalInv
<1> DEFINE t == InOrder[at]
           list == inverted_index[t]
           old == docid_teletype
           new == old \o list.docids
           D == Len(chunk)
           v == [start_pos_docid |-> Len(old), end_pos_docid |-> Len(new),
                 start_pos_freq |-> 0, end_pos_freq |-> 0, n_docs |-> list.n_docs]
<1>1. /\ DOMAIN inverted_index \in SUBSET Terms /\ NIndexed \in Nat
      /\ DOMAIN InOrder = 1..NIndexed
      /\ \A j \in 1..NIndexed : InOrder[j] \in DOMAIN inverted_index
  BY <1>0, IndexedTerms, OrderIs
<1>2. /\ stage = "docids" /\ stage' = "docids" /\ at \in 1..NIndexed /\ at' = at + 1
      /\ UNCHANGED inputVars /\ UNCHANGED inverted_index /\ UNCHANGED document_index
      /\ UNCHANGED freq_teletype /\ UNCHANGED document_teletype /\ UNCHANGED lexicon
      /\ UNCHANGED index
      /\ docid_teletype' = new /\ lexicon_vector' = Append(lexicon_vector, v)
  BY <1>1 DEF WriteDocids, builderVars
<1>3. /\ Input' /\ chunk' = chunk /\ NIndexed' = NIndexed /\ InOrder' = InOrder
      /\ \A u, n : DocidsOf(u, n)' = DocidsOf(u, n) /\ Hold(u, n)' = Hold(u, n)
  BY <1>0, <1>2, SameInput, SameOrder
<1>4. /\ Added = D /\ Added' = D /\ Gathered = at - 1 /\ Gathered' = at
      /\ Recoded = 0 /\ Recoded' = 0 /\ InLexicon = 0 /\ InLexicon' = 0
  BY <1>1, <1>2, <1>3 DEF Added, Gathered, Recoded, InLexicon
<1>5. Control'
  BY <1>1, <1>2, <1>3 DEF Control
<1>6. Posts' /\ IndexedDocuments'
  BY <1>0, <1>2, <1>4, PostsKept, DocumentsKept
<1>7. t \in DOMAIN inverted_index /\ AsPosts(list, t, D)
  BY <1>0, <1>1, <1>2, <1>4 DEF Posts
<1>8. /\ D \in Nat /\ DocidsOf(t, D) \in Seq(Nat) /\ Len(Hold(t, D)) \in Nat
      /\ \A u : DocidsOf(u, D) \in Seq(Nat)
  <2>1. D \in Nat /\ D \in 0..D
    BY <1>0, ChunkIs
  <2> QED
    BY <1>0, <2>1, ListsAre
<1>9. /\ list.docids \in Seq(Nat) /\ IsCode(list.docids, 0, Len(list.docids), DocidsOf(t, D))
      /\ list.n_docs = Len(Hold(t, D))
  BY <1>7 DEF AsPosts
<1>10. old \in Seq(Nat)
  BY <1>0 DEF DocidFile
<1> HIDE DEF list, t
<1>11. /\ new \in Seq(Nat) /\ Len(new) = Len(old) + Len(list.docids)
       /\ Len(old) \in Nat /\ Len(new) \in Nat /\ Len(list.docids) \in Nat
       /\ \A i \in 1..Len(old) : new[i] = old[i]
       /\ \A i \in 1..Len(list.docids) : new[Len(old) + i] = list.docids[i]
  <2>1. old \in Seq(Nat) /\ list.docids \in Seq(Nat)
    BY ONLY <1>9, <1>10
  <2> HIDE DEF old
  <2>2. /\ old \o list.docids \in Seq(Nat)
        /\ Len(old \o list.docids) = Len(old) + Len(list.docids)
        /\ \A i \in 1..Len(old) : (old \o list.docids)[i] = old[i]
        /\ \A i \in 1..Len(list.docids) : (old \o list.docids)[Len(old) + i] = list.docids[i]
    BY ONLY <2>1, Joined
  <2>3. new = old \o list.docids
    OBVIOUS
  <2> HIDE DEF new
  <2>4. Len(old) \in Nat /\ Len(new) \in Nat /\ Len(list.docids) \in Nat
    <3>1. new \in Seq(Nat)
      BY ONLY <2>2, <2>3
    <3> QED
      BY ONLY <2>1, <3>1
  <2> QED
    BY ONLY <2>2, <2>3, <2>4
<1> HIDE DEF new, old
<1>12. v \in Values
  BY <1>8, <1>9, <1>11 DEF Values
<1>13. v.start_pos_docid = Len(old) /\ v.end_pos_docid = Len(new) /\ v.n_docs = list.n_docs
  OBVIOUS
<1> HIDE DEF v
<1>14. /\ lexicon_vector' \in Seq(Values) /\ Len(lexicon_vector') = at
       /\ \A j \in 1..(at - 1) : lexicon_vector'[j] = lexicon_vector[j]
       /\ lexicon_vector'[at] = v
  <2>1. lexicon_vector \in Seq(Values) /\ Len(lexicon_vector) = at - 1
    BY <1>0, <1>4 DEF Vector
  <2>2. (at - 1) + 1 = at
    BY <1>1, <1>2
  <2> HIDE DEF Values
  <2> QED
    BY <1>2, <1>12, <2>1, <2>2, OneMoreValue
<1>15. Vector'
  BY <1>4, <1>14 DEF Vector
<1>16. ASSUME NEW j \in 1..(at - 1)
       PROVE  /\ IsCode(new, lexicon_vector[j].start_pos_docid, lexicon_vector[j].end_pos_docid,
                        DocidsOf(InOrder[j], D))
              /\ lexicon_vector[j].n_docs = Len(Hold(InOrder[j], D))
  <2> DEFINE b == lexicon_vector[j].start_pos_docid
             e == lexicon_vector[j].end_pos_docid
             ns == DocidsOf(InOrder[j], D)
  <2>1. IsCode(old, b, e, ns) /\ lexicon_vector[j].n_docs = Len(Hold(InOrder[j], D))
    BY <1>0, <1>4 DEF DocidFile, HasDocids, old
  <2>2. ns \in Seq(Nat)
    BY <1>8
  <2> HIDE DEF b, e, ns, D
  <2>3. b \in Nat /\ e \in Nat
    BY <2>1, <2>2, CodeOffsets
  <2>4. 0 + Len(old) <= Len(new) /\ \A i \in 1..Len(old) : new[0 + i] = old[i]
    BY <1>11
  <2>5. IsCode(new, b + 0, e + 0, ns)
    BY <1>10, <1>11, <2>1, <2>2, <2>4, CodeMoves DEF old
  <2>6. b + 0 = b /\ e + 0 = e
    BY <2>3
  <2> QED
    BY <2>1, <2>5, <2>6 DEF b, e, ns
<1>17. IsCode(new, Len(old), Len(new), DocidsOf(t, D))
  <2>1. Len(old) + Len(list.docids) <= Len(new)
    BY <1>11
  <2>2. IsCode(new, 0 + Len(old), Len(list.docids) + Len(old), DocidsOf(t, D))
    BY <1>8, <1>9, <1>11, <2>1, CodeMoves
  <2>3. 0 + Len(old) = Len(old) /\ Len(list.docids) + Len(old) = Len(new)
    BY <1>11
  <2> QED
    BY <2>2, <2>3
<1>18. ASSUME NEW j \in 1..at
       PROVE  /\ IsCode(new, lexicon_vector'[j].start_pos_docid, lexicon_vector'[j].end_pos_docid,
                        DocidsOf(InOrder[j], D))
              /\ lexicon_vector'[j].n_docs = Len(Hold(InOrder[j], D))
  <2>1. CASE j \in 1..(at - 1)
    BY <1>14, <1>16, <2>1
  <2>2. CASE j = at
    <3>1. lexicon_vector'[j] = v /\ InOrder[j] = t
      BY <1>14, <2>2 DEF t
    <3> QED
      BY ONLY <1>9, <1>13, <1>17, <3>1
  <2>3. j \in 1..(at - 1) \/ j = at
    BY <1>1, <1>2
  <2> QED
    BY <2>1, <2>2, <2>3
<1>19. DocidFile'
  <2>1. \A j \in 1..at : HasDocids(lexicon_vector[j], InOrder[j])'
    BY <1>2, <1>3, <1>18 DEF HasDocids, D, new, old
  <2>2. docid_teletype' \in Seq(Nat)
    BY <1>2, <1>11
  <2> QED
    BY <1>4, <2>1, <2>2 DEF DocidFile
<1>20. FreqFile'
  BY <1>0, <1>2, <1>4, NoFreqs
<1>21. LexiconFile'
  BY <1>0, <1>2, <1>4, NoLexicon
<1>22. DocumentFile' /\ Mapped'
  BY <1>2 DEF DocumentFile, Mapped
<1> QED
  BY <1>3, <1>5, <1>6, <1>15, <1>19, <1>20, <1>21, <1>22 DEF LocalInv

LEMMA DocidsWrittenKeepsLocalInv == LocalInv /\ DocidsWritten => LocalInv'
<1> SUFFICES ASSUME LocalInv, DocidsWritten PROVE LocalInv'
  OBVIOUS
<1>0. /\ Input /\ Control /\ Posts /\ IndexedDocuments /\ Vector /\ DocidFile /\ FreqFile
      /\ DocumentFile /\ LexiconFile /\ Mapped
  BY DEF LocalInv
<1>1. NIndexed \in Nat /\ DOMAIN InOrder = 1..NIndexed
  BY <1>0, IndexedTerms, OrderIs
<1>2. /\ stage = "docids" /\ stage' = "freqs" /\ at \notin 1..NIndexed /\ at' = 1
      /\ UNCHANGED inputVars /\ UNCHANGED inverted_index /\ UNCHANGED document_index
      /\ UNCHANGED lexicon_vector /\ UNCHANGED docid_teletype
      /\ UNCHANGED freq_teletype /\ UNCHANGED document_teletype /\ UNCHANGED lexicon
      /\ UNCHANGED index
  BY <1>1 DEF DocidsWritten, StartLoop, builderVars
<1>3. Input' /\ chunk' = chunk /\ NIndexed' = NIndexed
  BY <1>0, <1>2, SameInput, SameOrder
<1>4. at = NIndexed + 1
  BY <1>0, <1>1, <1>2 DEF Control
<1>5. /\ Added' = Added /\ Gathered' = Gathered /\ Recoded' = 0
      /\ InLexicon = 0 /\ InLexicon' = 0
  BY <1>1, <1>2, <1>3, <1>4 DEF Added, Gathered, Recoded, InLexicon
<1>6. Control'
  BY <1>1, <1>2, <1>3 DEF Control
<1>7. Posts' /\ IndexedDocuments'
  BY <1>0, <1>2, <1>5, PostsKept, DocumentsKept
<1>8. Vector' /\ DocidFile' /\ FreqFile'
  BY <1>0, <1>2, <1>5, VectorKept, DocidFileKept, NoFreqs
<1>9. LexiconFile'
  BY <1>0, <1>2, <1>5, NoLexicon
<1>10. DocumentFile' /\ Mapped'
  BY <1>2 DEF DocumentFile, Mapped
<1> QED
  BY <1>3, <1>6, <1>7, <1>8, <1>9, <1>10 DEF LocalInv

\* The bytes of a list, and where its bits are.
LEMMA ListBits ==
    ASSUME NEW values \in Seq(Nat \ {0}),
           NEW w, w = FileOf(values, <<>>)
    PROVE  /\ BytesOf(values) \in Nat /\ w \in Seq({0, 1})
           /\ Len(w) = ByteBits * BytesOf(values)
           /\ \A b \in Nat : b < ByteBits * BytesOf(values) => w[b + 1] = BitAt(values, b)
<1> DEFINE m == ByteBits * BytesOf(values)
           bits == [b \in 1..m |-> BitAt(values, b - 1)]
<1>1. ByteBits \in Nat /\ ByteBits > 0
  BY ByteAssumption
<1>2. BytesOf(values) \in Nat
  <2>1. CASE values = <<>>
    BY <2>1 DEF BytesOf
  <2>2. CASE values # <<>>
    <3>1. Len(values) \in 1..(Len(values) + 1)
      BY <2>2
    <3>2. StartOf(values, Len(values)) \in Nat
      BY <3>1, Starts
    <3>3. Byte(StartOf(values, Len(values))) \in Nat
      BY <1>1, <3>2, Division DEF Byte
    <3> QED
      BY <2>2, <3>3 DEF BytesOf
  <2> QED
    BY <2>1, <2>2
<1>3. m \in Nat
  BY <1>1, <1>2, Products
<1>4. \A b : BitAt(values, b) \in {0, 1}
  BY DEF BitAt
<1>5. w = bits \o <<>>
  BY DEF FileOf
<1> HIDE DEF m
<1>6. bits \in Seq({0, 1}) /\ Len(bits) = m /\ \A b \in 1..m : bits[b] = BitAt(values, b - 1)
  BY <1>3, <1>4
<1> HIDE DEF bits
<1>7. bits \o <<>> = bits
  BY <1>6
<1>8. \A b \in Nat : b < m => w[b + 1] = BitAt(values, b)
  <2> SUFFICES ASSUME NEW b \in Nat, b < m PROVE w[b + 1] = BitAt(values, b)
    OBVIOUS
  <2>1. b + 1 \in 1..m /\ (b + 1) - 1 = b
    BY <1>3
  <2> QED
    BY <1>5, <1>6, <1>7, <2>1
<1> QED
  BY <1>2, <1>5, <1>6, <1>7, <1>8 DEF m

\* The stream's position after a whole number of bytes.
LEMMA WholeBytes ==
    ASSUME NEW m \in Nat, NEW bits, Len(bits) = ByteBits * m
    PROVE  Tellp(bits) = m
<1>1. ByteBits \in Nat /\ ByteBits > 0
  BY ByteAssumption
<1>2. (ByteBits * m + 0) \div ByteBits = m
  BY <1>1, Quotient
<1>3. ByteBits * m \in Nat
  BY <1>1, Products
<1> QED
  BY <1>2, <1>3 DEF Tellp

\* Bits after other bits.
LEMMA JoinedStreams ==
    \A u, w \in Seq({0, 1}) :
       /\ u \o w \in Seq({0, 1}) /\ Len(u \o w) = Len(u) + Len(w)
       /\ Len(u) \in Nat /\ Len(w) \in Nat
       /\ \A i \in 1..Len(u) : (u \o w)[i] = u[i]
       /\ \A j \in 1..Len(w) : (u \o w)[Len(u) + j] = w[j]
OBVIOUS

\* A vector with other offsets in one value.
WithOffsets(vs, i, m, n) == [vs EXCEPT ![i].start_pos_freq = m, ![i].end_pos_freq = n]

\* What a vector is when the offsets in one value change.
LEMMA ChangedValue ==
    ASSUME NEW vs \in Seq(Values), NEW i \in 1..Len(vs), NEW m \in Nat, NEW n \in Nat,
           NEW new, new = WithOffsets(vs, i, m, n)
    PROVE  /\ new \in Seq(Values) /\ Len(new) = Len(vs)
           /\ new[i].start_pos_freq = m /\ new[i].end_pos_freq = n
           /\ new[i].start_pos_docid = vs[i].start_pos_docid
           /\ new[i].end_pos_docid = vs[i].end_pos_docid
           /\ new[i].n_docs = vs[i].n_docs
           /\ \A j \in 1..Len(vs) : j # i => new[j] = vs[j]
<1>1. Len(vs) \in Nat /\ DOMAIN vs = 1..Len(vs) /\ \A j \in 1..Len(vs) : vs[j] \in Values
  OBVIOUS
<1> DEFINE v == vs[i]
           w == [[v EXCEPT !.start_pos_freq = m] EXCEPT !.end_pos_freq = n]
<1>2. new = [j \in 1..Len(vs) |-> IF j = i THEN w ELSE vs[j]]
  BY <1>1 DEF WithOffsets
<1>3. v \in Values
  BY <1>1
<1> HIDE DEF v
<1>4. /\ w \in Values /\ w.start_pos_freq = m /\ w.end_pos_freq = n
      /\ w.start_pos_docid = v.start_pos_docid /\ w.end_pos_docid = v.end_pos_docid
      /\ w.n_docs = v.n_docs
  BY <1>3 DEF Values
<1> HIDE DEF w
<1>5. new \in Seq(Values) /\ Len(new) = Len(vs)
  <2>1. \A j \in 1..Len(vs) : new[j] \in Values
    BY <1>1, <1>2, <1>4
  <2>2. new = [j \in 1..Len(vs) |-> new[j]]
    BY <1>2
  <2> QED
    BY ONLY <1>1, <2>1, <2>2
<1>6. new[i] = w /\ \A j \in 1..Len(vs) : j # i => new[j] = vs[j]
  BY <1>2
<1> QED
  BY <1>4, <1>5, <1>6 DEF v

LEMMA WriteFreqsKeepsLocalInv == LocalInv /\ WriteFreqs => LocalInv'
<1> SUFFICES ASSUME LocalInv, WriteFreqs PROVE LocalInv'
  OBVIOUS
<1>0. /\ Input /\ Control /\ Posts /\ IndexedDocuments /\ Vector /\ DocidFile /\ FreqFile
      /\ DocumentFile /\ LexiconFile /\ Mapped
  BY DEF LocalInv
<1> DEFINE t == InOrder[at]
           list == inverted_index[t]
           old == freq_teletype
           values == Decoded(list.freqs, 0, Len(list.freqs))
           bits == FileOf(values, <<>>)
           new == old \o bits
           D == Len(chunk)
           fs == FreqsOf(t, D)
           m == Tellp(old)
           n == BytesOf(fs)
<1>1. /\ DOMAIN inverted_index \in SUBSET Terms /\ NIndexed \in Nat
      /\ DOMAIN InOrder = 1..NIndexed
      /\ \A j \in 1..NIndexed : InOrder[j] \in DOMAIN inverted_index
  BY <1>0, IndexedTerms, OrderIs
<1>2. /\ stage = "freqs" /\ stage' = "freqs" /\ at \in 1..NIndexed /\ at' = at + 1
      /\ UNCHANGED inputVars /\ UNCHANGED inverted_index /\ UNCHANGED document_index
      /\ UNCHANGED docid_teletype /\ UNCHANGED document_teletype /\ UNCHANGED lexicon
      /\ UNCHANGED index
      /\ freq_teletype' = new
      /\ lexicon_vector' = [lexicon_vector EXCEPT ![at].start_pos_freq = m,
                                                  ![at].end_pos_freq = Tellp(new)]
  BY <1>1 DEF WriteFreqs, builderVars, LexiconEntry
<1>3. /\ Input' /\ chunk' = chunk /\ NIndexed' = NIndexed /\ InOrder' = InOrder
      /\ \A u, k : DocidsOf(u, k)' = DocidsOf(u, k) /\ Hold(u, k)' = Hold(u, k)
      /\ \A u, k : FreqsOf(u, k)' = FreqsOf(u, k)
  BY <1>0, <1>2, SameInput, SameOrder
<1>4. /\ Added = D /\ Added' = D /\ Gathered = NIndexed /\ Gathered' = NIndexed
      /\ Recoded = at - 1 /\ Recoded' = at /\ InLexicon = 0 /\ InLexicon' = 0
  BY <1>1, <1>2, <1>3 DEF Added, Gathered, Recoded, InLexicon
<1>5. Control'
  BY <1>1, <1>2, <1>3 DEF Control
<1>6. Posts' /\ IndexedDocuments'
  BY <1>0, <1>2, <1>4, PostsKept, DocumentsKept
<1>7. t \in DOMAIN inverted_index /\ AsPosts(list, t, D)
  BY <1>0, <1>1, <1>2, <1>4 DEF Posts
<1>8. \A u : FreqsOf(u, D) \in Seq(Nat \ {0}) /\ FreqsOf(u, D) \in Seq(Nat)
  <2>1. D \in Nat /\ D \in 0..D
    BY <1>0, ChunkIs
  <2> QED
    BY <1>0, <2>1, ListsAre
<1>9. values = fs
  <2>1. list.freqs \in Seq(Nat) /\ IsCode(list.freqs, 0, Len(list.freqs), fs)
    BY <1>7 DEF AsPosts
  <2>2. fs \in Seq(Nat)
    BY <1>8
  <2> HIDE DEF fs, list
  <2> QED
    BY <2>1, <2>2, DecodedIs
<1>10. /\ old \in Seq({0, 1}) /\ Len(old) = ByteBits * m /\ m \in Nat
       /\ \A j \in 1..(at - 1) : HasFreqs(lexicon_vector[j], FreqsOf(InOrder[j], D))
  <2>1. old \in Seq({0, 1}) /\ Len(old) = ByteBits * m
    BY <1>0 DEF FreqFile
  <2>2. m \in Nat
    <3>1. Len(old) \in Nat /\ ByteBits \in Nat /\ ByteBits > 0
      BY <2>1, ByteAssumption
    <3> QED
      BY <3>1, Division DEF Tellp
  <2> QED
    BY <1>0, <1>4, <2>1, <2>2 DEF FreqFile
<1>11. /\ n \in Nat /\ bits \in Seq({0, 1}) /\ Len(bits) = ByteBits * n
       /\ \A b \in Nat : b < ByteBits * n => bits[b + 1] = BitAt(fs, b)
  <2>1. bits = FileOf(fs, <<>>) /\ fs \in Seq(Nat \ {0})
    BY <1>8, <1>9
  <2> HIDE DEF bits, fs
  <2> QED
    BY <2>1, ListBits
<1> HIDE DEF list, values, bits, n, m
<1>12. /\ new \in Seq({0, 1}) /\ Len(new) = Len(old) + Len(bits)
       /\ Len(old) \in Nat /\ Len(bits) \in Nat
       /\ \A i \in 1..Len(old) : new[i] = old[i]
       /\ \A i \in 1..Len(bits) : new[Len(old) + i] = bits[i]
  BY <1>10, <1>11, JoinedStreams
<1> HIDE DEF new, old, D, t, fs
<1>13. /\ Len(new) = ByteBits * (m + n) /\ Tellp(new) = m + n
       /\ ByteBits * m \in Nat /\ ByteBits * n \in Nat
       /\ ByteBits * (m + n) = ByteBits * m + ByteBits * n
  <2>1. ByteBits \in Nat /\ ByteBits > 0
    BY ByteAssumption
  <2>2. ByteBits * (m + n) = ByteBits * m + ByteBits * n
    BY <1>10, <1>11, <2>1
  <2>3. ByteBits * m \in Nat /\ ByteBits * n \in Nat
    BY <1>10, <1>11, <1>12
  <2>4. Len(new) = ByteBits * (m + n)
    BY <1>10, <1>11, <1>12, <2>2
  <2>5. m + n \in Nat
    BY <1>10, <1>11
  <2> QED
    BY <2>2, <2>3, <2>4, <2>5, WholeBytes
<1>14. /\ lexicon_vector' \in Seq(Values) /\ Len(lexicon_vector') = NIndexed
       /\ lexicon_vector'[at].start_pos_freq = m /\ lexicon_vector'[at].end_pos_freq = m + n
       /\ \A j \in 1..NIndexed :
             /\ lexicon_vector'[j].start_pos_docid = lexicon_vector[j].start_pos_docid
             /\ lexicon_vector'[j].end_pos_docid = lexicon_vector[j].end_pos_docid
             /\ lexicon_vector'[j].n_docs = lexicon_vector[j].n_docs
       /\ \A j \in 1..NIndexed : j # at => lexicon_vector'[j] = lexicon_vector[j]
  <2>1. lexicon_vector \in Seq(Values) /\ Len(lexicon_vector) = NIndexed
    BY <1>0, <1>4 DEF Vector
  <2>2. m + n \in Nat /\ at \in 1..Len(lexicon_vector)
        /\ lexicon_vector' = [lexicon_vector EXCEPT ![at].start_pos_freq = m,
                                                    ![at].end_pos_freq = m + n]
    BY <1>2, <1>10, <1>11, <1>13, <2>1
  <2>3. /\ lexicon_vector' \in Seq(Values) /\ Len(lexicon_vector') = Len(lexicon_vector)
        /\ lexicon_vector'[at].start_pos_freq = m /\ lexicon_vector'[at].end_pos_freq = m + n
        /\ lexicon_vector'[at].start_pos_docid = lexicon_vector[at].start_pos_docid
        /\ lexicon_vector'[at].end_pos_docid = lexicon_vector[at].end_pos_docid
        /\ lexicon_vector'[at].n_docs = lexicon_vector[at].n_docs
        /\ \A j \in 1..Len(lexicon_vector) : j # at => lexicon_vector'[j] = lexicon_vector[j]
    <3> DEFINE e == m + n
               nv == lexicon_vector'
    <3>1. /\ e \in Nat /\ m \in Nat
          /\ nv = WithOffsets(lexicon_vector, at, m, e)
      BY <1>10, <2>2 DEF WithOffsets
    <3> HIDE DEF e, nv
    <3>2. /\ nv \in Seq(Values) /\ Len(nv) = Len(lexicon_vector)
          /\ nv[at].start_pos_freq = m /\ nv[at].end_pos_freq = e
          /\ nv[at].start_pos_docid = lexicon_vector[at].start_pos_docid
          /\ nv[at].end_pos_docid = lexicon_vector[at].end_pos_docid
          /\ nv[at].n_docs = lexicon_vector[at].n_docs
          /\ \A j \in 1..Len(lexicon_vector) : j # at => nv[j] = lexicon_vector[j]
      <4> DEFINE vs == lexicon_vector
                 i == at
      <4>1. /\ vs \in Seq(Values) /\ i \in 1..Len(vs) /\ m \in Nat /\ e \in Nat
            /\ nv = WithOffsets(vs, i, m, e)
        BY <2>1, <2>2, <3>1
      <4> HIDE DEF vs, i
      <4>2. /\ nv \in Seq(Values) /\ Len(nv) = Len(vs)
            /\ nv[i].start_pos_freq = m /\ nv[i].end_pos_freq = e
            /\ nv[i].start_pos_docid = vs[i].start_pos_docid
            /\ nv[i].end_pos_docid = vs[i].end_pos_docid
            /\ nv[i].n_docs = vs[i].n_docs
            /\ \A j \in 1..Len(vs) : j # i => nv[j] = vs[j]
        BY ONLY <4>1, ChangedValue
      <4> QED
        BY <4>2 DEF vs, i
    <3> QED
      BY <3>2 DEF e, nv
  <2> QED
    BY ONLY <2>1, <2>3
<1>15. Vector'
  BY <1>4, <1>14 DEF Vector
<1>16. DocidFile'
  <2>1. /\ docid_teletype \in Seq(Nat)
        /\ \A j \in 1..NIndexed : HasDocids(lexicon_vector[j], InOrder[j])
    BY <1>0, <1>4 DEF DocidFile
  <2>2. ASSUME NEW j \in 1..NIndexed
        PROVE  /\ IsCode(docid_teletype', lexicon_vector'[j].start_pos_docid,
                         lexicon_vector'[j].end_pos_docid, DocidsOf(InOrder[j], Len(chunk)))
               /\ lexicon_vector'[j].n_docs = Len(Hold(InOrder[j], Len(chunk)))
    <3>1. /\ lexicon_vector'[j].start_pos_docid = lexicon_vector[j].start_pos_docid
          /\ lexicon_vector'[j].end_pos_docid = lexicon_vector[j].end_pos_docid
          /\ lexicon_vector'[j].n_docs = lexicon_vector[j].n_docs
      BY <1>14
    <3>2. HasDocids(lexicon_vector[j], InOrder[j]) /\ docid_teletype' = docid_teletype
      BY <1>2, <2>1
    <3> QED
      BY ONLY <3>1, <3>2 DEF HasDocids
  <2>3. \A j \in 1..NIndexed : HasDocids(lexicon_vector[j], InOrder[j])'
    BY <1>3, <2>2 DEF HasDocids
  <2> QED
    BY <1>2, <1>4, <2>1, <2>3 DEF DocidFile
<1>17. FreqFile'
  <2>1. ASSUME NEW j \in 1..(at - 1) PROVE HasFreqs(lexicon_vector[j], FreqsOf(InOrder[j], D))'
    <3> DEFINE v == lexicon_vector[j]
               gs == FreqsOf(InOrder[j], D)
               s == v.start_pos_freq
               e == v.end_pos_freq
               k == BytesOf(gs)
    <3>1. j \in 1..NIndexed /\ j # at
      BY <1>1, <1>2
    <3>2. lexicon_vector'[j] = v
      BY <1>14, <3>1
    <3>3. gs' = gs
      BY <1>3 DEF D
    <3>4. /\ e = s + k /\ ByteBits * e <= Len(old)
          /\ \A b \in Nat : b < ByteBits * k => old[ByteBits * s + b + 1] = BitAt(gs, b)
      BY <1>10 DEF HasFreqs, old
    <3>5. s \in Nat /\ k \in Nat
      <4>1. v \in Values
        <5>1. lexicon_vector \in Seq(Values) /\ Len(lexicon_vector) = NIndexed
          BY <1>0, <1>4 DEF Vector
        <5> HIDE DEF Values
        <5> QED
          BY <3>1, <5>1
      <4>2. gs \in Seq(Nat \ {0})
        BY <1>8
      <4> HIDE DEF v, gs
      <4>3. k \in Nat
        BY <4>2, ListBits
      <4> QED
        BY <4>1, <4>3 DEF Values
    <3> HIDE DEF v, gs, s, e, k
    <3>6. ByteBits * s \in Nat /\ ByteBits * e = ByteBits * s + ByteBits * k
      <4>1. ByteBits \in Nat /\ ByteBits > 0
        BY ByteAssumption
      <4> QED
        BY <3>4, <3>5, <4>1
    <3>7. \A b \in Nat : b < ByteBits * k => new[ByteBits * s + b + 1] = BitAt(gs, b)
      <4> SUFFICES ASSUME NEW b \in Nat, b < ByteBits * k
                   PROVE  new[ByteBits * s + b + 1] = BitAt(gs, b)
        OBVIOUS
      <4>0. ByteBits * k \in Nat
        <5>1. ByteBits \in Nat /\ ByteBits > 0
          BY ByteAssumption
        <5> QED
          BY <3>5, <5>1, Products
      <4> DEFINE x == ByteBits * s
                 y == ByteBits * k
      <4>1. x + b + 1 \in 1..Len(old)
        <5>1. x \in Nat /\ y \in Nat /\ x + y <= Len(old) /\ b < y
          BY <3>4, <3>6, <4>0
        <5> HIDE DEF x, y
        <5> QED
          BY <1>12, <5>1
      <4> QED
        BY <1>12, <3>4, <4>1
    <3>8. ByteBits * e <= Len(new)
      <4> DEFINE x == ByteBits * e
      <4>1. x <= Len(old) /\ x \in Int
        <5>1. x \in Nat
          <6>1. ByteBits \in Nat /\ ByteBits > 0 /\ e \in Nat
            BY <3>4, <3>5, ByteAssumption
          <6> QED
            BY <6>1, Products
        <5> QED
          BY <3>4, <5>1
      <4> HIDE DEF x
      <4>2. x <= Len(new)
        BY <1>12, <4>1
      <4> QED
        BY <4>2 DEF x
    <3>9. /\ e = s + k /\ ByteBits * e <= Len(freq_teletype')
          /\ \A b \in Nat : b < ByteBits * k =>
                freq_teletype'[ByteBits * s + b + 1] = BitAt(gs, b)
      BY <1>2, <3>4, <3>7, <3>8
    <3> QED
      BY <3>2, <3>3, <3>9 DEF HasFreqs, v, gs, s, e, k
  <2>2. ASSUME NEW j, j = at PROVE HasFreqs(lexicon_vector[j], FreqsOf(InOrder[j], D))'
    <3> DEFINE gs == FreqsOf(InOrder[j], D)
    <3>1. gs = fs /\ gs' = gs
      BY <1>3, <2>2 DEF D, fs, t
    <3>2. lexicon_vector'[j].start_pos_freq = m /\ lexicon_vector'[j].end_pos_freq = m + n
      BY <1>14, <2>2
    <3>3. \A b \in Nat : b < ByteBits * n => new[ByteBits * m + b + 1] = BitAt(fs, b)
      <4> SUFFICES ASSUME NEW b \in Nat, b < ByteBits * n
                   PROVE  new[ByteBits * m + b + 1] = BitAt(fs, b)
        OBVIOUS
      <4> DEFINE x == ByteBits * m
                 y == ByteBits * n
      <4>1. x \in Nat /\ y \in Nat /\ Len(old) = x /\ Len(bits) = y /\ b < y
        BY <1>10, <1>11, <1>13
      <4> HIDE DEF x, y
      <4>2. b + 1 \in 1..Len(bits) /\ x + b + 1 = Len(old) + (b + 1)
        BY ONLY <4>1, b \in Nat
      <4>3. new[x + b + 1] = bits[b + 1]
        BY <1>12, <4>2
      <4>4. bits[b + 1] = BitAt(fs, b)
        BY <1>11
      <4> QED
        BY <4>3, <4>4 DEF x
    <3>4. ByteBits * (m + n) <= Len(new)
      BY <1>12, <1>13
    <3>5. n = BytesOf(fs)
      BY DEF n
    <3> HIDE DEF gs
    <3>6. /\ lexicon_vector'[j].end_pos_freq = lexicon_vector'[j].start_pos_freq + BytesOf(gs)
          /\ ByteBits * lexicon_vector'[j].end_pos_freq <= Len(freq_teletype')
          /\ \A b \in Nat : b < ByteBits * BytesOf(gs) =>
                freq_teletype'[ByteBits * lexicon_vector'[j].start_pos_freq + b + 1] = BitAt(gs, b)
      BY ONLY <1>2, <3>1, <3>2, <3>3, <3>4, <3>5
    <3> QED
      BY <3>1, <3>6 DEF HasFreqs, gs
  <2>3. \A j \in 1..at : j \in 1..(at - 1) \/ j = at
    BY <1>1, <1>2
  <2>4. \A j \in 1..at : HasFreqs(lexicon_vector[j], FreqsOf(InOrder[j], Len(chunk)))'
    BY <2>1, <2>2, <2>3 DEF D
  <2>5. freq_teletype' \in Seq({0, 1}) /\ Len(freq_teletype') = ByteBits * Tellp(freq_teletype')
    BY <1>2, <1>12, <1>13
  <2>6. Tellp(freq_teletype') = Tellp(freq_teletype)'
    BY DEF Tellp
  <2> QED
    BY <1>4, <2>4, <2>5, <2>6 DEF FreqFile
<1>18. LexiconFile'
  BY <1>0, <1>2, <1>4, NoLexicon
<1>19. DocumentFile' /\ Mapped'
  BY <1>2 DEF DocumentFile, Mapped
<1> QED
  BY <1>3, <1>5, <1>6, <1>15, <1>16, <1>17, <1>18, <1>19 DEF LocalInv

\* The documents' names and lengths are all known when the files are written.
LEMMA DocumentsAre ==
    ASSUME Input, IndexedDocuments, Added = Len(chunk)
    PROVE  /\ Len(document_index) = Len(chunk) /\ DOMAIN document_index = 1..Len(chunk)
           /\ \A i \in 1..Len(chunk) :
                 /\ document_index[i].docno = Docno(i)
                 /\ document_index[i].lenght = Lenght(chunk[i])
           /\ \A i \in 1..Len(chunk) :
                 /\ Docno(i) \in Seq(Nat) /\ Len(Docno(i)) = chunk[i].docno
                 /\ chunk[i].docno \in Nat /\ i \in Nat
                 /\ \A k \in 1..chunk[i].docno : Docno(i)[k] = i
<1> DEFINE D == Len(chunk)
           Info(i) == [docno |-> Docno(i), lenght |-> Lenght(chunk[i])]
<1>1. D \in Nat /\ \A i \in 1..D : chunk[i].docno \in Nat
  BY ChunkIs
<1>2. document_index = [i \in 1..D |-> IF i <= D THEN Info(i) ELSE NoDoc]
  BY DEF IndexedDocuments
<1>3. \A i : Info(i).docno = Docno(i) /\ Info(i).lenght = Lenght(chunk[i])
  OBVIOUS
<1> HIDE DEF D, Info
<1>4. \A i \in 1..D : i <= D /\ i \in Nat
  BY <1>1
<1>5. document_index = [i \in 1..D |-> Info(i)]
  BY <1>2, <1>4
<1>6. Len(document_index) = D /\ DOMAIN document_index = 1..D
  BY <1>1, <1>5
<1>7. \A i \in 1..D : document_index[i] = Info(i)
  BY <1>5
<1>8. ASSUME NEW i \in 1..D
      PROVE  /\ Docno(i) \in Seq(Nat) /\ Len(Docno(i)) = chunk[i].docno
             /\ \A k \in 1..chunk[i].docno : Docno(i)[k] = i
  <2> DEFINE c == chunk[i].docno
  <2>1. c \in Nat /\ i \in Nat
    BY <1>1, <1>4
  <2>2. Docno(i) = [k \in 1..c |-> i]
    BY DEF Docno
  <2> HIDE DEF c
  <2>3. Docno(i) \in Seq(Nat) /\ Len(Docno(i)) = c /\ \A k \in 1..c : Docno(i)[k] = i
    BY <2>1, <2>2
  <2> QED
    BY <2>3 DEF c
<1> QED
  BY <1>1, <1>3, <1>4, <1>6, <1>7, <1>8 DEF D

\* The strings' section up to a document.
LEMMA StringsAre ==
    ASSUME Input, IndexedDocuments, Added = Len(chunk)
    PROVE  /\ Strings[0] = <<>>
           /\ \A i \in 1..Len(chunk) : Strings[i] = Strings[i - 1] \o Append(Docno(i), 0)
           /\ \A i \in 0..Len(chunk) : Strings[i] \in Seq(Nat)
<1> DEFINE D == Len(chunk)
           w(i) == Append(document_index[i].docno, 0)
           To(f) == f = [i \in 0..Len(document_index) |-> IF i = 0 THEN <<>> ELSE f[i - 1] \o w(i)]
           round == [i \in 1..D |-> [v \in Seq(Nat) |-> v \o w(i)]]
<1>1. Strings = CHOOSE f : To(f)
  BY DEF Strings
<1>2. /\ D \in Nat /\ Len(document_index) = D
      /\ \A i \in 1..D : w(i) = Append(Docno(i), 0) /\ w(i) \in Seq(Nat)
  <2>1. /\ D \in Nat /\ Len(document_index) = D
        /\ \A i \in 1..D : document_index[i].docno = Docno(i) /\ Docno(i) \in Seq(Nat)
    BY ChunkIs, DocumentsAre
  <2>2. \A u \in Seq(Nat) : Append(u, 0) \in Seq(Nat)
    OBVIOUS
  <2> QED
    BY <2>1, <2>2
<1> HIDE DEF D, w
<1>3. \E f : To(f)
  <2>1. \A i \in 1..D : \A v \in Seq(Nat) : round[i][v] = v \o w(i)
    OBVIOUS
  <2>2. \A i \in 1..D : \A v \in Seq(Nat) : v \o w(i) \in Seq(Nat)
    BY <1>2, Joined
  <2> HIDE DEF round
  <2>3. StaysIn(D, Seq(Nat), round)
    BY <2>1, <2>2 DEF StaysIn
  <2>4. <<>> \in Seq(Nat)
    OBVIOUS
  <2>5. \E f : IsLoop(f, D, Seq(Nat), <<>>, round)
    BY <1>2, <2>3, <2>4, LoopEnds
  <2>6. PICK f \in [0..D -> Seq(Nat)] : f[0] = <<>> /\ \A i \in 1..D : f[i] = round[i][f[i - 1]]
    BY <2>5 DEF IsLoop
  <2>7. \A i \in 0..D : (i = 0 \/ i \in 1..D) /\ (i \in 1..D => i - 1 \in 0..D)
    BY <1>2
  <2>8. \A i \in 0..D : f[i] = IF i = 0 THEN <<>> ELSE f[i - 1] \o w(i)
    BY <2>1, <2>6, <2>7
  <2>9. To(f)
    BY <1>2, <2>6, <2>8
  <2> QED
    BY <2>9
<1>4. To(Strings)
  <2> HIDE DEF To
  <2> QED
    BY <1>1, <1>3
<1>5. Strings[0] = <<>> /\ \A i \in 1..D : Strings[i] = Strings[i - 1] \o w(i)
  <2>1. 0 \in 0..D /\ \A i \in 1..D : i \in 0..D /\ i # 0
    BY <1>2
  <2> QED
    BY <1>2, <1>4, <2>1
<1>6. \A i \in 0..D : Strings[i] \in Seq(Nat)
  <2> DEFINE G == {i \in 0..D : Strings[i] \in Seq(Nat)}
  <2>1. 0 \in G
    <3>1. 0 \in 0..D /\ <<>> \in Seq(Nat)
      BY <1>2
    <3> QED
      BY <1>5, <3>1
  <2>2. ASSUME NEW i \in 0..(D - 1), i \in G PROVE i + 1 \in G
    <3>1. i + 1 \in 1..D /\ i + 1 \in 0..D /\ (i + 1) - 1 = i
      BY <1>2
    <3>2. Strings[i + 1] = Strings[(i + 1) - 1] \o w(i + 1)
      BY <1>5, <3>1
    <3>3. Strings[i + 1] = Strings[i] \o w(i + 1)
      BY <3>1, <3>2
    <3>4. Strings[i] \in Seq(Nat) /\ w(i + 1) \in Seq(Nat)
      BY <1>2, <2>2, <3>1
    <3>5. Strings[i] \o w(i + 1) \in Seq(Nat)
      <4> HIDE DEF w
      <4> QED
        BY ONLY <3>4, Joined
    <3>6. Strings[i + 1] \in Seq(Nat)
      BY ONLY <3>3, <3>5
    <3> QED
      BY ONLY <3>1, <3>6
  <2>3. \A i \in 0..D : i \in G
    <3> HIDE DEF G
    <3> QED
      BY <1>2, <2>1, <2>2, NumbersUpTo
  <2> QED
    BY <2>3
<1>7. \A i \in 1..D : Strings[i] = Strings[i - 1] \o Append(Docno(i), 0)
  BY <1>2, <1>5
<1> QED
  BY <1>5, <1>6, <1>7 DEF D

\* The offset of a document's string is how long the strings before it are.
LEMMA OffsetsAre ==
    ASSUME Input, IndexedDocuments, Added = Len(chunk)
    PROVE  \A i \in 1..Len(chunk) : DocnoOffsets[i] = Len(Strings[i - 1])
<1> DEFINE D == Len(chunk)
           c(i) == StringSize(document_index[i].docno)
           To(f) == f = [i \in 0..Len(document_index) |-> IF i = 0 THEN 0 ELSE f[i - 1] + c(i)]
           offset == CHOOSE f : To(f)
           g == [i \in 0..D |-> Len(Strings[i])]
<1>1. DocnoOffsets = [i \in DOMAIN document_index |-> offset[i - 1]]
  BY DEF DocnoOffsets
<1>2. /\ D \in Nat /\ Len(document_index) = D /\ DOMAIN document_index = 1..D
      /\ \A i \in 1..D : /\ Docno(i) \in Seq(Nat) /\ c(i) = Len(Docno(i)) + 1
                         /\ Len(Append(Docno(i), 0)) = c(i) /\ Append(Docno(i), 0) \in Seq(Nat)
  <2>1. /\ D \in Nat /\ Len(document_index) = D /\ DOMAIN document_index = 1..D
        /\ \A i \in 1..D : document_index[i].docno = Docno(i) /\ Docno(i) \in Seq(Nat)
    BY ChunkIs, DocumentsAre
  <2>2. \A u \in Seq(Nat) : Len(Append(u, 0)) = Len(u) + 1 /\ Append(u, 0) \in Seq(Nat)
    OBVIOUS
  <2> QED
    BY <2>1, <2>2 DEF StringSize
<1> HIDE DEF D, c
<1>3. /\ Strings[0] = <<>>
      /\ \A i \in 1..D : Strings[i] = Strings[i - 1] \o Append(Docno(i), 0)
      /\ \A i \in 0..D : Strings[i] \in Seq(Nat)
  BY StringsAre DEF D
<1>4. g[0] = 0 /\ \A i \in 1..D : g[i] = g[i - 1] + c(i)
  <2>1. 0 \in 0..D /\ Len(<<>>) = 0
    BY <1>2
  <2>2. ASSUME NEW i \in 1..D PROVE g[i] = g[i - 1] + c(i)
    <3>1. i \in 0..D /\ i - 1 \in 0..D
      BY <1>2
    <3>2. Strings[i - 1] \in Seq(Nat) /\ Append(Docno(i), 0) \in Seq(Nat)
      BY <1>2, <1>3, <3>1
    <3>3. Len(Strings[i]) = Len(Strings[i - 1]) + c(i)
      <4>1. Len(Strings[i - 1] \o Append(Docno(i), 0)) = Len(Strings[i - 1]) + Len(Append(Docno(i), 0))
        BY <3>2, Joined
      <4>2. Len(Append(Docno(i), 0)) = c(i) /\ Strings[i] = Strings[i - 1] \o Append(Docno(i), 0)
        BY <1>2, <1>3
      <4> QED
        BY ONLY <4>1, <4>2
    <3> QED
      BY <3>1, <3>3
  <2> QED
    BY <1>3, <2>1, <2>2
<1> HIDE DEF g
<1>5. To(g)
  <2>1. \A i \in 0..D : i = 0 \/ i \in 1..D
    BY <1>2
  <2>2. \A i \in 0..D : g[i] = IF i = 0 THEN 0 ELSE g[i - 1] + c(i)
    BY <1>4, <2>1
  <2>3. g = [i \in 0..D |-> g[i]]
    BY DEF g
  <2> QED
    BY <1>2, <2>2, <2>3
<1>6. To(offset)
  <2> HIDE DEF To
  <2> QED
    BY <1>5
<1> HIDE DEF offset
<1>7. offset[0] = 0 /\ \A i \in 1..D : offset[i] = offset[i - 1] + c(i)
  <2>1. 0 \in 0..D /\ \A i \in 1..D : i \in 0..D /\ i # 0
    BY <1>2
  <2> QED
    BY <1>2, <1>6, <2>1
<1>8. \A i \in 0..D : offset[i] = g[i]
  <2> DEFINE G == {i \in 0..D : offset[i] = g[i]}
  <2>1. 0 \in G
    BY <1>2, <1>4, <1>7
  <2>2. ASSUME NEW i \in 0..(D - 1), i \in G PROVE i + 1 \in G
    <3>1. i + 1 \in 1..D /\ i + 1 \in 0..D /\ (i + 1) - 1 = i
      BY <1>2
    <3>2. /\ offset[i + 1] = offset[(i + 1) - 1] + c(i + 1)
          /\ g[i + 1] = g[(i + 1) - 1] + c(i + 1)
      BY <1>4, <1>7, <3>1
    <3> QED
      BY <2>2, <3>1, <3>2
  <2>3. \A i \in 0..D : i \in G
    <3> HIDE DEF G
    <3> QED
      BY <1>2, <2>1, <2>2, NumbersUpTo
  <2> QED
    BY <2>3
<1>9. ASSUME NEW i \in 1..D PROVE DocnoOffsets[i] = Len(Strings[i - 1])
  <2>1. i - 1 \in 0..D
    BY <1>2
  <2> QED
    BY <1>1, <1>2, <1>8, <2>1 DEF g
<1> QED
  BY <1>9 DEF D

\* The string of a document, in a section.
InSection(section, i) ==
    LET o == Len(Strings[i - 1])
        c == chunk[i].docno
    IN  /\ o + c + 1 <= Len(section)
        /\ \A k \in 1..c : section[o + k] = i
        /\ section[o + c + 1] = 0

\* The section holds the string of each document from its offset.
LEMMA SectionIs ==
    ASSUME Input, IndexedDocuments, Added = Len(chunk)
    PROVE  \A i \in 1..Len(chunk) : InSection(Strings[Len(chunk)], i)
<1> DEFINE D == Len(chunk)
           a(i) == Append(Docno(i), 0)
           Good(n) == \A i \in 1..n : InSection(Strings[n], i)
           G == {n \in 0..D : Good(n)}
<1>1. /\ D \in Nat
      /\ \A i \in 1..D : /\ Docno(i) \in Seq(Nat) /\ Len(Docno(i)) = chunk[i].docno
                         /\ chunk[i].docno \in Nat
                         /\ \A k \in 1..chunk[i].docno : Docno(i)[k] = i
  BY ChunkIs, DocumentsAre
<1>2. /\ Strings[0] = <<>>
      /\ \A i \in 1..D : Strings[i] = Strings[i - 1] \o a(i)
      /\ \A i \in 0..D : Strings[i] \in Seq(Nat)
  BY StringsAre
<1>3. ASSUME NEW i \in 1..D
      PROVE  /\ a(i) \in Seq(Nat) /\ Len(a(i)) = chunk[i].docno + 1
             /\ \A k \in 1..chunk[i].docno : a(i)[k] = i
             /\ a(i)[chunk[i].docno + 1] = 0
  <2>1. \A u \in Seq(Nat) : /\ Append(u, 0) \in Seq(Nat) /\ Len(Append(u, 0)) = Len(u) + 1
                            /\ \A k \in 1..Len(u) : Append(u, 0)[k] = u[k]
                            /\ Append(u, 0)[Len(u) + 1] = 0
    OBVIOUS
  <2> QED
    BY <1>1, <2>1
<1> HIDE DEF D, a
<1>4. ASSUME NEW n \in 0..(D - 1), Good(n) PROVE Good(n + 1)
  <2> DEFINE s == Strings[n]
             u == a(n + 1)
             t == Strings[n + 1]
  <2>1. n + 1 \in 1..D /\ n \in 0..D /\ (n + 1) - 1 = n /\ n \in Nat
    BY <1>1
  <2>2. t = s \o u /\ s \in Seq(Nat) /\ u \in Seq(Nat)
    <3>1. Strings[n + 1] = Strings[(n + 1) - 1] \o a(n + 1)
      BY <1>2, <2>1
    <3> QED
      BY <1>2, <1>3, <2>1, <3>1
  <2>3. /\ Len(t) = Len(s) + Len(u) /\ Len(s) \in Nat /\ Len(u) \in Nat
        /\ \A k \in 1..Len(s) : t[k] = s[k]
        /\ \A k \in 1..Len(u) : t[Len(s) + k] = u[k]
    <3> HIDE DEF s, u, t
    <3> QED
      BY <2>2, Joined
  <2>4. ASSUME NEW i \in 1..n PROVE InSection(t, i)
    <3> DEFINE o == Len(Strings[i - 1])
               c == chunk[i].docno
    <3>1. /\ o + c + 1 <= Len(s) /\ \A k \in 1..c : s[o + k] = i
          /\ s[o + c + 1] = 0
      BY <1>4 DEF InSection
    <3>2. o \in Nat /\ c \in Nat
      <4>1. i - 1 \in 0..D /\ i \in 1..D
        BY <1>1, <2>1
      <4>2. Strings[i - 1] \in Seq(Nat)
        BY <1>2, <4>1
      <4> QED
        BY <1>1, <4>1, <4>2
    <3> HIDE DEF s, u, t, o, c
    <3>3. o + c + 1 \in 1..Len(s) /\ \A k \in 1..c : o + k \in 1..Len(s)
      BY <2>3, <3>1, <3>2
    <3>4. o + c + 1 <= Len(t)
      BY <2>3, <3>1, <3>2
    <3> QED
      BY <2>3, <3>1, <3>3, <3>4 DEF InSection, o, c
  <2>5. InSection(t, n + 1)
    <3> DEFINE c == chunk[n + 1].docno
    <3>1. /\ Len(u) = c + 1 /\ c \in Nat /\ \A k \in 1..c : u[k] = n + 1
          /\ u[c + 1] = 0
      BY <1>1, <1>3, <2>1
    <3>2. Strings[(n + 1) - 1] = s
      BY <2>1
    <3> HIDE DEF s, u, t, c
    <3>3. /\ Len(s) + c + 1 <= Len(t) /\ \A k \in 1..c : t[Len(s) + k] = n + 1
          /\ t[Len(s) + c + 1] = 0
      <4>1. Len(s) + c + 1 = Len(s) + (c + 1) /\ c + 1 \in 1..Len(u)
            /\ \A k \in 1..c : k \in 1..Len(u)
        BY <2>3, <3>1
      <4>2. t[Len(s) + (c + 1)] = u[c + 1] /\ \A k \in 1..c : t[Len(s) + k] = u[k]
        BY <2>3, <4>1
      <4>3. Len(s) + (c + 1) <= Len(t)
        BY <2>3, <3>1
      <4> QED
        BY ONLY <3>1, <4>1, <4>2, <4>3
    <3> QED
      BY <3>2, <3>3 DEF InSection, c
  <2>6. \A i \in 1..(n + 1) : i \in 1..n \/ i = n + 1
    BY <2>1
  <2> QED
    BY <2>4, <2>5, <2>6
<1>5. \A n \in 0..D : n \in G
  <2>1. 0 \in G /\ \A n \in 0..(D - 1) : n \in G => n + 1 \in G
    <3>1. 0 \in 0..D /\ \A n \in 0..(D - 1) : n + 1 \in 0..D
      BY <1>1
    <3>2. Good(0)
      OBVIOUS
    <3> HIDE DEF Good
    <3> QED
      BY <1>4, <3>1, <3>2
  <2> HIDE DEF G
  <2> QED
    BY <1>1, <2>1, NumbersUpTo
<1>6. Good(D)
  <2>1. D \in 0..D
    BY <1>1
  <2> QED
    BY <1>5, <2>1
<1> QED
  BY <1>6 DEF D

\* The file of the document index: two numbers, the entries, the strings.
LEMMA DocumentFileIs ==
    ASSUME Input, IndexedDocuments, Added = Len(chunk), DocumentFile,
           stage \in {"lexicon", "loaded"}
    PROVE  /\ document_teletype[1] = base_docid /\ document_teletype[2] = Len(chunk)
           /\ \A i \in 1..Len(chunk) :
                 document_teletype[2 + i] = [docno_offset |-> DocnoOffsets[i],
                                             lenght |-> Lenght(chunk[i])]
           /\ Len(document_teletype) = 2 + Len(chunk) + Len(Strings[Len(chunk)])
           /\ \A c \in 1..Len(Strings[Len(chunk)]) :
                 document_teletype[2 + Len(chunk) + c] = Strings[Len(chunk)][c]
           /\ \E T : document_teletype \in Seq(T)
<1> DEFINE D == Len(chunk)
           Info(i) == [docno_offset |-> DocnoOffsets[i], lenght |-> Lenght(chunk[i])]
           head == <<base_docid, D>>
           infos == [i \in 1..D |-> Info(i)]
           s == Strings[D]
           T == Nat \cup {Info(i) : i \in 1..D}
<1>1. /\ D \in Nat /\ base_docid \in Nat /\ Len(document_index) = D
      /\ DOMAIN document_index = 1..D
      /\ \A i \in 1..D : document_index[i].lenght = Lenght(chunk[i])
  BY ChunkIs, DocumentsAre
<1>2. document_teletype = head \o infos \o s
  <2>1. document_teletype =
           <<base_docid, D>>
           \o [i \in 1..D |-> [docno_offset |-> DocnoOffsets[i], lenght |-> document_index[i].lenght]]
           \o Strings[D]
    BY <1>1 DEF DocumentFile
  <2>2. [i \in 1..D |-> [docno_offset |-> DocnoOffsets[i], lenght |-> document_index[i].lenght]]
           = infos
    BY <1>1
  <2> QED
    BY <2>1, <2>2
<1>3. s \in Seq(Nat)
  <2>1. D \in 0..D
    BY <1>1
  <2> QED
    BY <2>1, StringsAre
<1> HIDE DEF D, Info, s
<1>4. s \in Seq(T)
  BY <1>3
<1>5. head \in Seq(T) /\ Len(head) = 2 /\ head[1] = base_docid /\ head[2] = D
  BY <1>1
<1>6. infos \in Seq(T) /\ Len(infos) = D /\ \A i \in 1..D : infos[i] = Info(i)
  BY <1>1
<1> HIDE DEF T, head, infos
<1>7. /\ head \o infos \in Seq(T) /\ Len(head \o infos) = 2 + D
      /\ \A i \in 1..2 : (head \o infos)[i] = head[i]
      /\ \A i \in 1..D : (head \o infos)[2 + i] = infos[i]
  <2>1. /\ head \o infos \in Seq(T) /\ Len(head \o infos) = Len(head) + Len(infos)
        /\ \A i \in 1..Len(head) : (head \o infos)[i] = head[i]
        /\ \A i \in 1..Len(infos) : (head \o infos)[Len(head) + i] = infos[i]
    <3>1. head \in Seq(T) /\ infos \in Seq(T)
      BY <1>5, <1>6
    <3> QED
      BY ONLY <3>1
  <2> DEFINE x == head \o infos
  <2> HIDE DEF x
  <2>2. /\ x \in Seq(T) /\ Len(x) = 2 + D /\ \A i \in 1..2 : x[i] = head[i]
        /\ \A i \in 1..D : x[2 + i] = infos[i]
    <3>1. Len(head) = 2 /\ Len(infos) = D
      BY <1>5, <1>6
    <3>2. /\ x \in Seq(T) /\ Len(x) = Len(head) + Len(infos)
          /\ \A i \in 1..Len(head) : x[i] = head[i]
          /\ \A i \in 1..Len(infos) : x[Len(head) + i] = infos[i]
      BY <2>1 DEF x
    <3> QED
      BY ONLY <3>1, <3>2, Zenon
  <2> QED
    BY <2>2 DEF x
<1> DEFINE h == head \o infos
<1>8. /\ h \in Seq(T) /\ Len(h) = 2 + D
      /\ h[1] = base_docid /\ h[2] = D /\ \A i \in 1..D : h[2 + i] = Info(i)
  BY <1>5, <1>6, <1>7
<1> HIDE DEF h
<1>9. /\ Len(h \o s) = 2 + D + Len(s)
      /\ \A i \in 1..(2 + D) : (h \o s)[i] = h[i]
      /\ \A c \in 1..Len(s) : (h \o s)[2 + D + c] = s[c]
  <2>1. /\ Len(h \o s) = Len(h) + Len(s)
        /\ \A i \in 1..Len(h) : (h \o s)[i] = h[i]
        /\ \A c \in 1..Len(s) : (h \o s)[Len(h) + c] = s[c]
    <3>1. h \in Seq(T) /\ s \in Seq(T)
      BY <1>4, <1>8
    <3> QED
      BY ONLY <3>1
  <2> DEFINE x == h \o s
  <2> HIDE DEF x
  <2>2. /\ Len(x) = 2 + D + Len(s) /\ \A i \in 1..(2 + D) : x[i] = h[i]
        /\ \A c \in 1..Len(s) : x[2 + D + c] = s[c]
    <3>1. Len(h) = 2 + D
      BY <1>8
    <3>2. /\ Len(x) = Len(h) + Len(s) /\ \A i \in 1..Len(h) : x[i] = h[i]
          /\ \A c \in 1..Len(s) : x[Len(h) + c] = s[c]
      BY <2>1 DEF x
    <3> QED
      BY ONLY <3>1, <3>2, Zenon
  <2> QED
    BY <2>2 DEF x
<1>10. document_teletype = h \o s
  BY <1>2 DEF h
<1>11. 1 \in 1..(2 + D) /\ 2 \in 1..(2 + D) /\ \A i \in 1..D : 2 + i \in 1..(2 + D)
  BY <1>1
<1>12. h \o s \in Seq(T)
  BY <1>4, <1>8
<1>13. \E U : document_teletype \in Seq(U)
  BY <1>10, <1>12
<1> QED
  BY <1>8, <1>9, <1>10, <1>11, <1>13 DEF D, Info, s

LEMMA WriteDocumentIndexKeepsLocalInv == LocalInv /\ WriteDocumentIndex => LocalInv'
<1> SUFFICES ASSUME LocalInv, WriteDocumentIndex PROVE LocalInv'
  OBVIOUS
<1>0. /\ Input /\ Control /\ Posts /\ IndexedDocuments /\ Vector /\ DocidFile /\ FreqFile
      /\ DocumentFile /\ LexiconFile /\ Mapped
  BY DEF LocalInv
<1>1. NIndexed \in Nat /\ DOMAIN InOrder = 1..NIndexed
  BY <1>0, IndexedTerms, OrderIs
<1>2. /\ stage = "freqs" /\ stage' = "lexicon" /\ at \notin 1..NIndexed /\ at' = 1
      /\ UNCHANGED inputVars /\ UNCHANGED inverted_index /\ UNCHANGED document_index
      /\ UNCHANGED lexicon_vector /\ UNCHANGED docid_teletype
      /\ UNCHANGED freq_teletype /\ UNCHANGED lexicon /\ UNCHANGED index
  BY <1>1 DEF WriteDocumentIndex, StartLoop, builderVars
<1>3. Input' /\ chunk' = chunk /\ base_docid' = base_docid /\ NIndexed' = NIndexed
  BY <1>0, <1>2, SameInput, SameOrder
<1>4. at = NIndexed + 1
  BY <1>0, <1>1, <1>2 DEF Control
<1>5. /\ Added' = Added /\ Gathered' = Gathered /\ Recoded' = Recoded
      /\ InLexicon = 0 /\ InLexicon' = 0
  BY <1>1, <1>2, <1>3, <1>4 DEF Added, Gathered, Recoded, InLexicon
<1>6. Control'
  BY <1>1, <1>2, <1>3 DEF Control
<1>7. Posts' /\ IndexedDocuments'
  BY <1>0, <1>2, <1>5, PostsKept, DocumentsKept
<1>8. Vector' /\ DocidFile' /\ FreqFile'
  BY <1>0, <1>2, <1>5, VectorKept, DocidFileKept, FreqFileKept
<1>9. LexiconFile'
  BY <1>0, <1>2, <1>5, NoLexicon
<1>10. DocumentFile'
  <2>1. DocnoOffsets' = DocnoOffsets /\ Strings' = Strings
    BY <1>2 DEF DocnoOffsets, Strings
  <2>2. document_teletype' =
           <<base_docid, Len(document_index)>>
           \o [i \in DOMAIN document_index |->
                 [docno_offset |-> DocnoOffsets[i], lenght |-> document_index[i].lenght]]
           \o Strings[Len(document_index)]
    BY DEF WriteDocumentIndex
  <2> QED
    BY <1>2, <1>3, <2>1, <2>2 DEF DocumentFile
<1>11. Mapped'
  BY <1>2 DEF Mapped
<1> QED
  BY <1>3, <1>6, <1>7, <1>8, <1>9, <1>10, <1>11 DEF LocalInv

LEMMA WriteLexiconKeepsLocalInv == LocalInv /\ WriteLexicon => LocalInv'
<1> SUFFICES ASSUME LocalInv, WriteLexicon PROVE LocalInv'
  OBVIOUS
<1>0. /\ Input /\ Control /\ Posts /\ IndexedDocuments /\ Vector /\ DocidFile /\ FreqFile
      /\ DocumentFile /\ LexiconFile /\ Mapped
  BY DEF LocalInv
<1>1. /\ NIndexed \in Nat /\ DOMAIN InOrder = 1..NIndexed
      /\ \A j, k \in 1..NIndexed : InOrder[j] = InOrder[k] => j = k
  BY <1>0, IndexedTerms, OrderIs
<1>2. /\ stage = "lexicon" /\ stage' = "lexicon" /\ at \in 1..NIndexed /\ at' = at + 1
      /\ UNCHANGED inputVars /\ UNCHANGED inverted_index /\ UNCHANGED document_index
      /\ UNCHANGED builderVars /\ UNCHANGED lexicon_vector /\ UNCHANGED docid_teletype
      /\ UNCHANGED freq_teletype /\ UNCHANGED document_teletype /\ UNCHANGED index
      /\ lexicon' = [t \in DOMAIN lexicon \cup {InOrder[at]} |->
                       IF t = InOrder[at] THEN EncodedAll(Serialized(lexicon_vector[at]))
                       ELSE lexicon[t]]
  BY <1>1 DEF WriteLexicon, builderVars
<1>3. Input' /\ chunk' = chunk /\ NIndexed' = NIndexed /\ InOrder' = InOrder
  BY <1>0, <1>2, SameInput, SameOrder
<1>4. /\ Added' = Added /\ Gathered' = Gathered /\ Recoded' = Recoded
      /\ InLexicon = at - 1 /\ InLexicon' = at
  BY <1>1, <1>2, <1>3 DEF Added, Gathered, Recoded, InLexicon
<1>5. Control'
  BY <1>1, <1>2, <1>3 DEF Control
<1>6. Posts' /\ IndexedDocuments'
  BY <1>0, <1>2, <1>4, PostsKept, DocumentsKept
<1>7. Vector' /\ DocidFile' /\ FreqFile'
  BY <1>0, <1>2, <1>4, VectorKept, DocidFileKept, FreqFileKept
<1>8. DocumentFile'
  BY <1>0, <1>2, DocumentFileKept
<1>9. LexiconFile'
  <2>1. /\ DOMAIN lexicon = {InOrder[j] : j \in 1..(at - 1)}
        /\ \A j \in 1..(at - 1) :
              lexicon[InOrder[j]] = EncodedAll(Serialized(lexicon_vector[j]))
    BY <1>0, <1>4 DEF LexiconFile
  <2>2. /\ \A j \in 1..at : j \in 1..(at - 1) \/ j = at
        /\ \A j \in 1..(at - 1) : j \in 1..at /\ j \in 1..NIndexed /\ j # at
        /\ at \in 1..at
    BY <1>1, <1>2
  <2>3. DOMAIN lexicon' = {InOrder[j] : j \in 1..at}
    BY <1>2, <2>1, <2>2
  <2>4. ASSUME NEW j \in 1..at
        PROVE  lexicon'[InOrder[j]] = EncodedAll(Serialized(lexicon_vector[j]))
    <3>1. CASE j = at
      BY <1>2, <3>1
    <3>2. CASE j \in 1..(at - 1)
      <4>1. InOrder[j] # InOrder[at]
        BY <1>1, <1>2, <2>2, <3>2
      <4>2. InOrder[j] \in DOMAIN lexicon
        BY <2>1, <3>2
      <4> QED
        BY <1>2, <2>1, <3>2, <4>1, <4>2
    <3> QED
      BY <2>2, <3>1, <3>2
  <2>5. \A j : Serialized(lexicon_vector[j])' = Serialized(lexicon_vector[j])
    BY <1>2 DEF Serialized
  <2> QED
    BY <1>3, <1>4, <2>3, <2>4, <2>5 DEF LexiconFile
<1>10. Mapped'
  BY <1>2 DEF Mapped
<1> QED
  BY <1>3, <1>5, <1>6, <1>7, <1>8, <1>9, <1>10 DEF LocalInv

LEMMA LoadKeepsLocalInv == LocalInv /\ Load => LocalInv'
<1> SUFFICES ASSUME LocalInv, Load PROVE LocalInv'
  OBVIOUS
<1>0. /\ Input /\ Control /\ Posts /\ IndexedDocuments /\ Vector /\ DocidFile /\ FreqFile
      /\ DocumentFile /\ LexiconFile /\ Mapped
  BY DEF LocalInv
<1>1. NIndexed \in Nat /\ DOMAIN InOrder = 1..NIndexed
  BY <1>0, IndexedTerms, OrderIs
<1>2. /\ stage = "lexicon" /\ stage' = "loaded" /\ at \notin 1..NIndexed /\ at' = 1
      /\ UNCHANGED inputVars /\ UNCHANGED inverted_index /\ UNCHANGED document_index
      /\ UNCHANGED builderVars /\ UNCHANGED lexicon_vector /\ UNCHANGED docid_teletype
      /\ UNCHANGED freq_teletype /\ UNCHANGED document_teletype /\ UNCHANGED lexicon
      /\ index' = [base_docid |-> document_teletype[1], length |-> document_teletype[2],
                   document_index |-> 2, base_docno |-> 2 + document_teletype[2]]
  BY <1>1 DEF Load, StartLoop, builderVars
<1>3. Input' /\ chunk' = chunk /\ base_docid' = base_docid /\ NIndexed' = NIndexed
  BY <1>0, <1>2, SameInput, SameOrder
<1>4. at = NIndexed + 1
  BY <1>0, <1>1, <1>2 DEF Control
<1>5. /\ Added = Len(chunk) /\ Added' = Added /\ Gathered' = Gathered /\ Recoded' = Recoded
      /\ InLexicon' = InLexicon
  BY <1>1, <1>2, <1>3, <1>4 DEF Added, Gathered, Recoded, InLexicon
<1>6. Control'
  BY <1>1, <1>2, <1>3 DEF Control
<1>7. Posts' /\ IndexedDocuments'
  BY <1>0, <1>2, <1>5, PostsKept, DocumentsKept
<1>8. Vector' /\ DocidFile' /\ FreqFile'
  BY <1>0, <1>2, <1>5, VectorKept, DocidFileKept, FreqFileKept
<1>9. DocumentFile'
  BY <1>0, <1>2, DocumentFileKept
<1>10. LexiconFile'
  BY <1>0, <1>2, <1>5, LexiconKept
<1>11. Mapped'
  <2>1. document_teletype[1] = base_docid /\ document_teletype[2] = Len(chunk)
    BY <1>0, <1>2, <1>5, DocumentFileIs
  <2> QED
    BY <1>2, <1>3, <2>1 DEF Mapped
<1> QED
  BY <1>3, <1>6, <1>7, <1>8, <1>9, <1>10, <1>11 DEF LocalInv

LEMMA LocalNextKeepsInv == LocalInv /\ [LocalNext]_localVars => LocalInv'
<1> SUFFICES ASSUME LocalInv, [LocalNext]_localVars PROVE LocalInv'
  OBVIOUS
<1>1. CASE AddDocument
  BY <1>1, AddDocumentKeepsLocalInv
<1>2. CASE BeginWrite
  BY <1>2, BeginWriteKeepsLocalInv
<1>3. CASE WriteDocids
  BY <1>3, WriteDocidsKeepsLocalInv
<1>4. CASE DocidsWritten
  BY <1>4, DocidsWrittenKeepsLocalInv
<1>5. CASE WriteFreqs
  BY <1>5, WriteFreqsKeepsLocalInv
<1>6. CASE WriteDocumentIndex
  BY <1>6, WriteDocumentIndexKeepsLocalInv
<1>7. CASE WriteLexicon
  BY <1>7, WriteLexiconKeepsLocalInv
<1>8. CASE Load
  BY <1>8, LoadKeepsLocalInv
<1>9. CASE UNCHANGED localVars
  <2>0. /\ Input /\ Control /\ Posts /\ IndexedDocuments /\ Vector /\ DocidFile /\ FreqFile
        /\ DocumentFile /\ LexiconFile /\ Mapped
    BY DEF LocalInv
  <2>1. /\ UNCHANGED inputVars /\ UNCHANGED builderVars /\ UNCHANGED inverted_index
        /\ UNCHANGED document_index /\ UNCHANGED lexicon_vector /\ UNCHANGED docid_teletype
        /\ UNCHANGED freq_teletype /\ UNCHANGED document_teletype /\ UNCHANGED lexicon
        /\ UNCHANGED index /\ UNCHANGED at /\ UNCHANGED stage
    BY <1>9 DEF localVars, builderVars
  <2>2. chunk' = chunk /\ base_docid' = base_docid /\ NIndexed' = NIndexed /\ Input'
    BY <2>0, <2>1, SameInput, SameOrder
  <2>3. /\ Added' = Added /\ Gathered' = Gathered /\ Recoded' = Recoded
        /\ InLexicon' = InLexicon
    BY <2>1, <2>2 DEF Added, Gathered, Recoded, InLexicon
  <2>4. Control' /\ Mapped'
    BY <2>0, <2>1, <2>2 DEF Control, Mapped
  <2>5. Posts' /\ IndexedDocuments' /\ Vector' /\ DocidFile' /\ FreqFile'
    BY <2>0, <2>1, <2>3, PostsKept, DocumentsKept, VectorKept, DocidFileKept, FreqFileKept
  <2>6. DocumentFile' /\ LexiconFile'
    BY <2>0, <2>1, <2>3, DocumentFileKept, LexiconKept
  <2> QED
    BY <2>2, <2>4, <2>5, <2>6 DEF LocalInv
<1>10. CASE Loaded
  BY <1>9, <1>10 DEF Loaded
<1> QED
  BY <1>1, <1>2, <1>3, <1>4, <1>5, <1>6, <1>7, <1>8, <1>9, <1>10 DEF LocalNext

\* The files say of each term what the documents that were added say, in every state of a chunk's
\* index: the inductive invariant of what follows.
THEOREM LocalIndexInvariant == LocalSpec => []LocalInv
<1>1. LocalInit => LocalInv
  BY LocalInitInv
<1>2. LocalInv /\ [LocalNext]_localVars => LocalInv'
  BY LocalNextKeepsInv
<1> QED
  BY <1>1, <1>2, PTL DEF LocalSpec

\* What the lexicon says of a term is where its lists are.
LEMMA LexiconLeadsToLists ==
    ASSUME LocalInv, stage = "loaded", NEW t \in DOMAIN lexicon
    PROVE  \E v \in Values : /\ Deserialized(lexicon[t]) = v /\ HasDocids(v, t)
                             /\ HasFreqs(v, FreqsOf(t, Len(chunk)))
<1>0. /\ Input /\ Control /\ Posts /\ IndexedDocuments /\ Vector /\ DocidFile /\ FreqFile
      /\ DocumentFile /\ LexiconFile /\ Mapped
  BY DEF LocalInv
<1>1. Gathered = NIndexed /\ Recoded = NIndexed /\ InLexicon = NIndexed
  BY DEF Gathered, Recoded, InLexicon
<1>2. PICK j \in 1..NIndexed : t = InOrder[j]
  BY <1>0, <1>1 DEF LexiconFile
<1> DEFINE v == lexicon_vector[j]
<1>3. v \in Values
  <2>1. lexicon_vector \in Seq(Values) /\ Len(lexicon_vector) = NIndexed
    BY <1>0, <1>1 DEF Vector
  <2> HIDE DEF Values
  <2> QED
    BY <2>1
<1>4. HasDocids(v, t) /\ HasFreqs(v, FreqsOf(t, Len(chunk)))
  BY <1>0, <1>1, <1>2 DEF DocidFile, FreqFile
<1>5. lexicon[t] = EncodedAll(Serialized(v))
  BY <1>0, <1>1, <1>2 DEF LexiconFile
<1> HIDE DEF v
<1> DEFINE ser == Serialized(v)
           bytes == EncodedAll(ser)
<1>6. /\ ser \in Seq(Nat)
      /\ ser[1] = v.start_pos_docid /\ ser[2] = v.end_pos_docid
      /\ ser[3] = v.start_pos_freq /\ ser[4] = v.end_pos_freq /\ ser[5] = v.n_docs
  BY <1>3 DEF Serialized, Values
<1> HIDE DEF ser
<1>7. bytes \in Seq(Nat) /\ IsCode(bytes, 0, Len(bytes), ser)
  BY <1>6, AllEncoded
<1> HIDE DEF bytes
<1>8. Decoded(bytes, 0, Len(bytes)) = ser
  BY <1>6, <1>7, DecodedIs
<1>9. Deserialized(bytes) = v
  <2>1. Deserialized(bytes) =
           [start_pos_docid |-> ser[1], end_pos_docid |-> ser[2], start_pos_freq |-> ser[3],
            end_pos_freq |-> ser[4], n_docs |-> ser[5]]
    BY <1>8 DEF Deserialized
  <2> QED
    BY <1>3, <1>6, <2>1 DEF Values
<1> QED
  BY <1>3, <1>4, <1>5, <1>9 DEF bytes, ser

\* From the invariant: the lexicon leads to each list, and what is read there is that list.
LEMMA LocalInvReadsPostings == LocalInv => PostingsReadBack
<1> SUFFICES ASSUME LocalInv, stage = "loaded"
             PROVE  /\ DOMAIN lexicon = UNION {DOMAIN chunk[i].freqs : i \in DOMAIN chunk}
                    /\ \A t \in DOMAIN lexicon :
                          LET v == Deserialized(lexicon[t])
                          IN  /\ ReadDocids(v) = [k \in DOMAIN Holding(t) |->
                                                    base_docid + Holding(t)[k] - 1]
                              /\ v.n_docs = Len(Holding(t))
  BY DEF PostingsReadBack
<1>0. Input /\ Control /\ Posts /\ LexiconFile
  BY DEF LocalInv
<1>1. Added = Len(chunk) /\ InLexicon = NIndexed
  BY DEF Added, InLexicon
<1>2. DOMAIN lexicon = UNION {DOMAIN chunk[i].freqs : i \in DOMAIN chunk}
  <2>1. DOMAIN lexicon = {InOrder[j] : j \in 1..NIndexed}
    BY <1>0, <1>1 DEF LexiconFile
  <2>2. /\ \A j \in 1..NIndexed : InOrder[j] \in DOMAIN inverted_index
        /\ \A t \in DOMAIN inverted_index : \E j \in 1..NIndexed : InOrder[j] = t
    BY <1>0, IndexedTerms, OrderIs
  <2>3. DOMAIN lexicon = DOMAIN inverted_index
    BY <2>1, <2>2
  <2>4. DOMAIN inverted_index = TermsUpTo(Len(chunk)) /\ DOMAIN chunk = 1..Len(chunk)
    BY <1>0, <1>1, ChunkIs DEF Posts
  <2> QED
    BY <2>3, <2>4 DEF TermsUpTo
<1>3. ASSUME NEW t \in DOMAIN lexicon
      PROVE  /\ ReadDocids(Deserialized(lexicon[t]))
                  = [k \in DOMAIN Holding(t) |-> base_docid + Holding(t)[k] - 1]
             /\ Deserialized(lexicon[t]).n_docs = Len(Holding(t))
  <2> DEFINE ds == DocidsOf(t, Len(chunk))
  <2>1. PICK v \in Values : Deserialized(lexicon[t]) = v /\ HasDocids(v, t)
    BY LexiconLeadsToLists
  <2>2. /\ docid_teletype \in Seq(Nat)
        /\ IsCode(docid_teletype, v.start_pos_docid, v.end_pos_docid, ds)
        /\ v.n_docs = Len(Hold(t, Len(chunk)))
    BY <2>1 DEF LocalInv, DocidFile, HasDocids
  <2>3. ds \in Seq(Nat)
    <3>1. Len(chunk) \in 0..Len(chunk)
      BY <1>0, ChunkIs
    <3> QED
      BY <1>0, <3>1, ListsAre
  <2>4. Holding(t) = Hold(t, Len(chunk))
    BY DEF Holding, Hold
  <2>5. ds = [k \in DOMAIN Holding(t) |-> base_docid + Holding(t)[k] - 1]
    BY <2>4 DEF DocidsOf
  <2> HIDE DEF ds
  <2>6. ReadDocids(v) = ds
    BY <2>2, <2>3, DecodedIs DEF ReadDocids
  <2> QED
    BY <2>1, <2>2, <2>4, <2>5, <2>6
<1> QED
  BY <1>2, <1>3

\* Between the offsets of each term of the chunk are the docids of its documents, whatever the
\* documents, the terms, and what the docids start with.
THEOREM PostingsAreReadBack == LocalSpec => []PostingsReadBack
<1>1. LocalInv => PostingsReadBack
  BY LocalInvReadsPostings
<1> QED
  BY <1>1, LocalIndexInvariant, PTL

\* The list's bits, in the file: where a value ends.
LEMMA ZeroOfValue ==
    ASSUME NEW f, IsFile(f), NEW values \in Seq(Nat \ {0}), NEW start \in Nat,
           start + ByteBits * BytesOf(values) <= Len(f),
           \A b \in Nat : b < ByteBits * BytesOf(values) => f[start + b + 1] = BitAt(values, b),
           NEW i \in 1..Len(values), EndOf(values, i) < ByteBits * BytesOf(values)
    PROVE  ZeroFrom(f, start + StartOf(values, i)) = start + EndOf(values, i)
<1> DEFINE s == StartOf(values, i)
           e == EndOf(values, i)
           size == ByteBits * BytesOf(values)
<1>1. s \in Nat /\ e \in Nat /\ s <= e
  <2>1. i \in 1..(Len(values) + 1)
    OBVIOUS
  <2> QED
    BY <2>1, Starts
<1>2. size \in Nat
  <2>1. BytesOf(values) \in Nat
    BY ListBits
  <2>2. ByteBits \in Nat /\ ByteBits > 0
    BY ByteAssumption
  <2> QED
    BY <2>1, <2>2, Products
<1>3. \A b \in s..e : BitAt(values, b) = IF b = e THEN 0 ELSE 1
  BY BitsOfValue
<1>4. e < size /\ start + size <= Len(f) /\ Len(f) \in Nat
      /\ \A b \in Nat : b < size => f[start + b + 1] = BitAt(values, b)
  BY DEF IsFile
<1> HIDE DEF s, e, size
<1>5. f[(start + e) + 1] = 0
  <2>1. e \in s..e
    BY <1>1
  <2> QED
    BY <1>1, <1>3, <1>4, <2>1
<1>6. ASSUME NEW x \in (start + s)..((start + e) - 1) PROVE f[x + 1] = 1
  <2> DEFINE b == x - start
  <2>1. b \in Nat /\ b \in s..e /\ b # e /\ b < size /\ start + b = x
    <3>1. x \in Int /\ start + s <= x /\ x <= (start + e) - 1
      BY <1>1
    <3>2. e < size
      BY <1>4
    <3> QED
      BY ONLY <1>1, <1>2, <3>1, <3>2, start \in Nat
  <2> HIDE DEF b
  <2>2. f[start + b + 1] = 1
    BY <1>3, <1>4, <2>1
  <2> QED
    BY <2>1, <2>2
<1>7. /\ start + s \in Nat /\ start + e \in Nat /\ start + s <= start + e /\ start + e < Len(f)
  BY <1>1, <1>2, <1>4
<1>8. ZeroFrom(f, start + s) = start + e
  BY <1>5, <1>6, <1>7, ZeroIsThere
<1> QED
  BY <1>8 DEF s, e

\* All the values but the last end before the list's last byte does, and the last one too if it
\* ends in the byte in which it starts.
LEMMA EndsInList ==
    ASSUME NEW values \in Seq(Nat \ {0}), NEW i \in 1..Len(values),
           i # Len(values) \/ Byte(StartOf(values, Len(values))) = Byte(EndOf(values, Len(values)))
    PROVE  EndOf(values, i) < ByteBits * BytesOf(values)
<1> DEFINE n == Len(values)
           s == StartOf(values, n)
           e == EndOf(values, n)
<1>1. n \in Nat /\ n \in 1..n /\ n \in 1..(n + 1) /\ values # <<>>
  OBVIOUS
<1>2. s \in Nat /\ e \in Nat /\ EndOf(values, i) \in Nat
  BY <1>1, Starts
<1>3. BytesOf(values) = Byte(s) + 1
  BY <1>1 DEF BytesOf
<1>4. ByteBits \in Nat /\ ByteBits > 0
  BY ByteAssumption
<1> HIDE DEF s, e
<1>5. \A x \in Nat : Byte(x) \in Nat /\ x < ByteBits * (Byte(x) + 1)
  <2> TAKE x \in Nat
  <2> DEFINE q == x \div ByteBits
             r == x % ByteBits
  <2>1. q \in Nat /\ r \in Nat /\ r < ByteBits /\ x = ByteBits * q + r
    BY <1>4, Division
  <2> HIDE DEF q, r
  <2>2. ByteBits * (q + 1) = ByteBits * q + ByteBits /\ ByteBits * q \in Nat
    BY <1>4, <2>1
  <2>3. x < ByteBits * (q + 1)
    BY <1>4, <2>1, <2>2
  <2> QED
    BY <2>1, <2>3 DEF Byte, q
<1>6. CASE i # n
  <2>1. i < n
    BY <1>1, <1>6
  <2>2. EndOf(values, i) < s
    BY <1>1, <2>1, Ordered DEF s
  <2> DEFINE x == ByteBits * (Byte(s) + 1)
  <2>3. s < x /\ x \in Nat
    <3>1. Byte(s) + 1 \in Nat
      <4>1. Byte(s) \in Nat
        BY <1>2, <1>5
      <4> QED
        BY ONLY <4>1
    <3> QED
      BY <1>2, <1>4, <1>5, <3>1, Products
  <2> HIDE DEF x
  <2>4. EndOf(values, i) < x
    BY <1>2, <2>2, <2>3
  <2> QED
    BY <1>3, <2>4 DEF x
<1>7. CASE i = n
  <2>1. Byte(s) = Byte(e) /\ EndOf(values, i) = e
    BY <1>7 DEF s, e
  <2> QED
    BY <1>2, <1>3, <1>5, <2>1
<1> QED
  BY <1>6, <1>7

\* The frequencies that are read from a list.
LEMMA FreqsAreRead ==
    ASSUME IsFile(freq_teletype), NEW v \in Values, NEW values \in Seq(Nat \ {0}),
           HasFreqs(v, values), v.n_docs = Len(values),
           NEW k \in 1..Len(values),
           k # Len(values)
             \/ Byte(StartOf(values, Len(values))) = Byte(EndOf(values, Len(values)))
    PROVE  ReadFreqs(v)[k] = values[k]
<1> DEFINE n == Len(values)
           f == freq_teletype
           start == ByteBits * v.start_pos_freq
           size == ByteBits * BytesOf(values)
           To(g) == g = [i \in 0..n |-> IF i = 0 THEN start - 1 ELSE ZeroFrom(f, g[i - 1] + 1)]
           zero == CHOOSE g : To(g)
           V == {x \in Int : x + 1 \in Nat}
           round == [i \in 1..n |-> [x \in V |-> ZeroFrom(f, x + 1)]]
<1>1. /\ n \in Nat /\ v.start_pos_freq \in Nat /\ BytesOf(values) \in Nat
      /\ ByteBits \in Nat /\ ByteBits > 0
  BY ListBits, ByteAssumption DEF Values
<1>2. start \in Nat /\ size \in Nat
  BY <1>1, Products
<1>3. /\ start + size <= Len(f)
      /\ \A b \in Nat : b < size => f[start + b + 1] = BitAt(values, b)
  <2>1. /\ v.end_pos_freq = v.start_pos_freq + BytesOf(values)
        /\ ByteBits * v.end_pos_freq <= Len(f)
        /\ \A b \in Nat : b < size => f[start + b + 1] = BitAt(values, b)
    BY DEF HasFreqs
  <2>2. ByteBits * (v.start_pos_freq + BytesOf(values)) = start + size
    BY <1>1
  <2> QED
    BY <2>1, <2>2
<1>4. ReadFreqs(v) = [i \in 1..n |-> zero[i] - zero[i - 1]]
  BY DEF ReadFreqs
<1> HIDE DEF n, f, start, size
<1>5. \E g : To(g)
  <2>1. \A i \in 1..n : \A x \in V : round[i][x] = ZeroFrom(f, x + 1)
    OBVIOUS
  <2>2. \A i \in 1..n : \A x \in V : ZeroFrom(f, x + 1) \in V
    <3> TAKE i \in 1..n
    <3> TAKE x \in V
    <3>1. x + 1 \in Nat
      OBVIOUS
    <3>2. ZeroFrom(f, x + 1) \in Nat
      BY <3>1, ZeroIsFound DEF f
    <3> HIDE DEF f
    <3> QED
      BY <3>2
  <2>3. start - 1 \in V
    BY <1>2
  <2> HIDE DEF round, V
  <2>4. StaysIn(n, V, round)
    BY <2>1, <2>2 DEF StaysIn
  <2>5. \E g : IsLoop(g, n, V, start - 1, round)
    BY <1>1, <2>3, <2>4, LoopEnds DEF n
  <2>6. PICK g \in [0..n -> V] : g[0] = start - 1 /\ \A i \in 1..n : g[i] = round[i][g[i - 1]]
    BY <2>5 DEF IsLoop
  <2>7. \A i \in 0..n : (i = 0 \/ i \in 1..n) /\ (i \in 1..n => i - 1 \in 0..n)
    BY <1>1 DEF n
  <2>8. \A i \in 0..n : g[i] = IF i = 0 THEN start - 1 ELSE ZeroFrom(f, g[i - 1] + 1)
    <3>1. \A i \in 1..n : g[i - 1] \in V /\ i # 0
      BY <2>6, <2>7
    <3>2. \A i \in 1..n : g[i] = ZeroFrom(f, g[i - 1] + 1)
      BY <2>1, <2>6, <3>1
    <3> QED
      BY <2>6, <2>7, <3>1, <3>2
  <2>9. To(g)
    BY <2>6, <2>8
  <2> QED
    BY <2>9
<1>6. To(zero)
  <2> HIDE DEF To
  <2> QED
    BY <1>5
<1> HIDE DEF zero, V, round
<1>7. n \in Nat
  BY <1>1 DEF n
<1>8. zero[0] = start - 1 /\ \A i \in 1..n : zero[i] = ZeroFrom(f, zero[i - 1] + 1)
  <2>1. 0 \in 0..n /\ \A i \in 1..n : i \in 0..n /\ i # 0
    BY <1>7
  <2> QED
    BY <1>6, <2>1
<1>9. /\ StartOf(values, 1) = 0
      /\ \A i \in 1..(n + 1) : StartOf(values, i) \in Nat
      /\ \A i \in 1..n : /\ StartOf(values, i + 1) = StartOf(values, i) + values[i]
                         /\ EndOf(values, i) \in Nat
                         /\ EndOf(values, i) + 1 = StartOf(values, i + 1)
  BY Starts DEF n
<1> DEFINE Reads(i) == zero[i] = start + StartOf(values, i + 1) - 1
<1>10. Reads(0)
  BY <1>2, <1>8, <1>9
<1>11. ASSUME NEW i \in 1..n, i <= k, Reads(i - 1) PROVE Reads(i)
  <2>1. /\ StartOf(values, i) \in Nat /\ EndOf(values, i) \in Nat
        /\ EndOf(values, i) + 1 = StartOf(values, i + 1)
    <3>1. i \in 1..(n + 1)
      BY <1>7
    <3> QED
      BY <1>9, <3>1
  <2>2. zero[i - 1] + 1 = start + StartOf(values, i)
    <3>1. (i - 1) + 1 = i
      OBVIOUS
    <3>2. zero[i - 1] = start + StartOf(values, i) - 1
      BY <1>11, <3>1
    <3> QED
      BY <1>2, <2>1, <3>2
  <2>3. EndOf(values, i) < size
    <3>1. i # n \/ Byte(StartOf(values, n)) = Byte(EndOf(values, n))
      <4>1. k \in 1..n /\ (k # n \/ Byte(StartOf(values, n)) = Byte(EndOf(values, n)))
        BY DEF n
      <4>2. k # n => i # n
        BY <1>7, <1>11, <4>1
      <4> QED
        BY <4>1, <4>2
    <3> QED
      BY <3>1, EndsInList DEF n, size
  <2>4. ZeroFrom(f, start + StartOf(values, i)) = start + EndOf(values, i)
    BY <1>2, <1>3, <2>3, ZeroOfValue DEF n, f, size
  <2>5. zero[i] = start + EndOf(values, i)
    BY <1>8, <2>2, <2>4
  <2>6. start + EndOf(values, i) = start + StartOf(values, i + 1) - 1
    BY ONLY <1>2, <2>1
  <2> QED
    BY <2>5, <2>6
<1>12. \A i \in 0..k : Reads(i)
  <2> DEFINE G == {i \in 0..k : Reads(i)}
  <2>0. k \in Nat /\ k <= n
    BY <1>7 DEF n
  <2>1. 0 \in G
    BY <1>10, <2>0
  <2>2. ASSUME NEW i \in 0..(k - 1), i \in G PROVE i + 1 \in G
    <3>1. i + 1 \in 1..n /\ i + 1 <= k /\ (i + 1) - 1 = i /\ i + 1 \in 0..k
      BY <1>7, <2>0
    <3>2. Reads((i + 1) - 1)
      BY <2>2, <3>1
    <3> HIDE DEF Reads
    <3>3. Reads(i + 1)
      BY <1>11, <3>1, <3>2
    <3> QED
      BY <3>1, <3>3
  <2>3. \A i \in 0..k : i \in G
    <3> HIDE DEF G
    <3> QED
      BY <2>0, <2>1, <2>2, NumbersUpTo
  <2> QED
    BY <2>3
<1>13. ReadFreqs(v)[k] = zero[k] - zero[k - 1]
  BY <1>4 DEF n
<1>14. /\ k \in 1..n /\ k \in 1..(n + 1) /\ k \in 0..k /\ k - 1 \in 0..k /\ (k - 1) + 1 = k
       /\ k + 1 \in 1..(n + 1)
  BY <1>7 DEF n
<1>15. /\ zero[k] = start + StartOf(values, k + 1) - 1
       /\ zero[k - 1] = start + StartOf(values, k) - 1
  <2>1. Reads(k) /\ Reads(k - 1)
    <3> HIDE DEF Reads
    <3> QED
      BY <1>12, <1>14
  <2> QED
    BY <1>14, <2>1
<1>16. values[k] \in Nat
  OBVIOUS
<1>17. /\ StartOf(values, k) \in Nat
       /\ StartOf(values, k + 1) = StartOf(values, k) + values[k]
  BY <1>9, <1>14
<1>18. zero[k] - zero[k - 1] = values[k]
  BY ONLY <1>2, <1>15, <1>16, <1>17
<1> QED
  BY <1>13, <1>18

\* From the invariant: the bits of a list are those of its frequencies, the last one aside.
LEMMA LocalInvReadsFrequencies == LocalInv => FrequenciesReadBack
<1> SUFFICES ASSUME LocalInv, stage = "loaded", NEW t \in DOMAIN lexicon
             PROVE  LET v     == Deserialized(lexicon[t])
                        fs    == [k \in DOMAIN Holding(t) |-> chunk[Holding(t)[k]].freqs[t]]
                        lost  == Byte(StartOf(fs, Len(fs))) # Byte(EndOf(fs, Len(fs)))
                    IN  /\ v.end_pos_freq - v.start_pos_freq = BytesOf(fs)
                        /\ \A k \in DOMAIN fs :
                              ~(k = Len(fs) /\ lost) => ReadFreqs(v)[k] = fs[k]
  BY DEF FrequenciesReadBack
<1>0. Input /\ FreqFile
  BY DEF LocalInv
<1>1. PICK v \in Values : /\ Deserialized(lexicon[t]) = v /\ HasDocids(v, t)
                          /\ HasFreqs(v, FreqsOf(t, Len(chunk)))
  BY LexiconLeadsToLists
<1> DEFINE fs == FreqsOf(t, Len(chunk))
<1>2. fs = [k \in DOMAIN Holding(t) |-> chunk[Holding(t)[k]].freqs[t]]
  BY DEF FreqsOf, Holding, Hold
<1>3. fs \in Seq(Nat \ {0}) /\ Len(fs) = Len(Hold(t, Len(chunk)))
  <2>1. Len(chunk) \in 0..Len(chunk)
    BY <1>0, ChunkIs
  <2> QED
    BY <1>0, <2>1, ListsAre
<1>4. v.n_docs = Len(fs)
  BY <1>1, <1>3 DEF HasDocids
<1>5. HasFreqs(v, fs) /\ IsFile(freq_teletype)
  BY <1>0, <1>1 DEF FreqFile, IsFile
<1> HIDE DEF fs
<1>6. v.end_pos_freq - v.start_pos_freq = BytesOf(fs)
  <2>1. v.end_pos_freq = v.start_pos_freq + BytesOf(fs)
    BY <1>5 DEF HasFreqs
  <2>2. v.start_pos_freq \in Nat /\ BytesOf(fs) \in Nat
    BY <1>3, ListBits DEF Values
  <2> QED
    BY <2>1, <2>2
<1>7. ASSUME NEW k \in DOMAIN fs,
             ~(k = Len(fs) /\ Byte(StartOf(fs, Len(fs))) # Byte(EndOf(fs, Len(fs))))
      PROVE  ReadFreqs(v)[k] = fs[k]
  <2>1. k \in 1..Len(fs)
    BY <1>3
  <2>2. k # Len(fs) \/ Byte(StartOf(fs, Len(fs))) = Byte(EndOf(fs, Len(fs)))
    BY <1>7
  <2> QED
    BY <1>3, <1>4, <1>5, <2>1, <2>2, FreqsAreRead
<1> QED
  BY <1>1, <1>2, <1>6, <1>7

\* Between the offsets of each term are its frequencies, in the order of its docids: all of them
\* but a last one that ends in another byte than the one in which it starts.
THEOREM FrequenciesAreReadBack == LocalSpec => []FrequenciesReadBack
<1>1. LocalInv => FrequenciesReadBack
  BY LocalInvReadsFrequencies
<1> QED
  BY <1>1, LocalIndexInvariant, PTL

\* A part of a sequence, place by place.
LEMMA PartOf ==
    ASSUME NEW T, NEW s \in Seq(T), NEW m \in Nat, NEW n \in Nat, m >= 1, m <= n + 1, n <= Len(s)
    PROVE  SubSeq(s, m, n) = [k \in 1..((n - m) + 1) |-> s[(m + k) - 1]]
OBVIOUS

\* From the invariant: the index finds the name and the length of a document by its docid.
LEMMA LocalInvReadsDocuments == LocalInv => DocumentsReadBack
<1> SUFFICES ASSUME LocalInv, stage = "loaded"
             PROVE  /\ index.length = Len(chunk)
                    /\ \A i \in DOMAIN chunk :
                          LET docid == base_docid + i - 1
                          IN  /\ ReadDocno(docid) = Docno(i)
                              /\ DocumentInfo(docid).lenght = Lenght(chunk[i])
  BY DEF DocumentsReadBack
<1>0. Input /\ IndexedDocuments /\ DocumentFile /\ Mapped /\ Added = Len(chunk)
  BY DEF LocalInv, Added
<1> DEFINE D == Len(chunk)
           file_of == document_teletype
           s == Strings[D]
<1>1. /\ index.base_docid = base_docid /\ index.length = D
      /\ index.document_index = 2 /\ index.base_docno = 2 + D
  BY <1>0 DEF Mapped
<1>2. D \in Nat /\ DOMAIN chunk = 1..D /\ base_docid \in Nat
  BY <1>0, ChunkIs
<1>3. /\ \A i \in 1..D : file_of[2 + i] = [docno_offset |-> DocnoOffsets[i],
                                           lenght |-> Lenght(chunk[i])]
      /\ Len(file_of) = 2 + D + Len(s)
      /\ \A c \in 1..Len(s) : file_of[2 + D + c] = s[c]
      /\ \E T : file_of \in Seq(T)
  BY <1>0, DocumentFileIs
<1>4. s \in Seq(Nat)
  <2>1. D \in 0..D
    BY <1>2
  <2> QED
    BY <1>0, <2>1, StringsAre
<1> HIDE DEF file_of, s
<1>5. ASSUME NEW i \in 1..D
      PROVE  /\ ReadDocno(base_docid + i - 1) = Docno(i)
             /\ DocumentInfo(base_docid + i - 1).lenght = Lenght(chunk[i])
  <2> DEFINE docid == base_docid + i - 1
             o == Len(Strings[i - 1])
             c == chunk[i].docno
             start == 2 + D + o + 1
             end == start + c
  <2>1. DocumentInfo(docid) = [docno_offset |-> DocnoOffsets[i], lenght |-> Lenght(chunk[i])]
    <3>1. 2 + docid - base_docid + 1 = 2 + i
      BY <1>2
    <3>2. DocumentInfo(docid) = file_of[2 + docid - base_docid + 1]
      BY <1>1 DEF DocumentInfo, file_of
    <3> QED
      BY <1>3, <3>1, <3>2
  <2>2. DocnoOffsets[i] = o
    BY <1>0, OffsetsAre DEF D
  <2>3. /\ o + c + 1 <= Len(s) /\ \A k \in 1..c : s[o + k] = i
        /\ s[o + c + 1] = 0
    BY <1>0, SectionIs DEF InSection, s
  <2>4. o \in Nat /\ c \in Nat
    <3>1. i - 1 \in 0..D
      BY <1>2
    <3>2. Strings[i - 1] \in Seq(Nat)
      BY <1>0, <3>1, StringsAre DEF D
    <3> QED
      BY <1>0, <3>2, ChunkIs DEF D
  <2>5. ReadDocno(docid) =
           SubSeq(file_of, start, Min({x \in start..Len(file_of) : file_of[x] = 0}) - 1)
    <3>1. index.base_docno + DocumentInfo(docid).docno_offset + 1 = start
      <4> HIDE DEF docid, o, D
      <4>1. DocumentInfo(docid).docno_offset = DocnoOffsets[i]
        BY ONLY <2>1
      <4>2. DocumentInfo(docid).docno_offset = o
        BY ONLY <2>2, <4>1
      <4>3. index.base_docno = 2 + D
        BY ONLY <1>1
      <4>4. index.base_docno + DocumentInfo(docid).docno_offset + 1 = 2 + D + o + 1
        BY ONLY <4>2, <4>3
      <4> QED
        BY ONLY <4>4 DEF start
    <3> HIDE DEF start, docid
    <3> QED
      BY <3>1 DEF ReadDocno, file_of
  <2> HIDE DEF docid, o, c, D
  <2>6. Len(s) \in Nat
    BY <1>4
  <2>7. /\ start \in Nat /\ end \in Nat /\ start >= 1 /\ start <= end
        /\ end <= Len(file_of) /\ Len(file_of) \in Nat
    BY <1>2, <1>3, <2>3, <2>4, <2>6
  <2>8. file_of[end] = 0
    <3>1. o + c + 1 \in 1..Len(s) /\ 2 + D + (o + c + 1) = end
      BY <1>2, <2>3, <2>4, <2>6
    <3>2. file_of[2 + D + (o + c + 1)] = s[o + c + 1]
      BY <1>3, <3>1
    <3> QED
      BY <2>3, <3>1, <3>2
  <2>9. ASSUME NEW k \in 1..c PROVE file_of[(start + k) - 1] = i
    <3>1. o + k \in 1..Len(s) /\ 2 + D + (o + k) = (start + k) - 1
      BY <1>2, <2>3, <2>4, <2>6
    <3>2. file_of[2 + D + (o + k)] = s[o + k]
      BY <1>3, <3>1
    <3> QED
      BY <2>3, <3>1, <3>2
  <2> HIDE DEF start, end
  <2>10. end = start + c
    BY DEF end
  <2>11. Min({x \in start..Len(file_of) : file_of[x] = 0}) = end
    <3> DEFINE S == {x \in start..Len(file_of) : file_of[x] = 0}
    <3>1. S \in SUBSET Nat /\ end \in S
      BY <2>7, <2>8
    <3>2. ASSUME NEW x \in S PROVE end <= x
      <4>1. x \in Nat /\ start <= x /\ file_of[x] = 0
        BY <2>7
      <4>2. ASSUME x < end PROVE FALSE
        <5> DEFINE k == (x - start) + 1
        <5>1. k \in 1..c /\ (start + k) - 1 = x
          BY <2>4, <2>7, <2>10, <4>1, <4>2
        <5> HIDE DEF k
        <5>2. file_of[x] = i
          BY <2>9, <5>1
        <5> QED
          BY <1>2, <4>1, <5>2
      <4> QED
        BY <2>7, <4>1, <4>2
    <3> HIDE DEF S
    <3>3. Min(S) = end
      BY <3>1, <3>2, MinIs
    <3> QED
      BY <3>3 DEF S
  <2>12. SubSeq(file_of, start, end - 1) = [k \in 1..c |-> file_of[(start + k) - 1]]
    <3>1. PICK T : file_of \in Seq(T)
      BY <1>3
    <3>2. /\ end - 1 \in Nat /\ start <= (end - 1) + 1 /\ end - 1 <= Len(file_of)
          /\ ((end - 1) - start) + 1 = c
      BY <2>4, <2>7, <2>10
    <3>3. SubSeq(file_of, start, end - 1)
             = [k \in 1..(((end - 1) - start) + 1) |-> file_of[(start + k) - 1]]
      BY <2>7, <3>1, <3>2, PartOf
    <3> QED
      BY <3>2, <3>3
  <2>13. [k \in 1..c |-> file_of[(start + k) - 1]] = Docno(i)
    <3>1. Docno(i) = [k \in 1..c |-> i]
      BY DEF Docno, c
    <3> QED
      BY <2>9, <3>1
  <2>14. ReadDocno(docid) = Docno(i)
    BY <2>5, <2>11, <2>12, <2>13
  <2>15. DocumentInfo(docid).lenght = Lenght(chunk[i])
    BY <2>1
  <2> QED
    BY <2>14, <2>15 DEF docid
<1> QED
  BY <1>1, <1>2, <1>5

\* The index that maps the files finds the name and the length of every document of the chunk.
THEOREM DocumentsAreReadBack == LocalSpec => []DocumentsReadBack
<1>1. LocalInv => DocumentsReadBack
  BY LocalInvReadsDocuments
<1> QED
  BY <1>1, LocalIndexInvariant, PTL

=============================================================================
