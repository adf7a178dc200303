---------------------------- MODULE DiskMapProofs ----------------------------
(***************************************************************************)
(* Proofs of the safety properties of the disk map, for every size of the  *)
(* blocks and of the entries, and any number of them, and of the merge of  *)
(* lexica, for any lexica.                                                 *)
(***************************************************************************)
EXTENDS DiskMap, LexiconMerge, NumberFacts

-----------------------------------------------------------------------------
(* Offsets and blocks.                                                     *)

\* A block's offset and the place in it.
LEMMA Blocks ==
    ASSUME NEW o \in Nat
    PROVE  /\ B \in Nat /\ B > 3
           /\ o % B \in Nat /\ o % B < B
           /\ o \div B \in Nat /\ o = B * (o \div B) + (o % B)
<1>1. B \in Nat /\ B > 3 /\ B > 0
  BY DiskMapAssumption
<1> QED
  BY <1>1, Division

\* Where a block can start.
LEMMA Multiples ==
    ASSUME NEW m \in Nat
    PROVE  /\ B * m \in Nat /\ (B * m) % B = 0
           /\ \A r \in Nat : r < B => (B * m + r) % B = r
<1>1. B \in Nat /\ B > 0 /\ B * m \in Nat /\ B * m + 0 = B * m
  BY DiskMapAssumption
<1>2. \A r \in Nat : r < B => (B * m + r) % B = r
  BY <1>1, Quotient
<1>3. (B * m + 0) % B = 0
  BY <1>1, <1>2
<1> QED
  BY <1>1, <1>2, <1>3

\* The first block that starts at an offset or after it.
LEMMA AlignedOffset ==
    ASSUME NEW o \in Nat
    PROVE  /\ Aligned(o) \in Nat /\ o <= Aligned(o) /\ Aligned(o) < o + B
           /\ \E m \in Nat : Aligned(o) = B * m
           /\ Aligned(o) % B = 0
           /\ o % B = 0 => Aligned(o) = o
           /\ \A m \in Nat : o <= B * m => Aligned(o) <= B * m
<1>1. B \in Nat /\ B > 0
  BY DiskMapAssumption
<1> DEFINE a == o + B - 1
           q == a \div B
           s == a % B
<1>2. a \in Nat /\ a + 1 = o + B
  BY <1>1
<1>3. q \in Nat /\ s \in Nat /\ s < B /\ a = B * q + s
  BY <1>2, Blocks
<1>4. Aligned(o) = q * B
  BY DEF Aligned
<1> HIDE DEF a, q, s
<1>5. q * B = B * q /\ B * q \in Nat
  BY <1>1, <1>3
<1>6. Aligned(o) \in Nat /\ o <= Aligned(o) /\ Aligned(o) < o + B
  BY <1>1, <1>2, <1>3, <1>4, <1>5
<1>7. Aligned(o) = B * q
  BY <1>4, <1>5
<1>8. \A m \in Nat : o <= B * m => Aligned(o) <= B * m
  <2> TAKE m \in Nat
  <2> HAVE o <= B * m
  <2>1. B * m \in Nat
    BY <1>1
  <2>2. CASE m < q
    <3>1. B * m + B <= B * q
      BY <1>1, <1>3, <2>2, Products
    <3> QED
      BY <1>1, <1>6, <1>7, <2>1, <3>1
  <2>3. CASE q = m
    BY <1>7, <2>3, <2>1
  <2>4. CASE q < m
    <3>1. B * q + B <= B * m
      BY <1>1, <1>3, <2>4, Products
    <3> QED
      BY <1>1, <1>5, <1>7, <2>1, <3>1
  <2> QED
    BY <1>3, <2>2, <2>3, <2>4
<1>9. o % B = 0 => Aligned(o) = o
  <2> HAVE o % B = 0
  <2>1. o = B * (o \div B) + 0 /\ o \div B \in Nat
    BY Blocks
  <2>2. o = B * (o \div B)
    BY <1>1, <2>1
  <2>3. Aligned(o) <= o
    BY <1>8, <2>1, <2>2
  <2> QED
    BY <1>6, <2>3
<1>10. Aligned(o) % B = 0
  BY <1>3, <1>7, Multiples
<1> QED
  BY <1>3, <1>6, <1>7, <1>8, <1>9, <1>10

-----------------------------------------------------------------------------
(* The inductive invariant.                                                *)

Offsets == DOMAIN data
After(o) == o + data[o].bytes

Iterator == [offset : Nat, next : Nat, index : Nat, block : Nat, key : Nat]

AtDatum == pc \in {"iterate", "find", "found"}
Reading == pc = "ready" \/ AtDatum

Types ==
    /\ pc \in {"write", "load", "ready", "iterate", "find", "found", "undefined"}
    /\ heads \in Seq(Nat) /\ current_bytes \in Nat /\ n_strings \in Nat /\ tellp \in Nat
    /\ Offsets \subseteq Nat
    /\ \A o \in Offsets :
          /\ data[o].key \in Nat /\ data[o].head \in BOOLEAN
          /\ data[o].bytes \in Nat \ {0} /\ (data[o].head => data[o].b_i \in Nat)
    /\ index_string \in Seq([key : Nat, index : Nat])
    /\ AtDatum => it \in Iterator
    /\ end_index \in Nat /\ query \in Nat /\ result \in {"none", "element", "end"}

\* Each entry has its datum, and the data follow each other in the order of their keys.
EntriesAreData ==
    /\ \A i \in 1..n_strings : \E o \in Offsets : data[o].key = Key(i)
    /\ \A o \in Offsets : \E i \in 1..n_strings : data[o].key = Key(i)
    /\ \A o, p \in Offsets : data[o].key = data[p].key => o = p
    /\ \A o, p \in Offsets : data[o].key < data[p].key => After(o) <= p

\* A datum that does not start a block is inside one, and leaves no bytes before it.
DataInBlocks ==
    /\ \A o \in Offsets :
          IF data[o].head THEN o % B = 0 /\ data[o].key = Key(data[o].b_i + 1)
          ELSE o % B # 0 /\ (o % B) + data[o].bytes <= B /\ data[o].bytes > KeyBytes
    /\ \A o, p \in Offsets :
          data[p].key = data[o].key + 2 =>
             p = IF data[p].head THEN Aligned(After(o)) ELSE After(o)

\* The heads are the first keys of the blocks, in order, each at its block's offset or,
\* after an entry that is larger than a block, beyond it.
HeadsStartBlocks ==
    /\ \A k \in DOMAIN heads : \E o \in Offsets :
          data[o].head /\ data[o].key = heads[k] /\ B * (k - 1) <= o
    /\ \A o \in Offsets : data[o].head => \E k \in DOMAIN heads : data[o].key = heads[k]
    /\ \A j, k \in DOMAIN heads : j < k => heads[j] < heads[k]
    /\ n_strings > 0 =>
          /\ heads # <<>> /\ heads[1] = Key(1)
          /\ 0 \in Offsets /\ data[0].head /\ data[0].key = Key(1)
    /\ EntriesFit =>
          \A o \in Offsets, k \in DOMAIN heads :
             data[o].head /\ data[o].key = heads[k] => o = B * (k - 1)

\* Where the writer is.
Writing ==
    pc = "write" =>
       /\ \A o \in Offsets : After(o) <= tellp
       /\ n_strings = 0 => tellp = 0 /\ heads = <<>>
       /\ n_strings > 0 => \E o \in Offsets : data[o].key = Key(n_strings) /\ After(o) = tellp
       /\ heads # <<>> =>
             current_bytes > 0 /\ current_bytes <= tellp /\ (tellp - current_bytes) % B = 0
       /\ EntriesFit => tellp <= B * Len(heads)

\* What the constructor has read is so.
Loaded ==
    /\ pc # "write" => n_strings > 0
    /\ Reading =>
          /\ DOMAIN index_string = DOMAIN heads
          /\ \A k \in DOMAIN heads :
                /\ index_string[k].key = heads[k] /\ heads[k] = Key(index_string[k].index + 1)
                /\ B * (k - 1) \in Offsets /\ data[B * (k - 1)].head
                /\ data[B * (k - 1)].key = heads[k]

\* An iterator is at a datum, in its block, and ahead of it is the next one.
IsAt(r) ==
    /\ r.key = Key(r.index + 1)
    /\ \E o \in Offsets : data[o].key = Key(r.index + 1) /\ r.next = NextOffset(After(o))
    /\ r.block \in DOMAIN heads /\ heads[r.block] <= Key(r.index + 1)
    /\ r.block + 1 \in DOMAIN heads => Key(r.index + 1) < heads[r.block + 1]

OnDatum == AtDatum /\ it.index < n_strings => IsAt(it)

\* What is left to read, and what a search has left out.
Searching ==
    /\ pc = "iterate" => end_index = n_strings /\ it.index <= end_index
    /\ pc = "find" =>
          /\ it.index <= end_index /\ end_index <= n_strings
          /\ Key(it.index) < query
          /\ end_index < n_strings => query < Key(end_index + 1)

\* When the reader has left the map.
LeftMap ==
    /\ pc # "undefined" => query # 1
    /\ pc = "undefined" /\ EntriesFit => query = 1

IInv ==
    /\ Types /\ EntriesAreData /\ DataInBlocks /\ HeadsStartBlocks /\ Writing
    /\ Loaded /\ OnDatum /\ Searching /\ LeftMap /\ FindIsLookup

-----------------------------------------------------------------------------
(* The writer.                                                             *)

\* A writer with no entries.
LEMMA InitIInv == Init => IInv
<1> SUFFICES ASSUME Init PROVE IInv
  OBVIOUS
<1> USE DEF Init
<1>1. Offsets = {}
  BY DEF Offsets
<1>2. Types
  BY <1>1 DEF Types, AtDatum
<1>3. EntriesAreData /\ DataInBlocks
  BY <1>1 DEF EntriesAreData, DataInBlocks
<1>4. HeadsStartBlocks /\ Writing
  BY <1>1, DiskMapAssumption DEF HeadsStartBlocks, Writing
<1>5. Loaded /\ OnDatum /\ Searching /\ LeftMap /\ FindIsLookup
  BY DEF Loaded, OnDatum, Searching, LeftMap, FindIsLookup, AtDatum, Reading
<1> QED
  BY <1>2, <1>3, <1>4, <1>5 DEF IInv

\* A datum after those that are there, with the next key.
LEMMA Appended ==
    ASSUME IInv, pc = "write", NEW start \in Nat, tellp <= start, NEW d,
           d.key = Key(n_strings + 1), d.bytes \in Nat \ {0},
           Write(start, d), n_strings' = n_strings + 1
    PROVE  /\ Offsets' = Offsets \cup {start} /\ start \notin Offsets
           /\ data'[start] = d /\ \A o \in Offsets : data'[o] = data[o]
           /\ \A o \in Offsets : data[o].key < d.key /\ After(o) <= start
           /\ \A o \in Offsets : d.key = data[o].key + 2 => After(o) = tellp
           /\ EntriesAreData'
           /\ EntriesFit' => EntriesFit /\ d.bytes <= B
<1>1. /\ n_strings \in Nat /\ tellp \in Nat /\ Offsets \subseteq Nat
      /\ \A o \in Offsets : data[o].key \in Nat /\ data[o].bytes \in Nat \ {0}
  BY DEF IInv, Types
<1>2. \A o \in Offsets : After(o) <= start /\ o < After(o) /\ After(o) \in Nat
  <2> TAKE o \in Offsets
  <2>1. After(o) <= tellp
    BY DEF IInv, Writing
  <2>2. o \in Nat /\ data[o].bytes \in Nat \ {0}
    BY <1>1
  <2> QED
    BY <1>1, <2>1, <2>2 DEF After
<1>3. start \notin Offsets
  <2> SUFFICES ASSUME start \in Offsets PROVE FALSE
    OBVIOUS
  <2> QED
    BY <1>2
<1>4. /\ Offsets' = Offsets \cup {start}
      /\ data'[start] = d /\ \A o \in Offsets : data'[o] = data[o]
  BY <1>3 DEF Offsets, Write
<1>5. \A o \in Offsets : data[o].key < d.key
  <2> TAKE o \in Offsets
  <2>1. PICK i \in 1..n_strings : data[o].key = Key(i)
    BY DEF IInv, EntriesAreData
  <2> QED
    BY <1>1, <2>1 DEF Key
<1>6. ASSUME NEW o \in Offsets, d.key = data[o].key + 2
      PROVE  After(o) = tellp
  <2>1. PICK i \in 1..n_strings : data[o].key = Key(i)
    BY DEF IInv, EntriesAreData
  <2>2. i = n_strings
    BY <1>1, <1>6, <2>1 DEF Key
  <2>3. PICK p \in Offsets : data[p].key = Key(n_strings) /\ After(p) = tellp
    BY <1>1, <2>2 DEF IInv, Writing
  <2>4. p = o
    BY <2>1, <2>2, <2>3 DEF IInv, EntriesAreData
  <2> QED
    BY <2>3, <2>4
<1>7. EntriesAreData'
  <2>1. ASSUME NEW i \in 1..n_strings' PROVE \E o \in Offsets' : data'[o].key = Key(i)
    <3>1. CASE i = n_strings + 1
      BY <1>4, <3>1
    <3>2. CASE i # n_strings + 1
      <4>1. i \in 1..n_strings
        BY <1>1, <3>2
      <4>2. PICK o \in Offsets : data[o].key = Key(i)
        BY <4>1 DEF IInv, EntriesAreData
      <4> QED
        BY <1>4, <4>2
    <3> QED
      BY <3>1, <3>2
  <2>2. ASSUME NEW o \in Offsets' PROVE \E i \in 1..n_strings' : data'[o].key = Key(i)
    <3>1. CASE o = start
      BY <1>1, <1>4, <3>1
    <3>2. CASE o \in Offsets
      <4>1. PICK i \in 1..n_strings : data[o].key = Key(i)
        BY <3>2 DEF IInv, EntriesAreData
      <4> QED
        BY <1>1, <1>4, <3>2, <4>1
    <3> QED
      BY <1>4, <3>1, <3>2
  <2>3. ASSUME NEW o \in Offsets', NEW p \in Offsets', data'[o].key = data'[p].key
        PROVE  o = p
    <3>1. \A q \in Offsets : data[q].key \in Nat /\ data[q].key < d.key
      BY <1>1, <1>5
    <3>2. CASE o \in Offsets /\ p \in Offsets
      BY <1>4, <2>3, <3>2 DEF IInv, EntriesAreData
    <3>3. CASE o = start \/ p = start
      BY <1>4, <2>3, <3>1, <3>3
    <3> QED
      BY <1>4, <3>2, <3>3
  <2>4. ASSUME NEW o \in Offsets', NEW p \in Offsets', data'[o].key < data'[p].key
        PROVE  o + data'[o].bytes <= p
    <3>1. CASE o \in Offsets /\ p \in Offsets
      BY <1>4, <2>4, <3>1 DEF IInv, EntriesAreData, After
    <3>2. CASE o \in Offsets /\ p = start
      BY <1>2, <1>4, <3>2 DEF After
    <3>3. CASE o = start
      <4>1. d.key \in Nat /\ d.key < data'[p].key
        BY <1>1, <1>4, <2>4, <3>3 DEF Key
      <4>2. CASE p \in Offsets
        <5>1. data[p].key \in Nat /\ data[p].key < d.key /\ data'[p] = data[p]
          BY <1>1, <1>4, <1>5, <4>2
        <5> QED
          BY <4>1, <5>1
      <4>3. CASE p = start
        BY <1>4, <4>1, <4>3
      <4> QED
        BY <1>4, <4>2, <4>3
    <3> QED
      BY <1>4, <3>1, <3>2, <3>3
  <2> QED
    BY <2>1, <2>2, <2>3, <2>4 DEF EntriesAreData, After, Key, Offsets
<1>8. EntriesFit' => EntriesFit /\ d.bytes <= B
  BY <1>4 DEF EntriesFit, Offsets
<1> QED
  BY <1>2, <1>3, <1>4, <1>5, <1>6, <1>7, <1>8

\* A value takes a byte at least.
LEMMA BytesType ==
    ASSUME NEW bytes \in ValueBytes
    PROVE  /\ bytes \in Nat \ {0} /\ IndexBytes \in Nat \ {0} /\ KeyBytes \in Nat
           /\ IndexBytes + bytes \in Nat \ {0}
           /\ KeyBytes + bytes \in Nat \ {0} /\ KeyBytes + bytes > KeyBytes
<1>1. bytes \in Nat /\ bytes # 0 /\ KeyBytes \in Nat
  BY DiskMapAssumption
<1> QED
  BY <1>1 DEF IndexBytes

\* An entry that starts a block.
LEMMA NewBlockIsWritten ==
    ASSUME IInv, NEW bytes \in ValueBytes, Add(bytes), NewBlock(bytes)
    PROVE  EntriesAreData' /\ DataInBlocks' /\ HeadsStartBlocks' /\ Writing'
<1> DEFINE start == Aligned(tellp)
           d == [key |-> Key(n_strings + 1), head |-> TRUE,
                 b_i |-> n_strings, bytes |-> IndexBytes + bytes]
<1>1. /\ pc = "write" /\ pc' = pc /\ n_strings' = n_strings + 1 /\ n_strings \in Nat
      /\ tellp \in Nat /\ heads \in Seq(Nat) /\ B \in Nat /\ B > 0
      /\ heads' = Append(heads, d.key) /\ Write(start, d)
      /\ tellp' = start + d.bytes /\ current_bytes' = d.bytes
  <2>1. /\ pc = "write" /\ n_strings \in Nat /\ tellp \in Nat /\ heads \in Seq(Nat)
        /\ B \in Nat /\ B > 0
    BY DiskMapAssumption DEF Add, IInv, Types
  <2>2. pc' = pc /\ n_strings' = n_strings + 1
    BY DEF Add
  <2>3. d.key = Key(n_strings + 1) /\ d.bytes = IndexBytes + bytes
    OBVIOUS
  <2>4. heads' = Append(heads, d.key) /\ Write(start, d)
    BY <2>3 DEF NewBlock
  <2>5. tellp' = start + d.bytes /\ current_bytes' = d.bytes
    <3>1. tellp' = start + IndexBytes + bytes /\ current_bytes' = IndexBytes + bytes
      BY DEF NewBlock
    <3>2. start \in Nat
      BY <2>1, AlignedOffset
    <3> HIDE DEF start, d
    <3>3. start + IndexBytes + bytes = start + (IndexBytes + bytes)
      BY <3>2, BytesType
    <3> QED
      BY <2>3, <3>1, <3>3
  <2> QED
    BY <2>1, <2>2, <2>4, <2>5
<1>2. /\ d.key = Key(n_strings + 1) /\ d.key \in Nat /\ d.bytes \in Nat \ {0} /\ d.head
      /\ d.b_i = n_strings
  BY <1>1, BytesType DEF Key
<1>3. /\ start \in Nat /\ tellp <= start /\ start % B = 0
      /\ \A m \in Nat : tellp <= B * m => start <= B * m
      /\ \E m \in Nat : start = B * m
  BY <1>1, AlignedOffset
<1> HIDE DEF start, d
<1>4. /\ Offsets' = Offsets \cup {start} /\ start \notin Offsets
      /\ data'[start] = d /\ \A o \in Offsets : data'[o] = data[o]
      /\ \A o \in Offsets : data[o].key < d.key /\ After(o) <= start
      /\ \A o \in Offsets : d.key = data[o].key + 2 => After(o) = tellp
      /\ EntriesAreData'
      /\ EntriesFit' => EntriesFit /\ d.bytes <= B
  BY <1>1, <1>2, <1>3, Appended
<1>5. /\ Offsets \subseteq Nat
      /\ \A o \in Offsets : data[o].key \in Nat /\ data[o].head \in BOOLEAN
  BY DEF IInv, Types
<1>6. DataInBlocks'
  <2>1. ASSUME NEW o \in Offsets'
        PROVE  IF data'[o].head THEN o % B = 0 /\ data'[o].key = Key(data'[o].b_i + 1)
               ELSE o % B # 0 /\ (o % B) + data'[o].bytes <= B /\ data'[o].bytes > KeyBytes
    <3>1. CASE o = start
      BY <1>2, <1>3, <1>4, <3>1
    <3>2. CASE o \in Offsets
      BY <1>4, <3>2 DEF IInv, DataInBlocks
    <3> QED
      BY <1>4, <3>1, <3>2
  <2>2. ASSUME NEW o \in Offsets', NEW p \in Offsets', data'[p].key = data'[o].key + 2
        PROVE  p = IF data'[p].head THEN Aligned(o + data'[o].bytes) ELSE o + data'[o].bytes
    <3>1. CASE o \in Offsets /\ p \in Offsets
      BY <1>4, <2>2, <3>1 DEF IInv, DataInBlocks, After
    <3>2. CASE o \in Offsets /\ p = start
      <4>1. o + data'[o].bytes = tellp
        BY <1>4, <2>2, <3>2 DEF After
      <4> QED
        BY <1>2, <1>4, <3>2, <4>1 DEF start
    <3>3. CASE o = start
      <4>1. data'[p].key = d.key + 2 /\ data'[p].key <= d.key /\ data'[p].key \in Nat
        BY <1>2, <1>4, <1>5, <2>2, <3>3
      <4> QED
        BY <1>2, <4>1
    <3> QED
      BY <1>4, <3>1, <3>2, <3>3
  <2> QED
    BY <2>1, <2>2 DEF DataInBlocks, After, Aligned, Key, Offsets
<1>7. /\ Len(heads) \in Nat /\ DOMAIN heads = 1..Len(heads)
      /\ heads' \in Seq(Nat) /\ Len(heads') = Len(heads) + 1
      /\ DOMAIN heads' = 1..(Len(heads) + 1)
      /\ heads'[Len(heads) + 1] = d.key /\ heads' # <<>>
      /\ \A k \in DOMAIN heads : k \in DOMAIN heads' /\ heads'[k] = heads[k]
  BY <1>1, <1>2
<1>8. \A k \in DOMAIN heads : heads[k] < d.key
  <2> TAKE k \in DOMAIN heads
  <2>1. PICK o \in Offsets : data[o].key = heads[k]
    BY DEF IInv, HeadsStartBlocks
  <2> QED
    BY <1>4, <2>1
<1>9. B * Len(heads) <= start /\ (EntriesFit => start = B * Len(heads))
  <2>1. PICK m \in Nat : start = B * m
    BY <1>3
  <2>2. CASE heads = <<>>
    <3>1. n_strings = 0
      BY <1>1, <2>2 DEF IInv, HeadsStartBlocks
    <3>2. tellp = 0
      BY <1>1, <3>1 DEF IInv, Writing
    <3>3. Len(heads) = 0 /\ B * 0 = 0 /\ 0 \in Nat /\ tellp <= B * 0
      BY <1>1, <2>2, <3>2
    <3>4. start <= B * 0
      BY <1>3, <3>3
    <3> QED
      BY <1>3, <3>3, <3>4
  <2>3. CASE heads # <<>>
    <3> DEFINE l == Len(heads)
    <3>1. l \in DOMAIN heads /\ l - 1 \in Nat /\ l \in Nat
      BY <1>1, <1>7, <2>3
    <3>2. PICK o \in Offsets : B * (l - 1) <= o
      BY <3>1 DEF IInv, HeadsStartBlocks
    <3>3. data[o].bytes \in Nat \ {0} /\ o \in Nat
      BY <1>5 DEF IInv, Types
    <3>4. o < start
      BY <1>3, <1>4, <3>3 DEF After
    <3> HIDE DEF l
    <3>5. B * (l - 1) < B * m
      <4>1. B * (l - 1) \in Nat /\ B * m \in Nat
        BY <1>1, <3>1
      <4>2. B * m = start
        BY <2>1
      <4> QED
        BY <3>2, <3>3, <3>4, <4>1, <4>2
    <3>6. l - 1 < m
      BY <1>1, <3>1, <3>5, Products
    <3>7. l <= m
      BY <3>1, <3>6
    <3>8. l < m => B * l + B <= B * m
      BY <1>1, <3>1, Products
    <3>9. B * l \in Nat /\ B * m \in Nat
      BY <1>1, <3>1
    <3>10. B * l <= B * m
      BY <1>1, <3>1, <3>7, <3>8, <3>9
    <3>11. EntriesFit => tellp <= B * l
      BY <1>1 DEF IInv, Writing, l
    <3>12. EntriesFit => start <= B * l
      BY <1>3, <3>1, <3>11
    <3> QED
      BY <1>3, <2>1, <3>9, <3>10, <3>12 DEF l
  <2> QED
    BY <2>2, <2>3
<1>10. HeadsStartBlocks'
  <2>1. ASSUME NEW k \in DOMAIN heads'
        PROVE  \E o \in Offsets' :
                  data'[o].head /\ data'[o].key = heads'[k] /\ B * (k - 1) <= o
    <3>1. CASE k = Len(heads) + 1
      <4>1. B * (k - 1) <= start
        BY <1>7, <1>9, <3>1
      <4> QED
        BY <1>2, <1>4, <1>7, <3>1, <4>1
    <3>2. CASE k \in DOMAIN heads
      <4>1. PICK o \in Offsets : data[o].head /\ data[o].key = heads[k] /\ B * (k - 1) <= o
        BY <3>2 DEF IInv, HeadsStartBlocks
      <4> QED
        BY <1>4, <1>7, <3>2, <4>1
    <3> QED
      BY <1>7, <3>1, <3>2
  <2>2. ASSUME NEW o \in Offsets', data'[o].head
        PROVE  \E k \in DOMAIN heads' : data'[o].key = heads'[k]
    <3>1. CASE o = start
      BY <1>4, <1>7, <3>1
    <3>2. CASE o \in Offsets
      <4>1. PICK k \in DOMAIN heads : data[o].key = heads[k]
        BY <1>4, <2>2, <3>2 DEF IInv, HeadsStartBlocks
      <4> QED
        BY <1>4, <1>7, <3>2, <4>1
    <3> QED
      BY <1>4, <3>1, <3>2
  <2>3. ASSUME NEW j \in DOMAIN heads', NEW k \in DOMAIN heads', j < k
        PROVE  heads'[j] < heads'[k]
    <3>1. j \in DOMAIN heads
      BY <1>7, <2>3
    <3>2. CASE k \in DOMAIN heads
      <4>1. heads[j] < heads[k]
        BY <2>3, <3>1, <3>2 DEF IInv, HeadsStartBlocks
      <4> QED
        BY <1>7, <3>1, <3>2, <4>1
    <3>3. CASE k = Len(heads) + 1
      BY <1>7, <1>8, <3>1, <3>3
    <3> QED
      BY <1>7, <3>2, <3>3
  <2>4. /\ heads' # <<>> /\ heads'[1] = Key(1)
        /\ 0 \in Offsets' /\ data'[0].head /\ data'[0].key = Key(1)
    <3>1. CASE n_strings > 0
      <4>1. /\ heads # <<>> /\ heads[1] = Key(1)
            /\ 0 \in Offsets /\ data[0].head /\ data[0].key = Key(1)
        BY <3>1 DEF IInv, HeadsStartBlocks
      <4>2. 1 \in DOMAIN heads
        BY <1>1, <1>7, <4>1
      <4> QED
        BY <1>4, <1>7, <4>1, <4>2
    <3>2. CASE n_strings = 0
      <4>1. heads = <<>>
        BY <1>1, <3>2 DEF IInv, Writing
      <4>2. Len(heads) + 1 = 1
        BY <4>1
      <4>3. d.key = Key(1)
        BY <1>2, <3>2
      <4>4. tellp = 0 /\ 0 \in Nat /\ 0 % B = 0
        BY <1>1, <3>2 DEF IInv, Writing
      <4>5. start = 0
        BY <4>4, AlignedOffset DEF start
      <4> QED
        BY <1>2, <1>4, <1>7, <4>2, <4>3, <4>5
    <3> QED
      BY <1>1, <3>1, <3>2
  <2>5. ASSUME EntriesFit', NEW o \in Offsets', NEW k \in DOMAIN heads',
               data'[o].head, data'[o].key = heads'[k]
        PROVE  o = B * (k - 1)
    <3>1. CASE o = start
      <4>1. k = Len(heads) + 1
        BY <1>2, <1>4, <1>7, <1>8, <2>5, <3>1
      <4> QED
        BY <1>4, <1>7, <1>9, <2>5, <3>1, <4>1
    <3>2. CASE o \in Offsets
      <4>1. k \in DOMAIN heads
        BY <1>2, <1>4, <1>5, <1>7, <2>5, <3>2
      <4> QED
        BY <1>4, <1>7, <2>5, <3>2, <4>1 DEF IInv, HeadsStartBlocks
    <3> QED
      BY <1>4, <3>1, <3>2
  <2> QED
    BY <2>1, <2>2, <2>3, <2>4, <2>5 DEF HeadsStartBlocks, Offsets, Key
<1>11. Writing'
  <2>1. /\ start \in Nat /\ tellp \in Nat /\ tellp <= start
        /\ d.bytes \in Nat /\ d.bytes > 0
        /\ tellp' = start + d.bytes /\ current_bytes' = d.bytes
    BY <1>1, <1>2, <1>3
  <2>2. \A o \in Offsets' : o + data'[o].bytes <= tellp'
    <3> TAKE o \in Offsets'
    <3>1. CASE o = start
      BY <1>4, <2>1, <3>1
    <3>2. CASE o \in Offsets
      <4>1. o + data[o].bytes <= start /\ data[o].bytes \in Nat /\ o \in Nat
        BY <1>4, <1>5, <3>2 DEF IInv, Types, After
      <4>2. o + data'[o].bytes <= start /\ o + data'[o].bytes \in Nat
        BY <1>4, <3>2, <4>1
      <4>3. start <= tellp' /\ tellp' \in Nat
        BY <2>1
      <4> QED
        BY <2>1, <4>2, <4>3
    <3> QED
      BY <1>4, <3>1, <3>2
  <2>3. \E o \in Offsets' :
           data'[o].key = Key(n_strings + 1) /\ o + data'[o].bytes = tellp'
    BY <1>1, <1>2, <1>3, <1>4
  <2>4. /\ current_bytes' > 0 /\ current_bytes' <= tellp'
        /\ tellp' - current_bytes' = start
    BY <2>1
  <2>5. EntriesFit' => tellp' <= B * Len(heads')
    <3> HAVE EntriesFit'
    <3>1. start = B * Len(heads) /\ d.bytes <= B
      BY <1>4, <1>9
    <3>2. B * (Len(heads) + 1) = B * Len(heads) + B /\ B * Len(heads) \in Nat
      BY <1>1, <1>7
    <3> QED
      BY <1>1, <1>2, <1>7, <3>1, <3>2
  <2>6. n_strings' = n_strings + 1 /\ n_strings' > 0
    BY <1>1
  <2>7. (tellp' - current_bytes') % B = 0
    BY <1>3, <2>4
  <2>8. \E o \in Offsets' : (data'[o].key = Key(n_strings') /\ o + data'[o].bytes = tellp')
    BY <2>3, <2>6
  <2>9. n_strings' # 0
    BY <1>1
  <2> QED
    BY <2>2, <2>4, <2>5, <2>7, <2>8, <2>9 DEF Writing, After, Offsets, Key
<1> QED
  BY <1>4, <1>6, <1>10, <1>11

\* An entry in the block of the one before.
LEMMA SameBlockIsWritten ==
    ASSUME IInv, NEW bytes \in ValueBytes, Add(bytes), Fits(bytes), SameBlock(bytes)
    PROVE  EntriesAreData' /\ DataInBlocks' /\ HeadsStartBlocks' /\ Writing'
<1> DEFINE d == [key |-> Key(n_strings + 1), head |-> FALSE, bytes |-> KeyBytes + bytes]
           q == (tellp - current_bytes) \div B
<1>1. /\ pc = "write" /\ n_strings \in Nat /\ tellp \in Nat /\ current_bytes \in Nat
      /\ heads \in Seq(Nat) /\ B \in Nat /\ B > 0
  BY DiskMapAssumption DEF Add, IInv, Types
<1>2. /\ d.key = Key(n_strings + 1) /\ d.key \in Nat /\ d.bytes = KeyBytes + bytes
      /\ d.bytes \in Nat \ {0} /\ d.bytes > KeyBytes /\ ~d.head
  BY <1>1, BytesType DEF Key
<1>3. pc' = pc /\ n_strings' = n_strings + 1 /\ heads' = heads /\ Write(tellp, d)
  BY DEF Add, SameBlock
<1>4. /\ tellp' = tellp + d.bytes /\ current_bytes' = current_bytes + d.bytes
      /\ heads # <<>> /\ current_bytes + d.bytes <= B
  <2>1. /\ tellp' = tellp + KeyBytes + bytes
        /\ current_bytes' = current_bytes + KeyBytes + bytes
        /\ heads # <<>> /\ current_bytes + KeyBytes + bytes <= B
    BY DEF SameBlock, Fits
  <2>2. bytes \in Nat /\ KeyBytes \in Nat
    BY BytesType
  <2> HIDE DEF d
  <2> QED
    BY <1>1, <1>2, <2>1, <2>2
<1> HIDE DEF d
<1>5. /\ Offsets' = Offsets \cup {tellp} /\ tellp \notin Offsets
      /\ data'[tellp] = d /\ \A o \in Offsets : data'[o] = data[o]
      /\ \A o \in Offsets : data[o].key < d.key /\ After(o) <= tellp
      /\ \A o \in Offsets : d.key = data[o].key + 2 => After(o) = tellp
      /\ EntriesAreData'
      /\ EntriesFit' => EntriesFit /\ d.bytes <= B
  BY <1>1, <1>2, <1>3, Appended
<1>6. /\ Offsets \subseteq Nat
      /\ \A o \in Offsets : data[o].key \in Nat /\ data[o].bytes \in Nat
                            /\ data[o].head \in BOOLEAN
  BY DEF IInv, Types
<1>7. current_bytes > 0 /\ current_bytes <= tellp /\ (tellp - current_bytes) % B = 0
  BY <1>1, <1>4 DEF IInv, Writing
<1>8. q \in Nat /\ B * q \in Nat /\ tellp = B * q + current_bytes
  <2>1. tellp - current_bytes \in Nat
    BY <1>1, <1>7
  <2>2. q \in Nat /\ tellp - current_bytes = B * q + 0
    BY <1>7, <2>1, Blocks
  <2> HIDE DEF q
  <2> QED
    BY <1>1, <2>2
<1> HIDE DEF q
<1>9. current_bytes < B
  BY <1>1, <1>2, <1>4
<1>10. tellp % B = current_bytes
  BY <1>1, <1>8, <1>9, Multiples
<1>11. DataInBlocks'
  <2>1. ASSUME NEW o \in Offsets'
        PROVE  IF data'[o].head THEN o % B = 0 /\ data'[o].key = Key(data'[o].b_i + 1)
               ELSE o % B # 0 /\ (o % B) + data'[o].bytes <= B /\ data'[o].bytes > KeyBytes
    <3>1. CASE o = tellp
      <4>1. tellp % B # 0 /\ (tellp % B) + d.bytes <= B
        BY <1>4, <1>7, <1>10
      <4> QED
        BY <1>2, <1>5, <3>1, <4>1
    <3>2. CASE o \in Offsets
      BY <1>5, <3>2 DEF IInv, DataInBlocks
    <3> QED
      BY <1>5, <3>1, <3>2
  <2>2. ASSUME NEW o \in Offsets', NEW p \in Offsets', data'[p].key = data'[o].key + 2
        PROVE  p = IF data'[p].head THEN Aligned(o + data'[o].bytes) ELSE o + data'[o].bytes
    <3>1. CASE o \in Offsets /\ p \in Offsets
      BY <1>5, <2>2, <3>1 DEF IInv, DataInBlocks, After
    <3>2. CASE o \in Offsets /\ p = tellp
      <4>1. o + data'[o].bytes = tellp
        BY <1>5, <2>2, <3>2 DEF After
      <4> QED
        BY <1>2, <1>5, <3>2, <4>1
    <3>3. CASE o = tellp
      <4>1. data'[p].key = d.key + 2 /\ data'[p].key <= d.key /\ data'[p].key \in Nat
        BY <1>2, <1>5, <1>6, <2>2, <3>3
      <4> QED
        BY <1>2, <4>1
    <3> QED
      BY <1>5, <3>1, <3>2, <3>3
  <2> QED
    BY <2>1, <2>2 DEF DataInBlocks, After, Aligned, Key, Offsets
<1>12. HeadsStartBlocks'
  <2>1. ASSUME NEW k \in DOMAIN heads
        PROVE  \E o \in Offsets' : data'[o].head /\ data'[o].key = heads[k] /\ B * (k - 1) <= o
    <3>1. PICK o \in Offsets : data[o].head /\ data[o].key = heads[k] /\ B * (k - 1) <= o
      BY DEF IInv, HeadsStartBlocks
    <3> QED
      BY <1>5, <3>1
  <2>2. ASSUME NEW o \in Offsets', data'[o].head
        PROVE  o \in Offsets /\ data[o].head /\ data'[o] = data[o]
    BY <1>2, <1>5, <2>2
  <2>3. ASSUME NEW o \in Offsets', data'[o].head
        PROVE  \E k \in DOMAIN heads : data'[o].key = heads[k]
    BY <2>2, <2>3 DEF IInv, HeadsStartBlocks
  <2>4. /\ heads # <<>> /\ heads[1] = Key(1)
        /\ 0 \in Offsets' /\ data'[0].head /\ data'[0].key = Key(1)
    <3>1. n_strings > 0
      BY <1>1, <1>4 DEF IInv, Writing
    <3>2. /\ heads # <<>> /\ heads[1] = Key(1)
          /\ 0 \in Offsets /\ data[0].head /\ data[0].key = Key(1)
      BY <3>1 DEF IInv, HeadsStartBlocks
    <3> QED
      BY <1>5, <3>2
  <2>5. ASSUME EntriesFit', NEW o \in Offsets', NEW k \in DOMAIN heads,
               data'[o].head, data'[o].key = heads[k]
        PROVE  o = B * (k - 1)
    BY <1>5, <2>2, <2>5 DEF IInv, HeadsStartBlocks
  <2>6. \A j, k \in DOMAIN heads : j < k => heads[j] < heads[k]
    BY DEF IInv, HeadsStartBlocks
  <2> QED
    BY <1>3, <2>1, <2>3, <2>4, <2>5, <2>6 DEF HeadsStartBlocks, Offsets, Key
<1>13. Writing'
  <2>1. d.bytes \in Nat /\ d.bytes > 0
    BY <1>2
  <2>2. \A o \in Offsets' : o + data'[o].bytes <= tellp'
    <3> TAKE o \in Offsets'
    <3>1. CASE o = tellp
      BY <1>1, <1>4, <1>5, <2>1, <3>1
    <3>2. CASE o \in Offsets
      <4>1. o + data[o].bytes <= tellp /\ data[o].bytes \in Nat /\ o \in Nat
        BY <1>5, <1>6, <3>2 DEF After
      <4>2. o + data'[o].bytes <= tellp /\ o + data'[o].bytes \in Nat
        BY <1>5, <3>2, <4>1
      <4>3. tellp <= tellp' /\ tellp' \in Nat
        BY <1>1, <1>4, <2>1
      <4> QED
        BY <1>1, <4>2, <4>3
    <3> QED
      BY <1>5, <3>1, <3>2
  <2>3. n_strings' = n_strings + 1 /\ n_strings' > 0 /\ n_strings' # 0
    BY <1>1, <1>3
  <2>4. \E o \in Offsets' : data'[o].key = Key(n_strings') /\ o + data'[o].bytes = tellp'
    BY <1>2, <1>4, <1>5, <2>3
  <2>5. /\ current_bytes' > 0 /\ current_bytes' <= tellp'
        /\ tellp' - current_bytes' = tellp - current_bytes
    <3>1. /\ tellp \in Nat /\ current_bytes \in Nat
          /\ current_bytes > 0 /\ current_bytes <= tellp
          /\ tellp' = tellp + d.bytes /\ current_bytes' = current_bytes + d.bytes
      BY <1>1, <1>4, <1>7
    <3> QED
      BY ONLY <2>1, <3>1
  <2>6. (tellp' - current_bytes') % B = 0
    BY <1>7, <2>5
  <2>7. EntriesFit' => tellp' <= B * Len(heads)
    <3> HAVE EntriesFit'
    <3>1. tellp <= B * Len(heads) /\ Len(heads) \in Nat
      BY <1>1, <1>5 DEF IInv, Writing
    <3>2. B * Len(heads) \in Nat
      BY <1>1, <3>1
    <3>3. B * q < B * Len(heads)
      BY <1>1, <1>7, <1>8, <3>1, <3>2
    <3>4. B * q + B <= B * Len(heads)
      BY <1>1, <1>8, <3>1, <3>3, Products
    <3>5. tellp' = B * q + (current_bytes + d.bytes)
      BY <1>1, <1>4, <1>8, <2>1
    <3>6. current_bytes + d.bytes \in Nat
      BY <1>1, <2>1
    <3> QED
      BY <1>1, <1>4, <1>8, <3>2, <3>4, <3>5, <3>6
  <2> QED
    BY <1>3, <2>2, <2>3, <2>4, <2>5, <2>6, <2>7 DEF Writing, After, Offsets, Key
<1> QED
  BY <1>5, <1>11, <1>12, <1>13

\* add writes one entry, in the last block or in a new one.
LEMMA AddKeepsIInv == ASSUME IInv, NEW bytes \in ValueBytes, Add(bytes) PROVE IInv'
<1>1. /\ pc = "write" /\ pc' = "write" /\ n_strings' = n_strings + 1
      /\ UNCHANGED <<index_string, it, end_index, query, result>>
  BY DEF Add, readerVars
<1>2. EntriesAreData' /\ DataInBlocks' /\ HeadsStartBlocks' /\ Writing'
  <2>1. CASE Fits(bytes)
    <3>1. SameBlock(bytes)
      BY <2>1 DEF Add
    <3> QED
      BY <2>1, <3>1, SameBlockIsWritten
  <2>2. CASE ~Fits(bytes)
    <3>1. NewBlock(bytes)
      BY <2>2 DEF Add
    <3> QED
      BY <3>1, NewBlockIsWritten
  <2> QED
    BY <2>1, <2>2
<1>3. Types'
  <2>1. heads' \in Seq(Nat) /\ current_bytes' \in Nat /\ tellp' \in Nat
    <3>1. /\ heads \in Seq(Nat) /\ current_bytes \in Nat /\ n_strings \in Nat
          /\ tellp \in Nat
      BY DEF IInv, Types
    <3>2. Aligned(tellp) \in Nat
      BY <3>1, AlignedOffset
    <3>3. bytes \in Nat /\ IndexBytes \in Nat /\ KeyBytes \in Nat
      BY BytesType
    <3>4. CASE NewBlock(bytes)
      BY <3>1, <3>2, <3>3, <3>4 DEF NewBlock, Key
    <3>5. CASE SameBlock(bytes)
      BY <3>1, <3>3, <3>5 DEF SameBlock
    <3> QED
      BY <3>4, <3>5 DEF Add
  <2> DEFINE Typed(d) == /\ d.key \in Nat /\ d.head \in BOOLEAN
                         /\ d.bytes \in Nat \ {0} /\ (d.head => d.b_i \in Nat)
  <2>2. \E start \in Nat : \E d : Write(start, d) /\ Typed(d)
    <3>1. n_strings \in Nat /\ tellp \in Nat /\ Key(n_strings + 1) \in Nat
      BY DEF IInv, Types, Key
    <3>2. CASE NewBlock(bytes)
      <4>1. Aligned(tellp) \in Nat
        BY <3>1, AlignedOffset
      <4> DEFINE e == [key |-> Key(n_strings + 1), head |-> TRUE,
                       b_i |-> n_strings, bytes |-> IndexBytes + bytes]
      <4>2. Write(Aligned(tellp), e)
        BY <3>2 DEF NewBlock
      <4>3. Typed(e)
        BY <3>1, BytesType
      <4> HIDE DEF e, Typed
      <4> QED
        BY <4>1, <4>2, <4>3
    <3>3. CASE SameBlock(bytes)
      <4> DEFINE e == [key |-> Key(n_strings + 1), head |-> FALSE, bytes |-> KeyBytes + bytes]
      <4>1. Write(tellp, e)
        BY <3>3 DEF SameBlock
      <4>2. Typed(e)
        BY <3>1, BytesType
      <4> HIDE DEF e, Typed
      <4> QED
        BY <3>1, <4>1, <4>2
    <3> QED
      BY <3>2, <3>3 DEF Add
  <2>3. PICK start \in Nat : \E d : Write(start, d) /\ Typed(d)
    BY <2>2
  <2>4. PICK d : Write(start, d) /\ Typed(d)
    BY <2>3
  <2>5. /\ Offsets' = Offsets \cup {start} /\ data'[start] = d
        /\ \A o \in Offsets : o # start => data'[o] = data[o]
    BY <2>4 DEF Write, Offsets
  <2>6. \A o \in Offsets' :
           /\ data'[o].key \in Nat /\ data'[o].head \in BOOLEAN
           /\ data'[o].bytes \in Nat \ {0} /\ (data'[o].head => data'[o].b_i \in Nat)
    <3> TAKE o \in Offsets'
    <3>1. CASE o = start
      BY <2>4, <2>5, <3>1
    <3>2. CASE o # start
      BY <2>5, <3>2 DEF IInv, Types
    <3> QED
      BY <3>1, <3>2
  <2>7. Offsets' \subseteq Nat /\ n_strings' \in Nat
    BY <1>1, <2>5 DEF IInv, Types
  <2> QED
    BY <1>1, <2>1, <2>6, <2>7 DEF IInv, Types, AtDatum, Offsets
<1>4. Loaded' /\ OnDatum' /\ Searching' /\ LeftMap' /\ FindIsLookup'
  BY <1>1 DEF IInv, Loaded, OnDatum, Searching, LeftMap, FindIsLookup, AtDatum, Reading
<1> QED
  BY <1>2, <1>3, <1>4 DEF IInv

\* finalize moves the stream only.
LEMMA FinalizeKeepsIInv == ASSUME IInv, Finalize PROVE IInv'
<1>1. /\ pc = "write" /\ pc' = "load" /\ n_strings > 0
      /\ UNCHANGED <<heads, current_bytes, n_strings, data>>
      /\ UNCHANGED <<index_string, it, end_index, query, result>>
  BY DEF Finalize, readerVars
<1>2. tellp' \in Nat
  BY AlignedOffset DEF Finalize, IInv, Types
<1>3. Types'
  BY <1>1, <1>2 DEF IInv, Types, AtDatum, Offsets
<1>4. EntriesAreData' /\ DataInBlocks' /\ HeadsStartBlocks' /\ Writing'
  BY <1>1 DEF IInv, EntriesAreData, DataInBlocks, HeadsStartBlocks, Writing, EntriesFit,
              Offsets, After, Aligned, Key
<1>5. Loaded' /\ OnDatum' /\ Searching' /\ LeftMap' /\ FindIsLookup'
  BY <1>1 DEF IInv, Loaded, OnDatum, Searching, LeftMap, FindIsLookup, AtDatum, Reading
<1> QED
  BY <1>3, <1>4, <1>5 DEF IInv

-----------------------------------------------------------------------------
(* The reader.                                                             *)

\* What is written stays so.
LEMMA WriterStays ==
    ASSUME IInv, UNCHANGED writerVars, pc' # "write"
    PROVE  /\ EntriesAreData' /\ DataInBlocks' /\ HeadsStartBlocks' /\ Writing'
           /\ EntriesFit' = EntriesFit /\ Offsets' = Offsets /\ Keys' = Keys
<1>1. UNCHANGED <<heads, current_bytes, n_strings, tellp, data>>
  BY DEF writerVars
<1> QED
  BY <1>1 DEF IInv, EntriesAreData, DataInBlocks, HeadsStartBlocks, Writing, EntriesFit,
              Offsets, After, Aligned, Key, Keys

\* When a block starts at each place where one can, these are the blocks of the heads:
\* an entry that is larger than a block does not move the heads to others' blocks.
LEMMA BlocksAreHeads ==
    ASSUME IInv, \A k \in 2..Len(heads) : StartsBlock(B * (k - 1)), n_strings > 0
    PROVE  \A k \in DOMAIN heads :
              /\ B * (k - 1) \in Offsets /\ data[B * (k - 1)].head
              /\ data[B * (k - 1)].key = heads[k]
<1>1. /\ heads \in Seq(Nat) /\ Len(heads) \in Nat /\ DOMAIN heads = 1..Len(heads)
      /\ B \in Nat /\ B > 0
      /\ Offsets \subseteq Nat
  BY DiskMapAssumption DEF IInv, Types
<1>2. \A k \in DOMAIN heads : B * (k - 1) \in Offsets /\ data[B * (k - 1)].head
  <2> TAKE k \in DOMAIN heads
  <2>1. CASE k = 1
    <3>1. 0 \in Offsets /\ data[0].head
      BY DEF IInv, HeadsStartBlocks
    <3>2. B * (k - 1) = 0
      BY <1>1, <2>1
    <3> QED
      BY <3>1, <3>2
  <2>2. CASE k # 1
    BY <1>1, <2>2 DEF StartsBlock, Offsets
  <2> QED
    BY <2>1, <2>2
<1> DEFINE Wrong == {k \in DOMAIN heads : data[B * (k - 1)].key # heads[k]}
<1>3. SUFFICES ASSUME Wrong # {} PROVE FALSE
  BY <1>2
<1> DEFINE k == Min(Wrong)
<1>4. k \in Wrong /\ \A j \in Wrong : k <= j
  <2>1. Wrong \subseteq Nat
    BY <1>1
  <2> HIDE DEF Wrong
  <2> QED
    BY <1>3, <2>1, MinIsLeast
<1>5. PICK j \in DOMAIN heads : data[B * (k - 1)].key = heads[j]
  BY <1>2, <1>4 DEF IInv, HeadsStartBlocks
<1>6. PICK o \in Offsets : data[o].key = heads[j] /\ B * (j - 1) <= o
  BY <1>5 DEF IInv, HeadsStartBlocks
<1>7. o = B * (k - 1)
  BY <1>2, <1>4, <1>5, <1>6 DEF IInv, EntriesAreData
<1>8. j - 1 \in Nat /\ k - 1 \in Nat /\ j # k /\ j \in Nat /\ k \in Nat
  <2>1. j \in 1..Len(heads) /\ k \in 1..Len(heads)
    BY <1>1, <1>4, <1>5
  <2>2. j # k
    BY <1>4, <1>5
  <2> HIDE DEF k
  <2> QED
    BY <1>1, <2>1, <2>2
<1> HIDE DEF k
<1>9. j <= k
  <2>1. k - 1 < j - 1 => B * (k - 1) + B <= B * (j - 1)
    BY <1>1, <1>8, Products
  <2>2. B * (k - 1) \in Nat /\ B * (j - 1) \in Nat
    BY <1>1, <1>8
  <2> QED
    BY <1>1, <1>6, <1>7, <1>8, <2>1, <2>2
<1>10. j \notin Wrong
  BY <1>4, <1>8, <1>9
<1>11. data[B * (j - 1)].key = heads[j]
  BY <1>5, <1>10
<1>12. B * (j - 1) = B * (k - 1)
  BY <1>2, <1>4, <1>5, <1>11 DEF IInv, EntriesAreData
<1>13. j - 1 = k - 1
  BY <1>1, <1>8, <1>12, Products
<1> QED
  BY <1>8, <1>13

\* What the constructor reads is so, or an entry is larger than a block.
LEMMA LoadKeepsIInv == ASSUME IInv, Load PROVE IInv'
<1>1. /\ pc = "load" /\ pc' \in {"ready", "undefined"}
      /\ UNCHANGED writerVars /\ UNCHANGED <<it, end_index, query, result>>
  BY DEF Load
<1>2. /\ heads \in Seq(Nat) /\ Len(heads) \in Nat /\ DOMAIN heads = 1..Len(heads)
      /\ B \in Nat /\ B > 0 /\ n_strings > 0
  BY <1>1, DiskMapAssumption DEF IInv, Types, Loaded
<1>3. /\ EntriesAreData' /\ DataInBlocks' /\ HeadsStartBlocks' /\ Writing'
      /\ EntriesFit' = EntriesFit /\ Offsets' = Offsets
  BY <1>1, WriterStays
<1>4. UNCHANGED <<heads, current_bytes, n_strings, tellp, data>>
  BY <1>1 DEF writerVars
<1>5. CASE \A k \in 2..Len(heads) : StartsBlock(B * (k - 1))
  <2>1. /\ pc' = "ready"
        /\ index_string' = [k \in DOMAIN heads |->
              [key |-> heads[k], index |-> IF k = 1 THEN 0 ELSE data[B * (k - 1)].b_i]]
    BY <1>5 DEF Load
  <2>2. \A k \in DOMAIN heads :
           /\ B * (k - 1) \in Offsets /\ data[B * (k - 1)].head
           /\ data[B * (k - 1)].key = heads[k]
    BY <1>2, <1>5, BlocksAreHeads
  <2>3. ASSUME NEW k \in DOMAIN heads
        PROVE  /\ index_string'[k] \in [key : Nat, index : Nat]
               /\ index_string'[k].key = heads[k]
               /\ heads[k] = Key(index_string'[k].index + 1)
    <3>1. CASE k = 1
      <4>1. heads[1] = Key(1)
        BY <1>2 DEF IInv, HeadsStartBlocks
      <4>2. index_string'[k].key = heads[k] /\ index_string'[k].index = 0
        BY <2>1, <3>1
      <4>3. heads[k] \in Nat
        BY <1>2
      <4> QED
        BY <2>1, <3>1, <4>1, <4>2, <4>3
    <3>2. CASE k # 1
      <4>1. /\ data[B * (k - 1)].b_i \in Nat
            /\ heads[k] = Key(data[B * (k - 1)].b_i + 1)
        BY <2>2 DEF IInv, Types, DataInBlocks
      <4> QED
        BY <1>2, <2>1, <3>2, <4>1
    <3> QED
      BY <3>1, <3>2
  <2>4. index_string' \in Seq([key : Nat, index : Nat]) /\ DOMAIN index_string' = DOMAIN heads
    <3> DEFINE Entry == [key : Nat, index : Nat]
    <3>1. \A k \in DOMAIN heads : index_string'[k] \in Entry
      BY <2>3
    <3> HIDE DEF Entry
    <3>2. /\ DOMAIN index_string' = DOMAIN heads
          /\ index_string' = [k \in DOMAIN heads |-> index_string'[k]]
      BY <2>1
    <3>3. index_string' \in [1..Len(heads) -> Entry]
      BY <1>2, <3>1, <3>2
    <3>4. index_string' \in Seq(Entry)
      BY <1>2, <3>3
    <3> QED
      BY <3>2, <3>4 DEF Entry
  <2>5. Types'
    BY <1>1, <1>3, <1>4, <2>1, <2>4 DEF IInv, Types, AtDatum
  <2>6. Loaded'
    BY <1>2, <1>3, <1>4, <2>2, <2>3, <2>4 DEF Loaded, Reading, AtDatum, Key
  <2>7. OnDatum' /\ Searching' /\ LeftMap' /\ FindIsLookup'
    BY <1>1, <2>1 DEF IInv, OnDatum, Searching, LeftMap, FindIsLookup, AtDatum
  <2> QED
    BY <1>3, <2>5, <2>6, <2>7 DEF IInv
<1>6. CASE ~\A k \in 2..Len(heads) : StartsBlock(B * (k - 1))
  <2>1. pc' = "undefined" /\ UNCHANGED index_string
    BY <1>6 DEF Load
  <2>2. ~EntriesFit
    <3> SUFFICES ASSUME EntriesFit, NEW k \in 2..Len(heads)
                 PROVE  StartsBlock(B * (k - 1))
      BY <1>6
    <3>1. k \in DOMAIN heads
      BY <1>2
    <3>2. PICK o \in Offsets : data[o].head /\ data[o].key = heads[k]
      BY <3>1 DEF IInv, HeadsStartBlocks
    <3>3. o = B * (k - 1)
      BY <3>1, <3>2 DEF IInv, HeadsStartBlocks
    <3> QED
      BY <3>2, <3>3 DEF StartsBlock, Offsets
  <2>3. Types'
    BY <1>1, <1>3, <1>4, <2>1 DEF IInv, Types, AtDatum
  <2>4. Loaded' /\ OnDatum' /\ Searching' /\ LeftMap' /\ FindIsLookup'
    BY <1>2, <1>3, <1>4, <2>1, <2>2
       DEF Loaded, OnDatum, Searching, LeftMap, FindIsLookup, AtDatum, Reading
  <2> QED
    BY <1>3, <2>3, <2>4 DEF IInv
<1> QED
  BY <1>5, <1>6

\* After a datum, and the bytes that are left over in its block, comes the next one: bytes
\* that are worth a look and are not zeros are a datum.
LEMMA NextDatum ==
    ASSUME IInv, NEW o \in Offsets, NEW i \in Nat, i < n_strings, data[o].key = Key(i)
    PROVE  /\ NextOffset(After(o)) \in Offsets
           /\ data[NextOffset(After(o))].key = Key(i + 1)
<1> DEFINE e == After(o)
<1>1. /\ Offsets \subseteq Nat /\ B \in Nat /\ B > 3 /\ KeyBytes \in Nat /\ KeyBytes >= 3
      /\ n_strings \in Nat
      /\ \A q \in Offsets : data[q].key \in Nat /\ data[q].head \in BOOLEAN
                            /\ data[q].bytes \in Nat /\ data[q].bytes > 0
  BY DiskMapAssumption DEF IInv, Types
<1>2. i + 1 \in 1..n_strings
  BY <1>1
<1>3. PICK p \in Offsets : data[p].key = Key(i + 1)
  BY <1>2 DEF IInv, EntriesAreData
<1>4. data[p].key = data[o].key + 2
  BY <1>3 DEF Key
<1>5. p = IF data[p].head THEN Aligned(e) ELSE e
  BY <1>4 DEF IInv, DataInBlocks
<1>6. e \in Nat /\ o < e
  BY <1>1 DEF After
<1>7. e % B \in Nat /\ e % B < B
  BY <1>6, Blocks
<1> HIDE DEF e
<1>8. CASE ~data[p].head
  <2>1. p = e /\ e % B # 0 /\ (e % B) + data[p].bytes <= B /\ data[p].bytes > KeyBytes
    BY <1>5, <1>8 DEF IInv, DataInBlocks
  <2>2. ~((e % B) + 2 >= B)
    BY <1>1, <1>7, <2>1
  <2>3. e \in DOMAIN data
    BY <2>1 DEF Offsets
  <2>4. NextOffset(e) = e
    BY <2>2, <2>3 DEF NextOffset, Padding
  <2> QED
    BY <1>3, <2>1, <2>4 DEF e
<1>9. CASE data[p].head
  <2>1. p = Aligned(e) /\ p % B = 0 /\ e <= p
    BY <1>5, <1>6, <1>9, AlignedOffset DEF IInv, DataInBlocks
  <2>2. CASE e % B = 0
    <3>1. Aligned(e) = e /\ NextOffset(e) = e
      BY <1>6, <2>2, AlignedOffset DEF NextOffset, Padding
    <3> QED
      BY <1>3, <2>1, <3>1 DEF e
  <2>3. CASE e % B # 0
    <3>1. e \notin Offsets
      <4> SUFFICES ASSUME e \in Offsets PROVE FALSE
        OBVIOUS
      <4>1. data[e].key # data[o].key /\ ~(data[e].key < data[o].key)
        <5>1. e # o /\ ~(After(e) <= o)
          BY <1>1, <1>6 DEF After
        <5> QED
          BY <5>1 DEF IInv, EntriesAreData
      <4>2. data[e].key # data[p].key
        BY <2>1, <2>3 DEF IInv, EntriesAreData
      <4>3. PICK j \in 1..n_strings : data[e].key = Key(j)
        BY DEF IInv, EntriesAreData
      <4>4. data[p].key < data[e].key
        BY <1>1, <1>3, <4>1, <4>2, <4>3 DEF Key
      <4>5. After(p) <= e
        BY <4>4 DEF IInv, EntriesAreData
      <4> QED
        BY <1>1, <1>6, <2>1, <4>5 DEF After
    <3>2. NextOffset(e) = Aligned(e)
      BY <2>3, <3>1 DEF NextOffset, Padding, Offsets
    <3> QED
      BY <1>3, <2>1, <3>2 DEF e
  <2> QED
    BY <2>2, <2>3
<1> QED
  BY <1>1, <1>8, <1>9

\* The iterator that the index of a block's first datum gives.
LEMMA AtBlockIsAt ==
    ASSUME IInv, Reading, NEW k \in DOMAIN heads
    PROVE  /\ AtBlock(k) \in Iterator /\ IsAt(AtBlock(k))
           /\ AtBlock(k).index = index_string[k].index
           /\ AtBlock(k).index \in 0..(n_strings - 1)
           /\ heads[k] = Key(AtBlock(k).index + 1)
<1> DEFINE o == B * (k - 1)
           i == index_string[k].index
<1>1. /\ heads \in Seq(Nat) /\ DOMAIN heads = 1..Len(heads) /\ Len(heads) \in Nat
      /\ k \in Nat /\ k - 1 \in Nat /\ k = (k - 1) + 1 /\ heads[k] \in Nat
      /\ B \in Nat /\ n_strings \in Nat
  BY DiskMapAssumption DEF IInv, Types
<1>2. /\ o \in Offsets /\ data[o].key = heads[k]
      /\ index_string[k].key = heads[k] /\ heads[k] = Key(i + 1)
      /\ DOMAIN index_string = DOMAIN heads
  BY DEF IInv, Loaded
<1>3. i \in Nat
  <2> DEFINE Entry == [key : Nat, index : Nat]
  <2>1. index_string \in Seq(Entry) /\ k \in DOMAIN index_string
    BY <1>2 DEF IInv, Types
  <2>2. index_string[k] \in Entry
    <3> HIDE DEF Entry
    <3> QED
      BY <2>1
  <2> QED
    BY <2>2
<1>4. o \in Nat /\ o % B = 0
  BY <1>1, Multiples
<1>5. o + data[o].bytes \in Nat
  <2>1. data[o].bytes \in Nat
    BY <1>2 DEF IInv, Types
  <2> HIDE DEF o
  <2> QED
    BY <1>4, <2>1
<1>6. AtBlock(k) = [offset |-> o, next |-> NextOffset(After(o)), index |-> i,
                    block |-> k, key |-> heads[k]]
  BY <1>1, <1>2, <1>4 DEF AtBlock, Parsed, After
<1>7. NextOffset(After(o)) \in Nat
  BY <1>5, AlignedOffset DEF NextOffset, After
<1>8. i \in 0..(n_strings - 1)
  <2>1. PICK j \in 1..n_strings : data[o].key = Key(j)
    BY <1>2 DEF IInv, EntriesAreData
  <2> HIDE DEF i, o
  <2> QED
    BY <1>1, <1>2, <1>3, <2>1 DEF Key
<1>9. k + 1 \in DOMAIN heads => heads[k] < heads[k + 1]
  BY <1>1 DEF IInv, HeadsStartBlocks
<1> DEFINE r == AtBlock(k)
<1> HIDE DEF i, o
<1>10. /\ r.next = NextOffset(After(o)) /\ r.index = i /\ r.block = k /\ r.key = heads[k]
       /\ r \in Iterator
  BY <1>1, <1>3, <1>4, <1>6, <1>7 DEF Iterator
<1> HIDE DEF r
<1>11. IsAt(r)
  BY <1>1, <1>2, <1>9, <1>10 DEF IsAt
<1> QED
  BY <1>2, <1>8, <1>10, <1>11 DEF r, i

\* ++ goes to the next datum, or leaves the iterator as it is after the last.
LEMMA AdvanceIsAt ==
    ASSUME IInv, AtDatum, it.index < n_strings, Advance
    PROVE  /\ pc' = pc /\ it' \in Iterator /\ it'.index = it.index + 1
           /\ it.index + 1 < n_strings => IsAt(it')
<1>1. /\ it \in Iterator /\ it.index \in Nat /\ it.block \in Nat /\ n_strings \in Nat
      /\ it.next \in Nat
      /\ heads \in Seq(Nat) /\ DOMAIN heads = 1..Len(heads) /\ Len(heads) \in Nat
      /\ B \in Nat
  BY DiskMapAssumption DEF IInv, Types, Iterator
<1> DEFINE i == it.index + 1
           b == it.block
           o == it.next
<1>2. i \in Nat /\ Step(o, i, b)
  BY <1>1 DEF Advance
<1>3. CASE i >= n_strings
  <2>1. it' = [it EXCEPT !.offset = o, !.index = i] /\ pc' = pc
    BY <1>2, <1>3 DEF Step
  <2>2. it' \in Iterator /\ it'.index = i
    BY <1>1, <1>2, <2>1 DEF Iterator
  <2> QED
    BY <1>1, <1>2, <1>3, <2>1, <2>2
<1>4. CASE ~(i >= n_strings)
  <2>1. IsAt(it)
    BY DEF IInv, OnDatum
  <2>2. PICK p \in Offsets : data[p].key = Key(i) /\ o = NextOffset(After(p))
    BY <2>1 DEF IsAt
  <2>3. i < n_strings
    BY <1>1, <1>4
  <2>4. o \in Offsets /\ data[o].key = Key(i + 1)
    BY <1>2, <2>2, <2>3, NextDatum
  <2>5. /\ IF data[o].head THEN o % B = 0 ELSE o % B # 0
        /\ data[o].head \in BOOLEAN /\ data[o].bytes \in Nat /\ data[o].key \in Nat
    BY <2>4 DEF IInv, DataInBlocks, Types
  <2>6. Parsable(o)
    BY <2>4, <2>5 DEF Parsable, Offsets
  <2>7. it' = Parsed(o, i, b) /\ pc' = pc
    BY <1>2, <1>4, <2>6 DEF Step
  <2> DEFINE c == IF o % B = 0 THEN b + 1 ELSE b
             key == IF o % B = 0 THEN index_string[c].key ELSE data[o].key
  <2>8. it' = [offset |-> o, next |-> NextOffset(After(o)), index |-> i, block |-> c,
               key |-> key]
    BY <2>7 DEF Parsed, After
  <2>9. /\ b \in DOMAIN heads /\ heads[b] <= Key(i)
        /\ b + 1 \in DOMAIN heads => Key(i) < heads[b + 1]
    BY <2>1 DEF IsAt
  <2>10. /\ c \in DOMAIN heads /\ heads[c] <= Key(i + 1)
         /\ c + 1 \in DOMAIN heads => Key(i + 1) < heads[c + 1]
         /\ key = Key(i + 1)
    <3>1. CASE o % B = 0
      <4>1. PICK j \in DOMAIN heads : heads[j] = Key(i + 1)
        BY <2>4, <2>5, <3>1 DEF IInv, HeadsStartBlocks
      <4>2. \A k, l \in DOMAIN heads : (k < l => heads[k] < heads[l]) /\ heads[k] \in Nat
        <5>1. \A k \in DOMAIN heads : heads[k] \in Nat
          BY <1>1
        <5> QED
          BY <5>1 DEF IInv, HeadsStartBlocks
      <4>3. \A k \in DOMAIN heads : \E m \in Nat : heads[k] = Key(m)
        <5> TAKE k \in DOMAIN heads
        <5>1. PICK p1 \in Offsets : data[p1].key = heads[k]
          BY DEF IInv, HeadsStartBlocks
        <5>2. PICK m \in 1..n_strings : data[p1].key = Key(m)
          BY DEF IInv, EntriesAreData
        <5> QED
          BY <1>1, <5>1, <5>2
      <4>4. b < j
        <5>1. heads[b] < heads[j] /\ heads[b] \in Nat /\ heads[j] \in Nat
          BY <1>2, <2>9, <4>1, <4>2 DEF Key
        <5>2. b \in Nat /\ j \in Nat /\ b # j
          BY <1>1, <5>1
        <5>3. ~(j < b)
          BY <2>9, <4>2, <5>1
        <5> QED
          BY <5>2, <5>3
      <4>5. b + 1 \in DOMAIN heads
        <5>1. b \in 1..Len(heads) /\ j \in 1..Len(heads) /\ b < j /\ Len(heads) \in Nat
          BY <1>1, <2>9, <4>4
        <5>2. b + 1 \in 1..Len(heads)
          BY <5>1
        <5> QED
          BY <1>1, <5>2
      <4>6. j = b + 1
        <5> SUFFICES ASSUME b + 1 < j PROVE FALSE
          BY <1>1, <2>9, <4>4
        <5>1. heads[b + 1] < heads[j] /\ Key(i) < heads[b + 1]
          BY <2>9, <4>2, <4>5
        <5>2. PICK m \in Nat : heads[b + 1] = Key(m)
          BY <4>3, <4>5
        <5> QED
          BY <1>2, <4>1, <5>1, <5>2 DEF Key
      <4>7. c = j
        BY <3>1, <4>6
      <4>8. key = heads[j]
        <5>1. index_string[j].key = heads[j]
          BY DEF IInv, Loaded, Reading
        <5> QED
          BY <3>1, <4>7, <5>1
      <4>9. j + 1 \in DOMAIN heads => heads[j] < heads[j + 1]
        BY <1>1, <4>2
      <4>10. heads[j] <= Key(i + 1)
        BY <4>1, <4>2
      <4> HIDE DEF c, key
      <4> QED
        BY <4>1, <4>7, <4>8, <4>9, <4>10
    <3>2. CASE o % B # 0
      <4>1. c = b /\ key = Key(i + 1)
        BY <2>4, <3>2
      <4>2. heads[b] <= Key(i + 1)
        <5>1. heads[b] \in Nat /\ heads[b] <= Key(i)
          BY <1>1, <2>9
        <5>2. \A h, m \in Nat : h <= Key(m) => h <= Key(m + 1)
          BY DEF Key
        <5> QED
          BY <1>2, <5>1, <5>2
      <4>3. ASSUME b + 1 \in DOMAIN heads PROVE Key(i + 1) < heads[b + 1]
        <5>1. PICK p1 \in Offsets : data[p1].head /\ data[p1].key = heads[b + 1]
          BY <4>3 DEF IInv, HeadsStartBlocks
        <5>2. PICK m \in Nat : data[p1].key = Key(m)
          BY <5>1 DEF IInv, EntriesAreData
        <5>3. Key(i) < Key(m)
          BY <2>9, <4>3, <5>1, <5>2
        <5>4. m # i + 1
          <6> SUFFICES ASSUME m = i + 1 PROVE FALSE
            OBVIOUS
          <6>1. p1 = o
            BY <2>4, <5>1, <5>2 DEF IInv, EntriesAreData
          <6> QED
            BY <2>5, <3>2, <5>1, <6>1
        <5> QED
          BY <1>2, <5>1, <5>2, <5>3, <5>4 DEF Key
      <4> HIDE DEF c, key
      <4> QED
        BY <2>9, <4>1, <4>2, <4>3
    <3> QED
      BY <3>1, <3>2
  <2>11. NextOffset(After(o)) \in Nat
    <3>1. After(o) \in Nat
      BY <1>1, <2>5 DEF After
    <3> QED
      BY <3>1, AlignedOffset DEF NextOffset
  <2>12. Key(i + 1) \in Nat /\ c \in Nat
    <3>1. c \in Nat
      <4> HIDE DEF c
      <4> QED
        BY <1>1, <2>10
    <3>2. \A m \in Nat : Key(m + 1) \in Nat
      BY DEF Key
    <3> QED
      BY <1>2, <3>1, <3>2
  <2> HIDE DEF c, key, i, o
  <2>13. /\ it' \in Iterator /\ it'.index = i /\ it'.block = c /\ it'.key = Key(i + 1)
         /\ it'.next = NextOffset(After(o))
    BY <1>1, <1>2, <2>8, <2>10, <2>11, <2>12 DEF Iterator, o
  <2>14. IsAt(it')
    BY <2>4, <2>10, <2>13 DEF IsAt
  <2> QED
    BY <2>7, <2>13, <2>14 DEF i
<1> QED
  BY <1>3, <1>4

\* What a step of the reader has to show.
LEMMA ReaderStep ==
    ASSUME IInv, Reading, UNCHANGED writerVars, UNCHANGED index_string,
           pc' \in {"ready", "iterate", "find", "found"},
           AtDatum' => it' \in Iterator /\ (it'.index < n_strings => IsAt(it')),
           end_index' \in Nat, query' \in Nat \ {1}, result' \in {"none", "element", "end"},
           Searching', FindIsLookup'
    PROVE  IInv'
<1>1. /\ EntriesAreData' /\ DataInBlocks' /\ HeadsStartBlocks' /\ Writing'
      /\ Offsets' = Offsets
  BY WriterStays
<1>2. UNCHANGED <<heads, current_bytes, n_strings, tellp, data>>
  BY DEF writerVars
<1>3. Types'
  BY <1>1, <1>2 DEF IInv, Types
<1>4. Loaded'
  BY <1>1, <1>2 DEF IInv, Loaded, Reading, AtDatum, Key
<1>5. OnDatum'
  BY <1>1, <1>2 DEF OnDatum, IsAt, After, NextOffset, Padding, Aligned, Key
<1>6. LeftMap'
  BY DEF LeftMap
<1> QED
  BY <1>1, <1>3, <1>4, <1>5, <1>6 DEF IInv

\* begin().
LEMMA IterateKeepsIInv == ASSUME IInv, Iterate PROVE IInv'
<1>1. /\ pc = "ready" /\ Reading /\ 1 \in DOMAIN heads /\ n_strings \in Nat
      /\ query \in Nat \ {1} /\ result \in {"none", "element", "end"}
  <2>1. pc = "ready" /\ Reading /\ n_strings > 0 /\ heads \in Seq(Nat) /\ n_strings \in Nat
    BY DEF Iterate, Reading, IInv, Loaded, Types
  <2>2. heads # <<>>
    BY <2>1 DEF IInv, HeadsStartBlocks
  <2>3. query \in Nat \ {1} /\ result \in {"none", "element", "end"}
    BY <2>1 DEF IInv, Types, LeftMap
  <2> QED
    BY <2>1, <2>2, <2>3
<1>2. /\ it' = AtBlock(1) /\ end_index' = n_strings /\ pc' = "iterate"
      /\ UNCHANGED writerVars /\ UNCHANGED <<index_string, query, result>>
  BY DEF Iterate
<1>3. it' \in Iterator /\ IsAt(it') /\ it'.index \in 0..(n_strings - 1)
  BY <1>1, <1>2, AtBlockIsAt
<1>4. Searching' /\ FindIsLookup'
  BY <1>1, <1>2, <1>3 DEF Searching, FindIsLookup, writerVars
<1> QED
  BY <1>1, <1>2, <1>3, <1>4, ReaderStep

\* ++, on the way to end().
LEMMA IterateNextKeepsIInv == ASSUME IInv, IterateNext PROVE IInv'
<1>1. /\ pc = "iterate" /\ Reading /\ AtDatum /\ n_strings \in Nat /\ it.index \in Nat
      /\ it.index < n_strings /\ end_index = n_strings
      /\ query \in Nat \ {1} /\ result \in {"none", "element", "end"}
  BY DEF IterateNext, Reading, AtDatum, IInv, Searching, Types, LeftMap, Iterator
<1>2. /\ Advance /\ UNCHANGED writerVars
      /\ UNCHANGED <<index_string, end_index, query, result>>
  BY DEF IterateNext
<1>3. /\ pc' = pc /\ it' \in Iterator /\ it'.index = it.index + 1
      /\ it.index + 1 < n_strings => IsAt(it')
  BY <1>1, <1>2, AdvanceIsAt
<1>4. n_strings' = n_strings
  BY <1>2 DEF writerVars
<1>5. Searching' /\ FindIsLookup'
  BY <1>1, <1>2, <1>3, <1>4 DEF Searching, FindIsLookup
<1> QED
  BY <1>1, <1>2, <1>3, <1>5, ReaderStep

\* The iteration ends.
LEMMA IterateEndKeepsIInv == ASSUME IInv, IterateEnd PROVE IInv'
<1>1. /\ Reading /\ query \in Nat \ {1} /\ result \in {"none", "element", "end"}
  BY DEF IterateEnd, Reading, AtDatum, IInv, Types, LeftMap
<1>2. /\ pc' = "ready" /\ end_index' = 0
      /\ UNCHANGED writerVars /\ UNCHANGED <<index_string, query, result>>
  BY DEF IterateEnd
<1>3. Searching' /\ FindIsLookup' /\ ~AtDatum'
  BY <1>2 DEF Searching, FindIsLookup, AtDatum
<1> QED
  BY <1>1, <1>2, <1>3, ReaderStep

\* The bisection finds the first head that is not before the query.
LEMMA LowerBoundIsFirst ==
    ASSUME IInv, Reading, NEW q \in Nat
    PROVE  /\ LowerBound(q) \in 1..(Len(heads) + 1)
           /\ LowerBound(q) \in DOMAIN heads => heads[LowerBound(q)] >= q
           /\ \A k \in DOMAIN heads : k < LowerBound(q) => heads[k] < q
<1>1. /\ heads \in Seq(Nat) /\ DOMAIN heads = 1..Len(heads) /\ Len(heads) \in Nat
      /\ DOMAIN index_string = DOMAIN heads
      /\ \A k \in DOMAIN heads : index_string[k].key = heads[k] /\ heads[k] \in Nat
  <2>1. heads \in Seq(Nat)
    BY DEF IInv, Types
  <2>2. /\ DOMAIN index_string = DOMAIN heads
        /\ \A k \in DOMAIN heads : index_string[k].key = heads[k]
    BY DEF IInv, Loaded
  <2> QED
    BY <2>1, <2>2
<1>2. Len(index_string) = Len(heads)
  <2>1. index_string \in Seq([key : Nat, index : Nat])
    BY DEF IInv, Types
  <2>2. Len(index_string) \in Nat /\ 1..Len(index_string) = 1..Len(heads)
    BY <1>1, <2>1
  <2>3. \A a, c \in Nat : 1..a = 1..c => a = c
    <3> TAKE a, c \in Nat
    <3> HAVE 1..a = 1..c
    <3>1. a > 0 => a \in 1..c
      OBVIOUS
    <3>2. c > 0 => c \in 1..a
      OBVIOUS
    <3> QED
      BY <3>1, <3>2
  <2> QED
    BY <1>1, <2>2, <2>3
<1> DEFINE S == {k \in DOMAIN index_string : index_string[k].key >= q}
                   \cup {Len(index_string) + 1}
<1>3. /\ S \subseteq 1..(Len(heads) + 1) /\ S \subseteq Nat /\ S # {}
      /\ \A k \in DOMAIN heads : k \in S <=> heads[k] >= q
  BY <1>1, <1>2
<1>4. LowerBound(q) = Min(S)
  BY DEF LowerBound
<1> HIDE DEF S
<1>5. LowerBound(q) \in S /\ \A k \in S : LowerBound(q) <= k
  BY <1>3, <1>4, MinIsLeast
<1>6. ASSUME NEW k \in DOMAIN heads, k < LowerBound(q) PROVE heads[k] < q
  <2>1. k \notin S
    <3>1. k \in Nat
      BY <1>1
    <3>2. LowerBound(q) \in Nat
      BY <1>3, <1>5
    <3>3. \A a, c \in Nat : a < c => ~(c <= a)
      OBVIOUS
    <3> QED
      BY <1>5, <1>6, <3>1, <3>2, <3>3
  <2> QED
    BY <1>1, <1>3, <2>1
<1> QED
  BY <1>3, <1>5, <1>6

\* find chooses a block.
LEMMA FindKeepsIInv ==
    ASSUME IInv, NEW q \in Queries, Find(q) PROVE IInv'
<1> DEFINE k == LowerBound(q)
<1>1. /\ pc = "ready" /\ Reading /\ n_strings \in Nat /\ n_strings > 0
      /\ q \in Nat /\ q >= 1
      /\ end_index \in Nat /\ result \in {"none", "element", "end"}
      /\ heads \in Seq(Nat) /\ DOMAIN heads = 1..Len(heads) /\ Len(heads) \in Nat
  <2>1. pc = "ready" /\ Reading /\ n_strings \in Nat /\ n_strings > 0
    BY DEF Find, Reading, IInv, Types, Loaded
  <2>2. end_index \in Nat /\ result \in {"none", "element", "end"} /\ heads \in Seq(Nat)
    BY DEF IInv, Types
  <2>3. q \in Nat /\ q >= 1
    BY <2>1 DEF Queries, Key
  <2> QED
    BY <2>1, <2>2, <2>3
<1>2. /\ query' = q /\ UNCHANGED writerVars /\ UNCHANGED index_string
  BY DEF Find
<1>3. /\ UNCHANGED <<heads, current_bytes, n_strings, tellp, data>> /\ Keys' = Keys
  BY <1>2 DEF writerVars, Keys, Key
<1>4. /\ k \in 1..(Len(heads) + 1)
      /\ k \in DOMAIN heads => heads[k] >= q
      /\ \A j \in DOMAIN heads : j < k => heads[j] < q
  BY <1>1, LowerBoundIsFirst
<1>5. /\ DOMAIN index_string = DOMAIN heads
      /\ \A j \in DOMAIN heads : index_string[j].key = heads[j]
  BY <1>1 DEF IInv, Loaded
<1>6. Len(index_string) = Len(heads)
  <2>1. index_string \in Seq([key : Nat, index : Nat])
    BY DEF IInv, Types
  <2>2. DOMAIN index_string = 1..Len(index_string) /\ Len(index_string) \in Nat
    BY <2>1
  <2> QED
    BY <1>1, <1>5, <2>2
<1>7. heads # <<>> /\ heads[1] = 2 /\ 1 \in DOMAIN heads
  <2>1. heads # <<>> /\ heads[1] = Key(1)
    BY <1>1 DEF IInv, HeadsStartBlocks
  <2> QED
    BY <1>1, <2>1 DEF Key
<1> HIDE DEF k
<1>8. CASE k \in DOMAIN heads /\ heads[k] = q
  <2>1. /\ pc' = "found" /\ it' = AtBlock(k) /\ result' = "element" /\ UNCHANGED end_index
    BY <1>1, <1>5, <1>6, <1>8 DEF Find, k
  <2>2. /\ it' \in Iterator /\ IsAt(it') /\ it'.index \in 0..(n_strings - 1)
        /\ heads[k] = Key(it'.index + 1)
    BY <1>1, <1>8, <2>1, AtBlockIsAt
  <2>3. q \in Keys /\ q # 1
    <3> DEFINE i == it'.index
    <3>1. i \in 0..(n_strings - 1) /\ q = Key(i + 1)
      BY <1>8, <2>2
    <3> HIDE DEF i
    <3>2. i + 1 \in 1..n_strings
      BY <1>1, <3>1
    <3>3. q \in Keys
      BY <3>1, <3>2 DEF Keys
    <3>4. i \in Int /\ q = 2 * (i + 1)
      BY <1>1, <3>1 DEF Key
    <3> QED
      BY <3>3, <3>4
  <2>4. Searching' /\ FindIsLookup'
    BY <1>2, <1>3, <2>1, <2>3 DEF Searching, FindIsLookup
  <2> QED
    BY <1>1, <1>2, <2>1, <2>2, <2>3, <2>4, ReaderStep
<1>9. CASE k = 1 /\ heads[k] # q
  <2>1. /\ pc' = "undefined" /\ UNCHANGED <<it, end_index, result>>
    BY <1>1, <1>5, <1>6, <1>7, <1>9 DEF Find, k
  <2>2. q = 1
    BY <1>1, <1>4, <1>7, <1>9
  <2>3. /\ EntriesAreData' /\ DataInBlocks' /\ HeadsStartBlocks' /\ Writing'
        /\ Offsets' = Offsets
    BY <1>2, <2>1, WriterStays
  <2>4. Types'
    BY <1>1, <1>2, <1>3, <2>1, <2>3 DEF IInv, Types, AtDatum
  <2>5. Loaded' /\ OnDatum' /\ Searching' /\ LeftMap' /\ FindIsLookup'
    BY <1>1, <1>2, <1>3, <2>1, <2>2
       DEF Loaded, OnDatum, Searching, LeftMap, FindIsLookup, AtDatum, Reading
  <2> QED
    BY <2>3, <2>4, <2>5 DEF IInv
<1>10. CASE k # 1 /\ ~(k \in DOMAIN heads /\ heads[k] = q)
  <2>1. /\ it' = AtBlock(k - 1) /\ end_index' = BlockEnd(k - 1)
        /\ pc' = "find" /\ UNCHANGED result
    BY <1>1, <1>4, <1>5, <1>6, <1>10 DEF Find, k
  <2>2. k - 1 \in DOMAIN heads /\ heads[k - 1] < q /\ k - 1 < k /\ k = (k - 1) + 1
    BY <1>1, <1>4, <1>10
  <2>3. /\ it' \in Iterator /\ IsAt(it') /\ it'.index \in 0..(n_strings - 1)
        /\ heads[k - 1] = Key(it'.index + 1)
    BY <1>1, <2>1, <2>2, AtBlockIsAt
  <2>4. q # 1 /\ Key(it'.index) < q
    BY <1>1, <2>2, <2>3 DEF Key
  <2>5. /\ end_index' \in Nat /\ it'.index <= end_index' /\ end_index' <= n_strings
        /\ end_index' < n_strings => q < Key(end_index' + 1)
    <3>1. CASE k \in DOMAIN heads
      <4>1. /\ AtBlock(k).index = index_string[k].index
            /\ AtBlock(k).index \in 0..(n_strings - 1)
            /\ heads[k] = Key(AtBlock(k).index + 1)
        BY <1>1, <3>1, AtBlockIsAt
      <4>2. end_index' = AtBlock(k).index
        BY <1>1, <1>6, <2>1, <2>2, <3>1, <4>1 DEF BlockEnd
      <4>3. heads[k - 1] < heads[k] /\ q < heads[k]
        <5>1. heads[k - 1] < heads[k]
          BY <2>2, <3>1 DEF IInv, HeadsStartBlocks
        <5>2. heads[k] \in Nat /\ heads[k] >= q /\ heads[k] # q
          BY <1>1, <1>4, <1>10, <3>1
        <5> QED
          BY <1>1, <5>1, <5>2
      <4> QED
        BY <1>1, <2>3, <4>1, <4>2, <4>3 DEF Key
    <3>2. CASE k \notin DOMAIN heads
      <4>1. k - 1 = Len(index_string)
        BY <1>1, <1>4, <1>6, <3>2
      <4>2. end_index' = n_strings
        BY <2>1, <4>1 DEF BlockEnd
      <4> QED
        BY <1>1, <2>3, <4>2
    <3> QED
      BY <3>1, <3>2
  <2>6. Searching' /\ FindIsLookup'
    BY <1>2, <1>3, <2>1, <2>4, <2>5 DEF Searching, FindIsLookup, Key
  <2> QED
    BY <1>1, <1>2, <2>1, <2>3, <2>4, <2>5, <2>6, ReaderStep
<1> QED
  BY <1>7, <1>8, <1>9, <1>10

\* find goes on in its block.
LEMMA FindNextKeepsIInv == ASSUME IInv, FindNext PROVE IInv'
<1>1. /\ pc = "find" /\ Reading /\ AtDatum /\ n_strings \in Nat /\ it.index \in Nat
      /\ end_index \in Nat /\ query \in Nat \ {1} /\ result \in {"none", "element", "end"}
      /\ it.index <= end_index /\ end_index <= n_strings
      /\ end_index < n_strings => query < Key(end_index + 1)
  BY DEF FindNext, Reading, AtDatum, IInv, Searching, Types, LeftMap, Iterator
<1>2. /\ Advance /\ UNCHANGED writerVars /\ it.index # end_index /\ it.key < query
      /\ UNCHANGED <<index_string, end_index, query, result>>
  BY DEF FindNext
<1>3. it.index < n_strings /\ it.index + 1 <= end_index
  BY <1>1, <1>2
<1>4. /\ pc' = pc /\ it' \in Iterator /\ it'.index = it.index + 1
      /\ it.index + 1 < n_strings => IsAt(it')
  BY <1>1, <1>2, <1>3, AdvanceIsAt
<1>5. n_strings' = n_strings
  BY <1>2 DEF writerVars
<1>6. Key(it.index + 1) < query
  BY <1>1, <1>2, <1>3 DEF IInv, OnDatum, IsAt
<1>7. Searching' /\ FindIsLookup'
  BY <1>1, <1>2, <1>3, <1>4, <1>5, <1>6 DEF Searching, FindIsLookup, Key
<1> QED
  BY <1>1, <1>2, <1>4, <1>7, ReaderStep

\* find stops at the key, or where it would be.
LEMMA FindEndKeepsIInv == ASSUME IInv, FindEnd PROVE IInv'
<1> DEFINE found == it.index # end_index /\ it.key = query
<1>1. /\ pc = "find" /\ Reading /\ AtDatum /\ n_strings \in Nat /\ it \in Iterator
      /\ it.index \in Nat /\ it.key \in Nat
      /\ end_index \in Nat /\ query \in Nat \ {1}
      /\ it.index <= end_index /\ end_index <= n_strings /\ Key(it.index) < query
      /\ end_index < n_strings => query < Key(end_index + 1)
  BY DEF FindEnd, Reading, AtDatum, IInv, Searching, Types, LeftMap, Iterator
<1>2. /\ ~(it.index # end_index /\ it.key < query)
      /\ result' = IF found THEN "element" ELSE "end"
      /\ pc' = "found" /\ UNCHANGED writerVars
      /\ UNCHANGED <<index_string, it, end_index, query>>
  BY DEF FindEnd
<1>3. it.index < n_strings => IsAt(it) /\ it.key = Key(it.index + 1)
  BY <1>1 DEF IInv, OnDatum, IsAt
<1>4. query \in Keys <=> found
  <2>1. ASSUME found PROVE query \in Keys
    <3>1. it.index < n_strings
      BY <1>1, <2>1
    <3>2. it.index + 1 \in 1..n_strings
      BY <1>1, <3>1
    <3> QED
      BY <1>3, <2>1, <3>1, <3>2 DEF Keys
  <2>2. ASSUME query \in Keys PROVE found
    <3>1. PICK i \in 1..n_strings : query = Key(i)
      BY <2>2 DEF Keys
    <3>2. it.index < i
      BY <1>1, <3>1 DEF Key
    <3>3. end_index < n_strings => i <= end_index
      BY <1>1, <3>1 DEF Key
    <3>4. it.index # end_index /\ it.index < n_strings
      BY <1>1, <3>1, <3>2, <3>3
    <3>5. it.key = Key(it.index + 1) /\ ~(it.key < query)
      BY <1>2, <1>3, <3>4
    <3>6. i = it.index + 1
      BY <1>1, <3>1, <3>2, <3>5 DEF Key
    <3> QED
      BY <3>1, <3>4, <3>5, <3>6
  <2> QED
    BY <2>1, <2>2
<1>5. Keys' = Keys /\ n_strings' = n_strings
  BY <1>2 DEF Keys, Key, writerVars
<1> HIDE DEF found
<1>6. Searching' /\ FindIsLookup'
  BY <1>2, <1>4, <1>5 DEF Searching, FindIsLookup
<1>7. result' \in {"none", "element", "end"}
  BY <1>2
<1> QED
  BY <1>1, <1>2, <1>3, <1>6, <1>7, ReaderStep

\* find returns.
LEMMA ReturnKeepsIInv == ASSUME IInv, Return PROVE IInv'
<1>1. Reading
  BY DEF Return, Reading, AtDatum
<1>2. /\ pc' = "ready" /\ end_index' = 0 /\ query' = 0 /\ result' = "none"
      /\ UNCHANGED writerVars /\ UNCHANGED index_string
  BY DEF Return
<1>3. Searching' /\ FindIsLookup' /\ ~AtDatum'
  BY <1>2 DEF Searching, FindIsLookup, AtDatum
<1> QED
  BY <1>1, <1>2, <1>3, ReaderStep

\* Nothing changes.
LEMMA StutterKeepsIInv == ASSUME IInv, UNCHANGED vars PROVE IInv'
<1>1. /\ UNCHANGED <<heads, current_bytes, n_strings, tellp, data>>
      /\ UNCHANGED <<index_string, it, end_index, query, result, pc>>
  BY DEF vars, writerVars, readerVars
<1> QED
  BY <1>1 DEF IInv, Types, EntriesAreData, DataInBlocks, HeadsStartBlocks, Writing, Loaded,
              OnDatum, IsAt, Searching, LeftMap, FindIsLookup, EntriesFit, Offsets, After,
              AtDatum, Reading, NextOffset, Padding, Aligned, Key, Keys

\* The invariant is inductive.
LEMMA NextKeepsIInv == ASSUME IInv, [Next]_vars PROVE IInv'
<1>1. CASE \E bytes \in ValueBytes : Add(bytes)
  BY <1>1, AddKeepsIInv
<1>2. CASE Finalize
  BY <1>2, FinalizeKeepsIInv
<1>3. CASE Load
  BY <1>3, LoadKeepsIInv
<1>4. CASE Iterate
  BY <1>4, IterateKeepsIInv
<1>5. CASE IterateNext
  BY <1>5, IterateNextKeepsIInv
<1>6. CASE IterateEnd
  BY <1>6, IterateEndKeepsIInv
<1>7. CASE \E q \in Queries : Find(q)
  BY <1>7, FindKeepsIInv
<1>8. CASE FindNext
  BY <1>8, FindNextKeepsIInv
<1>9. CASE FindEnd
  BY <1>9, FindEndKeepsIInv
<1>10. CASE Return
  BY <1>10, ReturnKeepsIInv
<1>11. CASE Astray \/ UNCHANGED vars
  BY <1>11, StutterKeepsIInv DEF Astray
<1> QED
  BY <1>1, <1>2, <1>3, <1>4, <1>5, <1>6, <1>7, <1>8, <1>9, <1>10, <1>11 DEF Next

-----------------------------------------------------------------------------
(* Theorems.                                                               *)

\* The invariant holds always: what the writer has written, what the reader has loaded
\* and where its iterator is agree.
THEOREM DiskMapInvariant == Spec => []IInv
<1>1. Init => IInv
  BY InitIInv
<1>2. IInv /\ [Next]_vars => IInv'
  BY NextKeepsIInv
<1> QED
  BY <1>1, <1>2, PTL DEF Spec

\* After any ++ and any find, the iterator is at the datum that its index says: the bytes
\* left over at the end of a block are never taken for a datum, nor a datum for them
\* (reader.hpp:166-173).
THEOREM AlwaysAligned == Spec => []IteratorIsAligned
<1>1. IInv => IteratorIsAligned
  BY DEF IInv, OnDatum, IsAt, AtDatum, IteratorIsAligned
<1> QED
  BY <1>1, DiskMapInvariant, PTL

\* find returns an iterator to the key if the map has it, and end() if not.
THEOREM FindLooksUp == Spec => []FindIsLookup
<1>1. IInv => FindIsLookup
  BY DEF IInv
<1> QED
  BY <1>1, DiskMapInvariant, PTL

\* With no entry larger than a block, the reader reads outside the data exactly when find
\* is called with a key before the first one (reader.hpp:242-250).
THEOREM LeavesMapBeforeFirstKey == Spec => []ReaderStaysInMap
<1>1. IInv => ReaderStaysInMap
  BY DEF IInv, LeftMap, ReaderStaysInMap, Types, Key
<1> QED
  BY <1>1, DiskMapInvariant, PTL

-----------------------------------------------------------------------------
(* The merge of lexica: the keys in their order.                           *)

\* The iterator comes to the keys of its map in their order, and to every one.
LEMMA KeysInOrder ==
    ASSUME NEW f, DOMAIN f \in SUBSET Nat, IsFiniteSet(DOMAIN f),
           NEW n \in Nat, n < Cardinality(DOMAIN f)
    PROVE  /\ Cardinality(DOMAIN f) \in Nat
           /\ KeyAt(f, n) \in DOMAIN f
           /\ n = 0 => \A u \in DOMAIN f : KeyAt(f, n) <= u
           /\ n + 1 < Cardinality(DOMAIN f) =>
                 \A u \in DOMAIN f : KeyAt(f, n + 1) <= u <=> KeyAt(f, n) < u
           /\ n + 1 = Cardinality(DOMAIN f) => \A u \in DOMAIN f : u <= KeyAt(f, n)
<1> DEFINE S == DOMAIN f
           c(t) == Cardinality(Below(S, t))
<1>1. /\ Cardinality(S) \in Nat
      /\ \A t \in S : c(t) \in Nat /\ c(t) < Cardinality(S)
      /\ \A t, u \in S : t < u => c(t) + 1 <= c(u)
  BY KeysAreRanked
<1>2. ASSUME NEW k \in Nat, k < Cardinality(S) PROVE KeyAt(f, k) \in S /\ c(KeyAt(f, k)) = k
  <2>1. \E t \in S : c(t) = k
    BY <1>2, IndexHasKey
  <2>2. KeyAt(f, k) = CHOOSE t \in S : c(t) = k
    BY DEF KeyAt, Below
  <2> HIDE DEF S, c
  <2> QED
    BY <2>1, <2>2
<1>3. KeyAt(f, n) \in S /\ c(KeyAt(f, n)) = n /\ KeyAt(f, n) \in Nat
  BY <1>2
<1> HIDE DEF c, S
<1>4. S \subseteq Nat
  BY DEF S
<1>5. ASSUME n = 0, NEW u \in S PROVE KeyAt(f, n) <= u
  <2>1. ~(u < KeyAt(f, n))
    <3>1. c(u) \in Nat
      BY <1>1
    <3> QED
      BY <1>1, <1>3, <1>5, <3>1
  <2> QED
    BY <1>3, <1>4, <2>1
<1>6. ASSUME n + 1 < Cardinality(S), NEW u \in S PROVE KeyAt(f, n + 1) <= u <=> KeyAt(f, n) < u
  <2> DEFINE a == KeyAt(f, n)
             b == KeyAt(f, n + 1)
  <2>1. a \in S /\ c(a) = n /\ b \in S /\ c(b) = n + 1 /\ a \in Nat /\ b \in Nat /\ u \in Nat
    <3>1. n + 1 \in Nat
      OBVIOUS
    <3>2. b \in S /\ c(b) = n + 1
      BY <1>2, <1>6, <3>1
    <3> QED
      BY <1>3, <1>4, <1>6, <3>2
  <2> HIDE DEF a, b
  <2>2. c(u) \in Nat
    BY <1>1
  <2>3. a < u => ~(u < b)
    BY <1>1, <2>1, <2>2
  <2>4. ~(b < a) /\ a # b
    BY <1>1, <2>1
  <2>5. b <= u <=> a < u
    BY <2>1, <2>3, <2>4
  <2> QED
    BY <2>5 DEF a, b
<1>7. ASSUME n + 1 = Cardinality(S), NEW u \in S PROVE u <= KeyAt(f, n)
  <2>1. ~(KeyAt(f, n) < u)
    <3>1. c(u) \in Nat /\ c(u) < Cardinality(S)
      BY <1>1
    <3> QED
      BY <1>1, <1>3, <1>7, <3>1
  <2> QED
    BY <1>3, <1>4, <2>1
<1> QED
  BY <1>1, <1>3, <1>5, <1>6, <1>7 DEF S

-----------------------------------------------------------------------------
(* The merge of lexica: its inductive invariant.                           *)

\* The terms written so far.
Written == {global[i].term : i \in DOMAIN global}

MergeTypes ==
    /\ maps \in Seq(Lexica)
    /\ DOMAIN positions \subseteq DOMAIN maps /\ positions \in [DOMAIN positions -> Nat]
    /\ global \in Seq([term : Nat, value : Nat])
    /\ stage \in {"merge", "finalized"}
    /\ stage = "finalized" => DOMAIN positions = {}

\* A range in the list has a datum, but for the empty ones, which never leave it.
RangesAreNotPast ==
    /\ \A m \in DOMAIN positions : ~NoTerms(m) => positions[m] < Cardinality(DOMAIN maps[m])
    /\ \A m \in DOMAIN maps : NoTerms(m) => m \in DOMAIN positions

\* What has been written of the lexica after the last empty one is what their ranges have
\* passed, and all of it is before what they come to next.
Remaining ==
    /\ \A m \in Merged : \A t \in DOMAIN maps[m] :
          t \notin Written <=> m \in DOMAIN positions /\ CurrKey(m) <= t
    /\ Written \subseteq {EmptyString} \cup UNION {DOMAIN maps[m] : m \in Merged}
    /\ global # <<>> /\ ~Endless =>
          \A m \in Merged \cap DOMAIN positions : Last(global).term < CurrKey(m)

ValuesAreSums ==
    Merged = DOMAIN maps => \A i \in DOMAIN global : global[i].value = ValueIn(global[i].term)

MergeInv == MergeTypes /\ RangesAreNotPast /\ Remaining /\ KeysIncrease /\ ValuesAreSums

-----------------------------------------------------------------------------
(* The merge of lexica: the term of a round.                               *)

\* What the maps are.
LEMMA MapsAre ==
    ASSUME maps \in Seq(Lexica)
    PROVE  /\ Len(maps) \in Nat /\ DOMAIN maps = 1..Len(maps)
           /\ \A m \in DOMAIN maps :
                 /\ DOMAIN maps[m] \in SUBSET Nat /\ IsFiniteSet(DOMAIN maps[m])
                 /\ \A t \in DOMAIN maps[m] : t > EmptyString /\ maps[m][t] \in Nat
<1>1. Len(maps) \in Nat /\ DOMAIN maps = 1..Len(maps) /\ \A m \in DOMAIN maps : maps[m] \in Lexica
  OBVIOUS
<1>2. ASSUME NEW f \in Lexica
      PROVE  /\ DOMAIN f \in SUBSET Nat /\ IsFiniteSet(DOMAIN f)
             /\ \A t \in DOMAIN f : t > EmptyString /\ f[t] \in Nat
  <2>1. PICK T \in SUBSET Terms : f \in [T -> 1..MaxValue]
    BY DEF Lexica
  <2>2. \A t \in Terms : t \in Nat /\ t > EmptyString
    BY DEF Terms, EmptyString
  <2>3. IsFiniteSet(Terms)
    <3>1. 1 \in Int /\ NTerms \in Int
      BY MergeAssumption
    <3> QED
      BY <3>1, FS_Interval DEF Terms
  <2>4. IsFiniteSet(T)
    BY <2>3, FS_Subset
  <2>5. DOMAIN f = T /\ \A t \in T : f[t] \in Nat
    BY <2>1, MergeAssumption
  <2> QED
    BY <2>2, <2>4, <2>5
<1> QED
  BY <1>1, <1>2

\* The key that a range is at: none for an empty one, for another one of its map's.
LEMMA CurrKeyIs ==
    ASSUME MergeTypes, RangesAreNotPast, NEW m \in DOMAIN positions
    PROVE  /\ CurrKey(m) \in Nat /\ m \in DOMAIN maps /\ positions[m] \in Nat
           /\ NoTerms(m) => CurrKey(m) = EmptyString /\ Cardinality(DOMAIN maps[m]) = 0
           /\ ~NoTerms(m) => /\ CurrKey(m) \in DOMAIN maps[m] /\ CurrKey(m) > EmptyString
                             /\ CurrKey(m) = KeyAt(maps[m], positions[m])
                             /\ positions[m] < Cardinality(DOMAIN maps[m])
<1>1. /\ m \in DOMAIN maps /\ positions[m] \in Nat
      /\ DOMAIN maps[m] \in SUBSET Nat /\ IsFiniteSet(DOMAIN maps[m])
      /\ \A t \in DOMAIN maps[m] : t > EmptyString
  BY MapsAre DEF MergeTypes
<1>2. CASE NoTerms(m)
  <2>1. Cardinality(DOMAIN maps[m]) = 0
    BY <1>2, FS_EmptySet DEF NoTerms
  <2>2. CurrKey(m) = EmptyString
    BY <1>1, <2>1 DEF CurrKey
  <2> QED
    BY <1>1, <1>2, <2>1, <2>2 DEF EmptyString
<1>3. CASE ~NoTerms(m)
  <2>1. positions[m] < Cardinality(DOMAIN maps[m])
    BY <1>3 DEF RangesAreNotPast
  <2>2. KeyAt(maps[m], positions[m]) \in DOMAIN maps[m]
    BY <1>1, <2>1, KeysInOrder
  <2>3. CurrKey(m) = KeyAt(maps[m], positions[m])
    BY <2>1 DEF CurrKey
  <2> QED
    BY <1>1, <1>3, <2>1, <2>2, <2>3
<1> QED
  BY <1>2, <1>3

\* The loop over the first n ranges.
MinTo(n, f) ==
    f = [m \in 0..n |-> IF m = 0 THEN EmptyString
                        ELSE IF m \in DOMAIN positions THEN SmallerKey(f[m - 1], m) ELSE f[m - 1]]

\* It comes to a result, for any number of ranges.
LEMMA MinToExists ==
    ASSUME NEW n \in Nat
    PROVE  \E f : MinTo(n, f)
<1> DEFINE Looked(v, m) == IF m \in DOMAIN positions THEN SmallerKey(v, m) ELSE v
           To(k, f) == f = [m \in 0..k |-> IF m = 0 THEN EmptyString ELSE Looked(f[m - 1], m)]
           G == {k \in Nat : \E f : To(k, f)}
<1> HIDE DEF Looked
<1>1. 0 \in G
  <2>1. To(0, [m \in 0..0 |-> EmptyString])
    OBVIOUS
  <2> QED
    BY <2>1
<1>2. ASSUME NEW k \in Nat, k \in G PROVE k + 1 \in G
  <2>1. PICK f : To(k, f)
    BY <1>2
  <2> DEFINE g == [m \in 0..(k + 1) |-> IF m = k + 1 THEN Looked(f[k], k + 1) ELSE f[m]]
  <2>2. ASSUME NEW m \in 0..(k + 1)
        PROVE  g[m] = IF m = 0 THEN EmptyString ELSE Looked(g[m - 1], m)
    <3>1. CASE m = k + 1
      <4>1. m # 0 /\ m - 1 = k /\ k \in 0..(k + 1) /\ k # k + 1
        BY <3>1
      <4>2. g[k] = f[k] /\ g[m] = Looked(f[k], m)
        BY <3>1, <4>1
      <4> QED
        BY <4>1, <4>2
    <3>2. CASE m # k + 1
      <4>1. m \in 0..k /\ g[m] = f[m]
        BY <3>2
      <4>2. f[m] = IF m = 0 THEN EmptyString ELSE Looked(f[m - 1], m)
        BY <2>1, <4>1
      <4>3. m # 0 => m - 1 \in 0..(k + 1) /\ m - 1 # k + 1
        BY <4>1
      <4>4. m # 0 => g[m - 1] = f[m - 1]
        BY <4>3
      <4> HIDE DEF g
      <4> QED
        BY <4>1, <4>2, <4>4
    <3> QED
      BY <3>1, <3>2
  <2>3. g = [m \in 0..(k + 1) |-> IF m = 0 THEN EmptyString ELSE Looked(g[m - 1], m)]
    <3>1. g = [m \in 0..(k + 1) |-> g[m]]
      OBVIOUS
    <3> HIDE DEF g
    <3> QED
      BY <2>2, <3>1
  <2> HIDE DEF g
  <2>4. To(k + 1, g)
    BY <2>3
  <2> HIDE DEF To
  <2> QED
    BY <2>4
<1>3. \A k \in Nat : k \in G
  <2> HIDE DEF G
  <2> QED
    BY <1>1, <1>2, SetOfNumbers
<1>4. PICK f : To(n, f)
  BY <1>3
<1> QED
  BY <1>4 DEF MinTo, Looked

\* The ranges that the loop does not forget: those after the last empty one.
AfterEmpty(n) ==
    {m \in DOMAIN positions : m <= n /\ \A e \in DOMAIN maps : NoTerms(e) /\ e <= n => e < m}

\* The least key of those ranges.
IsLeast(n, v) ==
    /\ v \in Nat
    /\ AfterEmpty(n) = {} => v = EmptyString
    /\ AfterEmpty(n) # {} => v > EmptyString /\ \E m \in AfterEmpty(n) : v = CurrKey(m)
    /\ \A m \in AfterEmpty(n) : v <= CurrKey(m)

\* The loop forgets every range up to an empty one, as its key counts as no minimum (line 237),
\* and finds the least key of the others.
LEMMA LoopFindsLeast ==
    ASSUME MergeTypes, RangesAreNotPast
    PROVE  IsLeast(Len(maps), MinKey)
<1> DEFINE N == Len(maps)
           min == CHOOSE f : MinTo(N, f)
           G == {n \in Nat : n <= N => IsLeast(n, min[n])}
<1>1. N \in Nat /\ DOMAIN maps = 1..N /\ DOMAIN positions \subseteq 1..N
  BY MapsAre DEF MergeTypes
<1>2. MinTo(N, min)
  BY <1>1, MinToExists
<1>3. MinKey = min[N]
  BY DEF MinKey, MinUpTo, MinTo
<1> HIDE DEF min, N
<1>4. \A m \in 0..N : min[m] = IF m = 0 THEN EmptyString
                               ELSE IF m \in DOMAIN positions THEN SmallerKey(min[m - 1], m)
                               ELSE min[m - 1]
  BY <1>2 DEF MinTo
<1>5. 0 \in G
  <2>1. min[0] = EmptyString
    BY <1>1, <1>4
  <2>2. AfterEmpty(0) = {}
    BY <1>1 DEF AfterEmpty
  <2> QED
    BY <2>1, <2>2 DEF IsLeast, EmptyString
<1>6. ASSUME NEW n \in Nat, n \in G PROVE n + 1 \in G
  <2> SUFFICES ASSUME n + 1 <= N PROVE IsLeast(n + 1, min[n + 1])
    OBVIOUS
  <2>1. IsLeast(n, min[n])
    BY <1>1, <1>6
  <2>2. /\ n + 1 \in 1..N /\ n + 1 \in 0..N /\ n + 1 # 0 /\ (n + 1) - 1 = n
        /\ \A m \in 1..N : m \in Nat /\ (m <= n + 1 <=> m <= n \/ m = n + 1)
    BY <1>1
  <2>3. min[n + 1] = IF n + 1 \in DOMAIN positions THEN SmallerKey(min[n], n + 1) ELSE min[n]
    BY <1>4, <2>2
  <2>4. CASE n + 1 \notin DOMAIN positions
    <3>1. ~NoTerms(n + 1)
      BY <1>1, <2>2, <2>4 DEF RangesAreNotPast
    <3>2. AfterEmpty(n + 1) = AfterEmpty(n)
      BY <1>1, <2>2, <2>4, <3>1 DEF AfterEmpty
    <3> QED
      BY <2>1, <2>3, <2>4, <3>2 DEF IsLeast
  <2>5. CASE n + 1 \in DOMAIN positions /\ NoTerms(n + 1)
    <3>1. CurrKey(n + 1) = EmptyString
      BY <2>5, CurrKeyIs
    <3>2. min[n + 1] = EmptyString
      BY <2>1, <2>3, <2>5, <3>1 DEF SmallerKey, IsLeast, EmptyString
    <3>3. AfterEmpty(n + 1) = {}
      <4>1. \A m \in 1..N : m <= n + 1 => ~(n + 1 < m)
        BY <1>1
      <4> QED
        BY <1>1, <2>2, <2>5, <4>1 DEF AfterEmpty
    <3> QED
      BY <3>2, <3>3 DEF IsLeast, EmptyString
  <2>6. CASE n + 1 \in DOMAIN positions /\ ~NoTerms(n + 1)
    <3>1. CurrKey(n + 1) \in Nat /\ CurrKey(n + 1) > EmptyString
      BY <2>6, CurrKeyIs
    <3>2. AfterEmpty(n + 1) = AfterEmpty(n) \cup {n + 1}
      <4>1. \A e \in 1..N : e <= n => e < n + 1
        BY <1>1
      <4> QED
        BY <1>1, <2>2, <2>6, <4>1 DEF AfterEmpty
    <3>3. \A m \in AfterEmpty(n) : CurrKey(m) \in Nat
      BY CurrKeyIs DEF AfterEmpty
    <3>4. min[n + 1] = SmallerKey(min[n], n + 1) /\ min[n] \in Nat
      BY <2>1, <2>3, <2>6 DEF IsLeast
    <3>5. CASE AfterEmpty(n) = {}
      <4>1. min[n + 1] = CurrKey(n + 1)
        BY <2>1, <3>4, <3>5 DEF IsLeast, SmallerKey
      <4>2. AfterEmpty(n + 1) = {n + 1}
        BY <3>2, <3>5
      <4> QED
        BY <3>1, <4>1, <4>2 DEF IsLeast
    <3>6. CASE AfterEmpty(n) # {} /\ CurrKey(n + 1) < min[n]
      <4>1. min[n + 1] = CurrKey(n + 1)
        BY <3>4, <3>6 DEF SmallerKey
      <4>2. \A m \in AfterEmpty(n) : min[n] <= CurrKey(m)
        BY <2>1 DEF IsLeast
      <4>3. \A m \in AfterEmpty(n + 1) : min[n + 1] <= CurrKey(m)
        BY <3>1, <3>2, <3>3, <3>4, <3>6, <4>1, <4>2
      <4> QED
        BY <3>1, <3>2, <4>1, <4>3 DEF IsLeast
    <3>7. CASE AfterEmpty(n) # {} /\ ~(CurrKey(n + 1) < min[n])
      <4>1. /\ min[n] > EmptyString /\ \E m \in AfterEmpty(n) : min[n] = CurrKey(m)
            /\ \A m \in AfterEmpty(n) : min[n] <= CurrKey(m)
        BY <2>1, <3>7 DEF IsLeast
      <4>2. min[n + 1] = min[n]
        BY <3>4, <3>7, <4>1 DEF SmallerKey, EmptyString
      <4>3. \A m \in AfterEmpty(n + 1) : min[n + 1] <= CurrKey(m)
        BY <3>1, <3>2, <3>4, <3>7, <4>1, <4>2
      <4> QED
        BY <3>2, <3>4, <4>1, <4>2, <4>3 DEF IsLeast
    <3> QED
      BY <3>5, <3>6, <3>7
  <2> QED
    BY <2>4, <2>5, <2>6
<1>7. \A n \in Nat : n \in G
  <2> HIDE DEF G
  <2> QED
    BY <1>5, <1>6, SetOfNumbers
<1>8. IsLeast(N, min[N])
  BY <1>1, <1>7
<1> QED
  BY <1>3, <1>8 DEF N

\* The term of a round: of the lexica after the last empty one it is the least that is left, and
\* there is none only if some lexicon has no terms.
LEMMA MinKeyIs ==
    ASSUME MergeTypes, RangesAreNotPast
    PROVE  /\ MinKey \in Nat
           /\ Merged \cap DOMAIN positions = {} => MinKey = EmptyString
           /\ Merged \cap DOMAIN positions # {} =>
                 /\ MinKey > EmptyString
                 /\ \E m \in Merged \cap DOMAIN positions : MinKey = CurrKey(m)
           /\ \A m \in Merged \cap DOMAIN positions : MinKey <= CurrKey(m)
           /\ \A m \in Merged : ~NoTerms(m)
<1>1. Len(maps) \in Nat /\ DOMAIN maps = 1..Len(maps) /\ DOMAIN positions \subseteq DOMAIN maps
  BY MapsAre DEF MergeTypes
<1>2. AfterEmpty(Len(maps)) = Merged \cap DOMAIN positions
  BY <1>1 DEF AfterEmpty, Merged
<1>3. \A m \in Merged : ~NoTerms(m)
  BY <1>1 DEF Merged
<1> QED
  BY <1>2, <1>3, LoopFindsLeast DEF IsLeast

-----------------------------------------------------------------------------
(* The merge of lexica: the steps.                                         *)

\* At first every range is at the first of its map's keys.
LEMMA MergeInitInv == MergeInit => MergeInv
<1> SUFFICES ASSUME MergeInit PROVE MergeInv
  OBVIOUS
<1>1. maps \in Seq(Lexica)
  <2>1. PICK n \in 0..NMaps : maps \in [1..n -> Lexica]
    BY DEF MergeInit, SeqOf
  <2>2. n \in Nat
    BY MergeAssumption
  <2> QED
    BY <2>1, <2>2
<1>2. /\ DOMAIN positions = DOMAIN maps /\ \A m \in DOMAIN positions : positions[m] = 0
      /\ global = <<>> /\ stage = "merge" /\ Written = {}
  BY DEF MergeInit, Written
<1>3. MergeTypes
  BY <1>1, <1>2 DEF MergeTypes, MergeInit
<1>4. RangesAreNotPast
  <2> SUFFICES ASSUME NEW m \in DOMAIN positions, ~NoTerms(m)
               PROVE  positions[m] < Cardinality(DOMAIN maps[m])
    BY <1>2 DEF RangesAreNotPast
  <2>1. IsFiniteSet(DOMAIN maps[m]) /\ DOMAIN maps[m] # {}
    BY <1>1, <1>2, MapsAre DEF NoTerms
  <2>2. Cardinality(DOMAIN maps[m]) \in Nat /\ Cardinality(DOMAIN maps[m]) # 0
    BY <2>1, FS_EmptySet, FS_CardinalityType
  <2> QED
    BY <1>2, <2>2
<1>5. Remaining
  <2> SUFFICES ASSUME NEW m \in Merged, NEW t \in DOMAIN maps[m] PROVE CurrKey(m) <= t
    BY <1>2 DEF Remaining, Merged
  <2>1. m \in DOMAIN maps /\ ~NoTerms(m)
    BY DEF NoTerms, Merged
  <2>2. DOMAIN maps[m] \in SUBSET Nat /\ IsFiniteSet(DOMAIN maps[m])
    BY <1>1, <2>1, MapsAre
  <2>3. CurrKey(m) = KeyAt(maps[m], 0) /\ 0 < Cardinality(DOMAIN maps[m])
    BY <1>2, <1>3, <1>4, <2>1, CurrKeyIs
  <2>4. \A u \in DOMAIN maps[m] : KeyAt(maps[m], 0) <= u
    BY <2>2, <2>3, KeysInOrder
  <2> QED
    BY <2>3, <2>4
<1>6. KeysIncrease /\ ValuesAreSums
  BY <1>2 DEF KeysIncrease, ValuesAreSums
<1> QED
  BY <1>3, <1>4, <1>5, <1>6 DEF MergeInv

\* What a round writes.
LEMMA RoundWrites ==
    ASSUME MergeInv, MergeRound
    PROVE  /\ maps' = maps /\ Merged' = Merged /\ Written' = Written \cup {MinKey}
           /\ global' \in Seq([term : Nat, value : Nat]) /\ Len(global') = Len(global) + 1
           /\ \A i \in 1..Len(global) : global'[i] = global[i]
           /\ global'[Len(global')] = [term |-> MinKey, value |-> MergedValue]
           /\ Last(global').term = MinKey /\ global' # <<>>
           /\ Len(global) \in Nat
<1>1. /\ maps' = maps /\ global' = Append(global, [term |-> MinKey, value |-> MergedValue])
      /\ global \in Seq([term : Nat, value : Nat])
  BY DEF MergeRound, MergeInv, MergeTypes
<1>2. MinKey \in Nat
  BY MinKeyIs DEF MergeInv
<1>3. MergedValue \in Nat
  <2> DEFINE f == [m \in AtMin |-> CurrValue(m)]
  <2>1. IsFiniteSet(AtMin)
    <3>1. AtMin \subseteq 1..Len(maps) /\ Len(maps) \in Nat
      BY MapsAre DEF AtMin, MergeInv, MergeTypes
    <3>2. IsFiniteSet(1..Len(maps))
      <4>1. 1 \in Int /\ Len(maps) \in Int
        BY <3>1
      <4> QED
        BY <4>1, FS_Interval
    <3> QED
      BY <3>1, <3>2, FS_Subset
  <2>2. ASSUME NEW m \in AtMin PROVE f[m] \in Nat
    <3>1. m \in DOMAIN positions
      BY DEF AtMin
    <3>2. CASE NoTerms(m)
      <4>1. CurrKey(m) = EmptyString
        BY <3>1, <3>2, CurrKeyIs DEF MergeInv
      <4> QED
        BY <4>1 DEF CurrValue
    <3>3. CASE ~NoTerms(m)
      <4>1. CurrKey(m) \in DOMAIN maps[m] /\ m \in DOMAIN maps
        BY <3>1, <3>3, CurrKeyIs DEF MergeInv
      <4>2. maps[m][CurrKey(m)] \in Nat
        BY <4>1, MapsAre DEF MergeInv, MergeTypes
      <4> QED
        BY <4>2 DEF CurrValue
    <3> QED
      BY <3>2, <3>3
  <2> HIDE DEF f
  <2>3. SumFunctionOnSet(f, AtMin) \in Nat
    BY <2>1, <2>2, SumType
  <2> QED
    BY <2>3 DEF f, MergedValue
<1> DEFINE g == [term |-> MinKey, value |-> MergedValue]
<1>4. g \in [term : Nat, value : Nat] /\ g.term = MinKey
  BY <1>2, <1>3
<1> HIDE DEF g
<1>5. /\ global' = Append(global, g) /\ global' \in Seq([term : Nat, value : Nat])
      /\ Len(global') = Len(global) + 1 /\ Len(global) \in Nat
      /\ \A i \in 1..Len(global) : global'[i] = global[i]
      /\ global'[Len(global')] = g /\ global' # <<>>
  BY <1>1, <1>4 DEF g
<1>6. Last(global').term = MinKey
  BY <1>4, <1>5 DEF Last
<1>7. Written' = Written \cup {MinKey}
  <2>1. DOMAIN global = 1..Len(global) /\ DOMAIN global' = 1..Len(global')
    BY <1>1, <1>5
  <2>2. Written' = {global'[i].term : i \in 1..(Len(global) + 1)}
    BY <1>5, <2>1 DEF Written
  <2>3. 1..(Len(global) + 1) = 1..Len(global) \cup {Len(global) + 1}
    BY <1>5
  <2>4. global'[Len(global) + 1].term = MinKey
    BY <1>4, <1>5
  <2>5. Written = {global[i].term : i \in 1..Len(global)}
    BY <2>1 DEF Written
  <2>6. \A i \in 1..Len(global) : global'[i].term = global[i].term
    BY <1>5
  <2> QED
    BY <2>2, <2>3, <2>4, <2>5, <2>6
<1>8. Merged' = Merged
  BY <1>1 DEF Merged, NoTerms
<1> QED
  BY <1>1, <1>5, <1>6, <1>7, <1>8 DEF g

\* Where a round leaves the ranges.
LEMMA RoundAdvances ==
    ASSUME MergeInv, MergeRound
    PROVE  /\ DOMAIN positions' = {m \in DOMAIN positions : ~Exhausted(m)}
           /\ \A m \in DOMAIN positions' :
                 /\ positions'[m] \in Nat
                 /\ m \in AtMin => positions'[m] = positions[m] + 1
                 /\ m \notin AtMin => positions'[m] = positions[m] /\ CurrKey(m)' = CurrKey(m)
           /\ positions' \in [DOMAIN positions' -> Nat]
<1>1. positions' = Advanced /\ maps' = maps
  BY DEF MergeRound
<1>2. DOMAIN positions' = {m \in DOMAIN positions : ~Exhausted(m)}
  BY <1>1 DEF Advanced
<1>3. ASSUME NEW m \in DOMAIN positions'
      PROVE  /\ positions'[m] \in Nat
             /\ m \in AtMin => positions'[m] = positions[m] + 1
             /\ m \notin AtMin => positions'[m] = positions[m] /\ CurrKey(m)' = CurrKey(m)
  <2>1. positions'[m] = IF m \in AtMin THEN positions[m] + 1 ELSE positions[m]
    BY <1>1, <1>2 DEF Advanced
  <2>2. positions[m] \in Nat
    BY <1>2, CurrKeyIs DEF MergeInv
  <2>3. positions'[m] = positions[m] => CurrKey(m)' = CurrKey(m)
    BY <1>1 DEF CurrKey
  <2> QED
    BY <2>1, <2>2, <2>3
<1>4. positions' = [m \in DOMAIN positions' |-> positions'[m]]
  BY <1>1 DEF Advanced
<1> QED
  BY <1>2, <1>3, <1>4

\* A range is erased when it comes to its end, and never before.
LEMMA RoundKeepsRanges == ASSUME MergeInv, MergeRound PROVE MergeTypes' /\ RangesAreNotPast'
<1>1. /\ maps' = maps /\ stage' = "merge" /\ stage = "merge"
  BY DEF MergeRound
<1>2. MergeTypes'
  <2>1. DOMAIN positions' \subseteq DOMAIN maps' /\ positions' \in [DOMAIN positions' -> Nat]
    BY <1>1, RoundAdvances DEF MergeInv, MergeTypes
  <2>2. global' \in Seq([term : Nat, value : Nat])
    BY RoundWrites
  <2> QED
    BY <1>1, <2>1, <2>2 DEF MergeInv, MergeTypes
<1>3. ASSUME NEW m \in DOMAIN positions', DOMAIN maps[m] # {}
      PROVE  positions'[m] < Cardinality(DOMAIN maps[m])
  <2>1. m \in DOMAIN positions /\ ~Exhausted(m)
    BY RoundAdvances
  <2>2. positions[m] \in Nat /\ m \in DOMAIN maps /\ positions[m] < Cardinality(DOMAIN maps[m])
    BY <1>3, <2>1, CurrKeyIs DEF MergeInv, NoTerms
  <2>3. Cardinality(DOMAIN maps[m]) \in Nat
    <3>1. IsFiniteSet(DOMAIN maps[m])
      BY <2>2, MapsAre DEF MergeInv, MergeTypes
    <3> QED
      BY <3>1, FS_CardinalityType
  <2>4. CASE m \in AtMin
    <3>1. positions'[m] = positions[m] + 1 /\ positions[m] + 1 # Cardinality(DOMAIN maps[m])
      BY <2>1, <2>4, RoundAdvances DEF Exhausted
    <3> QED
      BY <2>2, <2>3, <3>1
  <2>5. CASE m \notin AtMin
    BY <2>2, <2>5, RoundAdvances
  <2> QED
    BY <2>4, <2>5
<1>4. ASSUME NEW m \in DOMAIN maps, NoTerms(m) PROVE m \in DOMAIN positions'
  <2>1. m \in DOMAIN positions
    BY <1>4 DEF MergeInv, RangesAreNotPast
  <2>2. Cardinality(DOMAIN maps[m]) = 0 /\ positions[m] \in Nat
    BY <1>4, <2>1, CurrKeyIs DEF MergeInv
  <2>3. ~Exhausted(m)
    BY <2>2 DEF Exhausted
  <2> QED
    BY <2>1, <2>3, RoundAdvances
<1>5. RangesAreNotPast'
  BY <1>1, <1>3, <1>4 DEF RangesAreNotPast, NoTerms
<1> QED
  BY <1>2, <1>5

\* The key that a range comes to is the next one of its map.
LEMMA NextKey ==
    ASSUME MergeInv, MergeRound, NEW m \in Merged, m \in DOMAIN positions, NEW t \in DOMAIN maps[m],
           CurrKey(m) = MinKey
    PROVE  MinKey < t <=> m \in DOMAIN positions' /\ CurrKey(m)' <= t
<1>1. /\ m \in DOMAIN maps /\ ~NoTerms(m) /\ m \in AtMin /\ maps' = maps
      /\ DOMAIN maps[m] \in SUBSET Nat /\ IsFiniteSet(DOMAIN maps[m])
  <2>1. m \in DOMAIN maps /\ ~NoTerms(m) /\ m \in AtMin /\ maps' = maps
    BY DEF Merged, NoTerms, AtMin, MergeRound
  <2> QED
    BY <2>1, MapsAre DEF MergeInv, MergeTypes
<1>2. /\ MinKey = KeyAt(maps[m], positions[m]) /\ positions[m] \in Nat
      /\ positions[m] < Cardinality(DOMAIN maps[m]) /\ MinKey \in Nat
  BY <1>1, CurrKeyIs DEF MergeInv
<1> DEFINE n == positions[m]
<1>3. /\ Cardinality(DOMAIN maps[m]) \in Nat
      /\ n + 1 < Cardinality(DOMAIN maps[m]) =>
            \A u \in DOMAIN maps[m] : KeyAt(maps[m], n + 1) <= u <=> KeyAt(maps[m], n) < u
      /\ n + 1 = Cardinality(DOMAIN maps[m]) => \A u \in DOMAIN maps[m] : u <= KeyAt(maps[m], n)
  BY <1>1, <1>2, KeysInOrder
<1>4. CASE n + 1 = Cardinality(DOMAIN maps[m])
  <2>1. m \notin DOMAIN positions'
    BY <1>1, <1>4, RoundAdvances DEF Exhausted
  <2>2. t <= MinKey /\ t \in Nat
    BY <1>1, <1>2, <1>3, <1>4
  <2> QED
    BY <1>2, <2>1, <2>2
<1>5. CASE n + 1 < Cardinality(DOMAIN maps[m])
  <2>1. n + 1 # Cardinality(DOMAIN maps[m])
    BY <1>2, <1>3, <1>5
  <2>2. m \in DOMAIN positions' /\ positions'[m] = n + 1
    BY <1>1, <2>1, RoundAdvances DEF Exhausted
  <2>3. CurrKey(m)' = KeyAt(maps[m], n + 1)
    BY <1>1, <1>5, <2>2 DEF CurrKey
  <2> QED
    BY <1>2, <1>3, <1>5, <2>2, <2>3
<1> QED
  BY <1>2, <1>3, <1>4, <1>5

\* The round writes the least of the terms left, and every range at it goes on to the next.
LEMMA RoundKeepsRemaining == ASSUME MergeInv, MergeRound PROVE Remaining'
<1> DEFINE P == Merged \cap DOMAIN positions
<1>1. /\ maps' = maps /\ Merged' = Merged /\ Written' = Written \cup {MinKey}
      /\ Last(global').term = MinKey /\ global' # <<>>
  BY RoundWrites
<1>2. /\ MinKey \in Nat /\ (P = {} => MinKey = EmptyString)
      /\ P # {} => MinKey > EmptyString /\ \E m \in P : MinKey = CurrKey(m)
      /\ \A m \in P : MinKey <= CurrKey(m)
      /\ \A m \in Merged : ~NoTerms(m)
  BY MinKeyIs DEF MergeInv
<1>3. ASSUME NEW m \in Merged
      PROVE  m \in DOMAIN maps /\ \A t \in DOMAIN maps[m] : t \in Nat /\ t > EmptyString
  <2>1. m \in DOMAIN maps
    BY DEF Merged
  <2> QED
    BY <2>1, MapsAre DEF MergeInv, MergeTypes
<1>4. \A m \in P : CurrKey(m) \in Nat /\ CurrKey(m) \in DOMAIN maps[m]
  BY <1>2, CurrKeyIs DEF MergeInv
<1>5. ASSUME NEW m \in Merged, NEW t \in DOMAIN maps[m]
      PROVE  t \notin Written' <=> m \in DOMAIN positions' /\ CurrKey(m)' <= t
  <2>1. t \notin Written <=> m \in DOMAIN positions /\ CurrKey(m) <= t
    BY DEF MergeInv, Remaining
  <2>2. t \notin Written' <=> t \notin Written /\ t # MinKey
    BY <1>1
  <2>3. CASE m \notin DOMAIN positions
    <3>1. m \notin DOMAIN positions'
      BY <2>3, RoundAdvances
    <3> QED
      BY <2>1, <2>2, <2>3, <3>1
  <2>4. CASE m \in DOMAIN positions /\ CurrKey(m) = MinKey
    <3>1. MinKey < t <=> m \in DOMAIN positions' /\ CurrKey(m)' <= t
      BY <2>4, NextKey
    <3>2. t \in Nat /\ (MinKey < t <=> MinKey <= t /\ t # MinKey)
      BY <1>2, <1>3
    <3> QED
      BY <2>1, <2>2, <2>4, <3>1, <3>2
  <2>5. CASE m \in DOMAIN positions /\ CurrKey(m) # MinKey
    <3>1. m \notin AtMin
      BY <2>5 DEF AtMin
    <3>2. m \in DOMAIN positions' /\ CurrKey(m)' = CurrKey(m)
      BY <2>5, <3>1, RoundAdvances DEF Exhausted
    <3>3. MinKey <= CurrKey(m) /\ CurrKey(m) \in Nat /\ t \in Nat
      BY <1>2, <1>3, <1>4, <2>5
    <3>4. CurrKey(m) <= t => t # MinKey
      BY <1>2, <2>5, <3>3
    <3> QED
      BY <2>1, <2>2, <2>5, <3>2, <3>4
  <2> QED
    BY <2>3, <2>4, <2>5
<1>6. Written' \subseteq {EmptyString} \cup UNION {DOMAIN maps[m] : m \in Merged}
  <2>1. Written \subseteq {EmptyString} \cup UNION {DOMAIN maps[m] : m \in Merged}
    BY DEF MergeInv, Remaining
  <2>2. MinKey \in {EmptyString} \cup UNION {DOMAIN maps[m] : m \in Merged}
    <3>1. CASE P = {}
      BY <1>2, <3>1
    <3>2. CASE P # {}
      BY <1>2, <1>4, <3>2
    <3> QED
      BY <3>1, <3>2
  <2> QED
    BY <1>1, <2>1, <2>2
<1>7. ASSUME NEW m \in Merged, m \in DOMAIN positions' PROVE MinKey < CurrKey(m)'
  <2>1. m \in P
    BY <1>7, RoundAdvances
  <2>2. CASE CurrKey(m) = MinKey
    <3> DEFINE n == positions[m] + 1
    <3>1. m \in AtMin /\ m \in DOMAIN maps /\ m \in DOMAIN positions /\ ~NoTerms(m)
      BY <1>2, <1>3, <2>1, <2>2 DEF AtMin
    <3>2. /\ DOMAIN maps[m] \in SUBSET Nat /\ IsFiniteSet(DOMAIN maps[m])
          /\ positions[m] \in Nat /\ positions[m] < Cardinality(DOMAIN maps[m])
      BY <3>1, MapsAre, CurrKeyIs DEF MergeInv, MergeTypes
    <3>3. positions'[m] = n /\ n # Cardinality(DOMAIN maps[m])
      BY <1>7, <3>1, RoundAdvances DEF Exhausted
    <3>4. n \in Nat /\ n < Cardinality(DOMAIN maps[m])
      <4>1. Cardinality(DOMAIN maps[m]) \in Nat
        BY <3>2, FS_CardinalityType
      <4> QED
        BY <3>2, <3>3, <4>1
    <3> HIDE DEF n
    <3>5. CurrKey(m)' = KeyAt(maps[m], n)
      BY <1>1, <3>3, <3>4 DEF CurrKey
    <3>6. KeyAt(maps[m], n) \in DOMAIN maps[m]
      BY <3>2, <3>4, KeysInOrder
    <3>7. CurrKey(m)' \in DOMAIN maps[m] /\ CurrKey(m)' \in Nat
      BY <1>3, <3>5, <3>6
    <3>8. MinKey < CurrKey(m)' <=> m \in DOMAIN positions' /\ CurrKey(m)' <= CurrKey(m)'
      BY <2>1, <2>2, <3>7, NextKey
    <3> QED
      BY <1>7, <3>7, <3>8
  <2>3. CASE CurrKey(m) # MinKey
    <3>1. m \notin AtMin
      BY <2>3 DEF AtMin
    <3>2. CurrKey(m)' = CurrKey(m)
      BY <1>7, <3>1, RoundAdvances
    <3>3. MinKey <= CurrKey(m) /\ CurrKey(m) \in Nat
      BY <1>2, <1>4, <2>1
    <3> QED
      BY <1>2, <2>3, <3>2, <3>3
  <2> QED
    BY <2>2, <2>3
<1> QED
  BY <1>1, <1>5, <1>6, <1>7 DEF Remaining

\* The loop forgets no range if every lexicon has terms.
LEMMA AllAreMerged ==
    ASSUME \A m \in DOMAIN maps : ~NoTerms(m)
    PROVE  Merged = DOMAIN maps
  BY DEF Merged

\* An empty key is the last one written, and comes of an empty lexicon; the others grow.
LEMMA RoundKeepsKeys == ASSUME MergeInv, MergeRound PROVE KeysIncrease'
<1> DEFINE P == Merged \cap DOMAIN positions
<1>1. /\ maps' = maps /\ Len(global) \in Nat /\ Len(global') = Len(global) + 1
      /\ DOMAIN global = 1..Len(global) /\ DOMAIN global' = 1..Len(global')
      /\ \A i \in 1..Len(global) : global'[i] = global[i]
      /\ global'[Len(global) + 1].term = MinKey
  BY RoundWrites DEF MergeInv, MergeTypes
<1>2. /\ stage' = "merge" /\ ~Endless
      /\ DOMAIN positions # {} /\ DOMAIN positions \subseteq DOMAIN maps
  BY DEF MergeRound, MergeInv, MergeTypes
<1>3. /\ P = {} => MinKey = EmptyString
      /\ P # {} => MinKey > EmptyString /\ \E m \in P : MinKey = CurrKey(m)
  BY MinKeyIs DEF MergeInv
<1>4. /\ \A i \in 1..Len(global) : global[i].term = EmptyString => i = Len(global)
      /\ \A i \in 2..Len(global) :
            global[i].term # EmptyString => global[i - 1].term < global[i].term
  BY <1>1 DEF MergeInv, KeysIncrease
<1>5. ASSUME NEW i \in 1..Len(global'), global'[i].term = EmptyString
      PROVE  i = Len(global') /\ \E m \in DOMAIN maps' : NoTerms(m)'
  <2>1. CASE i \in 1..Len(global)
    <3>1. i = Len(global) /\ global[i].term = EmptyString
      BY <1>1, <1>4, <1>5, <2>1
    <3>2. global # <<>> /\ Last(global).term = EmptyString
      BY <1>1, <2>1, <3>1 DEF Last
    <3> QED
      BY <1>2, <3>2 DEF Endless
  <2>2. CASE i \notin 1..Len(global)
    <3>1. i = Len(global) + 1
      BY <1>1, <2>2
    <3>2. MinKey = EmptyString
      BY <1>1, <1>5, <3>1
    <3>3. P = {}
      BY <1>3, <3>2 DEF EmptyString
    <3>4. Merged # DOMAIN maps
      BY <1>2, <3>3
    <3>5. \E m \in DOMAIN maps : NoTerms(m)
      BY <3>4, AllAreMerged
    <3> QED
      BY <1>1, <3>1, <3>5 DEF NoTerms
  <2> QED
    BY <2>1, <2>2
<1>6. ASSUME NEW i \in 2..Len(global'), global'[i].term # EmptyString
      PROVE  global'[i - 1].term < global'[i].term
  <2>1. CASE i \in 2..Len(global)
    <3>1. i \in 1..Len(global) /\ i - 1 \in 1..Len(global)
      BY <1>1, <2>1
    <3> QED
      BY <1>1, <1>4, <1>6, <2>1, <3>1
  <2>2. CASE i \notin 2..Len(global)
    <3>1. i = Len(global) + 1 /\ i - 1 = Len(global) /\ Len(global) \in 1..Len(global)
      BY <1>1, <2>2
    <3>2. MinKey # EmptyString /\ global'[i].term = MinKey
      BY <1>1, <1>6, <3>1
    <3>3. PICK m \in P : MinKey = CurrKey(m)
      BY <1>3, <3>2
    <3>4. Last(global).term < CurrKey(m)
      <4>1. global # <<>>
        BY <1>1, <3>1
      <4> QED
        BY <1>2, <4>1 DEF MergeInv, Remaining
    <3>5. Last(global) = global'[i - 1]
      BY <1>1, <3>1 DEF Last
    <3> QED
      BY <3>2, <3>3, <3>4, <3>5
  <2> QED
    BY <2>1, <2>2
<1> QED
  BY <1>1, <1>2, <1>5, <1>6 DEF KeysIncrease

\* When every lexicon has terms, the ranges that are at the term of the round are all the lexica
\* that have it.
LEMMA RoundSums ==
    ASSUME MergeInv, MergeRound, Merged = DOMAIN maps
    PROVE  MergedValue = ValueIn(MinKey)
<1>1. /\ DOMAIN positions # {} /\ DOMAIN positions \subseteq DOMAIN maps
      /\ maps \in Seq(Lexica)
  BY DEF MergeRound, MergeInv, MergeTypes
<1>2. /\ MinKey \in Nat /\ MinKey > EmptyString
      /\ \E m \in DOMAIN positions : MinKey = CurrKey(m)
      /\ \A m \in DOMAIN positions : MinKey <= CurrKey(m)
      /\ \A m \in DOMAIN maps : ~NoTerms(m)
  <2>1. Merged \cap DOMAIN positions = DOMAIN positions
    BY <1>1
  <2> QED
    BY <1>1, <2>1, MinKeyIs DEF MergeInv
<1>3. \A m \in DOMAIN positions : CurrKey(m) \in DOMAIN maps[m] /\ CurrKey(m) \in Nat
  BY <1>1, <1>2, CurrKeyIs DEF MergeInv
<1>4. \A m \in DOMAIN maps : \A t \in DOMAIN maps[m] :
         t \notin Written <=> m \in DOMAIN positions /\ CurrKey(m) <= t
  BY DEF MergeInv, Remaining
<1>5. MinKey \notin Written
  <2>1. PICK m \in DOMAIN positions : MinKey = CurrKey(m)
    BY <1>2
  <2>2. m \in DOMAIN maps /\ MinKey \in DOMAIN maps[m] /\ CurrKey(m) <= MinKey
    BY <1>1, <1>2, <1>3, <2>1
  <2> QED
    BY <1>4, <2>2
<1> DEFINE with == {m \in DOMAIN maps : MinKey \in DOMAIN maps[m]}
<1>6. AtMin = with
  <2>1. ASSUME NEW m \in AtMin PROVE m \in with
    <3>1. m \in DOMAIN positions /\ CurrKey(m) = MinKey
      BY DEF AtMin
    <3> QED
      BY <1>1, <1>3, <3>1
  <2>2. ASSUME NEW m \in with PROVE m \in AtMin
    <3>1. m \in DOMAIN positions /\ CurrKey(m) <= MinKey
      BY <1>4, <1>5
    <3>2. MinKey <= CurrKey(m) /\ CurrKey(m) \in Nat
      BY <1>2, <1>3, <3>1
    <3>3. CurrKey(m) = MinKey
      BY <1>2, <3>1, <3>2
    <3> QED
      BY <3>1, <3>3 DEF AtMin
  <2> HIDE DEF with
  <2> QED
    BY <2>1, <2>2
<1>7. \A m \in AtMin : CurrValue(m) = maps[m][MinKey]
  BY <1>2 DEF AtMin, CurrValue, EmptyString
<1>8. [m \in AtMin |-> CurrValue(m)] = [m \in with |-> maps[m][MinKey]]
  <2> HIDE DEF with
  <2> QED
    BY <1>6, <1>7
<1>9. ValueIn(MinKey) = SumFunctionOnSet([m \in with |-> maps[m][MinKey]], with)
  BY DEF ValueIn
<1> HIDE DEF with
<1> QED
  BY <1>6, <1>8, <1>9 DEF MergedValue

\* The value written with a term is the sum of those of the lexica that have it.
LEMMA RoundKeepsValues == ASSUME MergeInv, MergeRound PROVE ValuesAreSums'
<1>1. /\ maps' = maps /\ Merged' = Merged /\ Len(global) \in Nat /\ Len(global') = Len(global) + 1
      /\ DOMAIN global = 1..Len(global) /\ DOMAIN global' = 1..Len(global')
      /\ \A i \in 1..Len(global) : global'[i] = global[i]
      /\ global'[Len(global) + 1].term = MinKey /\ global'[Len(global) + 1].value = MergedValue
  BY RoundWrites DEF MergeInv, MergeTypes
<1>2. \A t : ValueIn(t)' = ValueIn(t)
  BY <1>1 DEF ValueIn
<1> SUFFICES ASSUME Merged = DOMAIN maps, NEW i \in 1..Len(global')
             PROVE  global'[i].value = ValueIn(global'[i].term)
  <2>1. (\A i \in DOMAIN global : global[i].value = ValueIn(global[i].term))'
          <=> \A i \in DOMAIN global' : global'[i].value = ValueIn(global'[i].term)
    BY <1>1 DEF ValueIn
  <2> QED
    BY <1>1, <2>1 DEF ValuesAreSums
<1>3. CASE i \in 1..Len(global)
  BY <1>1, <1>3 DEF MergeInv, ValuesAreSums
<1>4. CASE i \notin 1..Len(global)
  <2>1. i = Len(global) + 1
    BY <1>1, <1>4
  <2> QED
    BY <1>1, <2>1, RoundSums
<1> QED
  BY <1>3, <1>4

\* finalize() is called when no range is left, and an empty one is never erased.
LEMMA FinalizeKeepsInv == ASSUME MergeInv, MergeFinalize PROVE MergeInv'
<1>1. /\ maps' = maps /\ positions' = positions /\ global' = global /\ stage' = "finalized"
      /\ DOMAIN positions = {}
  BY DEF MergeFinalize
<1>2. \A m \in DOMAIN maps : ~NoTerms(m)
  BY <1>1 DEF MergeInv, RangesAreNotPast
<1>3. MergeTypes'
  BY <1>1 DEF MergeInv, MergeTypes
<1>4. RangesAreNotPast'
  BY <1>1 DEF MergeInv, RangesAreNotPast, NoTerms
<1>5. Remaining'
  BY <1>1 DEF MergeInv, Remaining, Merged, NoTerms, Written, CurrKey, Endless
<1>6. KeysIncrease'
  BY <1>1, <1>2 DEF MergeInv, KeysIncrease, NoTerms
<1>7. ValuesAreSums'
  BY <1>1 DEF MergeInv, ValuesAreSums, Merged, NoTerms, ValueIn
<1> QED
  BY <1>3, <1>4, <1>5, <1>6, <1>7 DEF MergeInv

\* The invariant is inductive.
LEMMA MergeNextKeepsInv == MergeInv /\ [MergeNext]_mergeVars => MergeInv'
<1> SUFFICES ASSUME MergeInv, [MergeNext]_mergeVars PROVE MergeInv'
  OBVIOUS
<1>1. CASE MergeRound
  <2>1. MergeTypes' /\ RangesAreNotPast'
    BY <1>1, RoundKeepsRanges
  <2>2. Remaining'
    BY <1>1, RoundKeepsRemaining
  <2>3. KeysIncrease'
    BY <1>1, RoundKeepsKeys
  <2>4. ValuesAreSums'
    BY <1>1, RoundKeepsValues
  <2> QED
    BY <2>1, <2>2, <2>3, <2>4 DEF MergeInv
<1>2. CASE MergeFinalize
  BY <1>2, FinalizeKeepsInv
<1>3. CASE UNCHANGED mergeVars
  <2>1. maps' = maps /\ positions' = positions /\ global' = global /\ stage' = stage
    BY <1>3 DEF mergeVars
  <2>2. MergeTypes' /\ RangesAreNotPast'
    BY <2>1 DEF MergeInv, MergeTypes, RangesAreNotPast, NoTerms
  <2>3. Remaining'
    BY <2>1 DEF MergeInv, Remaining, Merged, NoTerms, Written, CurrKey, Endless
  <2>4. KeysIncrease' /\ ValuesAreSums'
    BY <2>1 DEF MergeInv, KeysIncrease, ValuesAreSums, Merged, NoTerms, ValueIn
  <2> QED
    BY <2>2, <2>3, <2>4 DEF MergeInv
<1>4. CASE MergeTerminated
  BY <1>3, <1>4 DEF MergeTerminated
<1> QED
  BY <1>1, <1>2, <1>3, <1>4 DEF MergeNext

-----------------------------------------------------------------------------
(* The merge of lexica: theorems.                                          *)

\* Each range of a lexicon after the last empty one is at the first of its terms that has not been
\* written, and the values written are the sums, whatever ranges have left the list.
THEOREM MergeInvariant == MergeSpec => []MergeInv
<1> QED
  BY MergeInitInv, MergeNextKeepsInv, PTL DEF MergeSpec

\* The merge gives disk_map_writer::add keys that are not empty and grow, as it asserts
\* (builder.hpp:97), up to the key of a lexicon without terms, and only of such a one; finalize()
\* is not reached then.
THEOREM MergedKeysIncrease == MergeSpec => []KeysIncrease
<1>1. MergeInv => KeysIncrease
  BY DEF MergeInv
<1> QED
  BY <1>1, MergeInvariant, PTL

\* No term is lost or read again by the merge: whatever was written, the others are what is left,
\* and a term's value is the sum of those of all the lexica that have it.
THEOREM MergeLosesNothing == MergeSpec => []NothingIsLost
<1>1. ASSUME MergeInv PROVE NothingIsLost
  <2> DEFINE left == UNION {{t \in DOMAIN maps[m] : t >= CurrKey(m)} :
                              m \in Merged \cap DOMAIN positions}
             all == UNION {DOMAIN maps[m] : m \in Merged}
  <2>1. \A m \in Merged : \A t \in DOMAIN maps[m] :
           t \notin Written <=> m \in DOMAIN positions /\ CurrKey(m) <= t
    BY <1>1 DEF MergeInv, Remaining
  <2>2. ASSUME NEW m \in Merged \cap DOMAIN positions, NEW t \in DOMAIN maps[m]
        PROVE  t >= CurrKey(m) <=> CurrKey(m) <= t
    <3>1. CurrKey(m) \in Nat /\ m \in DOMAIN maps
      BY <1>1, CurrKeyIs DEF MergeInv
    <3>2. t \in Nat
      BY <1>1, <3>1, MapsAre DEF MergeInv, MergeTypes
    <3> QED
      BY <3>1, <3>2
  <2>3. left \subseteq all \ Written
    BY <2>1, <2>2
  <2>4. all \ Written \subseteq left
    <3> SUFFICES ASSUME NEW m \in Merged, NEW t \in DOMAIN maps[m], t \notin Written
                 PROVE  t \in left
      OBVIOUS
    <3>1. m \in Merged \cap DOMAIN positions /\ CurrKey(m) <= t
      BY <2>1
    <3> QED
      BY <2>2, <3>1
  <2>5. left = all \ Written
    BY <2>3, <2>4
  <2>6. Merged = DOMAIN maps => \A i \in DOMAIN global : global[i].value = ValueIn(global[i].term)
    BY <1>1 DEF MergeInv, ValuesAreSums
  <2>7. left = all \ {global[i].term : i \in DOMAIN global}
    BY <2>5 DEF Written
  <2> QED
    BY ONLY <2>6, <2>7 DEF NothingIsLost
<1> QED
  BY <1>1, MergeInvariant, PTL
=============================================================================
