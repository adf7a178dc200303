------------------------------ MODULE DiskMap -------------------------------
(***************************************************************************)
(* codes::disk_map_writer and codes::disk_map: a sorted map packed in      *)
(* blocks of B bytes, iterated, and searched by the keys of the blocks'    *)
(* first data (src/codes/diskmap).                                         *)
(*                                                                         *)
(* A datum is known by its key and takes bytes: its values, and either the *)
(* index that starts a block or the end of a key.  The i-th key is 2i, so  *)
(* that a search can fall between two keys.                                *)
(***************************************************************************)
EXTENDS Integers, Sequences, FiniteSets, SequencesExt, FiniteSetsExt

CONSTANTS
    B,            \* the size of a block
    KeyBytes,     \* the bytes of a common length and the rest of a key
    ValueBytes,   \* the bytes that a value may take
    MaxEntries    \* bound: the entries of the map

ASSUME DiskMapAssumption ==
    /\ B \in Nat /\ KeyBytes \in Nat /\ B > KeyBytes /\ KeyBytes >= 3
    /\ ValueBytes \subseteq Nat \ {0}
    /\ MaxEntries \in Nat \ {0}

IndexBytes == 1   \* the encoded index of a block's first datum

VARIABLES
    \* the writer
    heads, current_bytes, n_strings,
    tellp,         \* the stream's position, from the end of the metadata
    data,          \* on disk: where each datum starts |-> the datum
    \* the reader
    index_string,  \* the blocks' first keys and their indices
    it,            \* the iterator
    end_index,     \* where the search or the iteration stops
    query, result, pc

writerVars == <<heads, current_bytes, n_strings, tellp, data>>
readerVars == <<index_string, it, end_index, query, result>>
vars == <<writerVars, readerVars, pc>>

Key(i) == 2 * i
Keys == {Key(i) : i \in 1..n_strings}
Queries == 1 .. (Key(n_strings) + 1)

Init ==
    /\ heads = <<>> /\ current_bytes = 0 /\ n_strings = 0
    /\ tellp = 0 /\ data = <<>>
    /\ index_string = <<>>
    /\ it = <<>> /\ end_index = 0 /\ query = 0 /\ result = "none"
    /\ pc = "write"

-----------------------------------------------------------------------------
(* The writer.                                                             *)

Aligned(offset) == ((offset + B - 1) \div B) * B

Write(offset, datum) ==
    data' = [o \in DOMAIN data \cup {offset} |-> IF o = offset THEN datum ELSE data[o]]

NewBlock(bytes) ==
    LET start == Aligned(tellp)
    IN  /\ heads' = Append(heads, Key(n_strings + 1))
        /\ Write(start, [key |-> Key(n_strings + 1), head |-> TRUE,
                         b_i |-> n_strings, bytes |-> IndexBytes + bytes])
        /\ tellp' = start + IndexBytes + bytes
        /\ current_bytes' = IndexBytes + bytes

SameBlock(bytes) ==
    /\ Write(tellp, [key |-> Key(n_strings + 1), head |-> FALSE, bytes |-> KeyBytes + bytes])
    /\ tellp' = tellp + KeyBytes + bytes
    /\ current_bytes' = current_bytes + KeyBytes + bytes
    /\ UNCHANGED heads

Fits(bytes) == heads # <<>> /\ current_bytes + KeyBytes + bytes <= B

Add(bytes) ==
    /\ pc = "write" /\ n_strings < MaxEntries
    /\ IF Fits(bytes) THEN SameBlock(bytes) ELSE NewBlock(bytes)
    /\ n_strings' = n_strings + 1
    /\ UNCHANGED <<readerVars, pc>>

\* finalize writes the heads after the blocks and the counts in front.
Finalize ==
    /\ pc = "write" /\ n_strings > 0
    /\ tellp' = Aligned(tellp)
    /\ pc' = "load"
    /\ UNCHANGED <<heads, current_bytes, n_strings, data, readerVars>>

-----------------------------------------------------------------------------
(* The reader.  Bytes that are not a datum of the kind expected decode to  *)
(* anything: the reader is then "undefined".                               *)

StartsBlock(offset) == offset \in DOMAIN data /\ data[offset].head

\* The constructor reads the index of every block but the first.
Load ==
    /\ pc = "load"
    /\ IF \A k \in 2..Len(heads) : StartsBlock(B * (k - 1))
       THEN /\ index_string' = [k \in DOMAIN heads |->
                   [key |-> heads[k], index |-> IF k = 1 THEN 0 ELSE data[B * (k - 1)].b_i]]
            /\ pc' = "ready"
       ELSE pc' = "undefined" /\ UNCHANGED index_string
    /\ UNCHANGED <<writerVars, it, end_index, query, result>>

\* What the rest of a block looks like: not worth a look, or zeros.  (Mutants:
\* it is never taken for padding, or always.)
NoPadding(offset) == FALSE
OnlyPadding(offset) == offset % B # 0
Padding(offset) ==
    offset % B # 0 /\ ((offset % B) + 2 >= B \/ offset \notin DOMAIN data)

NextOffset(offset) == IF Padding(offset) THEN Aligned(offset) ELSE offset

Parsable(offset) == offset \in DOMAIN data /\ (data[offset].head <=> offset % B = 0)

\* An iterator at the index-th datum, at an offset, with block the block of the
\* datum before.  A block's first datum has its key in index_string.
Parsed(offset, index, block) ==
    LET b == IF offset % B = 0 THEN block + 1 ELSE block
    IN  [offset |-> offset, next |-> NextOffset(offset + data[offset].bytes),
         index |-> index, block |-> b,
         key |-> IF offset % B = 0 THEN index_string[b].key ELSE data[offset].key]

AtBlock(k) == Parsed(B * (k - 1), index_string[k].index, k - 1)

Step(offset, index, block) ==
    IF index >= n_strings
    THEN it' = [it EXCEPT !.offset = offset, !.index = index] /\ UNCHANGED pc
    ELSE IF Parsable(offset)
         THEN it' = Parsed(offset, index, block) /\ UNCHANGED pc
         ELSE pc' = "undefined" /\ UNCHANGED it

Advance == Step(it.next, it.index + 1, it.block)

\* begin() to end()
Iterate ==
    /\ pc = "ready"
    /\ it' = AtBlock(1) /\ end_index' = n_strings
    /\ pc' = "iterate"
    /\ UNCHANGED <<writerVars, index_string, query, result>>

IterateNext ==
    /\ pc = "iterate" /\ it.index # end_index
    /\ Advance
    /\ UNCHANGED <<writerVars, index_string, end_index, query, result>>

IterateEnd ==
    /\ pc = "iterate" /\ it.index = end_index
    /\ pc' = "ready" /\ it' = <<>> /\ end_index' = 0
    /\ UNCHANGED <<writerVars, index_string, query, result>>

\* lower_bound: the first block whose head is not before the query.
LowerBound(q) ==
    Min({k \in DOMAIN index_string : index_string[k].key >= q} \cup {Len(index_string) + 1})

\* The index of the first datum after a block; the mutant's excludes the last.
BlockEndEarly(k) == (IF k = Len(index_string) THEN n_strings ELSE index_string[k + 1].index) - 1
BlockEnd(k) == IF k = Len(index_string) THEN n_strings ELSE index_string[k + 1].index

Find(q) ==
    /\ pc = "ready"
    /\ query' = q
    /\ LET k == LowerBound(q)
       IN  CASE k <= Len(index_string) /\ index_string[k].key = q ->
                  pc' = "found" /\ it' = AtBlock(k) /\ result' = "element" /\ UNCHANGED end_index
             [] k = 1 /\ index_string[k].key # q ->
                  pc' = "undefined" /\ UNCHANGED <<it, end_index, result>>
             [] OTHER ->
                  /\ it' = AtBlock(k - 1)
                  /\ end_index' = BlockEnd(k - 1)
                  /\ pc' = "find" /\ UNCHANGED result
    /\ UNCHANGED <<writerVars, index_string>>

FindNext ==
    /\ pc = "find" /\ it.index # end_index /\ it.key < query
    /\ Advance
    /\ UNCHANGED <<writerVars, index_string, end_index, query, result>>

FindEnd ==
    /\ pc = "find" /\ ~(it.index # end_index /\ it.key < query)
    /\ result' = IF it.index # end_index /\ it.key = query THEN "element" ELSE "end"
    /\ pc' = "found"
    /\ UNCHANGED <<writerVars, index_string, it, end_index, query>>

Return ==
    /\ pc = "found"
    /\ it' = <<>> /\ end_index' = 0 /\ query' = 0 /\ result' = "none"
    /\ pc' = "ready"
    /\ UNCHANGED <<writerVars, index_string>>

\* What a reader does outside the data is not modelled.
Astray ==
    /\ pc = "undefined"
    /\ UNCHANGED vars

Next ==
    \/ \E bytes \in ValueBytes : Add(bytes)
    \/ Finalize \/ Load
    \/ Iterate \/ IterateNext \/ IterateEnd
    \/ \E q \in Queries : Find(q)
    \/ FindNext \/ FindEnd \/ Return
    \/ Astray

Spec == Init /\ [][Next]_vars

-----------------------------------------------------------------------------
(* Properties.                                                             *)

\* No value is larger than a block, which the writer does not check.
EntriesFit == \A o \in DOMAIN data : data[o].bytes <= B

\* The iterator is at the datum that its index says, though it tells the bytes
\* left over at the end of a block from a datum by looking at them, and it never
\* takes one for the other (reader.hpp:166-173).
IteratorIsAligned ==
    pc \in {"iterate", "find", "found"} /\ it.index < n_strings =>
       it.key = Key(it.index + 1)

\* find returns an iterator to the key if the map has it and end() otherwise,
\* for a key that is the first of a block, the last, or between two blocks.
FindIsLookup == pc = "found" => result = (IF query \in Keys THEN "element" ELSE "end")

\* The reader reads data only, with one exception: find leaves the map for
\* every key before the first (reader.hpp:242-250), though it promises end() for
\* a key without a match (reader.hpp:227).
ReaderStaysInMap ==
    EntriesFit => (pc = "undefined" <=> query \in 1..(Key(1) - 1))

=============================================================================
