---------------------------- MODULE LexiconMerge ----------------------------
(***************************************************************************)
(* codes::merge of src/codes/diskmap/builder.hpp, as builder.cpp uses it:  *)
(* the local lexica, each a disk map sorted by term, are merged into the   *)
(* global lexicon, and the values of a term are added up.  A step is one   *)
(* round of the outer loop, which writes one term.                         *)
(*                                                                         *)
(* A term is a positive number, ordered like the strings it stands for;    *)
(* EmptyString is smaller than every term.                                 *)
(***************************************************************************)
EXTENDS Integers, Sequences, FiniteSets, SequencesExt, FiniteSetsExt

CONSTANTS
    NTerms,      \* bound: the terms are 1..NTerms
    NMaps,       \* bound: how many maps are merged
    MaxValue     \* bound: the values are 1..MaxValue

ASSUME MergeAssumption == NTerms \in Nat /\ NMaps \in Nat /\ MaxValue \in Nat

Terms == 1..NTerms
EmptyString == 0

VARIABLES
    maps,       \* the input: a sequence of functions term |-> value
    positions,  \* the list of ranges not yet exhausted: the map of each, in the
                \* order of the maps |-> the index of its datum, from 0
    global,     \* the terms and values written, in order
    stage

mergeVars == <<maps, positions, global, stage>>

Lexica == UNION {[T -> 1..MaxValue] : T \in SUBSET Terms}

MergeInit ==
    /\ maps \in SeqOf(Lexica, NMaps)
    /\ positions = [m \in DOMAIN maps |-> 0]
    /\ global = <<>>
    /\ stage = "merge"

-----------------------------------------------------------------------------
(* The iterators of the maps, as reader.hpp defines them.                  *)

\* The key after the first index ones, in order.
KeyAt(lexicon, index) ==
    CHOOSE t \in DOMAIN lexicon :
      Cardinality({u \in DOMAIN lexicon : u < t}) = index

\* A map with no datum leaves the iterator's current pair as it was built: the
\* empty string and zero.
CurrKey(m) ==
    IF positions[m] < Cardinality(DOMAIN maps[m]) THEN KeyAt(maps[m], positions[m])
    ELSE EmptyString

CurrValue(m) == IF CurrKey(m) = EmptyString THEN 0 ELSE maps[m][CurrKey(m)]

-----------------------------------------------------------------------------
(* One round.                                                              *)

\* An empty min counts as no minimum yet.
SmallerKey(min, m) ==
    IF min = EmptyString \/ CurrKey(m) < min THEN CurrKey(m) ELSE min

\* The min after the ranges of the first n maps.
MinUpTo(n) ==
    LET min[m \in 0..n] ==
            IF m = 0 THEN EmptyString
            ELSE IF m \in DOMAIN positions THEN SmallerKey(min[m - 1], m) ELSE min[m - 1]
    IN  min[n]

\* Mutant: the last range of the list is not looked at.
MinKeyOfAllButLast ==
    IF Cardinality(DOMAIN positions) = 1 THEN MinUpTo(Len(maps))
    ELSE MinUpTo(Max(DOMAIN positions) - 1)

MinKey == MinUpTo(Len(maps))

AtMin == {m \in DOMAIN positions : CurrKey(m) = MinKey}

\* Mutant: the first value stands for all of them.
FirstValue == CurrValue(Min(AtMin))

MergedValue == SumFunctionOnSet([m \in AtMin |-> CurrValue(m)], AtMin)

\* Only a range that is advanced is tested for its end, so one that is empty to
\* begin with is past it.
Exhausted(m) == m \in AtMin /\ positions[m] + 1 = Cardinality(DOMAIN maps[m])

\* Mutant: only the first of the ranges with the term is advanced.
FirstAdvanced ==
    [m \in {n \in DOMAIN positions : ~(n = Min(AtMin) /\ Exhausted(n))} |->
       IF m = Min(AtMin) THEN positions[m] + 1 ELSE positions[m]]

Advanced ==
    [m \in {n \in DOMAIN positions : ~Exhausted(n)} |->
       IF m \in AtMin THEN positions[m] + 1 ELSE positions[m]]

\* The key of a range that was empty to begin with has been written: it is there
\* for ever.
Endless == global # <<>> /\ Last(global).term = EmptyString

MergeRound ==
    /\ stage = "merge"
    /\ DOMAIN positions # {}
    /\ ~Endless
    /\ global' = Append(global, [term |-> MinKey, value |-> MergedValue])
    /\ positions' = Advanced
    /\ UNCHANGED <<maps, stage>>

MergeFinalize ==
    /\ stage = "merge"
    /\ DOMAIN positions = {}
    /\ stage' = "finalized"
    /\ UNCHANGED <<maps, positions, global>>

\* The rounds that write nothing but the empty key are left out.
MergeTerminated ==
    /\ stage = "finalized" \/ Endless
    /\ UNCHANGED mergeVars

MergeNext == MergeRound \/ MergeFinalize \/ MergeTerminated

MergeSpec == MergeInit /\ [][MergeNext]_mergeVars

FairMergeSpec == MergeSpec /\ WF_mergeVars(MergeNext)

-----------------------------------------------------------------------------
(* Properties.                                                             *)

NoTerms(m) == DOMAIN maps[m] = {}

\* disk_map_writer::add asserts that a key is not empty and is greater than the
\* one before it (builder.hpp:97): the blocks' heads are searched by bisection
\* and the shared prefixes are decoded in that order.  So it is, unless a lexicon
\* has no terms: its range is never erased (257-259), and its empty key is added,
\* for ever, once the lexica after it have been merged.
KeysIncrease ==
    /\ \A i \in DOMAIN global : global[i].term = EmptyString =>
          i = Len(global) /\ \E m \in DOMAIN maps : NoTerms(m)
    /\ \A i \in 2..Len(global) :
          global[i].term # EmptyString => global[i-1].term < global[i].term
    /\ stage = "finalized" => \A m \in DOMAIN maps : ~NoTerms(m)

\* The lexica after the last one without terms: its empty key is the minimum of
\* the ranges up to it, and an empty minimum counts as none (line 237), so that
\* the ranges before it are not looked at until those after it have ended.
Merged == {m \in DOMAIN maps : \A e \in DOMAIN maps : NoTerms(e) => e < m}

ValueIn(t) ==
    LET with == {m \in DOMAIN maps : t \in DOMAIN maps[m]}
    IN  SumFunctionOnSet([m \in with |-> maps[m][t]], with)

\* Whatever has been written so far, the terms still to be read are exactly the
\* others, and a term is written with the sum of its frequencies in all the
\* chunks, though its values were read from ranges that were at different
\* positions and some of which have left the list since.  When a lexicon has no
\* terms, this is so of the terms of the lexica after it only, and not of values.
NothingIsLost ==
    LET written == {global[i].term : i \in DOMAIN global}
        left    == UNION {{t \in DOMAIN maps[m] : t >= CurrKey(m)} :
                          m \in Merged \cap DOMAIN positions}
    IN  /\ left = (UNION {DOMAIN maps[m] : m \in Merged}) \ written
        /\ Merged = DOMAIN maps =>
              \A i \in DOMAIN global : global[i].value = ValueIn(global[i].term)

\* The merge reaches finalize() with each term written once and its frequencies
\* added up, unless a lexicon has no terms: the outer loop has no other exit than
\* an empty list of ranges.
MergeEnds ==
    <>(\/ /\ stage = "finalized"
          /\ Len(global) = Cardinality(UNION {DOMAIN maps[m] : m \in DOMAIN maps})
       \/ Endless)
=============================================================================
