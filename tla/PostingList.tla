---------------------------- MODULE PostingList -----------------------------
(***************************************************************************)
(* One posting list: how write_sigma_lexicon (src/builder.cpp) divides it  *)
(* into blocks with a skip pointer each, and how the iterator of           *)
(* src/index/Index.cpp uses the pointers to find documents.                *)
(*                                                                         *)
(* Posting i is at position i of the docid stream, whatever the bytes of   *)
(* its docid; frequencies are a bit stream (UnaryBits).  A score is an     *)
(* integer; the scorers increase with the frequency, and the frequency     *)
(* stands for the score.                                                   *)
(***************************************************************************)
EXTENDS UnaryBits, FiniteSetsExt

CONSTANTS
    SKIP_BLOCK_SIZE,
    MaxPostings,        \* bound: the postings of the list
    MaxFreq,            \* bound: their frequencies
    Precision           \* the scores that one step of fixed_point_factor spans

ASSUME PostingAssumption ==
    /\ SKIP_BLOCK_SIZE \in Nat \ {0} /\ MaxPostings \in Nat \ {0}
    /\ MaxFreq \in Nat \ {0} /\ Precision \in Nat \ {0}

VARIABLES
    freqs,          \* the list's frequencies, one per posting
    file,           \* the file of frequencies from the list's first bit, and
                    \* what follows the list in it
    docid_after,    \* what the bytes after the list's decode to as a docid
    it,             \* the iterator
    skip_pointers,  \* of the SigmaLexiconValue
    block_off,      \* pl_curr_block_off, where the block being scored starts
    block_ub,       \* current_skip's upper bound
    sigma,          \* the list's upper bound
    pc,
    target,         \* the docid asked for
    from            \* history: the position at the call

fileVars == <<freqs, file, docid_after>>
skipVars == <<skip_pointers, block_off, block_ub, sigma>>
vars == <<fileVars, it, skipVars, pc, target, from>>

NPostings == Len(freqs)
EndPosition == NPostings + 1

\* The documents with the term: every other one, for queries to fall between.
Docid(i) == 2 * i
Docids == 1 .. 2 * MaxPostings + 1

\* No document has docid 0, which is what zeros after the end of a file are.
DocidAt(i) == IF i <= NPostings THEN Docid(i) ELSE docid_after

-----------------------------------------------------------------------------
(* Iterators: a position among the docids, and for the frequencies the bit *)
(* the decoder is on, the bit of its byte where the datum started, and the *)
(* datum.                                                                  *)

Parsed(bit) ==
    LET zero == ZeroFrom(file, bit)
    IN  [bit |-> zero, start |-> bit % ByteBits, datum |-> zero - bit + 1]

BeginIterator ==
    LET f == Parsed(0)
    IN  [position |-> 1, freq |-> f,
         current |-> <<DocidAt(1), f.datum>>, block |-> 1]

\* The decoder's operator++ does not parse at the end of the bytes.
NextFreq(f) ==
    IF Byte(f.bit + 1) = BytesOf(freqs) THEN [f EXCEPT !.bit = @ + 1] ELSE Parsed(f.bit + 1)

\* At the end, the docids stay where they are.
Incremented(i) ==
    LET position == Min({i.position + 1, EndPosition})
        f        == NextFreq(i.freq)
    IN  [i EXCEPT !.position = position, !.freq = f,
                  !.current = IF position = EndPosition THEN @ ELSE <<DocidAt(position), f.datum>>]

\* The specialisation for skip lists also moves to the next block.
MovedOn(i) ==
    LET next == Incremented(i)
    IN  IF /\ next.position # EndPosition
           /\ i.block <= Len(skip_pointers)
           /\ next.current[1] > skip_pointers[i.block].last_docid
        THEN [next EXCEPT !.block = @ + 1]
        ELSE next

AtEnd(i) == i.position = EndPosition
NoMoreBlocks(i) == i.block > Len(skip_pointers)

\* get_offset: of the byte the decoder is on, counted from the one it is on
\* after the first datum, and of the bit where the datum started.
Offset(i) ==
    [docid_off |-> i.position,
     freq_off  |-> [byte |-> Byte(i.freq.bit) - Byte(BeginIterator.freq.bit),
                    bit  |-> i.freq.start]]

\* decoder.at(offset)
FreqAt(freq_off) == Parsed(ByteBits * freq_off.byte + freq_off.bit)

Init ==
    /\ freqs \in SeqOf(1..MaxFreq, MaxPostings) \ {<<>>}
    /\ \E b \in {0, 1} : file = FileOf(freqs, [k \in 1..ByteBits |-> b])
    /\ docid_after \in {0, 1}
    /\ it = BeginIterator
    /\ skip_pointers = <<>>
    /\ block_off = Offset(BeginIterator)
    /\ block_ub = 0 /\ sigma = 0
    /\ pc = "score"
    /\ target = 0
    /\ from = 1

-----------------------------------------------------------------------------
(* write_sigma_lexicon, for the term of the list.                          *)

\* What deserialize makes of a score that serialize wrote.
FixedPoint(score) == (score \div Precision) * Precision

\* Mutant: the next block starts with the posting just scored.
NextBlockOffsetSame == Offset(it)
NextBlockOffset == Offset(Incremented(it))

\* Mutant: the bound is that of the last posting.
RaisedToLast == it.current[2]
Raised == Max({block_ub, it.current[2]})

BuildSkip(ub) ==
    /\ skip_pointers' = Append(skip_pointers,
          [last_docid |-> it.current[1], ub |-> FixedPoint(ub),
           docid_offset |-> block_off.docid_off, freq_offset |-> block_off.freq_off])
    /\ block_ub' = 0
    /\ block_off' = NextBlockOffset

\* Mutant: the loop counts from 0.
BlockEndsFromZero == (it.position - 1) % SKIP_BLOCK_SIZE = 0
BlockEnds == it.position % SKIP_BLOCK_SIZE = 0

\* The loop counts its rounds from 1: its counter is the iterator's position.
ScorePosting ==
    /\ pc = "score" /\ ~AtEnd(it)
    /\ IF BlockEnds
       THEN BuildSkip(Raised)
       ELSE block_ub' = Raised /\ UNCHANGED <<skip_pointers, block_off>>
    /\ sigma' = Max({sigma, it.current[2]})
    /\ it' = Incremented(it)
    /\ UNCHANGED <<fileVars, pc, target, from>>

\* After the loop the counter is past the last posting.
ClosePartialBlock ==
    /\ pc = "score" /\ AtEnd(it)
    /\ IF ~BlockEnds
       THEN BuildSkip(block_ub)
       ELSE UNCHANGED <<skip_pointers, block_off, block_ub>>
    /\ sigma' = FixedPoint(sigma)
    /\ it' = BeginIterator
    /\ pc' = "ready"
    /\ UNCHANGED <<fileVars, target, from>>

-----------------------------------------------------------------------------
(* The iterator as the queries use it.                                     *)

Increment ==
    /\ pc = "ready" /\ ~AtEnd(it)
    /\ it' = MovedOn(it)
    /\ UNCHANGED <<fileVars, skipVars, pc, target, from>>

Call(method, docid) ==
    /\ pc = "ready"
    /\ pc' = method
    /\ target' = docid
    /\ from' = it.position
    /\ UNCHANGED <<fileVars, it, skipVars>>

\* Mutant: a block that ends with the docid is skipped.
BlockIsBehindOrEqual == ~NoMoreBlocks(it) /\ skip_pointers[it.block].last_docid <= target
BlockIsBehind == ~NoMoreBlocks(it) /\ skip_pointers[it.block].last_docid < target

SkipBlock ==
    /\ pc \in {"nextG", "nextGEQ"}
    /\ BlockIsBehind
    /\ LET b == it.block + 1
       IN  IF b > Len(skip_pointers)
           THEN it' = [it EXCEPT !.block = b]
           ELSE LET f == FreqAt(skip_pointers[b].freq_offset)
                    p == skip_pointers[b].docid_offset
                IN  it' = [position |-> p, freq |-> f,
                           current |-> <<DocidAt(p), f.datum>>, block |-> b]
    /\ UNCHANGED <<fileVars, skipVars, pc, target, from>>

IsBefore == IF pc = "nextG" THEN it.current[1] <= target ELSE it.current[1] < target

\* The loop over the postings of the block.
ScanBlock ==
    /\ pc \in {"nextG", "nextGEQ"}
    /\ ~BlockIsBehind
    /\ IF ~AtEnd(it) /\ IsBefore
       THEN it' = MovedOn(it) /\ UNCHANGED pc
       ELSE pc' = "ready" /\ UNCHANGED it
    /\ IF pc' = "ready" THEN target' = 0 /\ from' = 1 ELSE UNCHANGED <<target, from>>
    /\ UNCHANGED <<fileVars, skipVars>>

Next ==
    \/ ScorePosting \/ ClosePartialBlock
    \/ Increment
    \/ \E method \in {"nextG", "nextGEQ"}, docid \in Docids : Call(method, docid)
    \/ SkipBlock \/ ScanBlock

Spec == Init /\ [][Next]_vars

-----------------------------------------------------------------------------
(* Properties.                                                             *)

\* The posting that a call should find: the first one the call does not skip,
\* or the one where the iterator is if it is already past it.
Found(method, docid) ==
    Min({EndPosition} \cup
        {i \in from..NPostings :
           IF method = "nextG" THEN Docid(i) > docid ELSE Docid(i) >= docid})

\* Skipping blocks loses no document: nextG and nextGEQ find what a scan of the
\* whole list would, whether or not the last block has a pointer, and when the
\* last pointer points to the end of the list (Index.cpp:169-190).
NextFindsDocument ==
    [][(pc) \in {"nextG", "nextGEQ"} /\ pc' = "ready"
         => it'.position = Found(pc, target)]_vars

\* The block an iterator refers to is the one that holds its posting, after any
\* mixture of increments and skips (Index.cpp:161-163 and 196-214): a stale
\* block would bound the scores of other documents.  A docid that is not one of
\* the list, which a pointer past its end leads to, is seen at the end only.
BlockHoldsCurrent ==
    pc # "score" /\ ~AtEnd(it) =>
       /\ it.current[1] = Docid(it.position)
       /\ ~NoMoreBlocks(it) =>
            /\ it.current[1] <= skip_pointers[it.block].last_docid
            /\ it.block > 1 => it.current[1] > skip_pointers[it.block - 1].last_docid

\* The frequency of posting i, as an iterator reads it that came one by one.
ReadFreq(i) == Parsed(StartOf(freqs, i)).datum

BlockOf(i) == (i - 1) \div SKIP_BLOCK_SIZE + 1

\* A pointer describes its block: where it starts, where it ends, and a bound
\* that no score of it exceeds by a whole step of the fixed point; nor does any
\* score exceed the list's bound by one (builder.cpp:221-253).
PointersDescribeBlocks ==
    pc # "score" => \A i \in 1..NPostings :
       /\ ReadFreq(i) < sigma + Precision
       /\ BlockOf(i) <= Len(skip_pointers) =>
            LET p == skip_pointers[BlockOf(i)]
            IN  /\ p.docid_offset = (BlockOf(i) - 1) * SKIP_BLOCK_SIZE + 1
                /\ Docid(i) <= p.last_docid
                /\ ReadFreq(i) < p.ub + Precision

\* Every posting is in a block, except for those of a last block that lacks one
\* posting, which blocks of one posting never do: the loop's counter is past the
\* last posting when line 252 of builder.cpp asks whether a partial block is
\* left.  The iterator says there is no block exactly there, where
\* get_current_skip_block reads past the pointers (Index.cpp:217-220).
LastBlockLeftOut(i) ==
    /\ NPostings % SKIP_BLOCK_SIZE # 0 /\ (NPostings + 1) % SKIP_BLOCK_SIZE = 0
    /\ BlockOf(i) = BlockOf(NPostings)

BlocksLeftOut ==
    pc = "ready" /\ ~AtEnd(it) => (NoMoreBlocks(it) <=> LastBlockLeftOut(it.position))

\* The frequency the iterator gives is that of its posting, wherever it came
\* from: a pointer's freq_offset is where the datum starts (unary.hpp:80, 175).
FreqIsOfPosting == pc # "score" /\ ~AtEnd(it) => it.current[2] = ReadFreq(it.position)
=============================================================================
