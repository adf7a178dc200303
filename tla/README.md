# searchenginepp: TLA+ models and proofs

Models of [searchenginepp](../src/README.md), an inverted-index search engine in
C++: `builder` reads a collection, one document a line, and writes an index made
of chunks; `engine` maps the chunks into memory and answers queries, each chunk
in a thread of its own. Paths below are relative to `src/src/`.

TLC checks each model on a small instance; TLAPS proves the safety properties of
seven of them (the thread pool, the builder, the disk map, the posting lists, the two
query processors and the engine) for every value of their constants.

## 1. The system

| Component | Code | State | Operations | Talks to |
|---|---|---|---|---|
| Thread pool | `util/thread_pool.{hpp,cpp}` | queue of jobs, `idling[]`, `halt`, two mutexes, three condition variables | constructor, `add_job`, `wait_for_free_worker`, `wait_all_jobs`, destructor; `worker_procedure` in each thread | called by the mains of builder and engine |
| Index builder | `builder.cpp` | line and docid counters, the chunk being gathered, `global_doc_len_sum`, `index_folders_paths`, files | `main`, `process_chunk` (a job), `write_global_lexicon_to_disk_map`, `write_metadata`, `write_sigma_lexicon` (a job) | thread pool, local index builder, disk map, posting lists |
| Local index builder | `indexBuilder/`, read by `index/Index.template.hpp` | one chunk's inverted index and document index; its files | `add_to_post`, `add_to_doc`, `write_to_disk`; the constructor of `Index` | codes, disk map |
| Disk map | `codes/diskmap/` | blocks of a sorted map, their first keys | `add`, `finalize`; load, iterate, `find` | lexica, on disk |
| Merge of lexica | `codes/diskmap/builder.hpp` | a list of ranges | `codes::merge` | disk map |
| Unary code | `codes/unary.hpp` | bit buffers | encoder and decoder iterators, `at` | frequencies, on disk |
| Variable-byte codes | `codes/variable_blocks.hpp` | bytes | encoder and decoder iterators | docids and lexicon values, on disk |
| Posting lists | `index/Index.cpp`, `Index.template.hpp`, `types.hpp`, `builder.cpp` | skip pointers, upper bounds; an iterator's position, datum and block | `write_sigma_lexicon`'s blocks; `++`, `nextG`, `nextGEQ`, `skip_block` | codes; the query processors |
| DAAT query processor | `index/Index.template.hpp` | iterators, current document, heap of results | `build_helpers`, `query` | posting lists, scorers |
| BMM query processor | `index/Index.cpp` | the same, sums of upper bounds, threshold | `query_bmm` | posting lists, scorers |
| Query engine | `engine.cpp`, `index_worker.hpp` | one index and one cell of results per chunk, the line's tokens | the loop over lines, one job per chunk, merge of the chunks' results | thread pool, query processors |
| Scorers | `index/query_scorer.*` | | TF-IDF, BM25 | |
| Normalizer | `normalizer/` | | UTF-8 helpers, punctuation, stop words, stemmer | hyperscan, Snowball |
| Memory mapping, options, benchmarks | `util/memory.*`, `util/engine_options.*`, `meta.hpp`, `prova_main.cpp` | | | |

What is hard in this code, and what makes each component correct:

* **The thread pool** uses flags that are atomic but not covered by the mutex that
  their readers sleep under, clears and sets them around the queue's critical
  section, and shuts down with a flag set outside the queue's mutex. It is correct
  if no notification is lost, if `wait_all_jobs` is a barrier though it reads the
  flags one at a time, if every added job runs once, and if the destructor ends.
* **The builder** indexes chunks in threads that finish in any order and then
  reads what they pushed without a lock. It is correct if line *L* gets docid *L*
  in exactly one chunk, if upper bounds are computed only from the statistics of
  the whole collection, if memory is bounded, and if it ends.
* **The disk map, the merge, the codes and the skip lists** are sequential and full
  of boundaries: the entry that just fits in a block, the range that empties while
  its list is iterated, the value that crosses a byte, the posting that fills a
  block. Each is correct if what is read is what was written.
* **The query processors** step several iterators together, drop lists as they end,
  and keep the best *k* in a heap. They are correct if the answer is the best *k*
  of the documents that match, each scored once and with all its terms. BMM also
  passes over documents by bounds on what they could score: it is correct if the
  bounds are bounds, of the right list and block, when they are used.
* **The local index builder** writes what it holds in memory in four files, in loops
  of their own, and keeps offsets from one into another. It is correct if a term's
  offsets lead to its own postings and a docid to its own document.
* **The engine** shares the tokens of a line and the cells of results with its jobs by
  reference, and uses the cells again for the next line. It is correct if no job
  outlives its line and if the answer is the best *k* of the whole collection.

`PROJECT.json` lists these hazards at their lines, each with the properties that
would catch it, or with the reason why none does yet.

## 2. The modules

| Module | Models | Uses |
|---|---|---|
| `JobPool` | what the pool promises its owner: the abstract specification | |
| `ThreadPool` | the pool at the grain of its mutexes, flags and condition variables | implements `JobPool` |
| `ThreadPoolProofs` | its inductive invariant and the theorems | `ThreadPool` |
| `Builder`, `MCBuilder` | `builder.cpp`: main and its jobs | `JobPool` as the pool |
| `BuilderProofs` | the builder's inductive invariant and the theorems | `Builder`, `NumberFacts` |
| `LexiconMerge` | `codes::merge` as the builder calls it | |
| `DiskMap` | writer and reader of the disk map | |
| `DiskMapProofs` | the inductive invariants of the map and of the merge, and the theorems | `DiskMap`, `LexiconMerge`, `NumberFacts` |
| `UnaryBits` | the bits that a list of frequencies leaves in a file | |
| `UnaryCode` | the encoder, which comes to `UnaryBits`, and the decoder | `UnaryBits` |
| `VariableBytes` | the variable-byte code, as operators | |
| `LocalIndex`, `MCLocalIndex` | the index of one chunk: written, then read | `VariableBytes`, `UnaryBits` |
| `PostingList` | the blocks of a list and its iterator | `UnaryBits` |
| `PostingListProofs` | the inductive invariants of the unary code, of the list and of the local index, and the theorems | `UnaryCode`, `PostingList`, `LocalIndex`, `NumberFacts` |
| `TopK` | what an answer is: *k* best of the entries that match | |
| `QueryDAAT`, `MCQueryDAAT` | `build_helpers` and `query` | `TopK` |
| `QueryDAATProofs` | the query's inductive invariant and the theorems | `QueryDAAT` |
| `QueryBMM`, `MCQueryBMM` | `query_bmm` | `TopK` |
| `QueryBMMProofs` | the query's inductive invariants and the theorems | `QueryBMM`, `NumberFacts` |
| `Engine`, `MCEngine` | the engine's loop over lines and its jobs | `JobPool` as the pool, `TopK` |
| `EngineProofs` | the engine's inductive invariant and the theorems | `Engine` |
| `NumberFacts` | lemmas that four of the proofs share: sums over finite sets, quotients and remainders, least numbers | |

The models compose by what one assumes and another shows. `Builder` and `Engine`
run over `JobPool`, and `ThreadPool` implements `JobPool`. `PostingList` and
`LocalIndex` take the bits of `UnaryBits`, and `UnaryCode` shows that the encoder
writes them (`EncoderEmits`, for any values: `EncoderWritesCode`). `Builder`, `LocalIndex` and the query processors take
lexica as functions, and `DiskMap` shows that `find` is a lookup (`FindIsLookup`).
`QueryDAAT` takes `nextG` to find the next document and `QueryBMM` takes `nextGEQ`,
the blocks and the blocks left out as `PostingList` shows them to be
(`NextFindsDocument`, `BlockHoldsCurrent`, `BlocksLeftOut`). A job of `Engine` finds
the best *k* of its chunk, which `QueryDAAT` shows (`ResultsAreTopK`).

### ThreadPool

One action per access to state that another thread may reach without the same
mutex, or per critical section that touches only what its mutex protects. Program
counters `wpc[w]` and `opc` say where each worker and the owner are; a thread
asleep on a condition variable is at `"asleep"`, `"queue_asleep"` or
`"done_asleep"`, and only a notification (or `SpuriousWakeup`) moves it. The owner
is any sequence of calls of the public operations, ended by the destructor. A job
does nothing but end: what jobs do is `Builder`'s business. A job is named by its
place in `add_job` order.

`JobPool` has no threads: `queue`, `running`, `done`, `added` and `call`. The
refinement mapping takes the queue for itself, the jobs of the workers that are in
`"run"` for `running`, and the owner's call for `call`.

### Builder

`main` is a sequence of actions on `mpc`: it gathers lines (`GatherLine`), hands a
full chunk to the pool (`DispatchChunk`), waits for a spot, adds what is left at
the end of the input, waits for all jobs, merges, writes the metadata, adds one
job per folder, waits and destroys the pool. `process_chunk` is
`LockDisk`, `AddLengths`, `PushPath`, `WriteChunk`: what it does before the lock
touches nothing shared, and the steps under `disk_writer_mutex` are apart from
each other because main reads two of the variables without the mutex. A document
is its size and its set of terms, each taken to occur once.

### LocalIndex, VariableBytes

`LocalIndex` first adds documents, one a step, as `process_chunk` does: each term's
postings are variable bytes in memory. `write_to_disk` is then four loops, a term or
all documents a step: docids, frequencies (decoded, and encoded again in unary),
the document index, the lexicon. The offsets it keeps are positions in the files'
sequences. `Load` is the constructor of `Index`, and `Deserialized`, `ReadDocids`,
`ReadFreqs`, `ReadDocno` and `DocumentInfo` are what is read through it.
`VariableBytes` has the code's two directions: `Encoded`, and `ParseAndAlign` and `Decoded`.
Strings, offsets and what is read back are recursive functions, one for each loop of the code,
so that they can be proved about.

### DiskMap, LexiconMerge, UnaryCode, PostingList

`DiskMap` works in bytes: a datum takes its value's bytes and either the index
that starts a block or the rest of its key. The reader knows where data start only
by what the code looks at (the offset within the block, the two bytes ahead), and
a read of something that is not a datum of the kind expected makes it
`"undefined"`.
`LexiconMerge` has one action per round of the outer loop; the list of ranges is a
function from the maps that are still in it to where their iterators are. Lexica may be
empty; the rounds that add nothing but the empty key, for ever, are one state (`Endless`).
`UnaryCode` has one action per byte of the encoder and per value of the decoder;
the list's bytes may be followed by zeros or by ones.
`PostingList` first runs `write_sigma_lexicon`'s loop for one term, then any
sequence of `++`, `nextG` and `nextGEQ`, block by block and posting by posting.
Docids are by position, frequencies bit by bit; a score is the frequency, since
the scorers grow with it.

### QueryDAAT

`BuildHelpers`, then rounds of `ScoreDocument` and `MoveLists`. The score of a
document is any natural number that depends on the document and on the set of
lists it was found in (`Score`), so that a document scored with part of its lists,
or twice, shows. Ties are left open: the heap pops any of its worst.

### QueryBMM

A round is `ScoreEssential`, then, unless the bounds let the document go,
`PopulateBub` and a `ScoreRest` for each round of the loop over the lists that are
not essential, then `PushResult` and `EraseEnded`. The steps are the code's, the odd
ones included: `it->first` of an iterator at its end is the last docid, `p_it` does
not move, `upper_bounds` stays as it is when a list is erased.

A list is scored with the frequency at its iterator. `++` leaves that one the posting's;
after `skip_block` it may be another's (`FreqIsOfPosting` of `PostingList`). So `skipped`
has the lists whose iterator has skipped a block (`Skips`), and `ScoreRest` scores a
document in such a list with its `Contribution` or with any of `Misread`.
`EssentialListsAreNotPassed` says that the essential lists never are among them.
`Contribution` may be 0, as it is for a term that every document has.

What memory that holds no bound gives (the first list of a query with no known term, at
`Index.cpp:33`; the bound of a block without a pointer) is any of `Garbage`. That such a
read may stop the program is not modelled.

The history `faults` says what has gone wrong so far. Five faults may spoil the answer:
`"early"`, a list made not essential before the heap was full; `"repeat"`, a second
round of the loop, which looks in the same list; `"misread"`, a frequency that was
another posting's; `"again"`, a document taken into the heap a second time; `"bound"`, a
document that had not been scored passed over by a bound that it exceeds. `"erased"`,
`"behind"` and `"garbage"` are causes of the last. The properties relate the answer to
these: they say when it is right, and that nothing else makes it wrong. The answer
(`Returned`) is all that is in the heap, duplicates included.

### Engine

Main is `ReadLine`, an `AddJob` per chunk, `WaitAllJobs`, `MergeResults`. A job captures
its position by value (`pos`) and the rest by reference: it copies the tokens when it
calls the query (`CopyTokens`), whatever they are by then, and writes its cell when it
ends (`FinishJob`). The cells and `merged_results` last from line to line. A job's
answer is any best K of what its query finds in its chunk (`Matches`), and the merge
sorts in any order that the comparison allows, so ties are open twice. For `query` that is
every document that matches (`ResultsAreTopK`), and `AnswersAreTopK` is about the whole
collection. For `query_bmm` it is about what the chunks found, right or not: what that is
worth `TopKWithoutFaults` says. In batch mode each line starts with a number; when it
cannot be read the loop ends as it does at the end of the input (`Unnumbered`,
`MoreLines`).

## 3. What is checked

| Run | Bounds | What it shows |
|---|---|---|
| `thread_pool_safety` | 3 workers, 4 jobs, spurious wake-ups | `WorkConserving`: a queued job never waits while a worker sleeps. `OwnerIsNotForgotten`, `ShutdownReachesWorkers`: no wake-up is lost. `ShutdownAfterJobs`, `WaitAllIsBarrier`, `WaitFreeFindsWorker`: what each call promises when it returns. `ImplementsJobPool` |
| `thread_pool_liveness` | 2 workers, 3 jobs | every call returns; `ImplementsFairJobPool`: every added job runs |
| `builder` | 2 threads, 4 lines of 3 kinds, 2 terms, a chunk of 2 units | `DocidsFollowLines`, `BoundsUseFinalStatistics`, `ChunksFitWorkers`, `BuildEnds` |
| `lexicon_merge` | up to 3 maps, 3 terms with a value of 1, empty maps included | every term once, in order, with its sum (`KeysIncrease`, `NothingIsLost`), and the merge ends (`MergeEnds`), unless a lexicon is empty; then exactly what is lost |
| `unary_code` | 3 values up to 9, bytes of 4 bits | the encoder writes `UnaryBits`; everything but a last value that crosses a byte is read back |
| `local_index` | up to 3 documents, 2 terms, docids from 1 or 3, frequencies 1, 2 and 6, docnos of 0 or 2 characters, bytes of 4 bits, digits in base 2 | `PostingsReadBack`, `FrequenciesReadBack`, `DocumentsReadBack`: what is read through the lexicon and the document index is what was added, but for a last frequency that crosses a byte |
| `posting_list` | 7 postings, blocks of 3, frequencies up to 2, bytes of 2 bits | `NextFindsDocument`: skipping finds what a scan would. `BlockHoldsCurrent`, `PointersDescribeBlocks`: blocks and their bounds belong to the postings they are used for. `BlocksLeftOut`: which lists have a last block with no pointer |
| `posting_list_freq_offset` | 5 postings, blocks of 2, bytes of 4 bits | violated: see 6 |
| `disk_map` | 5 entries, blocks of 12 bytes, values of 1 to 14 | `IteratorIsAligned`: after any `++` or `find` the iterator is at a datum. `FindIsLookup`; `ReaderStaysInMap`: the reader leaves the file exactly for the keys before the first |
| `query_daat` | 3 terms with any postings over 4 documents, both modes, k = 2 | `ResultsAreTopK`, and the query ends |
| `query_bmm` | 3 terms with any of 20 lists over 8 documents, blocks of 2, k = 4, a fixed point of 2 | `TopKWithoutFaults`, `WrongBoundsHaveACause`: when the answer is the exhaustive one, and why not. `EssentialListsAreNotPassed`: no posting of theirs is passed, nor a block skipped. `ScoredAgainOnlyAtEnds`, and the query ends |
| `engine` | 3 lines of 2 queries, empty or without a number, 3 chunks, 2 workers, k = 2 | `AnswersAreTopK` of the whole collection, `LineOutlivesItsJobs`, `EveryQueryIsAnswered` |

`TypeOK` is checked of `ThreadPool` and `QueryBMM` and proved of both; of `QueryDAAT`
and `Engine` it is proved. In the other proofs the types are the first part of the
inductive invariant (`TypeOK` of `BuilderProofs`, `Types`).

**Why the bounds are enough.** Three workers are needed for a notification to go to
the wrong one of two sleepers while a third runs; four jobs leave one in the queue
with every worker busy. Four lines and chunks of two units give from one to four
chunks, on two threads: chunks that end out of order, a chunk left at the end of
the input, and a chunk with no terms. Seven postings in blocks of three give no,
one and two postings left over, after two whole blocks, so that an iterator can skip
none, one or several. Values of 1, 2, 4 and 7 bytes in blocks of 12 fill a block
exactly, leave one or two bytes, and leave more; 14 does not fit at all. Values to
9 in bytes of 4 bits cross zero, one and two byte borders. Three terms over four
documents have lists that end at different documents, empty lists, and ties with
one result more than the heap holds. `QueryBMM` has lists of none to four blocks of two
over eight documents: a block that is behind, one that is left out, one that is skipped,
and a pivot that goes up and down. A heap of four is larger than the matches of some
queries, which return a document twice, and full before a list stops being essential in
others, which is when the answer can be right with pruning. All 8000 triples of the 20
lists (`MCLists`) are queried; all lists over eight documents would be 2<sup>24</sup>.
Each of the `faults` happens; without any one of the five, `TopKWithoutFaults` would be
violated, and so would `WrongBoundsHaveACause` without any one of its causes. Three lines over three
chunks and two workers leave a job in the queue while others run, with cells of an
earlier line, and an empty line between two others. In `LocalIndex` docids take one
to three bytes, two terms are next to each other in each file, and a frequency of 6
crosses a byte of 4 bits wherever it starts. Three lexica give an empty one before,
between and after others. Small bytes are used because only the borders
matter; every constant that stands for a size of the code (`B`, `ByteBits`,
`Radix`, `SKIP_BLOCK_SIZE`, `MaxChunkSpace`, `Precision`) is a parameter.

**Fairness.** `ThreadPool!FairSpec` has weak fairness of each worker's steps and of
the owner's steps within a call: threads are scheduled and jobs end. Nothing makes
the owner call. No strong fairness is assumed of the mutexes. Liveness is checked
without spurious wake-ups, since a thread that is woken for ever without cause
need not, under weak fairness alone, leave the mutex to others; safety is checked with them.
`Builder!FairSpec` has weak fairness of main, of the input (which ends), and of
each job that has started; `Engine!FairSpec` of main, of the pool's starting a queued
job, of each job and of the pool's waits, whose return `ThreadPool` shows
(`CallsReturn`, `ImplementsFairJobPool`). `LexiconMerge`, `QueryDAAT` and `QueryBMM`
are sequential programs: weak fairness of their next-state relations.

**Deadlock** is checked in every run; the end of a program is a stuttering action
(`Terminated`, `MergeTerminated`, `Done`).

## 4. What is proved

All proofs are from the modules' assumptions on their constants only
(`PoolAssumption`, `BuilderAssumption`, `DiskMapAssumption`, `MergeAssumption`,
`UnaryAssumption`, `PostingAssumption`, `ByteAssumption`, `RadixAssumption`,
`LocalIndexAssumption`, `BMMAssumption`, `QueryAssumption`, `EngineAssumption`): any number of
workers, jobs, terms, documents, chunks and lines, any postings, scores and k, blocks and
bytes of any size. Every safety property that a run checks is proved.
TLC checked each inductive invariant on a small instance before it was proved.

### ThreadPoolProofs

`InductiveInvariant`, `TypeCorrect`, `NoLostWakeup`, `ShutdownDropsNoJob`,
`NoWorkerMissesHalt` (the destructor wakes whoever sleeps), `WaitAllBarrier`,
`WaitFreeWorker`, `WorkIsConserved` and `Refinement` (the pool implements `JobPool`).

The properties are not inductive: that the owner is not forgotten depends on where
each worker is in its round. The invariant says, part by part, what the program
counters imply: who holds which mutex (`Mutexes`); that a worker's `idling` flag,
its job and the queue agree with where it is (`WorkerKnows`); the same of the
owner (`OwnerAt`, `Constructing`); that each job is queued, held by one
worker, or done (`JobsAccounted`); what the owner has already learnt from the
flags it has read (`OwnerKnows`); and that whoever can make its predicate true has
still to notify (`OwnerIsWaited`, `OwnerIsNotForgotten`, `ShutdownReachesWorkers`).
The key to the barrier is `OwnerKnows`: once the queue is seen empty nobody adds
to it, since the owner is the one who adds, and so a worker seen idle stays idle;
the first read of a flag, which takes no mutex, is therefore safe.

### BuilderProofs

`BuilderInvariant`, `ChunksInPoolAreBounded` (`ChunksFitWorkers`), `LinesKeepTheirDocids`
(`DocidsFollowLines`) and `BoundsAreOfTheCollection` (`BoundsUseFinalStatistics`).

What a chunk's files hold was decided when main made its job, and it is right only if main
has passed its barriers when it reads what the jobs left. So `IInv` follows a job from main
to the disk: the jobs of chunks cover the lines read, once and in order (`LinesRead`,
`Chunks`); the pool holds the jobs added and no others (`PoolJobs`), and no more than it
has threads (`Room`); one job is under `disk_writer_mutex` (`Mutex`); the sum of the
lengths, the folders pushed and the files are those of the jobs that came that far, in
whatever order they came (`Files`); once main is past a barrier all the jobs before it have
ended (`Calls`, `Barriers`); each job of the second round has a folder of the first
(`SigmaJobs`); and what has been merged is what one count of the whole collection would
give (`Statistics`). The last step is where sums over chunks become sums over documents: it
needs that the chunks' docids are disjoint and cover all lines, and the facts about sums
over finite sets of `NumberFacts`.

### DiskMapProofs

`DiskMapInvariant`, `AlwaysAligned` (`IteratorIsAligned`), `FindLooksUp` (`FindIsLookup`)
and `LeavesMapBeforeFirstKey` (`ReaderStaysInMap`).

Nothing on disk says where a datum starts. What the writer leaves: each entry has its
datum and data follow each other by key (`EntriesAreData`); a datum inside a block fits in
it, takes more bytes than the length and the rest of its key, and is followed by the next one
or by the rest of the block (`DataInBlocks`); the heads are the first keys of the blocks
(`HeadsStartBlocks`). With these the reader's guess is right: bytes left at the end of a
block are never taken for a datum, nor a datum for them (`NextDatum`). What is read keeps
to it: the constructor's table (`Loaded`), the iterator (`OnDatum`), the loop of `find`,
which has left out only keys on the other side of the one it looks for (`Searching`), and
what makes the reader leave the map (`LeftMap`). An entry larger than a block makes a head
start beyond the offset at which the reader expects it; the constructor then either reads
something that is no datum, and is undefined, or every place where a block can start does
start one, and then the heads are theirs (`BlocksAreHeads`). So nothing but
`ReaderStaysInMap` needs that the entries fit.

Of the merge: `MergeInvariant`, `MergedKeysIncrease` (`KeysIncrease`) and
`MergeLosesNothing` (`NothingIsLost`). The program keeps no record of what it has read: the
ranges are at different places, those that ended have left the list, and nothing says that
what they come to next has not been written. `Remaining` says so: a term of a lexicon is not
written exactly when its range is in the list and not past it, and the term written last is
before all that the ranges come to. Three facts carry a round. An iterator comes to the keys
of its map in their order and to each of them (`KeysInOrder`, from how many keys are before
one, by `SetOfNumbers`). The loop over the list finds the least key of the ranges after the
last empty one, since an empty minimum counts as none (`LoopFindsLeast`). The ranges at that
key are then, if no lexicon is empty, all the lexica that have it (`RoundSums`), and so what
is added up is the sum of the whole collection, though some of the ranges have left.

### PostingListProofs

Of the unary code: `UnaryCodeInvariant`, `EncoderWritesCode` (`EncoderEmits`) and
`DecoderReadsValues` (`OnlyLastValueIsLost`). The encoder works a byte at a time and carries
in `buffer` how much of the value under way is left: `Reached` says that after *n* bytes what
is left of it is where the code of that value ends, less the bits written. From this each
round of `build_out_buffer` gives the bits of the code at its place (`IsRound`), a byte is
the code's byte, and the encoder stops with the byte in which the last value starts. The
decoder is at the start of the value it reads next, which is where the zero of the last one
was, plus one.

Of the lists: `PostingListInvariant`, `SkippingFinds` (`NextFindsDocument`), `BlockIsOfCurrent`
(`BlockHoldsCurrent`), `PointersAreOfBlocks` (`PointersDescribeBlocks`) and
`LeftOutAreKnown` (`BlocksLeftOut`).

The bounds are of the frequencies that the builder's own iterator read, so the proof starts
from the bits: every value but the last ends at the first zero after its start, where the
next one starts, and in a byte that the file has (`ValueEnds`); by it the iterator that
scores the list reads the frequency of each posting (`Scoring`), last ones that are cut
included, since `ReadFreq` is what any iterator that came one by one reads. The pointers
built so far describe their blocks (`Pointers`); when the list ends, the loop's counter is
one past it, and which postings have no pointer depends on the remainder of the length
(`Scored`). Then the iterator's block is that of its posting (`InBlock`), but while a call
runs that has left the last pointer behind: the posting found is then past that pointer's
block, so its block is again the iterator's. What a call has passed over is all before its
target (`Passed`), because a block that is skipped ends before it; that it never moves back
needs that an iterator at the end is not before the last block.

The proof attempt showed that `BlocksLeftOut` was false for blocks of one posting, where
the counter after the loop is a multiple of the size whatever the length and nothing is
left out; the property now says so.

Of the local index: `LocalIndexInvariant`, `PostingsAreReadBack` (`PostingsReadBack`),
`FrequenciesAreReadBack` (`FrequenciesReadBack`) and `DocumentsAreReadBack`
(`DocumentsReadBack`). Nothing in a file says where one number, list or string ends and the
next one starts, and the loops of `write_to_disk` that write the parts of a list never meet;
they agree only if each of them goes over the terms in the same order. The argument has
two halves.

* The variable-byte code, for every number. `EncodedIs` shows that the recursive function has
  the value its body says (a fact about a recursive definition, from `NumbersUpTo`);
  `EncodedBytes`, that all bytes but the last of a code say that another follows;
  `NumberIsParsed`, that what is parsed where a code starts is its number and what comes
  after it, whatever bytes are around. `IsCode` says of a list of numbers that its code is
  between two offsets, through where each number starts; it holds of what the writers append
  (`AllEncoded`), it survives being moved into a longer file (`CodeMoves`), and it is all that
  the decoder needs (`DecodedIs`).
* What the program has written so far. `LocalInv` says, after each step: the lists in memory
  are the codes of the documents added that hold the term (`Posts`, `IndexedDocuments`); each
  entry of the vector has its term's place in the order (`Vector`) and the offsets between
  which the files have its docids (`DocidFile`) and, from where the second loop has come to,
  its bits (`FreqFile`); the documents' file is the table and then the strings, each from the
  offset in the table to the zero that ends it (`DocumentFile`: `OffsetsAre`, `SectionIs`);
  the lexicon has the code of each value (`LexiconFile`); and the index's pointers are where
  the parts of the file start (`Mapped`).

The three properties follow from the last state's invariant: the five numbers of a value are
read back from the lexicon, they are the offsets of the vector, and between them is the list.
The zeros of `ReadFreqs` are found one after the other, each at the end of its value, until a
last one that was cut; that the file then goes on with another list is why nothing is said of it.

### QueryDAATProofs

`TypeCorrect` and `TopKCorrect` (`Spec => []ResultsAreTopK`).

`ListsAhead`: while documents are left, some list is at the current one, each list
left is at its first document that is not before it, and the other lists ended
before it. From it follow that the lists that hold the current document are those
of all its terms (`HoldingIsTermsOf`), and that a move passes over no document
that matches (`MoveKeepsIInv`). `ScoredSoFar`: the results are the best K of the
matching documents up to the current one. Its step is `PushKeepsTopK`: a push that
replaces the worst of a full heap only for a better entry keeps it the best K. This lemma
is about any set of entries.

### QueryBMMProofs

From an invariant of positions, `PInv` (`Positions`): `TypeCorrect`, `NoPostingIsPassed`
(`EssentialListsAreNotPassed`) and `SecondScoreIsAtEnds` (`ScoredAgainOnlyAtEnds`). With an
invariant of scores, `TInv` (`Scoring`): `AnswerIsTopK` (`TopKWithoutFaults`). With one of
bounds, `BInv`: `BoundsHaveCauses` (`WrongBoundsHaveACause`).

* `PInv` says where the iterators are. Between rounds those of the essential lists are at
  the current document or after it, and after it if it has been scored (`BetweenRounds`);
  in a round they are past it, unless they ended with it (`EssentialInRound`), the other
  lists are not past it before they are looked at (`PassedInRound`), and the next document
  is the current one again only if a list ended with it (`NextInRound`). From these, the
  documents before the current one that an essential list holds, or one that is gone, have
  been scored (`Seen`). No essential list has skipped a block (`Unskipped`): only lists that
  are not essential do, and a list that has stopped being essential is not so again.
* `TInv` is about runs with none of the five faults so far (`Clean`). The threshold is the
  worst score of the results (`Threshold`), and each result is of a document that was not
  taken in before, with its score (`Entries`, `TrueScores`). The key is `Pruned`: the lists
  that are not essential cannot beat, together, the threshold of a full heap. A document that
  only they hold is passed over by the pivot, and so is beaten; one that a bound passes over
  is beaten since the fault did not happen; hence each document up to the current one is in
  the heap or beaten (`Accounted`), which at the end is the answer. Inside a round, the score
  and what the lists still to be looked at contribute make the document's (`Adding`), once
  (`OneRound`), since no frequency was misread.
* `BInv` says that while no list has been erased, no block was behind or without a pointer,
  and the fixed point is exact, `upper_bounds` are the sums of the lists' greatest
  contributions and the block bounds are of the current document's blocks; then no bound is
  exceeded.

### EngineProofs

`TypeCorrect`, `AnswersCorrect` (`Spec => []AnswersAreTopK`) and `NoJobOutlivesItsLine`
(`Spec => LineOutlivesItsJobs`).

That an answer is right depends on cells written by jobs which may have started when
main was elsewhere. The invariant `IInv` says that the jobs in the pool are those of the
line being read, each with the chunk that its number tells and with no other tokens than
the line's (`JobsOfLine`); that the cell of each job that is over holds the best K of its
chunk for this line, so that none is left from an earlier one (`CellsFilled`); and where
main must be for the pool to be empty (`Places`), which is all that
`LineOutlivesItsJobs` needs. Two lemmas are about any sets of entries: the best K of the
union of the best K of each set are the best K of all (`MergedTopK`), and the first K of a
sorted sequence are the best K of its elements (`ResizedTopK`).

### NumberFacts

The library's induction theorems take an operator, which the provers cannot instantiate. What
a fold over a finite set, or a sum, comes to is proved here from well-foundedness instead: a
set of numbers that holds 0 and each successor holds all (`SetOfNumbers`), and a set of
subsets that holds the empty one and each with one more element holds all (`SetOfSets`), with
the sets as parameters. From them: what `SumFunctionOnSet` is, that it does not depend on the
order, and what it is of a union, an image or a subset; that a property that goes from each
number to the next holds up to any (`NumbersUpTo`), which is what unfolds a recursive function;
and that each place in the order of a finite set has its key (`KeysAreRanked`, `IndexHasKey`),
which the merge and the local index both iterate by. The rest are quotients, remainders
and products, which the SMT solver does not find when one side is a constant of the model.

### Only model-checked

Liveness (`CallsReturn`, `ImplementsFairJobPool`, `BuildEnds`, `MergeEnds`, `QueryEnds`,
`EveryQueryIsAnswered`), which with fairness and `ENABLED` is out of the prover's reach.

`AnswerIsTopK` is about the runs of `QueryBMM` in which none of the five faults happened.
How often that is is not known: nothing bounds how many queries skip a block or raise the
threshold before the heap is full. That the lists it steps are those that
`PostingListProofs` is about is an argument between models and not a theorem.

## 5. What is not modelled

* `VariableBlocksEncoder` of the variable-byte code, which only the tests use.
* The loading of the engine: its indices are there, and a line is already tokens.
* The scorers: floating-point formulas. The models take any scores, or scores that
  grow with the frequency.
* The normalizer: pattern matching (hyperscan), stemming (Snowball) and the tables of
  UTF-8 are external, and what is left copies a text with no state between calls.
* Memory mapping, files and their errors: every file is there and is mapped.
* Options and benchmarks: no state beyond their arguments. The models take the
  values the options should have (at least one thread, a positive k).
* The order in which `convert_results` gives the answer out, timings and messages.

## 6. Where the code and what is said of it differ

A violated run:

* `posting_list_freq_offset`: the offset of a frequency takes the byte where a datum
  ends and the bit where it starts. After a skip the frequency may be another
  posting's, or none's.

Properties that hold and say what the code does where a reader might expect
otherwise:

* `KeysIncrease`, `NothingIsLost`, `MergeEnds`: a lexicon with no terms (a chunk of
  documents made of stop words) is never erased from the ranges that `codes::merge`
  goes over (`codes/diskmap/builder.hpp:257-259`), and its empty key, which counts as no
  minimum (237), hides the ranges before it. The lexica after the last empty one are
  merged; then the empty key is added for ever, against the assertion at 97. `Builder`
  has this as `MergeForever`, and `BuildEnds` says that it is the only way the builder
  does not end.
* `OnlyLastValueIsLost`, `FrequenciesReadBack`: the unary encoder stops with the byte in
  which the last value starts (`codes/unary.hpp:315`). A last value that crosses a
  byte is cut, and is read on into the next term's list; nothing else is lost.
* `Matching`, with `ResultsAreTopK`: in conjunctive mode too an exhausted list is erased
  (`index/Index.template.hpp:117`), and the lists left are then all that is asked for
  (94, 150). What is returned are the documents with every term whose list has not ended.
* `TopKWithoutFaults`: `query_bmm` gives the answer of `query`, each document once and with
  its score, unless one of five things happened: the threshold made a list not essential
  before the heap was full (`index/Index.cpp:101-104`); a list was looked in again for the
  same document (79-89); a list that had skipped a block was scored with a frequency that is
  not its posting's (86-88, by the offsets of the violated run above); a document was scored
  again and taken in again (57-62, 92-95); or a bound was too small. Each of them happens in
  the run, and each alone can make the answer wrong. `WrongBoundsHaveACause`: a bound is
  too small because a list was erased and its sum was not (114), because the block was
  one the iterator had not left yet (70-71) or one with no pointer, or because the fixed
  point cut it.
* `ScoredAgainOnlyAtEnds`: a document is scored a second time only after a list ends with
  it (57-62). With room in the heap it is then returned twice, so that k larger than the
  number of matches does not give each match once; a full heap refuses it, unless
  another fault came before.
* `BlocksLeftOut`: when one posting more would fill the last block, that block has
  no pointer (`builder.cpp:252` tests the counter after the loop); when the list
  ends with a full block, a pointer to an empty block follows. Blocks of one posting have
  neither.
  `NextFindsDocument` holds all the same.
* `PointersDescribeBlocks`: a stored bound is rounded down, and a score may exceed
  it by less than a step of the fixed point.
* `ReaderStaysInMap`: `find` of a key before the first reads before the first block
  (`reader.hpp:242-250`), where the comment promises `end()`.

## 7. Plan

1. Models of `VariableBlocksEncoder` and of the normalizer's helpers that guess an encoding.

## 8. How to run

    tlc -workers 2 -config ThreadPoolSafety.cfg ThreadPool.tla
    tlapm PostingListProofs.tla

`PROJECT.json` pairs each configuration with its module, and maps each definition
to the lines it models.
