--------------------------- MODULE BuilderProofs -----------------------------
(***************************************************************************)
(* Proofs of the builder's safety properties, for every number of threads, *)
(* every size of the chunks and every collection.                          *)
(***************************************************************************)
EXTENDS Builder, NumberFacts, SequenceTheorems

-----------------------------------------------------------------------------
(* The inductive invariant.                                                *)

Phases ==
    {"start", "read", "spot", "spot_wait", "indexed", "indexed_wait", "merge", "metadata",
     "paths", "path_wait", "path_add", "paths_wait", "destroy", "destroy_wait", "exit"}

ChunkJob == [kind : {"chunk"}, docs : Seq(Docs), base : Nat, n : Nat]
SigmaJob == [kind : {"sigma"}, n : Nat]

TypeOK ==
    /\ mpc \in Phases
    /\ lines \in Seq(Docs) /\ chunk \in Seq(Docs)
    /\ line_count \in Nat /\ space_count \in Nat /\ docid_start \in Nat
    /\ chunk_n \in Nat /\ next_path \in Nat
    /\ queue \in Seq(Nat) /\ running \subseteq Nat /\ done \subseteq Nat
    /\ added \in Nat
    /\ job \in Seq(ChunkJob \cup SigmaJob)
    /\ jpc \in Seq({"index", "sum", "push", "write", "load", "end"})
    /\ disk_holder \in Nat /\ global_doc_len_sum \in Nat
    /\ index_folders_paths \in Seq(Nat)

\* The pool's jobs are those added, in order.
Started == added - Len(queue)
PoolJobs ==
    /\ Len(job) = added /\ Len(jpc) = added
    /\ Len(queue) <= added
    /\ \A i \in 1..Len(queue) : queue[i] = Started + i
    /\ running \cup done = 1..Started /\ running \cap done = {}
    /\ IsFiniteSet(running)
    /\ \A j \in 1..added : jpc[j] = "end" <=> j \in done
    /\ \A j \in 1..added : j > Started => jpc[j] \in {"index", "load"}

\* What main waits for.
Calls ==
    /\ mpc = "start" <=> call = "ctor"
    /\ mpc \in {"spot_wait", "path_wait"} <=> call = "free"
    /\ mpc \in {"indexed_wait", "paths_wait"} <=> call = "all"
    /\ mpc = "destroy_wait" <=> call = "destroy"
    /\ mpc = "exit" <=> call = "gone"

Room ==
    /\ mpc \in {"start", "read", "path_add"} =>
          queue = <<>> /\ Cardinality(running) < NWorkers
    /\ Len(queue) + Cardinality(running) <= NWorkers

Reading == mpc \in {"start", "read", "spot", "spot_wait"}

\* The first line that is in no chunk's job.
Covered == IF Reading THEN docid_start ELSE Len(lines) + 1

After(j) == job[j].base + Len(job[j].docs)

LinesRead ==
    /\ line_count = Len(lines) + IF mpc \in {"spot", "spot_wait"} THEN 0 ELSE 1
    /\ Reading => /\ docid_start + Len(chunk) = Len(lines) + 1
                  /\ \A i \in 1..Len(chunk) : chunk[i] = lines[docid_start + i - 1]
    /\ mpc \in {"spot", "spot_wait"} => chunk = <<>>

Chunks ==
    /\ \A j \in 1..chunk_n :
          /\ job[j] \in ChunkJob /\ job[j].n = j - 1
          /\ jpc[j] # "load"
          /\ 1 <= job[j].base /\ After(j) <= Covered
          /\ \A i \in 1..Len(job[j].docs) : job[j].docs[i] = lines[job[j].base + i - 1]
    /\ \A j, k \in 1..chunk_n : j < k => After(j) <= job[k].base
    /\ \A d \in 1..(Covered - 1) : \E j \in 1..chunk_n : job[j].base <= d /\ d < After(j)
    /\ Covered >= 1 /\ Covered <= Len(lines) + 1
    /\ chunk_n <= added

InMutex(j) == jpc[j] \in {"sum", "push", "write"}

Mutex ==
    /\ disk_holder # NoOne => disk_holder \in 1..added /\ InMutex(disk_holder)
    /\ \A j \in 1..added : InMutex(j) => disk_holder = j

\* The files and folders of the chunks are there as far as their jobs have come.
Docids(j) == job[j].base..(After(j) - 1)
Summed == {j \in 1..chunk_n : jpc[j] \in {"push", "write", "end"}}
Pushed == {j \in 1..chunk_n : jpc[j] \in {"write", "end"}}
Written == {j \in 1..chunk_n : jpc[j] = "end"}

Lengths == [d \in DOMAIN lines |-> Length(lines[d])]

Files ==
    /\ global_doc_len_sum = SumFunctionOnSet(Lengths, UNION {Docids(j) : j \in Summed})
    /\ \A p \in 1..Len(index_folders_paths) : index_folders_paths[p] + 1 \in Pushed
    /\ \A j \in Pushed : \E p \in 1..Len(index_folders_paths) : index_folders_paths[p] = j - 1
    /\ \A p, q \in 1..Len(index_folders_paths) :
          index_folders_paths[p] = index_folders_paths[q] => p = q
    /\ DOMAIN document_index = {j - 1 : j \in Written}
    /\ \A j \in Written : document_index[j - 1] = Indexed(job[j].docs, job[j].base)

\* What is done when main is past its barriers.
Barriers ==
    /\ Indexing \/ mpc \in {"merge", "metadata"} => added = chunk_n
    /\ ~Indexing => \A j \in 1..chunk_n : jpc[j] = "end"
    /\ next_path = added - chunk_n + 1
    /\ next_path <= Len(index_folders_paths) + 1
    /\ mpc \in {"path_wait", "path_add"} => next_path <= Len(index_folders_paths)
    /\ mpc \in {"paths_wait", "destroy", "destroy_wait", "exit"} =>
          next_path = Len(index_folders_paths) + 1
    /\ mpc \in {"destroy", "destroy_wait", "exit"} => \A j \in 1..added : jpc[j] = "end"

SigmaJobs ==
    \A j \in (chunk_n + 1)..added :
       /\ job[j] \in SigmaJob /\ job[j].n = index_folders_paths[j - chunk_n]
       /\ jpc[j] \in {"load", "end"}

Statistics ==
    /\ ~Indexing /\ mpc # "merge" => global_lexicon = TrueDfs
    /\ ~Indexing /\ mpc \notin {"merge", "metadata"} => metadata = TrueCollection
    /\ DOMAIN lexicon = {job[j].n : j \in {k \in (chunk_n + 1)..added : jpc[k] = "end"}}
    /\ \A n \in DOMAIN lexicon :
          lexicon[n] = [dfs |-> TrueDfs, collection |-> TrueCollection]

IInv ==
    /\ TypeOK /\ PoolJobs /\ Calls /\ Room /\ LinesRead /\ Chunks
    /\ Mutex /\ Files /\ Barriers /\ SigmaJobs /\ Statistics

-----------------------------------------------------------------------------
(* Lemmas.                                                                 *)

\* A document has a number of terms.
LEMMA LengthType == \A doc \in Docs : Length(doc) \in Nat
BY BuilderAssumption, FS_CardinalityType DEF Length

\* The parts of the invariant that are not about where main is.
JobParts == PoolJobs /\ Mutex /\ Files /\ SigmaJobs

\* They hold on when only main moves.
LEMMA UntouchedJobs ==
    ASSUME JobParts,
           UNCHANGED <<lines, chunk_n, queue, running, done, added, jobVars, sharedVars,
                       document_index>>
    PROVE  JobParts'
BY DEF JobParts, PoolJobs, Mutex, Files, SigmaJobs, jobVars, sharedVars, Started, InMutex,
   Summed, Pushed, Written, Docids, After, Lengths

\* The builder starts in the invariant.
LEMMA InitIInv == Init => IInv
<1> SUFFICES ASSUME Init PROVE IInv
  OBVIOUS
<1> USE DEF Init, Pool!Init, NoFile, NoOne
<1>1. TypeOK
  BY DEF TypeOK, Phases
<1>2. PoolJobs
  BY FS_EmptySet DEF PoolJobs, Started
<1>3. Calls /\ Mutex /\ Barriers /\ SigmaJobs
  BY DEF Calls, Mutex, Barriers, SigmaJobs, Indexing
<1>4. Room
  BY FS_EmptySet, BuilderAssumption DEF Room
<1>5. LinesRead /\ Chunks
  BY DEF LinesRead, Chunks, Covered, Reading
<1>6. Files
  <2>1. Summed = {} /\ Pushed = {} /\ Written = {}
    BY DEF Summed, Pushed, Written
  <2>2. UNION {Docids(j) : j \in Summed} = {}
    BY <2>1
  <2>3. global_doc_len_sum = SumFunctionOnSet(Lengths, UNION {Docids(j) : j \in Summed})
    BY <2>2, SumEmpty
  <2>4. Len(index_folders_paths) = 0 /\ DOMAIN document_index = {}
    OBVIOUS
  <2>5. QED
    BY <2>1, <2>3, <2>4 DEF Files
<1>7. Statistics
  BY DEF Statistics, Indexing
<1>8. QED
  BY <1>1, <1>2, <1>3, <1>4, <1>5, <1>6, <1>7 DEF IInv

\* The pool counts as this module does.
LEMMA PoolCardinality == \A S : Pool!Cardinality(S) = Cardinality(S)
BY DEF Pool!Cardinality, Cardinality, Pool!IsFiniteSet, IsFiniteSet

\* Steps of main that only wait, or return from a wait.
Waits ==
    \/ Construct \/ AskForSpot \/ ResumeReading \/ WaitAll \/ AllJobsReturned
    \/ AddPath \/ CallDestructor \/ Exit

\* Past a barrier, the jobs that main waited for have ended.
LEMMA WaitsKeepIInv == ASSUME IInv, Waits PROVE IInv'
<1>1. /\ UNCHANGED <<lines, chunk, space_count, docid_start, chunk_n, next_path, queue,
                     running, done, added, jobVars, sharedVars, diskVars>>
      /\ mpc' \in Phases
      /\ line_count' \in Nat
  <2>1. line_count \in Nat
    BY DEF IInv, TypeOK
  <2>2. /\ UNCHANGED <<lines, chunk, space_count, docid_start, chunk_n, next_path, queue,
                       running, done, added, jobVars, sharedVars, diskVars>>
        /\ mpc' \in Phases
        /\ line_count' \in {line_count, line_count + 1}
    <3>1. CASE Construct \/ AskForSpot \/ ResumeReading \/ WaitAll
      BY <3>1 DEF Construct, AskForSpot, ResumeReading, WaitAll, Pool!Construct, Pool!Call,
         Pool!ReturnFree, readVars, Phases
    <3>2. CASE AllJobsReturned \/ AddPath \/ CallDestructor \/ Exit
      BY <3>2 DEF AllJobsReturned, AddPath, CallDestructor, Exit, Pool!Call, Pool!ReturnFree,
         Pool!ReturnAll, readVars, Phases
    <3> QED
      BY <3>1, <3>2 DEF Waits
  <2> QED
    BY ONLY <2>1, <2>2
<1>2. TypeOK'
  BY <1>1 DEF IInv, TypeOK, jobVars, sharedVars
<1>3. JobParts'
  BY <1>1, UntouchedJobs DEF IInv, JobParts, diskVars
<1>4. Calls'
  BY DEF IInv, Calls, Waits, Construct, AskForSpot, ResumeReading, WaitAll, AllJobsReturned,
     AddPath, CallDestructor, Exit, Pool!Construct, Pool!Call, Pool!ReturnFree, Pool!ReturnAll
<1>10. Room'
  <2>1. mpc' \in {"start", "read", "path_add"} =>
           Construct \/ ResumeReading \/ AddPath
    BY DEF Waits, AskForSpot, WaitAll, AllJobsReturned, CallDestructor, Exit
  <2>2. Construct \/ ResumeReading \/ AddPath =>
           queue = <<>> /\ Cardinality(running) < NWorkers
    BY PoolCardinality DEF IInv, Room, Construct, ResumeReading, AddPath, Pool!ReturnFree
  <2>3. queue' = queue /\ running' = running
    BY <1>1
  <2>4. QED
    BY <2>1, <2>2, <2>3 DEF IInv, Room
<1>5. LinesRead' /\ Covered' = Covered
  <2>1. Reading' <=> Reading
    BY DEF Waits, Construct, AskForSpot, ResumeReading, WaitAll, AllJobsReturned, AddPath,
       CallDestructor, Exit, Reading
  <2>2. Covered' = Covered
    BY <1>1, <2>1 DEF Covered
  <2>3. \/ ResumeReading
        \/ /\ line_count' = line_count
           /\ mpc' \in {"spot", "spot_wait"} <=> mpc \in {"spot", "spot_wait"}
    BY DEF Waits, Construct, AskForSpot, WaitAll, AllJobsReturned, AddPath, CallDestructor,
       Exit, readVars
  <2>4. line_count' = Len(lines') + IF mpc' \in {"spot", "spot_wait"} THEN 0 ELSE 1
    BY <1>1, <2>3 DEF IInv, LinesRead, TypeOK, ResumeReading
  <2>5. mpc' \in {"spot", "spot_wait"} => chunk = <<>>
    BY <2>3 DEF IInv, LinesRead, ResumeReading
  <2>6. QED
    BY <1>1, <2>1, <2>2, <2>4, <2>5 DEF IInv, LinesRead
<1>6. Chunks'
  BY <1>1, <1>5 DEF IInv, Chunks, jobVars, After
<1>7. Barriers'
  <2>1. CASE AllJobsReturned
    <3>1. \A j \in 1..added : jpc[j] = "end"
      BY <2>1 DEF AllJobsReturned, Pool!ReturnAll, IInv, PoolJobs, Started, TypeOK
    <3>2. chunk_n <= added
      BY DEF IInv, Chunks
    <3>3. QED
      BY <1>1, <2>1, <3>1, <3>2 DEF AllJobsReturned, IInv, Barriers, jobVars, sharedVars,
         Indexing, TypeOK
  <2>2. CASE WaitAll
    BY <1>1, <2>2 DEF WaitAll, IInv, Barriers, Indexing, jobVars, sharedVars, TypeOK
  <2>3. CASE Construct \/ AskForSpot \/ ResumeReading \/ AddPath \/ CallDestructor \/ Exit
    BY <1>1, <2>3 DEF IInv, Barriers, Construct, AskForSpot, ResumeReading,
       AddPath, CallDestructor, Exit, Indexing, jobVars, sharedVars, TypeOK
  <2>4. QED
    BY <2>1, <2>2, <2>3 DEF Waits
<1>8. Statistics'
  <2>1. TrueDfs' = TrueDfs /\ TrueCollection' = TrueCollection
    BY <1>1 DEF TrueDfs, TrueCollection
  <2>2. /\ ~Indexing' /\ mpc' # "merge" => ~Indexing /\ mpc # "merge"
        /\ ~Indexing' /\ mpc' \notin {"merge", "metadata"} =>
              ~Indexing /\ mpc \notin {"merge", "metadata"}
    BY DEF Waits, Construct, AskForSpot, ResumeReading, WaitAll, AllJobsReturned,
       AddPath, CallDestructor, Exit, Indexing
  <2>3. QED
    BY <1>1, <2>1, <2>2 DEF IInv, Statistics, diskVars, jobVars
<1>9. QED
  BY <1>2, <1>3, <1>4, <1>5, <1>6, <1>7, <1>8, <1>10 DEF IInv, JobParts

\* What the invariant says of one chunk.
LEMMA ChunkFacts ==
    ASSUME IInv, NEW j \in 1..chunk_n
    PROVE  /\ j \in Nat /\ j \in 1..added
           /\ Len(lines) \in Nat /\ Covered \in Nat /\ Covered <= Len(lines) + 1
           /\ job[j] \in ChunkJob /\ job[j].n = j - 1
           /\ job[j].docs \in Seq(Docs) /\ Len(job[j].docs) \in Nat
           /\ job[j].base \in Nat /\ 1 <= job[j].base
           /\ After(j) = job[j].base + Len(job[j].docs) /\ After(j) <= Covered
           /\ \A i \in 1..Len(job[j].docs) :
                 /\ job[j].base + i - 1 \in 1..Len(lines)
                 /\ job[j].docs[i] = lines[job[j].base + i - 1]
<1>1. chunk_n \in Nat /\ added \in Nat /\ chunk_n <= added /\ Len(lines) \in Nat
  BY DEF IInv, TypeOK, Chunks
<1>2. /\ job[j] \in ChunkJob /\ job[j].n = j - 1 /\ 1 <= job[j].base /\ After(j) <= Covered
      /\ \A i \in 1..Len(job[j].docs) : job[j].docs[i] = lines[job[j].base + i - 1]
  BY DEF IInv, Chunks
<1>3. job[j].docs \in Seq(Docs) /\ job[j].base \in Nat
  BY <1>2 DEF ChunkJob
<1>4. Len(job[j].docs) \in Nat
  BY <1>3
<1>5. Covered \in Nat /\ Covered <= Len(lines) + 1
  BY <1>1 DEF IInv, TypeOK, Chunks, Covered
<1>6. After(j) = job[j].base + Len(job[j].docs)
  BY DEF After
<1>7. \A i \in 1..Len(job[j].docs) : job[j].base + i - 1 \in 1..Len(lines)
  <2>1. \A b, l, c, n \in Nat : 1 <= b /\ b + l <= c /\ c <= n + 1 =>
           \A i \in 1..l : b + i - 1 \in 1..n
    OBVIOUS
  <2>2. job[j].base + Len(job[j].docs) <= Covered
    BY <1>2, <1>6
  <2>3. QED
    BY <1>1, <1>2, <1>3, <1>4, <1>5, <2>1, <2>2, Zenon
<1>8. j \in Nat /\ j \in 1..added
  BY <1>1
<1>9. QED
  BY <1>1, <1>2, <1>3, <1>4, <1>5, <1>6, <1>7, <1>8

\* The documents of a chunk are lines, and the counts of a line are numbers.
LEMMA DocidsAreLines ==
    ASSUME IInv
    PROVE  /\ \A j \in 1..chunk_n : Docids(j) \subseteq DOMAIN lines
           /\ \A S \in SUBSET (1..chunk_n) :
                 /\ IsFiniteSet(UNION {Docids(j) : j \in S})
                 /\ UNION {Docids(j) : j \in S} \subseteq DOMAIN lines
           /\ \A d \in DOMAIN lines : Lengths[d] \in Nat
<1>1. DOMAIN lines = 1..Len(lines) /\ IsFiniteSet(1..Len(lines))
  BY FS_Interval DEF IInv, TypeOK
<1>2. ASSUME NEW j \in 1..chunk_n PROVE Docids(j) \subseteq 1..Len(lines)
  <2>1. /\ Len(lines) \in Nat /\ Covered \in Nat /\ Covered <= Len(lines) + 1
        /\ job[j].base \in Nat /\ 1 <= job[j].base /\ Len(job[j].docs) \in Nat
        /\ After(j) = job[j].base + Len(job[j].docs) /\ After(j) <= Covered
    BY ChunkFacts
  <2>2. QED
    BY <2>1 DEF Docids
<1>3. ASSUME NEW S \in SUBSET (1..chunk_n)
      PROVE  /\ UNION {Docids(j) : j \in S} \subseteq 1..Len(lines)
             /\ IsFiniteSet(UNION {Docids(j) : j \in S})
  <2>1. UNION {Docids(j) : j \in S} \subseteq 1..Len(lines)
    BY <1>2
  <2>2. QED
    BY <1>1, <2>1, FS_Subset
<1>4. \A d \in DOMAIN lines : Lengths[d] \in Nat
  BY LengthType DEF Lengths, IInv, TypeOK
<1>5. QED
  BY <1>1, <1>2, <1>3, <1>4

\* A line is appended.
LEMMA AppendedLine ==
    ASSUME IInv, NEW doc \in Docs, lines' = Append(lines, doc)
    PROVE  /\ lines' \in Seq(Docs) /\ Len(lines') = Len(lines) + 1
           /\ \A d \in 1..Len(lines) : lines'[d] = lines[d]
           /\ lines'[Len(lines) + 1] = doc
BY DEF IInv, TypeOK

\* A line that main reads changes nothing of the chunks that the jobs have.
LEMMA FilesStay ==
    ASSUME IInv, \A d \in DOMAIN lines : d \in DOMAIN lines' /\ lines'[d] = lines[d],
           Summed' = Summed, Pushed' = Pushed, Written' = Written,
           \A j \in 1..chunk_n : job'[j] = job[j],
           UNCHANGED <<sharedVars, document_index>>
    PROVE  Files'
<1>1. \A j \in 1..chunk_n : Docids(j)' = Docids(j)
  BY DEF Docids, After
<1>2. Summed \subseteq 1..chunk_n /\ Written \subseteq 1..chunk_n
  BY DEF Summed, Written
<1>3. UNION {Docids(j)' : j \in Summed} = UNION {Docids(j) : j \in Summed}
  BY <1>1, <1>2
<1>4. SumFunctionOnSet(Lengths', UNION {Docids(j) : j \in Summed})
        = SumFunctionOnSet(Lengths, UNION {Docids(j) : j \in Summed})
  <2> DEFINE D == UNION {Docids(j) : j \in Summed}
  <2>1. IsFiniteSet(D) /\ D \subseteq DOMAIN lines
    BY <1>2, DocidsAreLines
  <2>2. \A d \in D : Lengths[d] \in Nat /\ Lengths[d] = Lengths'[d]
    BY <2>1, DocidsAreLines DEF Lengths, Length
  <2> HIDE DEF D
  <2>3. SumFunctionOnSet(Lengths', D) = SumFunctionOnSet(Lengths, D)
    BY <2>1, <2>2, SumSame
  <2>4. QED
    BY <2>3 DEF D
<1>5. (UNION {Docids(j) : j \in Summed})' = UNION {Docids(j) : j \in Summed}
  BY <1>3
<1>6. global_doc_len_sum' = SumFunctionOnSet(Lengths', (UNION {Docids(j) : j \in Summed})')
  BY <1>4, <1>5 DEF IInv, Files, sharedVars
<1>7. \A j \in Written : document_index'[j - 1] = Indexed(job'[j].docs, job'[j].base)
  BY <1>2 DEF IInv, Files
<1>8. QED
  BY <1>6, <1>7 DEF IInv, Files, sharedVars

\* The chunk that main gathers is the last lines read.
LEMMA GatherLineKeepsIInv ==
    ASSUME IInv, NEW doc \in Docs, GatherLine(doc) PROVE IInv'
<1> USE DEF GatherLine
<1>1. /\ lines' \in Seq(Docs) /\ Len(lines') = Len(lines) + 1 /\ Len(lines) \in Nat
      /\ \A d \in 1..Len(lines) : lines'[d] = lines[d]
      /\ lines'[Len(lines) + 1] = doc
  BY AppendedLine DEF IInv, TypeOK
<1>2. /\ chunk' \in Seq(Docs) /\ Len(chunk') = Len(chunk) + 1 /\ Len(chunk) \in Nat
      /\ \A i \in 1..Len(chunk) : chunk'[i] = chunk[i]
      /\ chunk'[Len(chunk) + 1] = doc
  BY DEF IInv, TypeOK
<1>3. doc.space \in Nat
  BY BuilderAssumption
<1>4. TypeOK'
  <2>1. line_count' \in Nat /\ space_count' \in Nat
    BY <1>3 DEF IInv, TypeOK
  <2>2. UNCHANGED <<mpc, docid_start, chunk_n, next_path, queue, running, done, added, job, jpc,
                    disk_holder, global_doc_len_sum, index_folders_paths>>
    BY DEF poolVars, jobVars, sharedVars
  <2>3. QED
    BY <1>1, <1>2, <2>1, <2>2 DEF IInv, TypeOK
<1>5. PoolJobs' /\ Mutex' /\ SigmaJobs' /\ Calls' /\ Room' /\ Barriers'
  BY DEF IInv, PoolJobs, Started, Mutex, InMutex, SigmaJobs, Calls, Room, Barriers, Indexing,
     poolVars, jobVars, sharedVars
<1>6. LinesRead'
  <2>1. /\ docid_start \in Nat /\ docid_start >= 1
        /\ docid_start + Len(chunk) = Len(lines) + 1
        /\ \A i \in 1..Len(chunk) : chunk[i] = lines[docid_start + i - 1]
        /\ line_count = Len(lines) + 1
    BY DEF IInv, TypeOK, Chunks, Covered, Reading, LinesRead
  <2>2. ASSUME NEW i \in 1..Len(chunk')
        PROVE  chunk'[i] = lines'[docid_start + i - 1]
    <3>1. CASE i \in 1..Len(chunk)
      <4>1. docid_start + i - 1 \in 1..Len(lines)
        BY <1>1, <1>2, <2>1, <3>1
      <4>2. QED
        BY <1>1, <1>2, <2>1, <3>1, <4>1
    <3>2. CASE i = Len(chunk) + 1
      <4>1. docid_start + i - 1 = Len(lines) + 1
        BY <1>1, <1>2, <2>1, <3>2
      <4>2. QED
        BY <1>1, <1>2, <3>2, <4>1
    <3>3. i \in 1..Len(chunk) \/ i = Len(chunk) + 1
      BY <1>2
    <3>4. QED
      BY <3>1, <3>2, <3>3
  <2>3. mpc = "read" /\ mpc' = mpc
    BY <1>3
  <2>4. line_count' = Len(lines') + 1
    BY <1>1, <2>1, <1>3
  <2>5. docid_start' + Len(chunk') = Len(lines') + 1
    <3>1. docid_start' = docid_start
      BY <1>3
    <3>2. Len(lines') = Len(lines) + 1 /\ Len(lines) \in Nat
      BY <1>1
    <3>3. Len(chunk') = Len(chunk) + 1 /\ Len(chunk) \in Nat
      BY <1>2
    <3>4. docid_start \in Nat /\ docid_start + Len(chunk) = Len(lines) + 1
      BY <2>1
    <3>5. \A a, b, c \in Nat : a + b = c + 1 => a + (b + 1) = (c + 1) + 1
      OBVIOUS
    <3>6. docid_start + (Len(chunk) + 1) = (Len(lines) + 1) + 1
      BY <3>2, <3>3, <3>4, <3>5
    <3>7. QED
      BY <3>1, <3>2, <3>3, <3>6, Zenon
  <2>6. QED
    BY <2>2, <2>3, <2>4, <2>5 DEF LinesRead
<1>7. Chunks'
  <2>1. Covered' = Covered
    BY DEF Covered, Reading
  <2>2. ASSUME NEW j \in 1..chunk_n
        PROVE  \A i \in 1..Len(job[j].docs) : job[j].docs[i] = lines'[job[j].base + i - 1]
    BY <1>1, ChunkFacts
  <2>3. \A j \in 1..chunk_n : After(j)' = After(j)
    BY DEF After, jobVars
  <2>4. Covered <= Len(lines) + 1 => Covered <= Len(lines') + 1
    BY <1>1 DEF IInv, TypeOK, Covered
  <2>5. ASSUME NEW j \in 1..chunk_n
        PROVE  /\ job'[j] \in ChunkJob /\ job'[j].n = j - 1 /\ jpc'[j] # "load"
               /\ 1 <= job'[j].base /\ After(j)' <= Covered'
               /\ \A i \in 1..Len(job'[j].docs) :
                     job'[j].docs[i] = lines'[job'[j].base + i - 1]
    <3>1. /\ job[j] \in ChunkJob /\ job[j].n = j - 1 /\ jpc[j] # "load"
          /\ 1 <= job[j].base /\ After(j) <= Covered
      BY DEF IInv, Chunks
    <3>2. QED
      BY <2>1, <2>2, <2>3, <3>1 DEF jobVars
  <2>8. \A j, k \in 1..chunk_n : j < k => After(j)' <= job'[k].base
    BY <2>3 DEF IInv, Chunks, jobVars
  <2>6. /\ \A d \in 1..(Covered' - 1) :
              \E j \in 1..chunk_n : job'[j].base <= d /\ d < After(j)'
        /\ Covered' >= 1 /\ Covered' <= Len(lines') + 1 /\ chunk_n <= added
    BY <2>1, <2>3, <2>4 DEF IInv, Chunks, jobVars
  <2>7. QED
    BY <2>5, <2>6, <2>8 DEF Chunks, poolVars
<1>8. Files'
  BY <1>1, FilesStay DEF Summed, Pushed, Written, jobVars, sharedVars, diskVars, IInv, TypeOK
<1>9. Statistics'
  <2>1. DOMAIN lexicon = {}
    <3>1. added = chunk_n /\ chunk_n \in Nat
      BY DEF IInv, Barriers, Indexing, TypeOK
    <3>2. (chunk_n + 1)..added = {}
      BY <3>1
    <3>3. QED
      BY <3>2 DEF IInv, Statistics
  <2>2. QED
    BY <2>1 DEF IInv, Statistics, Indexing, diskVars, poolVars, jobVars
<1>10. QED
  BY <1>4, <1>5, <1>6, <1>7, <1>8, <1>9 DEF IInv

\* A job is added at the end.
LEMMA AddFacts ==
    ASSUME IInv, Pool!Add, NEW what \in ChunkJob \cup SigmaJob, NEW pc \in {"index", "load"},
           job' = Append(job, what), jpc' = Append(jpc, pc)
    PROVE  /\ queue' \in Seq(Nat) /\ added \in Nat /\ added' = added + 1
           /\ job' \in Seq(ChunkJob \cup SigmaJob)
           /\ jpc' \in Seq({"index", "sum", "push", "write", "load", "end"})
           /\ \A j \in 1..added : job'[j] = job[j] /\ jpc'[j] = jpc[j]
           /\ job'[added + 1] = what /\ jpc'[added + 1] = pc
           /\ UNCHANGED <<running, done, call>>
           /\ Len(queue') = Len(queue) + 1
           /\ PoolJobs'
<1> USE DEF Pool!Add
<1>1. /\ added \in Nat /\ queue \in Seq(Nat) /\ job \in Seq(ChunkJob \cup SigmaJob)
      /\ jpc \in Seq({"index", "sum", "push", "write", "load", "end"})
      /\ Len(job) = added /\ Len(jpc) = added /\ Len(queue) \in Nat /\ Len(queue) <= added
  BY DEF IInv, TypeOK, PoolJobs
<1>2. /\ queue' \in Seq(Nat) /\ Len(queue') = Len(queue) + 1
      /\ \A i \in 1..Len(queue) : queue'[i] = queue[i]
      /\ queue'[Len(queue) + 1] = added + 1
  BY <1>1
<1>3. /\ job' \in Seq(ChunkJob \cup SigmaJob) /\ Len(job') = added + 1
      /\ \A j \in 1..added : job'[j] = job[j]
      /\ job'[added + 1] = what
  BY <1>1
<1>4. /\ jpc' \in Seq({"index", "sum", "push", "write", "load", "end"}) /\ Len(jpc') = added + 1
      /\ \A j \in 1..added : jpc'[j] = jpc[j]
      /\ jpc'[added + 1] = pc
  BY <1>1
<1>5. Started' = Started /\ Started \in Nat /\ Started = added - Len(queue)
  BY <1>1, <1>2 DEF Started
<1>6. PoolJobs'
  <2>1. \A i \in 1..Len(queue') : queue'[i] = Started + i
    <3>1. \A i \in 1..Len(queue) : queue'[i] = Started + i
      BY <1>2 DEF IInv, PoolJobs
    <3>2. queue'[Len(queue) + 1] = Started + (Len(queue) + 1)
      BY <1>1, <1>2, <1>5
    <3>3. QED
      BY <1>1, <1>2, <3>1, <3>2
  <2>2. /\ running \cup done = 1..Started /\ running \cap done = {} /\ IsFiniteSet(running)
        /\ \A j \in 1..added : jpc[j] = "end" <=> j \in done
        /\ \A j \in 1..added : j > Started => jpc[j] \in {"index", "load"}
    BY DEF IInv, PoolJobs
  <2>3. added + 1 \notin done
    BY <1>1, <1>5, <2>2
  <2>4. \A j \in 1..added' : j \in 1..added \/ j = added + 1
    BY <1>1
  <2>5. /\ \A j \in 1..added' : jpc'[j] = "end" <=> j \in done
        /\ \A j \in 1..added' : j > Started => jpc'[j] \in {"index", "load"}
    BY <1>4, <2>2, <2>3, <2>4
  <2>6. QED
    BY <1>1, <1>2, <1>3, <1>4, <1>5, <2>1, <2>2, <2>5 DEF PoolJobs
<1>7. QED
  BY <1>1, <1>2, <1>3, <1>4, <1>6

\* A job that is added is outside the mutex.
LEMMA AddKeepsMutex ==
    ASSUME IInv, NEW pc \in {"index", "load"}, added' = added + 1,
           \A j \in 1..added : jpc'[j] = jpc[j], jpc'[added + 1] = pc,
           UNCHANGED disk_holder
    PROVE  Mutex'
<1>1. added \in Nat /\ (\A j \in 1..added' : j \in 1..added \/ j = added + 1)
  BY DEF IInv, TypeOK
<1>2. \A j \in 1..added : InMutex(j)' <=> InMutex(j)
  BY DEF InMutex
<1>3. \A j \in 1..added' : j = added + 1 => ~InMutex(j)'
  BY DEF InMutex
<1>4. QED
  BY <1>1, <1>2, <1>3 DEF IInv, Mutex

\* The first chunk that has no job gets one, with the lines from docid_start on.
LEMMA AddChunkKeepsIInv ==
    ASSUME IInv, mpc = "read", NEW docs \in Seq(Docs), AddChunk(docs),
           lines' \in Seq(Docs),
           \A d \in DOMAIN lines : d \in DOMAIN lines' /\ lines'[d] = lines[d],
           docid_start + Len(docs) = Len(lines') + 1,
           \A i \in 1..Len(docs) : docs[i] = lines'[docid_start + i - 1],
           Covered' = Len(lines') + 1, mpc' \in {"spot", "indexed"},
           UNCHANGED <<next_path, sharedVars, diskVars>>
    PROVE  /\ PoolJobs' /\ Calls' /\ Room' /\ Chunks' /\ Mutex' /\ Files' /\ Barriers'
           /\ SigmaJobs' /\ Statistics'
           /\ chunk_n' \in Nat /\ added' \in Nat /\ queue' \in Seq(Nat) /\ running' = running
           /\ done' = done
           /\ job' \in Seq(ChunkJob \cup SigmaJob)
           /\ jpc' \in Seq({"index", "sum", "push", "write", "load", "end"})
<1> DEFINE what == [kind |-> "chunk", docs |-> docs, base |-> docid_start, n |-> chunk_n]
<1>1. /\ Pool!Add /\ job' = Append(job, what) /\ jpc' = Append(jpc, "index")
      /\ chunk_n' = chunk_n + 1
  BY DEF AddChunk
<1>2. added \in Nat /\ chunk_n = added /\ docid_start \in Nat /\ docid_start = Covered
      /\ docid_start >= 1
  BY DEF IInv, TypeOK, Barriers, Indexing, Covered, Reading, Chunks
<1>3. what \in ChunkJob
  BY <1>2 DEF ChunkJob
<1> HIDE DEF what
<1>4. /\ queue' \in Seq(Nat) /\ added \in Nat /\ added' = added + 1
      /\ job' \in Seq(ChunkJob \cup SigmaJob)
      /\ jpc' \in Seq({"index", "sum", "push", "write", "load", "end"})
      /\ \A j \in 1..added : job'[j] = job[j] /\ jpc'[j] = jpc[j]
      /\ job'[added + 1] = what /\ jpc'[added + 1] = "index"
      /\ UNCHANGED <<running, done, call>>
      /\ Len(queue') = Len(queue) + 1
      /\ PoolJobs'
  BY <1>1, <1>3, AddFacts
<1>5. \A j \in 1..chunk_n' : j \in 1..chunk_n \/ j = chunk_n + 1
  BY <1>1, <1>2
<1>6. Mutex'
  BY <1>4, AddKeepsMutex DEF sharedVars
<1>7. /\ what.docs = docs /\ what.base = docid_start /\ what.n = chunk_n
  BY DEF what
<1>8. Chunks'
  <2>1. \A j \in 1..chunk_n : After(j)' = After(j)
    BY <1>2, <1>4 DEF After
  <2>2. \A j \in 1..chunk_n' : j = chunk_n + 1 => After(j)' = Covered'
    BY <1>2, <1>4, <1>7 DEF After
  <2>3. Covered <= Covered' /\ Covered \in Nat /\ Covered' \in Nat
    BY <1>2
  <2>4. ASSUME NEW j \in 1..chunk_n
        PROVE  /\ job'[j] \in ChunkJob /\ job'[j].n = j - 1 /\ jpc'[j] # "load"
               /\ 1 <= job'[j].base /\ After(j)' <= Covered'
               /\ \A i \in 1..Len(job'[j].docs) :
                     job'[j].docs[i] = lines'[job'[j].base + i - 1]
    <3>1. job'[j] = job[j] /\ jpc'[j] = jpc[j] /\ jpc[j] # "load"
      BY <1>2, <1>4 DEF IInv, Chunks
    <3>2. After(j)' <= Covered'
      <4>1. /\ job[j].base \in Nat /\ Len(job[j].docs) \in Nat
            /\ After(j) = job[j].base + Len(job[j].docs) /\ After(j) <= Covered
        BY ChunkFacts
      <4>2. QED
        BY <2>1, <2>3, <4>1
    <3>3. \A i \in 1..Len(job[j].docs) :
              /\ job[j].base + i - 1 \in DOMAIN lines
              /\ job[j].docs[i] = lines[job[j].base + i - 1]
      <4>1. DOMAIN lines = 1..Len(lines)
        BY DEF IInv, TypeOK
      <4>2. QED
        BY <4>1, ChunkFacts
    <3>4. job[j] \in ChunkJob /\ job[j].n = j - 1 /\ 1 <= job[j].base
      BY ChunkFacts
    <3>5. QED
      BY <3>1, <3>2, <3>3, <3>4
  <2>5. ASSUME NEW j \in 1..chunk_n', j = chunk_n + 1
        PROVE  /\ job'[j] \in ChunkJob /\ job'[j].n = j - 1 /\ jpc'[j] # "load"
               /\ 1 <= job'[j].base /\ After(j)' <= Covered'
               /\ \A i \in 1..Len(job'[j].docs) :
                     job'[j].docs[i] = lines'[job'[j].base + i - 1]
    <3>1. job'[j] = what /\ jpc'[j] = "index"
      BY <1>2, <1>4, <2>5
    <3>2. After(j)' <= Covered'
      BY <2>2, <2>3, <2>5
    <3>3. what.n = j - 1
      BY <1>2, <1>7, <2>5
    <3>4. QED
      BY <1>2, <1>3, <1>7, <3>1, <3>2, <3>3
  <2>6. \A j, k \in 1..chunk_n' : j < k => After(j)' <= job'[k].base
    <3>1. \A j, k \in 1..chunk_n : j < k => After(j)' <= job'[k].base
      <4>1. \A j, k \in 1..chunk_n : j < k => After(j) <= job[k].base
        BY DEF IInv, Chunks
      <4>2. \A k \in 1..chunk_n : job'[k] = job[k]
        BY <1>2, <1>4
      <4>3. QED
        BY <2>1, <4>1, <4>2
    <3>2. \A j \in 1..chunk_n : After(j)' <= job'[chunk_n + 1].base
      BY <1>2, <1>4, <1>7, <2>1, ChunkFacts
    <3>3. \A j, k \in 1..chunk_n' :
             j < k => j \in 1..chunk_n /\ (k \in 1..chunk_n \/ k = chunk_n + 1)
      BY <1>1, <1>2
    <3>4. QED
      BY <3>1, <3>2, <3>3
  <2>7. ASSUME NEW d \in 1..(Covered' - 1)
        PROVE  \E j \in 1..chunk_n' : job'[j].base <= d /\ d < After(j)'
    <3>1. CASE d \in 1..(Covered - 1)
      <4>1. PICK j \in 1..chunk_n : job[j].base <= d /\ d < After(j)
        BY <3>1 DEF IInv, Chunks
      <4>2. job'[j].base <= d /\ d < After(j)'
        BY <1>2, <1>4, <2>1, <4>1
      <4>5. j \in 1..chunk_n'
        BY <1>1, <1>2
      <4>3. QED
        BY <4>2, <4>5
    <3>2. CASE d >= Covered
      <4>1. PICK j \in 1..chunk_n' : j = chunk_n + 1
        BY <1>1, <1>2
      <4>2. job'[j].base <= d
        BY <1>2, <1>4, <1>7, <3>2, <4>1
      <4>3. d < After(j)'
        BY <2>2, <2>3, <4>1
      <4>4. QED
        BY <4>2, <4>3
    <3>3. QED
      BY <2>3, <3>1, <3>2
  <2>8. Covered' >= 1 /\ Covered' <= Len(lines') + 1 /\ chunk_n' <= added'
    BY <1>1, <1>2, <1>4, <2>3
  <2>9. \A j \in 1..chunk_n' :
           /\ job'[j] \in ChunkJob /\ job'[j].n = j - 1 /\ jpc'[j] # "load"
           /\ 1 <= job'[j].base /\ After(j)' <= Covered'
           /\ \A i \in 1..Len(job'[j].docs) :
                 job'[j].docs[i] = lines'[job'[j].base + i - 1]
    BY <1>5, <2>4, <2>5
  <2>10. QED
    BY <2>6, <2>7, <2>8, <2>9 DEF Chunks
<1>9. Files'
  <2>1. \A j \in 1..chunk_n' :
           jpc'[j] \in {"push", "write", "end"} =>
             j \in 1..chunk_n /\ jpc'[j] = jpc[j]
    BY <1>2, <1>4, <1>5
  <2>2. \A j \in 1..chunk_n : j \in 1..chunk_n' /\ jpc'[j] = jpc[j] /\ job'[j] = job[j]
    <3>1. \A j \in 1..chunk_n : j \in 1..chunk_n'
      BY <1>1, <1>2
    <3>2. QED
      BY <1>2, <1>4, <3>1
  <2>3. Summed' = Summed /\ Pushed' = Pushed /\ Written' = Written
    BY <2>1, <2>2 DEF Summed, Pushed, Written
  <2>4. QED
    BY <2>2, <2>3, FilesStay DEF diskVars
<1>10. added' = chunk_n' /\ (chunk_n' + 1)..added' = {} /\ (chunk_n + 1)..added = {}
  BY <1>1, <1>2, <1>4
<1>11. Barriers'
  <2>1. next_path = 1 /\ next_path' = next_path
    BY <1>2 DEF IInv, Barriers
  <2>2. next_path' = added' - chunk_n' + 1
    BY <1>1, <1>2, <1>4, <2>1
  <2>3. next_path' <= Len(index_folders_paths') + 1
    BY <2>1 DEF IInv, Barriers, sharedVars
  <2>4. Indexing'
    BY DEF Indexing
  <2>5. QED
    BY <1>10, <2>2, <2>3, <2>4 DEF Barriers, Indexing
<1>12. SigmaJobs'
  BY <1>10 DEF SigmaJobs
<1>13. Statistics'
  <2>1. DOMAIN lexicon = {}
    BY <1>10 DEF IInv, Statistics
  <2>2. QED
    BY <1>10, <2>1 DEF Statistics, Indexing, diskVars
<1>14. Calls' /\ Room'
  <2>1. Room'
    <3>1. Len(queue) = 0 /\ Cardinality(running) < NWorkers
      BY DEF IInv, Room, TypeOK
    <3>2. Cardinality(running) \in Nat /\ NWorkers \in Nat
      BY BuilderAssumption, FS_CardinalityType DEF IInv, PoolJobs
    <3>3. QED
      BY <1>4, <3>1, <3>2 DEF Room
  <2>2. QED
    BY <1>4, <2>1 DEF IInv, Calls
<1>15. QED
  BY <1>1, <1>2, <1>4, <1>6, <1>8, <1>9, <1>11, <1>12, <1>13, <1>14

\* The chunk that is full becomes a job, with the line that fills it.
LEMMA DispatchChunkKeepsIInv ==
    ASSUME IInv, NEW doc \in Docs, DispatchChunk(doc) PROVE IInv'
<1> DEFINE docs == Append(chunk, doc)
<1>1. /\ mpc = "read" /\ mpc' = "spot" /\ AddChunk(docs) /\ lines' = Append(lines, doc)
      /\ chunk' = <<>> /\ space_count' = 0 /\ docid_start' = line_count + 1
      /\ UNCHANGED <<line_count, next_path, sharedVars, diskVars>>
  BY DEF DispatchChunk, NextDocid
<1>2. /\ lines' \in Seq(Docs) /\ Len(lines') = Len(lines) + 1 /\ Len(lines) \in Nat
      /\ \A d \in 1..Len(lines) : lines'[d] = lines[d]
      /\ lines'[Len(lines) + 1] = doc
  BY <1>1, AppendedLine DEF IInv, TypeOK
<1>3. /\ docs \in Seq(Docs) /\ Len(docs) = Len(chunk) + 1 /\ Len(chunk) \in Nat
      /\ \A i \in 1..Len(chunk) : docs[i] = chunk[i]
      /\ docs[Len(chunk) + 1] = doc
  BY DEF IInv, TypeOK
<1> HIDE DEF docs
<1>4. /\ docid_start \in Nat /\ docid_start >= 1 /\ docid_start + Len(chunk) = Len(lines) + 1
      /\ \A i \in 1..Len(chunk) : chunk[i] = lines[docid_start + i - 1]
      /\ line_count = Len(lines) + 1
  BY <1>1 DEF IInv, TypeOK, Chunks, Covered, Reading, LinesRead
<1>5. docid_start + Len(docs) = Len(lines') + 1
  BY <1>2, <1>3, <1>4
<1>6. ASSUME NEW i \in 1..Len(docs) PROVE docs[i] = lines'[docid_start + i - 1]
  <2>1. CASE i \in 1..Len(chunk)
    <3>1. docid_start + i - 1 \in 1..Len(lines)
      BY <1>2, <1>3, <1>4, <2>1
    <3>2. QED
      BY <1>2, <1>3, <1>4, <2>1, <3>1
  <2>2. CASE i = Len(chunk) + 1
    <3>1. docid_start + i - 1 = Len(lines) + 1
      BY <1>2, <1>3, <1>4, <2>2
    <3>2. QED
      BY <1>2, <1>3, <2>2, <3>1
  <2>3. i \in 1..Len(chunk) \/ i = Len(chunk) + 1
    BY <1>3
  <2>4. QED
    BY <2>1, <2>2, <2>3
<1>7. docid_start' = Len(lines') + 1 /\ Covered' = Len(lines') + 1
  BY <1>1, <1>2, <1>4 DEF Covered, Reading
<1>8. \A d \in DOMAIN lines : d \in DOMAIN lines' /\ lines'[d] = lines[d]
  <2>1. DOMAIN lines = 1..Len(lines) /\ DOMAIN lines' = 1..Len(lines')
    BY <1>2 DEF IInv, TypeOK
  <2>2. QED
    BY <1>2, <2>1
<1>9. /\ PoolJobs' /\ Calls' /\ Room' /\ Chunks' /\ Mutex' /\ Files' /\ Barriers'
      /\ SigmaJobs' /\ Statistics'
      /\ chunk_n' \in Nat /\ added' \in Nat /\ queue' \in Seq(Nat) /\ running' = running
      /\ done' = done
      /\ job' \in Seq(ChunkJob \cup SigmaJob)
      /\ jpc' \in Seq({"index", "sum", "push", "write", "load", "end"})
  BY <1>1, <1>2, <1>3, <1>5, <1>6, <1>7, <1>8, AddChunkKeepsIInv
<1>10. LinesRead'
  BY <1>1, <1>2, <1>4, <1>7 DEF LinesRead, Reading
<1>11. TypeOK'
  <2>1. /\ line_count' \in Nat /\ next_path' \in Nat
        /\ disk_holder' \in Nat /\ global_doc_len_sum' \in Nat
        /\ index_folders_paths' \in Seq(Nat)
    BY <1>1 DEF IInv, TypeOK, sharedVars
  <2>2. /\ mpc' \in Phases /\ lines' \in Seq(Docs) /\ chunk' \in Seq(Docs)
        /\ space_count' \in Nat
    BY <1>1, <1>2 DEF Phases
  <2>3. docid_start' \in Nat
    BY <1>2, <1>7
  <2>4. running' \subseteq Nat /\ done' \subseteq Nat
    BY <1>9 DEF IInv, TypeOK
  <2> QED
    BY <1>9, <2>1, <2>2, <2>3, <2>4 DEF TypeOK
<1>12. QED
  BY <1>9, <1>10, <1>11 DEF IInv

\* So does what is left when the input ends.
LEMMA EndOfInputKeepsIInv == ASSUME IInv, EndOfInput PROVE IInv'
<1>1. /\ mpc = "read" /\ mpc' = "indexed"
      /\ UNCHANGED <<lines, line_count, chunk, space_count, docid_start, next_path,
                     sharedVars, diskVars>>
      /\ IF chunk # <<>> THEN AddChunk(chunk) ELSE UNCHANGED <<chunk_n, poolVars, jobVars>>
  BY DEF EndOfInput
<1>2. /\ docid_start \in Nat /\ docid_start >= 1 /\ docid_start + Len(chunk) = Len(lines) + 1
      /\ \A i \in 1..Len(chunk) : chunk[i] = lines[docid_start + i - 1]
      /\ line_count = Len(lines) + 1
      /\ chunk \in Seq(Docs) /\ lines \in Seq(Docs)
  BY <1>1 DEF IInv, TypeOK, Chunks, Covered, Reading, LinesRead
<1>3. Covered' = Len(lines') + 1
  BY <1>1 DEF Covered, Reading
<1>4. LinesRead'
  BY <1>1, <1>2 DEF LinesRead, Reading
<1>5. CASE chunk # <<>>
  <2>1. /\ PoolJobs' /\ Calls' /\ Room' /\ Chunks' /\ Mutex' /\ Files' /\ Barriers'
        /\ SigmaJobs' /\ Statistics'
        /\ chunk_n' \in Nat /\ added' \in Nat /\ queue' \in Seq(Nat) /\ running' = running
        /\ done' = done
        /\ job' \in Seq(ChunkJob \cup SigmaJob)
        /\ jpc' \in Seq({"index", "sum", "push", "write", "load", "end"})
    BY <1>1, <1>2, <1>3, <1>5, AddChunkKeepsIInv
  <2>2. TypeOK'
    BY <1>1, <2>1 DEF IInv, TypeOK, Phases, sharedVars
  <2>3. QED
    BY <1>4, <2>1, <2>2 DEF IInv
<1>6. CASE chunk = <<>>
  <2>1. UNCHANGED <<chunk_n, poolVars, jobVars>>
    BY <1>1, <1>6
  <2>2. Covered' = Covered
    BY <1>1, <1>2, <1>6 DEF Covered, Reading, IInv, TypeOK
  <2>3. JobParts'
    BY <1>1, <2>1, UntouchedJobs DEF IInv, JobParts, poolVars, diskVars
  <2>4. Chunks'
    BY <1>1, <2>1, <2>2 DEF IInv, Chunks, After, jobVars, poolVars
  <2>5. TypeOK'
    BY <1>1, <2>1 DEF IInv, TypeOK, Phases, sharedVars, poolVars, jobVars
  <2>6. Calls' /\ Room' /\ Barriers'
    BY <1>1, <2>1 DEF IInv, Calls, Room, Barriers, Indexing, poolVars, jobVars, sharedVars
  <2>7. Statistics'
    BY <1>1, <2>1 DEF IInv, Statistics, Indexing, poolVars, jobVars, diskVars, TrueDfs,
       TrueCollection
  <2>8. QED
    BY <1>4, <2>3, <2>4, <2>5, <2>6, <2>7 DEF IInv, JobParts
<1>7. QED
  BY <1>5, <1>6

\* The document index of a chunk says what the lines say.
LEMMA IndexOfChunk ==
    ASSUME IInv, NEW j \in Written
    PROVE  /\ j \in 1..chunk_n /\ j - 1 \in DOMAIN document_index
           /\ DOMAIN document_index[j - 1] = Docids(j)
           /\ \A d \in Docids(j) : d \in DOMAIN lines /\ document_index[j - 1][d] = lines[d]
<1>1. /\ j \in 1..chunk_n /\ j - 1 \in DOMAIN document_index
      /\ document_index[j - 1] = Indexed(job[j].docs, job[j].base)
  BY DEF IInv, Files, Written
<1>2. Docids(j) = job[j].base..(job[j].base + Len(job[j].docs) - 1)
  <2>1. /\ job[j].base \in Nat /\ Len(job[j].docs) \in Nat
        /\ After(j) = job[j].base + Len(job[j].docs)
    BY <1>1, ChunkFacts
  <2>2. QED
    BY <2>1 DEF Docids
<1>3. DOMAIN document_index[j - 1] = Docids(j)
  BY <1>1, <1>2 DEF Indexed
<1>4. ASSUME NEW d \in Docids(j)
      PROVE  d \in DOMAIN lines /\ document_index[j - 1][d] = lines[d]
  <2>1. /\ job[j].base \in Nat /\ Len(job[j].docs) \in Nat
        /\ \A i \in 1..Len(job[j].docs) : job[j].docs[i] = lines[job[j].base + i - 1]
    BY <1>1, ChunkFacts
  <2>6. d - job[j].base + 1 \in 1..Len(job[j].docs)
    BY <1>2, <2>1
  <2>2. PICK i \in 1..Len(job[j].docs) : i = d - job[j].base + 1
    BY <2>6
  <2>3. document_index[j - 1][d] = job[j].docs[i]
    BY <1>1, <1>2, <2>2 DEF Indexed
  <2>4. job[j].base + i - 1 = d
    BY <1>2, <2>1, <2>2
  <2>5. QED
    BY <1>1, <2>1, <2>3, <2>4, DocidsAreLines
<1>5. QED
  BY <1>1, <1>3, <1>4

\* No line is in two chunks ...
LEMMA ChunksAreDisjoint ==
    ASSUME IInv, NEW j \in 1..chunk_n, NEW k \in 1..chunk_n, j # k
    PROVE  Docids(j) \cap Docids(k) = {}
<1>1. ASSUME NEW a \in 1..chunk_n, NEW b \in 1..chunk_n, a < b
      PROVE  Docids(a) \cap Docids(b) = {}
  <2>1. After(a) <= job[b].base
    BY <1>1 DEF IInv, Chunks
  <2>2. /\ job[a].base \in Nat /\ Len(job[a].docs) \in Nat
        /\ After(a) = job[a].base + Len(job[a].docs)
    BY ChunkFacts
  <2>3. /\ job[b].base \in Nat /\ Len(job[b].docs) \in Nat
        /\ After(b) = job[b].base + Len(job[b].docs)
    BY ChunkFacts
  <2>4. After(a) \in Nat /\ After(b) \in Nat
    <3>1. \A x, y \in Nat : x + y \in Nat
      OBVIOUS
    <3>2. QED
      BY <2>2, <2>3, <3>1, Zenon
  <2>5. ASSUME NEW d \in Docids(a), d \in Docids(b) PROVE FALSE
    <3>1. d \in Int /\ d <= After(a) - 1
      BY <2>2, <2>4 DEF Docids
    <3>2. job[b].base <= d
      BY <2>3, <2>4, <2>5 DEF Docids
    <3>3. QED
      BY <2>1, <2>3, <2>4, <3>1, <3>2
  <2>6. QED
    BY <2>5
<1>2. j < k \/ k < j
  BY DEF IInv, TypeOK
<1>3. QED
  BY <1>1, <1>2

\* ... and every line that main has handed out is in one.
LEMMA ChunksCover ==
    ASSUME IInv PROVE UNION {Docids(j) : j \in 1..chunk_n} = 1..(Covered - 1)
<1>1. ASSUME NEW d \in 1..(Covered - 1) PROVE \E j \in 1..chunk_n : d \in Docids(j)
  <2>1. PICK j \in 1..chunk_n : job[j].base <= d /\ d < After(j)
    BY DEF IInv, Chunks
  <2>2. /\ job[j].base \in Nat /\ Len(job[j].docs) \in Nat
        /\ After(j) = job[j].base + Len(job[j].docs)
    BY ChunkFacts
  <2>3. d \in Docids(j)
    BY <2>1, <2>2 DEF Docids
  <2>4. QED
    BY <2>3
<1>2. ASSUME NEW j \in 1..chunk_n PROVE Docids(j) \subseteq 1..(Covered - 1)
  <2>1. /\ job[j].base \in Nat /\ 1 <= job[j].base /\ Len(job[j].docs) \in Nat
        /\ After(j) = job[j].base + Len(job[j].docs) /\ After(j) <= Covered /\ Covered \in Nat
    BY ChunkFacts
  <2>2. QED
    BY <2>1 DEF Docids
<1>3. QED
  BY <1>1, <1>2

\* After the first round of jobs everything is written.
LEMMA AllIndexed ==
    ASSUME IInv, ~Indexing
    PROVE  /\ Written = 1..chunk_n /\ Pushed = 1..chunk_n /\ Summed = 1..chunk_n
           /\ UNION {Docids(j) : j \in 1..chunk_n} = DOMAIN lines
<1>1. /\ Written = 1..chunk_n /\ Pushed = 1..chunk_n /\ Summed = 1..chunk_n
  BY DEF IInv, Barriers, Written, Pushed, Summed
<1>2. Covered = Len(lines) + 1
  BY DEF Covered, Reading, Indexing
<1>3. Len(lines) \in Nat /\ DOMAIN lines = 1..Len(lines)
  BY DEF IInv, TypeOK
<1>4. QED
  BY <1>1, <1>2, <1>3, ChunksCover

\* The sum over the local lexica counts every document that holds the term.
LEMMA MergedLexiconIsTrue ==
    ASSUME IInv, ~Indexing, NEW t \in Terms
    PROVE  SumFunction([i \in DOMAIN index_folders_paths |->
                          DocFreqs(document_index[index_folders_paths[i]])[t]])
             = TrueDfs[t]
<1> DEFINE S == DOMAIN index_folders_paths
           With(i) == {d \in Docids(index_folders_paths[i] + 1) : t \in lines[d].terms}
           F == [i \in S |-> With(i)]
           f == [i \in S |-> DocFreqs(document_index[index_folders_paths[i]])[t]]
           All == {d \in DOMAIN lines : t \in lines[d].terms}
<1>1. /\ S = 1..Len(index_folders_paths) /\ IsFiniteSet(S)
      /\ \A i \in S : index_folders_paths[i] \in Nat
  BY FS_Interval DEF IInv, TypeOK
<1>2. /\ \A i \in S : index_folders_paths[i] + 1 \in 1..chunk_n
      /\ \A i, k \in S : index_folders_paths[i] = index_folders_paths[k] => i = k
      /\ \A j \in 1..chunk_n : \E i \in S : index_folders_paths[i] = j - 1
  BY <1>1, AllIndexed DEF IInv, Files
<1>3. ASSUME NEW i \in S
      PROVE  IsFiniteSet(F[i]) /\ f[i] = Cardinality(F[i])
  <2>1. PICK j \in Written : j = index_folders_paths[i] + 1
    BY <1>2, AllIndexed
  <2>2. index_folders_paths[i] = j - 1
    BY <1>1, <2>1
  <2>3. /\ DOMAIN document_index[j - 1] = Docids(j)
        /\ \A d \in Docids(j) : d \in DOMAIN lines /\ document_index[j - 1][d] = lines[d]
    BY IndexOfChunk
  <2>4. {d \in DOMAIN document_index[j - 1] : t \in document_index[j - 1][d].terms} = F[i]
    BY <2>1, <2>3
  <2>5. f[i] = Cardinality(F[i])
    BY <2>2, <2>4 DEF DocFreqs
  <2>6. F[i] \subseteq 1..Len(lines)
    BY <2>1, <2>3 DEF IInv, TypeOK
  <2>7. IsFiniteSet(F[i])
    <3>1. IsFiniteSet(1..Len(lines))
      BY FS_Interval DEF IInv, TypeOK
    <3>2. QED
      BY <2>6, <3>1, FS_Subset
  <2>8. QED
    BY <2>5, <2>7
<1>4. ASSUME NEW i \in S, NEW k \in S, i # k PROVE F[i] \cap F[k] = {}
  <2>1. index_folders_paths[i] + 1 # index_folders_paths[k] + 1
    BY <1>1, <1>2, <1>4
  <2>2. Docids(index_folders_paths[i] + 1) \cap Docids(index_folders_paths[k] + 1) = {}
    BY <1>2, <2>1, ChunksAreDisjoint
  <2>3. QED
    BY <2>2
<1>5. UNION {F[i] : i \in S} = All
  <2>1. ASSUME NEW d \in All PROVE \E i \in S : d \in F[i]
    <3>1. PICK j \in 1..chunk_n : d \in Docids(j)
      BY AllIndexed
    <3>2. PICK i \in S : index_folders_paths[i] = j - 1
      BY <1>2
    <3>3. index_folders_paths[i] + 1 = j
      BY <3>2 DEF IInv, TypeOK
    <3>4. QED
      BY <3>1, <3>3
  <2>2. ASSUME NEW i \in S PROVE F[i] \subseteq All
    BY <1>2, DocidsAreLines
  <2>3. QED
    BY <2>1, <2>2
<1>6. TrueDfs[t] = Cardinality(All)
  BY DEF TrueDfs, DocFreqs
<1>7. SumFunction(f) = SumFunctionOnSet(f, S)
  BY DEF SumFunction, SumFunctionOnSet, FoldFunction
<1> HIDE DEF S, F, f, All
<1>8. SumFunctionOnSet(f, S) = Cardinality(UNION {F[i] : i \in S})
  <2>1. /\ \A i \in S : IsFiniteSet(F[i]) /\ f[i] = Cardinality(F[i])
        /\ \A i, k \in S : i # k => F[i] \cap F[k] = {}
    BY <1>3, <1>4
  <2>2. IsFiniteSet(S)
    BY <1>1
  <2>3. QED
    BY <2>1, <2>2, SumOfCardinalities, SMTT(30)
<1>9. QED
  BY <1>5, <1>6, <1>7, <1>8 DEF f, S

\* What the jobs added up is the length of the collection.
LEMMA SummedLengthsAreTrue ==
    ASSUME IInv, ~Indexing PROVE global_doc_len_sum = LengthOf(lines)
<1>1. global_doc_len_sum = SumFunctionOnSet(Lengths, DOMAIN lines)
  BY AllIndexed DEF IInv, Files
<1>2. LengthOf(lines) = SumFunctionOnSet(Lengths, DOMAIN lines)
  BY DEF LengthOf, Lengths, SumFunction, SumFunctionOnSet, FoldFunction
<1>3. QED
  BY <1>1, <1>2

\* The sum of the local lexica is the collection's lexicon.
LEMMA WriteGlobalLexiconKeepsIInv == ASSUME IInv, WriteGlobalLexicon PROVE IInv'
<1>1. /\ mpc = "merge" /\ mpc' = "metadata"
      /\ UNCHANGED <<lines, line_count, chunk, space_count, docid_start, chunk_n, next_path,
                     queue, running, done, added, call, job, jpc, sharedVars, document_index,
                     lexicon, metadata>>
  BY DEF WriteGlobalLexicon, readVars, poolVars, jobVars
<1>2. ~Indexing
  BY <1>1 DEF Indexing
<1>3. global_lexicon' = TrueDfs
  BY <1>2, MergedLexiconIsTrue DEF WriteGlobalLexicon, TrueDfs, DocFreqs
<1>4. JobParts'
  BY <1>1, UntouchedJobs DEF IInv, JobParts, jobVars
<1>5. TypeOK' /\ Calls' /\ Room' /\ LinesRead' /\ Barriers'
  BY <1>1 DEF IInv, TypeOK, Phases, Calls, Room, LinesRead, Reading, Barriers, Indexing,
     sharedVars
<1>6. Covered' = Covered
  BY <1>1 DEF Covered, Reading
<1>7. Chunks'
  BY <1>1, <1>6 DEF IInv, Chunks, After
<1>8. Statistics'
  <2>1. TrueDfs' = TrueDfs /\ TrueCollection' = TrueCollection
    BY <1>1 DEF TrueDfs, TrueCollection
  <2>2. QED
    BY <1>1, <1>3, <2>1 DEF IInv, Statistics
<1>9. QED
  BY <1>4, <1>5, <1>7, <1>8 DEF IInv, JobParts

\* What the jobs summed up, and the count of lines, describe the collection.
LEMMA WriteMetadataKeepsIInv == ASSUME IInv, WriteMetadata PROVE IInv'
<1>1. /\ mpc = "metadata" /\ mpc' = "paths"
      /\ UNCHANGED <<lines, line_count, chunk, space_count, docid_start, chunk_n, next_path,
                     queue, running, done, added, call, job, jpc, sharedVars, document_index,
                     lexicon, global_lexicon>>
  BY DEF WriteMetadata, readVars, poolVars, jobVars
<1>2. ~Indexing
  BY <1>1 DEF Indexing
<1>3. metadata' = TrueCollection
  <2>1. line_count = Len(lines) + 1 /\ Len(lines) \in Nat
    BY <1>1 DEF IInv, LinesRead, TypeOK
  <2>2. NumDocs = Len(lines)
    BY <2>1 DEF NumDocs
  <2>3. QED
    BY <1>2, <2>2, SummedLengthsAreTrue DEF WriteMetadata, TrueCollection
<1>4. JobParts'
  BY <1>1, UntouchedJobs DEF IInv, JobParts, jobVars
<1>5. TypeOK' /\ Calls' /\ Room' /\ LinesRead' /\ Barriers'
  BY <1>1 DEF IInv, TypeOK, Phases, Calls, Room, LinesRead, Reading, Barriers, Indexing,
     sharedVars
<1>6. Covered' = Covered
  BY <1>1 DEF Covered, Reading
<1>7. Chunks'
  BY <1>1, <1>6 DEF IInv, Chunks, After
<1>8. Statistics'
  <2>1. TrueDfs' = TrueDfs /\ TrueCollection' = TrueCollection
    BY <1>1 DEF TrueDfs, TrueCollection
  <2>2. QED
    BY <1>1, <1>2, <1>3, <2>1 DEF IInv, Statistics
<1>9. QED
  BY <1>4, <1>5, <1>7, <1>8 DEF IInv, JobParts

\* The second round of jobs follows index_folders_paths.
LEMMA AddSigmaJobKeepsIInv == ASSUME IInv, AddSigmaJob PROVE IInv'
<1> DEFINE what == [kind |-> "sigma", n |-> index_folders_paths[next_path]]
<1>1. /\ mpc = "path_add" /\ mpc' = "paths" /\ next_path' = next_path + 1
      /\ Pool!Add /\ job' = Append(job, what) /\ jpc' = Append(jpc, "load")
      /\ UNCHANGED <<lines, line_count, chunk, space_count, docid_start, chunk_n, sharedVars,
                     document_index, lexicon, global_lexicon, metadata>>
  BY DEF AddSigmaJob, readVars, diskVars
<1>2. /\ added \in Nat /\ chunk_n \in Nat /\ chunk_n <= added /\ next_path \in Nat
      /\ next_path = added - chunk_n + 1 /\ next_path <= Len(index_folders_paths)
      /\ index_folders_paths \in Seq(Nat)
  BY <1>1 DEF IInv, TypeOK, Chunks, Barriers
<1>3. next_path \in 1..Len(index_folders_paths)
  BY <1>2
<1>4. what \in SigmaJob
  BY <1>2, <1>3 DEF SigmaJob
<1>5. what.n = index_folders_paths[next_path]
  OBVIOUS
<1> HIDE DEF what
<1>6. /\ queue' \in Seq(Nat) /\ added' = added + 1
      /\ job' \in Seq(ChunkJob \cup SigmaJob)
      /\ jpc' \in Seq({"index", "sum", "push", "write", "load", "end"})
      /\ \A j \in 1..added : job'[j] = job[j] /\ jpc'[j] = jpc[j]
      /\ job'[added + 1] = what /\ jpc'[added + 1] = "load"
      /\ UNCHANGED <<running, done, call>>
      /\ Len(queue') = Len(queue) + 1
      /\ PoolJobs'
  BY <1>1, <1>4, AddFacts
<1>7. Mutex'
  BY <1>1, <1>6, AddKeepsMutex DEF sharedVars
<1>8. \A j \in 1..chunk_n : job'[j] = job[j] /\ jpc'[j] = jpc[j]
  BY <1>2, <1>6
<1>9. TypeOK' /\ Calls' /\ LinesRead'
  <2>1. TypeOK'
    <3>1. mpc' \in Phases /\ next_path' \in Nat /\ added' \in Nat
      BY <1>1, <1>2, <1>6 DEF Phases
    <3>2. QED
      BY <1>1, <1>6, <3>1 DEF IInv, TypeOK, sharedVars
  <2>2. Calls'
    BY <1>1, <1>6 DEF IInv, Calls
  <2>3. LinesRead'
    BY <1>1 DEF IInv, LinesRead, Reading
  <2>4. QED
    BY <2>1, <2>2, <2>3
<1>10. Room'
  <2>1. Len(queue) = 0 /\ Cardinality(running) < NWorkers
    BY <1>1 DEF IInv, Room, TypeOK
  <2>2. Cardinality(running) \in Nat /\ NWorkers \in Nat
    BY BuilderAssumption, FS_CardinalityType DEF IInv, PoolJobs
  <2>3. QED
    BY <1>1, <1>6, <2>1, <2>2 DEF Room
<1>11. Chunks'
  <2>1. Covered' = Covered
    BY <1>1 DEF Covered, Reading
  <2>2. \A j \in 1..chunk_n : After(j)' = After(j)
    BY <1>8 DEF After
  <2>3. ASSUME NEW j \in 1..chunk_n
        PROVE  /\ job'[j] \in ChunkJob /\ job'[j].n = j - 1 /\ jpc'[j] # "load"
               /\ 1 <= job'[j].base /\ After(j)' <= Covered'
               /\ \A i \in 1..Len(job'[j].docs) :
                     job'[j].docs[i] = lines'[job'[j].base + i - 1]
    <3>1. /\ job[j] \in ChunkJob /\ job[j].n = j - 1 /\ jpc[j] # "load"
          /\ 1 <= job[j].base /\ After(j) <= Covered
          /\ \A i \in 1..Len(job[j].docs) : job[j].docs[i] = lines[job[j].base + i - 1]
      BY DEF IInv, Chunks
    <3>2. QED
      BY <1>1, <1>8, <2>1, <2>2, <3>1
  <2>7. \A j, k \in 1..chunk_n : j < k => After(j)' <= job'[k].base
    BY <1>1, <1>8, <2>1, <2>2 DEF IInv, Chunks
  <2>4. \A d \in 1..(Covered' - 1) : \E j \in 1..chunk_n : job'[j].base <= d /\ d < After(j)'
    BY <1>8, <2>1, <2>2 DEF IInv, Chunks
  <2>5. Covered' >= 1 /\ Covered' <= Len(lines') + 1 /\ chunk_n <= added'
    BY <1>1, <1>2, <1>6, <2>1 DEF IInv, Chunks
  <2>6. QED
    BY <1>1, <2>3, <2>4, <2>5, <2>7 DEF Chunks
<1>12. Files'
  <2>1. Summed' = Summed /\ Pushed' = Pushed /\ Written' = Written
    BY <1>1, <1>8 DEF Summed, Pushed, Written
  <2>2. \A d \in DOMAIN lines : d \in DOMAIN lines' /\ lines'[d] = lines[d]
    BY <1>1
  <2>3. QED
    BY <1>1, <1>8, <2>1, <2>2, FilesStay
<1>13. Barriers'
  <2>1. ~Indexing /\ ~Indexing'
    BY <1>1 DEF Indexing
  <2>2. \A j \in 1..chunk_n : jpc'[j] = "end"
    BY <1>8, <2>1 DEF IInv, Barriers
  <2>3. next_path' = added' - chunk_n + 1 /\ next_path' <= Len(index_folders_paths) + 1
    BY <1>1, <1>2, <1>6
  <2>4. QED
    BY <1>1, <2>1, <2>2, <2>3 DEF Barriers, sharedVars
<1>14. SigmaJobs'
  <2>1. ASSUME NEW j \in (chunk_n + 1)..added'
        PROVE  /\ job'[j] \in SigmaJob /\ job'[j].n = index_folders_paths[j - chunk_n]
               /\ jpc'[j] \in {"load", "end"}
    <3>1. CASE j \in 1..added
      <4>1. j \in (chunk_n + 1)..added
        BY <1>2, <3>1
      <4>2. QED
        BY <1>6, <3>1, <4>1 DEF IInv, SigmaJobs
    <3>2. CASE j = added + 1
      <4>1. j - chunk_n = next_path
        BY <1>2, <3>2
      <4>2. QED
        BY <1>4, <1>5, <1>6, <3>2, <4>1
    <3>3. j \in 1..added \/ j = added + 1
      BY <1>2, <1>6
    <3>4. QED
      BY <3>1, <3>2, <3>3
  <2>2. QED
    BY <1>1, <2>1 DEF SigmaJobs, sharedVars
<1>15. Statistics'
  <2>1. TrueDfs' = TrueDfs /\ TrueCollection' = TrueCollection
    BY <1>1 DEF TrueDfs, TrueCollection
  <2>2. {k \in (chunk_n + 1)..added' : jpc'[k] = "end"}
          = {k \in (chunk_n + 1)..added : jpc[k] = "end"}
    <3>1. \A k \in (chunk_n + 1)..added' : k \in (chunk_n + 1)..added \/ k = added + 1
      BY <1>2, <1>6
    <3>2. \A k \in (chunk_n + 1)..added : k \in (chunk_n + 1)..added' /\ k \in 1..added
      BY <1>2, <1>6
    <3>3. QED
      BY <1>6, <3>1, <3>2
  <2>3. {job'[j].n : j \in {k \in (chunk_n + 1)..added' : jpc'[k] = "end"}}
          = {job[j].n : j \in {k \in (chunk_n + 1)..added : jpc[k] = "end"}}
    <3>1. \A k \in (chunk_n + 1)..added : job'[k] = job[k]
      BY <1>2, <1>6
    <3>2. QED
      BY <2>2, <3>1
  <2>4. QED
    BY <1>1, <2>1, <2>3 DEF IInv, Statistics, Indexing
<1>16. QED
  BY <1>6, <1>7, <1>9, <1>10, <1>11, <1>12, <1>13, <1>14, <1>15 DEF IInv

\* A thread takes the oldest job that waits.
LEMMA StartJobKeepsIInv == ASSUME IInv, StartJob PROVE IInv'
<1>1. /\ queue # <<>> /\ queue' = Tail(queue) /\ running' = running \cup {Head(queue)}
      /\ UNCHANGED <<done, added, call>>
      /\ UNCHANGED <<mpc, lines, line_count, chunk, space_count, docid_start, chunk_n,
                     next_path, job, jpc, sharedVars, document_index, lexicon, global_lexicon,
                     metadata>>
  BY DEF StartJob, Pool!Start, mainVars, readVars, jobVars, diskVars
<1>2. /\ queue \in Seq(Nat) /\ Len(queue) \in Nat /\ Len(queue) >= 1 /\ added \in Nat
      /\ Len(queue) <= added /\ Started = added - Len(queue) /\ Started \in Nat
      /\ Head(queue) = queue[1]
  <2>1. queue \in Seq(Nat) /\ added \in Nat /\ Len(queue) <= added
    BY DEF IInv, TypeOK, PoolJobs
  <2>2. Len(queue) \in Nat /\ Len(queue) >= 1 /\ Head(queue) = queue[1]
    BY <1>1, <2>1
  <2>3. QED
    BY <2>1, <2>2 DEF Started
<1>3. Head(queue) = Started + 1
  BY <1>2 DEF IInv, PoolJobs
<1>4. /\ queue' \in Seq(Nat) /\ Len(queue') = Len(queue) - 1
      /\ \A i \in 1..Len(queue') : queue'[i] = queue[i + 1]
  BY <1>1, <1>2
<1>5. Started' = Started + 1
  BY <1>1, <1>2, <1>4 DEF Started
<1>6. Started + 1 \notin running /\ IsFiniteSet(running)
  BY <1>2 DEF IInv, PoolJobs
<1>7. Cardinality(running') = Cardinality(running) + 1 /\ IsFiniteSet(running')
  BY <1>1, <1>3, <1>6, FS_AddElement
<1>8. PoolJobs'
  <2>1. \A i \in 1..Len(queue') : queue'[i] = Started' + i
    <3>1. \A i \in 1..Len(queue') : queue[i + 1] = Started + (i + 1)
      BY <1>2, <1>4 DEF IInv, PoolJobs
    <3>2. QED
      BY <1>2, <1>4, <1>5, <3>1
  <2>2. running \cup done = 1..Started /\ running \cap done = {}
    BY DEF IInv, PoolJobs
  <2>3. running' \cup done = 1..(Started + 1) /\ running' \cap done = {}
    BY <1>1, <1>2, <1>3, <2>2
  <2>4. Len(job') = added /\ Len(jpc') = added /\ (\A j \in 1..added : jpc[j] = "end" <=> j \in done)
    BY <1>1 DEF IInv, PoolJobs
  <2>5. \A j \in 1..added : j > Started + 1 => jpc[j] \in {"index", "load"}
    BY <1>2 DEF IInv, PoolJobs
  <2>6. QED
    BY <1>1, <1>2, <1>4, <1>5, <1>7, <2>1, <2>3, <2>4, <2>5 DEF PoolJobs
<1>9. TypeOK'
  <2>1. running' \subseteq Nat
    <3>1. running \subseteq Nat /\ Head(queue) \in Nat
      BY <1>2, <1>3 DEF IInv, TypeOK
    <3>2. QED
      BY <1>1, <3>1
  <2>2. QED
    BY <1>1, <1>4, <2>1 DEF IInv, TypeOK, sharedVars
<1>10. Room'
  <2>1. Cardinality(running) \in Nat
    BY <1>6, FS_CardinalityType
  <2>2. mpc \notin {"start", "read", "path_add"}
    BY <1>1 DEF IInv, Room
  <2>3. QED
    BY <1>1, <1>2, <1>4, <1>7, <2>1, <2>2 DEF IInv, Room
<1>11. Calls' /\ LinesRead' /\ Mutex' /\ Barriers' /\ SigmaJobs'
  BY <1>1 DEF IInv, Calls, LinesRead, Reading, Mutex, InMutex, Barriers, Indexing, SigmaJobs,
     sharedVars
<1>12. Chunks'
  BY <1>1 DEF IInv, Chunks, After, Covered, Reading
<1>13. Files'
  BY <1>1, FilesStay DEF Summed, Pushed, Written
<1>14. Statistics'
  BY <1>1 DEF IInv, Statistics, Indexing, TrueDfs, TrueCollection
<1>15. QED
  BY <1>8, <1>9, <1>10, <1>11, <1>12, <1>13, <1>14 DEF IInv

\* A job that is being run is one that was added and has not ended.
LEMMA RunningJob ==
    ASSUME IInv, NEW j \in running
    PROVE  /\ j \in 1..added /\ j \in 1..Started /\ j \notin done /\ jpc[j] # "end"
           /\ added \in Nat /\ chunk_n \in Nat /\ chunk_n <= added
           /\ Started \in Nat /\ Started <= added
<1>1. /\ added \in Nat /\ chunk_n \in Nat /\ chunk_n <= added /\ Len(queue) \in Nat
      /\ Len(queue) <= added
  BY DEF IInv, TypeOK, Chunks, PoolJobs
<1>2. Started \in Nat /\ Started <= added
  BY <1>1 DEF Started
<1>3. j \in 1..Started /\ j \notin done
  BY DEF IInv, PoolJobs
<1>4. j \in 1..added
  BY <1>1, <1>2, <1>3
<1>5. jpc[j] # "end"
  BY <1>3, <1>4 DEF IInv, PoolJobs
<1>6. QED
  BY <1>1, <1>2, <1>3, <1>4, <1>5

\* One that is neither loading nor over is a chunk's, and main is before its barrier.
LEMMA RunningChunk ==
    ASSUME IInv, NEW j \in running, jpc[j] # "load"
    PROVE  j \in 1..chunk_n /\ Indexing /\ chunk_n = added /\ next_path = 1
<1>1. /\ j \in 1..added /\ jpc[j] # "end" /\ added \in Nat /\ chunk_n \in Nat
      /\ chunk_n <= added
  BY RunningJob
<1>2. j \in 1..chunk_n
  <2>1. j \notin (chunk_n + 1)..added
    BY <1>1 DEF IInv, SigmaJobs
  <2>2. QED
    BY <1>1, <2>1
<1>3. Indexing
  BY <1>1, <1>2 DEF IInv, Barriers
<1>4. QED
  BY <1>1, <1>2, <1>3 DEF IInv, Barriers

\* A step of a chunk's job leaves everything that main does alone.
LEMMA ChunkStep ==
    ASSUME IInv, NEW j \in running, jpc[j] # "load",
           NEW pc \in {"sum", "push", "write", "end"}, jpc' = [jpc EXCEPT ![j] = pc],
           index_folders_paths' \in Seq(Nat),
           UNCHANGED <<mainVars, queue, added, call, job, lexicon, global_lexicon, metadata>>
    PROVE  /\ Calls' /\ LinesRead' /\ Chunks' /\ Barriers' /\ SigmaJobs' /\ Statistics'
           /\ jpc' \in Seq({"index", "sum", "push", "write", "load", "end"})
           /\ Len(jpc') = Len(jpc)
           /\ jpc'[j] = pc /\ \A k \in 1..added : k # j => jpc'[k] = jpc[k]
<1>1. /\ j \in 1..added /\ j \in 1..chunk_n /\ Indexing /\ chunk_n = added /\ next_path = 1
      /\ added \in Nat
  BY RunningJob, RunningChunk
<1>2. /\ UNCHANGED <<mpc, lines, line_count, chunk, space_count, docid_start, chunk_n,
                     next_path, queue, added, call, job, lexicon, global_lexicon, metadata>>
      /\ (chunk_n + 1)..added = {}
  BY <1>1 DEF mainVars, readVars
<1>3. /\ jpc \in Seq({"index", "sum", "push", "write", "load", "end"})
      /\ DOMAIN jpc = 1..added
  BY DEF IInv, TypeOK, PoolJobs
<1>4. /\ jpc'[j] = pc /\ \A k \in 1..added : k # j => jpc'[k] = jpc[k]
  BY <1>1, <1>3
<1>5. /\ jpc' \in Seq({"index", "sum", "push", "write", "load", "end"})
      /\ Len(jpc') = Len(jpc)
  BY <1>1, <1>3
<1>6. Calls' /\ LinesRead'
  BY <1>2 DEF IInv, Calls, LinesRead, Reading
<1>7. Covered' = Covered /\ (\A k \in 1..chunk_n : After(k)' = After(k))
  BY <1>2 DEF Covered, Reading, After
<1>8. Chunks'
  <2>1. \A k \in 1..chunk_n : jpc'[k] # "load"
    BY <1>1, <1>4 DEF IInv, Chunks
  <2>2. QED
    BY <1>2, <1>7, <2>1 DEF IInv, Chunks
<1>9. Barriers'
  <2>1. Len(index_folders_paths') \in Nat
    OBVIOUS
  <2>2. Indexing' /\ added' = chunk_n' /\ next_path' = 1 /\ added' \in Nat
    BY <1>1, <1>2 DEF Indexing
  <2>3. next_path' = added' - chunk_n' + 1
    BY <1>2 DEF IInv, Barriers
  <2>5. next_path' <= Len(index_folders_paths') + 1
    BY <2>1, <2>2
  <2>4. QED
    BY <1>1, <1>2, <2>2, <2>3, <2>5 DEF Barriers, Indexing
<1>10. SigmaJobs'
  BY <1>2 DEF SigmaJobs
<1>11. Statistics'
  <2>1. DOMAIN lexicon = {}
    BY <1>2 DEF IInv, Statistics
  <2>2. QED
    BY <1>1, <1>2, <2>1 DEF Statistics, Indexing
<1>12. QED
  BY <1>4, <1>5, <1>6, <1>8, <1>9, <1>10, <1>11

\* A step that does not end the job leaves the pool alone.
LEMMA ChunkStepKeepsPool ==
    ASSUME IInv, NEW j \in running, jpc[j] # "load",
           NEW pc \in {"sum", "push", "write"}, jpc'[j] = pc,
           \A k \in 1..added : k # j => jpc'[k] = jpc[k], Len(jpc') = Len(jpc),
           UNCHANGED <<mainVars, poolVars, job>>
    PROVE  PoolJobs' /\ Room'
<1>1. UNCHANGED <<mpc, queue, running, done, added, job>>
  BY DEF mainVars, poolVars
<1>2. j \in 1..Started /\ j \notin done /\ j \in 1..added /\ Started \in Nat
  BY RunningJob
<1>3. /\ \A k \in 1..added : jpc[k] = "end" <=> k \in done
      /\ \A k \in 1..added : k > Started => jpc[k] \in {"index", "load"}
  BY DEF IInv, PoolJobs
<1>4. \A k \in 1..added : jpc'[k] = "end" <=> k \in done
  BY <1>2, <1>3
<1>5. \A k \in 1..added : k > Started => k # j
  BY <1>2
<1>6. \A k \in 1..added : k > Started => jpc'[k] \in {"index", "load"}
  BY <1>3, <1>5
<1>7. Started' = Started
  BY <1>1 DEF Started
<1>8. QED
  BY <1>1, <1>4, <1>6, <1>7 DEF IInv, PoolJobs, Room

\* The step that ends it takes it from the pool.
LEMMA FinishKeepsPool ==
    ASSUME IInv, NEW j \in running, Pool!Finish(j), jpc'[j] = "end",
           \A k \in 1..added : k # j => jpc'[k] = jpc[k], Len(jpc') = Len(jpc),
           UNCHANGED <<mainVars, job>>
    PROVE  PoolJobs' /\ Room' /\ UNCHANGED <<queue, added, call>>
           /\ running' \subseteq Nat /\ done' \subseteq Nat
<1>1. /\ UNCHANGED <<mpc, queue, added, call, job>>
      /\ running' = running \ {j} /\ done' = done \cup {j}
  BY DEF mainVars, Pool!Finish
<1>2. j \in 1..Started /\ j \notin done /\ j \in 1..added /\ Started \in Nat
  BY RunningJob
<1>3. /\ \A k \in 1..added : jpc[k] = "end" <=> k \in done
      /\ \A k \in 1..added : k > Started => jpc[k] \in {"index", "load"}
      /\ running \cup done = 1..Started /\ running \cap done = {} /\ IsFiniteSet(running)
  BY DEF IInv, PoolJobs
<1>4. \A k \in 1..added : jpc'[k] = "end" <=> k \in done'
  BY <1>1, <1>2, <1>3
<1>5. \A k \in 1..added : k > Started => k # j
  BY <1>2
<1>6. \A k \in 1..added : k > Started => jpc'[k] \in {"index", "load"}
  BY <1>3, <1>5
<1>7. Started' = Started
  BY <1>1 DEF Started
<1>8. /\ running' \cup done' = 1..Started /\ running' \cap done' = {}
  BY <1>1, <1>2, <1>3
<1>9. IsFiniteSet(running') /\ Cardinality(running') = Cardinality(running) - 1
  BY <1>1, <1>3, FS_RemoveElement
<1>10. PoolJobs'
  BY <1>1, <1>4, <1>6, <1>7, <1>8, <1>9 DEF IInv, PoolJobs
<1>11. Room'
  <2>1. Cardinality(running) \in Nat /\ Len(queue) \in Nat /\ NWorkers \in Nat
    BY <1>3, FS_CardinalityType, BuilderAssumption DEF IInv, TypeOK
  <2>2. QED
    BY <1>1, <1>9, <2>1 DEF IInv, Room
<1>12. running' \subseteq Nat /\ done' \subseteq Nat
  BY <1>1, <1>2 DEF IInv, TypeOK
<1>13. QED
  BY <1>1, <1>10, <1>11, <1>12

\* A job takes the mutex when no other is inside.
LEMMA LockDiskKeepsIInv == ASSUME IInv, NEW j \in running, LockDisk(j) PROVE IInv'
<1>1. /\ jpc[j] = "index" /\ disk_holder = NoOne /\ disk_holder' = j
      /\ jpc' = [jpc EXCEPT ![j] = "sum"]
      /\ UNCHANGED <<mainVars, poolVars, job, global_doc_len_sum, index_folders_paths,
                     document_index, lexicon, global_lexicon, metadata>>
  BY DEF LockDisk, At, diskVars
<1>2. j \in 1..added /\ j \in 1..chunk_n /\ index_folders_paths \in Seq(Nat)
  BY <1>1, RunningJob, RunningChunk DEF IInv, TypeOK
<1>3. /\ Calls' /\ LinesRead' /\ Chunks' /\ Barriers' /\ SigmaJobs' /\ Statistics'
      /\ jpc' \in Seq({"index", "sum", "push", "write", "load", "end"})
      /\ Len(jpc') = Len(jpc)
      /\ jpc'[j] = "sum" /\ \A k \in 1..added : k # j => jpc'[k] = jpc[k]
  BY <1>1, <1>2, ChunkStep DEF poolVars
<1>4. PoolJobs' /\ Room'
  BY <1>1, <1>3, ChunkStepKeepsPool
<1>5. Mutex'
  <2>1. \A k \in 1..added : ~InMutex(k)
    BY <1>1, <1>2 DEF IInv, Mutex, NoOne
  <2>2. \A k \in 1..added : InMutex(k)' => k = j
    BY <1>3, <2>1 DEF InMutex
  <2>3. InMutex(j)'
    BY <1>3 DEF InMutex
  <2>4. QED
    BY <1>1, <1>2, <2>2, <2>3 DEF Mutex, poolVars
<1>6. TypeOK'
  BY <1>1, <1>2, <1>3 DEF IInv, TypeOK, mainVars, readVars, poolVars
<1>7. Files'
  <2>1. UNCHANGED <<chunk_n, lines, job, global_doc_len_sum, index_folders_paths,
                    document_index>>
    BY <1>1 DEF mainVars, readVars
  <2>2. \A k \in 1..chunk_n : k \in 1..added
    BY <1>1, RunningChunk
  <2>3. \A k \in 1..chunk_n :
           k # j => jpc'[k] = jpc[k]
    BY <1>3, <2>2
  <2>4. Summed' = Summed /\ Pushed' = Pushed /\ Written' = Written
    BY <1>1, <1>3, <2>1, <2>3 DEF Summed, Pushed, Written
  <2>5. Lengths' = Lengths /\ (\A k \in 1..chunk_n : Docids(k)' = Docids(k))
    BY <2>1 DEF Lengths, Docids, After
  <2>6. (UNION {Docids(k) : k \in Summed})' = UNION {Docids(k) : k \in Summed}
    BY <2>4, <2>5 DEF Summed
  <2>7. QED
    BY <2>1, <2>4, <2>5, <2>6 DEF IInv, Files
<1>8. QED
  BY <1>3, <1>4, <1>5, <1>6, <1>7 DEF IInv

\* The lengths of a chunk's documents add up to those of its lines.
LEMMA LengthOfChunk ==
    ASSUME IInv, NEW j \in 1..chunk_n
    PROVE  /\ LengthOf(job[j].docs) = SumFunctionOnSet(Lengths, Docids(j))
           /\ LengthOf(job[j].docs) \in Nat
<1> DEFINE docs == job[j].docs
           S == DOMAIN docs
           f == [i \in S |-> Length(docs[i])]
           h == [i \in S |-> job[j].base + i - 1]
<1>1. /\ docs \in Seq(Docs) /\ Len(docs) \in Nat /\ S = 1..Len(docs)
      /\ job[j].base \in Nat /\ After(j) = job[j].base + Len(docs)
      /\ \A i \in 1..Len(docs) : /\ job[j].base + i - 1 \in 1..Len(lines)
                                 /\ docs[i] = lines[job[j].base + i - 1]
  <2>1. /\ docs \in Seq(Docs) /\ Len(docs) \in Nat
        /\ job[j].base \in Nat /\ After(j) = job[j].base + Len(docs)
    BY ChunkFacts
  <2>2. \A i \in 1..Len(docs) : /\ job[j].base + i - 1 \in 1..Len(lines)
                                /\ docs[i] = lines[job[j].base + i - 1]
    BY ChunkFacts
  <2>3. S = 1..Len(docs)
    BY <2>1
  <2>4. QED
    BY <2>1, <2>2, <2>3
<1>2. DOMAIN lines = 1..Len(lines)
  BY DEF IInv, TypeOK
<1>3. IsFiniteSet(S)
  <2>1. \A n \in Nat : IsFiniteSet(1..n)
    BY FS_Interval
  <2>2. QED
    BY <1>1, <2>1, Zenon
<1>4. \A i \in S : f[i] \in Nat
  <2>1. \A i \in S : docs[i] \in Docs
    BY <1>1
  <2>2. QED
    BY <2>1, LengthType, Zenon
<1>5. \A i \in S : Lengths[h[i]] = f[i]
  BY <1>1, <1>2 DEF Lengths
<1>6. \A i, k \in S : h[i] = h[k] => i = k
  BY <1>1
<1>7. {h[i] : i \in S} = Docids(j)
  <2>1. ASSUME NEW d \in Docids(j) PROVE \E i \in S : d = h[i]
    <3>1. d \in job[j].base..(job[j].base + Len(docs) - 1)
      BY <1>1 DEF Docids
    <3>2. \A b, l \in Nat : \A x \in b..(b + l - 1) : \E i \in 1..l : x = b + i - 1
      <4> SUFFICES ASSUME NEW b \in Nat, NEW l \in Nat, NEW x \in b..(b + l - 1)
                   PROVE  x - b + 1 \in 1..l /\ x = b + (x - b + 1) - 1
        OBVIOUS
      <4> QED
        OBVIOUS
    <3>3. \E i \in 1..Len(docs) : d = job[j].base + i - 1
      BY <1>1, <3>1, <3>2, Zenon
    <3>4. QED
      BY <1>1, <3>3
  <2>2. ASSUME NEW i \in S PROVE h[i] \in Docids(j)
    BY <1>1 DEF Docids
  <2>3. QED
    BY <2>1, <2>2
<1>8. LengthOf(docs) = SumFunctionOnSet(f, S)
  BY DEF LengthOf, SumFunction, SumFunctionOnSet, FoldFunction
<1> HIDE DEF docs, S, f, h
<1>9. SumFunctionOnSet(Lengths, {h[i] : i \in S}) = SumFunctionOnSet(f, S)
  BY <1>3, <1>4, <1>5, <1>6, SumImage, SMTT(30)
<1>10. SumFunctionOnSet(f, S) \in Nat
  BY <1>3, <1>4, SumType
<1>11. QED
  BY <1>7, <1>8, <1>9, <1>10 DEF docs

\* The lengths of the chunk's lines are added to those summed before.
LEMMA AddLengthsKeepsIInv == ASSUME IInv, NEW j \in running, AddLengths(j) PROVE IInv'
<1>1. /\ jpc[j] = "sum" /\ jpc' = [jpc EXCEPT ![j] = "push"]
      /\ global_doc_len_sum' = global_doc_len_sum + LengthOf(job[j].docs)
      /\ UNCHANGED <<mainVars, poolVars, job, disk_holder, index_folders_paths,
                     document_index, lexicon, global_lexicon, metadata>>
  BY DEF AddLengths, At, diskVars
<1>2. j \in 1..added /\ j \in 1..chunk_n /\ chunk_n = added /\ index_folders_paths \in Seq(Nat)
  BY <1>1, RunningJob, RunningChunk DEF IInv, TypeOK
<1>3. /\ Calls' /\ LinesRead' /\ Chunks' /\ Barriers' /\ SigmaJobs' /\ Statistics'
      /\ jpc' \in Seq({"index", "sum", "push", "write", "load", "end"})
      /\ Len(jpc') = Len(jpc)
      /\ jpc'[j] = "push" /\ \A k \in 1..added : k # j => jpc'[k] = jpc[k]
  BY <1>1, <1>2, ChunkStep DEF poolVars
<1>4. PoolJobs' /\ Room'
  BY <1>1, <1>3, ChunkStepKeepsPool
<1>5. Mutex'
  BY <1>1, <1>3 DEF IInv, Mutex, InMutex, poolVars
<1>6. TypeOK'
  <2>1. global_doc_len_sum' \in Nat
    BY <1>1, <1>2, LengthOfChunk DEF IInv, TypeOK
  <2>2. QED
    BY <1>1, <1>2, <1>3, <2>1 DEF IInv, TypeOK, mainVars, readVars, poolVars
<1>7. Files'
  <2> DEFINE Sum == UNION {Docids(k) : k \in Summed}
  <2>1. UNCHANGED <<chunk_n, lines, job, index_folders_paths, document_index>>
    BY <1>1 DEF mainVars, readVars
  <2>2. Summed' = Summed \cup {j} /\ Pushed' = Pushed /\ Written' = Written /\ j \notin Summed
    BY <1>1, <1>2, <1>3, <2>1 DEF Summed, Pushed, Written
  <2>3. Lengths' = Lengths /\ (\A k \in 1..chunk_n : Docids(k)' = Docids(k))
    BY <2>1 DEF Lengths, Docids, After
  <2>4. Summed \subseteq 1..chunk_n
    BY DEF Summed
  <2>5. (UNION {Docids(k) : k \in Summed})' = Sum \cup Docids(j)
    BY <1>2, <2>2, <2>3, <2>4
  <2>6. Sum \cap Docids(j) = {}
    BY <1>2, <2>2, <2>4, ChunksAreDisjoint
  <2>7. IsFiniteSet(Sum) /\ Sum \subseteq DOMAIN lines
    BY <2>4, DocidsAreLines
  <2>8. IsFiniteSet(Docids(j)) /\ Docids(j) \subseteq DOMAIN lines
    <3>1. Docids(j) \subseteq 1..Len(lines)
      BY <1>2, DocidsAreLines DEF IInv, TypeOK
    <3>2. IsFiniteSet(1..Len(lines))
      BY FS_Interval DEF IInv, TypeOK
    <3>3. QED
      BY <1>2, <3>1, <3>2, FS_Subset, DocidsAreLines
  <2>9. global_doc_len_sum = SumFunctionOnSet(Lengths, Sum)
    BY DEF IInv, Files
  <2> HIDE DEF Sum
  <2>10. \A d \in Sum \cup Docids(j) : Lengths[d] \in Nat
    BY <2>7, <2>8, DocidsAreLines
  <2>11. SumFunctionOnSet(Lengths, Sum \cup Docids(j))
           = SumFunctionOnSet(Lengths, Sum) + SumFunctionOnSet(Lengths, Docids(j))
    BY <2>6, <2>7, <2>8, <2>10, SumDisjointUnion
  <2>12. global_doc_len_sum' = SumFunctionOnSet(Lengths, Sum \cup Docids(j))
    BY <1>1, <1>2, <2>9, <2>11, LengthOfChunk
  <2>13. QED
    BY <2>1, <2>2, <2>3, <2>4, <2>5, <2>12 DEF IInv, Files
<1>8. QED
  BY <1>3, <1>4, <1>5, <1>6, <1>7 DEF IInv

\* The chunk's folder joins those pushed before, none twice.
LEMMA PushPathKeepsIInv == ASSUME IInv, NEW j \in running, PushPath(j) PROVE IInv'
<1>1. /\ jpc[j] = "push" /\ jpc' = [jpc EXCEPT ![j] = "write"]
      /\ index_folders_paths' = Append(index_folders_paths, job[j].n)
      /\ UNCHANGED <<mainVars, poolVars, job, disk_holder, global_doc_len_sum,
                     document_index, lexicon, global_lexicon, metadata>>
  BY DEF PushPath, At, diskVars
<1>2. /\ j \in 1..added /\ j \in 1..chunk_n /\ chunk_n = added /\ j \in Nat
      /\ index_folders_paths \in Seq(Nat) /\ job[j].n = j - 1 /\ j - 1 \in Nat
  <2>1. j \in 1..added /\ j \in 1..chunk_n /\ chunk_n = added
    BY <1>1, RunningJob, RunningChunk
  <2>2. job[j].n = j - 1 /\ j \in Nat /\ j - 1 \in Nat
    BY <2>1, ChunkFacts
  <2>3. index_folders_paths \in Seq(Nat)
    BY DEF IInv, TypeOK
  <2>4. QED
    BY <2>1, <2>2, <2>3
<1> DEFINE L == Len(index_folders_paths)
<1>3. /\ index_folders_paths' \in Seq(Nat) /\ L \in Nat /\ Len(index_folders_paths') = L + 1
      /\ \A p \in 1..L : index_folders_paths'[p] = index_folders_paths[p]
      /\ index_folders_paths'[L + 1] = j - 1
      /\ \A p \in 1..L : index_folders_paths[p] \in Nat
  BY <1>1, <1>2
<1>4. /\ Calls' /\ LinesRead' /\ Chunks' /\ Barriers' /\ SigmaJobs' /\ Statistics'
      /\ jpc' \in Seq({"index", "sum", "push", "write", "load", "end"})
      /\ Len(jpc') = Len(jpc)
      /\ jpc'[j] = "write" /\ \A k \in 1..added : k # j => jpc'[k] = jpc[k]
  BY <1>1, <1>3, ChunkStep DEF poolVars
<1>5. PoolJobs' /\ Room'
  BY <1>1, <1>4, ChunkStepKeepsPool
<1>6. Mutex'
  BY <1>1, <1>4 DEF IInv, Mutex, InMutex, poolVars
<1>7. TypeOK'
  BY <1>1, <1>3, <1>4 DEF IInv, TypeOK, mainVars, readVars, poolVars
<1>8. Files'
  <2>1. UNCHANGED <<chunk_n, lines, job, global_doc_len_sum, document_index>>
    BY <1>1 DEF mainVars, readVars
  <2>2. Summed' = Summed /\ Pushed' = Pushed \cup {j} /\ Written' = Written /\ j \notin Pushed
    BY <1>1, <1>2, <1>4, <2>1 DEF Summed, Pushed, Written
  <2>3. Lengths' = Lengths /\ (\A k \in 1..chunk_n : Docids(k)' = Docids(k))
    BY <2>1 DEF Lengths, Docids, After
  <2>4. Summed \subseteq 1..chunk_n
    BY DEF Summed
  <2>5. (UNION {Docids(k) : k \in Summed})' = UNION {Docids(k) : k \in Summed}
    BY <2>2, <2>3, <2>4
  <2>6. /\ \A p \in 1..L : index_folders_paths[p] + 1 \in Pushed
        /\ \A k \in Pushed : \E p \in 1..L : index_folders_paths[p] = k - 1
        /\ \A p, q \in 1..L : index_folders_paths[p] = index_folders_paths[q] => p = q
    BY DEF IInv, Files
  <2>7. ASSUME NEW p \in 1..L, index_folders_paths[p] = j - 1 PROVE FALSE
    <3>1. index_folders_paths[p] + 1 = j
      BY <1>2, <2>7
    <3>2. QED
      BY <2>2, <2>6, <3>1
  <2>8. \A p \in 1..(L + 1) : p \in 1..L \/ p = L + 1
    BY <1>3
  <2>9. ASSUME NEW p \in 1..(L + 1) PROVE index_folders_paths'[p] + 1 \in Pushed'
    <3>1. CASE p \in 1..L
      BY <1>3, <2>2, <2>6, <3>1
    <3>2. CASE p = L + 1
      <4>1. index_folders_paths'[p] + 1 = j
        BY <1>2, <1>3, <3>2
      <4>2. QED
        BY <2>2, <4>1
    <3>3. QED
      BY <2>8, <3>1, <3>2
  <2>10. \A k \in Pushed' : \E p \in 1..(L + 1) : index_folders_paths'[p] = k - 1
    <3>1. \A p \in 1..L : p \in 1..(L + 1)
      BY <1>3
    <3>2. L + 1 \in 1..(L + 1)
      BY <1>3
    <3>3. QED
      BY <1>3, <2>2, <2>6, <3>1, <3>2
  <2>11. \A p, q \in 1..(L + 1) : index_folders_paths'[p] = index_folders_paths'[q] => p = q
    BY <1>3, <2>6, <2>7, <2>8
  <2>12. QED
    BY <1>3, <2>1, <2>2, <2>3, <2>5, <2>9, <2>10, <2>11 DEF IInv, Files
<1>9. QED
  BY <1>4, <1>5, <1>6, <1>7, <1>8 DEF IInv

\* The chunk's documents are on disk, and the mutex is free.
LEMMA WriteChunkKeepsIInv == ASSUME IInv, NEW j \in running, WriteChunk(j) PROVE IInv'
<1>1. /\ jpc[j] = "write" /\ jpc' = [jpc EXCEPT ![j] = "end"] /\ disk_holder' = NoOne
      /\ document_index' = Put(document_index, job[j].n, Indexed(job[j].docs, job[j].base))
      /\ Pool!Finish(j)
      /\ UNCHANGED <<mainVars, job, global_doc_len_sum, index_folders_paths, lexicon,
                     global_lexicon, metadata>>
  BY DEF WriteChunk, At
<1>2. /\ j \in 1..added /\ j \in 1..chunk_n /\ chunk_n = added /\ j \in Nat
      /\ index_folders_paths \in Seq(Nat) /\ job[j].n = j - 1
  <2>1. j \in 1..added /\ j \in 1..chunk_n /\ chunk_n = added
    BY <1>1, RunningJob, RunningChunk
  <2>2. job[j].n = j - 1 /\ j \in Nat
    BY <2>1, ChunkFacts
  <2>3. index_folders_paths \in Seq(Nat)
    BY DEF IInv, TypeOK
  <2>4. QED
    BY <2>1, <2>2, <2>3
<1>3. /\ Calls' /\ LinesRead' /\ Chunks' /\ Barriers' /\ SigmaJobs' /\ Statistics'
      /\ jpc' \in Seq({"index", "sum", "push", "write", "load", "end"})
      /\ Len(jpc') = Len(jpc)
      /\ jpc'[j] = "end" /\ \A k \in 1..added : k # j => jpc'[k] = jpc[k]
  BY <1>1, <1>2, ChunkStep DEF Pool!Finish
<1>4. PoolJobs' /\ Room' /\ UNCHANGED <<queue, added, call>>
      /\ running' \subseteq Nat /\ done' \subseteq Nat
  BY <1>1, <1>3, FinishKeepsPool
<1>5. Mutex'
  <2>1. \A k \in 1..added : InMutex(k) => k = j
    BY <1>1, <1>2 DEF IInv, Mutex, InMutex
  <2>2. \A k \in 1..added : ~InMutex(k)'
    BY <1>3, <2>1 DEF InMutex
  <2>3. QED
    BY <1>1, <1>4, <2>2 DEF Mutex
<1>6. TypeOK'
  BY <1>1, <1>3, <1>4 DEF IInv, TypeOK, mainVars, readVars, NoOne
<1>7. Files'
  <2>1. UNCHANGED <<chunk_n, lines, job, global_doc_len_sum, index_folders_paths>>
    BY <1>1 DEF mainVars, readVars
  <2>2. Summed' = Summed /\ Pushed' = Pushed /\ Written' = Written \cup {j}
    BY <1>1, <1>2, <1>3, <2>1 DEF Summed, Pushed, Written
  <2>3. Lengths' = Lengths /\ (\A k \in 1..chunk_n : Docids(k)' = Docids(k))
    BY <2>1 DEF Lengths, Docids, After
  <2>4. Summed \subseteq 1..chunk_n
    BY DEF Summed
  <2>5. (UNION {Docids(k) : k \in Summed})' = UNION {Docids(k) : k \in Summed}
    BY <2>2, <2>3, <2>4
  <2>6. /\ DOMAIN document_index = {k - 1 : k \in Written}
        /\ \A k \in Written : document_index[k - 1] = Indexed(job[k].docs, job[k].base)
        /\ \A k \in Written : k \in Nat
    BY DEF IInv, Files, Written
  <2>7. DOMAIN document_index' = {k - 1 : k \in Written'}
    BY <1>1, <1>2, <2>2, <2>6 DEF Put
  <2>8. ASSUME NEW k \in Written'
        PROVE  document_index'[k - 1] = Indexed(job'[k].docs, job'[k].base)
    <3>1. CASE k = j
      BY <1>1, <1>2, <2>1, <3>1 DEF Put
    <3>2. CASE k # j
      <4>1. k \in Written /\ k - 1 # j - 1 /\ k - 1 \in DOMAIN document_index
        BY <1>2, <2>2, <2>6, <3>2
      <4>2. document_index'[k - 1] = document_index[k - 1]
        BY <1>1, <1>2, <4>1 DEF Put
      <4>3. QED
        BY <2>1, <2>6, <4>1, <4>2
    <3>3. QED
      BY <3>1, <3>2
  <2>9. QED
    BY <2>1, <2>2, <2>3, <2>5, <2>7, <2>8 DEF IInv, Files
<1>8. QED
  BY <1>3, <1>4, <1>5, <1>6, <1>7 DEF IInv

\* A chunk's bounds see what main wrote after its barrier.
LEMMA WriteSigmaLexiconKeepsIInv ==
    ASSUME IInv, NEW j \in running, WriteSigmaLexicon(j) PROVE IInv'
<1>1. /\ jpc[j] = "load" /\ jpc' = [jpc EXCEPT ![j] = "end"]
      /\ lexicon' = Put(lexicon, job[j].n, [dfs |-> global_lexicon, collection |-> metadata])
      /\ Pool!Finish(j)
      /\ UNCHANGED <<mainVars, job, sharedVars, document_index, global_lexicon, metadata>>
  BY DEF WriteSigmaLexicon, At
<1>2. /\ UNCHANGED <<mpc, lines, line_count, chunk, space_count, docid_start, chunk_n, next_path>>
      /\ UNCHANGED <<disk_holder, global_doc_len_sum, index_folders_paths>>
  BY <1>1 DEF mainVars, readVars, sharedVars
<1>3. /\ j \in 1..added /\ added \in Nat /\ chunk_n \in Nat /\ chunk_n <= added
      /\ j \in (chunk_n + 1)..added
  <2>1. j \in 1..added /\ added \in Nat /\ chunk_n \in Nat /\ chunk_n <= added
    BY RunningJob
  <2>2. j \notin 1..chunk_n
    BY <1>1 DEF IInv, Chunks
  <2>3. QED
    BY <2>1, <2>2
<1>4. ~Indexing /\ mpc \notin {"merge", "metadata"}
  BY <1>3 DEF IInv, Barriers
<1>5. /\ jpc' \in Seq({"index", "sum", "push", "write", "load", "end"})
      /\ Len(jpc') = Len(jpc)
      /\ jpc'[j] = "end" /\ \A k \in 1..added : k # j => jpc'[k] = jpc[k]
  <2>1. /\ jpc \in Seq({"index", "sum", "push", "write", "load", "end"})
        /\ DOMAIN jpc = 1..added
    BY DEF IInv, TypeOK, PoolJobs
  <2>2. QED
    BY <1>1, <1>3, <2>1
<1>6. PoolJobs' /\ Room' /\ UNCHANGED <<queue, added, call>>
      /\ running' \subseteq Nat /\ done' \subseteq Nat
  BY <1>1, <1>5, FinishKeepsPool
<1>7. TypeOK'
  BY <1>1, <1>2, <1>5, <1>6 DEF IInv, TypeOK
<1>8. Calls' /\ LinesRead'
  BY <1>2, <1>6 DEF IInv, Calls, LinesRead, Reading
<1>9. \A k \in 1..chunk_n : jpc'[k] = jpc[k]
  BY <1>3, <1>5
<1>10. Chunks'
  <2>1. Covered' = Covered /\ \A k \in 1..chunk_n : After(k)' = After(k)
    BY <1>1, <1>2 DEF Covered, Reading, After
  <2>2. \A k \in 1..chunk_n : jpc'[k] # "load"
    BY <1>9 DEF IInv, Chunks
  <2>3. QED
    BY <1>1, <1>2, <1>6, <2>1, <2>2 DEF IInv, Chunks
<1>11. Mutex'
  BY <1>1, <1>2, <1>3, <1>5, <1>6 DEF IInv, Mutex, InMutex
<1>12. Files'
  <2>1. Summed' = Summed /\ Pushed' = Pushed /\ Written' = Written
    BY <1>2, <1>9 DEF Summed, Pushed, Written
  <2>2. \A d \in DOMAIN lines : d \in DOMAIN lines' /\ lines'[d] = lines[d]
    BY <1>2
  <2>3. QED
    BY <1>1, <2>1, <2>2, FilesStay
<1>13. Barriers'
  <2>1. \A k \in 1..added : jpc[k] = "end" => jpc'[k] = "end"
    BY <1>5
  <2>2. QED
    BY <1>2, <1>4, <1>6, <1>9, <2>1 DEF IInv, Barriers, Indexing
<1>14. SigmaJobs'
  <2>1. \A k \in (chunk_n + 1)..added : jpc'[k] \in {"load", "end"}
    <3>1. \A k \in (chunk_n + 1)..added : k \in 1..added
      BY <1>3
    <3>2. QED
      BY <1>5, <3>1 DEF IInv, SigmaJobs
  <2>2. QED
    BY <1>1, <1>2, <1>6, <2>1 DEF IInv, SigmaJobs
<1>15. Statistics'
  <2> DEFINE Over == {k \in (chunk_n + 1)..added : jpc[k] = "end"}
             stats == [dfs |-> TrueDfs, collection |-> TrueCollection]
  <2>1. global_lexicon = TrueDfs /\ metadata = TrueCollection
    BY <1>4 DEF IInv, Statistics
  <2>2. TrueDfs' = TrueDfs /\ TrueCollection' = TrueCollection
    BY <1>2 DEF TrueDfs, TrueCollection
  <2>3. Over' = Over \cup {j}
    <3>1. \A k \in (chunk_n + 1)..added : k \in 1..added
      BY <1>3
    <3>2. QED
      BY <1>2, <1>3, <1>5, <1>6, <3>1
  <2>4. DOMAIN lexicon = {job[k].n : k \in Over}
        /\ \A n \in DOMAIN lexicon : lexicon[n] = stats
    BY DEF IInv, Statistics
  <2>5. DOMAIN lexicon' = DOMAIN lexicon \cup {job[j].n}
        /\ \A n \in DOMAIN lexicon' : lexicon'[n] = stats
    BY <1>1, <2>1, <2>4 DEF Put
  <2>6. DOMAIN lexicon' = {job'[k].n : k \in Over'}
    <3>1. {job'[k].n : k \in Over'} = {job[k].n : k \in Over \cup {j}}
      BY <1>1, <2>3
    <3>2. {job[k].n : k \in Over \cup {j}} = {job[k].n : k \in Over} \cup {job[j].n}
      OBVIOUS
    <3>3. QED
      BY <2>4, <2>5, <3>1, <3>2
  <2>7. QED
    BY <1>1, <1>2, <1>4, <1>6, <2>1, <2>2, <2>5, <2>6 DEF Statistics, Indexing
<1>16. QED
  BY <1>6, <1>7, <1>8, <1>10, <1>11, <1>12, <1>13, <1>14, <1>15 DEF IInv

-----------------------------------------------------------------------------
(* The theorems.                                                           *)

\* A step that changes nothing keeps it.
LEMMA StutterKeepsIInv == ASSUME IInv, UNCHANGED vars PROVE IInv'
<1>1. UNCHANGED <<mpc, lines, line_count, chunk, space_count, docid_start, chunk_n, next_path,
                  queue, running, done, added, call, job, jpc, disk_holder,
                  global_doc_len_sum, index_folders_paths, document_index, lexicon,
                  global_lexicon, metadata>>
  BY DEF vars, mainVars, readVars, poolVars, jobVars, sharedVars, diskVars
<1>2. TypeOK' /\ Calls' /\ Room' /\ LinesRead' /\ Barriers'
  BY <1>1 DEF IInv, TypeOK, Calls, Room, LinesRead, Reading, Barriers, Indexing
<1>3. JobParts'
  BY <1>1, UntouchedJobs DEF IInv, JobParts, jobVars, sharedVars
<1>4. Chunks'
  BY <1>1 DEF IInv, Chunks, After, Covered, Reading
<1>5. Statistics'
  BY <1>1 DEF IInv, Statistics, Indexing, TrueDfs, TrueCollection
<1>6. QED
  BY <1>2, <1>3, <1>4, <1>5 DEF IInv, JobParts

\* Every step of the builder keeps the invariant.
LEMMA NextKeepsIInv == ASSUME IInv, [Next]_vars PROVE IInv'
<1>1. CASE UNCHANGED vars
  BY <1>1, StutterKeepsIInv
<1>2. CASE MainStep
  <2>1. CASE Waits
    BY <2>1, WaitsKeepIInv
  <2>2. CASE WriteGlobalLexicon
    BY <2>2, WriteGlobalLexiconKeepsIInv
  <2>3. CASE MergeForever
    BY <2>3, StutterKeepsIInv DEF MergeForever
  <2>4. CASE WriteMetadata
    BY <2>4, WriteMetadataKeepsIInv
  <2>5. CASE AddSigmaJob
    BY <2>5, AddSigmaJobKeepsIInv
  <2>6. QED
    BY <1>2, <2>1, <2>2, <2>3, <2>4, <2>5 DEF MainStep, Waits
<1>3. CASE Input
  <2>1. CASE EndOfInput
    BY <2>1, EndOfInputKeepsIInv
  <2>2. ASSUME NEW doc \in Docs, GatherLine(doc) \/ DispatchChunk(doc) PROVE IInv'
    BY <2>2, GatherLineKeepsIInv, DispatchChunkKeepsIInv
  <2>3. QED
    BY <1>3, <2>1, <2>2 DEF Input
<1>4. CASE StartJob
  BY <1>4, StartJobKeepsIInv
<1>5. ASSUME NEW j \in running, JobStep(j) PROVE IInv'
  <2>1. CASE LockDisk(j)
    BY <2>1, LockDiskKeepsIInv
  <2>2. CASE AddLengths(j)
    BY <2>2, AddLengthsKeepsIInv
  <2>3. CASE PushPath(j)
    BY <2>3, PushPathKeepsIInv
  <2>4. CASE WriteChunk(j)
    BY <2>4, WriteChunkKeepsIInv
  <2>5. CASE WriteSigmaLexicon(j)
    BY <2>5, WriteSigmaLexiconKeepsIInv
  <2>6. QED
    BY <1>5, <2>1, <2>2, <2>3, <2>4, <2>5 DEF JobStep
<1>6. CASE Terminated
  BY <1>6, StutterKeepsIInv DEF Terminated
<1>7. QED
  BY <1>1, <1>2, <1>3, <1>4, <1>5, <1>6 DEF Next

\* What main, the threads of the pool and the files have in common at every
\* moment of a build, with any number of threads.
THEOREM BuilderInvariant == Spec => []IInv
<1>1. Init => IInv
  BY InitIInv
<1>2. IInv /\ [Next]_vars => IInv'
  BY NextKeepsIInv
<1>3. QED
  BY <1>1, <1>2, PTL DEF Spec

\* The memory held by chunks is bounded: main never has more chunks in the pool
\* than there are threads (builder.cpp, lines 325-326).
THEOREM ChunksInPoolAreBounded == Spec => []ChunksFitWorkers
<1>1. IInv => ChunksFitWorkers
  BY DEF IInv, Room, ChunksFitWorkers
<1>2. QED
  BY <1>1, BuilderInvariant, PTL

\* What the invariant says of the files is what their readers expect.
LEMMA InvariantGivesDocids == IInv => DocidsFollowLines
<1> SUFFICES ASSUME IInv PROVE DocidsFollowLines
  OBVIOUS
<1>1. \A n \in DOMAIN document_index : \E j \in Written : n = j - 1
  BY DEF IInv, Files
<1>2. ASSUME NEW n \in DOMAIN document_index, NEW d \in DOMAIN document_index[n]
      PROVE  d \in DOMAIN lines /\ document_index[n][d] = lines[d]
  <2>1. PICK j \in Written : n = j - 1
    BY <1>1
  <2>2. QED
    BY <2>1, IndexOfChunk
<1>3. ASSUME NEW m \in DOMAIN document_index, NEW n \in DOMAIN document_index, m # n
      PROVE  DOMAIN document_index[m] \cap DOMAIN document_index[n] = {}
  <2>1. PICK j \in Written : m = j - 1
    BY <1>1
  <2>2. PICK k \in Written : n = k - 1
    BY <1>1
  <2>3. /\ j \in 1..chunk_n /\ k \in 1..chunk_n /\ j # k
        /\ DOMAIN document_index[m] = Docids(j) /\ DOMAIN document_index[n] = Docids(k)
    BY <1>3, <2>1, <2>2, IndexOfChunk
  <2>4. QED
    BY <2>3, ChunksAreDisjoint
<1>4. ASSUME ~Indexing
      PROVE  UNION {DOMAIN document_index[n] : n \in DOMAIN document_index} = DOMAIN lines
  <2>1. /\ Written = 1..chunk_n
        /\ UNION {Docids(j) : j \in 1..chunk_n} = DOMAIN lines
    BY <1>4, AllIndexed
  <2>2. \A j \in Written : /\ j - 1 \in DOMAIN document_index
                           /\ DOMAIN document_index[j - 1] = Docids(j)
    BY IndexOfChunk
  <2>3. UNION {DOMAIN document_index[n] : n \in DOMAIN document_index}
          = UNION {Docids(j) : j \in Written}
    BY <1>1, <2>2
  <2>4. QED
    BY <2>1, <2>3
<1>5. QED
  BY <1>2, <1>3, <1>4 DEF DocidsFollowLines

\* Whatever the chunks' sizes and whichever threads index them in whatever
\* order, line L gets docid L, in exactly one chunk, and no line is left out
\* (builder.cpp, lines 304-339 and 46-87).
THEOREM LinesKeepTheirDocids == Spec => []DocidsFollowLines
BY InvariantGivesDocids, BuilderInvariant, PTL

\* At the exit the second round has reached every chunk of the first.
LEMMA InvariantGivesBounds == IInv => BoundsUseFinalStatistics
<1> SUFFICES ASSUME IInv PROVE BoundsUseFinalStatistics
  OBVIOUS
<1>1. \A n \in DOMAIN lexicon : lexicon[n] = [dfs |-> TrueDfs, collection |-> TrueCollection]
  BY DEF IInv, Statistics
<1>2. ASSUME mpc = "exit"
      PROVE  DOMAIN lexicon = 0..(chunk_n - 1) /\ (lines # <<>> => lexicon # <<>>)
  <2> DEFINE L == Len(index_folders_paths)
  <2>1. /\ added \in Nat /\ chunk_n \in Nat /\ L \in Nat
        /\ \A p \in 1..L : index_folders_paths[p] \in Nat
        /\ next_path = added - chunk_n + 1 /\ next_path = L + 1
        /\ \A j \in 1..added : jpc[j] = "end"
        /\ ~Indexing
    BY <1>2 DEF IInv, TypeOK, Barriers, Indexing
  <2>2. added = chunk_n + L
    BY <2>1
  <2>3. Pushed = 1..chunk_n /\ UNION {Docids(j) : j \in 1..chunk_n} = DOMAIN lines
    BY <2>1, AllIndexed
  <2>4. {k \in (chunk_n + 1)..added : jpc[k] = "end"} = (chunk_n + 1)..added
    BY <2>1
  <2>5. DOMAIN lexicon = {job[j].n : j \in (chunk_n + 1)..added}
    BY <2>4 DEF IInv, Statistics
  <2>6. \A j \in (chunk_n + 1)..added :
           job[j].n = index_folders_paths[j - chunk_n] /\ j - chunk_n \in 1..L
    BY <2>1, <2>2 DEF IInv, SigmaJobs
  <2>7. \A p \in 1..L : p + chunk_n \in (chunk_n + 1)..added /\ (p + chunk_n) - chunk_n = p
    BY <2>1, <2>2
  <2>8. {job[j].n : j \in (chunk_n + 1)..added} = {index_folders_paths[p] : p \in 1..L}
    <3>1. \A j \in (chunk_n + 1)..added : \E p \in 1..L : job[j].n = index_folders_paths[p]
      BY <2>6
    <3>2. \A p \in 1..L : \E j \in (chunk_n + 1)..added : job[j].n = index_folders_paths[p]
      BY <2>6, <2>7
    <3>3. {job[j].n : j \in (chunk_n + 1)..added} \subseteq {index_folders_paths[p] : p \in 1..L}
      BY <3>1
    <3>4. {index_folders_paths[p] : p \in 1..L} \subseteq {job[j].n : j \in (chunk_n + 1)..added}
      BY <3>2
    <3>5. QED
      BY <3>3, <3>4
  <2>9. {index_folders_paths[p] : p \in 1..L} = 0..(chunk_n - 1)
    <3>1. ASSUME NEW p \in 1..L PROVE index_folders_paths[p] \in 0..(chunk_n - 1)
      <4>1. index_folders_paths[p] + 1 \in 1..chunk_n
        BY <2>3 DEF IInv, Files
      <4>2. QED
        BY <2>1, <4>1
    <3>2. ASSUME NEW n \in 0..(chunk_n - 1) PROVE \E p \in 1..L : index_folders_paths[p] = n
      <4>1. n + 1 \in Pushed /\ (n + 1) - 1 = n
        BY <2>1, <2>3
      <4>2. QED
        BY <4>1 DEF IInv, Files
    <3>3. QED
      BY <3>1, <3>2
  <2>10. DOMAIN lexicon = 0..(chunk_n - 1)
    BY <2>5, <2>8, <2>9
  <2>11. ASSUME lines # <<>> PROVE lexicon # <<>>
    <3>1. 1 \in DOMAIN lines
      BY <2>11 DEF IInv, TypeOK
    <3>2. PICK j \in 1..chunk_n : 1 \in Docids(j)
      BY <2>3, <3>1
    <3>3. j - 1 \in DOMAIN lexicon
      BY <2>1, <2>10
    <3>4. QED
      BY <3>3
  <2>12. QED
    BY <2>10, <2>11
<1>3. QED
  BY <1>1, <1>2 DEF BoundsUseFinalStatistics

\* Every chunk's upper bounds are computed from the lexicon and the metadata of
\* the whole collection, however the jobs interleave, and none is left without
\* them when the builder exits (builder.cpp, lines 94, 109 and 341-364).
THEOREM BoundsAreOfTheCollection == Spec => []BoundsUseFinalStatistics
BY InvariantGivesBounds, BuilderInvariant, PTL

=============================================================================
