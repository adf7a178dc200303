------------------------------- MODULE Builder -------------------------------
(***************************************************************************)
(* The index builder, src/builder.cpp: main reads documents one per line,  *)
(* gathers them into chunks, hands each chunk to the thread pool, waits    *)
(* for all of them, merges the local lexica, writes the collection's       *)
(* metadata, and hands each chunk to the pool again to compute its upper   *)
(* bounds.  The pool is JobPool, which ThreadPool implements.              *)
(*                                                                         *)
(* A document is a record [space, terms]: the bytes of its line, and the   *)
(* terms the normalizer finds in it, each taken to occur once, so that the *)
(* document's length is the number of its terms.                           *)
(***************************************************************************)
EXTENDS Integers, Sequences, FiniteSets, Functions

CONSTANTS
    NWorkers,       \* threads of the pool
    MaxDocs,        \* bound: lines of the input
    MaxChunkSpace,  \* MAX_CHUNK_SPACE
    Terms,          \* the terms of the collection
    Docs            \* the documents a line may hold

ASSUME BuilderAssumption ==
    /\ NWorkers \in Nat \ {0}
    /\ MaxDocs \in Nat
    /\ MaxChunkSpace \in Nat \ {0}
    /\ Docs \subseteq [space : Nat, terms : {T \in SUBSET Terms : IsFiniteSet(T)}]

NoOne == 0        \* nobody holds disk_writer_mutex
MaxJobs == 2 * MaxDocs

VARIABLES
    \* main
    mpc,         \* where main is
    lines,       \* history: the documents read so far
    line_count,
    chunk,       \* the documents gathered for the next chunk
    space_count,
    docid_start,
    chunk_n,
    next_path,   \* the loop over index_folders_paths
    \* the pool, as JobPool sees it, and what its jobs are
    queue, running, done, added, call,
    job,         \* job[j] is what the lambda of job j captured
    jpc,         \* where job j is
    \* shared
    disk_holder,          \* the job inside disk_writer_mutex
    global_doc_len_sum,
    index_folders_paths,  \* the chunks with a folder, in push_back order
    document_index,       \* on disk: chunk |-> (docid |-> document)
    lexicon,              \* on disk: chunk |-> what its bounds were computed from
    global_lexicon,       \* on disk: term |-> n_docs
    metadata              \* on disk: the collection's length and size

readVars == <<lines, line_count, chunk, space_count, docid_start, chunk_n>>
mainVars == <<mpc, readVars, next_path>>
poolVars == <<queue, running, done, added, call>>
jobVars == <<job, jpc>>
diskVars == <<document_index, lexicon, global_lexicon, metadata>>
sharedVars == <<disk_holder, global_doc_len_sum, index_folders_paths>>
vars == <<mainVars, poolVars, jobVars, sharedVars, diskVars>>

Pool == INSTANCE JobPool

NoFile == <<>>

\* The files of all chunks, when chunk n's is written.
Put(files, n, file) == [m \in DOMAIN files \cup {n} |-> IF m = n THEN file ELSE files[m]]

Init ==
    /\ mpc = "start"
    /\ lines = <<>> /\ line_count = 1
    /\ chunk = <<>> /\ space_count = 0
    /\ docid_start = 1 /\ chunk_n = 0
    /\ next_path = 1
    /\ Pool!Init
    /\ job = <<>> /\ jpc = <<>>
    /\ disk_holder = NoOne
    /\ global_doc_len_sum = 0
    /\ index_folders_paths = <<>>
    /\ document_index = <<>>
    /\ lexicon = NoFile
    /\ global_lexicon = NoFile
    /\ metadata = NoFile

\* What a chunk's document index says: document i of a chunk has docid base + i.
Indexed(docs, base) == [d \in base..(base + Len(docs) - 1) |-> docs[d - base + 1]]

Length(doc) == Cardinality(doc.terms)

LengthOf(docs) == SumFunction([i \in DOMAIN docs |-> Length(docs[i])])

\* How many documents of an index hold each term.
DocFreqs(index) == [t \in Terms |-> Cardinality({d \in DOMAIN index : t \in index[d].terms})]

-----------------------------------------------------------------------------
(* main, up to the last chunk.                                             *)

Construct ==
    /\ mpc = "start"
    /\ Pool!Construct
    /\ mpc' = "read"
    /\ UNCHANGED <<readVars, next_path, jobVars, sharedVars, diskVars>>

\* add_job with a lambda that process_chunk runs.
AddChunk(docs) ==
    /\ Pool!Add
    /\ job' = Append(job, [kind |-> "chunk", docs |-> docs,
                           base |-> docid_start, n |-> chunk_n])
    /\ jpc' = Append(jpc, "index")
    /\ chunk_n' = chunk_n + 1

\* A line that fits in the chunk ...
ChunkFull(doc) == space_count + doc.space >= MaxChunkSpace

GatherLine(doc) ==
    /\ mpc = "read"
    /\ Len(lines) < MaxDocs
    /\ ~ChunkFull(doc)
    /\ lines' = Append(lines, doc)
    /\ chunk' = Append(chunk, doc)
    /\ space_count' = space_count + doc.space
    /\ line_count' = line_count + 1
    /\ UNCHANGED <<mpc, docid_start, chunk_n, next_path, poolVars, jobVars,
                   sharedVars, diskVars>>

\* ... and one that fills it: line_count moves on after the wait for a spot.
NextDocidNotYet == line_count
NextDocid == line_count + 1

DispatchChunk(doc) ==
    /\ mpc = "read"
    /\ Len(lines) < MaxDocs
    /\ ChunkFull(doc)
    /\ lines' = Append(lines, doc)
    /\ AddChunk(Append(chunk, doc))
    /\ docid_start' = NextDocid
    /\ chunk' = <<>>
    /\ space_count' = 0
    /\ mpc' = "spot"
    /\ UNCHANGED <<line_count, next_path, sharedVars, diskVars>>

\* A mutant: main reads on without waiting for a spot.
AskForNoSpot ==
    /\ mpc = "spot"
    /\ mpc' = "read"
    /\ line_count' = line_count + 1
    /\ UNCHANGED <<lines, chunk, space_count, docid_start, chunk_n, next_path,
                   poolVars, jobVars, sharedVars, diskVars>>

\* pool.wait_for_free_worker(), after a chunk or before a path ...
AskForSpot ==
    /\ \/ mpc = "spot"
       \/ mpc = "paths" /\ next_path <= Len(index_folders_paths)
    /\ Pool!Call("free")
    /\ mpc' = IF mpc = "spot" THEN "spot_wait" ELSE "path_wait"
    /\ UNCHANGED <<readVars, next_path, jobVars, sharedVars, diskVars>>

\* ... returns to the reading loop.
ResumeReading ==
    /\ mpc = "spot_wait"
    /\ Pool!ReturnFree
    /\ line_count' = line_count + 1
    /\ mpc' = "read"
    /\ UNCHANGED <<lines, chunk, space_count, docid_start, chunk_n, next_path,
                   jobVars, sharedVars, diskVars>>

\* The end of the input: what was gathered since the last chunk.
EndOfInput ==
    /\ mpc = "read"
    /\ IF chunk # <<>>
       THEN AddChunk(chunk)
       ELSE UNCHANGED <<chunk_n, poolVars, jobVars>>
    /\ mpc' = "indexed"
    /\ UNCHANGED <<lines, line_count, chunk, space_count, docid_start, next_path,
                   sharedVars, diskVars>>

\* pool.wait_all_jobs(), after the chunks and after the paths.
WaitAll ==
    /\ mpc \in {"indexed", "paths"}
    /\ mpc = "paths" => next_path > Len(index_folders_paths)
    /\ Pool!Call("all")
    /\ mpc' = IF mpc = "indexed" THEN "indexed_wait" ELSE "paths_wait"
    /\ UNCHANGED <<readVars, next_path, jobVars, sharedVars, diskVars>>

AllJobsReturned ==
    /\ mpc \in {"indexed_wait", "paths_wait"}
    /\ Pool!ReturnAll
    /\ mpc' = IF mpc = "indexed_wait" THEN "merge" ELSE "destroy"
    /\ UNCHANGED <<readVars, next_path, jobVars, sharedVars, diskVars>>

-----------------------------------------------------------------------------
(* main, between the two rounds of jobs and after them.                    *)

\* The terms of a chunk's lexicon_temp.
LocalTerms(n) == UNION {document_index[n][d].terms : d \in DOMAIN document_index[n]}

EmptyLexica == {i \in DOMAIN index_folders_paths :
                   LocalTerms(index_folders_paths[i]) = {}}

\* write_global_lexicon_to_disk_map sums n_docs over the local lexica.
WriteGlobalLexicon ==
    /\ mpc = "merge"
    /\ EmptyLexica = {}
    /\ global_lexicon' =
          [t \in Terms |->
             SumFunction([i \in DOMAIN index_folders_paths |->
                            DocFreqs(document_index[index_folders_paths[i]])[t]])]
    /\ mpc' = "metadata"
    /\ UNCHANGED <<readVars, next_path, poolVars, jobVars, sharedVars,
                   document_index, lexicon, metadata>>

\* codes::merge never erases a range that was empty to begin with, so its loop
\* over the lexica does not end.
MergeForever ==
    /\ mpc = "merge"
    /\ EmptyLexica # {}
    /\ UNCHANGED vars

NumDocsOneMore == line_count
NumDocs == line_count - 1

WriteMetadata ==
    /\ mpc = "metadata"
    /\ metadata' = [doc_len_sum |-> global_doc_len_sum, ndocs |-> NumDocs]
    /\ mpc' = "paths"
    /\ UNCHANGED <<readVars, next_path, poolVars, jobVars, sharedVars,
                   document_index, lexicon, global_lexicon>>

\* One round of the loop over index_folders_paths.
AddPath ==
    /\ mpc = "path_wait"
    /\ Pool!ReturnFree
    /\ mpc' = "path_add"
    /\ UNCHANGED <<readVars, next_path, jobVars, sharedVars, diskVars>>

AddSigmaJob ==
    /\ mpc = "path_add"
    /\ Pool!Add
    /\ job' = Append(job, [kind |-> "sigma", n |-> index_folders_paths[next_path]])
    /\ jpc' = Append(jpc, "load")
    /\ next_path' = next_path + 1
    /\ mpc' = "paths"
    /\ UNCHANGED <<readVars, sharedVars, diskVars>>

\* The end of main destroys the pool.
CallDestructor ==
    /\ mpc = "destroy"
    /\ Pool!Call("destroy")
    /\ mpc' = "destroy_wait"
    /\ UNCHANGED <<readVars, next_path, jobVars, sharedVars, diskVars>>

Exit ==
    /\ mpc = "destroy_wait"
    /\ Pool!ReturnAll
    /\ mpc' = "exit"
    /\ UNCHANGED <<readVars, next_path, jobVars, sharedVars, diskVars>>

Terminated ==
    /\ mpc = "exit"
    /\ UNCHANGED vars

-----------------------------------------------------------------------------
(* The jobs.  What process_chunk does before it takes disk_writer_mutex is *)
(* its own: document i of the chunk gets docid base + i.                   *)

StartJob ==
    /\ Pool!Start
    /\ UNCHANGED <<mainVars, jobVars, sharedVars, diskVars>>

At(j, pc) == j \in running /\ jpc[j] = pc

LockDisk(j) ==
    /\ At(j, "index")
    /\ disk_holder = NoOne
    /\ disk_holder' = j
    /\ jpc' = [jpc EXCEPT ![j] = "sum"]
    /\ UNCHANGED <<mainVars, poolVars, job, global_doc_len_sum,
                   index_folders_paths, diskVars>>

AddLengths(j) ==
    /\ At(j, "sum")
    /\ global_doc_len_sum' = global_doc_len_sum + LengthOf(job[j].docs)
    /\ jpc' = [jpc EXCEPT ![j] = "push"]
    /\ UNCHANGED <<mainVars, poolVars, job, disk_holder, index_folders_paths,
                   diskVars>>

PushPath(j) ==
    /\ At(j, "push")
    /\ index_folders_paths' = Append(index_folders_paths, job[j].n)
    /\ jpc' = [jpc EXCEPT ![j] = "write"]
    /\ UNCHANGED <<mainVars, poolVars, job, disk_holder, global_doc_len_sum,
                   diskVars>>

\* indexBuilder.write_to_disk, the end of the job and of the lock.  (The mutant
\* ends without it.)
WriteChunkLocked(j) ==
    /\ At(j, "write")
    /\ document_index' = Put(document_index, job[j].n, Indexed(job[j].docs, job[j].base))
    /\ jpc' = [jpc EXCEPT ![j] = "end"]
    /\ Pool!Finish(j)
    /\ UNCHANGED <<mainVars, job, disk_holder, global_doc_len_sum,
                   index_folders_paths, lexicon, global_lexicon, metadata>>

WriteChunk(j) ==
    /\ At(j, "write")
    /\ document_index' = Put(document_index, job[j].n, Indexed(job[j].docs, job[j].base))
    /\ disk_holder' = NoOne
    /\ jpc' = [jpc EXCEPT ![j] = "end"]
    /\ Pool!Finish(j)
    /\ UNCHANGED <<mainVars, job, global_doc_len_sum, index_folders_paths, lexicon,
                   global_lexicon, metadata>>

\* write_sigma_lexicon scores every posting of the chunk: its bounds come from
\* the files it maps, the global lexicon and the metadata.
WriteSigmaLexicon(j) ==
    /\ At(j, "load")
    /\ lexicon' = Put(lexicon, job[j].n, [dfs |-> global_lexicon, collection |-> metadata])
    /\ jpc' = [jpc EXCEPT ![j] = "end"]
    /\ Pool!Finish(j)
    /\ UNCHANGED <<mainVars, job, sharedVars, document_index, global_lexicon,
                   metadata>>

-----------------------------------------------------------------------------

MainStep ==
    \/ Construct \/ AskForSpot \/ ResumeReading \/ WaitAll \/ AllJobsReturned
    \/ WriteGlobalLexicon \/ MergeForever \/ WriteMetadata
    \/ AddPath \/ AddSigmaJob \/ CallDestructor \/ Exit

Input == EndOfInput \/ \E doc \in Docs : GatherLine(doc) \/ DispatchChunk(doc)

JobStep(j) ==
    \/ LockDisk(j) \/ AddLengths(j) \/ PushPath(j) \/ WriteChunk(j)
    \/ WriteSigmaLexicon(j)

Next ==
    \/ MainStep \/ Input
    \/ StartJob
    \/ \E j \in running : JobStep(j)
    \/ Terminated

Spec == Init /\ [][Next]_vars

-----------------------------------------------------------------------------
(* Properties.                                                             *)

\* main is past the first wait_all_jobs.
Indexing == mpc \in {"start", "read", "spot", "spot_wait", "indexed", "indexed_wait"}

\* The chunks, indexed in any order by any thread, partition the documents:
\* line L has docid L, in exactly one chunk (lines 304-339 and 46-87).
DocidsFollowLines ==
    /\ \A n \in DOMAIN document_index : \A d \in DOMAIN document_index[n] :
          d \in DOMAIN lines /\ document_index[n][d] = lines[d]
    /\ \A m, n \in DOMAIN document_index :
          m # n => DOMAIN document_index[m] \cap DOMAIN document_index[n] = {}
    /\ ~Indexing => UNION {DOMAIN document_index[n] : n \in DOMAIN document_index}
                       = DOMAIN lines

\* What the whole collection says, line by line.
TrueDfs == DocFreqs(lines)
TrueCollection == [doc_len_sum |-> LengthOf(lines), ndocs |-> Len(lines)]

\* The bounds of every chunk are computed from the statistics of the whole
\* collection, and when the builder exits every chunk has its bounds: no
\* chunk's contribution to the sums was lost to another thread (lines 94, 109,
\* 341-364).
BoundsUseFinalStatistics ==
    /\ \A n \in DOMAIN lexicon :
          lexicon[n] = [dfs |-> TrueDfs, collection |-> TrueCollection]
    /\ mpc = "exit" => /\ DOMAIN lexicon = 0..(chunk_n - 1)
                       /\ lines # <<>> => lexicon # <<>>

\* The memory held by chunks is bounded: main never has more chunks in the pool
\* than there are threads (lines 325-326).
ChunksFitWorkers == Len(queue) + Cardinality(running) <= NWorkers

-----------------------------------------------------------------------------
(* Liveness: the threads are scheduled, the jobs make progress and the      *)
(* input ends.                                                              *)

FairSpec ==
    /\ Spec
    /\ WF_vars(MainStep) /\ WF_vars(Input)
    /\ WF_vars(StartJob)
    /\ \A j \in 1..MaxJobs : WF_vars(j \in running /\ JobStep(j))

\* The builder ends, unless it has to merge a lexicon without terms: no thread
\* waits for ever for disk_writer_mutex or for a spot.
BuildEnds == <>(mpc = "exit" \/ (mpc = "merge" /\ EmptyLexica # {}))

=============================================================================
