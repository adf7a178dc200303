------------------------------- MODULE Engine -------------------------------
(***************************************************************************)
(* The query engine: the loop of src/engine.cpp that reads a line, gives   *)
(* the thread pool one job per chunk of the index, waits for them all, and *)
(* merges what they found.                                                 *)
(*                                                                         *)
(* The pool is what ThreadPool implements: JobPool.  A job's answer is any *)
(* best K of what its query finds in its chunk (Matches): for `query` that *)
(* is every match, QueryDAAT!ResultsAreTopK; query_bmm may find less, and  *)
(* with other scores (QueryBMM!TopKWithoutFaults).                         *)
(***************************************************************************)
EXTENDS TopK, Sequences

CONSTANTS
    NChunks,       \* indices.size(), the chunks of the collection
    NWorkers,      \* options.thread_count
    K,             \* options.k
    Queries,       \* what a line can ask, as the tokens it is made of
    Empty,         \* an empty line
    Unnumbered,    \* a line of a batch that does not start with a number
    None,          \* no tokens: the set of the last line is destroyed
    NLines,        \* bound: lines of the standard input
    Matches(_, _)  \* the entries [docid, score] that a query finds in a chunk

Chunks == 1..NChunks
Jobs == 1..(NLines * NChunks)

ASSUME EngineAssumption ==
    /\ NChunks \in Nat \ {0}
    /\ NWorkers \in Nat \ {0}
    /\ K \in Nat
    /\ NLines \in Nat
    /\ Empty \notin Queries
    /\ Unnumbered \notin Queries \cup {Empty}
    /\ None \notin Queries
    /\ \A q \in Queries : IsFiniteSet(UNION {Matches(q, c) : c \in Chunks})
    /\ \A q \in Queries, c \in Chunks : \A e \in Matches(q, c) : e.score \in Nat

VARIABLES
    input,           \* the lines of the standard input
    q_id,            \* the number of the line read last
    tokens,          \* the tokens of that line, which the jobs share
    i,               \* the jobs added for it so far
    pos,             \* the chunk each job captured
    arg,             \* the tokens each job copied
    results,         \* a cell per chunk
    merged_results,
    out,             \* what is printed: an answer per query
    pc

\* The pool's own.
VARIABLES queue, running, done, added, call

mine == <<input, q_id, tokens, i, pos, arg, results, merged_results, out, pc>>
pool == <<queue, running, done, added, call>>
vars == <<mine, pool>>

Pool == INSTANCE JobPool WITH MaxJobs <- NLines * NChunks

Init ==
    /\ Pool!Init
    /\ input \in [1..NLines -> Queries \cup {Empty, Unnumbered}]
    /\ q_id = 0
    /\ tokens = None
    /\ i = 0
    /\ pos = [j \in Jobs |-> 1]
    /\ arg = [j \in Jobs |-> None]
    /\ results = [c \in Chunks |-> {}]
    /\ merged_results = {}
    /\ out = <<>>
    /\ pc = "start"

-----------------------------------------------------------------------------
(* The main thread.                                                        *)

Construct ==
    /\ pc = "start"
    /\ Pool!Construct
    /\ pc' = "read"
    /\ UNCHANGED <<input, q_id, tokens, i, pos, arg, results, merged_results, out>>

\* There is a line to read: the input has not ended, and in a batch the number that
\* the line starts with can be read, or else the stream gives nothing more.
MoreLines == q_id < NLines /\ input[q_id + 1] # Unnumbered

\* A line that is empty is passed over; the tokens of another are collected.
ReadLine ==
    /\ pc = "read"
    /\ MoreLines
    /\ q_id' = q_id + 1
    /\ i' = 0
    /\ IF input[q_id'] = Empty
       THEN UNCHANGED <<tokens, pc>>
       ELSE tokens' = input[q_id'] /\ pc' = "add"
    /\ UNCHANGED <<input, pos, arg, results, merged_results, out, pool>>

\* The job captures its position by value, and all else by reference.
AddJob ==
    /\ pc = "add"
    /\ i < NChunks
    /\ Pool!Add
    /\ pos' = [pos EXCEPT ![added'] = i + 1]
    /\ i' = i + 1
    /\ UNCHANGED <<input, q_id, tokens, arg, results, merged_results, out, pc>>

\* wait_all_jobs is called.  (The mutant does not call it.)
DoNotWait ==
    /\ pc = "add"
    /\ i = NChunks
    /\ pc' = "wait"
    /\ UNCHANGED <<input, q_id, tokens, i, pos, arg, results, merged_results, out, pool>>
WaitAllJobs ==
    /\ pc = "add"
    /\ i = NChunks
    /\ Pool!Call("all")
    /\ pc' = "wait"
    /\ UNCHANGED <<input, q_id, tokens, i, pos, arg, results, merged_results, out>>

\* The orders std::sort may leave some entries in: greater scores first.
\* (The mutant's compares with std::less.)
SortedUp(S) ==
    {s \in [1..Cardinality(S) -> S] :
       /\ \A m, n \in DOMAIN s : m # n => s[m] # s[n]
       /\ \A m, n \in DOMAIN s : m < n => s[m].score <= s[n].score}
Sorted(S) ==
    {s \in [1..Cardinality(S) -> S] :
       /\ \A m, n \in DOMAIN s : m # n => s[m] # s[n]
       /\ \A m, n \in DOMAIN s : m < n => s[m].score >= s[n].score}

\* The first K of a sequence, or all of it.
Resized(s) == IF Len(s) > K THEN SubSeq(s, 1, K) ELSE s

\* wait_all_jobs has returned: the cells are joined, sorted, cut to K and
\* printed, and the tokens go out of scope.
MergeResults ==
    /\ pc = "wait"
    /\ call = "none"
    /\ LET all == merged_results \cup UNION {results[c] : c \in Chunks}
       IN  /\ \E s \in Sorted(all) :
                 out' = Append(out, [q_id |-> q_id, answer |-> Resized(s)])
           /\ merged_results' = {}
    /\ tokens' = None
    /\ pc' = "read"
    /\ UNCHANGED <<input, q_id, i, pos, arg, results, pool>>

\* The loop ends: main returns, and the pool is destroyed first.  (The mutant's
\* loop ends at an empty line.)
EndOfLines ==
    /\ pc = "read"
    /\ q_id > 0
    /\ input[q_id] = Empty
    /\ Pool!Call("destroy")
    /\ pc' = "end"
    /\ UNCHANGED <<input, q_id, tokens, i, pos, arg, results, merged_results, out>>
EndOfInput ==
    /\ pc = "read"
    /\ ~MoreLines
    /\ Pool!Call("destroy")
    /\ pc' = "end"
    /\ UNCHANGED <<input, q_id, tokens, i, pos, arg, results, merged_results, out>>

-----------------------------------------------------------------------------
(* The pool and the jobs it runs.                                          *)

StartJob == Pool!Start /\ UNCHANGED mine

\* query takes its set of terms by value: the shared one is copied.
CopyTokens(j) ==
    /\ j \in running
    /\ arg[j] = None
    /\ arg' = [arg EXCEPT ![j] = tokens]
    /\ UNCHANGED <<input, q_id, tokens, i, pos, results, merged_results, out, pc, pool>>

\* The job assigns its cell and is over.
FinishJob(j) ==
    /\ arg[j] \in Queries
    /\ Pool!Finish(j)
    /\ \E S \in SUBSET Matches(arg[j], pos[j]) :
          /\ IsTopK(K, S, Matches(arg[j], pos[j]))
          /\ results' = [results EXCEPT ![pos[j]] = S]
    /\ UNCHANGED <<input, q_id, tokens, i, pos, arg, merged_results, out, pc>>

PoolReturns == Pool!ReturnAll /\ UNCHANGED mine

Terminated == call = "gone" /\ UNCHANGED vars

Main == Construct \/ ReadLine \/ AddJob \/ WaitAllJobs \/ MergeResults \/ EndOfInput

Next ==
    \/ Main
    \/ StartJob
    \/ \E j \in Jobs : CopyTokens(j) \/ FinishJob(j)
    \/ PoolReturns
    \/ Terminated

Spec == Init /\ [][Next]_vars

\* The main thread, the workers and the pool's waits, none of which is for ever
\* passed over by the scheduler (ThreadPool's own fairness gives the pool's).
FairSpec ==
    /\ Spec
    /\ WF_vars(Main)
    /\ WF_vars(StartJob)
    /\ \A j \in Jobs : WF_vars(CopyTokens(j) \/ FinishJob(j))
    /\ WF_vars(PoolReturns)

-----------------------------------------------------------------------------
(* Properties.                                                             *)

\* The whole collection's entries for a query.
AllMatches(q) == UNION {Matches(q, c) : c \in Chunks}
Entries == UNION {AllMatches(q) : q \in Queries}

\* Every variable has its type, and a cell and an answer hold entries.
TypeOK ==
    /\ input \in [1..NLines -> Queries \cup {Empty, Unnumbered}]
    /\ q_id \in 0..NLines
    /\ tokens \in Queries \cup {None}
    /\ i \in 0..NChunks
    /\ pos \in [Jobs -> Chunks]
    /\ arg \in [Jobs -> Queries \cup {None}]
    /\ results \in [Chunks -> SUBSET Entries]
    /\ out \in Seq([q_id : 1..NLines, answer : Seq(Entries)])
    /\ pc \in {"start", "read", "add", "wait", "end"}
    /\ queue \in Seq(Jobs)
    /\ running \subseteq Jobs
    /\ added \in 0..(NLines * NChunks)
    /\ call \in {"ctor", "none", "all", "destroy", "gone"}

AnswerIsTopK(r) ==
    /\ \A m, n \in DOMAIN r.answer : m < n => r.answer[m].score >= r.answer[n].score
    /\ IsTopK(K, {r.answer[m] : m \in DOMAIN r.answer}, AllMatches(input[r.q_id]))

\* What is printed for a line is the best K entries of the whole collection for
\* that line, best first, though each job keeps K of its own chunk only and the
\* cells and merged_results are those the last line used (engine.cpp:101-137).
AnswersAreTopK == \A n \in DOMAIN out : AnswerIsTopK(out[n])

\* The line's tokens, which jobs read by reference, are destroyed or replaced
\* and the cells they write are read only when no job is queued or running
\* (engine.cpp:101-125).
LineOutlivesItsJobs ==
    [][(tokens' # tokens \/ out' # out) => (queue = <<>> /\ running = {})]_vars

\* Every line that is not empty is answered, up to the first one of a batch that has
\* no number (engine.cpp:78-138).
EveryQueryIsAnswered ==
    \A n \in 1..NLines :
       (input[n] # Empty /\ \A m \in 1..n : input[m] # Unnumbered)
         => <>(\E m \in DOMAIN out : out[m].q_id = n)
=============================================================================
