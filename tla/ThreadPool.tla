----------------------------- MODULE ThreadPool -----------------------------
(***************************************************************************)
(* The thread pool of src/util/thread_pool.cpp: NWorkers worker threads,   *)
(* a FIFO queue of jobs under jobs_queue_mutex, and one thread that owns   *)
(* the pool and calls its public operations (main of builder.cpp and of    *)
(* engine.cpp, and the tests, all have a single owner).                    *)
(*                                                                         *)
(* A step is one access to state that another thread may reach without     *)
(* holding the same mutex (the atomics idling[] and halt), or a critical   *)
(* section that only touches what its mutex protects.  A thread blocked in *)
(* std::condition_variable::wait is one whose program counter says so:     *)
(*    worker  "asleep"        waits on jobs_queue_cv                       *)
(*    owner   "queue_asleep"  waits on jobs_queue_popped_cv                *)
(*    owner   "done_asleep"   waits on done_cv                             *)
(***************************************************************************)
EXTENDS Integers, Sequences, FiniteSets

CONSTANTS
    NWorkers,        \* the constructor's n_workers
    MaxJobs,         \* bound: jobs the owner adds during a behaviour
    SpuriousWakeups  \* whether condition variables wake up unnotified

ASSUME PoolAssumption ==
    /\ NWorkers \in Nat \ {0}
    /\ MaxJobs \in Nat
    /\ SpuriousWakeups \in BOOLEAN

Workers  == 1..NWorkers
Jobs     == 1..MaxJobs     \* a job is named by its position in add_job order
NoJob    == 0              \* the empty std::function
Unlocked == 0

VARIABLES
    jobs,         \* the queue of jobs not yet taken
    idling,       \* idling[w], atomic flags read without a common mutex
    halt,         \* the atomic shutdown flag
    queueHolder,  \* the worker inside jobs_queue_mutex, or Unlocked
    doneHeld,     \* whether the owner is inside done_mutex
    wpc,          \* the program counter of each worker
    wjob,         \* the local variable job of worker_procedure
    opc,          \* the program counter of the owner
    call,         \* the public operation the owner is executing
    scan,         \* the loop index of the owner's current operation
    added,        \* history: the number of jobs added
    done          \* history: the jobs that ran to their end

vars == <<jobs, idling, halt, queueHolder, doneHeld, wpc, wjob,
          opc, call, scan, added, done>>

WorkerPC == {"unborn", "lock", "check", "sleep", "asleep", "take", "pop",
             "run", "idle", "signal", "drop", "exited"}

OwnerPC == {"spawn", "mark", "ready", "queue_wait", "queue_asleep",
            "done_lock", "free_scan", "all_read", "all_check", "done_sleep",
            "done_asleep", "halt", "notify", "join", "gone"}

Calls == {"ctor", "none", "free", "all", "destroy"}

Init ==
    /\ jobs = <<>>
    /\ idling = [w \in Workers |-> FALSE]
    /\ halt = FALSE
    /\ queueHolder = Unlocked
    /\ doneHeld = FALSE
    /\ wpc = [w \in Workers |-> "unborn"]
    /\ wjob = [w \in Workers |-> NoJob]
    /\ opc = "spawn"
    /\ call = "ctor"
    /\ scan = 1
    /\ added = 0
    /\ done = {}

-----------------------------------------------------------------------------
(* Condition variables: what a notification does to the threads waiting.   *)

Asleep == {w \in Workers : wpc[w] = "asleep"}

NotifyOneWorker ==
    \/ /\ Asleep = {}
       /\ UNCHANGED wpc
    \/ \E w \in Asleep : wpc' = [wpc EXCEPT ![w] = "lock"]

NotifyAllWorkers ==
    wpc' = [w \in Workers |-> IF w \in Asleep THEN "lock" ELSE wpc[w]]

\* wait_for_empty_queue with "if" for the loop around the wait.
NotifyPoppedNoRecheck ==
    opc' = CASE opc # "queue_asleep" -> opc
             [] opc = "queue_asleep" /\ call = "free" -> "done_lock"
             [] opc = "queue_asleep" /\ call # "free" -> "all_read"

NotifyPopped == opc' = IF opc = "queue_asleep" THEN "queue_wait" ELSE opc

NotifyDone == opc' = IF opc = "done_asleep" THEN "done_lock" ELSE opc

-----------------------------------------------------------------------------
(* Plausible bugs of the operations below, named in PROJECT.json with the   *)
(* property each must break.  No specification uses them.                   *)

\* A loop over the workers with <= for <.
LoopsOnePast == scan = NWorkers + 1

\* The constructor leaves the flags FALSE until a worker ends its first job.
MarkIdlingForgotten ==
    /\ opc = "mark"
    /\ IF scan = NWorkers
       THEN opc' = "ready" /\ call' = "none" /\ UNCHANGED scan
       ELSE opc' = "spawn" /\ scan' = scan + 1 /\ UNCHANGED call
    /\ UNCHANGED <<jobs, idling, halt, queueHolder, doneHeld, wpc, wjob, added,
                   done>>

\* add_job notifies a worker when the queue was empty, or never.
AddJobNotifying(condition) ==
    /\ opc = "ready"
    /\ added < MaxJobs
    /\ queueHolder = Unlocked
    /\ jobs' = Append(jobs, added + 1)
    /\ added' = added + 1
    /\ IF condition THEN NotifyOneWorker ELSE UNCHANGED wpc
    /\ UNCHANGED <<idling, halt, queueHolder, doneHeld, wjob, opc, call, scan,
                   done>>

AddJobNotifyingIfEmpty == AddJobNotifying(jobs = <<>>)

AddJobSilent == AddJobNotifying(FALSE)

\* wait_all_jobs returns at the first idle worker.
ReturnAtFirstIdle ==
    /\ UNCHANGED scan
    /\ IF call = "destroy"
       THEN opc' = "halt" /\ UNCHANGED call
       ELSE opc' = "ready" /\ call' = "none"

\* The destructor notifies without jobs_queue_mutex.
NotifyHaltUnlocked ==
    /\ opc = "notify"
    /\ NotifyAllWorkers
    /\ opc' = "join"
    /\ scan' = 1
    /\ UNCHANGED <<jobs, idling, halt, queueHolder, doneHeld, wjob, call,
                   added, done>>

\* The worker does not say that it is busy.
TakeJobStillIdling(w) ==
    /\ wpc[w] = "take"
    /\ NotifyPopped
    /\ wpc' = [wpc EXCEPT ![w] = "pop"]
    /\ UNCHANGED <<jobs, idling, halt, queueHolder, doneHeld, wjob, call, scan,
                   added, done>>

\* The worker takes the newest job: a stack for a queue.
PopJobNewest(w) ==
    /\ wpc[w] = "pop"
    /\ wjob' = [wjob EXCEPT ![w] = jobs[Len(jobs)]]
    /\ jobs' = SubSeq(jobs, 1, Len(jobs) - 1)
    /\ queueHolder' = Unlocked
    /\ wpc' = [wpc EXCEPT ![w] = "run"]
    /\ UNCHANGED <<idling, halt, doneHeld, opc, call, scan, added, done>>

\* done_cv is notified without done_mutex.
SignalDoneUnlocked(w) ==
    /\ wpc[w] = "signal"
    /\ NotifyDone
    /\ wpc' = [wpc EXCEPT ![w] = IF wjob[w] = NoJob THEN "exited" ELSE "drop"]
    /\ UNCHANGED <<jobs, idling, halt, queueHolder, doneHeld, wjob, call, scan,
                   added, done>>

-----------------------------------------------------------------------------
(* The owner: the constructor starts worker i, then sets idling[i].        *)

SpawnWorker ==
    /\ opc = "spawn"
    /\ wpc' = [wpc EXCEPT ![scan] = "lock"]
    /\ opc' = "mark"
    /\ UNCHANGED <<jobs, idling, halt, queueHolder, doneHeld, wjob, call,
                   scan, added, done>>

\* The loop of an operation moves to its next worker, or the loop is over.
LastWorker == scan = NWorkers

MarkIdling ==
    /\ opc = "mark"
    /\ idling' = [idling EXCEPT ![scan] = TRUE]
    /\ IF LastWorker
       THEN opc' = "ready" /\ call' = "none" /\ UNCHANGED scan
       ELSE opc' = "spawn" /\ scan' = scan + 1 /\ UNCHANGED call
    /\ UNCHANGED <<jobs, halt, queueHolder, doneHeld, wpc, wjob, added, done>>

AddJob ==
    /\ opc = "ready"
    /\ added < MaxJobs
    /\ queueHolder = Unlocked
    /\ jobs' = Append(jobs, added + 1)
    /\ added' = added + 1
    /\ NotifyOneWorker
    /\ UNCHANGED <<idling, halt, queueHolder, doneHeld, wjob, opc, call, scan,
                   done>>

\* wait_for_free_worker, wait_all_jobs and the destructor all start by
\* waiting for the queue to be empty.
CallWait(c) ==
    /\ opc = "ready"
    /\ call' = c
    /\ opc' = "queue_wait"
    /\ UNCHANGED <<jobs, idling, halt, queueHolder, doneHeld, wpc, wjob, scan,
                   added, done>>

WaitForEmptyQueue ==
    /\ opc = "queue_wait"
    /\ queueHolder = Unlocked
    /\ IF jobs # <<>>
       THEN opc' = "queue_asleep" /\ UNCHANGED scan
       ELSE /\ opc' = IF call = "free" THEN "done_lock" ELSE "all_read"
            /\ scan' = 1
    /\ UNCHANGED <<jobs, idling, halt, queueHolder, doneHeld, wpc, wjob, call,
                   added, done>>

-----------------------------------------------------------------------------
(* The owner: the second half of the waits, on done_cv.                    *)

LockDone ==
    /\ opc = "done_lock"
    /\ ~doneHeld
    /\ doneHeld' = TRUE
    /\ IF call = "free"
       THEN opc' = "free_scan" /\ scan' = 1
       ELSE opc' = "all_check" /\ UNCHANGED scan
    /\ UNCHANGED <<jobs, idling, halt, queueHolder, wpc, wjob, call, added,
                   done>>

\* The predicate of wait_for_free_worker reads one flag after the other.
ScanForFree ==
    /\ opc = "free_scan"
    /\ \/ /\ idling[scan]
          /\ opc' = "ready" /\ call' = "none" /\ doneHeld' = FALSE
          /\ UNCHANGED scan
       \/ /\ ~idling[scan] /\ ~LastWorker
          /\ scan' = scan + 1
          /\ UNCHANGED <<opc, call, doneHeld>>
       \/ /\ ~idling[scan] /\ LastWorker
          /\ opc' = "done_sleep"
          /\ UNCHANGED <<scan, call, doneHeld>>
    /\ UNCHANGED <<jobs, idling, halt, queueHolder, wpc, wjob, added, done>>

\* wait_all_jobs is done with worker scan.
NextWorkerOrReturn ==
    IF LastWorker
    THEN /\ UNCHANGED scan
         /\ IF call = "destroy"
            THEN opc' = "halt" /\ UNCHANGED call
            ELSE opc' = "ready" /\ call' = "none"
    ELSE opc' = "all_read" /\ scan' = scan + 1 /\ UNCHANGED call

\* wait_all_jobs reads idling[scan] without any mutex ...
ReadIdling ==
    /\ opc = "all_read"
    /\ IF idling[scan]
       THEN NextWorkerOrReturn
       ELSE opc' = "done_lock" /\ UNCHANGED <<scan, call>>
    /\ UNCHANGED <<jobs, idling, halt, queueHolder, doneHeld, wpc, wjob, added,
                   done>>

\* ... and again, as the predicate of done_cv.wait, inside done_mutex.
CheckIdling ==
    /\ opc = "all_check"
    /\ IF idling[scan]
       THEN NextWorkerOrReturn /\ doneHeld' = FALSE
       ELSE opc' = "done_sleep" /\ UNCHANGED <<scan, call, doneHeld>>
    /\ UNCHANGED <<jobs, idling, halt, queueHolder, wpc, wjob, added, done>>

SleepOnDone ==
    /\ opc = "done_sleep"
    /\ doneHeld' = FALSE
    /\ opc' = "done_asleep"
    /\ UNCHANGED <<jobs, idling, halt, queueHolder, wpc, wjob, call, scan,
                   added, done>>

-----------------------------------------------------------------------------
(* The owner: the rest of the destructor.                                  *)

SetHalt ==
    /\ opc = "halt"
    /\ halt' = TRUE
    /\ opc' = "notify"
    /\ UNCHANGED <<jobs, idling, queueHolder, doneHeld, wpc, wjob, call, scan,
                   added, done>>

NotifyHalt ==
    /\ opc = "notify"
    /\ queueHolder = Unlocked
    /\ NotifyAllWorkers
    /\ opc' = "join"
    /\ scan' = 1
    /\ UNCHANGED <<jobs, idling, halt, queueHolder, doneHeld, wjob, call,
                   added, done>>

JoinWorker ==
    /\ opc = "join"
    /\ wpc[scan] = "exited"
    /\ IF LastWorker
       THEN opc' = "gone" /\ UNCHANGED scan
       ELSE scan' = scan + 1 /\ UNCHANGED opc
    /\ UNCHANGED <<jobs, idling, halt, queueHolder, doneHeld, wpc, wjob, call,
                   added, done>>

-----------------------------------------------------------------------------
(* The workers: worker_procedure.                                          *)

LockQueue(w) ==
    /\ wpc[w] = "lock"
    /\ queueHolder = Unlocked
    /\ queueHolder' = w
    /\ wpc' = [wpc EXCEPT ![w] = "check"]
    /\ UNCHANGED <<jobs, idling, halt, doneHeld, wjob, opc, call, scan, added,
                   done>>

\* The predicate of jobs_queue_cv.wait and the test for the shutdown.
CheckQueue(w) ==
    /\ wpc[w] = "check"
    /\ \/ /\ jobs # <<>>
          /\ wpc' = [wpc EXCEPT ![w] = "take"]
          /\ UNCHANGED queueHolder
       \/ /\ jobs = <<>> /\ halt
          /\ wpc' = [wpc EXCEPT ![w] = "idle"]
          /\ queueHolder' = Unlocked
       \/ /\ jobs = <<>> /\ ~halt
          /\ wpc' = [wpc EXCEPT ![w] = "sleep"]
          /\ UNCHANGED queueHolder
    /\ UNCHANGED <<jobs, idling, halt, doneHeld, wjob, opc, call, scan, added,
                   done>>

SleepOnQueue(w) ==
    /\ wpc[w] = "sleep"
    /\ queueHolder' = Unlocked
    /\ wpc' = [wpc EXCEPT ![w] = "asleep"]
    /\ UNCHANGED <<jobs, idling, halt, doneHeld, wjob, opc, call, scan, added,
                   done>>

\* idling[w] is cleared before the job leaves the queue.
TakeJob(w) ==
    /\ wpc[w] = "take"
    /\ idling' = [idling EXCEPT ![w] = FALSE]
    /\ NotifyPopped
    /\ wpc' = [wpc EXCEPT ![w] = "pop"]
    /\ UNCHANGED <<jobs, halt, queueHolder, doneHeld, wjob, call, scan, added,
                   done>>

PopJob(w) ==
    /\ wpc[w] = "pop"
    /\ wjob' = [wjob EXCEPT ![w] = Head(jobs)]
    /\ jobs' = Tail(jobs)
    /\ queueHolder' = Unlocked
    /\ wpc' = [wpc EXCEPT ![w] = "run"]
    /\ UNCHANGED <<idling, halt, doneHeld, opc, call, scan, added, done>>

RunJob(w) ==
    /\ wpc[w] = "run"
    /\ done' = done \cup {wjob[w]}
    /\ wpc' = [wpc EXCEPT ![w] = "idle"]
    /\ UNCHANGED <<jobs, idling, halt, queueHolder, doneHeld, wjob, opc, call,
                   scan, added>>

SetIdling(w) ==
    /\ wpc[w] = "idle"
    /\ idling' = [idling EXCEPT ![w] = TRUE]
    /\ wpc' = [wpc EXCEPT ![w] = "signal"]
    /\ UNCHANGED <<jobs, halt, queueHolder, doneHeld, wjob, opc, call, scan,
                   added, done>>

SignalDone(w) ==
    /\ wpc[w] = "signal"
    /\ ~doneHeld
    /\ NotifyDone
    /\ wpc' = [wpc EXCEPT ![w] = IF wjob[w] = NoJob THEN "exited" ELSE "drop"]
    /\ UNCHANGED <<jobs, idling, halt, queueHolder, doneHeld, wjob, call, scan,
                   added, done>>

\* The copy of the job, and what it captured, dies with the loop's iteration:
\* after the worker was seen idle.
DropJob(w) ==
    /\ wpc[w] = "drop"
    /\ wjob' = [wjob EXCEPT ![w] = NoJob]
    /\ wpc' = [wpc EXCEPT ![w] = "lock"]
    /\ UNCHANGED <<jobs, idling, halt, queueHolder, doneHeld, opc, call, scan,
                   added, done>>

-----------------------------------------------------------------------------
(* A condition variable may also wake its waiters without a notification.  *)

SpuriousWakeup ==
    /\ SpuriousWakeups
    /\ \/ /\ \E w \in Asleep : wpc' = [wpc EXCEPT ![w] = "lock"]
          /\ UNCHANGED opc
       \/ /\ opc = "queue_asleep" /\ NotifyPopped
          /\ UNCHANGED wpc
       \/ /\ opc = "done_asleep" /\ NotifyDone
          /\ UNCHANGED wpc
    /\ UNCHANGED <<jobs, idling, halt, queueHolder, doneHeld, wjob, call, scan,
                   added, done>>

\* The destructor returned: nothing is left to do.
Terminated ==
    /\ opc = "gone"
    /\ UNCHANGED vars

OwnerStep ==
    \/ SpawnWorker \/ MarkIdling
    \/ WaitForEmptyQueue \/ LockDone \/ ScanForFree
    \/ ReadIdling \/ CheckIdling \/ SleepOnDone
    \/ SetHalt \/ NotifyHalt \/ JoinWorker

WorkerStep(w) ==
    \/ LockQueue(w) \/ CheckQueue(w) \/ SleepOnQueue(w)
    \/ TakeJob(w) \/ PopJob(w) \/ RunJob(w)
    \/ SetIdling(w) \/ SignalDone(w) \/ DropJob(w)

Next ==
    \/ AddJob
    \/ \E c \in {"free", "all", "destroy"} : CallWait(c)
    \/ OwnerStep
    \/ \E w \in Workers : WorkerStep(w)
    \/ SpuriousWakeup
    \/ Terminated

Spec == Init /\ [][Next]_vars

-----------------------------------------------------------------------------
(* Properties.                                                             *)

Running == {w \in Workers : wpc[w] = "run"}

\* The jobs being run.
Held == {wjob[w] : w \in Running}

\* Awake and without a job: on its way to the queue.
Coming == {w \in Workers :
              wpc[w] \in {"lock", "check", "take", "pop", "idle", "signal",
                          "drop"}}

\* Every variable has its type: the program counters are those of the code,
\* queued jobs are jobs that were added, mutexes are held by a known thread.
TypeOK ==
    /\ jobs \in Seq(Jobs)
    /\ idling \in [Workers -> BOOLEAN]
    /\ halt \in BOOLEAN
    /\ queueHolder \in Workers \cup {Unlocked}
    /\ doneHeld \in BOOLEAN
    /\ wpc \in [Workers -> WorkerPC]
    /\ wjob \in [Workers -> Jobs \cup {NoJob}]
    /\ opc \in OwnerPC
    /\ call \in Calls
    /\ scan \in Workers
    /\ added \in 0..MaxJobs
    /\ done \subseteq Jobs

\* add_job wakes enough workers: while a worker sleeps on jobs_queue_cv,
\* every queued job has a worker of its own on its way to the queue.  Jobs
\* never wait behind a running job when a worker is free (lines 30-35, 53).
WorkConserving == Asleep # {} => Len(jobs) <= Cardinality(Coming)

\* The owner never sleeps on a notification that was already given: whoever
\* makes its predicate true has still to notify it (lines 62-64 and 70-74,
\* where idling[] is set before done_mutex is taken).
OwnerIsNotForgotten ==
    /\ opc = "queue_asleep" =>
          jobs # <<>> /\ \A w \in Workers : wpc[w] # "pop"
    /\ opc = "done_asleep" /\ call = "free" =>
          \A w \in Workers : idling[w] => wpc[w] = "signal"
    /\ opc = "done_asleep" /\ call # "free" /\ idling[scan] =>
          wpc[scan] = "signal"

\* No worker misses the shutdown: halt is set outside jobs_queue_mutex (line
\* 19), yet once the destructor joins, no worker sleeps or is about to.
ShutdownReachesWorkers ==
    opc = "join" => \A w \in Workers : wpc[w] \notin {"sleep", "asleep"}

\* The shutdown drops no job: the destructor raises halt only after every job
\* that was ever added ran to its end (lines 16-19).
ShutdownAfterJobs ==
    halt \/ opc = "halt" => jobs = <<>> /\ done = 1..added

\* wait_all_jobs is a barrier, although it reads one flag after the other and
\* the first read takes no mutex (lines 103-116): when it returns, every job
\* added before has run.
WaitAllIsBarrier ==
    [][call = "all" /\ call' = "none" => jobs = <<>> /\ done = 1..added]_vars

\* wait_for_free_worker returns with an empty queue and a worker that runs
\* nothing, so that the next job starts at once (lines 88-101).
WaitFreeFindsWorker ==
    [][call = "free" /\ call' = "none" =>
          jobs = <<>> /\ Running # Workers]_vars

-----------------------------------------------------------------------------
(* Liveness.  Threads are scheduled, jobs end, and a mutex goes to one of   *)
(* the threads that ask for it; the mutex need not be fair.  Nothing makes  *)
(* the owner call an operation.                                             *)

Fairness ==
    /\ WF_vars(OwnerStep)
    /\ \A w \in Workers : WF_vars(WorkerStep(w))

FairSpec == Spec /\ Fairness

\* Every wait returns, and the destructor too: no thread waits for ever.
CallsReturn ==
    /\ call \in {"ctor", "free", "all"} ~> call = "none"
    /\ call = "destroy" ~> opc = "gone"

-----------------------------------------------------------------------------
(* The promise of the pool, without its threads: JobPool.                  *)

Pool == INSTANCE JobPool WITH
    queue   <- jobs,
    running <- Held,
    call    <- IF opc = "gone" THEN "gone" ELSE call

\* The mutexes, flags and condition variables implement that promise: jobs
\* start in order and once, and each wait returns when JobPool lets it.
ImplementsJobPool == Pool!Spec

\* ... and every job starts and ends, and every wait returns, as it promises.
ImplementsFairJobPool == Pool!FairSpec

=============================================================================
