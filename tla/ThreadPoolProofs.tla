-------------------------- MODULE ThreadPoolProofs --------------------------
(***************************************************************************)
(* Proofs about ThreadPool, for every number of workers and of jobs, with  *)
(* or without spurious wakeups.  Inductive is the inductive invariant: the *)
(* invariants of ThreadPool follow from it, and so do its two action       *)
(* properties.                                                             *)
(***************************************************************************)
EXTENDS ThreadPool, FiniteSetTheorems, TLAPS

\* Which threads hold a mutex can be read off their program counters.
InsideQueue == {"check", "sleep", "take", "pop"}

Mutexes ==
    /\ \A w \in Workers : wpc[w] \in InsideQueue <=> queueHolder = w
    /\ doneHeld <=> opc \in {"free_scan", "all_check", "done_sleep"}

\* What a worker read of the queue, inside the mutex, is still so.
WorkerKnows ==
    \A w \in Workers :
       /\ wpc[w] \in {"take", "pop"} => jobs # <<>>
       /\ wpc[w] = "sleep" => jobs = <<>>
       /\ wpc[w] \in {"pop", "run"} => ~idling[w]
       /\ wpc[w] \in {"idle", "signal"} /\ wjob[w] = NoJob => halt

\* Where the owner is in the operation it executes.
OwnerAt ==
    /\ opc \in {"spawn", "mark"} <=> call = "ctor"
    /\ opc = "ready" <=> call = "none"
    /\ opc = "free_scan" => call = "free"
    /\ opc \in {"all_read", "all_check"} => call \in {"all", "destroy"}
    /\ opc \in {"halt", "notify", "join", "gone"} => call = "destroy"
    /\ halt <=> opc \in {"notify", "join", "gone"}

\* Before the constructor returns, later workers do not exist and no job does.
Constructing ==
    /\ opc = "spawn" => \A w \in Workers : w >= scan => wpc[w] = "unborn"
    /\ opc = "mark" => \A w \in Workers : w > scan => wpc[w] = "unborn"
    /\ call = "ctor" => added = 0

\* The queue holds the newest jobs, in order; each older one is held by the
\* one worker that runs it, or done.
JobsAccounted ==
    /\ Len(jobs) <= added
    /\ \A i \in 1..Len(jobs) : jobs[i] = added - Len(jobs) + i
    /\ Held \cup done = 1..(added - Len(jobs))
    /\ Held \cap done = {}
    /\ \A v, w \in Running : wjob[v] = wjob[w] => v = w

\* What the owner read of the queue and of the flags is still so: it is the
\* only one who adds jobs.
PastQueue == {"done_lock", "free_scan", "all_read", "all_check", "done_sleep",
              "done_asleep", "halt", "notify", "join", "gone"}

OwnerKnows ==
    /\ opc \in PastQueue => jobs = <<>>
    /\ opc \in PastQueue /\ call \in {"all", "destroy"} =>
          \A w \in Workers : w < scan => wpc[w] # "run"
    /\ opc \in {"halt", "notify", "join", "gone"} => Running = {}

\* A flag the owner saw FALSE was raised since only by a worker that has
\* still to signal.
StillToSignal(w) == idling[w] => wpc[w] = "signal"

OwnerIsWaited ==
    /\ opc = "free_scan" => \A w \in Workers : w < scan => StillToSignal(w)
    /\ opc \in {"done_sleep", "done_asleep"} =>
          /\ call \in {"free", "all", "destroy"}
          /\ call = "free" => \A w \in Workers : StillToSignal(w)
          /\ call # "free" => StillToSignal(scan)

Inductive ==
    /\ TypeOK
    /\ Mutexes
    /\ WorkerKnows
    /\ OwnerAt
    /\ Constructing
    /\ JobsAccounted
    /\ OwnerKnows
    /\ OwnerIsWaited
    /\ OwnerIsNotForgotten
    /\ ShutdownReachesWorkers

-----------------------------------------------------------------------------
(* Each step of the owner preserves the invariant.                         *)

\* The loops over the workers stay in range.
LEMMA ScanRange ==
    /\ 1 \in Workers
    /\ scan \in Workers /\ scan # NWorkers => scan + 1 \in Workers
BY PoolAssumption DEF Workers

\* A step that moves no job, and whose running workers stay the same, keeps the
\* account of the jobs.
LEMMA JobsKept ==
    ASSUME JobsAccounted, UNCHANGED <<jobs, added, done>>,
           Running' = Running, \A v \in Running : wjob'[v] = wjob[v]
    PROVE  JobsAccounted'
<1>1. Held' = Held
  BY DEF Held
<1>2. QED
  BY <1>1 DEF JobsAccounted

\* The constructor starts a worker that did not exist (line 9).
LEMMA SpawnWorkerPreserves ==
    ASSUME Inductive, SpawnWorker PROVE Inductive'
<1>0. wpc[scan] = "unborn" /\ queueHolder # scan
  BY DEF Inductive, TypeOK, Mutexes, Constructing, SpawnWorker, InsideQueue,
     Workers
<1>1. TypeOK'
  BY DEF Inductive, TypeOK, SpawnWorker, WorkerPC, OwnerPC
<1>2. Mutexes'
  BY <1>0 DEF Inductive, TypeOK, SpawnWorker, Mutexes, InsideQueue
<1>3. WorkerKnows'
  BY DEF Inductive, TypeOK, SpawnWorker, WorkerKnows
<1>4. Constructing'
  BY PoolAssumption DEF Inductive, TypeOK, SpawnWorker, Constructing, OwnerAt,
     Workers
<1>5. JobsAccounted'
  <2>1. Running' = Running
    BY <1>0 DEF Inductive, TypeOK, SpawnWorker, Running
  <2>2. QED
    BY <2>1, JobsKept DEF Inductive, SpawnWorker
<1>6. OwnerAt' /\ OwnerKnows' /\ OwnerIsWaited' /\ OwnerIsNotForgotten'
      /\ ShutdownReachesWorkers'
  BY DEF Inductive, SpawnWorker, OwnerAt, OwnerKnows, OwnerIsWaited,
     OwnerIsNotForgotten, ShutdownReachesWorkers, PastQueue
<1>7. QED
  BY <1>1, <1>2, <1>3, <1>4, <1>5, <1>6 DEF Inductive

\* The constructor raises the flag of a worker that cannot have a job yet.
LEMMA MarkIdlingPreserves ==
    ASSUME Inductive, MarkIdling PROVE Inductive'
<1>0. added = 0 /\ jobs = <<>> /\ Running = {}
  <2>1. added = 0 /\ jobs = <<>>
    BY DEF Inductive, TypeOK, MarkIdling, OwnerAt, Constructing, JobsAccounted
  <2>2. Held = {}
    BY <2>1 DEF Inductive, JobsAccounted
  <2>3. QED
    BY <2>1, <2>2 DEF Held
<1>1. TypeOK'
  BY ScanRange DEF Inductive, TypeOK, MarkIdling, OwnerPC, Calls, LastWorker
<1>2. WorkerKnows'
  BY <1>0 DEF Inductive, TypeOK, MarkIdling, WorkerKnows, Running
<1>3. Constructing'
  BY PoolAssumption DEF Inductive, TypeOK, MarkIdling, Constructing, OwnerAt,
     Workers, LastWorker
<1>4. JobsAccounted'
  BY JobsKept DEF Inductive, MarkIdling, Running
<1>5. OwnerAt'
  BY DEF Inductive, MarkIdling, OwnerAt, LastWorker
<1>6. Mutexes' /\ OwnerKnows' /\ OwnerIsWaited' /\ OwnerIsNotForgotten'
      /\ ShutdownReachesWorkers'
  BY DEF Inductive, MarkIdling, Mutexes, LastWorker, OwnerKnows, OwnerIsWaited,
     OwnerIsNotForgotten, ShutdownReachesWorkers, PastQueue
<1>7. QED
  BY <1>1, <1>2, <1>3, <1>4, <1>5, <1>6 DEF Inductive

\* add_job queues the newest job and wakes at most one worker.
LEMMA AddJobPreserves ==
    ASSUME Inductive, AddJob PROVE Inductive'
<1>0. /\ Running' = Running
      /\ \A v \in Workers : \/ wpc'[v] = wpc[v]
                            \/ wpc[v] = "asleep" /\ wpc'[v] = "lock"
  BY DEF Inductive, TypeOK, AddJob, NotifyOneWorker, Asleep, Running
<1>1. TypeOK'
  <2>1. added + 1 \in Jobs /\ added' \in 0..MaxJobs
    BY PoolAssumption DEF Inductive, TypeOK, AddJob, Jobs
  <2>2. jobs' \in Seq(Jobs)
    BY <2>1 DEF Inductive, TypeOK, AddJob
  <2>3. wpc' \in [Workers -> WorkerPC]
    BY DEF Inductive, TypeOK, AddJob, NotifyOneWorker, WorkerPC
  <2>4. QED
    BY <2>1, <2>2, <2>3 DEF Inductive, TypeOK, AddJob
<1>2. Mutexes'
  BY <1>0 DEF Inductive, TypeOK, AddJob, Mutexes, InsideQueue
<1>3. WorkerKnows'
  BY <1>0 DEF Inductive, TypeOK, AddJob, Mutexes, WorkerKnows, InsideQueue,
     Workers, Unlocked
<1>4. JobsAccounted'
  <2>1. Held' = Held
    BY <1>0 DEF Held, AddJob
  <2>2. /\ Len(jobs') = Len(jobs) + 1 /\ added' = added + 1
        /\ \A i \in 1..Len(jobs) : jobs'[i] = jobs[i]
        /\ jobs'[Len(jobs) + 1] = added + 1
    BY DEF AddJob, Inductive, TypeOK
  <2>3. Len(jobs) \in Nat /\ added \in Nat
    BY PoolAssumption DEF Inductive, TypeOK
  <2>4. Len(jobs') <= added'
        /\ \A i \in 1..Len(jobs') : jobs'[i] = added' - Len(jobs') + i
    BY <2>2, <2>3 DEF Inductive, JobsAccounted
  <2>5. added' - Len(jobs') = added - Len(jobs) /\ done' = done
    BY <2>2, <2>3 DEF AddJob
  <2>6. QED
    BY <2>1, <2>4, <2>5, <1>0 DEF Inductive, JobsAccounted, AddJob, Running
<1>5. Constructing' /\ OwnerAt' /\ OwnerKnows' /\ OwnerIsWaited'
      /\ OwnerIsNotForgotten' /\ ShutdownReachesWorkers'
  BY DEF Inductive, AddJob, Constructing, OwnerAt, OwnerKnows, OwnerIsWaited,
     OwnerIsNotForgotten, ShutdownReachesWorkers, PastQueue
<1>6. QED
  BY <1>1, <1>2, <1>3, <1>4, <1>5 DEF Inductive

\* A wait begins.
LEMMA CallWaitPreserves ==
    ASSUME NEW c \in {"free", "all", "destroy"}, Inductive, CallWait(c)
    PROVE  Inductive'
<1>1. TypeOK'
  BY DEF Inductive, TypeOK, CallWait, OwnerPC, Calls
<1>2. JobsAccounted'
  BY JobsKept DEF Inductive, CallWait, Running
<1>3. Mutexes' /\ WorkerKnows' /\ OwnerAt' /\ Constructing'
  BY DEF Inductive, CallWait, Mutexes, WorkerKnows, OwnerAt, Constructing
<1>4. OwnerKnows' /\ OwnerIsWaited' /\ OwnerIsNotForgotten'
      /\ ShutdownReachesWorkers'
  BY DEF Inductive, CallWait, OwnerAt, OwnerKnows, OwnerIsWaited,
     OwnerIsNotForgotten, ShutdownReachesWorkers, PastQueue
<1>5. QED
  BY <1>1, <1>2, <1>3, <1>4 DEF Inductive

\* wait_for_empty_queue: the owner learns that the queue is empty, or sleeps.
LEMMA WaitForEmptyQueuePreserves ==
    ASSUME Inductive, WaitForEmptyQueue PROVE Inductive'
<1>0. call \in {"free", "all", "destroy"}
  BY DEF Inductive, TypeOK, OwnerAt, WaitForEmptyQueue, Calls
<1>1. TypeOK'
  BY ScanRange DEF Inductive, TypeOK, WaitForEmptyQueue, OwnerPC
<1>2. JobsAccounted'
  BY JobsKept DEF Inductive, WaitForEmptyQueue, Running
<1>3. Mutexes' /\ WorkerKnows' /\ OwnerAt' /\ Constructing'
  BY <1>0 DEF Inductive, WaitForEmptyQueue, Mutexes, WorkerKnows, OwnerAt,
     Constructing
<1>4. OwnerKnows'
  BY DEF Inductive, WaitForEmptyQueue, OwnerKnows, PastQueue, Workers
<1>5. OwnerIsWaited' /\ ShutdownReachesWorkers'
  BY DEF Inductive, WaitForEmptyQueue, OwnerIsWaited, ShutdownReachesWorkers
<1>6. OwnerIsNotForgotten'
  BY DEF Inductive, TypeOK, WaitForEmptyQueue, Mutexes, OwnerIsNotForgotten,
     InsideQueue, Workers, Unlocked
<1>7. QED
  BY <1>1, <1>2, <1>3, <1>4, <1>5, <1>6 DEF Inductive

\* The owner enters done_mutex.
LEMMA LockDonePreserves ==
    ASSUME Inductive, LockDone PROVE Inductive'
<1>1. TypeOK'
  BY ScanRange DEF Inductive, TypeOK, LockDone, OwnerPC
<1>2. JobsAccounted'
  BY JobsKept DEF Inductive, LockDone, Running
<1>3. Mutexes' /\ WorkerKnows' /\ OwnerAt' /\ Constructing'
  BY DEF Inductive, TypeOK, LockDone, Mutexes, WorkerKnows, OwnerAt,
     Constructing, Calls
<1>4. OwnerKnows' /\ OwnerIsWaited' /\ OwnerIsNotForgotten'
      /\ ShutdownReachesWorkers'
  BY DEF Inductive, LockDone, OwnerKnows, OwnerIsWaited, OwnerIsNotForgotten,
     ShutdownReachesWorkers, PastQueue, Workers
<1>5. QED
  BY <1>1, <1>2, <1>3, <1>4 DEF Inductive

\* wait_for_free_worker reads the flags inside done_mutex.
LEMMA ScanForFreePreserves ==
    ASSUME Inductive, ScanForFree PROVE Inductive'
<1>1. TypeOK'
  BY ScanRange DEF Inductive, TypeOK, ScanForFree, OwnerPC, Calls, LastWorker
<1>2. JobsAccounted'
  BY JobsKept DEF Inductive, ScanForFree, Running
<1>3. Mutexes' /\ WorkerKnows' /\ OwnerAt' /\ Constructing'
  BY DEF Inductive, ScanForFree, Mutexes, WorkerKnows, OwnerAt, Constructing
<1>4. OwnerKnows' /\ OwnerIsNotForgotten' /\ ShutdownReachesWorkers'
  BY DEF Inductive, ScanForFree, OwnerAt, OwnerKnows, OwnerIsNotForgotten,
     ShutdownReachesWorkers, PastQueue
<1>5. OwnerIsWaited'
  BY PoolAssumption DEF Inductive, TypeOK, ScanForFree, OwnerAt, OwnerIsWaited,
     StillToSignal, LastWorker, Workers
<1>6. QED
  BY <1>1, <1>2, <1>3, <1>4, <1>5 DEF Inductive

\* wait_all_jobs reads a flag outside done_mutex: an idle worker stays idle,
\* since the queue is empty.
LEMMA ReadIdlingPreserves ==
    ASSUME Inductive, ReadIdling PROVE Inductive'
<1>1. TypeOK'
  BY ScanRange DEF Inductive, TypeOK, ReadIdling, NextWorkerOrReturn, OwnerPC,
     Calls, LastWorker
<1>2. JobsAccounted'
  BY JobsKept DEF Inductive, ReadIdling, Running
<1>3. Mutexes' /\ WorkerKnows' /\ OwnerAt' /\ Constructing'
  BY DEF Inductive, ReadIdling, NextWorkerOrReturn, Mutexes, WorkerKnows,
     OwnerAt, Constructing
<1>4. OwnerIsWaited' /\ OwnerIsNotForgotten' /\ ShutdownReachesWorkers'
  BY DEF Inductive, ReadIdling, NextWorkerOrReturn, OwnerIsWaited,
     OwnerIsNotForgotten, ShutdownReachesWorkers
<1>5. OwnerKnows'
  BY PoolAssumption DEF Inductive, TypeOK, ReadIdling, NextWorkerOrReturn,
     OwnerAt, WorkerKnows, OwnerKnows, PastQueue, LastWorker, Workers, Running
<1>6. QED
  BY <1>1, <1>2, <1>3, <1>4, <1>5 DEF Inductive

\* wait_all_jobs reads the flag again inside done_mutex.
LEMMA CheckIdlingPreserves ==
    ASSUME Inductive, CheckIdling PROVE Inductive'
<1>1. TypeOK'
  BY ScanRange DEF Inductive, TypeOK, CheckIdling, NextWorkerOrReturn, OwnerPC,
     Calls, LastWorker
<1>2. JobsAccounted'
  BY JobsKept DEF Inductive, CheckIdling, Running
<1>3. Mutexes' /\ WorkerKnows' /\ OwnerAt' /\ Constructing'
  BY DEF Inductive, CheckIdling, NextWorkerOrReturn, Mutexes, WorkerKnows,
     OwnerAt, Constructing
<1>4. OwnerIsWaited' /\ OwnerIsNotForgotten' /\ ShutdownReachesWorkers'
  BY DEF Inductive, CheckIdling, NextWorkerOrReturn, OwnerAt, OwnerIsWaited,
     StillToSignal, OwnerIsNotForgotten, ShutdownReachesWorkers
<1>5. OwnerKnows'
  BY PoolAssumption DEF Inductive, TypeOK, CheckIdling, NextWorkerOrReturn,
     OwnerAt, WorkerKnows, OwnerKnows, PastQueue, LastWorker, Workers, Running
<1>6. QED
  BY <1>1, <1>2, <1>3, <1>4, <1>5 DEF Inductive

\* The owner falls asleep on done_cv and releases done_mutex.
LEMMA SleepOnDonePreserves ==
    ASSUME Inductive, SleepOnDone PROVE Inductive'
<1>1. TypeOK' /\ Mutexes' /\ WorkerKnows' /\ OwnerAt' /\ Constructing'
  BY DEF Inductive, TypeOK, SleepOnDone, Mutexes, WorkerKnows, OwnerAt,
     Constructing, OwnerPC
<1>2. JobsAccounted'
  BY JobsKept DEF Inductive, SleepOnDone, Running
<1>3. OwnerKnows' /\ OwnerIsWaited' /\ OwnerIsNotForgotten'
      /\ ShutdownReachesWorkers'
  BY DEF Inductive, SleepOnDone, OwnerKnows, OwnerIsWaited, StillToSignal,
     OwnerIsNotForgotten, ShutdownReachesWorkers, PastQueue, Running
<1>4. QED
  BY <1>1, <1>2, <1>3 DEF Inductive

\* The rest of the destructor: no worker is about to sleep when it is notified,
\* since the notification takes jobs_queue_mutex.
LEMMA ShutdownPreserves ==
    ASSUME Inductive, SetHalt \/ NotifyHalt \/ JoinWorker PROVE Inductive'
<1>1. CASE SetHalt
  <2>1. TypeOK' /\ Mutexes' /\ WorkerKnows' /\ OwnerAt' /\ Constructing'
    BY <1>1 DEF Inductive, TypeOK, SetHalt, Mutexes, WorkerKnows, OwnerAt,
       Constructing, OwnerPC
  <2>2. JobsAccounted'
    BY <1>1, JobsKept DEF Inductive, SetHalt, Running
  <2>3. OwnerKnows' /\ OwnerIsWaited' /\ OwnerIsNotForgotten'
        /\ ShutdownReachesWorkers'
    BY <1>1 DEF Inductive, SetHalt, OwnerKnows, OwnerIsWaited,
       OwnerIsNotForgotten, ShutdownReachesWorkers, PastQueue, Running
  <2>4. QED
    BY <2>1, <2>2, <2>3 DEF Inductive
<1>2. CASE NotifyHalt
  <2>1. /\ Running' = Running
        /\ \A v \in Workers : \/ wpc'[v] = wpc[v] /\ wpc[v] # "asleep"
                              \/ wpc[v] = "asleep" /\ wpc'[v] = "lock"
    BY <1>2 DEF Inductive, TypeOK, NotifyHalt, NotifyAllWorkers, Asleep,
       Running
  <2>2. TypeOK'
    BY <1>2, ScanRange DEF Inductive, TypeOK, NotifyHalt, NotifyAllWorkers,
       WorkerPC, OwnerPC
  <2>3. Mutexes' /\ WorkerKnows' /\ OwnerAt' /\ Constructing'
    BY <1>2, <2>1 DEF Inductive, NotifyHalt, Mutexes, WorkerKnows, OwnerAt,
       Constructing, InsideQueue
  <2>4. JobsAccounted'
    BY <1>2, <2>1, JobsKept DEF Inductive, NotifyHalt
  <2>5. OwnerKnows' /\ OwnerIsWaited' /\ OwnerIsNotForgotten'
    BY <1>2, <2>1 DEF Inductive, NotifyHalt, OwnerKnows, OwnerIsWaited,
       OwnerIsNotForgotten, PastQueue, Running
  <2>6. ShutdownReachesWorkers'
    BY <1>2, <2>1 DEF Inductive, NotifyHalt, Mutexes, InsideQueue, Workers,
       Unlocked, ShutdownReachesWorkers
  <2>7. QED
    BY <2>2, <2>3, <2>4, <2>5, <2>6 DEF Inductive
<1>3. CASE JoinWorker
  <2>1. TypeOK' /\ Mutexes' /\ WorkerKnows' /\ OwnerAt' /\ Constructing'
    BY <1>3, ScanRange DEF Inductive, TypeOK, JoinWorker, Mutexes, WorkerKnows,
       OwnerAt, Constructing, OwnerPC, LastWorker
  <2>2. JobsAccounted'
    BY <1>3, JobsKept DEF Inductive, JoinWorker, Running
  <2>3. OwnerKnows' /\ OwnerIsWaited' /\ OwnerIsNotForgotten'
        /\ ShutdownReachesWorkers'
    BY <1>3 DEF Inductive, JoinWorker, OwnerKnows, OwnerIsWaited,
       OwnerIsNotForgotten, ShutdownReachesWorkers, PastQueue, Running
  <2>4. QED
    BY <2>1, <2>2, <2>3 DEF Inductive
<1>4. QED
  BY <1>1, <1>2, <1>3

-----------------------------------------------------------------------------
(* Each step of a worker preserves the invariant.                          *)

\* A worker enters jobs_queue_mutex.
LEMMA LockQueuePreserves ==
    ASSUME NEW w \in Workers, Inductive, LockQueue(w) PROVE Inductive'
<1>1. TypeOK'
  BY DEF Inductive, TypeOK, LockQueue, WorkerPC
<1>2. Mutexes'
  BY DEF Inductive, TypeOK, LockQueue, Mutexes, InsideQueue, Workers, Unlocked
<1>3. Running' = Running
  BY DEF Inductive, TypeOK, LockQueue, Running
<1>4. JobsAccounted'
  BY <1>3, JobsKept DEF Inductive, LockQueue
<1>5. WorkerKnows' /\ OwnerAt' /\ Constructing' /\ ShutdownReachesWorkers'
  BY DEF Inductive, TypeOK, LockQueue, WorkerKnows, OwnerAt, Constructing,
     ShutdownReachesWorkers
<1>6. OwnerKnows' /\ OwnerIsWaited' /\ OwnerIsNotForgotten'
  BY <1>3 DEF Inductive, TypeOK, LockQueue, OwnerKnows, OwnerIsWaited,
     StillToSignal, OwnerIsNotForgotten
<1>7. QED
  BY <1>1, <1>2, <1>4, <1>5, <1>6 DEF Inductive

\* A worker finds a job, or the shutdown, or nothing.
LEMMA CheckQueuePreserves ==
    ASSUME NEW w \in Workers, Inductive, CheckQueue(w) PROVE Inductive'
<1>1. /\ wpc' \in [Workers -> WorkerPC]
      /\ wpc[w] = "check" /\ wpc'[w] \in {"take", "idle", "sleep"}
      /\ \A v \in Workers : v # w => wpc'[v] = wpc[v]
      /\ wpc'[w] = "take" => jobs # <<>>
      /\ wpc'[w] = "sleep" => jobs = <<>> /\ ~halt
      /\ queueHolder' = IF wpc'[w] = "idle" THEN Unlocked ELSE queueHolder
  BY DEF Inductive, TypeOK, CheckQueue, WorkerPC
<1>2. TypeOK'
  BY <1>1 DEF Inductive, TypeOK, CheckQueue
<1>3. Mutexes'
  BY <1>1 DEF Inductive, TypeOK, CheckQueue, Mutexes, InsideQueue, Workers,
     Unlocked
<1>4. Running' = Running
  BY <1>1 DEF Running
<1>5. JobsAccounted'
  BY <1>4, JobsKept DEF Inductive, CheckQueue
<1>6. WorkerKnows' /\ OwnerAt' /\ Constructing'
  BY <1>1 DEF Inductive, CheckQueue, WorkerKnows, OwnerAt, Constructing
<1>7. OwnerKnows' /\ OwnerIsWaited' /\ OwnerIsNotForgotten'
  <2>1. opc' = opc /\ call' = call /\ scan' = scan /\ jobs' = jobs
        /\ idling' = idling
    BY DEF CheckQueue
  <2>2. OwnerKnows'
    BY <1>1, <1>4, <2>1 DEF Inductive, OwnerKnows
  <2>3. OwnerIsWaited'
    BY <1>1, <2>1 DEF Inductive, TypeOK, OwnerIsWaited, StillToSignal
  <2>4. OwnerIsNotForgotten'
    BY <1>1, <2>1 DEF Inductive, TypeOK, OwnerIsNotForgotten
  <2>5. QED
    BY <2>2, <2>3, <2>4
<1>8. ShutdownReachesWorkers'
  BY <1>1 DEF Inductive, CheckQueue, OwnerAt, ShutdownReachesWorkers
<1>9. QED
  BY <1>2, <1>3, <1>5, <1>6, <1>7, <1>8 DEF Inductive

\* A worker falls asleep on jobs_queue_cv and releases jobs_queue_mutex.
LEMMA SleepOnQueuePreserves ==
    ASSUME NEW w \in Workers, Inductive, SleepOnQueue(w) PROVE Inductive'
<1>1. TypeOK'
  BY DEF Inductive, TypeOK, SleepOnQueue, WorkerPC
<1>2. Mutexes'
  BY DEF Inductive, TypeOK, SleepOnQueue, Mutexes, InsideQueue, Workers,
     Unlocked
<1>3. Running' = Running
  BY DEF Inductive, TypeOK, SleepOnQueue, Running
<1>4. JobsAccounted'
  BY <1>3, JobsKept DEF Inductive, SleepOnQueue
<1>5. WorkerKnows' /\ OwnerAt' /\ Constructing' /\ ShutdownReachesWorkers'
  BY DEF Inductive, TypeOK, SleepOnQueue, WorkerKnows, OwnerAt, Constructing,
     ShutdownReachesWorkers
<1>6. OwnerKnows' /\ OwnerIsWaited' /\ OwnerIsNotForgotten'
  BY <1>3 DEF Inductive, TypeOK, SleepOnQueue, OwnerKnows, OwnerIsWaited,
     StillToSignal, OwnerIsNotForgotten
<1>7. QED
  BY <1>1, <1>2, <1>4, <1>5, <1>6 DEF Inductive

\* A worker says that it is busy while its job is still queued.
LEMMA TakeJobPreserves ==
    ASSUME NEW w \in Workers, Inductive, TakeJob(w) PROVE Inductive'
<1>1. \/ opc' = opc
      \/ opc = "queue_asleep" /\ opc' = "queue_wait"
  BY DEF TakeJob, NotifyPopped
<1>2. TypeOK'
  BY <1>1 DEF Inductive, TypeOK, TakeJob, WorkerPC, OwnerPC
<1>3. Mutexes'
  BY <1>1 DEF Inductive, TypeOK, TakeJob, Mutexes, InsideQueue, Workers
<1>4. Running' = Running
  BY DEF Inductive, TypeOK, TakeJob, Running
<1>5. JobsAccounted'
  BY <1>4, JobsKept DEF Inductive, TakeJob
<1>6. WorkerKnows' /\ OwnerAt' /\ Constructing' /\ ShutdownReachesWorkers'
  BY <1>1 DEF Inductive, TypeOK, TakeJob, WorkerKnows, OwnerAt, Constructing,
     ShutdownReachesWorkers
<1>7. OwnerKnows' /\ OwnerIsWaited'
  BY <1>1, <1>4 DEF Inductive, TypeOK, TakeJob, OwnerKnows, OwnerIsWaited,
     StillToSignal, PastQueue
<1>8. OwnerIsNotForgotten'
  BY <1>1 DEF Inductive, TypeOK, TakeJob, NotifyPopped, OwnerIsNotForgotten
<1>9. QED
  BY <1>2, <1>3, <1>5, <1>6, <1>7, <1>8 DEF Inductive

\* A worker takes the oldest job: the account of the jobs moves by one.
LEMMA PopJobPreserves ==
    ASSUME NEW w \in Workers, Inductive, PopJob(w) PROVE Inductive'
<1> DEFINE j == Head(jobs)
<1>0. /\ jobs # <<>> /\ j \in Jobs /\ j = jobs[1] /\ jobs' \in Seq(Jobs)
      /\ Len(jobs) \in Nat \ {0} /\ added \in Nat
      /\ Len(jobs') = Len(jobs) - 1
      /\ \A i \in 1..Len(jobs') : jobs'[i] = jobs[i + 1]
  BY PoolAssumption DEF Inductive, TypeOK, PopJob, WorkerKnows
<1>1. TypeOK'
  BY <1>0 DEF Inductive, TypeOK, PopJob, WorkerPC
<1>2. Mutexes'
  BY DEF Inductive, TypeOK, PopJob, Mutexes, InsideQueue, Workers, Unlocked
<1>3. Running' = Running \cup {w} /\ w \notin Running
  BY DEF Inductive, TypeOK, PopJob, Running
<1>4. JobsAccounted'
  <2>1. j = added - Len(jobs) + 1 /\ added' = added /\ done' = done
    BY <1>0 DEF Inductive, JobsAccounted, PopJob
  <2>2. Held' = Held \cup {j}
    BY <1>3 DEF Held, Inductive, TypeOK, PopJob, Running
  <2>3. Held' \cup done' = 1..(added' - Len(jobs'))
    BY <1>0, <2>1, <2>2 DEF Inductive, JobsAccounted
  <2>4. j \notin Held /\ j \notin done
    BY <1>0, <2>1 DEF Inductive, JobsAccounted
  <2>5. Len(jobs') <= added'
        /\ \A i \in 1..Len(jobs') : jobs'[i] = added' - Len(jobs') + i
    BY <1>0, <2>1 DEF Inductive, JobsAccounted
  <2>6. \A u, v \in Running' : wjob'[u] = wjob'[v] => u = v
    BY <1>3, <2>4 DEF Inductive, TypeOK, JobsAccounted, PopJob, Held, Running
  <2>7. QED
    BY <2>1, <2>2, <2>3, <2>4, <2>5, <2>6 DEF Inductive, JobsAccounted
<1>5. WorkerKnows'
  BY DEF Inductive, TypeOK, PopJob, WorkerKnows, Mutexes, InsideQueue
<1>6. OwnerAt' /\ Constructing' /\ ShutdownReachesWorkers'
  BY DEF Inductive, TypeOK, PopJob, OwnerAt, Constructing,
     ShutdownReachesWorkers
<1>7. opc \notin PastQueue /\ opc # "queue_asleep"
  BY <1>0 DEF Inductive, OwnerKnows, OwnerIsNotForgotten, PopJob
<1>8. OwnerKnows' /\ OwnerIsWaited' /\ OwnerIsNotForgotten'
  BY <1>7 DEF PopJob, OwnerKnows, OwnerIsWaited, OwnerIsNotForgotten, PastQueue
<1>9. QED
  BY <1>1, <1>2, <1>4, <1>5, <1>6, <1>8 DEF Inductive

\* A job ends.
LEMMA RunJobPreserves ==
    ASSUME NEW w \in Workers, Inductive, RunJob(w) PROVE Inductive'
<1>1. Running' = Running \ {w} /\ w \in Running
  BY DEF Inductive, TypeOK, RunJob, Running
<1>2. JobsAccounted'
  <2>1. Held' = Held \ {wjob[w]} /\ wjob[w] \in Held
    BY <1>1 DEF Inductive, JobsAccounted, RunJob, Held
  <2>2. QED
    BY <1>1, <2>1 DEF Inductive, JobsAccounted, RunJob
<1>3. wjob[w] \in Jobs
  <2>1. wjob[w] \in 1..(added - Len(jobs))
    BY <1>1 DEF Inductive, JobsAccounted, Held
  <2>2. QED
    BY <2>1, PoolAssumption DEF Inductive, TypeOK, Jobs
<1>4. TypeOK'
  BY <1>3 DEF Inductive, TypeOK, RunJob, WorkerPC
<1>5. Mutexes' /\ WorkerKnows' /\ OwnerAt' /\ Constructing'
      /\ ShutdownReachesWorkers'
  BY <1>3 DEF Inductive, TypeOK, RunJob, Jobs, NoJob, Mutexes, InsideQueue,
     WorkerKnows, OwnerAt, Constructing, ShutdownReachesWorkers
<1>6. OwnerKnows' /\ OwnerIsWaited' /\ OwnerIsNotForgotten'
  BY <1>1 DEF Inductive, TypeOK, RunJob, OwnerKnows, OwnerIsWaited,
     StillToSignal, OwnerIsNotForgotten
<1>7. QED
  BY <1>2, <1>4, <1>5, <1>6 DEF Inductive

\* A worker raises its flag outside every mutex; it has still to signal.
LEMMA SetIdlingPreserves ==
    ASSUME NEW w \in Workers, Inductive, SetIdling(w) PROVE Inductive'
<1>1. TypeOK'
  BY DEF Inductive, TypeOK, SetIdling, WorkerPC
<1>2. Running' = Running
  BY DEF Inductive, TypeOK, SetIdling, Running
<1>3. JobsAccounted'
  BY <1>2, JobsKept DEF Inductive, SetIdling
<1>4. Mutexes' /\ WorkerKnows' /\ OwnerAt' /\ Constructing'
      /\ ShutdownReachesWorkers'
  BY DEF Inductive, TypeOK, SetIdling, Mutexes, InsideQueue, WorkerKnows,
     OwnerAt, Constructing, ShutdownReachesWorkers
<1>5. OwnerKnows' /\ OwnerIsWaited' /\ OwnerIsNotForgotten'
  BY <1>2 DEF Inductive, TypeOK, SetIdling, OwnerKnows, OwnerIsWaited,
     StillToSignal, OwnerIsNotForgotten
<1>6. QED
  BY <1>1, <1>3, <1>4, <1>5 DEF Inductive

\* A worker notifies the owner, inside done_mutex.
LEMMA SignalDonePreserves ==
    ASSUME NEW w \in Workers, Inductive, SignalDone(w) PROVE Inductive'
<1>1. /\ opc' = IF opc = "done_asleep" THEN "done_lock" ELSE opc
      /\ opc \notin {"free_scan", "all_check", "done_sleep"}
      /\ wpc' \in [Workers -> WorkerPC]
      /\ wpc[w] = "signal" /\ wpc'[w] \in {"exited", "drop"}
      /\ \A v \in Workers : v # w => wpc'[v] = wpc[v]
  BY DEF Inductive, TypeOK, Mutexes, SignalDone, NotifyDone, WorkerPC
<1>2. TypeOK' /\ Mutexes' /\ WorkerKnows' /\ Constructing'
  BY <1>1 DEF Inductive, TypeOK, SignalDone, OwnerPC, Mutexes, InsideQueue,
     WorkerKnows, Constructing
<1>3. Running' = Running
  BY <1>1 DEF Running
<1>4. JobsAccounted'
  BY <1>3, JobsKept DEF Inductive, SignalDone
<1>5. OwnerAt' /\ ShutdownReachesWorkers'
  BY <1>1 DEF Inductive, SignalDone, OwnerAt, ShutdownReachesWorkers,
     OwnerIsWaited
<1>6. OwnerKnows' /\ OwnerIsWaited' /\ OwnerIsNotForgotten'
  BY <1>1, <1>3 DEF Inductive, SignalDone, OwnerKnows, OwnerIsWaited,
     OwnerIsNotForgotten, PastQueue
<1>7. QED
  BY <1>2, <1>4, <1>5, <1>6 DEF Inductive

\* The job dies with the iteration.
LEMMA DropJobPreserves ==
    ASSUME NEW w \in Workers, Inductive, DropJob(w) PROVE Inductive'
<1>1. TypeOK'
  BY DEF Inductive, TypeOK, DropJob, WorkerPC
<1>2. Running' = Running /\ \A v \in Running : wjob'[v] = wjob[v]
  BY DEF Inductive, TypeOK, DropJob, Running
<1>3. JobsAccounted'
  BY <1>2, JobsKept DEF Inductive, DropJob
<1>4. Mutexes' /\ WorkerKnows' /\ OwnerAt' /\ Constructing'
      /\ ShutdownReachesWorkers'
  BY DEF Inductive, TypeOK, DropJob, Mutexes, InsideQueue, WorkerKnows,
     OwnerAt, Constructing, ShutdownReachesWorkers
<1>5. OwnerKnows' /\ OwnerIsWaited' /\ OwnerIsNotForgotten'
  BY <1>2 DEF Inductive, TypeOK, DropJob, OwnerKnows, OwnerIsWaited,
     StillToSignal, OwnerIsNotForgotten
<1>6. QED
  BY <1>1, <1>3, <1>4, <1>5 DEF Inductive

\* A sleeper wakes up for nothing and checks its condition again.
LEMMA SpuriousWakeupPreserves ==
    ASSUME Inductive, SpuriousWakeup PROVE Inductive'
<1>1. /\ \/ opc' = opc
         \/ opc = "queue_asleep" /\ opc' = "queue_wait"
         \/ opc = "done_asleep" /\ opc' = "done_lock"
      /\ wpc' \in [Workers -> WorkerPC]
      /\ \A v \in Workers : \/ wpc'[v] = wpc[v]
                            \/ wpc[v] = "asleep" /\ wpc'[v] = "lock"
  BY DEF Inductive, TypeOK, SpuriousWakeup, Asleep, NotifyPopped, NotifyDone,
     WorkerPC
<1>2. TypeOK' /\ Mutexes' /\ WorkerKnows' /\ Constructing'
  BY <1>1 DEF Inductive, TypeOK, SpuriousWakeup, OwnerPC, Mutexes, InsideQueue,
     WorkerKnows, Constructing
<1>3. Running' = Running
  BY <1>1 DEF Running
<1>4. JobsAccounted'
  BY <1>3, JobsKept DEF Inductive, SpuriousWakeup
<1>5. OwnerAt' /\ ShutdownReachesWorkers'
  BY <1>1 DEF Inductive, SpuriousWakeup, OwnerAt, ShutdownReachesWorkers,
     OwnerIsWaited
<1>6. OwnerKnows' /\ OwnerIsWaited' /\ OwnerIsNotForgotten'
  <2>1. call' = call /\ scan' = scan /\ jobs' = jobs /\ idling' = idling
    BY DEF SpuriousWakeup
  <2>2. OwnerKnows'
    BY <1>1, <1>3, <2>1 DEF Inductive, OwnerKnows, PastQueue
  <2>3. OwnerIsWaited'
    BY <1>1, <2>1 DEF Inductive, TypeOK, OwnerIsWaited, StillToSignal
  <2>4. OwnerIsNotForgotten'
    BY <1>1, <2>1 DEF Inductive, TypeOK, OwnerIsNotForgotten
  <2>5. QED
    BY <2>2, <2>3, <2>4
<1>7. QED
  BY <1>2, <1>4, <1>5, <1>6 DEF Inductive

-----------------------------------------------------------------------------
(* The theorems.                                                           *)

\* The inductive invariant holds before the constructor runs.
LEMMA InitInductive == Init => Inductive
<1> SUFFICES ASSUME Init PROVE Inductive
  OBVIOUS
<1>1. Running = {} /\ Held = {}
  BY DEF Init, Running, Held
<1>2. TypeOK
  <2>1. jobs \in Seq(Jobs) /\ added \in 0..MaxJobs /\ scan \in Workers
    BY PoolAssumption DEF Init, Workers
  <2>2. /\ wpc \in [Workers -> WorkerPC]
        /\ wjob \in [Workers -> Jobs \cup {NoJob}]
        /\ idling \in [Workers -> BOOLEAN]
    BY DEF Init, WorkerPC
  <2>3. QED
    BY <2>1, <2>2 DEF Init, TypeOK, OwnerPC, Calls
<1>3. JobsAccounted
  BY <1>1 DEF Init, JobsAccounted
<1>4. Mutexes /\ WorkerKnows /\ OwnerAt /\ Constructing
  BY DEF Init, Mutexes, InsideQueue, Workers, Unlocked, WorkerKnows, OwnerAt,
     Constructing
<1>5. OwnerKnows /\ OwnerIsWaited /\ OwnerIsNotForgotten
      /\ ShutdownReachesWorkers
  BY DEF Init, OwnerKnows, PastQueue, OwnerIsWaited, OwnerIsNotForgotten,
     ShutdownReachesWorkers
<1>6. QED
  BY <1>2, <1>3, <1>4, <1>5 DEF Inductive

\* ... is kept by a step of somebody else,
LEMMA StutterPreserves ==
    ASSUME Inductive, UNCHANGED vars PROVE Inductive'
<1>1. JobsAccounted'
  BY JobsKept DEF Inductive, vars, Running
<1>2. QED
  BY <1>1 DEF Inductive, vars, TypeOK, Mutexes, WorkerKnows, OwnerAt,
     Constructing, OwnerKnows, Running, OwnerIsWaited, StillToSignal,
     OwnerIsNotForgotten, ShutdownReachesWorkers

\* ... and by every step of the pool.
LEMMA NextPreserves == Inductive /\ [Next]_vars => Inductive'
<1> SUFFICES ASSUME Inductive, [Next]_vars PROVE Inductive'
  OBVIOUS
<1>1. CASE OwnerStep
  BY <1>1, SpawnWorkerPreserves, MarkIdlingPreserves,
     WaitForEmptyQueuePreserves, LockDonePreserves, ScanForFreePreserves,
     ReadIdlingPreserves, CheckIdlingPreserves, SleepOnDonePreserves,
     ShutdownPreserves DEF OwnerStep
<1>2. ASSUME NEW w \in Workers, WorkerStep(w) PROVE Inductive'
  BY <1>2, LockQueuePreserves, CheckQueuePreserves, SleepOnQueuePreserves,
     TakeJobPreserves, PopJobPreserves, RunJobPreserves, SetIdlingPreserves,
     SignalDonePreserves, DropJobPreserves DEF WorkerStep
<1>3. QED
  BY <1>1, <1>2, AddJobPreserves, CallWaitPreserves, SpuriousWakeupPreserves,
     StutterPreserves DEF Next, Terminated

\* The inductive invariant holds in every reachable state.
THEOREM InductiveInvariant == Spec => []Inductive
BY InitInductive, NextPreserves, PTL DEF Spec

\* Every variable always has its type.
THEOREM TypeCorrect == Spec => []TypeOK
<1>1. Inductive => TypeOK
  BY DEF Inductive
<1>2. QED
  BY <1>1, InductiveInvariant, PTL

\* No notification is lost between a worker's signal and the owner's sleep: the
\* owner is never left asleep on a condition that became true (lines 62-64 and
\* 70-74).
THEOREM NoLostWakeup == Spec => []OwnerIsNotForgotten
<1>1. Inductive => OwnerIsNotForgotten
  BY DEF Inductive
<1>2. QED
  BY <1>1, InductiveInvariant, PTL

\* No worker sleeps through the shutdown, though halt is set outside the mutex
\* that workers evaluate it under (lines 19-23 and 53).
THEOREM NoWorkerMissesHalt == Spec => []ShutdownReachesWorkers
<1>1. Inductive => ShutdownReachesWorkers
  BY DEF Inductive
<1>2. QED
  BY <1>1, InductiveInvariant, PTL

\* With an empty queue and no worker running, all jobs are done.
LEMMA AllJobsDone ==
    ASSUME Inductive, jobs = <<>>, Running = {} PROVE done = 1..added
<1>1. Held = {} /\ Len(jobs) = 0 /\ added \in Nat
  BY PoolAssumption DEF Held, Inductive, TypeOK
<1>2. QED
  BY <1>1 DEF Inductive, JobsAccounted

\* The destructor raises halt only after every job has run (lines 14-19).
THEOREM ShutdownDropsNoJob == Spec => []ShutdownAfterJobs
<1>1. Inductive => ShutdownAfterJobs
  <2> SUFFICES ASSUME Inductive, halt \/ opc = "halt"
               PROVE  jobs = <<>> /\ done = 1..added
    BY DEF ShutdownAfterJobs
  <2>1. jobs = <<>> /\ Running = {}
    BY DEF Inductive, OwnerAt, OwnerKnows, PastQueue
  <2>2. QED
    BY <2>1, AllJobsDone
<1>2. QED
  BY <1>1, InductiveInvariant, PTL

\* wait_all_jobs is a barrier: all jobs added before it have run when it
\* returns, although it reads one flag after the other (lines 103-116).
THEOREM WaitAllBarrier == Spec => WaitAllIsBarrier
<1>1. ASSUME Inductive, [Next]_vars, call = "all", call' = "none"
      PROVE  jobs = <<>> /\ done = 1..added
  <2>1. \/ ReadIdling
        \/ CheckIdling
    BY <1>1 DEF Next, vars, AddJob, CallWait, OwnerStep, WorkerStep,
       SpuriousWakeup, Terminated, SpawnWorker, MarkIdling, WaitForEmptyQueue,
       LockDone, ScanForFree, SleepOnDone, SetHalt, NotifyHalt, JoinWorker,
       LockQueue, CheckQueue, SleepOnQueue, TakeJob, PopJob, RunJob, SetIdling,
       SignalDone, DropJob, Inductive, OwnerAt
  <2>2. scan = NWorkers /\ idling[scan] /\ opc \in PastQueue
    BY <1>1, <2>1 DEF ReadIdling, CheckIdling, NextWorkerOrReturn, LastWorker,
       PastQueue
  <2>3. jobs = <<>> /\ Running = {}
    BY <1>1, <2>2, PoolAssumption DEF Inductive, TypeOK, OwnerKnows,
       WorkerKnows, Running, Workers
  <2>4. QED
    BY <1>1, <2>3, AllJobsDone
<1>2. QED
  BY <1>1, InductiveInvariant, PTL DEF Spec, WaitAllIsBarrier

\* wait_for_free_worker returns with an empty queue and a worker that runs
\* nothing (lines 88-101).
THEOREM WaitFreeWorker == Spec => WaitFreeFindsWorker
<1>1. ASSUME Inductive, [Next]_vars, call = "free", call' = "none"
      PROVE  jobs = <<>> /\ Running # Workers
  <2>1. ScanForFree
    BY <1>1 DEF Next, vars, AddJob, CallWait, OwnerStep, WorkerStep,
       SpuriousWakeup, Terminated, SpawnWorker, MarkIdling, WaitForEmptyQueue,
       LockDone, ReadIdling, CheckIdling, SleepOnDone, SetHalt, NotifyHalt,
       JoinWorker, LockQueue, CheckQueue, SleepOnQueue, TakeJob, PopJob,
       RunJob, SetIdling, SignalDone, DropJob, Inductive, OwnerAt
  <2>2. idling[scan] /\ opc \in PastQueue
    BY <1>1, <2>1 DEF ScanForFree, PastQueue
  <2>3. QED
    BY <1>1, <2>2 DEF Inductive, TypeOK, OwnerKnows, WorkerKnows, Running
<1>2. QED
  BY <1>1, InductiveInvariant, PTL DEF Spec, WaitFreeFindsWorker

-----------------------------------------------------------------------------
(* No job waits behind a running one while a worker sleeps.                *)

\* The workers on their way to the queue can be counted,
LEMMA CardinalityComing ==
    /\ IsFiniteSet(Coming)
    /\ Cardinality(Coming) \in Nat
<1>1. IsFiniteSet(Workers)
  BY PoolAssumption, FS_Interval DEF Workers
<1>2. IsFiniteSet(Coming)
  BY <1>1, FS_Subset DEF Coming
<1>3. QED
  BY <1>2, FS_CardinalityType

\* The number of workers on their way to the queue, when it changes.
LEMMA ComingGains ==
    ASSUME NEW w \in Workers, w \notin Coming, Coming' = Coming \cup {w}
    PROVE  Cardinality(Coming') = Cardinality(Coming) + 1
BY CardinalityComing, FS_AddElement

\* ... and when it loses one.
LEMMA ComingLoses ==
    ASSUME NEW w \in Workers, w \in Coming, Coming' = Coming \ {w}
    PROVE  Cardinality(Coming') = Cardinality(Coming) - 1
BY CardinalityComing, FS_RemoveElement

\* ... and so they can after a step.
LEMMA ComingFinite ==
    ASSUME TypeOK' PROVE IsFiniteSet(Coming') /\ Cardinality(Coming') \in Nat
<1>1. IsFiniteSet(Workers)
  BY PoolAssumption, FS_Interval DEF Workers
<1>2. IsFiniteSet(Coming')
  BY <1>1, FS_Subset DEF Coming
<1>3. QED
  BY <1>2, FS_CardinalityType

\* A step that takes nothing from the workers on their way and adds no job.
LEMMA ComingGrows ==
    ASSUME WorkConserving, TypeOK, TypeOK', Coming \subseteq Coming',
    jobs' = jobs,
           Asleep' # {} => Asleep # {}
    PROVE  WorkConserving'
<1>1. Cardinality(Coming) <= Cardinality(Coming')
  BY ComingFinite, FS_Subset
<1>2. QED
  BY <1>1, CardinalityComing, ComingFinite DEF WorkConserving, TypeOK

\* With an empty queue there is nothing to conserve.
LEMMA EmptyQueueConserves ==
    ASSUME TypeOK', jobs' = <<>> PROVE WorkConserving'
BY ComingFinite DEF WorkConserving

\* Each step keeps a worker on its way for every queued job.
LEMMA WorkConservingStep ==
    ASSUME Inductive, Inductive', WorkConserving,
    [Next]_vars PROVE WorkConserving'
<1>0. TypeOK /\ TypeOK' /\ Len(jobs) \in Nat
  BY DEF Inductive, TypeOK
<1>1. CASE AddJob
  <2>1. CASE Asleep = {}
    <3>1. Asleep' = {}
      BY <1>0, <1>1, <2>1 DEF AddJob, NotifyOneWorker, Asleep
    <3>2. QED
      BY <3>1 DEF WorkConserving
  <2>2. CASE Asleep # {}
    <3>1. PICK w \in Workers : w \in Asleep
          /\ wpc' = [wpc EXCEPT ![w] = "lock"]
      BY <1>1, <2>2 DEF AddJob, NotifyOneWorker, Asleep
    <3>2. w \notin Coming /\ Coming' = Coming \cup {w}
      BY <1>0, <3>1 DEF Coming, Asleep, TypeOK
    <3>3. Cardinality(Coming') = Cardinality(Coming) + 1
      BY <3>2, ComingGains
    <3>4. Len(jobs') = Len(jobs) + 1
      BY <1>0, <1>1 DEF AddJob, TypeOK
    <3>5. QED
      BY <1>0, <2>2, <3>3, <3>4, CardinalityComing DEF WorkConserving
  <2>3. QED
    BY <2>1, <2>2
<1>2. ASSUME NEW w \in Workers, PopJob(w) PROVE WorkConserving'
  <2>1. w \in Coming /\ Coming' = Coming \ {w} /\ Asleep' = Asleep
    BY <1>0, <1>2 DEF PopJob, Coming, Asleep, TypeOK
  <2>2. Cardinality(Coming') = Cardinality(Coming) - 1
    BY <2>1, ComingLoses
  <2>3. Len(jobs') = Len(jobs) - 1
    BY <1>0, <1>2 DEF PopJob, Inductive, WorkerKnows, TypeOK
  <2>4. QED
    BY <1>0, <2>1, <2>2, <2>3, CardinalityComing DEF WorkConserving
<1>3. ASSUME NEW w \in Workers, CheckQueue(w) PROVE WorkConserving'
  <2>1. CASE jobs = <<>>
    BY <1>0, <1>3, <2>1, EmptyQueueConserves DEF CheckQueue
  <2>2. CASE jobs # <<>>
    <3>1. Coming' = Coming /\ Asleep' = Asleep /\ jobs' = jobs
      BY <1>0, <1>3, <2>2 DEF CheckQueue, Coming, Asleep, TypeOK
    <3>2. QED
      BY <1>0, <3>1, ComingGrows
  <2>3. QED
    BY <2>1, <2>2
<1>4. ASSUME NEW w \in Workers, SleepOnQueue(w) PROVE WorkConserving'
  BY <1>0, <1>4, EmptyQueueConserves DEF SleepOnQueue, Inductive, WorkerKnows
<1>5. ASSUME NEW w \in Workers, SignalDone(w) PROVE WorkConserving'
  <2>1. CASE wjob[w] = NoJob
    <3>1. jobs = <<>>
      BY <1>5, <2>1 DEF SignalDone, Inductive, WorkerKnows, OwnerAt,
         OwnerKnows, PastQueue
    <3>2. QED
      BY <1>0, <1>5, <3>1, EmptyQueueConserves DEF SignalDone
  <2>2. CASE wjob[w] # NoJob
    <3>1. Coming' = Coming /\ Asleep' = Asleep /\ jobs' = jobs
      BY <1>0, <1>5, <2>2 DEF SignalDone, Coming, Asleep, TypeOK
    <3>2. QED
      BY <1>0, <3>1, ComingGrows
  <2>3. QED
    BY <2>1, <2>2
<1>6. ASSUME NEW w \in Workers,
             \/ LockQueue(w) \/ TakeJob(w) \/ RunJob(w)
             \/ SetIdling(w) \/ DropJob(w)
      PROVE  WorkConserving'
  <2>1. Coming \subseteq Coming' /\ Asleep' = Asleep /\ jobs' = jobs
    BY <1>0, <1>6 DEF LockQueue, TakeJob, RunJob, SetIdling, DropJob, Coming,
       Asleep, TypeOK
  <2>2. QED
    BY <1>0, <2>1, ComingGrows
<1>7. CASE SpawnWorker \/ NotifyHalt \/ SpuriousWakeup
  <2>1. Coming \subseteq Coming' /\ Asleep' \subseteq Asleep /\ jobs' = jobs
    BY <1>0, <1>7 DEF SpawnWorker, NotifyHalt, NotifyAllWorkers,
       SpuriousWakeup, Coming, Asleep, TypeOK
  <2>2. QED
    BY <1>0, <2>1, ComingGrows
<1>8. CASE UNCHANGED <<wpc, jobs>>
  <2>1. Coming' = Coming /\ Asleep' = Asleep /\ jobs' = jobs
    BY <1>8 DEF Coming, Asleep
  <2>2. QED
    BY <1>0, <2>1, ComingGrows
<1>9. CASE OwnerStep /\ ~SpawnWorker /\ ~NotifyHalt
  BY <1>8, <1>9 DEF OwnerStep, MarkIdling, WaitForEmptyQueue, LockDone,
     ScanForFree, ReadIdling, CheckIdling, SleepOnDone, SetHalt, JoinWorker
<1>10. CASE \/ Terminated
            \/ UNCHANGED vars
            \/ \E c \in {"free", "all", "destroy"} : CallWait(c)
  BY <1>8, <1>10 DEF Terminated, vars, CallWait
<1>11. QED
  BY <1>1, <1>2, <1>3, <1>4, <1>5, <1>6, <1>7, <1>9, <1>10 DEF Next, WorkerStep

\* While a worker sleeps, every queued job has a worker of its own on its way to
\* the queue: add_job wakes enough of them, and none sleeps too early (30-53).
THEOREM WorkIsConserved == Spec => []WorkConserving
<1>1. Init => WorkConserving
  <2>1. Init => Asleep = {}
    BY DEF Init, Asleep
  <2>2. QED
    BY <2>1 DEF WorkConserving
<1>2. Inductive /\ Inductive' /\ WorkConserving
      /\ [Next]_vars => WorkConserving'
  BY WorkConservingStep
<1>3. QED
  BY <1>1, <1>2, InductiveInvariant, PTL DEF Spec

-----------------------------------------------------------------------------
(* Refinement.                                                             *)

\* While a worker runs nothing, fewer than NWorkers jobs run.
LEMMA HeldFits ==
    ASSUME TypeOK, Running # Workers PROVE Cardinality(Held) < NWorkers
<1>1. IsFiniteSet(Workers) /\ Cardinality(Workers) = NWorkers
  BY PoolAssumption, FS_Interval DEF Workers
<1>2. /\ IsFiniteSet(Running)
      /\ Cardinality(Running) <= NWorkers
      /\ Cardinality(Running) # NWorkers
  BY <1>1, FS_Subset DEF Running
<1>3. [w \in Running |-> wjob[w]] \in Surjection(Running, Held)
  BY DEF Held, Surjection, Range
<1>4. IsFiniteSet(Held) /\ Cardinality(Held) <= Cardinality(Running)
  BY <1>2, <1>3, FS_Surjection
<1>5. Cardinality(Held) \in Nat /\ Cardinality(Running) \in Nat
  BY <1>2, <1>4, FS_CardinalityType
<1>6. QED
  BY <1>2, <1>4, <1>5, PoolAssumption

\* Both modules take Cardinality from FiniteSets.
LEMMA SameCardinality == Pool!Cardinality(Held) = Cardinality(Held)
BY DEF Cardinality, Pool!Cardinality

\* The pool starts as JobPool does, 
LEMMA RefinementInit == Init => Pool!Init
BY DEF Init, Pool!Init, Held, Running

\* ... and each step is one of JobPool, or changes nothing JobPool speaks of.
LEMMA RefinementStep ==
    ASSUME Inductive, [Next]_vars PROVE [Pool!Next]_Pool!vars
<1>0. TypeOK
  BY DEF Inductive
<1>1. CASE AddJob
  <2>1. Running' = Running /\ Held' = Held
    BY <1>0, <1>1 DEF AddJob, NotifyOneWorker, Asleep, Running, Held, TypeOK
  <2>2. Pool!Add
    BY <1>1, <2>1 DEF Pool!Add, AddJob, Inductive, OwnerAt
  <2>3. QED
    BY <2>2 DEF Pool!Next
<1>2. ASSUME NEW c \in {"free", "all", "destroy"}, CallWait(c)
      PROVE  Pool!Next
  <2>1. Pool!Call(c)
    BY <1>2 DEF CallWait, Pool!Call, Running, Held, Inductive, OwnerAt
  <2>2. QED
    BY <2>1 DEF Pool!Next
<1>3. ASSUME NEW w \in Workers, PopJob(w) PROVE Pool!Next
  <2>1. Running' = Running \cup {w} /\ w \notin Running
    BY <1>0, <1>3 DEF PopJob, Running, TypeOK
  <2>2. Held' = Held \cup {Head(jobs)}
    BY <1>0, <1>3, <2>1 DEF PopJob, Held, Running, TypeOK
  <2>3. Cardinality(Held) < NWorkers
    BY <1>0, <2>1, HeldFits
  <2>4. Pool!Start
    BY <1>3, <2>2, <2>3, SameCardinality DEF PopJob, Pool!Start, Inductive,
       WorkerKnows
  <2>5. QED
    BY <2>4 DEF Pool!Next
<1>4. ASSUME NEW w \in Workers, RunJob(w) PROVE Pool!Next
  <2>1. Running' = Running \ {w} /\ w \in Running
    BY <1>0, <1>4 DEF RunJob, Running, TypeOK
  <2>2. Held' = Held \ {wjob[w]} /\ wjob[w] \in Held
    BY <1>4, <2>1 DEF RunJob, Held, Inductive, JobsAccounted
  <2>3. Pool!Finish(wjob[w])
    BY <1>4, <2>2 DEF RunJob, Pool!Finish
  <2>4. QED
    BY <2>2, <2>3 DEF Pool!Next
<1>5. ASSUME UNCHANGED <<jobs, added, done>>, Running' = Running,
             \A v \in Running : wjob'[v] = wjob[v],
             UNCHANGED (IF opc = "gone" THEN "gone" ELSE call)
      PROVE  UNCHANGED Pool!vars
  BY <1>5 DEF Pool!vars, Held
<1>6. ASSUME NEW w \in Workers,
             \/ LockQueue(w) \/ CheckQueue(w) \/ SleepOnQueue(w) \/ TakeJob(w)
             \/ SetIdling(w) \/ SignalDone(w) \/ DropJob(w)
      PROVE  UNCHANGED Pool!vars
  <2>1. UNCHANGED <<jobs, added, done, call>>
    BY <1>6 DEF LockQueue, CheckQueue, SleepOnQueue, TakeJob, SetIdling,
       SignalDone, DropJob
  <2>2. Running' = Running /\ \A v \in Running : wjob'[v] = wjob[v]
    BY <1>0, <1>6 DEF Running, TypeOK, LockQueue, CheckQueue, SleepOnQueue,
       TakeJob, SetIdling, SignalDone, DropJob
  <2>3. opc' = "gone" <=> opc = "gone"
    BY <1>6 DEF LockQueue, CheckQueue, SleepOnQueue, TakeJob, NotifyPopped,
       SetIdling, SignalDone, NotifyDone, DropJob
  <2>4. QED
    BY <1>5, <2>1, <2>2, <2>3
<1>7. CASE SpawnWorker \/ NotifyHalt \/ SpuriousWakeup
  <2>1. UNCHANGED <<jobs, added, done, call, wjob>>
    BY <1>7 DEF SpawnWorker, NotifyHalt, SpuriousWakeup
  <2>2. Running' = Running
    <3>1. SpawnWorker => wpc[scan] = "unborn"
      BY DEF SpawnWorker, Inductive, TypeOK, Constructing, Workers
    <3>2. QED
      BY <1>0, <1>7, <3>1 DEF Running, TypeOK, SpawnWorker, NotifyHalt,
         NotifyAllWorkers, SpuriousWakeup, Asleep
  <2>3. opc' = "gone" <=> opc = "gone"
    BY <1>7 DEF SpawnWorker, NotifyHalt, SpuriousWakeup, NotifyPopped,
       NotifyDone
  <2>4. QED
    BY <1>5, <2>1, <2>2, <2>3
<1>8. CASE \/ MarkIdling \/ WaitForEmptyQueue \/ LockDone \/ ScanForFree
           \/ ReadIdling \/ CheckIdling \/ SleepOnDone \/ SetHalt \/ JoinWorker
  <2>1. UNCHANGED <<jobs, added, done, wjob, wpc>>
    BY <1>8 DEF MarkIdling, WaitForEmptyQueue, LockDone, ScanForFree,
       ReadIdling, CheckIdling, SleepOnDone, SetHalt, JoinWorker
  <2>2. Running' = Running /\ Held' = Held
    BY <2>1 DEF Running, Held
  <2>3. CASE opc' # "gone" /\ call' = call
    BY <1>5, <1>8, <2>1, <2>2, <2>3 DEF MarkIdling, WaitForEmptyQueue,
       LockDone, ScanForFree, ReadIdling, CheckIdling, SleepOnDone, SetHalt,
       JoinWorker
  <2>4. CASE opc' = "gone"
    <3>1. jobs = <<>> /\ Running = {} /\ Held = {} /\ call = "destroy"
          /\ opc = "join"
      BY <1>8, <2>4 DEF Inductive, OwnerAt, OwnerKnows, PastQueue, Held,
         JoinWorker, MarkIdling, WaitForEmptyQueue, LockDone, ScanForFree,
         ReadIdling, CheckIdling, NextWorkerOrReturn, SleepOnDone, SetHalt
    <3>2. Pool!ReturnAll
      BY <2>1, <2>2, <2>4, <3>1 DEF Pool!ReturnAll
    <3>3. QED
      BY <3>2 DEF Pool!Next, Pool!Return
  <2>5. CASE call' # call
    <3>1. opc # "gone" /\ opc' # "gone" /\ call' = "none"
      BY <1>8, <2>5 DEF MarkIdling, WaitForEmptyQueue, LockDone, ScanForFree,
         ReadIdling, CheckIdling, NextWorkerOrReturn, SleepOnDone, SetHalt,
         JoinWorker
    <3>2. \/ MarkIdling /\ call = "ctor"
          \/ ScanForFree /\ call = "free"
          \/ (ReadIdling \/ CheckIdling) /\ call = "all"
      BY <1>8, <2>5 DEF MarkIdling, WaitForEmptyQueue, LockDone, ScanForFree,
         ReadIdling, CheckIdling, NextWorkerOrReturn, SleepOnDone, SetHalt,
         JoinWorker, Inductive, OwnerAt
    <3>3. CASE MarkIdling /\ call = "ctor"
      BY <2>1, <2>2, <3>1, <3>3 DEF Pool!Next, Pool!Return, Pool!Construct
    <3>4. CASE ScanForFree /\ call = "free"
      <4>1. jobs = <<>> /\ idling[scan]
        BY <2>5, <3>4 DEF ScanForFree, Inductive, OwnerKnows, PastQueue
      <4>2. Running # Workers
        BY <1>0, <4>1 DEF Inductive, WorkerKnows, TypeOK, Running
      <4>3. Pool!ReturnFree
        BY <1>0, <2>1, <2>2, <3>1, <3>4, <4>1, <4>2, HeldFits, SameCardinality
           DEF Pool!ReturnFree
      <4>4. QED
        BY <4>3 DEF Pool!Next, Pool!Return
    <3>5. CASE (ReadIdling \/ CheckIdling) /\ call = "all"
      <4>1. scan = NWorkers /\ idling[scan] /\ opc \in PastQueue
        BY <2>5, <3>5 DEF ReadIdling, CheckIdling, NextWorkerOrReturn,
           LastWorker, PastQueue
      <4>2. jobs = <<>> /\ Running = {}
        BY <3>5, <4>1, PoolAssumption DEF Inductive, TypeOK, OwnerKnows,
           WorkerKnows, Running, Workers
      <4>3. Held = {}
        BY <4>2 DEF Held
      <4>4. Pool!ReturnAll
        BY <2>1, <2>2, <3>1, <3>5, <4>2, <4>3 DEF Pool!ReturnAll
      <4>5. QED
        BY <4>4 DEF Pool!Next, Pool!Return
    <3>6. QED
      BY <3>2, <3>3, <3>4, <3>5
  <2>6. QED
    BY <2>3, <2>4, <2>5
<1>9. CASE UNCHANGED vars
  BY <1>5, <1>9 DEF vars, Running
<1>10. QED
  BY <1>1, <1>2, <1>3, <1>4, <1>6, <1>7, <1>8, <1>9 DEF Next, OwnerStep,
     WorkerStep, Terminated

\* The pool, with its threads, mutexes, flags and condition variables, implements
\* JobPool: jobs start in order, and each wait returns when JobPool lets it.
THEOREM Refinement == Spec => ImplementsJobPool
BY InductiveInvariant, RefinementInit, RefinementStep, PTL DEF Spec,
   Pool!Spec, ImplementsJobPool

=============================================================================
