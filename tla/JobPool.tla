------------------------------- MODULE JobPool -------------------------------
(***************************************************************************)
(* What the thread pool promises to the thread that owns it, with no worker *)
(* threads, mutexes, flags or condition variables: jobs start in the order *)
(* they were added, at most NWorkers at a time, each runs once, and the     *)
(* three waits return only when what they wait for is so.                   *)
(* ThreadPool implements this module.                                       *)
(***************************************************************************)
EXTENDS Integers, Sequences, FiniteSets

CONSTANTS
    NWorkers,  \* how many jobs may run at once
    MaxJobs    \* bound: jobs added during a behaviour

VARIABLES
    queue,    \* jobs not yet started, oldest first
    running,  \* jobs being run
    done,     \* jobs that ran
    added,    \* the number of jobs added
    call      \* the operation the owner is executing

vars == <<queue, running, done, added, call>>

Init ==
    /\ queue = <<>>
    /\ running = {}
    /\ done = {}
    /\ added = 0
    /\ call = "ctor"

Construct ==
    /\ call = "ctor"
    /\ call' = "none"
    /\ UNCHANGED <<queue, running, done, added>>

Add ==
    /\ call = "none"
    /\ added < MaxJobs
    /\ queue' = Append(queue, added + 1)
    /\ added' = added + 1
    /\ UNCHANGED <<running, done, call>>

Call(c) ==
    /\ call = "none"
    /\ call' = c
    /\ UNCHANGED <<queue, running, done, added>>

Start ==
    /\ queue # <<>>
    /\ Cardinality(running) < NWorkers
    /\ running' = running \cup {Head(queue)}
    /\ queue' = Tail(queue)
    /\ UNCHANGED <<done, added, call>>

Finish(j) ==
    /\ j \in running
    /\ running' = running \ {j}
    /\ done' = done \cup {j}
    /\ UNCHANGED <<queue, added, call>>

\* wait_for_free_worker
ReturnFree ==
    /\ call = "free"
    /\ queue = <<>>
    /\ Cardinality(running) < NWorkers
    /\ call' = "none"
    /\ UNCHANGED <<queue, running, done, added>>

\* wait_all_jobs, and the destructor that starts with it
ReturnAll ==
    /\ \/ call = "all" /\ call' = "none"
       \/ call = "destroy" /\ call' = "gone"
    /\ queue = <<>>
    /\ running = {}
    /\ UNCHANGED <<queue, running, done, added>>

Return == Construct \/ ReturnFree \/ ReturnAll

Next ==
    \/ Add
    \/ \E c \in {"free", "all", "destroy"} : Call(c)
    \/ Start
    \/ \E j \in running : Finish(j)
    \/ Return

Spec == Init /\ [][Next]_vars

FairSpec ==
    /\ Spec
    /\ WF_vars(Start)
    /\ \A j \in 1..MaxJobs : WF_vars(Finish(j))
    /\ WF_vars(Return)

=============================================================================
