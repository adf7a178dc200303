CONSTANTS
    NWorkers = 3
    MaxJobs = 4
    SpuriousWakeups = TRUE
SPECIFICATION Spec
INVARIANTS TypeOK WorkConserving OwnerIsNotForgotten ShutdownReachesWorkers ShutdownAfterJobs
PROPERTIES WaitAllIsBarrier WaitFreeFindsWorker ImplementsJobPool
