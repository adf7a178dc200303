CONSTANTS
    NWorkers = 2
    MaxJobs = 3
    SpuriousWakeups = FALSE
SPECIFICATION FairSpec
PROPERTIES CallsReturn ImplementsFairJobPool
