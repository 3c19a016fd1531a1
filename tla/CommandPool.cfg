SPECIFICATION FairSpec
CONSTANTS
    w1 = w1
    w2 = w2
    j1 = j1
    j2 = j2
    t1 = t1
    t2 = t2
    Workers <- MCWorkers
    Jobs <- MCJobs
    Timers <- MCTimers
    Panicky <- MCPanicky
INVARIANTS
    WorkConserving
PROPERTIES
    JobServed
    WorkersRetire
    ImplementsExecutor
