CONSTANTS
    t1 = t1
    t2 = t2
    t3 = t3
    NoCaller = NoCaller
    Callers = {t1, t2, t3}
    MaxSize = 2
    DefaultWait = "probe"
SPECIFICATION FairSpec
INVARIANTS
    NoLostWakeUp
    NoOrphanWorker
PROPERTIES
    FreeConnIsNoticed
    LifecycleReturns
    ImplementsLeasePool
\* The system stops once the pool is freed, or could not be created.
CHECK_DEADLOCK FALSE
