CONSTANTS
    t1 = t1
    t2 = t2
    NoTask = NoTask
    Tasks = {t1, t2}
    MaxJobs = 3
SPECIFICATION FairSpec
INVARIANTS
    PayloadPinned
    OneThreadAtATime
    DrainsOwnResults
    NoSpuriousRefusal
PROPERTIES
    WorkerIdleAtRelease
    EveryStatementAnswered
    CloseReturns
\* The system stops once pool_destroy has freed the connection.
CHECK_DEADLOCK FALSE
