CONSTANTS
    t1 = t1
    t2 = t2
    NoTask = NoTask
    Tasks = {t1, t2}
    MaxSize = 2
    DefaultClients = 1
    MaxJobs <- MCMaxJobs
    MaxDocs = 2
    Ops <- MCOps
SPECIFICATION FairSpec
INVARIANTS
    AnswerIsOwn
    InsertManyIsAccounted
PROPERTY LifecycleReturns
\* The system stops once the pool is freed.
CHECK_DEADLOCK FALSE
