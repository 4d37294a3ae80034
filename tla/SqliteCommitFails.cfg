CONSTANTS
    t1 = t1
    t2 = t2
    NoTask = NoTask
    Tasks = {t1, t2}
    MaxSize = 2
    MaxJobs <- MCMaxJobs
    InTx <- MCInTx
    Singles <- MCSingles
    Batches <- MCBatches
    Reads <- MCReads
    Syncs <- MCNoSyncs
SPECIFICATION Spec
INVARIANT ReturnedClean
\* The system stops once the pool is freed.
CHECK_DEADLOCK FALSE
