CONSTANTS
    t1 = t1
    t2 = t2
    NoTask = NoTask
    Tasks = {t1, t2}
    MaxJobs = 3
    MaxReads = 2
    Kinds = {"simple", "params", "multi", "pipeline"}
    Aborts = TRUE
SPECIFICATION FairSpec
INVARIANTS
    ResultIsOwnUnlessSuspect
    CleanOnReacquire
    ReturnedMeansRun
PROPERTY CallEnds
