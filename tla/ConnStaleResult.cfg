CONSTANTS
    t1 = t1
    t2 = t2
    NoTask = NoTask
    Tasks = {t1, t2}
    MaxJobs = 3
    MaxReads = 2
    Kinds = {"params", "pipeline"}
    Aborts = TRUE
SPECIFICATION Spec
INVARIANT ResultIsOwn
