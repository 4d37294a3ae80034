CONSTANTS
    t1 = t1
    t2 = t2
    u1 = u1
    u2 = u2
    c1 = c1
    NoConn = NoConn
    Tasks = {t1, t2}
    Units = {u1, u2}
    Conns = {c1}
    MaxStmts = 2
    Programs <- PipelineUse
SPECIFICATION Spec
INVARIANT ThrowRollsBack
