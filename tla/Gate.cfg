CONSTANTS
    t1 = t1
    t2 = t2
    t3 = t3
    t4 = t4
    NoTask = NoTask
    Tasks = {t1, t2, t3, t4}
    MaxSize = 2
SPECIFICATION FairSpec
INVARIANTS
    CountIsExact
    GateKeepsItsWord
    NoSlotIdleWhileParked
PROPERTIES
    ServedInOrder
    AcquireIsAnswered
    ImplementsLeasePool
