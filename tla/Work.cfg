CONSTANTS
    sched = sched
    batch = batch
    get1 = get1
    second = second
    get2 = get2
    cond2 = cond2
    apply2 = apply2
    other = other
    WorkId = {sched, batch, get1, second, get2, cond2, apply2, other}
    Scheduler = sched
    Kind <- CatchupKind
    Parent <- CatchupParent
    Items <- CatchupItems
    MaxRetries <- CatchupRetries
    Bandwidth = 2
    Before <- CatchupBefore
SPECIFICATION FairSpec
INVARIANTS NeverAsserts NoLostWakeup DoneInOrder
PROPERTY EveryWorkEnds
