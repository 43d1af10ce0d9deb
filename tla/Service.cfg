CONSTANTS
    t1 = t1
    t2 = t2
    u1 = u1
    m1 = m1
    d1 = d1
    d2 = d2
SPECIFICATION Spec
INVARIANTS
    NothingLostAtExit
    DataDiskExclusive
    GrantIsOwn
    RecordsArrive
    
PROPERTIES
    IdleIsUnloaded
    ImplementsCachedProxy
    MutexIsReleased
    BusyEnds
CHECK_DEADLOCK FALSE
