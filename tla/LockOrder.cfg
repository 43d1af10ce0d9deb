CONSTANTS
    t1 = t1
    t2 = t2
    t3 = t3
    Thread <- ThreeThreads
    Ops <- AllOps
SPECIFICATION Spec
INVARIANTS
    OnlyFormatDeadlocks
CHECK_DEADLOCK FALSE
