CONSTANTS
    t1 = t1
    t2 = t2
    u1 = u1
    u2 = u2
    v1 = v1
    v2 = v2
    v3 = v3
    b1 = b1
    b2 = b2
    d1 = d1
    d2 = d2
    l1 = l1
    l2 = l2
    e1 = e1
    e2 = e2
SPECIFICATION Spec
INVARIANTS
    MountedPathIsMapped
    
    MountIsOfDisc
    DiscStateIsTrue
    NeverLeftEjecting
    NoGhosts
    LoopsHaveVolumes
    MapperIsRecorded
    MountIsRecorded
PROPERTIES
    DiscGetsMounted
CHECK_DEADLOCK FALSE
