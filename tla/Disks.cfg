CONSTANTS
    k1 = k1
    k2 = k2
    k3 = k3
    s1 = s1
    s2 = s2
    b1 = b1
    u1 = u1
    u2 = u2
    c1 = c1
    c2 = c2
    uevent = uevent
    v1 = v1
    v2 = v2
SPECIFICATION Spec
INVARIANTS
    DvrRecognised
    ShowsItsPartition
    EachPartitionHasVolume
    InfoIsOfDevice
    VolumesMatchTable
    DoneEntriesHaveWaiters
    SentFitsDisk
    ProductsFit
PROPERTIES
    EveryRequestReturns
    RediscoverDoesNotMount
CHECK_DEADLOCK FALSE
