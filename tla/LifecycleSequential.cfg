CONSTANTS
    vi = vi
    ve = ve
    c1 = c1
    c2 = c2
    uevent = uevent
    Volume <- BothVolumes
    Internal <- InternalVolume
    Client <- OneClient
    Uevent = uevent
    ClientOps <- AllRequests
    UeventOps <- AllUevents
    MaxBusy = 1
SPECIFICATION Spec
INVARIANTS
    TypeOK
    MountsOnRecord
PROPERTIES
    RemovedAfterEject
