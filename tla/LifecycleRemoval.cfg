CONSTANTS
    vi = vi
    ve = ve
    c1 = c1
    c2 = c2
    uevent = uevent
    Volume <- ExternalVolume
    Internal <- NoVolume
    Client <- OneClient
    Uevent = uevent
    ClientOps <- MountAndUnmount
    UeventOps <- AllUevents
    MaxBusy = 2
SPECIFICATION Spec
PROPERTIES
    RecordsComeFromDiscovery
