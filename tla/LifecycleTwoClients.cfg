CONSTANTS
    vi = vi
    ve = ve
    c1 = c1
    c2 = c2
    uevent = uevent
    Volume <- InternalVolume
    Internal <- InternalVolume
    Client <- TwoClients
    Uevent = uevent
    ClientOps <- AllRequests
    UeventOps <- DiscoveryOnly
    MaxBusy = 2
SPECIFICATION Spec
INVARIANTS
    NoIntermediateState
SYMMETRY ClientSymmetry
