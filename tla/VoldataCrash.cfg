CONSTANTS
    u1 = u1
    u2 = u2
    u3 = u3
    Uuid <- ThreeUuids
    MaxSlot = 2
    MaxPowerLosses = 0
SPECIFICATION Spec
INVARIANTS
    TypeOK
    MountPathsDistinct
    MemoryMatchesMainFile
PROPERTIES
    ImplementsRegistry
