CONSTANTS
    u1 = u1
    u2 = u2
    u3 = u3
    Uuid <- TwoUuids
    MaxSlot = 2
    MaxPowerLosses = 1
SPECIFICATION Spec
PROPERTIES
    CorruptMainFallsBack
