\* Two rooms, two cameras, two PCs, three timestamps.
SPECIFICATION Spec
CONSTANTS
    Camera = {k1, k2}
    PC = {p, q}
    Channel = {1, 2}
    MaxTime = 3
SYMMETRY Symmetry
INVARIANT PcInOneRoom
PROPERTY EveryPacketOut
