SPECIFICATION Spec
CONSTANTS
    Capacity = 6
    Stream <- MCStream
    SizeOf <- MCSizeOf
    Chunk = 3
    RingCapacity = 2
    WireCapacity = 1
    Total = 16
    Alignment = 4
    Base = 1
    Header = 2
INVARIANTS TypeOK FramesAreMessages OnceInOrder FramesLieApart
PROPERTIES RingIsEmptied
CHECK_DEADLOCK FALSE
