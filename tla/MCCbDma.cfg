SPECIFICATION Spec
CONSTANTS
    Size = 4
    Modulus = 8
    MaxChunk = 3
    MaxStream = 8
    ReadSizes = {1, 2}
INVARIANTS TypeOK ExactDelivery TracksHardware
PROPERTIES Drained
