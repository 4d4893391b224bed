SPECIFICATION Spec
CONSTANTS
    Size = 4
    Modulus = 8
    MaxChunk = 3
    MaxStream = 6
    ReadSizes = {2}
INVARIANTS LossIsCounted
