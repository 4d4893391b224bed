SPECIFICATION Spec
CONSTANTS
    Size = 4
    Modulus = 8
    Byte = {b1, b2}
    MaxLen = 4
SYMMETRY ByteSymmetry
INVARIANTS TypeOK ContiguousOK
PROPERTIES ImplementsFifo
