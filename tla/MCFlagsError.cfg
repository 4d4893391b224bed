SPECIFICATION Spec
CONSTANTS
    Names = {n, l}
    Types = {"BOOL"}
    Texts = {"1", "abc"}
    MaxFlags = 1
    MaxArgs = 2
    MaxParses = 2
INVARIANTS ErrorIsOfOneFlag
CHECK_DEADLOCK FALSE
