SPECIFICATION Spec
CONSTANTS
    Names = {n, l}
    Types = {"BOOL", "UINT8", "SIZE", "LIST"}
    Texts = {"1", "-1"}
    MaxFlags = 2
    MaxArgs = 3
    MaxParses = 1
SYMMETRY NameSymmetry
INVARIANTS TypeOK TableIsArguments RestIsComplete
CHECK_DEADLOCK FALSE
