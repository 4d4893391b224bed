SPECIFICATION MCSpec
CONSTANTS
    Names = {a, b}
    Types = {"BOOL", "UINT", "STR", "INTLIST"}
    Numbers = {"big"}
    Texts <- Mixed
    MaxParams = 2
    MaxLines = 2
    ListCap = 1
    ArrayCap = 2
    MaxOpen = 1
    MaxSaves = 1
    ColumnNames = {"n", "m"}
    Cells = {"1", "2"}
    MAX_BIN = 2
    MaxRows = 3
    MaxCalls = 7
    MaxCrashes = 1
SYMMETRY NameSymmetry
INVARIANTS FilesTypeOK HandFilesAreRead
PROPERTIES ReadsWhatWasSaved Restores  
CHECK_DEADLOCK FALSE
