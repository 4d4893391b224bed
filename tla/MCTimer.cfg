SPECIFICATION Spec
CONSTANTS
    Timeouts = {0, 2, 7}
    Width = 8
INVARIANTS TypeOK
PROPERTIES  Ends
