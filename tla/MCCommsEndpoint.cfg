SPECIFICATION Spec
CONSTANTS
    Programs <- AllPrograms
    MaxCalls = 3
    MaxMsg = 1
INVARIANTS TypeOK CloseEnds  
PROPERTIES  CallsReturn DataHeard FailedInitStops
CHECK_DEADLOCK FALSE
