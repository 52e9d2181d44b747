CONSTANTS
    View = {"eventTable", "faultTable", "reportTable"}
    Filter = {{}, {1, 2}}
    Stored <- StoredRows
    MaxCalls = 3
    MaxWrites = 2
    MaxPresses = 1
SPECIFICATION MCSpec
INVARIANTS TypeOK ActsAsShown
PROPERTIES NewerStays ViewCatchesUp
CHECK_DEADLOCK FALSE
