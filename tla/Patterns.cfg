SPECIFICATION Spec
CONSTANTS
    MaxCalls = 5
    MaxLongCalls = 12
    MaxPosition = 2
    Events = {e1, e2}
    Bytes = {1, 3, 5}
    MaxData = 3
    MaxDepth = 2
    SIZE_T = 65536
    MAX_ALIGN = 16
INVARIANTS
    HistoriesAndBuses
    ObjectsSound
CHECK_DEADLOCK FALSE
