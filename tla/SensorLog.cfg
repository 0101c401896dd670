SPECIFICATION Spec
CONSTANTS
    Temp = Temp
    Pressure = Pressure
    Flame = Flame
    Low = Low
    High = High
    Sensors <- MCSensors
    TableOf <- MCTableOf
    Values <- MCValues
    None = None
    RateLimit = 2
    MaxTime = 3
    MaxRows = 3
    MaxRuns = 2
    MaxFaults = 1
INVARIANTS
    TypeOK
    OneValueAtATime
    NoHoles
    PageShowsLatest
PROPERTY HistoryKept
SYMMETRY ValuesAlike
CHECK_DEADLOCK FALSE
