SPECIFICATION Spec
CONSTANTS
    c1 = c1
    Connections <- MCConnections
    Mqtt = Mqtt
    NoClient = NoClient
    NoMessage = NoMessage
    Devices <- MCDevices
    RequestTimeout = 1
    MinDistance = 0
    MaxTimeouts = 2
    MinRetryDelay = 5
    MaxRetryDelay = 15
    Lines <- MCLines
    AnswerSizes <- MCSizes
    MaxTyped = 1
    MaxReceived = 3
    MaxOutages = 3
    Dates <- MCNone
    Times <- MCNone
    RoomControllerType = "RC35"
    RawCommands <- MCNone
    MaxRequestRetries = 2
    Garbage <- MCGarbage
INVARIANTS
    WaitsForAReason
    RetryPending
PROPERTIES
    
    OkIsEarned
CHECK_DEADLOCK FALSE
