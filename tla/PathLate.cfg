SPECIFICATION FairSpec
CONSTANTS
    c1 = c1
    c2 = c2
    Clients <- MCClients
    NoClient = NoClient
    NoMessage = NoMessage
    Devices <- MCDevices
    RequestTimeout = 2
    MinDistance = 1
    MaxTimeouts = 2
    LateAnswers = TRUE
    Lines <- MCLateLines
    AnswerSizes <- MCLateSizes
    BusCapacity = 2
    MaxTyped = 1
    Dates <- MCNone
    Times <- MCNone
    RoomControllerType = "RC35"
    RawCommands <- MCNone
    MaxRequestRetries = 2
    Garbage <- MCGarbage
INVARIANT ResponseContiguous
PROPERTY SenderComesToRest
CHECK_DEADLOCK FALSE
