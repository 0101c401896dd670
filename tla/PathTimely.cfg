SPECIFICATION FairSpec
CONSTANTS
    c1 = c1
    c2 = c2
    Clients <- MCClients
    NoClient = NoClient
    NoMessage = NoMessage
    Devices <- MCDevices
    RequestTimeout = 2
    MinDistance = 1
    MaxTimeouts = 2
    LateAnswers = FALSE
    Lines <- MCLines
    AnswerSizes <- MCSizes
    BusCapacity = 2
    MaxTyped = 2
    Dates <- MCNone
    Times <- MCNone
    RoomControllerType = "RC35"
    RawCommands <- MCNone
    MaxRequestRetries = 2
    Garbage <- MCGarbage
INVARIANTS
    TypeOK
    ActiveIsServed
    AnswersReachTheirClient
PROPERTIES
    OkIsEarned
    TimeoutAfterAllAttempts
    CommandAnswered
CHECK_DEADLOCK FALSE
