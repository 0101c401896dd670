SPECIFICATION Spec
CONSTANTS
    Dates <- MCDates
    Times <- MCTimes
    RoomControllerType = "RC30"
    RawCommands <- MCRaw
    MaxRequestRetries = 2
    Garbage <- MCGarbage
    Lines <- MCLines
    Pieces0 <- MCPieces
    MaxAsked = 3
INVARIANTS
    TypeOK
    ResponseContiguous
    RequestInSync
    AttemptsBounded
    BusyMeansAwaiting
