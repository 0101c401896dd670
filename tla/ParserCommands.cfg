SPECIFICATION PathSpec
CONSTANTS
    Dates <- MCDates
    Times <- MCTimes
    RoomControllerType = "RC35"
    RawCommands <- MCNoRaw
    MaxRequestRetries = 1
    Garbage <- MCGarbage
    Lines <- MCAllLines
    Pieces0 <- MCNoPieces
    MaxAsked = 1
    Caches <- MCCaches
    Tables <- MCTables
    Cuts <- MCCuts
INVARIANTS
    WritesAreReadable
    
    PiecesAgree
    ConsumersAgree
