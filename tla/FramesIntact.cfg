SPECIFICATION FairSpec
CONSTANTS
    Xor8 <- MCXor
    RECV_BUF_SIZE = 4
    TRANSMIT_BUF_SIZE = 13
    BusFrames <- MCTrickyFrames
    MayClose = FALSE
    LineCapacity = 2
INVARIANTS
    TypeOK
    NothingOverwritten
PROPERTIES
    DeliveredInOrder
    FramesKeepFlowing
