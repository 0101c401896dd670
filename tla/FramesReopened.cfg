SPECIFICATION FairSpec
CONSTANTS
    Xor8 <- MCXor
    RECV_BUF_SIZE = 4
    TRANSMIT_BUF_SIZE = 11
    BusFrames <- MCPlainFrames
    MayClose = TRUE
    LineCapacity = 2
INVARIANT NeverForged
PROPERTY Resynchronises
