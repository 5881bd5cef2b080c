SPECIFICATION FairSpec
CONSTANTS
    MaxRpc = 2
    MaxSocket = 2
    MaxData = 1
    MaxReply = 1
    FrameLen = 3
    MaxPiece = 4
    Losses = TRUE
INVARIANTS
    TypeOK
    OneEnd
    
    AuthFirst
PROPERTIES
    EverySentIsTold
    ImplementsService
CHECK_DEADLOCK FALSE
