SPECIFICATION Spec
CONSTANTS
    Target = {t1}
    Muxid = {m1}
    MaxSock = 4
    MaxClient = 2
    MaxRequest = 2
    MaxChannel = 2
    MaxExtra = 0
    MaxBatch = 1
    ReplyChunks = 2
    MaxPwfail = 1
    Ops = {"rpc"}
    Faults = {"connect", "handshake", "channel", "write", "close", "down", "eof"}
    AuthMethods = {"agent"}
    KnownHosts = {t1}
    SavePassword = {}
INVARIANTS
    ChannelCarriesItsRequest
    ReplyRouting
    CompleteIsWhole
    
CHECK_DEADLOCK FALSE
