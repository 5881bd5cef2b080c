SPECIFICATION FairSpec
CONSTANTS
    Target = {t1}
    Muxid = {m1}
    MaxSock = 4
    MaxClient = 1
    MaxRequest = 2
    MaxChannel = 2
    MaxExtra = 0
    MaxBatch = 1
    ReplyChunks = 1
    MaxPwfail = 0
    Ops = {"rpc"}
    Faults = {"down"}
    AuthMethods = {"agent"}
    KnownHosts = {t1}
    SavePassword = {}
PROPERTY
    EveryRequestAnswered
CHECK_DEADLOCK FALSE
