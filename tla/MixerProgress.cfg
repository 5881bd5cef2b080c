SPECIFICATION FairSpec
CONSTANTS
    Target = {t1}
    Muxid = {m1}
    MaxSock = 4
    MaxClient = 2
    MaxRequest = 2
    MaxChannel = 2
    MaxExtra = 0
    MaxBatch = 1
    ReplyChunks = 2
    MaxPwfail = 1
    Ops = {"rpc", "hostkey", "psword", "decline"}
    Faults = {"connect", "handshake"}
    AuthMethods = {"password"}
    KnownHosts = {}
    SavePassword = {t1}
PROPERTIES
    EveryRequestAnswered
