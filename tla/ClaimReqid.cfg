SPECIFICATION Spec
CONSTANTS
    Target = {t1}
    Muxid = {m1, m2}
    MaxSock = 4
    MaxClient = 1
    MaxRequest = 2
    MaxChannel = 2
    MaxExtra = 1
    MaxBatch = 2
    ReplyChunks = 1
    MaxPwfail = 1
    Ops = {"rpc", "psword", "data"}
    Faults = {}
    AuthMethods = {"password"}
    KnownHosts = {t1}
    SavePassword = {}
INVARIANT
    MuxidFindsRequest
CHECK_DEADLOCK FALSE
