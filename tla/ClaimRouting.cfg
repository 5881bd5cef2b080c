SPECIFICATION Spec
CONSTANTS
    Target = {t1}
    Muxid = {m1}
    MaxSock = 3
    MaxClient = 2
    MaxRequest = 2
    MaxChannel = 2
    MaxExtra = 0
    MaxBatch = 1
    ReplyChunks = 1
    MaxPwfail = 1
    Ops = {"rpc"}
    Faults = {"close"}
    AuthMethods = {"agent"}
    KnownHosts = {t1}
    SavePassword = {}
INVARIANT
    ResultsAreTheRequests
CHECK_DEADLOCK FALSE
