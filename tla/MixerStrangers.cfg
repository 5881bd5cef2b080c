SPECIFICATION Spec
CONSTANTS
    Target = {t1}
    Muxid = {m1}
    MaxSock = 4
    MaxClient = 3
    MaxRequest = 2
    MaxChannel = 2
    MaxExtra = 1
    MaxBatch = 1
    ReplyChunks = 1
    MaxPwfail = 0
    Ops = {"rpc", "data", "error", "nocreate"}
    Faults = {"reset"}
    AuthMethods = {"agent"}
    KnownHosts = {t1}
    SavePassword = {}
INVARIANTS
    CompleteIsFinal
    CompletedWereMade
CHECK_DEADLOCK FALSE
