SPECIFICATION Spec
CONSTANTS
    Target = {t1}
    Muxid = {m1}
    MaxSock = 4
    MaxClient = 2
    MaxRequest = 2
    MaxChannel = 2
    MaxExtra = 0
    MaxBatch = 1
    ReplyChunks = 1
    MaxPwfail = 1
    Ops = {"rpc", "authinit", "hostkey", "psphrase", "psword", "decline", "empty"}
    Faults = {"close"}
    AuthMethods = {"keyfile", "password"}
    KnownHosts = {}
    SavePassword = {}
INVARIANTS
    TypeOK
    NoCredentialsBeforeTrust
    EstablishedIsAuthenticated
    StatesAgree
    PasswordAttemptsBounded
CHECK_DEADLOCK FALSE
