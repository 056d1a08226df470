\* Whether every verdict leaves the socket in its original blocking mode.
CONSTANTS
    Timeouts <- MCTimeouts
    Peers = {"listening", "refusing", "silent", "unroutable"}
    SysConnectTimeout = 3
    MaxSignals = 1
    SyncErrors = {"ECONNREFUSED", "ENETUNREACH"}
    LenOutcomes = {"valid"}
    FcntlMayFail = TRUE
    SelectMayFail = TRUE
    SelectUpdatesTimeout = TRUE
SPECIFICATION Spec
PROPERTY ModeRestoredOnReturn
