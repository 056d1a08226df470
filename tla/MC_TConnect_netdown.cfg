\* connect() may fail synchronously with ENETDOWN, which
\* getSocketSysGenericError classes with EINPROGRESS.
CONSTANTS
    Timeouts <- MCTimeouts
    Peers = {"listening", "refusing", "silent", "unroutable"}
    SysConnectTimeout = 3
    MaxSignals = 1
    SyncErrors = {"ECONNREFUSED", "ENETUNREACH", "ENETDOWN"}
    LenOutcomes = {"valid"}
    FcntlMayFail = TRUE
    SelectMayFail = TRUE
    SelectUpdatesTimeout = TRUE
SPECIFICATION Spec
PROPERTY VerdictMatchesConnection
