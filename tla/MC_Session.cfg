\* tconnect on Linux, with getsockopt given a usable len and no
\* synchronous ENETDOWN: every path of the call, signals and failing
\* fcntl/select included.  After SUCCESS a 3-byte request is written and a
\* 3-byte reply read; the peer replies with 2 or 3 bytes in any segments.
CONSTANTS
    Timeouts <- MCTimeouts
    Peers = {"listening", "refusing", "silent", "unroutable"}
    SysConnectTimeout = 3
    MaxSignals = 1
    SyncErrors = {"ECONNREFUSED", "ENETUNREACH"}
    LenOutcomes = {"valid"}
    FcntlMayFail = TRUE
    SelectMayFail = TRUE
    SelectUpdatesTimeout = TRUE
    WriteLen = 3
    ReadLen = 3
    ReplyLens = {2, 3}
    MaxIoSignals = 1
    HostAnswers <- MCHostAnswers
    BufSizes = {0, 15, 16}
SPECIFICATION SessionSpec
INVARIANT WritenSendsInOrder
INVARIANT ReadnFillsPrefix
INVARIANT ResolvedStringMatches
PROPERTY VerdictMatchesConnection
PROPERTY ModeRestoredOnSuccess
PROPERTY ReturnsWithinBudget
PROPERTY ConnectReturns
PROPERTY ReadnReturns
