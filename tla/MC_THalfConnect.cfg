\* One thread, two calls: the second call's token passes through 0 (PID
\* 65534), late and duplicated replies of the first call reach the second,
\* and unrelated traffic arrives on a port no token takes.
CONSTANTS
    Threads = {t1}
    PID = 65534
    MaxCalls = 2
    Timeouts = {0, 2}
    Ports = {80, 443}
    SrcAddr <- MCSrcAddr
    DstAddr <- MCDstAddr
    CrossPorts = {22}
    MaxCross = 1
    MaxDup = 1
    MaxQueue = 2
    SysCallsMayFail = TRUE
SPECIFICATION Spec
INVARIANT TypeOK
INVARIANT SynChecksumValid
INVARIANT SocketsReleased
PROPERTY ProbeVerdictSound
PROPERTY ProbeTerminates
