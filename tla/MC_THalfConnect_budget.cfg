\* The first call times out; its late reply reaches the second call.
CONSTANTS
    Threads = {t1}
    PID = 65534
    MaxCalls = 2
    Timeouts = {2}
    Ports = {80, 443}
    SrcAddr <- MCSrcAddr
    DstAddr <- MCDstAddr
    CrossPorts = {22}
    MaxCross = 0
    MaxDup = 0
    MaxQueue = 2
    SysCallsMayFail = FALSE
SPECIFICATION Spec
PROPERTY ProbeWithinBudget
