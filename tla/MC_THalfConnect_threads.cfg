\* Two threads probe at once and share the statics blah and curr_unique_val.
CONSTANTS
    Threads = {t1, t2}
    PID = 65534
    MaxCalls = 1
    Timeouts = {2}
    Ports = {80, 443}
    SrcAddr <- MCSrcAddr
    DstAddr <- MCDstAddr
    CrossPorts = {22}
    MaxCross = 0
    MaxDup = 0
    MaxQueue = 2
    SysCallsMayFail = FALSE
SPECIFICATION Spec
PROPERTY ProbeVerdictSound
