CONSTANTS
    Requests0 <- Stream0
    Requests1 <- NoTraffic
    BackOff = 2
    BootLen = 1
    DebugRequests <- OneBoot
    VgaOn = TRUE
    EthOn = TRUE
SPECIFICATION Spec
INVARIANTS BurstWordsOwn
