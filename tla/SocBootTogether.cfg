CONSTANTS
    Requests0 <- NoTraffic
    Requests1 <- NoTraffic
    BackOff = 2
    BootLen = 4
    DebugRequests <- BootTogether
    VgaOn = FALSE
    EthOn = FALSE
SPECIFICATION Spec
INVARIANT BurstWordsOwn
