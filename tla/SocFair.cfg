CONSTANTS
    Requests0 <- Load0
    Requests1 <- NoTraffic
    BackOff = 2
    BootLen = 1
    DebugRequests <- OneBoot
    VgaOn = TRUE
    EthOn = FALSE
SPECIFICATION FairSpec
PROPERTIES CoreServed DebugServed
