CONSTANTS
    Requests0 <- Shared0
    Requests1 <- Shared1
    BackOff = 2
    BootLen = 3
    DebugRequests <- BootInTurnAndReads
    VgaOn = FALSE
    EthOn = FALSE
SPECIFICATION InTurnSpec
INVARIANTS AnswersOwn BurstWordsOwn LoadsOwn DebugReadsOwn WritesOwn
