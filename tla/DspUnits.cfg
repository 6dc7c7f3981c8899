CONSTANTS
    Requests <- MCRequests
    Lsu1 = {TRUE, FALSE}
    BackOff = 1
    Boot <- MCBoot
    Zero <- MCOther
    Other <- MCOther
    Bundles <- MCBundles
    BurstCells = 0
    Word <- MCWord
SPECIFICATION UnitsSpec
PROPERTY ImplementsPackets
CHECK_DEADLOCK FALSE
