CONSTANTS
    Requests <- AllRequests
    Lsu1 = {TRUE, FALSE}
    BackOff = 2
    Boot <- MCBoot
    Zero = Zero
    Other = Other
SPECIFICATION PrudentSpec
INVARIANTS TypeOK LoadGetsItsWord NoStrayAck Handshake
PROPERTY CoreAdvances
