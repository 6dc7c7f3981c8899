CONSTANTS
    Regs <- TwoRegs
    Stages <- PcuDec
    EditedRegs <- EditAcc
    LDM_SIZE = 1
    Words = {0, 1}
    RegValues <- OneBit
    WordValues = 2
    Entered = {1, 2}
    Cycles <- Pipelined
    RunLengths = {2}
    LinenoFiles <- Files
    Lines = 2
    Users <- PatientAndHasty
SPECIFICATION Spec
INVARIANTS ViewsShowDesign RunsExactly
PROPERTIES StopsWhenAsked QuitEnds
CHECK_DEADLOCK FALSE
