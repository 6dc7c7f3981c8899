CONSTANTS
    Programs <- AllPrograms
    ImemSize = 256
    MaxPackets = 200
    DmemSize = 16
    BusBytes = 1
    ReadSizes = {4}
    Garbage <- OneWord
    ResetCtrl = 4100
SPECIFICATION Spec
INVARIANTS RunsAsWritten LabelsHold DisasmNames BootsLoadedProgram WritesInRange
    CompiledRuns FramesKept
PROPERTIES DumpShowsMemory CommandsEnd
CHECK_DEADLOCK FALSE
