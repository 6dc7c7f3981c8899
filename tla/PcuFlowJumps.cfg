CONSTANTS
  W = 2
  Ops = {"CALL_ABS", "RETS", "RETI", "EINT", "DINT"}
  Targets = {4, 7}
  BundleLengths = {1, 2}
  RepeatCounts = {}
SPECIFICATION DisciplinedSpec
INVARIANTS PcuTypeOK AckIsAccepted JumpShadow
PROPERTY ImplementsFlow
CHECK_DEADLOCK FALSE
