CONSTANTS
  W = 2
  Ops = {"BKREP", "JUMP_ABS", "RETI", "EINT"}
  Targets = {4}
  BundleLengths = {1}
  RepeatCounts = {1}
SPECIFICATION DisciplinedSpec
PROPERTY ImplementsFlow
CHECK_DEADLOCK FALSE
