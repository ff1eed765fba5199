\* Two shell commands, processes that create and exit, memory that may run out.
SPECIFICATION FairSpec
CONSTANTS
  MaxProcesses = 4
  TimeSlice = 1
  CommandSizes = {3}
  CreateMayFail = TRUE
  ProcessesCreate = TRUE
  Exits = {"hook", "case"}
  MaxCommands = 2
  MaxPid = 6
INVARIANTS
  TypeOK
  RunningIsCurrent
  UniquePids
  NoDanglingParent
  ChildrenCounted
  FaultsExplained
PROPERTIES
  AlignedRoundRobin
CHECK_DEADLOCK FALSE
