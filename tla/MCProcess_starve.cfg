\* Memory runs out while a process is created.
SPECIFICATION FairSpec
CONSTANTS
  MaxProcesses = 8
  TimeSlice = 2
  CommandSizes = {3}
  CreateMayFail = TRUE
  ProcessesCreate = FALSE
  Exits = {}
  MaxCommands = 2
  MaxPid = 6
PROPERTY
  RoundRobin
CHECK_DEADLOCK FALSE
