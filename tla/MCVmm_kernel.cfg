\* Memory runs out while a process is created.
SPECIFICATION Spec
CONSTANTS
  NumFrames = 5
  Entries = 8
  UserEntries = 7
  Kernel <- MCKernel
  Maps <- MCMaps
  KernelPD = 1
  FirstTable = 2
  MaxProcesses = 2
INVARIANT
  KernelFramesStayUsed
CHECK_DEADLOCK FALSE
