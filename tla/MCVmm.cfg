\* Two processes; memory suffices under some maps and runs out under others.
SPECIFICATION Spec
CONSTANTS
  NumFrames = 14
  Entries = 12
  UserEntries = 11
  Kernel <- MCKernel
  Maps <- MCMaps
  KernelPD = 1
  FirstTable = 2
  MaxProcesses = 2
INVARIANTS
  FramesAccounted
  IdentityEverywhere
  StackIsPrivate
  DirectoryRestored
CHECK_DEADLOCK FALSE
