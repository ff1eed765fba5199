SPECIFICATION Spec
CONSTANTS
  MaxPages = 8
  LowPages = 1
  PageSize = 2
  AddrSpace = 40
  Mmaps <- McMmaps
  KernelEnds <- McKernelEnds
  MarkRegions <- McMarks
  MarksAboveTotal = FALSE
INVARIANTS
  TypeOK
  UsedAccounting
  HeldFramesAreUsed
  NoForeignFrame
  FirstFit
