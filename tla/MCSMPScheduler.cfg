\* Threads are created, requeued, stolen, blocked, woken and changed.
SPECIFICATION Spec
CONSTANTS
  t1 = t1
  t2 = t2
  t3 = t3
  CPUs <- TwoCPUs
  Node <- MCNode
  Threads = {t1, t2, t3}
  Requests <- MCRequests
  MaskBits = 3
  Masks <- MCMasks
CONSTRAINT NotTwice
SYMMETRY Symmetric
INVARIANTS
  QueuedOnce
  ReadyIsQueued
  QueueSummary
  RunsExclusively
