SPECIFICATION FairSpec
CONSTANTS
  Size = 4
  MaxEvents = 7
INVARIANTS
  TypeOK
  QueueHoldsNewest
PROPERTIES
  RefinesFifo
  Drains
CHECK_DEADLOCK FALSE
