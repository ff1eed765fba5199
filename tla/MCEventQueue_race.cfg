SPECIFICATION Spec
CONSTANTS
  Size = 4
  MaxEvents = 7
INVARIANT OnlyOldestDropped
CHECK_DEADLOCK FALSE
