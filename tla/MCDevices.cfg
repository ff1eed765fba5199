\* The keyboard, the mouse, the interrupt controller or the hardware layer is active.
SPECIFICATION FairSpec
CONSTANTS
  Letters = {"a"}
  Others = {"1"}
  Mute = {"F1"}
  MaxDown = 3
  Width = 4
  Height = 3
  Heads = {8, 9, 10, 56, 73}
  Moves = {0, 1, 240}
  MaxLost = 2
  Machines <- MCMachines
  Ids = {0, 1, 2, 3}
  Slots = 4
  Word = 128
  Nano = 2
  Guess = 3
  InitWait = 7
  StartWait = 2
  FirstTsc = {0, 55}
  MaxStep = 2
INVARIANTS
  ClickPerPress
PROPERTIES
  EventsFollowKeys
  Resynchronises
  Drained
  AllStart
  RunningStays
CHECK_DEADLOCK FALSE
