\* The RAM file system, the path of the input, or a part of OS/Two is active.
SPECIFICATION MCSpec
CONSTANTS
  Typed <- MCTyped
  Filename <- MCFilename
  Contents <- MCContents
  MaxFiles = 2
  MaxFileSize = 3
  Terminals <- MCTerminals
  TwoScreen <- MCTwoScreen
INVARIANTS
  TypedIsRun
  EchoMatches
PROPERTIES
  ImplementsFileMap
  LineUnderstood
CHECK_DEADLOCK FALSE
