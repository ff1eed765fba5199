\* os2loader on files with code and data.
SPECIFICATION MCSpec
CONSTANTS
  Variants = {"loader"}
  Align = 2
  PageSize = 2
  DataOffset = 1
  Word = 16
  Files <- MCFiles
  Flags = {{"R", "W"}, {"R", "X"}}
  MaxHandles = 5
  MaxFds = 5
  Names = {"a"}
  Asked = {"READONLY", "WRITEONLY"}
  Tools = {"newcode", "analyzer"}
  Tables <- MCTables
  Slots = 2
  Longest = 3
INVARIANTS
  LoaderCopies
CHECK_DEADLOCK FALSE
