SPECIFICATION FairSpec
CONSTANTS
  Procs = {p1, p2}
  Blocks = {b1, b2, b3}
  Vals = {0, 1}
  InitVal = 0
  MAXOPBLOCKS = 1
  LOGSIZE = 3
  LogBlocks = 3
  MaxCrashes = 2
INVARIANTS CommitAlone SleepersMustWait RoomReserved QuietMeansDurable
PROPERTIES Atomic 
