SPECIFICATION FairSpec
CONSTANTS
  NPROC = 3
  NCPU = 1
  MaxPid = 3
  TickMod = 1
  SleepArgs = {}
  KillArgs = {2}
INVARIANTS ParentLives ZombieNoticed
PROPERTIES ReapedByParent EveryRunnableRuns 
