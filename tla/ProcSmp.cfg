SPECIFICATION Spec
CONSTANTS
  NPROC = 2
  NCPU = 2
  MaxPid = 3
  TickMod = 2
  SleepArgs = {1}
  KillArgs = {1, 2, 3}
INVARIANTS StackNotFreed Dispatch KillNotMissedInWait TickNotMissed
