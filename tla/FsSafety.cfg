SPECIFICATION Spec
CONSTANTS
  NPROC = 2
  NINODES = 3
  Names = {"a", "b"}
  Programs <- MCPrograms
  NOFILE = 2
  NFILE = 1
CHECK_DEADLOCK FALSE
INVARIANTS RefCounts OpenAllocated LinksCovered TreeShape CirclesNeedIput
