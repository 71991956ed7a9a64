SPECIFICATION Spec
CONSTANTS
  NPROC = 3
  NCPU = 1
  Nice <- MCNice
  DefaultNice = 1
  weights <- MCWeights
  VUnit = 2
  SliceTicks = 1
  Carry = 2
  Word = 5
  MaxHigh = 0
  MayBlock = TRUE
  ForkTicks = TRUE
INVARIANTS  RunsAtWeight
