SPECIFICATION Spec
CONSTANTS
  NPROC = 3
  NCPU = 1
  Nice <- MCNice
  DefaultNice = 1
  weights <- MCWeights
  VUnit = 2
  SliceTicks = 3
  Carry = 10
  Word = 43
  MaxHigh = 2
  MayBlock = FALSE
  ForkTicks = FALSE
INVARIANTS Spread 
