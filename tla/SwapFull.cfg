SPECIFICATION Spec
CONSTANTS
  NPROC = 3
  NFRAME = 6
  Image = 2
  MaxSize = 3
  MaxCalls = 5
INVARIANT SwapsOut
