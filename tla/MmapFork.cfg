SPECIFICATION Spec
CONSTANTS
  NPROC = 2
  Frames = {f1, f2, f3}
  NMAP = 2
  Base = 1
  Region = 2
  MaxMmap = 3
  MaxPid = 3
  Debt = 0
  Requests <- MCRequests
SYMMETRY AnyFrame
INVARIANT ForkWorks
