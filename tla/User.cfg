SPECIFICATION Spec
CONSTANTS
  NPROC = 8  NINODES = 26  NFILE = 8  NOFILE = 6  NPIPE = 2  PIPESIZE = 2
  MAXFILE = 8  MaxWrite = 2  DIRSIZ = 14  PGSIZE = 2  Mem = 23  KERNBASE = 14
  StartSize = 3  StackRoom = 4  Rounds = 3  Workers = 2  BIG = 10  Hogs = 4
  Image <- MCImage
  MAXARGS = 10
  Commands <- MCCommands
  Programs <- MCPrograms
  Mains <- MCMains
INVARIANTS NoTestFails CountsExact  
