SPECIFICATION DSpec
CONSTANTS
  BProcs = {p1, p2}
  Blocknos = {1, 2, 3}
  Contents = {0, 1}
  Blank = 0
  NBUF = 2
  MaxMarked = 1
  Writers = {w1, w2}
  Readers = {r1}
  PIPESIZE = 2
  Uint = 4
  Marks = 3
  MaxBytes = 3
  CProcs = {c1, c2}
  INPUT_BUF = 3
  CUint = 6
  Plain = {"x"}
  MaxRead = 2
INVARIANTS OneCopy HolderSeesLast InOrder SleepersWait
PROPERTIES SleepersWoken LineDiscipline
