SPECIFICATION SSpec
CONSTANTS
  Procs = {l1, l2}
  InitProc = l1
  NoBlock = 0
  InitVal = 0
  Blocks = {1, 2}
  Vals = {0, 1}
  MAXOPBLOCKS = 4
  OPBLOCKS = 2
  LOGSIZE = 8
  NLOG = 8
  Users = {p1, p2}
  NoProc = NoProc
  Sectors = {b1, b2, b3, b4}
  NoSector = NoSector
  Values = {0, 1}
  Blank = 0
  NBUF = 3
  MaxPinned = 1
SYMMETRY Symmetry
INVARIANTS
  UnwrittenIsPinned
  SleeperHasWaker
  
PROPERTIES
  WriteAhead
  CrashAtomic
  OneCopyOfEachBlock
