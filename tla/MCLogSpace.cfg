SPECIFICATION FairSpec
CONSTANTS
  p1 = p1
  p2 = p2
  p3 = p3
  Procs = {p1, p2, p3}
  InitProc = p1
  NoBlock = 0
  InitVal = 0
  Blocks = {1, 2, 3, 4, 5}
  Vals = {0}
  MAXOPBLOCKS = 3
  OPBLOCKS = 1
  LOGSIZE = 6
  NLOG = 6
INVARIANTS
  
  CommitAlone
PROPERTIES
  SleeperWakes
