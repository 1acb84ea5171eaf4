SPECIFICATION MSpec
CONSTANTS
  p1 = p1
  p2 = p2
  p3 = p3
  Procs = {p1, p2, p3}
  NoPid = NoPid
  m1 = m1
  m2 = m2
  Msgs = {m1, m2}
  Blank = Blank
  NBUF = 2
  QSIZE = 3
  MaxPending = 2
  Mortal = {p3}
  MaxRounds = 2
  Users = {1, 2, 3}
  NoProc = 0
  Texts = {m}
  MSG_SP = 2
  Doomed = {3}
  NPROC = 2
  Contents = {"m", "none"}
  None = "none"
  STEPS = 2
INVARIANTS
  WaiterIsFlagged
  
  GrantedInOrder
  BordersFresh
  
  SleeperHasNoMail
  BarrierHolds
PROPERTIES
  
  
  BarrierOpens
CHECK_DEADLOCK FALSE
