SPECIFICATION FairSpec
CONSTANTS
  c0 = c0
  CPUs = {c0}
  Cpu0 = c0
  NoCpu = NoCpu
  NPROC = 3
  NTICKS = 1
  KillPids = {2, 3}
  MaxPid = 3
PROPERTIES
  
  InitReaps
