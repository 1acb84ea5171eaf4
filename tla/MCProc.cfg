SPECIFICATION Spec
CONSTANTS
  c0 = c0
  c1 = c1
  CPUs = {c0, c1}
  Cpu0 = c0
  NoCpu = NoCpu
  NPROC = 4
  NTICKS = 1
  KillPids = {2, 3}
  MaxPid = 4
INVARIANTS
  StackOwned
  WaiterHasLiveChild
  ParentCanWait
  NoMissedTick
