------------------------------- MODULE MCStorage -------------------------------
(* The two layers between a file system call and the disk, for TLC: the log, *)
(* on two blocks and with crashes, or the buffer cache with its locks and the *)
(* disk queue.  A behaviour is about one of the two.                          *)
EXTENDS Log, BufferCache, TLC

VARIABLE layer  \* "log" or "cache"

SInit == Init /\ CacheInit /\ layer \in {"log", "cache"}
SNext == \/ layer = "log" /\ Next /\ UNCHANGED <<cacheVars, layer>>
         \/ layer = "cache" /\ CacheNext /\ UNCHANGED <<vars, layer>>
SSpec == SInit /\ [][SNext]_<<vars, cacheVars, layer>>

\* The cache's processes are alike, and so are its blocks; no liveness is checked.
Symmetry == Permutations(Users) \cup Permutations(Sectors)
===============================================================================
