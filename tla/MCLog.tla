-------------------------------- MODULE MCLog --------------------------------
(* The log on a small disk, for TLC: the use of the log's space, where the   *)
(* contents of blocks do not matter.  MCStorage has the contents and crashes. *)
EXTENDS Log
===============================================================================
