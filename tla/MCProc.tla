-------------------------------- MODULE MCProc --------------------------------
(* A process table of three or four slots and one or two CPUs, for TLC. *)
EXTENDS Proc
===============================================================================
