------------------------------ MODULE AtomicDisk ------------------------------
(***************************************************************************)
(* What the logging layer of the file system promises its callers          *)
(* (src/xv6A1/log.c): the updates of the system calls that ran together    *)
(* reach the disk all at once or not at all, whenever the machine stops.   *)
(***************************************************************************)
CONSTANTS Procs,      \* processes that make file system calls
          Blocks,     \* blocks of the file system proper
          Vals,       \* what a block may contain
          InitVal     \* what every block contains at first

VARIABLES current,    \* the contents the running system sees
          durable,    \* the contents a restart would bring back
          active      \* the processes inside a file system call

avars == <<current, durable, active>>

AInit ==
  /\ current = [b \in Blocks |-> InitVal]
  /\ durable = [b \in Blocks |-> InitVal]
  /\ active = {}

Start(p) ==
  /\ p \notin active
  /\ active' = active \cup {p}
  /\ UNCHANGED <<current, durable>>

Put(p, b, v) ==
  /\ p \in active
  /\ current' = [current EXCEPT ![b] = v]
  /\ UNCHANGED <<durable, active>>

Finish(p) ==
  /\ p \in active
  /\ active' = active \ {p}
  /\ UNCHANGED <<current, durable>>

\* Everything written so far becomes durable in one step, and never while a
\* call is half done.
CommitAll ==
  /\ active = {}
  /\ durable' = current
  /\ UNCHANGED <<current, active>>

\* The machine stops: what was not durable is gone.
PowerFail ==
  /\ current' = durable
  /\ active' = {}
  /\ UNCHANGED durable

ANext ==
  \/ \E p \in Procs : Start(p) \/ Finish(p)
  \/ \E p \in Procs, b \in Blocks, v \in Vals : Put(p, b, v)
  \/ CommitAll
  \/ PowerFail

ASpec == AInit /\ [][ANext]_avars
===============================================================================
