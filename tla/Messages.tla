------------------------------- MODULE Messages -------------------------------
(***************************************************************************)
(* The message calls of assignment 1: sys_send and sys_recv of             *)
(* src/xv6A1/sysproc.c, one table of slots and a waiting flag per process, *)
(* under buf.memLock.  A body up to its sleep is one step.  The array      *)
(* wait_msgs is written by send and recv and read by nobody; it is left    *)
(* out.                                                                    *)
(***************************************************************************)
EXTENDS Naturals, FiniteSets, FiniteSetsExt

CONSTANTS Users, NoProc, \* the processes; the dest entry of a free slot
          Texts,         \* messages
          MSG_SP,        \* slots of the table
          Doomed         \* the processes that may be killed

ASSUME MessagesConstants == NoProc \notin Users

VARIABLES dest, msgs,    \* buf.dest (NoProc: free) and buf.msgs
          waiting,       \* buf.waiting
          memLock,       \* the process that has kept buf.memLock, or NoProc
          doing,         \* what each process is doing
          got            \* what its last recv stored in the caller's buffer

msgVars == <<dest, msgs, waiting, memLock, doing, got>>

Table == 0 .. MSG_SP - 1

MsgInit ==
  /\ dest = [i \in Table |-> NoProc] /\ msgs = [i \in Table |-> "blank"]
  /\ waiting = [p \in Users |-> FALSE]
  /\ memLock = NoProc
  /\ doing = [p \in Users |-> "user"]
  /\ got = [p \in Users |-> "not called"]
-------------------------------------------------------------------------------
Awoken(p) == [doing EXCEPT ![p] = IF @ = "asleep" THEN "awake" ELSE @]

Vacant == {i \in Table : dest[i] = NoProc}

\* The message goes to the first free slot.  Without one the call returns -1
\* and keeps the lock, so that every later call spins (and the next switch of
\* that CPU panics, "sched locks").
Store(p, q, m) ==
  /\ IF Vacant # {}
     THEN /\ dest' = [dest EXCEPT ![Min(Vacant)] = q]
          /\ msgs' = [msgs EXCEPT ![Min(Vacant)] = m]
          /\ UNCHANGED memLock
     ELSE memLock' = p /\ UNCHANGED <<dest, msgs>>
  /\ UNCHANGED <<waiting, doing, got>>

SysSendBlind(p, q, m) ==
  doing[p] = "user" /\ memLock = NoProc /\ Store(p, q, m)

\* A waiting receiver is woken; the message is not put into the table.
SysSend(p, q, m) ==
  /\ doing[p] = "user" /\ memLock = NoProc
  /\ IF waiting[q]
     THEN /\ waiting' = [waiting EXCEPT ![q] = FALSE]
          /\ doing' = Awoken(q)
          /\ UNCHANGED <<dest, msgs, memLock, got>>
     ELSE Store(p, q, m)

\* The first slot with a message for the caller, or sleep.
SysRecv(p) ==
  LET mine == {i \in Table : dest[i] = p} IN
  /\ doing[p] = "user" /\ memLock = NoProc
  /\ IF mine # {}
     THEN /\ got' = [got EXCEPT ![p] = msgs[Min(mine)]]
          /\ dest' = [dest EXCEPT ![Min(mine)] = NoProc]
          /\ msgs' = [msgs EXCEPT ![Min(mine)] = "blank"]
          /\ UNCHANGED <<waiting, doing>>
     ELSE /\ waiting' = [waiting EXCEPT ![p] = TRUE]
          /\ doing' = [doing EXCEPT ![p] = "asleep"]
          /\ UNCHANGED <<dest, msgs, got>>
  /\ UNCHANGED memLock

\* After sleep recv returns 0; it copies nothing.  A killed process exits
\* before its program goes on.
RecvReturns(p) ==
  /\ doing[p] = "awake" /\ memLock = NoProc
  /\ doing' = [doing EXCEPT ![p] = "user"]
  /\ got' = [got EXCEPT ![p] = "unchanged"]
  /\ UNCHANGED <<dest, msgs, waiting, memLock>>

\* kill() wakes a sleeper, which exits when its call returns; its flag stays.
KillReceiver(p) ==
  /\ p \in Doomed /\ doing[p] # "gone"
  /\ doing[p] \in {"asleep", "awake"} => memLock = NoProc
  /\ doing' = [doing EXCEPT ![p] = "gone"]
  /\ UNCHANGED <<dest, msgs, waiting, memLock, got>>

MsgStep(p) ==
  \/ \E q \in Users, m \in Texts : SysSend(p, q, m)
  \/ SysRecv(p) \/ RecvReturns(p) \/ KillReceiver(p)

MsgNext == \E p \in Users : MsgStep(p)

MsgSpec == MsgInit /\ [][MsgNext]_msgVars
-------------------------------------------------------------------------------
\* sys_send, sys_recv: whoever sleeps in recv has its flag set and nothing in
\* the table, so that the next send to it wakes it: no send slips between the
\* scan of the table and the sleep, and no wakeup goes to another process.
WaiterIsFlagged ==
  \A p \in Users : doing[p] = "asleep" => waiting[p] /\ \A i \in Table : dest[i] # p

\* A recv that returns 0 has stored a message: the loop of
\* check_scripts/assig1_7.c ends with the first return other than -1 and prints
\* what was received.
RecvReturnsMessage == \A p \in Users : got[p] # "unchanged"
===============================================================================
