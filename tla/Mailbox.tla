------------------------------- MODULE Mailbox -------------------------------
(***************************************************************************)
(* The message passing and barrier system calls of src/a2/sysproc.c:       *)
(* sys_send, sys_recv, sys_barrier_init and sys_barrier, for processes     *)
(* that may be killed.  Each body runs under kern.lock or bar.lock, which  *)
(* sleep() gives up in the same step in which the process falls asleep, so *)
(* a body up to its sleep is one step.                                     *)
(*                                                                         *)
(* recv and barrier sleep on the same channel, the process's own pid.      *)
(***************************************************************************)
EXTENDS Integers, Sequences, FiniteSets, FiniteSetsExt

CONSTANTS Procs,       \* the pids
          NoPid,       \* a slot's to_pids entry when it is free
          Msgs, Blank, \* message contents; what recv leaves in the slot
          NBUF,        \* num_message_buffers
          QSIZE,       \* max_queue_elements
          MaxPending,  \* bound: unreceived messages to one process
          Mortal,      \* the processes that may be killed
          MaxRounds    \* bound: barriers a process goes through

ASSUME MailboxConstants ==
  /\ IsFiniteSet(Procs) /\ Procs # {} /\ NoPid \notin Procs
  /\ Blank \notin Msgs
  /\ NBUF \in Nat \ {0} /\ QSIZE \in Nat \ {0}
  /\ MaxPending \in Nat
  /\ Mortal \subseteq Procs /\ MaxRounds \in Nat

Slots    == 0 .. NBUF - 1
NumProcs == Cardinality(Procs)     \* bar.num_procs, set by sys_barrier_init

VARIABLES
  to, buf,            \* kern.to_pids and kern.buffers
  queue,              \* the slots in kern.queue[pid] from kern.head to kern.tail
  waitq,              \* kern.wait_queue
  arrived, pids,      \* bar.arrived and bar.pids
  pc,                 \* what each process is doing
  killed,
  entered, passed     \* how often each process has called and left barrier

ipcVars == <<to, buf, queue, waitq>>
barVars == <<arrived, pids, entered, passed>>
vars    == <<ipcVars, barVars, pc, killed>>

Init ==
  /\ to = [i \in Slots |-> NoPid] /\ buf = [i \in Slots |-> Blank]
  /\ queue = [p \in Procs |-> << >>]
  /\ waitq = [p \in Procs |-> FALSE]
  /\ arrived = 0 /\ pids = [k \in 0 .. NumProcs - 1 |-> NoPid]
  /\ pc = [p \in Procs |-> "user"]
  /\ killed = [p \in Procs |-> FALSE]
  /\ entered = [p \in Procs |-> 0] /\ passed = [p \in Procs |-> 0]
-------------------------------------------------------------------------------
\* wakeup((void*)pid) for every pid of S: whoever sleeps on that channel runs.
WakeNobody(f, S) == f

Wake(f, S) ==
  [p \in Procs |->
     IF p \notin S THEN f[p]
     ELSE CASE f[p] = "recv_asleep" -> "recv"
            [] f[p] = "bar_asleep"  -> "bar_awake"
            [] OTHER                -> f[p]]

Free == {i \in Slots : to[i] = NoPid}

EnqueFront(s, i) == <<i>> \o s

\* enque: the ring is not tested for space, and once QSIZE entries are in it
\* head and tail meet and it looks empty.
Enque(s, i) == IF Len(s) + 1 = QSIZE THEN << >> ELSE Append(s, i)

SendNoWake(p, q, m) ==
  /\ pc[p] = "user" /\ ~killed[p]
  /\ Len(queue[q]) < MaxPending /\ Free # {}
  /\ LET i == Min(Free) IN
     /\ buf' = [buf EXCEPT ![i] = m]
     /\ to' = [to EXCEPT ![i] = q]
     /\ queue' = [queue EXCEPT ![q] = Enque(@, i)]
  /\ UNCHANGED <<waitq, barVars, pc, killed>>

\* sys_send: the first free slot, enque, and a wakeup if the receiver waits.
\* Without a free slot it returns -1 and changes nothing.
Send(p, q, m) ==
  /\ pc[p] = "user" /\ ~killed[p]
  /\ Len(queue[q]) < MaxPending /\ Free # {}
  /\ LET i == Min(Free) IN
     /\ buf' = [buf EXCEPT ![i] = m]
     /\ to' = [to EXCEPT ![i] = q]
     /\ queue' = [queue EXCEPT ![q] = Enque(@, i)]
  /\ waitq' = [waitq EXCEPT ![q] = FALSE]
  /\ pc' = IF waitq[q] THEN Wake(pc, {q}) ELSE pc
  /\ UNCHANGED <<barVars, killed>>

KeepSlot(i) == UNCHANGED <<to, buf>>

\* recv's release of a slot: the contents are spoilt and the slot is free.
FreeSlot(i) ==
  /\ to' = [to EXCEPT ![i] = NoPid]
  /\ buf' = [buf EXCEPT ![i] = Blank]

\* One turn of sys_recv's loop: deque a message, or wait.  The loop does not
\* look at killed.
Recv(p) ==
  /\ (pc[p] = "user" /\ ~killed[p]) \/ pc[p] = "recv"
  /\ IF queue[p] # << >>
     THEN /\ FreeSlot(Head(queue[p]))
          /\ queue' = [queue EXCEPT ![p] = Tail(@)]
          /\ pc' = [pc EXCEPT ![p] = "user"]
          /\ UNCHANGED waitq
     ELSE /\ waitq' = [waitq EXCEPT ![p] = TRUE]
          /\ pc' = [pc EXCEPT ![p] = "recv_asleep"]
          /\ UNCHANGED <<to, buf, queue>>
  /\ UNCHANGED <<barVars, killed>>

LastToArriveEarly == arrived + 1 >= NumProcs - 1

LastToArrive == arrived + 1 >= NumProcs

\* sys_barrier up to its sleep, or all of it for the last to arrive, which
\* also wakes the stale entry bar.pids[num_procs - 1].
Barrier(p) ==
  /\ pc[p] = "user" /\ ~killed[p] /\ entered[p] < MaxRounds
  /\ entered' = [entered EXCEPT ![p] = @ + 1]
  /\ IF LastToArrive
     THEN /\ arrived' = 0
          /\ pc' = Wake(pc, {pids[k] : k \in 0 .. NumProcs - 1})
          /\ passed' = [passed EXCEPT ![p] = @ + 1]
          /\ UNCHANGED pids
     ELSE /\ arrived' = arrived + 1
          /\ pids' = [pids EXCEPT ![arrived] = p]
          /\ pc' = [pc EXCEPT ![p] = "bar_asleep"]
          /\ UNCHANGED passed
  /\ UNCHANGED <<ipcVars, killed>>

\* The rest of sys_barrier after sleep() returned: there is no second look at
\* the count.  A killed process exits in trap() before its program goes on.
BarrierReturn(p) ==
  /\ pc[p] = "bar_awake"
  /\ pc' = [pc EXCEPT ![p] = "user"]
  /\ passed' = [passed EXCEPT ![p] = IF killed[p] THEN @ ELSE @ + 1]
  /\ UNCHANGED <<ipcVars, arrived, pids, entered, killed>>

\* kill() of another process: mark it and wake it whatever it waits for.
Kill(p) ==
  /\ p \in Mortal /\ ~killed[p] /\ pc[p] # "dead"
  /\ killed' = [killed EXCEPT ![p] = TRUE]
  /\ pc' = Wake(pc, {p})
  /\ UNCHANGED <<ipcVars, barVars>>

\* trap() makes a killed process exit when its system call returns.
Die(p) ==
  /\ pc[p] = "user" /\ killed[p]
  /\ pc' = [pc EXCEPT ![p] = "dead"]
  /\ UNCHANGED <<ipcVars, barVars, killed>>
-------------------------------------------------------------------------------
Next ==
  \E p \in Procs :
    \/ \E q \in Procs, m \in Msgs : Send(p, q, m)
    \/ Recv(p) \/ Barrier(p) \/ BarrierReturn(p)
    \/ Kill(p) \/ Die(p)

Spec == Init /\ [][Next]_vars

\* A process that has been woken inside recv or barrier runs again.
FairSpec ==
  Spec /\ \A p \in Procs :
            WF_vars(pc[p] = "recv" /\ Recv(p)) /\ WF_vars(BarrierReturn(p))
-------------------------------------------------------------------------------
\* No slot leaks and none is shared: a slot is in use for p exactly if it is
\* in p's queue, and it is there once.
SlotsAccounted ==
  \A p \in Procs :
    /\ {queue[p][k] : k \in 1 .. Len(queue[p])} = {i \in Slots : to[i] = p}
    /\ \A k, l \in 1 .. Len(queue[p]) : queue[p][k] = queue[p][l] => k = l

\* No message is slept through: whoever is asleep in recv has no message, and
\* the next sender will wake it.
SleeperHasNoMail ==
  \A p \in Procs : pc[p] = "recv_asleep" => queue[p] = << >> /\ waitq[p]

\* Nobody gets past a barrier before everybody has arrived at it, although
\* sleep is not called in a loop and recv and kill use the same channel.
BarrierHolds == \A p, q \in Procs : passed[p] <= entered[q]

IB == INSTANCE Inbox WITH
        inbox <- [p \in Procs |-> [k \in 1 .. Len(queue[p]) |-> buf[queue[p][k]]]]

\* The slot table, the per-process index queues and the wait flags together
\* behave as one first-in first-out inbox per process.
DeliversInOrder == IB!InboxSpec

\* When all have arrived, all get through: the last to arrive wakes everyone,
\* and nobody who has been woken falls asleep again.
BarrierOpens ==
  (\A q \in Procs : entered[q] >= 1) ~> (\A p \in Procs : passed[p] >= 1 \/ killed[p])
===============================================================================
