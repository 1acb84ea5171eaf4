--------------------------------- MODULE Proc ---------------------------------
(***************************************************************************)
(* Processes and processors, src/xv6A1/proc.c with the parts of trap.c and *)
(* sysproc.c that drive it: fork, exit, wait, kill, sys_sleep, yield, the  *)
(* timer interrupt and one scheduler loop per CPU.                         *)
(*                                                                         *)
(* ptable.lock is held across swtch, from the process that gives up the    *)
(* CPU to the scheduler and from the scheduler to the next process, so the *)
(* two spinlocks are state; a section that takes and releases a lock       *)
(* without switching is one step.                                          *)
(***************************************************************************)
EXTENDS Integers, FiniteSets, FiniteSetsExt

CONSTANTS NPROC,      \* slots of ptable.proc; slot 0 is initproc
          CPUs,       \* processors
          Cpu0,       \* the one whose timer counts ticks
          NoCpu,      \* "lock is free"
          NTICKS,     \* argument of sys_sleep
          KillPids,   \* arguments of sys_kill
          MaxPid      \* bound: no fork once this many pids were given out

ASSUME ProcConstants ==
  /\ NPROC \in Nat \ {0} /\ MaxPid \in Nat /\ NTICKS \in Nat \ {0}
  /\ Cpu0 \in CPUs /\ NoCpu \notin CPUs
  /\ KillPids \subseteq Nat \ {1}    \* killing init panics

Slots    == 0 .. NPROC - 1
InitSlot == 0
NoSlot   == -1          \* a null struct proc*, a null chan
Ticks    == NPROC       \* the sleep channel &ticks; a wait sleeps on its slot

VARIABLES
  state, pid, parent, killed, chan,   \* struct proc
  where,      \* what a process does when it next runs
  child,      \* fork's np
  due,        \* sys_sleep's n - (ticks - ticks0), never below zero
  cpu,        \* c->proc of each CPU
  mode,       \* what each CPU does
  pos,        \* the scheduler's loop position on each CPU
  ptlock,     \* holder of ptable.lock
  tickslock,  \* holder of tickslock
  nextpid

slotVars  == <<state, pid, parent, killed, chan, where, child, due>>
cpuVars   == <<cpu, mode, pos>>
lockVars  == <<ptlock, tickslock>>
vars      == <<slotVars, cpuVars, lockVars, nextpid>>

Init ==
  /\ state = [s \in Slots |-> IF s = InitSlot THEN "RUNNABLE" ELSE "UNUSED"]
  /\ pid = [s \in Slots |-> IF s = InitSlot THEN 1 ELSE 0]
  /\ nextpid = 2
  /\ parent = [s \in Slots |-> NoSlot]
  /\ killed = [s \in Slots |-> FALSE]
  /\ chan = [s \in Slots |-> NoSlot]
  /\ where = [s \in Slots |-> "user"]
  /\ child = [s \in Slots |-> NoSlot]
  /\ due = [s \in Slots |-> 0]
  /\ cpu = [c \in CPUs |-> NoSlot]
  /\ mode = [c \in CPUs |-> "idle"]
  /\ pos = [c \in CPUs |-> 0]
  /\ ptlock = NoCpu /\ tickslock = NoCpu
-------------------------------------------------------------------------------
(* wakeup1: everyone asleep on a channel becomes runnable. *)

Woken(st, ch) ==
  [s \in Slots |-> IF st[s] = "SLEEPING" /\ chan[s] = ch THEN "RUNNABLE" ELSE st[s]]

\* The process a CPU runs, at a point of its code where it holds no lock.
Runs(c, label) ==
  /\ mode[c] = "run"
  /\ where[cpu[c]] = label

Goto(s, label) == where' = [where EXCEPT ![s] = label]

(* scheduler *)

SchedulerStart(c) ==
  /\ mode[c] = "idle" /\ ptlock = NoCpu
  /\ ptlock' = c
  /\ mode' = [mode EXCEPT ![c] = "scan"]
  /\ pos' = [pos EXCEPT ![c] = 0]
  /\ UNCHANGED <<slotVars, cpu, tickslock, nextpid>>

RunnableFrom(i) == {s \in Slots : s >= i /\ state[s] = "RUNNABLE"}

\* The rest of the loop over the table: the next runnable process, or the
\* end of the loop and release of the lock.
SchedulerScan(c) ==
  /\ mode[c] = "scan"
  /\ pos' = [pos EXCEPT ![c] = 0]
  /\ IF RunnableFrom(pos[c]) = {}
     THEN /\ mode' = [mode EXCEPT ![c] = "idle"]
          /\ ptlock' = NoCpu
          /\ UNCHANGED <<state, cpu>>
     ELSE LET s == Min(RunnableFrom(pos[c])) IN
          /\ cpu' = [cpu EXCEPT ![c] = s]
          /\ state' = [state EXCEPT ![s] = "RUNNING"]
          /\ mode' = [mode EXCEPT ![c] = "resume"]
          /\ UNCHANGED ptlock
  /\ UNCHANGED <<pid, parent, killed, chan, where, child, due, tickslock, nextpid>>

\* swtch back into the scheduler loop.
SchedulerReturn(c) ==
  /\ mode[c] = "switch"
  /\ cpu' = [cpu EXCEPT ![c] = NoSlot]
  /\ pos' = [pos EXCEPT ![c] = cpu[c] + 1]
  /\ mode' = [mode EXCEPT ![c] = "scan"]
  /\ UNCHANGED <<slotVars, lockVars, nextpid>>

\* sched(): the process has changed its state and holds ptable.lock.
Sched(c) ==
  /\ ptlock' = c
  /\ mode' = [mode EXCEPT ![c] = "switch"]

\* A process given the CPU returns from forkret, yield or sleep and releases
\* ptable.lock; one that slept in wait keeps it (see Wait).
Resume(c) ==
  LET s == cpu[c] IN
  /\ mode[c] = "resume" /\ where[s] # "wait"
  /\ ptlock' = NoCpu
  /\ mode' = [mode EXCEPT ![c] = "run"]
  /\ chan' = [chan EXCEPT ![s] = NoSlot]
  /\ Goto(s, IF where[s] = "sleeping" THEN "sys_sleep" ELSE where[s])
  /\ UNCHANGED <<state, pid, parent, killed, child, due, cpu, pos, tickslock, nextpid>>
-------------------------------------------------------------------------------
\* One more tick has passed for every process in sys_sleep.
Elapsed(d) == [s \in Slots |-> IF d[s] > 0 THEN d[s] - 1 ELSE 0]

(* The timer interrupt; it arrives only while the CPU holds no spinlock. *)

TimerInterrupt(c) ==
  /\ mode[c] \in {"run", "idle"} /\ tickslock # c
  /\ IF c = Cpu0
     THEN /\ tickslock = NoCpu /\ tickslock' = c
          /\ due' = Elapsed(due)
          /\ mode' = [mode EXCEPT ![c] = "tick"]
     ELSE /\ mode[c] = "run"
          /\ mode' = [mode EXCEPT ![c] = "yield"]
          /\ UNCHANGED <<tickslock, due>>
  /\ UNCHANGED <<state, pid, parent, killed, chan, where, child, cpu, pos, ptlock, nextpid>>

\* The interrupt handler's wakeup(&ticks), still holding tickslock.
TickWakeup(c) ==
  /\ mode[c] = "tick" /\ ptlock = NoCpu
  /\ state' = Woken(state, Ticks)
  /\ tickslock' = NoCpu
  /\ mode' = [mode EXCEPT ![c] = IF cpu[c] = NoSlot THEN "idle" ELSE "yield"]
  /\ UNCHANGED <<pid, parent, killed, chan, where, child, due, cpu, pos, ptlock, nextpid>>

YieldUnlocked(c) ==
  LET s == cpu[c] IN
  /\ mode[c] = "yield" /\ ptlock = NoCpu
  /\ state' = [state EXCEPT ![s] = "RUNNABLE"]
  /\ mode' = [mode EXCEPT ![c] = "switch"]
  /\ UNCHANGED <<pid, parent, killed, chan, where, child, due, cpu, pos, lockVars, nextpid>>

\* The end of trap() for a timer interrupt: a killed process in user space
\* goes on to exit, any other one yields.
Yield(c) ==
  LET s == cpu[c] IN
  /\ mode[c] = "yield"
  /\ IF killed[s] /\ where[s] = "user"
     THEN mode' = [mode EXCEPT ![c] = "run"] /\ UNCHANGED <<state, ptlock>>
     ELSE /\ ptlock = NoCpu
          /\ state' = [state EXCEPT ![s] = "RUNNABLE"]
          /\ Sched(c)
  /\ UNCHANGED <<pid, parent, killed, chan, where, child, due, cpu, pos, tickslock, nextpid>>

\* A system call is entered only by a process that is not killed.
Enters(c) == Runs(c, "user") /\ ~killed[cpu[c]]
-------------------------------------------------------------------------------
(* fork: allocproc, then either a failed allocation or a runnable child. *)

Unused == {t \in Slots : state[t] = "UNUSED"}

AllocProc(c) ==
  /\ Enters(c) /\ ptlock = NoCpu
  /\ Unused # {} /\ nextpid <= MaxPid
  /\ LET t == Min(Unused) IN
     /\ state' = [state EXCEPT ![t] = "EMBRYO"]
     /\ pid' = [pid EXCEPT ![t] = nextpid]
     /\ child' = [child EXCEPT ![cpu[c]] = t]
  /\ nextpid' = nextpid + 1
  /\ Goto(cpu[c], "fork")
  /\ UNCHANGED <<parent, killed, chan, due, cpuVars, lockVars>>

\* kalloc or copyuvm fails: the slot is given back without the lock, and
\* keeps its pid.
ForkFail(c) ==
  LET s == cpu[c] IN
  /\ Runs(c, "fork")
  /\ state' = [state EXCEPT ![child[s]] = "UNUSED"]
  /\ child' = [child EXCEPT ![s] = NoSlot]
  /\ Goto(s, "user")
  /\ UNCHANGED <<pid, parent, killed, chan, due, cpuVars, lockVars, nextpid>>

\* The rest of fork.  np->parent is set earlier and without the lock, but only
\* the caller compares it with itself, and the caller is still in fork.
ForkDone(c) ==
  LET s == cpu[c] IN
  /\ Runs(c, "fork") /\ ptlock = NoCpu
  /\ parent' = [parent EXCEPT ![child[s]] = s]
  /\ state' = [state EXCEPT ![child[s]] = "RUNNABLE"]
  /\ where' = [where EXCEPT ![s] = "user", ![child[s]] = "user"]
  /\ child' = [child EXCEPT ![s] = NoSlot]
  /\ UNCHANGED <<pid, killed, chan, due, cpuVars, lockVars, nextpid>>

(* exit *)

NoReparent(s) == parent

Reparent(s) == [t \in Slots |-> IF parent[t] = s THEN InitSlot ELSE parent[t]]

\* The channels exit() wakes: its parent's, and init's when init inherits a
\* zombie.
ExitWakesParentOnly(s) == {parent[s]}

ExitWakesNobody(s) == {}

ExitWakes(s) ==
  {parent[s]} \cup
  (IF \E t \in Slots : parent[t] = s /\ state[t] = "ZOMBIE" THEN {InitSlot} ELSE {})

\* exit(), called by the program (init never does) or by trap() for a killed
\* process on the way into or out of the kernel.  Closing the files comes
\* first and touches nothing modelled here.
Exit(c) ==
  LET s == cpu[c] IN
  /\ Runs(c, "user") /\ s # InitSlot /\ ptlock = NoCpu
  /\ state' = [t \in Slots |->
                 IF t = s THEN "ZOMBIE"
                 ELSE IF state[t] = "SLEEPING" /\ chan[t] \in ExitWakes(s)
                 THEN "RUNNABLE" ELSE state[t]]
  /\ parent' = Reparent(s)
  /\ Sched(c)
  /\ UNCHANGED <<pid, killed, chan, where, child, due, cpu, pos, tickslock, nextpid>>

(* wait *)

Children(s) == {t \in Slots : parent[t] = s}
Zombies(s)  == {t \in Children(s) : state[t] = "ZOMBIE"}

\* One turn of wait's loop, entered with the lock just taken or still held
\* after sleep() returned.
Wait(c) ==
  LET s == cpu[c] IN
  /\ \/ Enters(c) /\ ptlock = NoCpu
     \/ mode[c] = "resume" /\ where[s] = "wait"
  /\ IF Zombies(s) # {}
     THEN LET t == Min(Zombies(s)) IN
          /\ pid' = [pid EXCEPT ![t] = 0]
          /\ parent' = [parent EXCEPT ![t] = NoSlot]
          /\ killed' = [killed EXCEPT ![t] = FALSE]
          /\ state' = [state EXCEPT ![t] = "UNUSED"]
     ELSE /\ UNCHANGED <<pid, parent, killed>>
          /\ state' = IF Children(s) = {} \/ killed[s] THEN state
                      ELSE [state EXCEPT ![s] = "SLEEPING"]
  /\ IF state'[s] = "SLEEPING"
     THEN Sched(c) /\ chan' = [chan EXCEPT ![s] = s] /\ Goto(s, "wait")
     ELSE /\ ptlock' = NoCpu /\ mode' = [mode EXCEPT ![c] = "run"]
          /\ chan' = [chan EXCEPT ![s] = NoSlot]
          /\ Goto(s, "user")
  /\ UNCHANGED <<child, due, cpu, pos, tickslock, nextpid>>

(* kill *)

KillNoWake(c, k) ==
  /\ Enters(c) /\ ptlock = NoCpu
  /\ \E t \in Slots :
       /\ pid[t] = k /\ \A u \in Slots : u < t => pid[u] # k
       /\ killed' = [killed EXCEPT ![t] = TRUE]
  /\ UNCHANGED <<state, pid, parent, chan, where, child, due, cpuVars, lockVars, nextpid>>

Kill(c, k) ==
  /\ Enters(c) /\ ptlock = NoCpu
  /\ \E t \in Slots :
       /\ pid[t] = k /\ \A u \in Slots : u < t => pid[u] # k
       /\ killed' = [killed EXCEPT ![t] = TRUE]
       /\ state' = [state EXCEPT ![t] = IF @ = "SLEEPING" THEN "RUNNABLE" ELSE @]
  /\ UNCHANGED <<pid, parent, chan, where, child, due, cpuVars, lockVars, nextpid>>

(* sys_sleep and sleep(&ticks, &tickslock) *)

SysSleepUnlocked(c) ==
  /\ Enters(c) /\ tickslock = NoCpu
  /\ due' = [due EXCEPT ![cpu[c]] = NTICKS]
  /\ Goto(cpu[c], "sleep")
  /\ UNCHANGED <<state, pid, parent, killed, chan, child, cpuVars, lockVars, nextpid>>

\* ticks0 = ticks, and the first test of the loop.
SysSleep(c) ==
  /\ Enters(c) /\ tickslock = NoCpu
  /\ due' = [due EXCEPT ![cpu[c]] = NTICKS]
  /\ tickslock' = c
  /\ Goto(cpu[c], "sleep")
  /\ UNCHANGED <<state, pid, parent, killed, chan, child, cpuVars, ptlock, nextpid>>

\* The loop's test after a wakeup, with tickslock taken again.
SleepAgain(c) ==
  LET s == cpu[c] IN
  /\ Runs(c, "sys_sleep") /\ tickslock = NoCpu
  /\ IF due[s] = 0 \/ killed[s]
     THEN Goto(s, "user") /\ due' = [due EXCEPT ![s] = 0] /\ UNCHANGED tickslock
     ELSE Goto(s, "sleep") /\ tickslock' = c /\ UNCHANGED due
  /\ UNCHANGED <<state, pid, parent, killed, chan, child, cpuVars, ptlock, nextpid>>

\* sleep(): ptable.lock is taken before tickslock is released.
Sleep(c) ==
  LET s == cpu[c] IN
  /\ Runs(c, "sleep") /\ ptlock = NoCpu
  /\ tickslock' = IF tickslock = c THEN NoCpu ELSE tickslock
  /\ chan' = [chan EXCEPT ![s] = Ticks]
  /\ state' = [state EXCEPT ![s] = "SLEEPING"]
  /\ Goto(s, "sleeping")
  /\ Sched(c)
  /\ UNCHANGED <<pid, parent, killed, child, due, cpu, pos, nextpid>>
-------------------------------------------------------------------------------
\* Steps of the scheduler loop, and of the timer interrupt's handler.
SchedStep(c) ==
  SchedulerStart(c) \/ SchedulerScan(c) \/ SchedulerReturn(c) \/ Resume(c)

InterruptStep(c) == TickWakeup(c) \/ Yield(c)

\* Steps of a process that is in the kernel, or must exit.
KernelStep(c) ==
  \/ ForkDone(c) \/ SleepAgain(c) \/ Sleep(c)
  \/ Exit(c) /\ killed[cpu[c]]
  \/ mode[c] = "resume" /\ Wait(c)

\* What a user program may ask for.
SystemCall(c) ==
  \/ AllocProc(c) \/ Exit(c) \/ Wait(c) \/ SysSleep(c)
  \/ \E k \in KillPids : Kill(c, k)

Next ==
  \E c \in CPUs :
    \/ SchedStep(c) \/ InterruptStep(c) \/ TimerInterrupt(c) \/ SystemCall(c)
    \/ ForkDone(c) \/ ForkFail(c) \/ SleepAgain(c) \/ Sleep(c)

Spec == Init /\ [][Next]_vars

\* A CPU that spins for a lock gets it sooner or later although others keep
\* taking it; the scheduler loop and a process in the kernel get further
\* although the timer keeps interrupting them, and a pending interrupt is
\* taken once interrupts are on again (all strong fairness); init.c calls
\* wait in an endless loop.
Fairness ==
  /\ \A c \in CPUs :
       SF_vars(SchedStep(c)) /\ SF_vars(InterruptStep(c)) /\ SF_vars(TimerInterrupt(c))
  /\ \A s \in Slots : SF_vars(\E c \in CPUs : cpu[c] = s /\ KernelStep(c))
  /\ SF_vars(\E c \in CPUs : cpu[c] = InitSlot /\ Wait(c))

FairSpec == Spec /\ Fairness
-------------------------------------------------------------------------------
(* Properties *)

\* No two CPUs ever run on the same kernel stack, and the stack a CPU is on
\* is never freed by a wait() on another CPU: the slot of a CPU's current
\* process is its own and is not free.
StackOwned ==
  \A c \in CPUs : cpu[c] # NoSlot =>
    /\ state[cpu[c]] \notin {"UNUSED", "EMBRYO"}
    /\ \A d \in CPUs \ {c} : cpu[d] # cpu[c]

\* exit() and wait() never miss each other: a parent asleep in wait() has a
\* child left, none of its children is a zombie, and it has not been killed.
WaiterHasLiveChild ==
  \A s \in Slots : state[s] = "SLEEPING" /\ chan[s] = s =>
    Children(s) # {} /\ Zombies(s) = {} /\ ~killed[s]

\* Every process but init has a parent that can still wait() for it: exit()
\* passes its children on in the same step in which it becomes a zombie.
ParentCanWait ==
  \A s \in Slots \ {InitSlot} :
    state[s] \in {"SLEEPING", "RUNNABLE", "RUNNING", "ZOMBIE"} =>
      /\ parent[s] \in Slots
      /\ state[parent[s]] \in {"SLEEPING", "RUNNABLE", "RUNNING"}

\* No wakeup is lost between a test of ticks and sleep(): a process asleep
\* on &ticks whose time is over is about to be woken by the interrupt
\* handler that counted the tick.
NoMissedTick ==
  \A s \in Slots : state[s] = "SLEEPING" /\ chan[s] = Ticks /\ due[s] = 0 =>
    mode[Cpu0] = "tick"

\* A killed process stops, however it was running or sleeping when kill()
\* marked it.
KilledDies ==
  \A s \in Slots :
    killed[s] /\ state[s] \in {"SLEEPING", "RUNNABLE", "RUNNING"}
      ~> state[s] \in {"ZOMBIE", "UNUSED"}

\* A zombie that init has inherited or forked is reaped: its slot is free
\* again in the end.
InitReaps ==
  \A s \in Slots :
    state[s] = "ZOMBIE" /\ parent[s] = InitSlot ~> state[s] # "ZOMBIE"
===============================================================================
