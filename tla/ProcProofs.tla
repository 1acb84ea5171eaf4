------------------------------ MODULE ProcProofs ------------------------------
(***************************************************************************)
(* The process table for every number of slots and CPUs: which CPU may     *)
(* touch which slot, and why exit, wait, fork, kill and the timer never    *)
(* miss each other.                                                        *)
(***************************************************************************)
EXTENDS Proc, TLAPS, NaturalsInduction, WellFoundedInduction

States == {"UNUSED", "EMBRYO", "SLEEPING", "RUNNABLE", "RUNNING", "ZOMBIE"}
Live   == {"SLEEPING", "RUNNABLE", "RUNNING"}
Labels == {"user", "fork", "wait", "sleep", "sleeping", "sys_sleep"}
Modes  == {"idle", "scan", "resume", "run", "tick", "yield", "switch"}

Typed ==
  /\ state \in [Slots -> States]
  /\ pid \in [Slots -> Nat]
  /\ parent \in [Slots -> Slots \cup {NoSlot}]
  /\ killed \in [Slots -> BOOLEAN]
  /\ chan \in [Slots -> Slots \cup {NoSlot, Ticks}]
  /\ where \in [Slots -> Labels]
  /\ child \in [Slots -> Slots \cup {NoSlot}]
  /\ due \in [Slots -> Nat]
  /\ cpu \in [CPUs -> Slots \cup {NoSlot}]
  /\ mode \in [CPUs -> Modes]
  /\ pos \in [CPUs -> Nat]
  /\ ptlock \in CPUs \cup {NoCpu} /\ tickslock \in CPUs \cup {NoCpu}
  /\ nextpid \in Nat

\* A CPU between a process's sched() and the end of the next process's sleep()
\* or yield() has ptable.lock; one that counts a tick is the first and has
\* tickslock.
CpuLocks(c) ==
  /\ mode[c] \in {"scan", "resume", "switch"} <=> ptlock = c
  /\ mode[c] = "tick" => c = Cpu0 /\ tickslock = c

\* A CPU is in its scheduler loop, or on the stack of a process that is
\* RUNNING, or has just stopped being so and waits for the switch.
CpuSlot(c) ==
  /\ mode[c] \in {"idle", "scan"} => cpu[c] = NoSlot
  /\ mode[c] \in {"resume", "run", "yield", "switch"} => cpu[c] # NoSlot
  /\ cpu[c] # NoSlot =>
       IF mode[c] = "switch" THEN state[cpu[c]] \in {"RUNNABLE", "SLEEPING", "ZOMBIE"}
       ELSE state[cpu[c]] = "RUNNING"

OwnStacks == \A c, d \in CPUs : cpu[c] # NoSlot /\ cpu[c] = cpu[d] => c = d

\* A free slot, or one that fork is filling, has no parent; a process that is
\* no longer or not yet there is in no system call.
SlotIdle(s) ==
  /\ state[s] \in {"UNUSED", "EMBRYO"} => parent[s] = NoSlot
  /\ state[s] \in {"UNUSED", "EMBRYO", "ZOMBIE"} => where[s] = "user"

\* fork's np is an embryo of its own.
Forking(s) ==
  where[s] = "fork" => 
    /\ child[s] \in Slots /\ state[child[s]] = "EMBRYO"
    /\ \A t \in Slots : where[t] = "fork" /\ child[t] = child[s] => t = s

HasParent(s) ==
  IF s = InitSlot THEN state[s] \in Live /\ parent[s] = NoSlot
  ELSE state[s] \in Live \cup {"ZOMBIE"} =>
         parent[s] \in Slots \ {s} /\ state[parent[s]] \in Live

\* From the test of ticks until sleep() has ptable.lock, a process of sys_sleep
\* is on its CPU with tickslock, so that no tick comes in between.
InSleep(s) ==
  where[s] = "sleep" =>
    due[s] > 0 /\ \E c \in CPUs : cpu[c] = s /\ mode[c] = "run" /\ tickslock = c

\* A sleeper in wait() has children, none of them a zombie, and is not killed.
Waits(s) ==
  state[s] = "SLEEPING" /\ chan[s] = s =>
    /\ \E t \in Slots : parent[t] = s
    /\ \A t \in Slots : parent[t] = s => state[t] # "ZOMBIE"
    /\ killed[s] = FALSE

\* A sleeper on &ticks has time left, or the tick that ended it is being handled.
Sleeps(s) ==
  state[s] = "SLEEPING" /\ chan[s] = Ticks => due[s] > 0 \/ mode[Cpu0] = "tick"

ProcInv ==
  /\ Typed
  /\ \A c \in CPUs : CpuLocks(c) /\ CpuSlot(c)
  /\ OwnStacks
  /\ \A s \in Slots :
       SlotIdle(s) /\ Forking(s) /\ HasParent(s) /\ InSleep(s) /\ Waits(s) /\ Sleeps(s)
-------------------------------------------------------------------------------
\* The numbers that stand for "no process" and for &ticks are not slots.
LEMMA Numbers ==
  /\ Slots \subseteq Nat /\ InitSlot \in Slots
  /\ NoSlot \notin Slots /\ Ticks \notin Slots /\ Ticks # NoSlot
BY ProcConstants DEF Slots, InitSlot, NoSlot, Ticks

\* A non-empty set of slots has a first one, which every loop over the table finds.
LEMMA MinIsMember ==
  ASSUME NEW S \in SUBSET Nat, S # {} PROVE Min(S) \in S
<1> DEFINE R == OpToRel(<, Nat)
<1>0. R = {ss \in Nat \X Nat : ss[1] < ss[2]}
  BY DEF OpToRel
<1>w. IsWellFoundedOn(R, Nat)
  BY NatLessThanWellFounded
<1> HIDE DEF R
<1>1. PICK x \in S : \A y \in S : ~(<<y, x>> \in R)
  BY <1>w, WFMin
<1>2. \A y \in S : x <= y
  <2>1. \A y \in Nat : y < x => <<y, x>> \in R
    BY <1>0
  <2>2. \A y \in S : y \in Nat /\ ~(y < x)
    BY <1>1, <2>1
  <2>3. x \in Nat
    OBVIOUS
  <2> QED
    BY <2>2, <2>3
<1> QED
  BY <1>2 DEF Min

\* Where the table's references point.
Refs ==
  /\ \A c \in CPUs : cpu[c] \in Slots \/ cpu[c] = NoSlot
  /\ \A s \in Slots : parent[s] \in Slots \/ parent[s] = NoSlot
  /\ InitSlot \in Slots /\ NoSlot \notin Slots /\ Ticks \notin Slots
  /\ NoCpu \notin CPUs /\ Cpu0 \in CPUs

\* The process table refers to its own slots only.
LEMMA Ranges == ProcInv => Refs
BY Numbers, ProcConstants, Zenon DEF ProcInv, Typed, Refs

\* A CPU that runs a process is alone on its stack, and the process is RUNNING.
LEMMA Current ==
  ASSUME ProcInv, NEW c \in CPUs, mode[c] \in {"run", "resume", "yield"}
  PROVE  /\ cpu[c] \in Slots /\ state[cpu[c]] = "RUNNING"
         /\ \A d \in CPUs : cpu[d] = cpu[c] => d = c
<1>1. cpu[c] \in Slots /\ state[cpu[c]] = "RUNNING"
  BY Ranges, Zenon DEF ProcInv, CpuSlot, Refs
<1> QED
  BY <1>1, Numbers, Zenon DEF ProcInv, OwnStacks

\* The scheduler takes ptable.lock and begins its loop.
LEMMA SchedulerStartKeeps ==
  ASSUME ProcInv, NEW c \in CPUs, SchedulerStart(c) PROVE ProcInv'
<1>0. /\ Typed /\ mode[c] = "idle" /\ ptlock = NoCpu
      /\ ptlock' = c /\ mode' = [mode EXCEPT ![c] = "scan"] /\ pos' = [pos EXCEPT ![c] = 0]
      /\ UNCHANGED <<state, pid, parent, killed, chan, where, child, due, cpu, tickslock, nextpid>>
  BY Zenon DEF ProcInv, SchedulerStart, slotVars
<1>t. Typed'
  BY <1>0, Zenon DEF Typed, Modes
<1>p. /\ Refs
      /\ mode[c] = "idle" /\ ptlock = NoCpu
      /\ ptlock' = c
      /\ \A d \in CPUs : mode'[d] = IF d = c THEN "scan" ELSE mode[d]
      /\ UNCHANGED <<state, parent, killed, chan, where, child, due, cpu, tickslock>>
  BY <1>0, Ranges, Zenon DEF Typed
<1>l. ASSUME NEW d \in CPUs PROVE CpuLocks(d)'
  BY <1>p, Zenon DEF ProcInv, CpuLocks, Refs
<1>c. ASSUME NEW d \in CPUs PROVE CpuSlot(d)'
  BY <1>p, Zenon DEF ProcInv, CpuSlot, Refs
<1>o. OwnStacks'
  BY <1>p, Zenon DEF ProcInv, OwnStacks
<1>s. ASSUME NEW s \in Slots PROVE SlotIdle(s)'
  BY <1>p, Zenon DEF ProcInv, SlotIdle
<1>f. ASSUME NEW s \in Slots PROVE Forking(s)'
  BY <1>p, Zenon DEF ProcInv, Forking
<1>h. ASSUME NEW s \in Slots PROVE HasParent(s)'
  BY <1>p, Zenon DEF ProcInv, HasParent, Live
<1>i. ASSUME NEW s \in Slots PROVE InSleep(s)'
  BY <1>p DEF ProcInv, InSleep, Refs
<1>w. ASSUME NEW s \in Slots PROVE Waits(s)'
  BY <1>p, Zenon DEF ProcInv, Waits
<1>n. ASSUME NEW s \in Slots PROVE Sleeps(s)'
  BY <1>p, Zenon DEF ProcInv, Sleeps, Refs
<1> QED
  BY <1>t, <1>l, <1>c, <1>o, <1>s, <1>f, <1>h, <1>i, <1>w, <1>n, Zenon DEF ProcInv

\* The scheduler gives its CPU to a runnable process; such a process is on no other
\* CPU, because that CPU would be switching and have ptable.lock.
LEMMA SchedulerScanKeeps ==
  ASSUME ProcInv, NEW c \in CPUs, SchedulerScan(c) PROVE ProcInv'
<1>0. /\ Typed /\ mode[c] = "scan" /\ ptlock = c /\ cpu[c] = NoSlot
      /\ \A d \in CPUs : mode[d] = "switch" => d = c
  BY Zenon DEF ProcInv, SchedulerScan, CpuLocks, CpuSlot
<1>u. /\ UNCHANGED <<pid, parent, killed, chan, where, child, due, tickslock, nextpid>>
      /\ pos' = [pos EXCEPT ![c] = 0]
  BY Zenon DEF SchedulerScan
<1>1. CASE RunnableFrom(pos[c]) = {}
  <2>1. /\ mode' = [mode EXCEPT ![c] = "idle"] /\ ptlock' = NoCpu
        /\ UNCHANGED <<state, cpu>>
    BY <1>1, Zenon DEF SchedulerScan
  <2>t. Typed'
    BY <1>0, <1>u, <2>1, Zenon DEF Typed, Modes
  <2>p. /\ Refs
        /\ mode[c] = "scan" /\ ptlock = c
        /\ ptlock' = NoCpu
        /\ \A d \in CPUs : mode'[d] = IF d = c THEN "idle" ELSE mode[d]
        /\ UNCHANGED <<state, parent, killed, chan, where, child, due, cpu, tickslock>>
    BY <1>0, <1>u, <2>1, Ranges, Zenon DEF Typed
  <2>l. ASSUME NEW d \in CPUs PROVE CpuLocks(d)'
    BY <2>p, Zenon DEF ProcInv, CpuLocks, Refs
  <2>c. ASSUME NEW d \in CPUs PROVE CpuSlot(d)'
    BY <2>p, Zenon DEF ProcInv, CpuSlot, Refs
  <2>o. OwnStacks'
    BY <2>p, Zenon DEF ProcInv, OwnStacks
  <2>s. ASSUME NEW s \in Slots PROVE SlotIdle(s)'
    BY <2>p, Zenon DEF ProcInv, SlotIdle
  <2>f. ASSUME NEW s \in Slots PROVE Forking(s)'
    BY <2>p, Zenon DEF ProcInv, Forking
  <2>h. ASSUME NEW s \in Slots PROVE HasParent(s)'
    BY <2>p, Zenon DEF ProcInv, HasParent, Live
  <2>i. ASSUME NEW s \in Slots PROVE InSleep(s)'
    BY <2>p DEF ProcInv, InSleep, Refs
  <2>w. ASSUME NEW s \in Slots PROVE Waits(s)'
    BY <2>p, Zenon DEF ProcInv, Waits
  <2>n. ASSUME NEW s \in Slots PROVE Sleeps(s)'
    BY <2>p, Zenon DEF ProcInv, Sleeps, Refs
  <2> QED
    BY <2>t, <2>l, <2>c, <2>o, <2>s, <2>f, <2>h, <2>i, <2>w, <2>n, Zenon DEF ProcInv
<1>2. CASE RunnableFrom(pos[c]) # {}
  <2> DEFINE s0 == Min(RunnableFrom(pos[c]))
  <2>1. s0 \in Slots /\ state[s0] = "RUNNABLE"
    BY <1>2, MinIsMember, Numbers, Zenon DEF RunnableFrom
  <2>2. /\ cpu' = [cpu EXCEPT ![c] = s0] /\ state' = [state EXCEPT ![s0] = "RUNNING"]
        /\ mode' = [mode EXCEPT ![c] = "resume"] /\ ptlock' = ptlock
    BY <1>2, Zenon DEF SchedulerScan
  <2> HIDE DEF s0
  <2>3. \A d \in CPUs : cpu[d] # s0
    BY <1>0, <2>1, Numbers, Zenon DEF ProcInv, CpuSlot
  <2>t. Typed'
    BY <1>0, <1>u, <2>1, <2>2, Zenon DEF Typed, Modes, States
  <2>p. /\ Refs
        /\ mode[c] = "scan" /\ ptlock = c /\ cpu[c] = NoSlot /\ s0 \in Slots
        /\ state[s0] = "RUNNABLE" /\ \A d \in CPUs : cpu[d] # s0
        /\ \A d \in CPUs : mode'[d] = IF d = c THEN "resume" ELSE mode[d]
        /\ \A d \in CPUs : cpu'[d] = IF d = c THEN s0 ELSE cpu[d]
        /\ \A s \in Slots : state'[s] = IF s = s0 THEN "RUNNING" ELSE state[s]
        /\ UNCHANGED <<parent, killed, chan, where, child, due, ptlock, tickslock>>
    BY <1>0, <1>u, <2>1, <2>2, <2>3, Ranges, Zenon DEF Typed
  <2>l. ASSUME NEW d \in CPUs PROVE CpuLocks(d)'
    BY <2>p, Zenon DEF ProcInv, CpuLocks, Refs
  <2>c. ASSUME NEW d \in CPUs PROVE CpuSlot(d)'
    BY <2>p DEF ProcInv, CpuSlot, Refs
  <2>o. OwnStacks'
    BY <2>p DEF ProcInv, OwnStacks
  <2>s. ASSUME NEW s \in Slots PROVE SlotIdle(s)'
    BY <2>p, Zenon DEF ProcInv, SlotIdle, Refs
  <2>f. ASSUME NEW s \in Slots PROVE Forking(s)'
    BY <2>p, Zenon DEF ProcInv, Forking
  <2>h. ASSUME NEW s \in Slots PROVE HasParent(s)'
    BY <2>p, Zenon DEF ProcInv, HasParent, Live, Refs
  <2>i. ASSUME NEW s \in Slots PROVE InSleep(s)'
    BY <2>p DEF ProcInv, InSleep, Refs
  <2>w. ASSUME NEW s \in Slots PROVE Waits(s)'
    BY <2>p DEF ProcInv, Waits, Refs
  <2>n. ASSUME NEW s \in Slots PROVE Sleeps(s)'
    BY <2>p, Zenon DEF ProcInv, Sleeps, Refs
  <2> QED
    BY <2>t, <2>l, <2>c, <2>o, <2>s, <2>f, <2>h, <2>i, <2>w, <2>n, Zenon DEF ProcInv
<1> QED
  BY <1>1, <1>2, Zenon

\* The switch back to the scheduler, with ptable.lock held.
LEMMA SchedulerReturnKeeps ==
  ASSUME ProcInv, NEW c \in CPUs, SchedulerReturn(c) PROVE ProcInv'
<1>0. /\ Typed /\ mode[c] = "switch" /\ cpu[c] \in Slots
      /\ cpu' = [cpu EXCEPT ![c] = NoSlot] /\ pos' = [pos EXCEPT ![c] = cpu[c] + 1]
      /\ mode' = [mode EXCEPT ![c] = "scan"]
      /\ UNCHANGED <<state, pid, parent, killed, chan, where, child, due, ptlock, tickslock, nextpid>>
  BY Ranges, Zenon DEF ProcInv, SchedulerReturn, CpuSlot, slotVars, lockVars, Refs
<1>t. Typed'
  <2>1. cpu[c] \in Nat
    BY <1>0, Numbers, Zenon
  <2>2. cpu[c] + 1 \in Nat
    BY <2>1
  <2> QED
    BY <1>0, <2>2, Zenon DEF Typed, Modes
<1>p. /\ Refs
      /\ mode[c] = "switch"
      /\ \A d \in CPUs : mode'[d] = IF d = c THEN "scan" ELSE mode[d]
      /\ \A d \in CPUs : cpu'[d] = IF d = c THEN NoSlot ELSE cpu[d]
      /\ UNCHANGED <<state, parent, killed, chan, where, child, due, ptlock, tickslock>>
  BY <1>0, Ranges, Zenon DEF Typed
<1>l. ASSUME NEW d \in CPUs PROVE CpuLocks(d)'
  BY <1>p, Zenon DEF ProcInv, CpuLocks, Refs
<1>c. ASSUME NEW d \in CPUs PROVE CpuSlot(d)'
  BY <1>p DEF ProcInv, CpuSlot, Refs
<1>o. OwnStacks'
  BY <1>p, Zenon DEF ProcInv, OwnStacks
<1>s. ASSUME NEW s \in Slots PROVE SlotIdle(s)'
  BY <1>p, Zenon DEF ProcInv, SlotIdle
<1>f. ASSUME NEW s \in Slots PROVE Forking(s)'
  BY <1>p, Zenon DEF ProcInv, Forking
<1>h. ASSUME NEW s \in Slots PROVE HasParent(s)'
  BY <1>p, Zenon DEF ProcInv, HasParent, Live
<1>i. ASSUME NEW s \in Slots PROVE InSleep(s)'
  BY <1>p DEF ProcInv, InSleep, Refs
<1>w. ASSUME NEW s \in Slots PROVE Waits(s)'
  BY <1>p, Zenon DEF ProcInv, Waits
<1>n. ASSUME NEW s \in Slots PROVE Sleeps(s)'
  BY <1>p, Zenon DEF ProcInv, Sleeps, Refs
<1> QED
  BY <1>t, <1>l, <1>c, <1>o, <1>s, <1>f, <1>h, <1>i, <1>w, <1>n, Zenon DEF ProcInv

\* A process that was given the CPU gives up ptable.lock.
LEMMA ResumeKeeps ==
  ASSUME ProcInv, NEW c \in CPUs, Resume(c) PROVE ProcInv'
<1> DEFINE s0 == cpu[c]
           next == IF where[s0] = "sleeping" THEN "sys_sleep" ELSE where[s0]
<1>0. /\ Typed /\ mode[c] = "resume" /\ ptlock = c
      /\ s0 \in Slots /\ state[s0] = "RUNNING"
  BY Current, Zenon DEF ProcInv, Resume, CpuLocks
<1>1. /\ ptlock' = NoCpu /\ mode' = [mode EXCEPT ![c] = "run"]
      /\ chan' = [chan EXCEPT ![s0] = NoSlot] /\ where' = [where EXCEPT ![s0] = next]
      /\ UNCHANGED <<state, pid, parent, killed, child, due, cpu, pos, tickslock, nextpid>>
      /\ next = where[s0] \/ (next = "sys_sleep" /\ where[s0] = "sleeping")
  BY Zenon DEF Resume, Goto
<1> HIDE DEF s0, next
<1>t. Typed'
  BY <1>0, <1>1, Zenon DEF Typed, Modes, Labels
<1>p. /\ Refs
      /\ mode[c] = "resume" /\ ptlock = c /\ s0 \in Slots /\ state[s0] = "RUNNING"
      /\ next = where[s0] \/ (next = "sys_sleep" /\ where[s0] = "sleeping")
      /\ ptlock' = NoCpu
      /\ \A d \in CPUs : mode'[d] = IF d = c THEN "run" ELSE mode[d]
      /\ \A s \in Slots : chan'[s] = IF s = s0 THEN NoSlot ELSE chan[s]
      /\ \A s \in Slots : where'[s] = IF s = s0 THEN next ELSE where[s]
      /\ UNCHANGED <<state, parent, killed, child, due, cpu, tickslock>>
  BY <1>0, <1>1, Ranges, Zenon DEF Typed
<1>l. ASSUME NEW d \in CPUs PROVE CpuLocks(d)'
  BY <1>p, Zenon DEF ProcInv, CpuLocks, Refs
<1>c. ASSUME NEW d \in CPUs PROVE CpuSlot(d)'
  BY <1>p, ZenonT(30) DEF ProcInv, CpuSlot, Refs
<1>o. OwnStacks'
  BY <1>p, Zenon DEF ProcInv, OwnStacks
<1>s. ASSUME NEW s \in Slots PROVE SlotIdle(s)'
  BY <1>p, Zenon DEF ProcInv, SlotIdle, Refs
<1>f. ASSUME NEW s \in Slots PROVE Forking(s)'
  BY <1>p DEF ProcInv, Forking
<1>h. ASSUME NEW s \in Slots PROVE HasParent(s)'
  BY <1>p, Zenon DEF ProcInv, HasParent, Live
<1>i. ASSUME NEW s \in Slots PROVE InSleep(s)'
  BY <1>p DEF ProcInv, InSleep, Refs
<1>w. ASSUME NEW s \in Slots PROVE Waits(s)'
  BY <1>p, ZenonT(30) DEF ProcInv, Waits, Refs
<1>n. ASSUME NEW s \in Slots PROVE Sleeps(s)'
  BY <1>p, Zenon DEF ProcInv, Sleeps, Refs
<1> QED
  BY <1>t, <1>l, <1>c, <1>o, <1>s, <1>f, <1>h, <1>i, <1>w, <1>n, Zenon DEF ProcInv

\* The timer interrupts a CPU that has no lock; a tick is counted only while nobody
\* is between a test of ticks and its sleep.
LEMMA TimerInterruptKeeps ==
  ASSUME ProcInv, NEW c \in CPUs, TimerInterrupt(c) PROVE ProcInv'
<1> DEFINE m == IF c = Cpu0 THEN "tick" ELSE "yield"
<1>0. /\ Typed /\ mode[c] \in {"run", "idle"} /\ tickslock # c
      /\ c # Cpu0 => mode[c] = "run"
      /\ mode' = [mode EXCEPT ![c] = m]
      /\ UNCHANGED <<state, pid, parent, killed, chan, where, child, cpu, pos, ptlock, nextpid>>
      /\ \/ c = Cpu0 /\ m = "tick" /\ tickslock = NoCpu /\ tickslock' = c /\ due' = Elapsed(due)
         \/ c # Cpu0 /\ m = "yield" /\ UNCHANGED <<tickslock, due>>
  BY Zenon DEF ProcInv, TimerInterrupt
<1> HIDE DEF m
<1>t. Typed'
  <2>1. due' \in [Slots -> Nat]
    BY <1>0 DEF Typed, Elapsed
  <2> QED
    BY <1>0, <2>1, Zenon DEF Typed, Modes
<1>p. /\ Refs
      /\ mode[c] \in {"run", "idle"} /\ tickslock # c /\ (c # Cpu0 => mode[c] = "run")
      /\ \/ c = Cpu0 /\ m = "tick" /\ tickslock = NoCpu /\ tickslock' = c
         \/ c # Cpu0 /\ m = "yield" /\ UNCHANGED <<tickslock, due>>
      /\ \A d \in CPUs : mode'[d] = IF d = c THEN m ELSE mode[d]
      /\ UNCHANGED <<state, parent, killed, chan, where, child, cpu, ptlock>>
  BY <1>0, Ranges, Zenon DEF Typed
<1>l. ASSUME NEW d \in CPUs PROVE CpuLocks(d)'
  BY <1>p, Zenon DEF ProcInv, CpuLocks, Refs
<1>c. ASSUME NEW d \in CPUs PROVE CpuSlot(d)'
  BY <1>p, Zenon DEF ProcInv, CpuSlot, Refs
<1>o. OwnStacks'
  BY <1>p, Zenon DEF ProcInv, OwnStacks
<1>s. ASSUME NEW s \in Slots PROVE SlotIdle(s)'
  BY <1>p, Zenon DEF ProcInv, SlotIdle
<1>f. ASSUME NEW s \in Slots PROVE Forking(s)'
  BY <1>p, Zenon DEF ProcInv, Forking
<1>h. ASSUME NEW s \in Slots PROVE HasParent(s)'
  BY <1>p, Zenon DEF ProcInv, HasParent, Live
<1>i. ASSUME NEW s \in Slots PROVE InSleep(s)'
  BY <1>p DEF ProcInv, InSleep, Refs
<1>w. ASSUME NEW s \in Slots PROVE Waits(s)'
  BY <1>p, Zenon DEF ProcInv, Waits
<1>n. ASSUME NEW s \in Slots PROVE Sleeps(s)'
  BY <1>p, Zenon DEF ProcInv, Sleeps, Refs
<1> QED
  BY <1>t, <1>l, <1>c, <1>o, <1>s, <1>f, <1>h, <1>i, <1>w, <1>n, ZenonT(30) DEF ProcInv

\* The handler wakes everyone asleep on &ticks.
LEMMA TickWakeupKeeps ==
  ASSUME ProcInv, NEW c \in CPUs, TickWakeup(c) PROVE ProcInv'
<1> DEFINE m == IF cpu[c] = NoSlot THEN "idle" ELSE "yield"
<1>0. /\ Typed /\ mode[c] = "tick" /\ ptlock = NoCpu /\ c = Cpu0 /\ tickslock = c
      /\ \A d \in CPUs : mode[d] # "switch"
      /\ IF cpu[c] = NoSlot THEN m = "idle" ELSE m = "yield"
  BY ProcConstants, Zenon DEF ProcInv, TickWakeup, CpuLocks
<1>1. /\ state' = Woken(state, Ticks) /\ tickslock' = NoCpu /\ mode' = [mode EXCEPT ![c] = m]
      /\ UNCHANGED <<pid, parent, killed, chan, where, child, due, cpu, pos, ptlock, nextpid>>
  BY Zenon DEF TickWakeup
<1> HIDE DEF m
<1>t. Typed'
  <2>1. state' \in [Slots -> States]
    BY <1>0, <1>1, Zenon DEF Typed, Woken, States
  <2> QED
    BY <1>0, <1>1, <2>1, Zenon DEF Typed, Modes
<1>p. /\ Refs
      /\ mode[c] = "tick" /\ ptlock = NoCpu /\ c = Cpu0 /\ tickslock = c
      /\ \A d \in CPUs : mode[d] # "switch"
      /\ IF cpu[c] = NoSlot THEN m = "idle" ELSE m = "yield"
      /\ \A d \in CPUs : mode'[d] = IF d = c THEN m ELSE mode[d]
      /\ tickslock' = NoCpu
      /\ \A s \in Slots : state'[s] = IF state[s] = "SLEEPING" /\ chan[s] = Ticks
                                      THEN "RUNNABLE" ELSE state[s]
      /\ UNCHANGED <<parent, killed, chan, where, child, due, cpu, ptlock>>
  BY <1>0, <1>1, Ranges, Zenon DEF Typed, Woken
<1>l. ASSUME NEW d \in CPUs PROVE CpuLocks(d)'
  BY <1>p, Zenon DEF ProcInv, CpuLocks, Refs
<1>c. ASSUME NEW d \in CPUs PROVE CpuSlot(d)'
  BY <1>p, Zenon DEF ProcInv, CpuSlot, Refs
<1>o. OwnStacks'
  BY <1>p, Zenon DEF ProcInv, OwnStacks
<1>s. ASSUME NEW s \in Slots PROVE SlotIdle(s)'
  BY <1>p, Zenon DEF ProcInv, SlotIdle, Refs
<1>f. ASSUME NEW s \in Slots PROVE Forking(s)'
  BY <1>p, Zenon DEF ProcInv, Forking
<1>h. ASSUME NEW s \in Slots PROVE HasParent(s)'
  BY <1>p, Zenon DEF ProcInv, HasParent, Live, Refs
<1>i. ASSUME NEW s \in Slots PROVE InSleep(s)'
  BY <1>p, Zenon DEF ProcInv, InSleep, Refs
<1>w. ASSUME NEW s \in Slots PROVE Waits(s)'
  BY <1>p DEF ProcInv, Waits, Refs
<1>n. ASSUME NEW s \in Slots PROVE Sleeps(s)'
  BY <1>p, Zenon DEF ProcInv, Sleeps, Refs
<1> QED
  BY <1>t, <1>l, <1>c, <1>o, <1>s, <1>f, <1>h, <1>i, <1>w, <1>n, Zenon DEF ProcInv

\* A process gives up its CPU and goes on to the switch with ptable.lock.
LEMMA YieldKeeps ==
  ASSUME ProcInv, NEW c \in CPUs, Yield(c) PROVE ProcInv'
<1> DEFINE s0 == cpu[c]
<1>0. /\ Typed /\ mode[c] = "yield" /\ cpu[c] = s0
      /\ s0 \in Slots /\ state[s0] = "RUNNING" /\ \A d \in CPUs : cpu[d] = s0 => d = c
      /\ UNCHANGED <<pid, parent, killed, chan, where, child, due, cpu, pos, tickslock, nextpid>>
  BY Current, Zenon DEF ProcInv, Yield
<1>1. CASE mode' = [mode EXCEPT ![c] = "run"] /\ UNCHANGED <<state, ptlock>>
  <2> HIDE DEF s0
  <2>t. Typed'
    BY <1>0, <1>1, Zenon DEF Typed, Modes
  <2>p. /\ Refs
        /\ mode[c] = "yield" /\ cpu[c] = s0
        /\ \A d \in CPUs : mode'[d] = IF d = c THEN "run" ELSE mode[d]
        /\ UNCHANGED <<state, parent, killed, chan, where, child, due, cpu, ptlock, tickslock>>
    BY <1>0, <1>1, Ranges, Zenon DEF Typed
  <2>l. ASSUME NEW d \in CPUs PROVE CpuLocks(d)'
    BY <2>p, Zenon DEF ProcInv, CpuLocks, Refs
  <2>c. ASSUME NEW d \in CPUs PROVE CpuSlot(d)'
    BY <2>p, Zenon DEF ProcInv, CpuSlot, Refs
  <2>o. OwnStacks'
    BY <2>p, Zenon DEF ProcInv, OwnStacks
  <2>s. ASSUME NEW s \in Slots PROVE SlotIdle(s)'
    BY <2>p, Zenon DEF ProcInv, SlotIdle
  <2>f. ASSUME NEW s \in Slots PROVE Forking(s)'
    BY <2>p, Zenon DEF ProcInv, Forking
  <2>h. ASSUME NEW s \in Slots PROVE HasParent(s)'
    BY <2>p, Zenon DEF ProcInv, HasParent, Live
  <2>i. ASSUME NEW s \in Slots PROVE InSleep(s)'
    BY <2>p DEF ProcInv, InSleep, Refs
  <2>w. ASSUME NEW s \in Slots PROVE Waits(s)'
    BY <2>p, Zenon DEF ProcInv, Waits
  <2>n. ASSUME NEW s \in Slots PROVE Sleeps(s)'
    BY <2>p, Zenon DEF ProcInv, Sleeps, Refs
  <2> QED
    BY <2>t, <2>l, <2>c, <2>o, <2>s, <2>f, <2>h, <2>i, <2>w, <2>n, Zenon DEF ProcInv
<1>2. CASE /\ ptlock = NoCpu /\ ptlock' = c
            /\ state' = [state EXCEPT ![s0] = "RUNNABLE"] /\ mode' = [mode EXCEPT ![c] = "switch"]
  <2> HIDE DEF s0
  <2>t. Typed'
    BY <1>0, <1>2, Zenon DEF Typed, Modes, States
  <2>p. /\ Refs
        /\ mode[c] = "yield" /\ cpu[c] = s0 /\ s0 \in Slots /\ state[s0] = "RUNNING"
        /\ ptlock = NoCpu /\ \A d \in CPUs : cpu[d] = s0 => d = c
        /\ ptlock' = c
        /\ \A d \in CPUs : mode'[d] = IF d = c THEN "switch" ELSE mode[d]
        /\ \A s \in Slots : state'[s] = IF s = s0 THEN "RUNNABLE" ELSE state[s]
        /\ UNCHANGED <<parent, killed, chan, where, child, due, cpu, tickslock>>
    BY <1>0, <1>2, Ranges, Zenon DEF Typed
  <2>l. ASSUME NEW d \in CPUs PROVE CpuLocks(d)'
    BY <2>p, Zenon DEF ProcInv, CpuLocks, Refs
  <2>c. ASSUME NEW d \in CPUs PROVE CpuSlot(d)'
    BY <2>p, Zenon DEF ProcInv, CpuSlot, Refs
  <2>o. OwnStacks'
    BY <2>p, Zenon DEF ProcInv, OwnStacks
  <2>s. ASSUME NEW s \in Slots PROVE SlotIdle(s)'
    BY <2>p, Zenon DEF ProcInv, SlotIdle, Refs
  <2>f. ASSUME NEW s \in Slots PROVE Forking(s)'
    BY <2>p, Zenon DEF ProcInv, Forking
  <2>h. ASSUME NEW s \in Slots PROVE HasParent(s)'
    BY <2>p, ZenonT(30) DEF ProcInv, HasParent, Live, Refs
  <2>i. ASSUME NEW s \in Slots PROVE InSleep(s)'
    BY <2>p DEF ProcInv, InSleep, Refs
  <2>w. ASSUME NEW s \in Slots PROVE Waits(s)'
    BY <2>p DEF ProcInv, Waits, Refs
  <2>n. ASSUME NEW s \in Slots PROVE Sleeps(s)'
    BY <2>p, Zenon DEF ProcInv, Sleeps, Refs
  <2> QED
    BY <2>t, <2>l, <2>c, <2>o, <2>s, <2>f, <2>h, <2>i, <2>w, <2>n, Zenon DEF ProcInv
<1> QED
  BY <1>1, <1>2, Zenon DEF Yield, Sched

\* fork takes an unused slot: an embryo that nobody else refers to.
LEMMA AllocProcKeeps ==
  ASSUME ProcInv, NEW c \in CPUs, AllocProc(c) PROVE ProcInv'
<1> DEFINE s0 == cpu[c]
           t0 == Min(Unused)
<1>0. /\ Typed /\ mode[c] = "run" /\ ptlock = NoCpu /\ where[s0] = "user"
      /\ s0 \in Slots /\ state[s0] = "RUNNING"
  BY Current, Zenon DEF ProcInv, AllocProc, Enters, Runs
<1>1. t0 \in Slots /\ state[t0] = "UNUSED"
  BY MinIsMember, Numbers, Zenon DEF AllocProc, Unused
<1>2. /\ state' = [state EXCEPT ![t0] = "EMBRYO"] /\ pid' = [pid EXCEPT ![t0] = nextpid]
      /\ child' = [child EXCEPT ![s0] = t0] /\ where' = [where EXCEPT ![s0] = "fork"]
      /\ nextpid' = nextpid + 1
      /\ UNCHANGED <<parent, killed, chan, due, cpu, mode, pos, ptlock, tickslock>>
  BY Zenon DEF AllocProc, Goto, cpuVars, lockVars
<1> HIDE DEF s0, t0
<1>t. Typed'
  BY <1>0, <1>1, <1>2 DEF Typed, States, Labels
<1>p. /\ Refs
      /\ s0 \in Slots /\ state[s0] = "RUNNING" /\ where[s0] = "user"
      /\ t0 \in Slots /\ state[t0] = "UNUSED" /\ t0 # s0
      /\ \A s \in Slots : state'[s] = IF s = t0 THEN "EMBRYO" ELSE state[s]
      /\ \A s \in Slots : child'[s] = IF s = s0 THEN t0 ELSE child[s]
      /\ \A s \in Slots : where'[s] = IF s = s0 THEN "fork" ELSE where[s]
      /\ UNCHANGED <<parent, killed, chan, due, cpu, mode, ptlock, tickslock>>
  BY <1>0, <1>1, <1>2, Ranges, Zenon DEF Typed
<1>l. ASSUME NEW d \in CPUs PROVE CpuLocks(d)'
  BY <1>p, Zenon DEF ProcInv, CpuLocks
<1>c. ASSUME NEW d \in CPUs PROVE CpuSlot(d)'
  BY <1>p, Zenon DEF ProcInv, CpuSlot, Refs
<1>o. OwnStacks'
  BY <1>p, Zenon DEF ProcInv, OwnStacks
<1>s. ASSUME NEW s \in Slots PROVE SlotIdle(s)'
  BY <1>p, Zenon DEF ProcInv, SlotIdle, Refs
<1>f. ASSUME NEW s \in Slots PROVE Forking(s)'
  BY <1>p DEF ProcInv, Forking
<1>h. ASSUME NEW s \in Slots PROVE HasParent(s)'
  BY <1>p, Zenon DEF ProcInv, HasParent, Live, Refs
<1>i. ASSUME NEW s \in Slots PROVE InSleep(s)'
  BY <1>p, Zenon DEF ProcInv, InSleep, Refs
<1>w. ASSUME NEW s \in Slots PROVE Waits(s)'
  BY <1>p DEF ProcInv, Waits, Refs
<1>n. ASSUME NEW s \in Slots PROVE Sleeps(s)'
  BY <1>p, Zenon DEF ProcInv, Sleeps, Refs
<1> QED
  BY <1>t, <1>l, <1>c, <1>o, <1>s, <1>f, <1>h, <1>i, <1>w, <1>n, Zenon DEF ProcInv

\* fork gives the slot back: it was an embryo, so no CPU is on its stack and no
\* process has it as its parent.
LEMMA ForkFailKeeps ==
  ASSUME ProcInv, NEW c \in CPUs, ForkFail(c) PROVE ProcInv'
<1> DEFINE s0 == cpu[c]
           t0 == child[s0]
<1>0. /\ Typed /\ mode[c] = "run" /\ where[s0] = "fork"
      /\ s0 \in Slots /\ state[s0] = "RUNNING"
  BY Current, Zenon DEF ProcInv, ForkFail, Runs
<1>1. /\ t0 \in Slots /\ state[t0] = "EMBRYO" /\ where[t0] = "user" /\ parent[t0] = NoSlot
      /\ \A s \in Slots : where[s] = "fork" /\ child[s] = t0 => s = s0
      /\ t0 # InitSlot /\ t0 # s0
  BY <1>0, Zenon DEF ProcInv, Forking, SlotIdle, HasParent, Live
<1>2. /\ state' = [state EXCEPT ![t0] = "UNUSED"] /\ child' = [child EXCEPT ![s0] = NoSlot]
      /\ where' = [where EXCEPT ![s0] = "user"]
      /\ UNCHANGED <<pid, parent, killed, chan, due, cpu, mode, pos, ptlock, tickslock, nextpid>>
  BY Zenon DEF ForkFail, Goto, cpuVars, lockVars
<1> HIDE DEF s0, t0
<1>t. Typed'
  BY <1>0, <1>1, <1>2, Zenon DEF Typed, States, Labels
<1>p. /\ Refs
      /\ s0 \in Slots /\ state[s0] = "RUNNING" /\ where[s0] = "fork"
      /\ t0 \in Slots /\ state[t0] = "EMBRYO" /\ where[t0] = "user" /\ parent[t0] = NoSlot
      /\ t0 # InitSlot /\ t0 # s0
      /\ \A s \in Slots : where[s] = "fork" /\ child[s] = t0 => s = s0
      /\ \A s \in Slots : state'[s] = IF s = t0 THEN "UNUSED" ELSE state[s]
      /\ \A s \in Slots : child'[s] = IF s = s0 THEN NoSlot ELSE child[s]
      /\ \A s \in Slots : where'[s] = IF s = s0 THEN "user" ELSE where[s]
      /\ UNCHANGED <<parent, killed, chan, due, cpu, mode, ptlock, tickslock>>
  BY <1>0, <1>1, <1>2, Ranges, Zenon DEF Typed
<1>l. ASSUME NEW d \in CPUs PROVE CpuLocks(d)'
  BY <1>p, Zenon DEF ProcInv, CpuLocks
<1>c. ASSUME NEW d \in CPUs PROVE CpuSlot(d)'
  BY <1>p, Zenon DEF ProcInv, CpuSlot, Refs
<1>o. OwnStacks'
  BY <1>p, Zenon DEF ProcInv, OwnStacks
<1>s. ASSUME NEW s \in Slots PROVE SlotIdle(s)'
  BY <1>p, Zenon DEF ProcInv, SlotIdle, Refs
<1>f. ASSUME NEW s \in Slots PROVE Forking(s)'
  BY <1>p DEF ProcInv, Forking
<1>h. ASSUME NEW s \in Slots PROVE HasParent(s)'
  BY <1>p, Zenon DEF ProcInv, HasParent, Live, Refs
<1>i. ASSUME NEW s \in Slots PROVE InSleep(s)'
  BY <1>p, Zenon DEF ProcInv, InSleep, Refs
<1>w. ASSUME NEW s \in Slots PROVE Waits(s)'
  BY <1>p DEF ProcInv, Waits, Refs
<1>n. ASSUME NEW s \in Slots PROVE Sleeps(s)'
  BY <1>p, Zenon DEF ProcInv, Sleeps, Refs
<1> QED
  BY <1>t, <1>l, <1>c, <1>o, <1>s, <1>f, <1>h, <1>i, <1>w, <1>n, Zenon DEF ProcInv

\* fork makes the child runnable; its parent is running.
LEMMA ForkDoneKeeps ==
  ASSUME ProcInv, NEW c \in CPUs, ForkDone(c) PROVE ProcInv'
<1> DEFINE s0 == cpu[c]
           t0 == child[s0]
<1>0. /\ Typed /\ mode[c] = "run" /\ where[s0] = "fork"
      /\ s0 \in Slots /\ state[s0] = "RUNNING"
  BY Current, Zenon DEF ProcInv, ForkDone, Runs
<1>1. /\ t0 \in Slots /\ state[t0] = "EMBRYO" /\ where[t0] = "user" /\ parent[t0] = NoSlot
      /\ \A s \in Slots : where[s] = "fork" /\ child[s] = t0 => s = s0
      /\ t0 # InitSlot /\ t0 # s0
  BY <1>0, Zenon DEF ProcInv, Forking, SlotIdle, HasParent, Live
<1>2. /\ state' = [state EXCEPT ![t0] = "RUNNABLE"] /\ child' = [child EXCEPT ![s0] = NoSlot]
      /\ where' = [where EXCEPT ![s0] = "user", ![t0] = "user"]
      /\ parent' = [parent EXCEPT ![t0] = s0]
      /\ UNCHANGED <<pid, killed, chan, due, cpu, mode, pos, ptlock, tickslock, nextpid>>
  BY Zenon DEF ForkDone, cpuVars, lockVars
<1> HIDE DEF s0, t0
<1>t. Typed'
  BY <1>0, <1>1, <1>2, Zenon DEF Typed, States, Labels
<1>p. /\ Refs
      /\ s0 \in Slots /\ state[s0] = "RUNNING" /\ where[s0] = "fork"
      /\ t0 \in Slots /\ state[t0] = "EMBRYO" /\ where[t0] = "user" /\ parent[t0] = NoSlot
      /\ t0 # InitSlot /\ t0 # s0
      /\ \A s \in Slots : where[s] = "fork" /\ child[s] = t0 => s = s0
      /\ \A s \in Slots : state'[s] = IF s = t0 THEN "RUNNABLE" ELSE state[s]
      /\ \A s \in Slots : parent'[s] = IF s = t0 THEN s0 ELSE parent[s]
      /\ \A s \in Slots : child'[s] = IF s = s0 THEN NoSlot ELSE child[s]
      /\ \A s \in Slots : where'[s] = IF s = s0 \/ s = t0 THEN "user" ELSE where[s]
      /\ UNCHANGED <<killed, chan, due, cpu, mode, ptlock, tickslock>>
  BY <1>0, <1>1, <1>2, Ranges, Zenon DEF Typed
<1>l. ASSUME NEW d \in CPUs PROVE CpuLocks(d)'
  BY <1>p, Zenon DEF ProcInv, CpuLocks
<1>c. ASSUME NEW d \in CPUs PROVE CpuSlot(d)'
  BY <1>p, Zenon DEF ProcInv, CpuSlot, Refs
<1>o. OwnStacks'
  BY <1>p, Zenon DEF ProcInv, OwnStacks
<1>s. ASSUME NEW s \in Slots PROVE SlotIdle(s)'
  BY <1>p, Zenon DEF ProcInv, SlotIdle, Refs
<1>f. ASSUME NEW s \in Slots PROVE Forking(s)'
  BY <1>p, SMTT(30) DEF ProcInv, Forking
<1>h. ASSUME NEW s \in Slots PROVE HasParent(s)'
  BY <1>p DEF ProcInv, HasParent, Live, Refs
<1>i. ASSUME NEW s \in Slots PROVE InSleep(s)'
  BY <1>p, SMTT(30) DEF ProcInv, InSleep, Refs
<1>w. ASSUME NEW s \in Slots PROVE Waits(s)'
  BY <1>p DEF ProcInv, Waits, Refs
<1>n. ASSUME NEW s \in Slots PROVE Sleeps(s)'
  BY <1>p, Zenon DEF ProcInv, Sleeps, Refs
<1> QED
  BY <1>t, <1>l, <1>c, <1>o, <1>s, <1>f, <1>h, <1>i, <1>w, <1>n, Zenon DEF ProcInv

\* exit becomes a zombie, passes its children on and wakes whoever must see it.
LEMMA ExitKeeps ==
  ASSUME ProcInv, NEW c \in CPUs, Exit(c) PROVE ProcInv'
<1> DEFINE s0 == cpu[c]
<1>0. /\ Typed /\ mode[c] = "run" /\ where[s0] = "user" /\ ptlock = NoCpu /\ s0 # InitSlot
      /\ s0 \in Slots /\ state[s0] = "RUNNING" /\ cpu[c] = s0
      /\ \A d \in CPUs : cpu[d] = s0 => d = c
  BY Current, Zenon DEF ProcInv, Exit, Runs
<1>1. /\ state' = [t \in Slots |-> IF t = s0 THEN "ZOMBIE"
                                   ELSE IF state[t] = "SLEEPING" /\ chan[t] \in ExitWakes(s0)
                                   THEN "RUNNABLE" ELSE state[t]]
      /\ parent' = Reparent(s0) /\ ptlock' = c /\ mode' = [mode EXCEPT ![c] = "switch"]
      /\ UNCHANGED <<pid, killed, chan, where, child, due, cpu, pos, tickslock, nextpid>>
  BY Zenon DEF Exit, Sched
<1>m. \A d \in CPUs : mode[d] # "switch"
  BY <1>0, ProcConstants, Zenon DEF ProcInv, CpuLocks
<1> HIDE DEF s0
<1>e. /\ parent[s0] \in ExitWakes(s0)
      /\ (\E t \in Slots : parent[t] = s0 /\ state[t] = "ZOMBIE") => InitSlot \in ExitWakes(s0)
  BY Zenon DEF ExitWakes
<1>t. Typed'
  <2>1. state' \in [Slots -> States]
    BY <1>0, <1>1, Zenon DEF Typed, States
  <2>2. parent' \in [Slots -> Slots \cup {NoSlot}]
    BY <1>0, <1>1, Numbers, Zenon DEF Typed, Reparent
  <2> QED
    BY <1>0, <1>1, <2>1, <2>2, Zenon DEF Typed, Modes
<1>p. /\ Refs
      /\ mode[c] = "run" /\ where[s0] = "user" /\ ptlock = NoCpu /\ s0 # InitSlot
      /\ s0 \in Slots /\ state[s0] = "RUNNING" /\ cpu[c] = s0
      /\ \A d \in CPUs : cpu[d] = s0 => d = c
      /\ \A d \in CPUs : mode[d] # "switch"
      /\ \A s \in Slots : state'[s] = IF s = s0 THEN "ZOMBIE"
                                      ELSE IF state[s] = "SLEEPING" /\ chan[s] \in ExitWakes(s0)
                                      THEN "RUNNABLE" ELSE state[s]
      /\ \A s \in Slots : parent'[s] = IF parent[s] = s0 THEN InitSlot ELSE parent[s]
      /\ \A d \in CPUs : mode'[d] = IF d = c THEN "switch" ELSE mode[d]
      /\ ptlock' = c
      /\ UNCHANGED <<killed, chan, where, child, due, cpu, tickslock>>
  BY <1>0, <1>1, <1>m, Ranges, Zenon DEF Typed, Reparent
<1>l. ASSUME NEW d \in CPUs PROVE CpuLocks(d)'
  BY <1>p, Zenon DEF ProcInv, CpuLocks, Refs
<1>c. ASSUME NEW d \in CPUs PROVE CpuSlot(d)'
  BY <1>p, ZenonT(30) DEF ProcInv, CpuSlot, Refs
<1>o. OwnStacks'
  BY <1>p, Zenon DEF ProcInv, OwnStacks
<1>s. ASSUME NEW s \in Slots PROVE SlotIdle(s)'
  BY <1>p DEF ProcInv, SlotIdle, Refs
<1>f. ASSUME NEW s \in Slots PROVE Forking(s)'
  BY <1>p, Zenon DEF ProcInv, Forking
<1>h. ASSUME NEW s \in Slots PROVE HasParent(s)'
  BY <1>p DEF ProcInv, HasParent, Live, Refs
<1>i. ASSUME NEW s \in Slots PROVE InSleep(s)'
  BY <1>p DEF ProcInv, InSleep, Refs
<1>w. ASSUME NEW s \in Slots PROVE Waits(s)'
  <2>1. HasParent(s0) /\ Waits(s)
    BY <1>p, Zenon DEF ProcInv
  <2>2. SUFFICES ASSUME state'[s] = "SLEEPING", chan'[s] = s PROVE Waits(s)'
    BY Zenon DEF Waits
  <2>3. /\ state[s] = "SLEEPING" /\ chan[s] = s /\ s # s0 /\ s \notin ExitWakes(s0)
    BY <1>p, <2>2, Zenon
  <2>4. PICK t \in Slots : parent[t] = s
    BY <2>1, <2>3, Zenon DEF Waits
  <2>5. parent'[t] = s
    BY <1>p, <2>3, <2>4, Zenon
  <2>6. ASSUME NEW u \in Slots, parent'[u] = s PROVE state'[u] # "ZOMBIE"
    <3>1. CASE parent[u] = s
      BY <1>p, <1>e, <2>1, <2>3, <3>1, Zenon DEF Waits
    <3>2. CASE parent[u] = s0 /\ s = InitSlot
      <4>1. u # s0 /\ ~(state[u] = "ZOMBIE")
        BY <1>p, <1>e, <2>1, <2>3, <3>2, Zenon DEF HasParent, Live
      <4> QED
        BY <1>p, <4>1, Zenon
    <3> QED
      BY <1>p, <2>6, <3>1, <3>2, Zenon
  <2> QED
    BY <1>p, <2>1, <2>3, <2>5, <2>6, Zenon DEF Waits
<1>n. ASSUME NEW s \in Slots PROVE Sleeps(s)'
  BY <1>p, Zenon DEF ProcInv, Sleeps, Refs
<1> QED
  BY <1>t, <1>l, <1>c, <1>o, <1>s, <1>f, <1>h, <1>i, <1>w, <1>n, Zenon DEF ProcInv

\* wait frees a zombie that no CPU is on, or returns, or goes to sleep with
\* ptable.lock held since the scan.
LEMMA WaitKeeps ==
  ASSUME ProcInv, NEW c \in CPUs, Wait(c) PROVE ProcInv'
<1> DEFINE s0 == cpu[c]
<1>0. /\ Typed /\ mode[c] \in {"run", "resume"} /\ ptlock \in {NoCpu, c}
      /\ where[s0] \in {"user", "wait"} /\ cpu[c] = s0
      /\ s0 \in Slots /\ state[s0] = "RUNNING" /\ \A d \in CPUs : cpu[d] = s0 => d = c
  BY Current, Zenon DEF ProcInv, Wait, Enters, Runs, CpuLocks
<1>l. \A d \in CPUs : mode[d] \in {"scan", "resume", "switch"} => d = c
  BY <1>0, ProcConstants, ZenonT(30) DEF ProcInv, CpuLocks
<1>u. UNCHANGED <<child, due, cpu, pos, tickslock, nextpid>>
  BY Zenon DEF Wait
<1>1. CASE Zombies(s0) # {}
  <2> DEFINE t0 == Min(Zombies(s0))
  <2>0. t0 \in Zombies(s0)
    <3>1. Zombies(s0) \in SUBSET Nat
      BY Numbers, Zenon DEF Zombies, Children
    <3> QED
      BY <1>1, <3>1, MinIsMember, Zenon
  <2>1. t0 \in Slots /\ parent[t0] = s0 /\ state[t0] = "ZOMBIE" /\ t0 # s0
    BY <1>0, <2>0, Zenon DEF Zombies, Children
  <2>2. /\ pid' = [pid EXCEPT ![t0] = 0] /\ parent' = [parent EXCEPT ![t0] = NoSlot]
        /\ killed' = [killed EXCEPT ![t0] = FALSE] /\ state' = [state EXCEPT ![t0] = "UNUSED"]
    BY <1>1, Zenon DEF Wait
  <2> HIDE DEF s0, t0
  <2>3. state'[s0] = "RUNNING"
    BY <1>0, <2>1, <2>2, Zenon DEF Typed
  <2>4. /\ ptlock' = NoCpu /\ mode' = [mode EXCEPT ![c] = "run"]
        /\ chan' = [chan EXCEPT ![s0] = NoSlot] /\ where' = [where EXCEPT ![s0] = "user"]
    BY <2>3, Zenon DEF Wait, Goto, s0
  <2>5. \A d \in CPUs : cpu[d] # t0
    BY <1>0, <1>l, <2>1, Numbers, Zenon DEF ProcInv, CpuSlot
  <2>t. Typed'
    BY <1>0, <1>u, <2>1, <2>2, <2>4, Zenon DEF Typed, States, Labels, Modes
  <2>p. /\ Refs
        /\ mode[c] \in {"run", "resume"} /\ where[s0] \in {"user", "wait"} /\ cpu[c] = s0
        /\ s0 \in Slots /\ state[s0] = "RUNNING" /\ \A d \in CPUs : cpu[d] = s0 => d = c
        /\ \A d \in CPUs : mode[d] \in {"scan", "resume", "switch"} => d = c
        /\ t0 \in Slots /\ parent[t0] = s0 /\ state[t0] = "ZOMBIE" /\ t0 # s0
        /\ \A d \in CPUs : cpu[d] # t0
        /\ \A s \in Slots : state'[s] = IF s = t0 THEN "UNUSED" ELSE state[s]
        /\ \A s \in Slots : parent'[s] = IF s = t0 THEN NoSlot ELSE parent[s]
        /\ \A s \in Slots : s # t0 => killed'[s] = killed[s]
        /\ \A s \in Slots : chan'[s] = IF s = s0 THEN NoSlot ELSE chan[s]
        /\ \A s \in Slots : where'[s] = IF s = s0 THEN "user" ELSE where[s]
        /\ \A d \in CPUs : mode'[d] = IF d = c THEN "run" ELSE mode[d]
        /\ ptlock' = NoCpu
        /\ UNCHANGED <<child, due, cpu, tickslock>>
    BY <1>0, <1>l, <1>u, <2>1, <2>2, <2>4, <2>5, Ranges, Zenon DEF Typed
  <2>l. ASSUME NEW d \in CPUs PROVE CpuLocks(d)'
    BY <2>p, SMTT(30) DEF ProcInv, CpuLocks, Refs
  <2>c. ASSUME NEW d \in CPUs PROVE CpuSlot(d)'
    BY <2>p DEF ProcInv, CpuSlot, Refs
  <2>o. OwnStacks'
    BY <2>p, Zenon DEF ProcInv, OwnStacks
  <2>s. ASSUME NEW s \in Slots PROVE SlotIdle(s)'
    BY <2>p, Zenon DEF ProcInv, SlotIdle, Refs
  <2>f. ASSUME NEW s \in Slots PROVE Forking(s)'
    BY <2>p, SMTT(30) DEF ProcInv, Forking
  <2>h. ASSUME NEW s \in Slots PROVE HasParent(s)'
    BY <2>p, SMTT(30) DEF ProcInv, HasParent, Live, Refs
  <2>i. ASSUME NEW s \in Slots PROVE InSleep(s)'
    BY <2>p, SMTT(30) DEF ProcInv, InSleep, Refs
  <2>w. ASSUME NEW s \in Slots PROVE Waits(s)'
    BY <2>p, SMTT(30) DEF ProcInv, Waits, Refs
  <2>n. ASSUME NEW s \in Slots PROVE Sleeps(s)'
    BY <2>p DEF ProcInv, Sleeps, Refs
  <2> QED
    BY <2>t, <2>l, <2>c, <2>o, <2>s, <2>f, <2>h, <2>i, <2>w, <2>n, Zenon DEF ProcInv
<1>2. CASE Zombies(s0) = {} /\ (Children(s0) = {} \/ killed[s0] = TRUE)
  <2>1. UNCHANGED <<pid, parent, killed, state>>
    BY <1>2, Zenon DEF Wait
  <2>4. /\ ptlock' = NoCpu /\ mode' = [mode EXCEPT ![c] = "run"]
        /\ chan' = [chan EXCEPT ![s0] = NoSlot] /\ where' = [where EXCEPT ![s0] = "user"]
    BY <1>0, <2>1, Zenon DEF Wait, Goto
  <2> HIDE DEF s0
  <2>t. Typed'
    BY <1>0, <1>u, <2>1, <2>4, Zenon DEF Typed, States, Labels, Modes
  <2>p. /\ Refs
        /\ mode[c] \in {"run", "resume"} /\ where[s0] \in {"user", "wait"} /\ cpu[c] = s0
        /\ s0 \in Slots /\ state[s0] = "RUNNING" /\ \A d \in CPUs : cpu[d] = s0 => d = c
        /\ \A d \in CPUs : mode[d] \in {"scan", "resume", "switch"} => d = c
        /\ \A s \in Slots : chan'[s] = IF s = s0 THEN NoSlot ELSE chan[s]
        /\ \A s \in Slots : where'[s] = IF s = s0 THEN "user" ELSE where[s]
        /\ \A d \in CPUs : mode'[d] = IF d = c THEN "run" ELSE mode[d]
        /\ ptlock' = NoCpu
        /\ UNCHANGED <<state, parent, killed, child, due, cpu, tickslock>>
    BY <1>0, <1>l, <1>u, <2>1, <2>4, Ranges, Zenon DEF Typed
  <2>l. ASSUME NEW d \in CPUs PROVE CpuLocks(d)'
    BY <2>p, Zenon DEF ProcInv, CpuLocks, Refs
  <2>c. ASSUME NEW d \in CPUs PROVE CpuSlot(d)'
    BY <2>p, ZenonT(30) DEF ProcInv, CpuSlot, Refs
  <2>o. OwnStacks'
    BY <2>p, Zenon DEF ProcInv, OwnStacks
  <2>s. ASSUME NEW s \in Slots PROVE SlotIdle(s)'
    BY <2>p, Zenon DEF ProcInv, SlotIdle, Refs
  <2>f. ASSUME NEW s \in Slots PROVE Forking(s)'
    BY <2>p DEF ProcInv, Forking
  <2>h. ASSUME NEW s \in Slots PROVE HasParent(s)'
    BY <2>p, Zenon DEF ProcInv, HasParent, Live
  <2>i. ASSUME NEW s \in Slots PROVE InSleep(s)'
    BY <2>p, SMTT(30) DEF ProcInv, InSleep, Refs
  <2>w. ASSUME NEW s \in Slots PROVE Waits(s)'
    BY <2>p DEF ProcInv, Waits, Refs
  <2>n. ASSUME NEW s \in Slots PROVE Sleeps(s)'
    BY <2>p, ZenonT(30) DEF ProcInv, Sleeps, Refs
  <2> QED
    BY <2>t, <2>l, <2>c, <2>o, <2>s, <2>f, <2>h, <2>i, <2>w, <2>n, Zenon DEF ProcInv
<1>3. CASE Zombies(s0) = {} /\ Children(s0) # {} /\ killed[s0] = FALSE
  <2>1. UNCHANGED <<pid, parent, killed>> /\ state' = [state EXCEPT ![s0] = "SLEEPING"]
    BY <1>3, Zenon DEF Wait
  <2>3. state'[s0] = "SLEEPING"
    BY <1>0, <2>1, Zenon DEF Typed
  <2>4. /\ ptlock' = c /\ mode' = [mode EXCEPT ![c] = "switch"]
        /\ chan' = [chan EXCEPT ![s0] = s0] /\ where' = [where EXCEPT ![s0] = "wait"]
    BY <2>3, Zenon DEF Wait, Goto, Sched
  <2>5. /\ \E t \in Slots : parent[t] = s0
        /\ \A t \in Slots : parent[t] = s0 => state[t] # "ZOMBIE"
    BY <1>3, Zenon DEF Zombies, Children
  <2> HIDE DEF s0
  <2>t. Typed'
    BY <1>0, <1>u, <2>1, <2>4, Zenon DEF Typed, States, Labels, Modes
  <2>p. /\ Refs
        /\ mode[c] \in {"run", "resume"} /\ where[s0] \in {"user", "wait"} /\ cpu[c] = s0
        /\ s0 \in Slots /\ state[s0] = "RUNNING" /\ \A d \in CPUs : cpu[d] = s0 => d = c
        /\ \A d \in CPUs : mode[d] \in {"scan", "resume", "switch"} => d = c
        /\ killed[s0] = FALSE
        /\ \E t \in Slots : parent[t] = s0
        /\ \A t \in Slots : parent[t] = s0 => state[t] # "ZOMBIE"
        /\ \A s \in Slots : state'[s] = IF s = s0 THEN "SLEEPING" ELSE state[s]
        /\ \A s \in Slots : chan'[s] = IF s = s0 THEN s0 ELSE chan[s]
        /\ \A s \in Slots : where'[s] = IF s = s0 THEN "wait" ELSE where[s]
        /\ \A d \in CPUs : mode'[d] = IF d = c THEN "switch" ELSE mode[d]
        /\ ptlock' = c
        /\ UNCHANGED <<parent, killed, child, due, cpu, tickslock>>
    BY <1>0, <1>l, <1>u, <1>3, <2>1, <2>4, <2>5, Ranges, Zenon DEF Typed
  <2>l. ASSUME NEW d \in CPUs PROVE CpuLocks(d)'
    BY <2>p, Zenon DEF ProcInv, CpuLocks, Refs
  <2>c. ASSUME NEW d \in CPUs PROVE CpuSlot(d)'
    BY <2>p DEF ProcInv, CpuSlot, Refs
  <2>o. OwnStacks'
    BY <2>p, Zenon DEF ProcInv, OwnStacks
  <2>s. ASSUME NEW s \in Slots PROVE SlotIdle(s)'
    BY <2>p, Zenon DEF ProcInv, SlotIdle, Refs
  <2>f. ASSUME NEW s \in Slots PROVE Forking(s)'
    BY <2>p DEF ProcInv, Forking
  <2>h. ASSUME NEW s \in Slots PROVE HasParent(s)'
    BY <2>p, SMTT(30) DEF ProcInv, HasParent, Live, Refs
  <2>i. ASSUME NEW s \in Slots PROVE InSleep(s)'
    BY <2>p, SMTT(30) DEF ProcInv, InSleep, Refs
  <2>w. ASSUME NEW s \in Slots PROVE Waits(s)'
    BY <2>p, SMTT(30) DEF ProcInv, Waits, Refs
  <2>n. ASSUME NEW s \in Slots PROVE Sleeps(s)'
    BY <2>p DEF ProcInv, Sleeps, Refs
  <2> QED
    BY <2>t, <2>l, <2>c, <2>o, <2>s, <2>f, <2>h, <2>i, <2>w, <2>n, Zenon DEF ProcInv
<1> QED
  <2>1. killed[s0] = TRUE \/ killed[s0] = FALSE
    BY <1>0, Zenon DEF Typed
  <2> QED
    BY <1>1, <1>2, <1>3, <2>1, Zenon

\* kill marks a process and wakes it.
LEMMA KillKeeps ==
  ASSUME ProcInv, NEW c \in CPUs, NEW k \in KillPids, Kill(c, k) PROVE ProcInv'
<1>1. PICK t \in Slots :
        /\ killed' = [killed EXCEPT ![t] = TRUE]
        /\ state' = [state EXCEPT ![t] = IF @ = "SLEEPING" THEN "RUNNABLE" ELSE @]
  BY Zenon DEF Kill
<1>0. /\ Typed /\ ptlock = NoCpu
      /\ UNCHANGED <<pid, parent, chan, where, child, due, cpu, mode, pos, ptlock, tickslock, nextpid>>
  BY Zenon DEF ProcInv, Kill, cpuVars, lockVars
<1>m. \A d \in CPUs : mode[d] # "switch"
  BY <1>0, ProcConstants, Zenon DEF ProcInv, CpuLocks
<1>t. Typed'
  <2>1. state' \in [Slots -> States]
    BY <1>0, <1>1, Zenon DEF Typed, States
  <2> QED
    BY <1>0, <1>1, <2>1, Zenon DEF Typed
<1>p. /\ Refs
      /\ \A d \in CPUs : mode[d] # "switch"
      /\ \A s \in Slots : state'[s] = IF s = t /\ state[s] = "SLEEPING" THEN "RUNNABLE" ELSE state[s]
      /\ \A s \in Slots : s # t => killed'[s] = killed[s]
      /\ UNCHANGED <<parent, chan, where, child, due, cpu, mode, ptlock, tickslock>>
  BY <1>0, <1>1, <1>m, Ranges, Zenon DEF Typed
<1>l. ASSUME NEW d \in CPUs PROVE CpuLocks(d)'
  BY <1>p, Zenon DEF ProcInv, CpuLocks
<1>c. ASSUME NEW d \in CPUs PROVE CpuSlot(d)'
  BY <1>p, Zenon DEF ProcInv, CpuSlot, Refs
<1>o. OwnStacks'
  BY <1>p, Zenon DEF ProcInv, OwnStacks
<1>s. ASSUME NEW s \in Slots PROVE SlotIdle(s)'
  BY <1>p, Zenon DEF ProcInv, SlotIdle, Refs
<1>f. ASSUME NEW s \in Slots PROVE Forking(s)'
  BY <1>p, Zenon DEF ProcInv, Forking
<1>h. ASSUME NEW s \in Slots PROVE HasParent(s)'
  BY <1>p, Zenon DEF ProcInv, HasParent, Live, Refs
<1>i. ASSUME NEW s \in Slots PROVE InSleep(s)'
  BY <1>p, Zenon DEF ProcInv, InSleep
<1>w. ASSUME NEW s \in Slots PROVE Waits(s)'
  BY <1>p, ZenonT(30) DEF ProcInv, Waits, Refs
<1>n. ASSUME NEW s \in Slots PROVE Sleeps(s)'
  BY <1>p, Zenon DEF ProcInv, Sleeps, Refs
<1> QED
  BY <1>t, <1>l, <1>c, <1>o, <1>s, <1>f, <1>h, <1>i, <1>w, <1>n, Zenon DEF ProcInv

\* sys_sleep takes tickslock and tests ticks.
LEMMA SysSleepKeeps ==
  ASSUME ProcInv, NEW c \in CPUs, SysSleep(c) PROVE ProcInv'
<1> DEFINE s0 == cpu[c]
<1>0. /\ Typed /\ mode[c] = "run" /\ where[s0] = "user" /\ tickslock = NoCpu
      /\ s0 \in Slots /\ state[s0] = "RUNNING" /\ cpu[c] = s0
  BY Current, Zenon DEF ProcInv, SysSleep, Enters, Runs
<1>1. /\ due' = [due EXCEPT ![s0] = NTICKS] /\ where' = [where EXCEPT ![s0] = "sleep"]
      /\ tickslock' = c
      /\ UNCHANGED <<state, pid, parent, killed, chan, child, cpu, mode, pos, ptlock, nextpid>>
  BY Zenon DEF SysSleep, Goto, cpuVars
<1> HIDE DEF s0
<1>t. Typed'
  BY <1>0, <1>1, ProcConstants, Zenon DEF Typed, Labels
<1>p. /\ Refs
      /\ mode[c] = "run" /\ where[s0] = "user" /\ tickslock = NoCpu /\ NTICKS > 0
      /\ s0 \in Slots /\ state[s0] = "RUNNING" /\ cpu[c] = s0
      /\ \A s \in Slots : due'[s] = IF s = s0 THEN NTICKS ELSE due[s]
      /\ \A s \in Slots : where'[s] = IF s = s0 THEN "sleep" ELSE where[s]
      /\ tickslock' = c
      /\ UNCHANGED <<state, parent, killed, chan, child, cpu, mode, ptlock>>
  BY <1>0, <1>1, ProcConstants, Ranges DEF Typed
<1>l. ASSUME NEW d \in CPUs PROVE CpuLocks(d)'
  BY <1>p, Zenon DEF ProcInv, CpuLocks, Refs
<1>c. ASSUME NEW d \in CPUs PROVE CpuSlot(d)'
  BY <1>p, Zenon DEF ProcInv, CpuSlot
<1>o. OwnStacks'
  BY <1>p, Zenon DEF ProcInv, OwnStacks
<1>s. ASSUME NEW s \in Slots PROVE SlotIdle(s)'
  BY <1>p, Zenon DEF ProcInv, SlotIdle, Refs
<1>f. ASSUME NEW s \in Slots PROVE Forking(s)'
  BY <1>p DEF ProcInv, Forking
<1>h. ASSUME NEW s \in Slots PROVE HasParent(s)'
  BY <1>p, Zenon DEF ProcInv, HasParent, Live
<1>i. ASSUME NEW s \in Slots PROVE InSleep(s)'
  BY <1>p, Zenon DEF ProcInv, InSleep, Refs
<1>w. ASSUME NEW s \in Slots PROVE Waits(s)'
  BY <1>p, Zenon DEF ProcInv, Waits
<1>n. ASSUME NEW s \in Slots PROVE Sleeps(s)'
  BY <1>p, Zenon DEF ProcInv, Sleeps, Refs
<1> QED
  BY <1>t, <1>l, <1>c, <1>o, <1>s, <1>f, <1>h, <1>i, <1>w, <1>n, Zenon DEF ProcInv

\* sys_sleep tests ticks again after a wakeup.
LEMMA SleepAgainKeeps ==
  ASSUME ProcInv, NEW c \in CPUs, SleepAgain(c) PROVE ProcInv'
<1> DEFINE s0 == cpu[c]
<1>0. /\ Typed /\ mode[c] = "run" /\ where[s0] = "sys_sleep" /\ tickslock = NoCpu
      /\ s0 \in Slots /\ state[s0] = "RUNNING" /\ cpu[c] = s0
      /\ UNCHANGED <<state, pid, parent, killed, chan, child, cpu, mode, pos, ptlock, nextpid>>
  BY Current, Zenon DEF ProcInv, SleepAgain, Runs, cpuVars
<1>1. CASE /\ where' = [where EXCEPT ![s0] = "user"] /\ due' = [due EXCEPT ![s0] = 0]
           /\ UNCHANGED tickslock
  <2> HIDE DEF s0
  <2>t. Typed'
    BY <1>0, <1>1, Zenon DEF Typed, Labels
  <2>p. /\ Refs
        /\ where[s0] = "sys_sleep" /\ s0 \in Slots /\ state[s0] = "RUNNING"
        /\ \A s \in Slots : due'[s] = IF s = s0 THEN 0 ELSE due[s]
        /\ \A s \in Slots : where'[s] = IF s = s0 THEN "user" ELSE where[s]
        /\ UNCHANGED <<state, parent, killed, chan, child, cpu, mode, ptlock, tickslock>>
    BY <1>0, <1>1, Ranges, Zenon DEF Typed
  <2>l. ASSUME NEW d \in CPUs PROVE CpuLocks(d)'
    BY <2>p, Zenon DEF ProcInv, CpuLocks
  <2>c. ASSUME NEW d \in CPUs PROVE CpuSlot(d)'
    BY <2>p, Zenon DEF ProcInv, CpuSlot
  <2>o. OwnStacks'
    BY <2>p, Zenon DEF ProcInv, OwnStacks
  <2>s. ASSUME NEW s \in Slots PROVE SlotIdle(s)'
    BY <2>p, Zenon DEF ProcInv, SlotIdle, Refs
  <2>f. ASSUME NEW s \in Slots PROVE Forking(s)'
    BY <2>p DEF ProcInv, Forking
  <2>h. ASSUME NEW s \in Slots PROVE HasParent(s)'
    BY <2>p, Zenon DEF ProcInv, HasParent, Live
  <2>i. ASSUME NEW s \in Slots PROVE InSleep(s)'
    BY <2>p DEF ProcInv, InSleep, Refs
  <2>w. ASSUME NEW s \in Slots PROVE Waits(s)'
    BY <2>p, Zenon DEF ProcInv, Waits
  <2>n. ASSUME NEW s \in Slots PROVE Sleeps(s)'
    BY <2>p, Zenon DEF ProcInv, Sleeps, Refs
  <2> QED
    BY <2>t, <2>l, <2>c, <2>o, <2>s, <2>f, <2>h, <2>i, <2>w, <2>n, Zenon DEF ProcInv
<1>2. CASE /\ where' = [where EXCEPT ![s0] = "sleep"] /\ tickslock' = c
           /\ due' = due /\ due[s0] # 0
  <2> HIDE DEF s0
  <2>t. Typed'
    BY <1>0, <1>2, Zenon DEF Typed, Labels
  <2>p. /\ Refs
        /\ mode[c] = "run" /\ where[s0] = "sys_sleep" /\ tickslock = NoCpu /\ due[s0] > 0
        /\ s0 \in Slots /\ state[s0] = "RUNNING" /\ cpu[c] = s0
        /\ \A s \in Slots : where'[s] = IF s = s0 THEN "sleep" ELSE where[s]
        /\ tickslock' = c
        /\ UNCHANGED <<state, parent, killed, chan, child, due, cpu, mode, ptlock>>
    BY <1>0, <1>2, Ranges DEF Typed
  <2>l. ASSUME NEW d \in CPUs PROVE CpuLocks(d)'
    BY <2>p, Zenon DEF ProcInv, CpuLocks, Refs
  <2>c. ASSUME NEW d \in CPUs PROVE CpuSlot(d)'
    BY <2>p, Zenon DEF ProcInv, CpuSlot
  <2>o. OwnStacks'
    BY <2>p, Zenon DEF ProcInv, OwnStacks
  <2>s. ASSUME NEW s \in Slots PROVE SlotIdle(s)'
    BY <2>p, Zenon DEF ProcInv, SlotIdle, Refs
  <2>f. ASSUME NEW s \in Slots PROVE Forking(s)'
    BY <2>p, Zenon DEF ProcInv, Forking
  <2>h. ASSUME NEW s \in Slots PROVE HasParent(s)'
    BY <2>p, Zenon DEF ProcInv, HasParent, Live
  <2>i. ASSUME NEW s \in Slots PROVE InSleep(s)'
    BY <2>p, Zenon DEF ProcInv, InSleep, Refs
  <2>w. ASSUME NEW s \in Slots PROVE Waits(s)'
    BY <2>p, Zenon DEF ProcInv, Waits
  <2>n. ASSUME NEW s \in Slots PROVE Sleeps(s)'
    BY <2>p, Zenon DEF ProcInv, Sleeps
  <2> QED
    BY <2>t, <2>l, <2>c, <2>o, <2>s, <2>f, <2>h, <2>i, <2>w, <2>n, Zenon DEF ProcInv
<1> QED
  BY <1>1, <1>2, Zenon DEF SleepAgain, Goto

\* sleep takes ptable.lock before it gives up tickslock.
LEMMA SleepKeeps ==
  ASSUME ProcInv, NEW c \in CPUs, Sleep(c) PROVE ProcInv'
<1> DEFINE s0 == cpu[c]
<1>0. /\ Typed /\ mode[c] = "run" /\ where[s0] = "sleep" /\ ptlock = NoCpu
      /\ s0 \in Slots /\ state[s0] = "RUNNING" /\ cpu[c] = s0
      /\ \A d \in CPUs : cpu[d] = s0 => d = c
  BY Current, Zenon DEF ProcInv, Sleep, Runs
<1>1. tickslock = c /\ due[s0] > 0
  BY <1>0, Zenon DEF ProcInv, InSleep
<1>2. /\ tickslock' = NoCpu /\ chan' = [chan EXCEPT ![s0] = Ticks]
      /\ state' = [state EXCEPT ![s0] = "SLEEPING"] /\ where' = [where EXCEPT ![s0] = "sleeping"]
      /\ ptlock' = c /\ mode' = [mode EXCEPT ![c] = "switch"]
      /\ UNCHANGED <<pid, parent, killed, child, due, cpu, pos, nextpid>>
  BY <1>1, Zenon DEF Sleep, Goto, Sched
<1>m. \A d \in CPUs : mode[d] # "switch"
  BY <1>0, ProcConstants, Zenon DEF ProcInv, CpuLocks
<1> HIDE DEF s0
<1>t. Typed'
  BY <1>0, <1>2, Zenon DEF Typed, States, Labels, Modes
<1>p. /\ Refs
      /\ mode[c] = "run" /\ where[s0] = "sleep" /\ ptlock = NoCpu /\ cpu[c] = s0
      /\ s0 \in Slots /\ state[s0] = "RUNNING" /\ tickslock = c /\ due[s0] > 0
      /\ \A d \in CPUs : cpu[d] = s0 => d = c
      /\ \A d \in CPUs : mode[d] # "switch"
      /\ \A s \in Slots : state'[s] = IF s = s0 THEN "SLEEPING" ELSE state[s]
      /\ \A s \in Slots : chan'[s] = IF s = s0 THEN Ticks ELSE chan[s]
      /\ \A s \in Slots : where'[s] = IF s = s0 THEN "sleeping" ELSE where[s]
      /\ \A d \in CPUs : mode'[d] = IF d = c THEN "switch" ELSE mode[d]
      /\ ptlock' = c
      /\ tickslock' = NoCpu
      /\ UNCHANGED <<parent, killed, child, due, cpu>>
  BY <1>0, <1>1, <1>2, <1>m, Ranges, Zenon DEF Typed
<1>l. ASSUME NEW d \in CPUs PROVE CpuLocks(d)'
  BY <1>p, Zenon DEF ProcInv, CpuLocks, Refs
<1>c. ASSUME NEW d \in CPUs PROVE CpuSlot(d)'
  BY <1>p DEF ProcInv, CpuSlot, Refs
<1>o. OwnStacks'
  BY <1>p, Zenon DEF ProcInv, OwnStacks
<1>s. ASSUME NEW s \in Slots PROVE SlotIdle(s)'
  BY <1>p, Zenon DEF ProcInv, SlotIdle, Refs
<1>f. ASSUME NEW s \in Slots PROVE Forking(s)'
  BY <1>p, SMTT(30) DEF ProcInv, Forking
<1>h. ASSUME NEW s \in Slots PROVE HasParent(s)'
  BY <1>p, SMTT(30) DEF ProcInv, HasParent, Live, Refs
<1>i. ASSUME NEW s \in Slots PROVE InSleep(s)'
  BY <1>p, SMTT(30) DEF ProcInv, InSleep, Refs
<1>w. ASSUME NEW s \in Slots PROVE Waits(s)'
  BY <1>p DEF ProcInv, Waits, Refs
<1>n. ASSUME NEW s \in Slots PROVE Sleeps(s)'
  BY <1>p, Zenon DEF ProcInv, Sleeps, Refs
<1> QED
  BY <1>t, <1>l, <1>c, <1>o, <1>s, <1>f, <1>h, <1>i, <1>w, <1>n, Zenon DEF ProcInv

-------------------------------------------------------------------------------
\* At boot init is alone and runnable.
LEMMA InitInv == Init => ProcInv
<1> SUFFICES ASSUME Init PROVE ProcInv
  OBVIOUS
<1>t. Typed
  BY ProcConstants, Numbers, Zenon DEF Init, Typed, States, Labels, Modes
<1>c. OwnStacks /\ \A c \in CPUs : CpuLocks(c) /\ CpuSlot(c)
  BY ProcConstants, Zenon DEF Init, CpuLocks, CpuSlot, OwnStacks
<1>s. \A s \in Slots :
        SlotIdle(s) /\ Forking(s) /\ HasParent(s) /\ InSleep(s) /\ Waits(s) /\ Sleeps(s)
  BY Zenon DEF Init, SlotIdle, Forking, HasParent, Live, InSleep, Waits, Sleeps
<1> QED
  BY <1>t, <1>c, <1>s, Zenon DEF ProcInv

\* Every step of every CPU keeps the invariant.
LEMMA NextInv == ProcInv /\ [Next]_vars => ProcInv'
<1> SUFFICES ASSUME ProcInv, [Next]_vars PROVE ProcInv'
  OBVIOUS
<1>1. CASE Next
  <2> PICK c \in CPUs :
        \/ SchedStep(c) \/ InterruptStep(c) \/ TimerInterrupt(c) \/ SystemCall(c)
        \/ ForkDone(c) \/ ForkFail(c) \/ SleepAgain(c) \/ Sleep(c)
    BY <1>1, Zenon DEF Next
  <2>1. CASE SchedStep(c)
    BY <2>1, SchedulerStartKeeps, SchedulerScanKeeps, SchedulerReturnKeeps, ResumeKeeps, Zenon DEF SchedStep
  <2>2. CASE InterruptStep(c)
    BY <2>2, TickWakeupKeeps, YieldKeeps, Zenon DEF InterruptStep
  <2>3. CASE SystemCall(c)
    BY <2>3, AllocProcKeeps, ExitKeeps, WaitKeeps, SysSleepKeeps, KillKeeps, Zenon DEF SystemCall
  <2> QED
    BY <2>1, <2>2, <2>3, TimerInterruptKeeps, ForkDoneKeeps, ForkFailKeeps, SleepAgainKeeps, SleepKeeps, Zenon
<1>2. CASE UNCHANGED vars
  <2>1. UNCHANGED <<state, pid, parent, killed, chan, where, child, due, cpu, mode, pos, ptlock, tickslock, nextpid>>
    BY <1>2, Zenon DEF vars, slotVars, cpuVars, lockVars
  <2> QED
    BY <2>1 DEF ProcInv, Typed, CpuLocks, CpuSlot, OwnStacks, SlotIdle, Forking, HasParent, InSleep,
                Waits, Sleeps
<1> QED
  BY <1>1, <1>2, Zenon

\* proc.c: the invariant holds at every moment.
THEOREM ProcInvariance == Spec => []ProcInv
BY InitInv, NextInv, PTL DEF Spec

\* swtch, wait and fork: no two CPUs are ever on one kernel stack, and no wait()
\* or failed fork() frees the stack a CPU is on, for every number of slots and
\* CPUs.  The reason is in CpuLocks and CpuSlot: a process leaves RUNNING only on
\* its own CPU, which then has ptable.lock until it is off the stack.
THEOREM StacksAreOwned == Spec => []StackOwned
<1>1. ProcInv => StackOwned
  <2> SUFFICES ASSUME ProcInv, NEW c \in CPUs, cpu[c] # NoSlot
               PROVE  /\ state[cpu[c]] \notin {"UNUSED", "EMBRYO"}
                      /\ \A d \in CPUs \ {c} : cpu[d] # cpu[c]
    BY DEF StackOwned
  <2> QED
    BY DEF ProcInv, CpuSlot, OwnStacks
<1> QED
  BY <1>1, ProcInvariance, PTL

\* exit and wait: whoever sleeps in wait() has a child, no child of it is a
\* zombie and it is not killed: the exit, or the kill, that would have to wake it
\* cannot fall between its scan of the table and its sleep.
THEOREM ExitMeetsWait == Spec => []WaiterHasLiveChild
<1>1. ProcInv => WaiterHasLiveChild
  <2> SUFFICES ASSUME ProcInv, NEW s \in Slots, state[s] = "SLEEPING" /\ chan[s] = s
               PROVE  Children(s) # {} /\ Zombies(s) = {} /\ ~killed[s]
    BY DEF WaiterHasLiveChild
  <2>1. Waits(s)
    BY DEF ProcInv
  <2> QED
    BY <2>1, SMTT(30) DEF Waits, Children, Zombies
<1> QED
  BY <1>1, ProcInvariance, PTL

\* exit, fork, wait: every process but init has a parent that can wait for it.
THEOREM NobodyIsOrphaned == Spec => []ParentCanWait
<1>1. ProcInv => ParentCanWait
  BY DEF ProcInv, HasParent, Live, ParentCanWait
<1> QED
  BY <1>1, ProcInvariance, PTL

\* sys_sleep, sleep and the timer interrupt: no tick is lost between a test of
\* ticks and the sleep, on any number of CPUs.
THEOREM TicksAreSeen == Spec => []NoMissedTick
<1>1. ProcInv => NoMissedTick
  <2> SUFFICES ASSUME ProcInv, NEW s \in Slots,
                      state[s] = "SLEEPING" /\ chan[s] = Ticks /\ due[s] = 0
               PROVE  mode[Cpu0] = "tick"
    BY DEF NoMissedTick
  <2> QED
    BY DEF ProcInv, Sleeps
<1> QED
  BY <1>1, ProcInvariance, PTL
===============================================================================
