----------------------------- MODULE BufferCache -----------------------------
(***************************************************************************)
(* The block cache of src/xv6A1/bio.c over the sleep locks of sleeplock.c  *)
(* and the disk driver of ide.c.  A section under bcache.lock, under       *)
(* idelock or under a sleep lock's spin lock is one step.                  *)
(***************************************************************************)
EXTENDS Naturals, Sequences, FiniteSets

CONSTANTS Users, NoProc,        \* the processes that use the cache
          Sectors, NoSector,    \* a buffer that never held a block has NoSector
          Values, Blank,        \* abstract contents of a block
          NBUF,
          MaxPinned             \* most buffers an open transaction keeps dirty

ASSUME CacheConstants ==
  /\ IsFiniteSet(Users) /\ NoProc \notin Users
  /\ NoSector \notin Sectors
  /\ Blank \in Values
  /\ NBUF \in Nat /\ MaxPinned \in Nat

Bufs  == 1 .. NBUF
NoReq == [buf |-> 0, block |-> NoSector, write |-> FALSE, data |-> Blank]

VARIABLES
  buf,       \* the buffers: struct buf
  lru,       \* the list bcache.head, most recently used first
  idequeue,  \* buffers waiting for the disk, the active one first
  device,    \* the request the disk is working on
  platter,   \* what the disk holds
  at,        \* where each process is
  cur        \* the buffer each process has a reference to, or 0

cacheVars == <<buf, lru, idequeue, device, platter, at, cur>>

CacheInit ==
  /\ buf = [i \in Bufs |-> [blockno |-> NoSector, refcnt |-> 0, valid |-> FALSE,
                            dirty |-> FALSE, pid |-> NoProc, data |-> Blank]]
  /\ lru = [i \in Bufs |-> NBUF + 1 - i]
  /\ idequeue = << >> /\ device = NoReq
  /\ platter = [b \in Sectors |-> Blank]
  /\ at = [p \in Users |-> "idle"]
  /\ cur = [p \in Users |-> 0]

Goto(p, l) == at' = [at EXCEPT ![p] = l]
-------------------------------------------------------------------------------
(* bget: a buffer for block n, with a reference, before its lock is taken. *)

Unused(i) == buf[i].refcnt = 0

Recyclable(i) == buf[i].refcnt = 0 /\ ~buf[i].dirty

\* The last buffer of the list that may be recycled.
Victim == lru[CHOOSE k \in Bufs : /\ Recyclable(lru[k])
                                  /\ \A m \in k + 1 .. NBUF : ~Recyclable(lru[m])]

Bget(p, n) ==
  LET hits == {i \in Bufs : buf[i].blockno = n} IN
  /\ at[p] = "idle"
  /\ IF hits # {}
     THEN \E i \in hits :
            /\ buf' = [buf EXCEPT ![i].refcnt = @ + 1]
            /\ cur' = [cur EXCEPT ![p] = i]
            /\ Goto(p, "acquire")
     ELSE IF \E i \in Bufs : Recyclable(i)
     THEN /\ buf' = [buf EXCEPT ![Victim].blockno = n, ![Victim].refcnt = 1,
                                ![Victim].valid = FALSE, ![Victim].dirty = FALSE]
          /\ cur' = [cur EXCEPT ![p] = Victim]
          /\ Goto(p, "acquire")
     ELSE Goto(p, "panic") /\ UNCHANGED <<buf, cur>>
  /\ UNCHANGED <<lru, idequeue, device, platter>>

\* acquiresleep's loop: the lock is taken, or the process sleeps on it.
AcquireSleep(p) ==
  /\ at[p] = "acquire"
  /\ IF buf[cur[p]].pid # NoProc
     THEN Goto(p, "sleep_lock") /\ UNCHANGED buf
     ELSE /\ buf' = [buf EXCEPT ![cur[p]].pid = p]
          /\ Goto(p, "locked")
  /\ UNCHANGED <<lru, idequeue, device, platter, cur>>

(* The disk driver. *)

\* idestart hands the buffer, and the data of a write, to the disk.
Idestart(i, b) == [buf |-> i, block |-> b.blockno, write |-> b.dirty, data |-> b.data]

\* iderw for p's buffer, which now holds b: it joins the queue, the disk is
\* started if it was idle, and p sleeps until the interrupt.
Iderw(p, b) ==
  /\ buf' = [buf EXCEPT ![cur[p]] = b]
  /\ idequeue' = Append(idequeue, cur[p])
  /\ device' = IF idequeue = << >> THEN Idestart(cur[p], b) ELSE device
  /\ Goto(p, "sleep_ide")

\* bread after bget: a buffer that is not valid is read from the disk.
Bread(p) ==
  /\ at[p] = "locked"
  /\ IF buf[cur[p]].valid
     THEN Goto(p, "held") /\ UNCHANGED <<buf, idequeue, device>>
     ELSE Iderw(p, buf[cur[p]])
  /\ UNCHANGED <<lru, platter, cur>>

\* The holder changes the data and calls bwrite.
Bwrite(p, v) ==
  /\ at[p] = "held"
  /\ Iderw(p, [buf[cur[p]] EXCEPT !.data = v, !.dirty = TRUE])
  /\ UNCHANGED <<lru, platter, cur>>

\* Buffer i is in the driver's queue q.
Queued(q, i) == \E k \in 1 .. Len(q) : q[k] = i

Pinned == {i \in Bufs : buf[i].dirty /\ ~Queued(idequeue, i)}

\* The holder changes the data and calls log_write, which only marks the buffer.
LogWriteBuf(p, v) ==
  /\ at[p] = "held"
  /\ Cardinality(Pinned \cup {cur[p]}) <= MaxPinned
  /\ buf' = [buf EXCEPT ![cur[p]].data = v, ![cur[p]].dirty = TRUE]
  /\ UNCHANGED <<lru, idequeue, device, platter, at, cur>>

\* What the disk does next after an interrupt.
Restart(q, f) == IF q = << >> THEN NoReq ELSE Idestart(Head(q), f[Head(q)])

\* The disk has done the active request and interrupts: a write has reached
\* the disk, a read's data is copied into the buffer by ideintr.
Ideintr ==
  LET i == Head(idequeue)
      b == buf[i] IN
  /\ device # NoReq
  /\ platter' = IF device.write THEN [platter EXCEPT ![device.block] = device.data] ELSE platter
  /\ buf' = [buf EXCEPT ![i].valid = TRUE, ![i].dirty = FALSE,
               ![i].data = IF b.dirty THEN b.data ELSE platter[device.block]]
  /\ idequeue' = Tail(idequeue)
  /\ device' = Restart(idequeue', buf')
  /\ at' = [p \in Users |-> IF at[p] = "sleep_ide" /\ cur[p] = i THEN "ide" ELSE at[p]]
  /\ UNCHANGED <<lru, cur>>

\* iderw's loop after a wakeup.
IderwAgain(p) ==
  /\ at[p] = "ide"
  /\ Goto(p, IF buf[cur[p]].valid /\ ~buf[cur[p]].dirty THEN "held" ELSE "sleep_ide")
  /\ UNCHANGED <<buf, lru, idequeue, device, platter, cur>>
-------------------------------------------------------------------------------
(* brelse: releasesleep, then the reference under bcache.lock. *)

LockSleepersStay(f, i) == f

LockSleepersWake(f, i) ==
  [p \in Users |-> IF f[p] = "sleep_lock" /\ cur[p] = i THEN "acquire" ELSE f[p]]

Releasesleep(p) ==
  /\ at[p] = "held"
  /\ buf' = [buf EXCEPT ![cur[p]].pid = NoProc]
  /\ at' = LockSleepersWake([at EXCEPT ![p] = "brelse"], cur[p])
  /\ UNCHANGED <<lru, idequeue, device, platter, cur>>

Kept(b) == b

Dropped(b) == [b EXCEPT !.refcnt = @ - 1]

\* brelse unlinks buffer i and puts it at the front of the list.
MoveToFront(i) ==
  LET k == CHOOSE m \in Bufs : lru[m] = i IN
  [m \in Bufs |-> IF m = 1 THEN i ELSE IF m <= k THEN lru[m - 1] ELSE lru[m]]

Brelse(p) ==
  LET i == cur[p] IN
  /\ at[p] = "brelse"
  /\ buf' = [buf EXCEPT ![i] = Dropped(@)]
  /\ lru' = IF buf[i].refcnt = 1 THEN MoveToFront(i) ELSE lru
  /\ cur' = [cur EXCEPT ![p] = 0]
  /\ Goto(p, "idle")
  /\ UNCHANGED <<idequeue, device, platter>>

Step(p) ==
  \/ AcquireSleep(p) \/ Bread(p) \/ IderwAgain(p) \/ Releasesleep(p) \/ Brelse(p)

CacheNext ==
  \/ \E p \in Users :
       \/ Step(p)
       \/ \E n \in Sectors : Bget(p, n)
       \/ \E v \in Values : Bwrite(p, v) \/ LogWriteBuf(p, v)
  \/ Ideintr

CacheSpec == CacheInit /\ [][CacheNext]_cacheVars
-------------------------------------------------------------------------------
(* A sleeping process has someone to wake it: the lock it waits for is held,
   or the disk is working and its buffer is in the queue, whose first buffer is
   the one the disk works on (bio.c, sleeplock.c, ide.c). *)
SleeperHasWaker ==
  /\ \A p \in Users :
       /\ at[p] = "sleep_lock" => buf[cur[p]].pid # NoProc
       /\ at[p] = "sleep_ide" => Queued(idequeue, cur[p])
  /\ IF idequeue = << >> THEN device = NoReq ELSE device.buf = Head(idequeue)

(* bget finds a buffer as long as the pinned buffers leave one for every
   process: the panic at the end of bget is out of reach. *)
BufferForEveryone == \A p \in Users : at[p] # "panic"

\* The current contents of a block: the valid buffer's, else the disk's.
Caching(b) == {i \in Bufs : buf[i].blockno = b /\ buf[i].valid}
Contents(b) == IF Caching(b) = {} THEN platter[b] ELSE buf[CHOOSE i \in Caching(b) : TRUE].data

\* The process that has the block's buffer from bread until brelse.
Holding(b) == {p \in Users : /\ at[p] \in {"held", "ide", "sleep_ide"}
                             /\ buf[cur[p]].valid /\ buf[cur[p]].blockno = b}
Owner(b) == IF Holding(b) = {} THEN NoProc ELSE CHOOSE p \in Holding(b) : TRUE

Abstract == INSTANCE AtomicBlocks
              WITH Procs <- Users, Blocks <- Sectors, Vals <- Values,
                   contents <- [b \in Sectors |-> Contents(b)],
                   owner <- [b \in Sectors |-> Owner(b)]

(* Through recycling, caching and the disk queue, a block has one contents that
   only its single holder replaces, and nothing written is ever lost: bread,
   bwrite, log_write and brelse implement AtomicBlocks. *)
OneCopyOfEachBlock == Abstract!BlocksSpec
===============================================================================
