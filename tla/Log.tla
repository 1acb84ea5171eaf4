--------------------------------- MODULE Log ---------------------------------
(***************************************************************************)
(* The redo log of the file system, src/xv6A1/log.c: begin_op, log_write,  *)
(* end_op, commit and the recovery run by initlog, interleaved over        *)
(* processes and over crashes at any step.  A section run under log.lock   *)
(* is one step; so is a disk write (bwrite of one sector).                 *)
(*                                                                         *)
(* A block's contents are abstract values.  The buffer cache appears as    *)
(* cache[b], what bread(b) returns, with the dirty flag that pins a buffer *)
(* and the buffer lock of the block a process is modifying.                *)
(***************************************************************************)
EXTENDS Integers, Sequences, FiniteSets

CONSTANTS Procs,        \* processes that make file system calls
          InitProc,     \* the process whose first return runs initlog
          Blocks,       \* blocks of the file system proper
          NoBlock,      \* "holds no buffer"
          Vals,         \* abstract contents of a block
          InitVal,      \* what mkfs puts in every block
          MAXOPBLOCKS,  \* blocks begin_op reserves for a call
          OPBLOCKS,     \* most distinct blocks a call really writes
          LOGSIZE,      \* length of the header's block array
          NLOG          \* superblock's nlog: log blocks on disk, header included

ASSUME LogConstants ==
  /\ InitProc \in Procs
  /\ IsFiniteSet(Procs)
  /\ NoBlock \notin Blocks
  /\ InitVal \in Vals
  /\ MAXOPBLOCKS \in Nat /\ OPBLOCKS \in Nat
  /\ LOGSIZE \in Nat /\ NLOG \in Nat
  /\ OPBLOCKS <= MAXOPBLOCKS

VARIABLES
  pc,           \* where each process is in log.c
  tail,         \* the loop index of write_log and install_trans, per process
  held,         \* the buffer a process is modifying
  wrote,        \* the blocks its current call has passed to log_write
  lh,           \* log.lh: the blocks of the running transaction
  outstanding,  \* log.outstanding
  committing,   \* log.committing
  cache,        \* what bread returns for each block
  dirty,        \* the buffers with B_DIRTY
  disk,         \* home locations on disk
  logblk,       \* the log's data blocks on disk
  head          \* the log's header block on disk

procVars == <<pc, tail, held, wrote>>
memVars  == <<lh, outstanding, committing, cache, dirty>>
diskVars == <<disk, logblk, head>>
vars     == <<procVars, memVars, diskVars>>

InOp       == {"in_op", "log_write"}
Committing == {"commit", "write_log", "write_head", "install", "clear", "end_commit"}
Recovering == {"read_head", "r_install", "r_clear"}
Labels     == {"off", "idle", "begin_op", "asleep", "panic"}
                \cup InOp \cup Committing \cup Recovering

RangeOf(s) == {s[i] : i \in 1 .. Len(s)}

\* Where everyone is when the machine starts: the first process is about to
\* recover the log, the others do not exist yet.
BootPc == [p \in Procs |-> IF p = InitProc THEN "read_head" ELSE "off"]

Init ==
  /\ pc = BootPc
  /\ tail = [p \in Procs |-> 1]
  /\ held = [p \in Procs |-> NoBlock]
  /\ wrote = [p \in Procs |-> {}]
  /\ lh = << >> /\ outstanding = 0 /\ committing = FALSE
  /\ disk = [b \in Blocks |-> InitVal]
  /\ cache = disk /\ dirty = {}
  /\ logblk = [i \in 1 .. LOGSIZE |-> InitVal]
  /\ head = << >>
-------------------------------------------------------------------------------
(* Sleep and wakeup on the channel &log. *)

WakeupNobody(f) == f

Wakeup(f) == [q \in Procs |-> IF f[q] = "asleep" THEN "begin_op" ELSE f[q]]

(* begin_op *)

HasSpaceIgnoringLog == (outstanding + 1) * MAXOPBLOCKS <= LOGSIZE

HasSpace == Len(lh) + (outstanding + 1) * MAXOPBLOCKS <= LOGSIZE

MustWaitForSpaceOnly == ~HasSpace

MustWait == committing \/ ~HasSpace

\* The body of begin_op's loop; a process that was woken runs it again.
BeginOp(p) ==
  /\ pc[p] \in {"idle", "begin_op"}
  /\ IF MustWait
     THEN /\ pc' = [pc EXCEPT ![p] = "asleep"]
          /\ UNCHANGED <<outstanding, wrote>>
     ELSE /\ pc' = [pc EXCEPT ![p] = "in_op"]
          /\ outstanding' = outstanding + 1
          /\ wrote' = [wrote EXCEPT ![p] = {}]
  /\ UNCHANGED <<tail, held, lh, committing, cache, dirty, diskVars>>

(* A file system call's bread; modify; log_write; brelse. *)

BufferFree(b) == \A q \in Procs : held[q] # b

ModifyAndRelease(p, b, v) ==
  /\ pc[p] = "in_op"
  /\ BufferFree(b)
  /\ cache' = [cache EXCEPT ![b] = v]
  /\ pc' = [pc EXCEPT ![p] = "log_write"]
  /\ UNCHANGED <<tail, held, wrote, lh, outstanding, committing, dirty, diskVars>>

\* The caller locks the buffer, changes its data and enters log_write, whose
\* two panics are tested before log.lock is taken.
ModifyBlock(p, b, v) ==
  /\ pc[p] = "in_op"
  /\ BufferFree(b)
  /\ Cardinality(wrote[p] \cup {b}) <= OPBLOCKS
  /\ cache' = [cache EXCEPT ![b] = v]
  /\ held' = [held EXCEPT ![p] = b]
  /\ pc' = [pc EXCEPT ![p] =
              IF Len(lh) >= LOGSIZE \/ Len(lh) >= NLOG - 1 \/ outstanding < 1
              THEN "panic" ELSE "log_write"]
  /\ UNCHANGED <<tail, wrote, lh, outstanding, committing, dirty, diskVars>>

AbsorbNever(s, b) == Append(s, b)

\* log_write's search for b: an entry is reused (absorption) or added.
Absorb(s, b) == IF b \in RangeOf(s) THEN s ELSE Append(s, b)

PinNothing(d, b) == d

Pin(d, b) == d \cup {b}

\* log_write under log.lock, then the caller's brelse.
LogWrite(p) ==
  /\ pc[p] = "log_write"
  /\ lh' = Absorb(lh, held[p])
  /\ dirty' = Pin(dirty, held[p])
  /\ wrote' = [wrote EXCEPT ![p] = @ \cup {held[p]}]
  /\ held' = [held EXCEPT ![p] = NoBlock]
  /\ pc' = [pc EXCEPT ![p] = "in_op"]
  /\ UNCHANGED <<tail, outstanding, committing, cache, diskVars>>

\* bget recycles a buffer that nobody holds and that is not dirty; a later
\* bread takes the block from the disk again.
Evict(b) ==
  /\ b \notin dirty /\ BufferFree(b)
  /\ cache' = [cache EXCEPT ![b] = disk[b]]
  /\ UNCHANGED <<procVars, lh, outstanding, committing, dirty, diskVars>>

(* end_op *)

EndOp(p) ==
  /\ pc[p] = "in_op"
  /\ outstanding' = outstanding - 1
  /\ IF committing
     THEN pc' = [pc EXCEPT ![p] = "panic"] /\ UNCHANGED committing
     ELSE IF outstanding = 1
     THEN pc' = [pc EXCEPT ![p] = "commit"] /\ committing' = TRUE
     ELSE pc' = Wakeup([pc EXCEPT ![p] = "idle"]) /\ UNCHANGED committing
  /\ UNCHANGED <<tail, held, wrote, lh, cache, dirty, diskVars>>

(* commit, by the process whose end_op found no other call outstanding *)

Commit(p) ==
  /\ pc[p] = "commit"
  /\ pc' = [pc EXCEPT ![p] = IF Len(lh) > 0 THEN "write_log" ELSE "end_commit"]
  /\ tail' = [tail EXCEPT ![p] = 1]
  /\ UNCHANGED <<held, wrote, memVars, diskVars>>

\* The loop of write_log and of install_trans moves on to the next entry, or
\* leaves the loop for the step that follows it in the caller.
Advance(p, after) ==
  IF tail[p] < Len(lh)
  THEN tail' = [tail EXCEPT ![p] = @ + 1] /\ UNCHANGED pc
  ELSE tail' = [tail EXCEPT ![p] = 1] /\ pc' = [pc EXCEPT ![p] = after]

WriteLogSkipHead(p) ==
  /\ pc[p] = "write_log"
  /\ BufferFree(lh[tail[p]])
  /\ logblk' = [logblk EXCEPT ![tail[p]] = cache[lh[tail[p]]]]
  /\ Advance(p, "install")
  /\ UNCHANGED <<held, wrote, memVars, disk, head>>

\* One turn of write_log: a cached block is copied to its log block.
WriteLog(p) ==
  /\ pc[p] = "write_log"
  /\ BufferFree(lh[tail[p]])
  /\ logblk' = [logblk EXCEPT ![tail[p]] = cache[lh[tail[p]]]]
  /\ Advance(p, "write_head")
  /\ UNCHANGED <<held, wrote, memVars, disk, head>>

\* write_head with the transaction's header: the commit point.
WriteHead(p) ==
  /\ pc[p] = "write_head"
  /\ head' = lh
  /\ pc' = [pc EXCEPT ![p] = "install"]
  /\ UNCHANGED <<tail, held, wrote, memVars, disk, logblk>>

\* One turn of install_trans, called by commit and by recovery.  bwrite
\* leaves the home buffer clean.
InstallTrans(p) ==
  /\ pc[p] \in {"install", "r_install"}
  /\ BufferFree(lh[tail[p]])
  /\ disk' = [disk EXCEPT ![lh[tail[p]]] = logblk[tail[p]]]
  /\ cache' = [cache EXCEPT ![lh[tail[p]]] = logblk[tail[p]]]
  /\ dirty' = dirty \ {lh[tail[p]]}
  /\ Advance(p, IF pc[p] = "install" THEN "clear" ELSE "r_clear")
  /\ UNCHANGED <<held, wrote, lh, outstanding, committing, logblk, head>>

\* log.lh.n = 0; write_head().
ClearLog(p) ==
  /\ pc[p] = "clear"
  /\ lh' = << >> /\ head' = << >>
  /\ pc' = [pc EXCEPT ![p] = "end_commit"]
  /\ UNCHANGED <<tail, held, wrote, outstanding, committing, cache, dirty, disk, logblk>>

\* The rest of end_op after commit().
EndCommit(p) ==
  /\ pc[p] = "end_commit"
  /\ committing' = FALSE
  /\ pc' = Wakeup([pc EXCEPT ![p] = "idle"])
  /\ UNCHANGED <<tail, held, wrote, lh, outstanding, cache, dirty, diskVars>>
-------------------------------------------------------------------------------
(* Crash and recovery: initlog calls recover_from_log before any call. *)

RecoverNothing(p) ==
  /\ pc[p] = "read_head"
  /\ pc' = [pc EXCEPT ![p] = "r_clear"]
  /\ UNCHANGED <<tail, held, wrote, memVars, diskVars>>

ReadHead(p) ==
  /\ pc[p] = "read_head"
  /\ lh' = head
  /\ pc' = [pc EXCEPT ![p] = IF Len(head) > 0 THEN "r_install" ELSE "r_clear"]
  /\ UNCHANGED <<tail, held, wrote, outstanding, committing, cache, dirty, diskVars>>

RecoverClear(p) ==
  /\ pc[p] = "r_clear"
  /\ lh' = << >> /\ head' = << >>
  /\ pc' = [q \in Procs |-> "idle"]
  /\ UNCHANGED <<tail, held, wrote, outstanding, committing, cache, dirty, disk, logblk>>

\* The machine stops: memory is lost and the next boot starts at once.
Crash ==
  /\ pc' = BootPc
  /\ tail' = [p \in Procs |-> 1]
  /\ held' = [p \in Procs |-> NoBlock]
  /\ wrote' = [p \in Procs |-> {}]
  /\ lh' = << >> /\ outstanding' = 0 /\ committing' = FALSE
  /\ cache' = disk /\ dirty' = {}
  /\ UNCHANGED diskVars
-------------------------------------------------------------------------------
CommitStep(p) ==
  \/ Commit(p) \/ WriteLog(p) \/ WriteHead(p)
  \/ InstallTrans(p) \/ ClearLog(p) \/ EndCommit(p)

RecoverStep(p) == ReadHead(p) \/ RecoverClear(p)

Next ==
  \/ \E p \in Procs :
       \/ BeginOp(p) \/ LogWrite(p) \/ EndOp(p)
       \/ CommitStep(p) \/ RecoverStep(p)
       \/ \E b \in Blocks, v \in Vals : ModifyBlock(p, b, v)
  \/ \E b \in Blocks : Evict(b)
  \/ Crash

Spec == Init /\ [][Next]_vars

\* A process that can run does run, and the code of a file system call is
\* finite, so a call that keeps returning to in_op ends.  Nothing makes a
\* process start another call.
Fairness ==
  \A p \in Procs :
    /\ WF_vars(pc[p] = "begin_op" /\ BeginOp(p))
    /\ WF_vars(LogWrite(p))
    /\ SF_vars(EndOp(p))
    /\ WF_vars(CommitStep(p))
    /\ WF_vars(RecoverStep(p))

FairSpec == Spec /\ Fairness
-------------------------------------------------------------------------------
(* Properties *)

TypeOK ==
  /\ pc \in [Procs -> Labels]
  /\ tail \in [Procs -> Nat \ {0}]
  /\ held \in [Procs -> Blocks \cup {NoBlock}]
  /\ wrote \in [Procs -> SUBSET Blocks]
  /\ lh \in Seq(Blocks) /\ head \in Seq(Blocks)
  /\ outstanding \in Nat /\ committing \in BOOLEAN
  /\ cache \in [Blocks -> Vals] /\ disk \in [Blocks -> Vals]
  /\ dirty \subseteq Blocks
  /\ logblk \in [1 .. LOGSIZE -> Vals]

\* The space begin_op reserves is enough: as long as each call keeps within
\* its reservation, no log_write and no end_op panics ("too big a
\* transaction", "log_write outside of trans", "log.committing"), although
\* log_write tests the length before it takes the lock.
NoPanic == \A p \in Procs : pc[p] # "panic"

\* The transaction always fits the header array and the log's data blocks on
\* disk, so write_log never writes past the log region.
LogFits == Len(lh) <= LOGSIZE /\ Len(lh) <= NLOG - 1

\* While one process commits, no file system call is running and nobody else
\* commits: "the logging system only commits when there are no FS system
\* calls active".
CommitAlone ==
  \A p \in Procs : pc[p] \in Committing =>
    /\ committing /\ outstanding = 0
    /\ \A q \in Procs \ {p} : pc[q] \notin Committing \cup InOp

\* A buffer that differs from its home location on disk cannot be recycled:
\* it is pinned by B_DIRTY, or locked by the call that is modifying it.
UnwrittenIsPinned ==
  \A b \in Blocks : cache[b] # disk[b] => b \in dirty \/ ~BufferFree(b)

\* Write-ahead: a home location only ever changes to what the log already
\* holds for it, under a header already on disk.
WriteAhead ==
  [][\A b \in Blocks : disk'[b] # disk[b] =>
       \E i \in 1 .. Len(head) : head[i] = b /\ logblk[i] = disk'[b]]_vars

\* The contents recovery would restore from the disk as it is now.
Restored(hd, lb, dk) ==
  [b \in Blocks |->
     IF \E i \in 1 .. Len(hd) : hd[i] = b
     THEN lb[CHOOSE i \in 1 .. Len(hd) : hd[i] = b]
     ELSE dk[b]]

Durable == Restored(head, logblk, disk)

\* What the running system sees; until recovery has ended, that is what
\* recovery is restoring.
Current == IF \E p \in Procs : pc[p] \in Recovering THEN Durable ELSE cache

AD == INSTANCE AtomicDisk WITH
        current <- Current, durable <- Durable,
        active <- {p \in Procs : pc[p] \in InOp \cup {"panic"}}

\* Transactions are atomic across crashes: the log, with a crash possible
\* between any two disk writes of commit, of install_trans and of recovery
\* itself, implements the abstract disk that commits everything at once.
CrashAtomic == AD!ASpec

\* No wakeup on &log is lost: a call that sleeps in begin_op, because of a
\* commit or for want of log space, runs again.
SleeperWakes == \A p \in Procs : pc[p] = "asleep" ~> pc[p] # "asleep"
===============================================================================
