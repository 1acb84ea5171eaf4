------------------------------ MODULE LogProofs -------------------------------
(***************************************************************************)
(* The theorems about module Log, for every value of its constants.  The   *)
(* inductive invariant has three layers, each proved with the help of the  *)
(* one before: ControlInv and SpaceInv (LogSpace), DataInv (LogData).      *)
(***************************************************************************)
EXTENDS LogData

Inv == ControlInv /\ SpaceInv /\ DataInv

\* The three layers together are inductive: they hold in every state of every
\* behaviour of log.c, crashes included.
THEOREM Invariance == Spec => []Inv
<1>1. Init => Inv
  BY ControlInit, SpaceInit, DataInit, Zenon DEF Inv
<1>2. Inv /\ [Next]_vars => Inv'
  BY ControlStep, SpaceStep, DataStep, Zenon DEF Inv
<1> QED BY <1>1, <1>2, PTL DEF Spec

\* Every variable keeps its type; in particular log.outstanding never becomes
\* negative and write_log never writes past the log.
THEOREM TypeCorrect == Spec => []TypeOK
<1>1. Inv => TypeOK
  BY Zenon DEF Inv, ControlInv, CommitFlag, SpaceInv, DataInv, DataType, TypeOK
<1> QED BY <1>1, Invariance, PTL

\* Nothing else runs in the file system while a process commits (log.c:11).
THEOREM CommitsAlone == Spec => []CommitAlone
<1>1. Inv => CommitAlone
  <2> SUFFICES ASSUME Inv, NEW p \in Procs, pc[p] \in Committing
               PROVE  /\ committing /\ outstanding = 0
                      /\ \A q \in Procs \ {p} : pc[q] \notin Committing \cup InOp
    BY Zenon DEF CommitAlone
  <2>1. Active = {}
    BY Zenon DEF Inv, ControlInv, Active
  <2>2. outstanding = 0
    BY <2>1, FS_EmptySet, Zenon DEF Inv, ControlInv
  <2> QED BY <2>2, Zenon DEF Inv, ControlInv, CommitFlag
<1> QED BY <1>1, Invariance, PTL

\* bget never recycles a buffer whose contents are not on disk yet.
THEOREM Pinned == Spec => []UnwrittenIsPinned
<1>1. Inv => UnwrittenIsPinned
  BY Zenon DEF Inv, DataInv
<1> QED BY <1>1, Invariance, PTL

\* A home location changes only to what the committed log holds for it.
THEOREM WritesAhead == Spec => WriteAhead
<1> DEFINE Ahead == \A b \in Blocks : disk'[b] # disk[b] =>
                      \E i \in 1 .. Len(head) : head[i] = b /\ logblk[i] = disk'[b]
<1>1. Inv /\ [Next]_vars => [Ahead]_vars
  <2> SUFFICES ASSUME Inv, Next, NEW b \in Blocks, disk'[b] # disk[b]
               PROVE  \E i \in 1 .. Len(head) : head[i] = b /\ logblk[i] = disk'[b]
    BY Zenon
  <2>1. PICK p \in Procs : InstallTrans(p)
    BY ZenonT(90) DEF Next, BeginOp, LogWrite, EndOp, CommitStep, Commit, WriteLog, WriteHead, ClearLog,
           EndCommit, RecoverStep, ReadHead, RecoverClear, ModifyBlock, Evict, Crash, diskVars
  <2>2. head = lh /\ tail[p] \in 1 .. Len(lh) /\ lh[tail[p]] \in Blocks
    BY <2>1 DEF InstallTrans, Inv, SpaceInv, DataInv, DataType, Phase
  <2>3. b = lh[tail[p]] /\ disk'[b] = logblk[tail[p]]
    BY <2>1, <2>2, Zenon DEF InstallTrans, Inv, DataInv, DataType
  <2> QED BY <2>2, <2>3, Zenon
<1>2. Spec => [][Ahead]_vars
  BY <1>1, Invariance, PTL DEF Spec
<1> QED BY <1>2, Zenon DEF WriteAhead

\* What MAXOPBLOCKS reserves beyond the blocks a call really writes makes up
\* for the header block that NLOG counts and LOGSIZE does not.
Spare == OPBLOCKS < MAXOPBLOCKS /\ LOGSIZE - (MAXOPBLOCKS - OPBLOCKS) < NLOG - 1

\* With Spare, no file system call panics in log_write or end_op.
THEOREM NeverPanics == ASSUME Spare PROVE Spec => []NoPanic
<1>1. Init => NoPanic
  BY Zenon DEF Init, NoPanic, BootPc
<1>2. NoPanic /\ Inv /\ [Next]_vars => NoPanic'
  <2> SUFFICES ASSUME NoPanic, Inv, [Next]_vars, NEW q \in Procs, pc'[q] = "panic"
               PROVE  FALSE
    BY Zenon DEF NoPanic
  <2> USE DEF Labels, InOp, Committing, Recovering
  <2>0. pc \in [Procs -> Labels] /\ pc[q] # "panic"
    BY Zenon DEF Inv, ControlInv, NoPanic
  <2>1. ASSUME NEW p \in Procs, EndOp(p) PROVE FALSE
    <3>1. ~committing
      BY <2>1, Zenon DEF Inv, ControlInv, CommitFlag, EndOp
    <3> QED BY <2>0, <2>1, <3>1, Zenon DEF EndOp, Wakeup
  <2>2. ASSUME NEW p \in Procs, NEW b \in Blocks, NEW v \in Vals, ModifyBlock(p, b, v)
        PROVE  FALSE
    <3>1. p \in Active /\ Active \in SUBSET Procs
      BY <2>2, Zenon DEF ModifyBlock, Active
    <3>2. Cardinality(wrote[p]) \in Nat /\ Cardinality(wrote[p]) <= OPBLOCKS
      <4>1. wrote[p] \subseteq RangeOf(lh) /\ IsFiniteSet(RangeOf(lh))
        BY <3>1, RangeFinite, Zenon DEF Inv, SpaceInv
      <4>2. IsFiniteSet(wrote[p])
        BY <4>1, FS_Subset, Zenon
      <4> QED BY <3>1, <4>2, FS_CardinalityType, Zenon DEF Inv, SpaceInv
    <3>3. /\ MAXOPBLOCKS - OPBLOCKS <= Cardinality(Tokens(Active, wrote))
          /\ Cardinality(Tokens(Active, wrote)) \in Nat
      BY <3>1, <3>2, TokensKept, TokensBound, Zenon
    <3>4. Len(lh) + (MAXOPBLOCKS - OPBLOCKS) <= LOGSIZE
      BY <3>3, LogConstants DEF Inv, SpaceInv
    <3>5. Len(lh) < LOGSIZE /\ Len(lh) < NLOG - 1
      BY <3>4, LogConstants DEF Spare, Inv, SpaceInv
    <3>6. outstanding # 0
      BY <3>1, ActiveFinite, FS_EmptySet, Zenon DEF Inv, ControlInv
    <3>7. ~(Len(lh) >= LOGSIZE \/ Len(lh) >= NLOG - 1 \/ outstanding < 1)
      BY <3>5, <3>6, LogConstants DEF Inv, ControlInv, SpaceInv
    <3>8. pc' = [pc EXCEPT ![p] = "log_write"]
      BY SMTT(30), <2>2, <3>7 DEF ModifyBlock
    <3> QED BY <2>0, <3>8, Zenon
  <2>3. ASSUME Next, ~(\E p \in Procs : EndOp(p)),
               ~(\E p \in Procs, b \in Blocks, v \in Vals : ModifyBlock(p, b, v))
        PROVE  FALSE
    BY ZenonT(90), <2>0, <2>3 DEF Next, BeginOp, LogWrite, CommitStep, Commit, WriteLog, WriteHead,
         InstallTrans, ClearLog, EndCommit, Advance, Wakeup, RecoverStep, ReadHead, RecoverClear,
         Evict, Crash, BootPc, procVars
  <2>4. CASE UNCHANGED vars
    BY <2>0, <2>4, Zenon DEF vars, procVars
  <2> QED BY <2>1, <2>2, <2>3, <2>4, Zenon
<1> QED BY <1>1, <1>2, Invariance, PTL DEF Spec

\* With Spare, a transaction fits the header and the log region on disk.
THEOREM TransactionFits ==
  ASSUME Spare, NLOG # 0
  PROVE  Spec => []LogFits
<1>1. Inv => LogFits
  <2> SUFFICES ASSUME Inv PROVE LogFits
    BY Zenon
  <2>1. Len(lh) \in Nat /\ (lh # << >> => Len(lh) + (MAXOPBLOCKS - OPBLOCKS) <= LOGSIZE)
    BY DEF Inv, SpaceInv, Fits
  <2> QED BY <2>1, LogConstants DEF LogFits, Spare
<1> QED BY <1>1, Invariance, PTL
-------------------------------------------------------------------------------
(* The log implements the atomic disk. *)

\* If the log holds c for the blocks of the header and the disk holds c for
\* the others, recovery restores c.
LEMMA RestoredIs ==
  ASSUME NEW hd \in Seq(Blocks), NEW lb, NEW dk, NEW c \in [Blocks -> Vals],
         \A i \in 1 .. Len(hd) : lb[i] = c[hd[i]],
         \A b \in Blocks : b \notin RangeOf(hd) => dk[b] = c[b]
  PROVE  Restored(hd, lb, dk) = c
<1> SUFFICES ASSUME NEW b \in Blocks PROVE Restored(hd, lb, dk)[b] = c[b]
  BY DEF Restored
<1>1. CASE \E i \in 1 .. Len(hd) : hd[i] = b
  <2> DEFINE k == CHOOSE i \in 1 .. Len(hd) : hd[i] = b
  <2>1. k \in 1 .. Len(hd) /\ hd[k] = b
    BY <1>1, Zenon
  <2> QED BY <1>1, <2>1, Zenon DEF Restored
<1>2. CASE ~(\E i \in 1 .. Len(hd) : hd[i] = b)
  BY <1>2, Zenon DEF Restored, RangeOf
<1> QED BY <1>1, <1>2, Zenon

\* Installing a block that the header names changes nothing that recovery
\* would restore.
LEMMA RestoredKept ==
  ASSUME NEW hd \in Seq(Blocks), NEW lb, NEW dk, NEW dn,
         \A b \in Blocks : b \notin RangeOf(hd) => dn[b] = dk[b]
  PROVE  Restored(hd, lb, dn) = Restored(hd, lb, dk)
BY Zenon DEF Restored, RangeOf

\* Recovery changes nothing once every logged block is installed.
LEMMA RestoredInstalled ==
  ASSUME NEW hd \in Seq(Blocks), NEW lb, NEW dk \in [Blocks -> Vals],
         \A i \in 1 .. Len(hd) : lb[i] = dk[hd[i]]
  PROVE  Restored(hd, lb, dk) = dk
BY RestoredIs

\* With an empty header, recovery leaves the disk as it is.
LEMMA RestoredEmpty ==
  ASSUME NEW lb, NEW dk \in [Blocks -> Vals]
  PROVE  Restored(<< >>, lb, dk) = dk
BY DEF Restored

\* What the running system sees, outside and inside recovery.
LEMMA CurrentIs ==
  ASSUME Inv
  PROVE  Current = IF Booting THEN Durable ELSE cache
BY LogConstants, Zenon DEF Current, Booting, Inv, ControlInv

\* Every step of the log is a step of the atomic disk or leaves it alone.
LEMMA DiskStep ==
  ASSUME Inv, Inv', [Next]_vars
  PROVE  [AD!ANext]_AD!avars
<1> USE LogConstants DEF Labels, InOp, Committing, Recovering
<1>0. /\ pc \in [Procs -> Labels] /\ pc' \in [Procs -> Labels]
      /\ lh \in Seq(Blocks) /\ head \in Seq(Blocks)
      /\ cache \in [Blocks -> Vals] /\ disk \in [Blocks -> Vals]
  BY Zenon DEF Inv, ControlInv, SpaceInv, DataInv, DataType
<1>a. /\ Current = IF Booting THEN Durable ELSE cache
      /\ Current' = IF Booting' THEN Durable' ELSE cache'
  <2>1. Current = IF Booting THEN Durable ELSE cache
    BY CurrentIs, Zenon
  <2>2. Current' = IF Booting' THEN Durable' ELSE cache'
    BY Zenon DEF Current, Booting, Inv, ControlInv
  <2> QED BY <2>1, <2>2, Zenon
<1>b. AD!avars = <<Current, Durable, Active>> /\ AD!avars' = <<Current', Durable', Active'>>
  BY Zenon DEF AD!avars, Active
<1>c. ASSUME UNCHANGED <<cache, disk, logblk, head>>, Booting' = Booting, Active' = Active
      PROVE  UNCHANGED AD!avars
  <2>1. Durable' = Durable
    BY <1>c, Zenon DEF Durable
  <2> QED BY <1>a, <1>b, <1>c, <2>1, Zenon
<1>1. ASSUME NEW p \in Procs, BeginOp(p) PROVE [AD!ANext]_AD!avars
  <2>1. Booting' = Booting /\ UNCHANGED <<cache, disk, logblk, head>>
    BY <1>0, <1>1 DEF BeginOp, Booting, diskVars
  <2>2. CASE MustWait
    <3>1. Active' = Active
      BY <1>0, <1>1, <2>2, Zenon DEF BeginOp, Active
    <3> QED BY <1>c, <2>1, <3>1, Zenon
  <2>3. CASE ~MustWait
    <3>1. Active' = Active \cup {p} /\ p \notin Active
      BY <1>0, <1>1, <2>3 DEF BeginOp, Active
    <3>2. Durable' = Durable
      BY <2>1, Zenon DEF Durable
    <3>3. Current' = Current
      BY <1>a, <2>1, <3>2, Zenon
    <3> QED BY <3>1, <3>2, <3>3, Zenon DEF AD!ANext, AD!Start, Active
  <2> QED BY <2>2, <2>3, Zenon
<1>2. ASSUME NEW p \in Procs, EndOp(p) PROVE [AD!ANext]_AD!avars
  <2>1. ~committing
    BY <1>2 DEF Inv, ControlInv, CommitFlag, EndOp
  <2>2. Active' = Active \ {p} /\ p \in Active
    BY <1>0, <1>2, <2>1 DEF EndOp, Active, Wakeup
  <2>3. Booting' = Booting /\ UNCHANGED <<cache, disk, logblk, head>>
    BY <1>0, <1>2, <2>1 DEF EndOp, Booting, Wakeup, diskVars
  <2>4. Durable' = Durable
    BY <2>3 DEF Durable
  <2>5. Current' = Current
    BY <1>a, <2>3, <2>4
  <2> QED BY <2>2, <2>4, <2>5, Zenon DEF AD!ANext, AD!Finish, Active
<1>3. ASSUME NEW p \in Procs, NEW b \in Blocks, NEW v \in Vals, ModifyBlock(p, b, v)
      PROVE  [AD!ANext]_AD!avars
  <2>1. Active' = Active /\ p \in Active
    BY <1>0, <1>3, Zenon DEF ModifyBlock, Active
  <2>2. ~Booting /\ ~Booting'
    BY <1>0, <1>3 DEF ModifyBlock, Booting, Inv, ControlInv
  <2>3. Durable' = Durable
    BY <1>3, Zenon DEF ModifyBlock, Durable, diskVars
  <2>4. Current' = [Current EXCEPT ![b] = v]
    BY <1>3, <1>a, <2>2, Zenon DEF ModifyBlock
  <2> QED BY <2>1, <2>3, <2>4, Zenon DEF AD!ANext, AD!Put, Active
<1>4. ASSUME NEW p \in Procs, LogWrite(p) PROVE UNCHANGED AD!avars
  <2>1. Active' = Active /\ Booting' = Booting
    BY <1>0, <1>4 DEF LogWrite, Active, Booting
  <2> QED BY <1>4, <1>c, <2>1, Zenon DEF LogWrite, diskVars
<1>5. ASSUME NEW b \in Blocks, Evict(b) PROVE UNCHANGED AD!avars
  <2>1. cache' = cache
    BY <1>0, <1>5, Zenon DEF Evict, Inv, DataInv, UnwrittenIsPinned
  <2> QED BY <1>5, <1>c, <2>1, Zenon DEF Evict, procVars, diskVars, Active, Booting
<1>d. ASSUME NEW p \in Procs, pc[p] \in Committing
      PROVE  /\ ~Booting /\ Active = {} /\ \A b \in Blocks : BufferFree(b)
             /\ \A q \in Procs : q # p => pc[q] \notin Committing \cup Recovering
  BY <1>0, <1>d DEF Inv, ControlInv, Booting, Active, BufferFree
<1>6. ASSUME NEW p \in Procs, Commit(p) \/ EndCommit(p) PROVE UNCHANGED AD!avars
  <2>1. Active' = Active /\ Booting' = Booting
    BY <1>0, <1>6 DEF Commit, EndCommit, Wakeup, Active, Booting
  <2> QED BY <1>6, <1>c, <2>1, Zenon DEF Commit, EndCommit, memVars, diskVars
<1>7. ASSUME NEW p \in Procs, WriteLog(p) PROVE UNCHANGED AD!avars
  <2>1. Active' = Active /\ ~Booting /\ ~Booting'
    BY <1>0, <1>7, <1>d DEF WriteLog, Advance, Active, Booting
  <2>2. UNCHANGED <<cache, disk, head>>
    BY <1>7, Zenon DEF WriteLog, memVars
  <2>3. head = << >>
    <3>1. Quiet
      BY <1>7, <1>d, Zenon DEF WriteLog, Quiet
    <3> QED BY <3>1, Zenon DEF Inv, DataInv
  <2>4. Restored(head, logblk, disk) = disk /\ Restored(head, logblk', disk) = disk
    BY <1>0, <2>3, RestoredEmpty, Zenon
  <2>5. Durable' = Durable
    BY <2>2, <2>4, Zenon DEF Durable
  <2> QED BY <1>a, <1>b, <2>1, <2>2, <2>5, Zenon
<1>8. ASSUME NEW p \in Procs, WriteHead(p) PROVE [AD!ANext]_AD!avars
  <2>1. Active = {} /\ Active' = Active /\ ~Booting /\ ~Booting'
    BY <1>0, <1>8, <1>d DEF WriteHead, Active, Booting
  <2>2. head' = lh /\ UNCHANGED <<cache, disk, logblk>>
    BY <1>8, Zenon DEF WriteHead, memVars
  <2>3. Logged(Len(lh)) /\ dirty = RangeOf(lh)
    <3>1. Quiet
      BY SMTT(30), <1>8, <1>d DEF WriteHead, Quiet
    <3> QED BY <1>8, <3>1, Zenon DEF WriteHead, Inv, DataInv, Phase
  <2>4. \A b \in Blocks : b \notin RangeOf(lh) => disk[b] = cache[b]
    BY <1>8, <1>d, <2>3, Zenon DEF WriteHead, Inv, DataInv, UnwrittenIsPinned
  <2>5. Restored(lh, logblk, disk) = cache
    BY <1>0, <2>3, <2>4, RestoredIs DEF Logged
  <2>6. Durable' = Current /\ Current' = Current
    BY <1>a, <2>1, <2>2, <2>5, Zenon DEF Durable
  <2> QED BY <2>1, <2>6, Zenon DEF AD!ANext, AD!CommitAll, Active
<1>9. ASSUME NEW p \in Procs, InstallTrans(p) PROVE UNCHANGED AD!avars
  <2> DEFINE t == tail[p]
  <2>1. Active' = Active /\ Booting' = Booting
    BY <1>0, <1>9 DEF InstallTrans, Advance, Active, Booting
  <2>2. head = lh /\ t \in 1 .. Len(lh) /\ lh[t] \in Blocks
    BY SMTT(30), <1>0, <1>9 DEF InstallTrans, Inv, DataInv, DataType, Phase
  <2>3. disk' = [disk EXCEPT ![head[t]] = logblk[t]] /\ UNCHANGED <<logblk, head>>
    BY SMTT(30), <1>9, <2>2 DEF InstallTrans
  <2>4. Restored(head, logblk, disk') = Restored(head, logblk, disk)
    <3>1. \A b \in Blocks : b \notin RangeOf(head) => disk'[b] = disk[b]
      BY <1>0, <2>2, <2>3, Zenon DEF RangeOf
    <3> QED BY <1>0, <3>1, RestoredKept
  <2>5. Durable' = Durable
    BY <2>3, <2>4, Zenon DEF Durable
  <2>6. CASE pc[p] = "install"
    <3>1. logblk[t] = cache[lh[t]]
      BY <2>2, <2>6, Zenon DEF Inv, DataInv, Phase, Logged
    <3>2. cache' = cache
      BY <1>0, <1>9, <2>2, <3>1, Zenon DEF InstallTrans
    <3> QED BY SMTT(30), <1>a, <1>b, <2>1, <2>5, <3>2
  <2>7. CASE pc[p] = "r_install"
    <3>1. Booting
      BY <2>7, Zenon DEF Inv, ControlInv, Booting
    <3> QED BY <1>a, <1>b, <2>1, <2>5, <3>1, Zenon
  <2> QED BY <1>9, <2>6, <2>7, Zenon DEF InstallTrans
<1>10. ASSUME NEW p \in Procs, ClearLog(p) \/ RecoverClear(p) PROVE UNCHANGED AD!avars
  <2>1. Active' = Active /\ ~Booting'
    <3>1. CASE ClearLog(p)
      BY SMTT(30), <1>0, <1>d, <3>1 DEF ClearLog, Active, Booting, Inv, ControlInv
    <3>2. CASE RecoverClear(p)
      BY SMTT(30), <1>0, <3>2 DEF RecoverClear, Active, Booting, Inv, ControlInv
    <3> QED BY <1>10, <3>1, <3>2, Zenon
  <2>2. head = lh /\ Installed(Len(lh)) /\ dirty = {}
    BY <1>0, <1>10, Zenon DEF ClearLog, RecoverClear, Inv, ControlInv, Booting, DataInv, Phase
  <2>3. \A b \in Blocks : cache[b] = disk[b]
    <3>1. \A b \in Blocks : BufferFree(b)
      BY <1>0, <1>10, <1>d DEF ClearLog, RecoverClear, Inv, ControlInv, Booting, BufferFree
    <3> QED BY ZenonT(90), <2>2, <3>1 DEF Inv, DataInv, UnwrittenIsPinned
  <2>4. head' = << >> /\ UNCHANGED <<cache, disk, logblk>>
    BY <1>10, Zenon DEF ClearLog, RecoverClear
  <2>5. Restored(head, logblk, disk) = disk
    <3>1. \A i \in 1 .. Len(head) : logblk[i] = disk[head[i]]
      BY <2>2, Zenon DEF Installed
    <3> QED BY <1>0, <3>1, RestoredInstalled
  <2>6. Restored(<< >>, logblk, disk) = disk
    BY <1>0, RestoredEmpty, Zenon
  <2>7. Durable' = Durable
    BY <2>4, <2>5, <2>6, Zenon DEF Durable
  <2>8. cache = disk
    BY <1>0, <2>3
  <2>9. Durable = disk
    BY <2>5, Zenon DEF Durable
  <2> QED BY SMTT(30), <1>a, <1>b, <2>1, <2>4, <2>7, <2>8, <2>9
<1>11. ASSUME NEW p \in Procs, ReadHead(p) PROVE UNCHANGED AD!avars
  <2>1. Active' = Active /\ Booting' = Booting
    BY <1>0, <1>11 DEF ReadHead, Active, Booting
  <2> QED BY <1>11, <1>c, <2>1, Zenon DEF ReadHead, diskVars
<1>12. CASE Crash
  <2>1. Active' = {} /\ Booting'
    BY <1>12, Zenon DEF Crash, BootPc, Active, Booting
  <2>2. Durable' = Durable
    BY <1>12, Zenon DEF Crash, Durable, diskVars
  <2>3. Current' = Durable
    BY <1>a, <2>1, <2>2, Zenon
  <2> QED BY <2>1, <2>2, <2>3, Zenon DEF AD!ANext, AD!PowerFail, Active
<1>13. CASE UNCHANGED vars
  BY <1>13, <1>c, Zenon DEF vars, procVars, memVars, diskVars, Active, Booting
<1> QED
  BY SMTT(30), <1>1, <1>2, <1>3, <1>4, <1>5, <1>6, <1>7, <1>8, <1>9, <1>10, <1>11, <1>12, <1>13
     DEF Next, CommitStep, RecoverStep

\* The initial disk is the atomic disk's initial state.
LEMMA DiskInit == Init => AD!AInit
<1> SUFFICES ASSUME Init PROVE AD!AInit
  BY Zenon
<1>1. disk \in [Blocks -> Vals] /\ head = << >> /\ disk = [b \in Blocks |-> InitVal]
  BY LogConstants, Zenon DEF Init
<1>2. Durable = disk
  BY <1>1, RestoredEmpty, Zenon DEF Durable
<1>3. Current = disk
  BY <1>2, Zenon DEF Current, Init
<1>4. {p \in Procs : pc[p] \in InOp \cup {"panic"}} = {}
  BY Zenon DEF Init, BootPc, InOp
<1> QED BY <1>1, <1>2, <1>3, <1>4, Zenon DEF AD!AInit

\* The log with its crashes and recoveries implements the disk on which
\* groups of file system calls happen atomically.
THEOREM CrashesAreAtomic == Spec => CrashAtomic
<1>1. Inv /\ Inv' /\ [Next]_vars => [AD!ANext]_AD!avars
  BY DiskStep, Zenon
<1> QED BY <1>1, DiskInit, Invariance, PTL DEF Spec, CrashAtomic, AD!ASpec
===============================================================================
