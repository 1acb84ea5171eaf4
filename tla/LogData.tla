------------------------------- MODULE LogData --------------------------------
(***************************************************************************)
(* The third layer of the inductive invariant of module Log: what the      *)
(* cache, the log and the disk hold in each phase of a commit and of a     *)
(* recovery.                                                               *)
(***************************************************************************)
EXTENDS LogSpace

\* The first n entries are in the log as the cache has them; are installed.
Logged(n)    == \A i \in 1 .. n : logblk[i] = cache[lh[i]]
Installed(n) == \A i \in 1 .. n : disk[lh[i]] = logblk[i]

\* The labels at which the state of the log says something about the disk.
PhaseLabels == (Committing \ {"commit"}) \cup Recovering

\* No header is on disk, and none is about to be read.
Quiet == \A p \in Procs : pc[p] \notin {"install", "clear"} \cup Recovering

Phase(p) ==
  /\ pc[p] \in {"write_log", "install", "r_install"} => tail[p] <= Len(lh)
  /\ pc[p] = "write_log" => Logged(tail[p] - 1)
  /\ pc[p] \in {"write_head", "install", "clear"} => Logged(Len(lh))
  /\ pc[p] = "write_head" => lh # << >> /\ tail[p] = 1
  /\ pc[p] \in {"install", "clear", "r_install", "r_clear"} => head = lh
  /\ pc[p] \in {"install", "r_install"} => Installed(tail[p] - 1)
  /\ pc[p] \in {"clear", "r_clear"} => Installed(Len(lh))
  /\ pc[p] = "install" => dirty = {lh[i] : i \in tail[p] .. Len(lh)}
  /\ pc[p] = "clear" => dirty = {}
  /\ pc[p] = "end_commit" => lh = << >>
  /\ pc[p] = "read_head" => lh = << >> /\ tail[p] = 1

DataType ==
  /\ tail \in [Procs -> Nat \ {0}]
  /\ cache \in [Blocks -> Vals] /\ disk \in [Blocks -> Vals]
  /\ dirty \subseteq Blocks
  /\ logblk \in [1 .. LOGSIZE -> Vals]

DataInv ==
  /\ DataType
  /\ UnwrittenIsPinned
  /\ Quiet => head = << >> /\ dirty = RangeOf(lh)
  /\ Booting => dirty = {}
  /\ \A p \in Procs : Phase(p)
-------------------------------------------------------------------------------
\* mkfs's empty disk satisfies the data invariant.
LEMMA DataInit == Init => DataInv
<1> SUFFICES ASSUME Init PROVE DataInv
  BY Zenon
<1> USE LogConstants DEF Init, BootPc, Recovering
<1>1. DataType
  BY DEF DataType
<1>2. UnwrittenIsPinned
  BY Zenon DEF UnwrittenIsPinned
<1>3. \A p \in Procs : Phase(p)
  BY Zenon DEF Phase
<1>4. ~Quiet /\ dirty = {}
  BY Zenon DEF Quiet
<1> QED BY <1>1, <1>2, <1>3, <1>4, Zenon DEF DataInv

\* Every step of log.c keeps the data invariant.
LEMMA DataStep ==
  ASSUME ControlInv, ControlInv', SpaceInv, SpaceInv', DataInv, [Next]_vars
  PROVE  DataInv'
<1> USE LogConstants DEF Labels, InOp, Committing, Recovering
<1>0. /\ pc \in [Procs -> Labels] /\ held \in [Procs -> Blocks \cup {NoBlock}]
      /\ pc' \in [Procs -> Labels]
      /\ lh \in Seq(Blocks) /\ Len(lh) \in Nat /\ DataType
  BY DEF ControlInv, SpaceInv, DataInv
<1>a. Len(lh) <= LOGSIZE
  BY DEF SpaceInv, Fits
<1>b. ASSUME UNCHANGED <<tail, lh, cache, dirty, disk, logblk, head>>,
             \A b \in Blocks : BufferFree(b)' => BufferFree(b),
             \A q \in Procs : \/ pc'[q] = pc[q]
                              \/ /\ pc[q] \notin {"install", "clear"} \cup Recovering
                                 /\ pc'[q] \notin PhaseLabels
      PROVE  DataInv'
  <2>1. Quiet' => Quiet
    BY <1>b, Zenon DEF Quiet, PhaseLabels
  <2>2. Booting' => Booting
    BY <1>b, Zenon DEF Booting, PhaseLabels
  <2>3. \A q \in Procs : Phase(q)'
    <3> SUFFICES ASSUME NEW q \in Procs PROVE Phase(q)'
      BY Zenon
    <3>1. CASE pc'[q] = pc[q]
      BY <1>b, <3>1 DEF DataInv, Phase, Logged, Installed
    <3>2. CASE pc'[q] \notin PhaseLabels
      BY <3>2, Zenon DEF Phase, PhaseLabels
    <3> QED BY <1>b, <3>1, <3>2, Zenon
  <2>4. UnwrittenIsPinned'
    BY <1>b, Zenon DEF DataInv, UnwrittenIsPinned
  <2> QED BY <1>b, <2>1, <2>2, <2>3, <2>4, Zenon DEF DataInv, DataType
<1>1. ASSUME NEW p \in Procs, BeginOp(p) PROVE DataInv'
  BY <1>0, <1>1, <1>b, Zenon DEF BeginOp, diskVars, BufferFree, PhaseLabels
<1>2. ASSUME NEW p \in Procs, EndOp(p) PROVE DataInv'
  BY <1>0, <1>2, <1>b DEF EndOp, Wakeup, diskVars, BufferFree, PhaseLabels
<1>3. ASSUME NEW p \in Procs, EndCommit(p) PROVE DataInv'
  BY <1>0, <1>3, <1>b, Zenon DEF EndCommit, Wakeup, diskVars, BufferFree, PhaseLabels
<1>4. ASSUME NEW b \in Blocks, Evict(b) PROVE DataInv'
  <2>1. cache' = cache
    BY <1>0, <1>4, Zenon DEF Evict, DataInv, DataType, UnwrittenIsPinned
  <2> QED BY <1>4, <1>b, <2>1, Zenon DEF Evict, procVars, diskVars, BufferFree
<1>5. CASE UNCHANGED vars
  BY <1>5, <1>b, Zenon DEF vars, procVars, memVars, diskVars, BufferFree
<1>c. ASSUME \A q \in Procs : pc[q] \notin Committing \cup Recovering,
             \A q \in Procs : pc'[q] \notin Committing \cup Recovering,
             dirty = RangeOf(lh) => dirty' = RangeOf(lh'),
             UNCHANGED head, DataType', UnwrittenIsPinned'
      PROVE  DataInv'
  <2>1. Quiet
    BY <1>c, Zenon DEF Quiet
  <2>2. head' = << >> /\ dirty' = RangeOf(lh')
    BY <1>c, <2>1, Zenon DEF DataInv
  <2>3. ~Booting'
    BY <1>c, Zenon DEF Booting
  <2>4. \A q \in Procs : Phase(q)'
    BY <1>c, Zenon DEF Phase
  <2> QED BY <1>c, <2>2, <2>3, <2>4, Zenon DEF DataInv
<1>6. ASSUME NEW p \in Procs, LogWrite(p) PROVE DataInv'
  <2> DEFINE b == held[p]
  <2>1. b \in Blocks /\ \A q \in Procs : q # p => held'[q] = held[q]
    BY <1>0, <1>6 DEF LogWrite, ControlInv
  <2>2. \A q \in Procs : pc[q] \notin Committing \cup Recovering
    BY <1>0, <1>6 DEF LogWrite, ControlInv, Booting
  <2>3. \A q \in Procs : pc'[q] \notin Committing \cup Recovering
    BY <1>0, <1>6, <2>2, Zenon DEF LogWrite
  <2>4. dirty' = dirty \cup {b} /\ lh' = Absorb(lh, b) /\ UNCHANGED <<tail, cache, diskVars>>
    BY <1>6, Zenon DEF LogWrite, Pin
  <2>5. RangeOf(lh') = RangeOf(lh) \cup {b}
    BY <2>1, <2>4, AbsorbFacts, Zenon DEF SpaceInv
  <2>6. DataType'
    BY <1>0, <2>1, <2>4, Zenon DEF DataType, diskVars
  <2>7. UnwrittenIsPinned'
    BY <1>0, <2>1, <2>4, Zenon DEF DataInv, UnwrittenIsPinned, BufferFree, diskVars
  <2> QED BY <1>c, <2>2, <2>3, <2>4, <2>5, <2>6, <2>7, Zenon DEF diskVars
<1>7. ASSUME NEW p \in Procs, NEW b \in Blocks, NEW v \in Vals, ModifyBlock(p, b, v)
      PROVE  DataInv'
  <2>1. held'[p] = b /\ \A q \in Procs : q # p => held'[q] = held[q]
    BY <1>0, <1>7, Zenon DEF ModifyBlock
  <2>2. \A q \in Procs : pc[q] \notin Committing \cup Recovering
    BY <1>0, <1>7 DEF ModifyBlock, ControlInv, Booting
  <2>3. \A q \in Procs : pc'[q] \notin Committing \cup Recovering
    BY <1>0, <1>7, <2>2, Zenon DEF ModifyBlock
  <2>4. UNCHANGED <<tail, lh, dirty, disk, logblk, head>> /\ cache' = [cache EXCEPT ![b] = v]
    BY <1>7, Zenon DEF ModifyBlock, diskVars
  <2>5. DataType'
    BY <1>0, <2>4, Zenon DEF DataType
  <2>6. held[p] = NoBlock
    BY <1>0, <1>7, Zenon DEF ControlInv, ModifyBlock
  <2>7. UnwrittenIsPinned'
    <3> SUFFICES ASSUME NEW c \in Blocks, cache'[c] # disk'[c], c \notin dirty'
                 PROVE  ~BufferFree(c)'
      BY Zenon DEF UnwrittenIsPinned
    <3>1. CASE c = b
      BY <2>1, <3>1, Zenon DEF BufferFree
    <3>2. CASE c # b
      <4>1. ~BufferFree(c)
        BY <1>0, <2>4, <3>2, Zenon DEF DataInv, DataType, UnwrittenIsPinned
      <4>2. PICK q \in Procs : held[q] = c
        BY <4>1, Zenon DEF BufferFree
      <4> QED BY <2>1, <2>6, <4>2, Zenon DEF BufferFree
    <3> QED BY <3>1, <3>2, Zenon
  <2> QED BY <1>c, <2>2, <2>3, <2>4, <2>5, <2>7, Zenon
<1>d. ASSUME NEW p \in Procs, pc[p] \in Committing \cup Recovering
      PROVE  /\ \A q \in Procs : q # p => pc[q] \notin Committing \cup Recovering
             /\ pc[p] \in Recovering => p = InitProc /\ Booting
             /\ pc[p] \in Committing => ~Booting
  BY <1>0, <1>d DEF ControlInv, Booting
<1>8. ASSUME NEW p \in Procs, Commit(p) PROVE DataInv'
  <2>1. \A q \in Procs : q # p => pc'[q] = pc[q] /\ pc[q] \notin Committing \cup Recovering
    BY <1>0, <1>8, <1>d, Zenon DEF Commit
  <2>2. /\ \/ pc'[p] = "write_log" /\ Len(lh) > 0
           \/ pc'[p] = "end_commit" /\ Len(lh) = 0
        /\ tail'[p] = 1 /\ tail' \in [Procs -> Nat \ {0}]
        /\ UNCHANGED <<held, lh, cache, dirty, disk, logblk, head>>
    BY <1>0, <1>8 DEF Commit, memVars, diskVars, DataType
  <2>3. Quiet /\ ~Booting'
    BY <1>8, <2>1, <2>2, Zenon DEF Quiet, Booting, Commit
  <2>4. DataType' /\ UnwrittenIsPinned'
    BY <2>2, Zenon DEF DataInv, DataType, UnwrittenIsPinned, BufferFree
  <2>5. Phase(p)'
    BY <1>0, <2>2 DEF Phase, Logged
  <2>6. \A q \in Procs : q # p => Phase(q)'
    BY <2>1, Zenon DEF Phase
  <2> QED BY <2>2, <2>3, <2>4, <2>5, <2>6, Zenon DEF DataInv
<1>9. ASSUME NEW p \in Procs, WriteLog(p) PROVE DataInv'
  <2> DEFINE t == tail[p]
  <2>1. \A q \in Procs : q # p => pc'[q] = pc[q] /\ pc[q] \notin Committing \cup Recovering
    BY <1>0, <1>9, <1>d, Zenon DEF WriteLog, Advance
  <2>2. t \in 1 .. Len(lh) /\ Logged(t - 1) /\ lh[t] \in Blocks
    BY SMTT(30), <1>0, <1>9 DEF WriteLog, DataInv, DataType, Phase
  <2>3. /\ logblk' = [logblk EXCEPT ![t] = cache[lh[t]]]
        /\ UNCHANGED <<held, lh, cache, dirty, disk, head>>
    BY <1>9, Zenon DEF WriteLog, memVars
  <2>4. \A i \in 1 .. t : logblk'[i] = cache'[lh'[i]]
    <3>1. t \in 1 .. LOGSIZE /\ logblk \in [1 .. LOGSIZE -> Vals]
      BY <1>0, <1>a, <2>2 DEF DataType
    <3> SUFFICES ASSUME NEW i \in 1 .. t PROVE logblk'[i] = cache[lh[i]]
      BY <2>3, Zenon
    <3>2. CASE i = t
      BY <2>3, <3>1, <3>2, Zenon
    <3>3. CASE i # t
      <4>1. i \in 1 .. t - 1 /\ i \in 1 .. LOGSIZE
        BY <2>2, <3>1, <3>3
      <4>2. logblk'[i] = logblk[i]
        BY <2>3, <3>1, <3>3, <4>1, Zenon
      <4> QED BY <2>2, <4>1, <4>2, Zenon DEF Logged
    <3> QED BY <3>2, <3>3, Zenon
  <2>5. DataType'
    <3>1. tail' \in [Procs -> Nat \ {0}]
      BY <1>0, <1>9 DEF DataType, WriteLog, Advance
    <3>2. cache[lh[t]] \in Vals
      BY <1>0, <2>2, Zenon DEF DataType
    <3>3. logblk' \in [1 .. LOGSIZE -> Vals]
      BY <1>0, <2>3, <3>2, Zenon DEF DataType
    <3> QED BY <1>0, <2>3, <3>1, <3>3, Zenon DEF DataType
  <2>6. UnwrittenIsPinned'
    BY <2>3, Zenon DEF DataInv, UnwrittenIsPinned, BufferFree
  <2>7. Quiet /\ ~Booting'
    BY <1>0, <1>9, <2>1, Zenon DEF Quiet, Booting, WriteLog, Advance
  <2>8. Phase(p)'
    <3>1. CASE t < Len(lh)
      <4>1. pc'[p] = "write_log" /\ tail'[p] = t + 1
        BY SMTT(30), <1>0, <1>9, <3>1 DEF WriteLog, Advance, DataType
      <4> QED BY SMTT(30), <1>0, <2>2, <2>3, <2>4, <3>1, <4>1 DEF Phase, Logged
    <3>2. CASE t = Len(lh)
      <4>1. pc'[p] = "write_head" /\ tail'[p] = 1
        BY <1>0, <1>9, <3>2 DEF WriteLog, Advance, DataType
      <4> QED BY SMTT(30), <1>0, <2>2, <2>3, <2>4, <3>2, <4>1 DEF Phase, Logged
    <3> QED BY SMTT(30), <1>0, <2>2, <3>1, <3>2
  <2>9. \A q \in Procs : q # p => Phase(q)'
    BY <2>1 DEF Phase
  <2> QED BY <2>3, <2>5, <2>6, <2>7, <2>8, <2>9, Zenon DEF DataInv
<1>10. ASSUME NEW p \in Procs, WriteHead(p) PROVE DataInv'
  <2>1. \A q \in Procs : q # p => pc'[q] = pc[q] /\ pc[q] \notin Committing \cup Recovering
    BY <1>0, <1>10, <1>d, Zenon DEF WriteHead
  <2>2. /\ pc'[p] = "install" /\ head' = lh
        /\ UNCHANGED <<tail, held, lh, cache, dirty, disk, logblk>>
    BY <1>0, <1>10, Zenon DEF WriteHead, memVars
  <2>3. Quiet /\ ~Quiet' /\ ~Booting'
    BY <1>10, <2>1, <2>2, Zenon DEF Quiet, Booting, WriteHead
  <2>4. Logged(Len(lh)) /\ lh # << >> /\ tail[p] = 1 /\ dirty = RangeOf(lh)
    BY <1>10, <2>3, Zenon DEF WriteHead, DataInv, Phase
  <2>5. Phase(p)'
    BY <1>0, <2>2, <2>4 DEF Phase, Logged, Installed, RangeOf
  <2>6. DataType' /\ UnwrittenIsPinned'
    BY <2>2, Zenon DEF DataInv, DataType, UnwrittenIsPinned, BufferFree
  <2>7. \A q \in Procs : q # p => Phase(q)'
    BY <2>1 DEF Phase
  <2> QED BY <2>3, <2>5, <2>6, <2>7, Zenon DEF DataInv
<1>11. ASSUME NEW p \in Procs, ClearLog(p) PROVE DataInv'
  <2>1. \A q \in Procs : q # p => pc'[q] = pc[q] /\ pc[q] \notin Committing \cup Recovering
    BY <1>0, <1>11, <1>d, Zenon DEF ClearLog
  <2>2. /\ pc'[p] = "end_commit" /\ lh' = << >> /\ head' = << >>
        /\ UNCHANGED <<tail, held, cache, dirty, disk, logblk>>
    BY <1>0, <1>11, Zenon DEF ClearLog
  <2>3. ~Booting' /\ dirty' = {} /\ RangeOf(<< >>) = {}
    BY <1>11, <2>1, <2>2 DEF Booting, ClearLog, DataInv, Phase, RangeOf
  <2>4. \A q \in Procs : Phase(q)'
    BY SMTT(30), <2>1, <2>2 DEF Phase
  <2>5. DataType' /\ UnwrittenIsPinned'
    BY SMTT(30), <2>2 DEF DataInv, DataType, UnwrittenIsPinned, BufferFree
  <2> QED BY <2>2, <2>3, <2>4, <2>5, Zenon DEF DataInv
<1>12. ASSUME NEW p \in Procs, ReadHead(p) PROVE DataInv'
  <2>1. /\ p = InitProc /\ Booting /\ dirty = {} /\ tail[p] = 1
        /\ \A q \in Procs : q # p => pc'[q] = pc[q] /\ pc[q] \notin Committing \cup Recovering
    BY <1>0, <1>12, <1>d, Zenon DEF ReadHead, DataInv, Phase
  <2>2. /\ \/ pc'[p] = "r_install" /\ Len(head) > 0
           \/ pc'[p] = "r_clear" /\ Len(head) = 0
        /\ lh' = head /\ UNCHANGED <<tail, held, cache, dirty, disk, logblk, head>>
    BY <1>0, <1>12 DEF ReadHead, diskVars, SpaceInv
  <2>3. ~Quiet'
    BY SMTT(30), <2>2 DEF Quiet
  <2>4. Phase(p)'
    BY <2>1, <2>2 DEF Phase, Installed, SpaceInv
  <2>5. \A q \in Procs : q # p => Phase(q)'
    BY SMTT(30), <2>1 DEF Phase
  <2>6. DataType' /\ UnwrittenIsPinned'
    BY <2>2, Zenon DEF DataInv, DataType, UnwrittenIsPinned, BufferFree
  <2> QED BY ZenonT(90), <2>1, <2>2, <2>3, <2>4, <2>5, <2>6 DEF DataInv
<1>13. ASSUME NEW p \in Procs, RecoverClear(p) PROVE DataInv'
  <2>1. dirty = {} /\ RangeOf(<< >>) = {}
    BY <1>13, <1>d DEF RecoverClear, DataInv, RangeOf
  <2>2. /\ \A q \in Procs : pc'[q] = "idle"
        /\ lh' = << >> /\ head' = << >>
        /\ UNCHANGED <<tail, held, cache, dirty, disk, logblk>>
    BY <1>13, Zenon DEF RecoverClear
  <2>3. ~Booting' /\ \A q \in Procs : Phase(q)'
    BY <2>2, Zenon DEF Phase, Booting
  <2>4. DataType' /\ UnwrittenIsPinned'
    BY <2>2, Zenon DEF DataInv, DataType, UnwrittenIsPinned, BufferFree
  <2> QED BY <2>1, <2>2, <2>3, <2>4, Zenon DEF DataInv
<1>14. CASE Crash
  <2>1. /\ \A q \in Procs : pc'[q] = IF q = InitProc THEN "read_head" ELSE "off"
        /\ tail' = [q \in Procs |-> 1] /\ lh' = << >> /\ cache' = disk /\ dirty' = {}
        /\ UNCHANGED <<disk, logblk, head>>
    BY <1>14, Zenon DEF Crash, BootPc, diskVars
  <2>2. ~Quiet'
    BY <2>1, Zenon DEF Quiet
  <2>3. \A q \in Procs : Phase(q)'
    BY <2>1, Zenon DEF Phase
  <2>4. DataType' /\ UnwrittenIsPinned'
    BY SMTT(30), <1>0, <2>1 DEF DataType, UnwrittenIsPinned
  <2> QED BY <2>1, <2>2, <2>3, <2>4, Zenon DEF DataInv
<1>15. ASSUME NEW p \in Procs, InstallTrans(p) PROVE DataInv'
  <2> DEFINE t == tail[p]
             b == lh[t]
  <2>1. /\ pc[p] \in {"install", "r_install"}
        /\ \A q \in Procs : q # p => pc'[q] = pc[q] /\ pc[q] \notin Committing \cup Recovering
    BY <1>0, <1>15, <1>d, Zenon DEF InstallTrans, Advance
  <2>2. t \in 1 .. Len(lh) /\ t \in 1 .. LOGSIZE /\ b \in Blocks /\ head = lh /\ Installed(t - 1)
    BY SMTT(30), <1>0, <1>a, <2>1 DEF DataInv, DataType, Phase
  <2>3. /\ disk' = [disk EXCEPT ![b] = logblk[t]]
        /\ cache' = [cache EXCEPT ![b] = logblk[t]]
        /\ dirty' = dirty \ {b}
        /\ UNCHANGED <<held, lh, logblk, head>>
    BY SMTT(30), <1>15 DEF InstallTrans
  <2>4. \A i \in 1 .. Len(lh) : lh[i] \in Blocks /\ (lh[i] = b => i = t)
    BY SMTT(30), <1>0, <2>2 DEF SpaceInv, NoRepeats
  <2>5. /\ disk'[b] = logblk[t] /\ cache'[b] = logblk[t]
        /\ \A c \in Blocks : c # b => disk'[c] = disk[c] /\ cache'[c] = cache[c]
    BY SMTT(30), <1>0, <2>2, <2>3 DEF DataType
  <2>6. \A i \in 1 .. t : disk'[lh[i]] = logblk[i]
    <3> SUFFICES ASSUME NEW i \in 1 .. t PROVE disk'[lh[i]] = logblk[i]
      BY Zenon
    <3>1. CASE i = t
      BY <2>5, <3>1, Zenon
    <3>2. CASE i # t
      <4>1. i \in 1 .. t - 1 /\ i \in 1 .. Len(lh)
        BY <1>0, <2>2, <3>2
      <4> QED BY SMTT(30), <2>2, <2>4, <2>5, <3>2, <4>1 DEF Installed
    <3> QED BY <3>1, <3>2, Zenon
  <2>7. Logged(Len(lh)) => \A i \in 1 .. Len(lh) : logblk[i] = cache'[lh[i]]
    BY <2>4, <2>5, Zenon DEF Logged
  <2>8. DataType'
    <3>1. tail' \in [Procs -> Nat \ {0}]
      BY SMTT(30), <1>0, <1>15 DEF DataType, InstallTrans, Advance
    <3>2. logblk[t] \in Vals
      BY <1>0, <2>2, Zenon DEF DataType
    <3> HIDE DEF b, t
    <3>3. disk' \in [Blocks -> Vals] /\ cache' \in [Blocks -> Vals]
      BY ZenonT(90), <1>0, <2>3, <3>2 DEF DataType
    <3> QED BY SMTT(30), <1>0, <2>3, <3>1, <3>3 DEF DataType
  <2>9. UnwrittenIsPinned'
    BY <2>3, <2>5 DEF DataInv, UnwrittenIsPinned, BufferFree
  <2>10. CASE t < Len(lh)
    <3>1. pc' = pc /\ tail'[p] = t + 1
      BY <1>0, <1>15, <2>10, Zenon DEF InstallTrans, Advance, DataType
    <3>2. pc[p] = "install" => dirty' = {lh[i] : i \in t + 1 .. Len(lh)}
      <4> SUFFICES ASSUME pc[p] = "install"
                   PROVE  dirty \ {b} = {lh[i] : i \in t + 1 .. Len(lh)}
        BY <2>3, Zenon
      <4>1. dirty = {lh[i] : i \in t .. Len(lh)}
        BY SMTT(30) DEF DataInv, Phase
      <4> QED BY SMTT(30), <1>0, <2>2, <2>4, <4>1
    <3>3. Phase(p)'
      <4>1. pc[p] = "install" => Logged(Len(lh))'
        BY SMTT(30), <2>3, <2>7 DEF DataInv, Phase, Logged
      <4>2. tail'[p] <= Len(lh') /\ tail'[p] - 1 = t
        BY SMTT(30), <1>0, <2>2, <2>3, <2>10, <3>1
      <4>3. Installed(tail[p] - 1)'
        BY <2>3, <2>6, <4>2, Zenon DEF Installed
      <4> QED BY SMTT(30), <2>1, <2>2, <2>3, <3>1, <3>2, <4>1, <4>2, <4>3 DEF Phase
    <3>4. ~Quiet'
      BY SMTT(30), <2>1, <3>1 DEF Quiet
    <3>5. Booting' => dirty' = {}
      BY <2>3, <3>1, Zenon DEF Booting, DataInv
    <3>6. \A q \in Procs : q # p => Phase(q)'
      BY <2>1, Zenon DEF Phase
    <3> QED BY <2>8, <2>9, <3>3, <3>4, <3>5, <3>6, Zenon DEF DataInv
  <2>11. CASE t = Len(lh)
    <3>1. /\ tail'[p] = 1 /\ pc'[p] = IF pc[p] = "install" THEN "clear" ELSE "r_clear"
      BY SMTT(30), <1>0, <1>15, <2>11 DEF InstallTrans, Advance, DataType
    <3>2. dirty' = {}
      <4>1. CASE pc[p] = "install"
        <5>1. dirty = {lh[i] : i \in t .. Len(lh)}
          BY <4>1 DEF DataInv, Phase
        <5> QED BY SMTT(30), <1>0, <2>2, <2>3, <2>11, <5>1
      <4>2. CASE pc[p] = "r_install"
        BY SMTT(30), <1>d, <2>3, <4>2 DEF DataInv
      <4> QED BY SMTT(30), <2>1, <4>1, <4>2
    <3>3. Phase(p)'
      BY SMTT(30), <1>0, <2>1, <2>2, <2>3, <2>6, <2>7, <2>11, <3>1, <3>2 DEF DataInv, Phase, Logged, Installed
    <3>4. ~Quiet'
      BY <2>1, <3>1, Zenon DEF Quiet
    <3>5. \A q \in Procs : q # p => Phase(q)'
      BY <2>1 DEF Phase
    <3> QED BY SMTT(30), <2>8, <2>9, <3>2, <3>3, <3>4, <3>5 DEF DataInv
  <2> QED BY <1>0, <2>2, <2>10, <2>11
<1> QED
  BY <1>1, <1>2, <1>3, <1>4, <1>5, <1>6, <1>7, <1>8, <1>9, <1>10, <1>11, <1>12, <1>13, <1>14, <1>15
     DEF Next, CommitStep, RecoverStep
===============================================================================
