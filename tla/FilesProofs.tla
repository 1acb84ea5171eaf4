----------------------------- MODULE FilesProofs ------------------------------
(***************************************************************************)
(* What holds of file.c and pipe.c for every number of processes, files,   *)
(* descriptors and pipes, every pipe size and every read and write size.   *)
(* The steps of open, dup, close, exit, fork and sys_pipe, which change    *)
(* the tables of descriptors and files, preserve the invariant of          *)
(* PipeProofs; with the steps treated there the theorems follow.           *)
(***************************************************************************)
EXTENDS PipeProofs

(* Steps on the tables. *)

\* A descriptor is set.
Sets(p, d, f) == ofile' = [ofile EXCEPT ![p][d] = f]

\* The file it refers to gains it, the others lose it.
LEMMA SetFd ==
  ASSUME ofile \in [Procs -> [Fds -> Files \cup {0}]], NEW p \in Procs, NEW d \in Fds,
         NEW f \in Files \cup {0}, Sets(p, d, f)
  PROVE  /\ ofile' \in [Procs -> [Fds -> Files \cup {0}]]
         /\ ofile'[p][d] = f
         /\ \A q \in Procs, e \in Fds : q # p \/ e # d => ofile'[q][e] = ofile[q][e]
         /\ Refers(f)' = Refers(f) \cup {<<p, d>>}
         /\ \A h : h # f => Refers(h)' = Refers(h) \ {<<p, d>>}
<1>1. /\ ofile' \in [Procs -> [Fds -> Files \cup {0}]] /\ ofile'[p][d] = f
      /\ \A q \in Procs, e \in Fds : q # p \/ e # d => ofile'[q][e] = ofile[q][e]
  BY Zenon DEF Fds, Sets
<1>2. \A q, e : <<q, e>> = <<p, d>> <=> q = p /\ e = d
  BY Zenon
<1>3. \A x \in Procs \X Fds : x = <<p, d>> \/ ofile'[x[1]][x[2]] = ofile[x[1]][x[2]]
  <2> SUFFICES ASSUME NEW x \in Procs \X Fds
               PROVE  x = <<p, d>> \/ ofile'[x[1]][x[2]] = ofile[x[1]][x[2]]
    BY Zenon
  <2>1. PICK q, e : q = x[1] /\ e = x[2]
    BY Zenon
  <2>2. q \in Procs /\ e \in Fds /\ x = <<q, e>>
    BY <2>1
  <2>3. x = <<p, d>> \/ ofile'[q][e] = ofile[q][e]
    BY <1>1, <1>2, <2>2, Zenon
  <2> QED
    BY <2>1, <2>3, Zenon
<1>4. <<p, d>> \in Procs \X Fds /\ ofile'[<<p, d>>[1]][<<p, d>>[2]] = f
  BY <1>1, Zenon
<1>5. ASSUME NEW h PROVE Refers(h)' = {x \in Procs \X Fds : ofile'[x[1]][x[2]] = h}
  BY Zenon DEF Refers, Fds
<1>6. Refers(f)' = Refers(f) \cup {<<p, d>>}
  BY <1>3, <1>4, <1>5, Zenon DEF Refers
<1>7. ASSUME NEW h, h # f PROVE Refers(h)' = Refers(h) \ {<<p, d>>}
  BY <1>3, <1>4, <1>5, <1>7, Zenon DEF Refers
<1> QED
  BY <1>1, <1>6, <1>7, Zenon

\* Who refers to a file.
LEMMA RefersIs ==
  ASSUME NEW f, NEW q \in Procs, NEW e \in Fds
  PROVE  <<q, e>> \in Refers(f) <=> ofile[q][e] = f
BY Zenon DEF Refers

\* A process that does not move, and whose descriptors and files stay, works on.
LEMMA WorksFrame ==
  ASSUME NEW q \in Procs, Works(q), th'[q] = th[q],
         \A fd \in Fds : ofile[q][fd] # 0 => ofile'[q][fd] = ofile[q][fd],
         \A fd \in Fds : \A g, w : ofile[q][fd] # 0 /\ IsEnd(ofile[q][fd], g, w) =>
                                     IsEnd(ofile[q][fd], g, w)'
  PROVE  Works(q)'
<1>1. ASSUME NEW w, Through(q, w) PROVE Through(q, w)'
  <2>1. PICK fd \in Fds : ofile[q][fd] # 0 /\ IsEnd(ofile[q][fd], th[q].page, w)
    BY <1>1, Zenon DEF Through
  <2>2. PICK f, g : f = ofile[q][fd] /\ g = th[q].page
    BY Zenon
  <2>3. ofile'[q][fd] = f /\ th'[q].page = g /\ f # 0
    BY <2>1, <2>2, Zenon
  <2>4. IsEnd(f, g, w)
    BY <2>1, <2>2, Zenon
  <2>5. IsEnd(f, g, w)'
    BY <2>1, <2>2, <2>4, ZenonT(90) DEF IsEnd
  <2> QED
    BY <2>3, <2>5, Zenon DEF Through, IsEnd, Fds
<1> QED
  BY <1>1, Zenon DEF Works, Readers, Writers, Closers

\* The rings hold if they, and the processes that sleep, are the same.
LEMMA PipeFrame ==
  ASSUME PipeInv, UNCHANGED pipe, NEW p \in Procs, \A q \in Procs \ {p} : th'[q] = th[q],
         th'[p].pc \notin Readers \cup Writers
  PROVE  PipeInv'
<1>1. \A g \in Pages : pipe'[g].free = FALSE => Stream(pipe[g])'
  BY Zenon DEF PipeInv, Stream, Held, Ahead, InSlots
<1>2. ASSUME NEW q \in Procs PROVE Asleep(q)'
  <2>1. CASE q = p
    BY <2>1, Zenon DEF Asleep, Readers, Writers
  <2>2. CASE q # p
    BY <2>2, Zenon DEF PipeInv, Asleep
  <2> QED
    BY <2>1, <2>2, Zenon
<1> QED
  BY <1>1, <1>2, Zenon DEF PipeInv

\* A step on the tables that leaves the ends of pipes alone, by a process that is
\* in no pipe.
LEMMA TableKeeps ==
  ASSUME Inv, RefInv', NEW p \in Procs, UNCHANGED pipe, \A q \in Procs \ {p} : th'[q] = th[q],
         th[p].pc \notin Readers \cup Writers \cup Closers,
         th'[p].pc \notin Readers \cup Writers \cup Closers, th'[p].page = NoPage,
         \A f \in Files : \A g, w : IsEnd(f, g, w)' <=> IsEnd(f, g, w),
         \A q \in Procs \ {p} : \A fd \in Fds : ofile[q][fd] # 0 => ofile'[q][fd] = ofile[q][fd]
  PROVE  Inv'
<1>1. ASSUME NEW q \in Procs PROVE Works(q)'
  <2>1. CASE q = p
    BY <2>1, Zenon DEF Works, Readers, Writers, Closers
  <2>2. CASE q # p
    <3>1. \A fd \in Fds : ofile[q][fd] # 0 => ofile[q][fd] \in Files
      BY DEF Inv, RefInv, Typed
    <3>2. Works(q) /\ th'[q] = th[q]
      BY <2>2, Zenon DEF Inv, EndInv
    <3>3. \A fd \in Fds : ofile[q][fd] # 0 => ofile'[q][fd] = ofile[q][fd]
      BY <2>2, Zenon
    <3>4. ASSUME NEW fd \in Fds, NEW g, NEW w, ofile[q][fd] # 0, IsEnd(ofile[q][fd], g, w)
          PROVE  IsEnd(ofile[q][fd], g, w)'
      <4>1. PICK f : f = ofile[q][fd]
        BY Zenon
      <4>2. IsEnd(f, g, w)'
        BY <3>1, <3>4, <4>1, Zenon
      <4> QED
        BY <3>3, <3>4, <4>1, <4>2, Zenon DEF IsEnd
    <3> QED
      BY <3>2, <3>3, <3>4, WorksFrame, Zenon
  <2> QED
    BY <2>1, <2>2, Zenon
<1>2. ASSUME NEW q \in Procs, NEW g \in Pages, NEW w \in BOOLEAN
      PROVE  Closes(q, g, w)' <=> Closes(q, g, w)
  <2>1. CASE q = p
    BY <2>1, Zenon DEF Closes, Closers
  <2>2. CASE q # p
    BY <2>2, Zenon DEF Closes, Closers
  <2> QED
    BY <2>1, <2>2, Zenon
<1>3. EndInv'
  BY <1>1, <1>2, EndFrame, Zenon DEF Inv
<1>4. PipeInv'
  BY PipeFrame, Zenon DEF Inv
<1> QED
  BY <1>3, <1>4, Zenon DEF Inv

\* A file that a call of sys_pipe holds stays its own.
LEMMA HolderFrame ==
  ASSUME NEW q \in Procs, Holder(q),
         th'[q].pc = "pipe2" => th[q].pc = "pipe2" /\ th'[q].f = th[q].f,
         th[q].pc = "pipe2" =>
           /\ \A r \in Procs : th'[r].pc = "pipe2" /\ th'[r].f = th[q].f =>
                                 th[r].pc = "pipe2" /\ th[r].f = th[q].f
           /\ ftable'[th[q].f].type = ftable[th[q].f].type
           /\ \A r \in Procs, fd \in Fds : ofile'[r][fd] # th[q].f
  PROVE  Holder(q)'
<1>1. SUFFICES ASSUME th[q].pc = "pipe2", th'[q].f = th[q].f PROVE Holder(q)'
  BY Zenon DEF Holder
<1>2. PICK f : f = th[q].f
  BY Zenon
<1>3. /\ f \in Files /\ ftable'[f].type = "none"
      /\ \A r \in Procs : th'[r].pc = "pipe2" /\ th'[r].f = f => r = q
      /\ \A r \in Procs, fd \in Fds : ofile'[r][fd] # f
  BY <1>1, <1>2, Zenon DEF Holder
<1>4. th'[q].f = f
  BY <1>1, <1>2, Zenon
<1> QED
  BY <1>3, <1>4, Zenon DEF Holder, Files, Fds

\* The file a call of sys_pipe holds is counted, and nobody else's.
LEMMA HeldFile ==
  ASSUME RefInv, NEW p \in Procs, th[p].pc = "pipe2"
  PROVE  /\ th[p].f \in Files /\ ftable[th[p].f].type = "none" /\ ftable[th[p].f].ref # 0
         /\ Refers(th[p].f) = {} /\ Holds(th[p].f) = {p}
<1>1. PICK f : f = th[p].f
  BY Zenon
<1>2. /\ f \in Files /\ ftable[f].type = "none"
      /\ \A q \in Procs : th[q].pc = "pipe2" /\ th[q].f = f => q = p
      /\ \A q \in Procs, fd \in Fds : ofile[q][fd] # f
  BY <1>1, Zenon DEF RefInv, Holder
<1>3. Holds(f) = {p}
  BY <1>1, <1>2, Zenon DEF Holds
<1>4. Refers(f) = {}
  <2> SUFFICES ASSUME NEW x \in Procs \X Fds, ofile[x[1]][x[2]] = f PROVE FALSE
    BY Zenon DEF Refers
  <2>1. x[1] \in Procs /\ x[2] \in Fds
    BY Zenon
  <2> QED
    BY <1>2, <2>1, Zenon
<1>5. ftable[f].ref # 0
  <2>1. Counted(f)
    BY <1>2, Zenon DEF RefInv
  <2> QED
    BY <1>3, <2>1, FreeFile, Zenon
<1> QED
  BY <1>1, <1>2, <1>3, <1>4, <1>5, Zenon

\* One element more, one element less.
LEMMA OneMore ==
  ASSUME NEW S, IsFiniteSet(S), NEW x
  PROVE  /\ x \notin S => Cardinality(S \cup {x}) = Cardinality(S) + 1
         /\ x \in S => Cardinality(S \ {x}) = Cardinality(S) - 1
         /\ Cardinality({x}) = 1 /\ Cardinality({}) = 0
<1>1. x \notin S => Cardinality(S \cup {x}) = Cardinality(S) + 1
  BY FS_AddElement, Zenon
<1>2. x \in S => Cardinality(S \ {x}) = Cardinality(S) - 1
  BY FS_RemoveElement, Zenon
<1>3. Cardinality({x}) = 1
  BY FS_Singleton, Zenon
<1>4. Cardinality({}) = 0
  BY FS_EmptySet, Zenon
<1> QED
  BY <1>1, <1>2, <1>3, <1>4, Zenon

\* sys_pipe's first filealloc: the call holds a file nothing refers to.
LEMMA PipeKeeps ==
  ASSUME Inv, NEW p \in Procs, Pipe(p)
  PROVE  Inv'
<1>0. Typed /\ RefInv
  BY Zenon DEF Inv, RefInv
<1>1. CASE FreeFiles(ftable) = {}
  BY <1>0, <1>1, StutterKeeps, Zenon DEF Pipe, Typed
<1>2. CASE FreeFiles(ftable) # {}
  <2>1. PICK f : f = Min(FreeFiles(ftable))
    BY Zenon
  <2>2. f \in Files /\ ftable[f].ref = 0
    BY <1>2, <2>1, FirstFree, Zenon DEF FreeFiles
  <2>3. /\ th[p].pc = "user"
        /\ ftable' = [ftable EXCEPT ![f].ref = 1]
        /\ th' = [th EXCEPT ![p].pc = "pipe2", ![p].f = f]
        /\ UNCHANGED <<ofile, pipe, killed>>
    BY <1>2, <2>1, Zenon DEF Pipe, CanCall
  <2>4. th' \in [Procs -> Place]
    <3>1. th' = [th EXCEPT ![p] = [th[p] EXCEPT !.pc = "pipe2", !.f = f]]
      BY <1>0, <2>3, Zenon DEF Typed, Place
    <3>2. [th[p] EXCEPT !.pc = "pipe2", !.f = f] \in Place
      <4>1. \A t \in Place, k \in Files : [t EXCEPT !.pc = "pipe2", !.f = k] \in Place
        BY Zenon DEF Place, Labels
      <4> QED
        BY <1>0, <2>2, <4>1, Zenon DEF Typed
    <3> QED
      BY <1>0, <3>1, <3>2, Zenon DEF Typed
  <2>5. /\ th'[p].pc = "pipe2" /\ th'[p].f = f /\ th'[p].page = th[p].page
        /\ \A q \in Procs \ {p} : th'[q] = th[q]
    BY <1>0, <2>3, Zenon DEF Typed, Place
  <2>6. ftable' \in [Files -> Entry]
    BY <1>0, <2>2, <2>3, ZenonT(90) DEF Typed, Entry
  <2>7. /\ ftable'[f].ref = 1
        /\ \A h \in Files : h # f => ftable'[h] = ftable[h]
        /\ \A h \in Files : /\ ftable'[h].type = ftable[h].type
                            /\ ftable'[h].page = ftable[h].page
                            /\ ftable'[h].writable = ftable[h].writable
    BY <1>0, <2>2, <2>3 DEF Typed, Entry
  <2>8. Typed'
    BY <1>0, <2>3, <2>4, <2>6, TypedNext, Zenon DEF Typed
  <2>9. Refers(f) = {} /\ Holds(f) = {}
    BY <1>0, <2>2, FreeFile, Zenon DEF RefInv
  <2>10. \A h : Refers(h)' = Refers(h)
    BY <2>3, Zenon DEF Refers, Fds
  <2>11. Holds(f)' = {p} /\ \A h : h # f => Holds(h)' = Holds(h)
    <3>1. \A q \in Procs : q = p \/ th'[q] = th[q]
      BY <2>5, Zenon
    <3>0. \A r \in Procs : ~(th[r].pc = "pipe2" /\ th[r].f = f)
      BY <2>9, Zenon DEF Holds
    <3>2. Holds(f)' = {p}
      BY <2>5, <3>0, <3>1, Zenon DEF Holds
    <3>3. ASSUME NEW h, h # f PROVE Holds(h)' = Holds(h)
      BY <2>3, <2>5, <3>1, <3>3, Zenon DEF Holds
    <3> QED
      BY <3>2, <3>3, Zenon
  <2>12. ASSUME NEW h \in Files PROVE Counted(h)'
    <3>1. CASE h = f
      <4>1. Cardinality(Refers(f)') = 0 /\ Cardinality(Holds(f)') = 1
        BY <2>9, <2>10, <2>11, FS_Singleton, FS_EmptySet, Zenon
      <4> QED
        BY <2>7, <3>1, <4>1 DEF Counted
    <3>2. CASE h # f
      BY <1>0, <2>7, <2>10, <2>11, <3>2, Zenon DEF RefInv, Counted
    <3> QED
      BY <3>1, <3>2, Zenon
  <2>13. ASSUME NEW h \in Files PROVE Kind(h)'
    <3>1. Kind(h) /\ 1 # 0
      BY <1>0 DEF RefInv
    <3>2. CASE h = f
      BY <2>7, <3>1, <3>2, Zenon DEF Kind
    <3>3. CASE h # f
      BY <2>7, <3>1, <3>3, Zenon DEF Kind
    <3> QED
      BY <3>2, <3>3, Zenon
  <2>14. ASSUME NEW q \in Procs PROVE Holder(q)'
    <3>1. ftable[f].type = "none" /\ \A r \in Procs, fd \in Fds : ofile[r][fd] # f
      BY <1>0, <2>2, <2>9, RefersIs, Zenon DEF RefInv, Kind
    <3>2. \A r \in Procs : th[r].pc = "pipe2" => th[r].f # f
      BY <2>9, Zenon DEF Holds
    <3>3. CASE q = p
      <4>1. f \in Files /\ ftable'[f].type = "none"
        BY <2>2, <2>7, <3>1, Zenon
      <4>2. \A r \in Procs : th'[r].pc = "pipe2" /\ th'[r].f = f => r = p
        BY <2>5, <3>2, Zenon
      <4>3. \A r \in Procs, fd \in Fds : ofile'[r][fd] # f
        BY <2>3, <3>1, Zenon
      <4> QED
        BY <2>5, <3>3, <4>1, <4>2, <4>3, Zenon DEF Holder, Files, Fds
    <3>4. CASE q # p
      <4>1. Holder(q) /\ th'[q] = th[q]
        BY <1>0, <2>5, <3>4, Zenon DEF RefInv
      <4>2. ASSUME th[q].pc = "pipe2"
            PROVE  /\ \A r \in Procs : th'[r].pc = "pipe2" /\ th'[r].f = th[q].f =>
                                         th[r].pc = "pipe2" /\ th[r].f = th[q].f
                   /\ ftable'[th[q].f].type = ftable[th[q].f].type
                   /\ \A r \in Procs, fd \in Fds : ofile'[r][fd] # th[q].f
        <5>1. PICK h : h = th[q].f
          BY Zenon
        <5>2. h \in Files /\ h # f /\ \A r \in Procs, fd \in Fds : ofile[r][fd] # h
          BY <3>2, <4>1, <4>2, <5>1, Zenon DEF Holder
        <5>3. \A r \in Procs : th'[r].pc = "pipe2" /\ th'[r].f = h => th[r].pc = "pipe2" /\ th[r].f = h
          BY <2>5, <5>2, Zenon
        <5>4. ftable'[h].type = ftable[h].type /\ \A r \in Procs, fd \in Fds : ofile'[r][fd] # h
          BY <2>3, <2>7, <5>2, Zenon
        <5> QED
          BY <5>1, <5>3, <5>4, Zenon
      <4> QED
        BY <4>1, <4>2, HolderFrame, Zenon
    <3> QED
      BY <3>3, <3>4, Zenon
  <2>15. \A q \in Procs : Empty(q)'
    BY <1>0, <2>3, <2>5, Zenon DEF RefInv, Empty, Fds
  <2>16. RefInv'
    BY <2>8, <2>12, <2>13, <2>14, <2>15, Zenon DEF RefInv, Files
  <2>17. th[p].page = NoPage
    BY <2>3, Zenon DEF Inv, EndInv, Works, Readers, Writers, Closers
  <2>18. \A h \in Files : \A g, w : IsEnd(h, g, w)' <=> IsEnd(h, g, w)
    BY <2>7, Zenon DEF IsEnd
  <2> QED
    BY <2>3, <2>5, <2>16, <2>17, <2>18, TableKeeps, Zenon DEF Readers, Writers, Closers
<1> QED
  BY <1>1, <1>2, Zenon

\* One descriptor is set or cleared, and the file it refers or referred to is
\* counted anew.
LEMMA RefStep ==
  ASSUME RefInv, Typed', NEW p \in Procs, NEW d \in Fds, NEW f \in Files, NEW k \in {0, f},
         Sets(p, d, k), ofile[p][d] \in {0, f},
         \A h \in Files \ {f} : ftable'[h] = ftable[h], Counted(f)', Kind(f)',
         \A q \in Procs : th[q].pc = "pipe2" => th[q].f # f,
         \A q \in Procs : /\ th'[q].pc = "pipe2" <=> th[q].pc = "pipe2"
                          /\ th'[q].pc = "pipe2" => th'[q].f = th[q].f,
         \A q \in Procs : Empty(q)'
  PROVE  RefInv'
<1>1. k \in Files \cup {0} /\ 0 \notin Files /\ ofile \in [Procs -> [Fds -> Files \cup {0}]]
  BY FilesConstants DEF RefInv, Typed, Files
<1>2. /\ \A q \in Procs, e \in Fds : ofile'[q][e] = ofile[q][e] \/ ofile'[q][e] = k
      /\ \A h : h # k => Refers(h)' = Refers(h) \ {<<p, d>>}
  BY <1>1, SetFd
<1>3. ASSUME NEW h \in Files, h # f PROVE Refers(h)' = Refers(h)
  <2>1. <<p, d>> \in Refers(h) <=> ofile[p][d] = h
    BY RefersIs
  <2>2. h # k /\ ofile[p][d] # h
    BY <1>1, <1>3, Zenon
  <2> QED
    BY <1>2, <2>1, <2>2, ZenonT(90)
<1>4. ASSUME NEW h PROVE Holds(h)' = Holds(h)
  BY Zenon DEF Holds
<1>5. ASSUME NEW h \in Files PROVE Counted(h)' /\ Kind(h)'
  <2>1. CASE h # f
    BY <1>3, <1>4, <2>1, ZenonT(90) DEF RefInv, Counted, Kind
  <2> QED
    BY <2>1, Zenon
<1>6. ASSUME NEW q \in Procs PROVE Holder(q)'
  <2>1. Holder(q)
    BY Zenon DEF RefInv
  <2>2. ASSUME th[q].pc = "pipe2"
        PROVE  /\ \A r \in Procs : th'[r].pc = "pipe2" /\ th'[r].f = th[q].f =>
                                     th[r].pc = "pipe2" /\ th[r].f = th[q].f
               /\ ftable'[th[q].f].type = ftable[th[q].f].type
               /\ \A r \in Procs, fd \in Fds : ofile'[r][fd] # th[q].f
    <3>1. PICK h : h = th[q].f
      BY Zenon
    <3>2. h \in Files /\ h # f /\ h # k /\ \A r \in Procs, fd \in Fds : ofile[r][fd] # h
      BY <1>1, <2>1, <2>2, <3>1, Zenon DEF Holder
    <3>3. \A r \in Procs : th'[r].pc = "pipe2" /\ th'[r].f = h => th[r].pc = "pipe2" /\ th[r].f = h
      BY Zenon
    <3>4. ftable'[h].type = ftable[h].type
      BY <3>2, Zenon
    <3>5. ASSUME NEW r \in Procs, NEW fd \in Fds PROVE ofile'[r][fd] # h
      <4>1. ofile'[r][fd] = ofile[r][fd] \/ ofile'[r][fd] = k
        BY <1>2, Zenon
      <4> QED
        BY <3>2, <4>1, Zenon
    <3> QED
      BY <3>1, <3>3, <3>4, <3>5, Zenon
  <2> QED
    BY <2>1, <2>2, HolderFrame, Zenon
<1> QED
  BY <1>5, <1>6, Zenon DEF RefInv, Files

\* sys_open: a free file and a free descriptor.
LEMMA OpenInodeKeeps ==
  ASSUME Inv, NEW p \in Procs, OpenInode(p)
  PROVE  Inv'
<1>0. Typed /\ RefInv /\ 0 \notin Files
  BY FilesConstants DEF Inv, RefInv, Files
<1>1. PICK f, d : f = Min(FreeFiles(ftable)) /\ d = Min(Free(p))
  BY Zenon
<1>2. f \in Files /\ ftable[f].ref = 0 /\ d \in Fds /\ ofile[p][d] = 0
  BY <1>1, FirstFree, Zenon DEF FreeFiles, Free, Open, OpenInode
<1>3. /\ th[p].pc = "user"
      /\ ftable' = [ftable EXCEPT ![f] = [None EXCEPT !.ref = 1, !.type = "inode"]]
      /\ Sets(p, d, f)
      /\ UNCHANGED <<pipe, th, killed>>
  BY <1>1, Zenon DEF OpenInode, CanCall, Sets
<1>4. /\ ftable' \in [Files -> Entry]
      /\ ftable'[f].ref = 1 /\ ftable'[f].type = "inode"
      /\ \A h \in Files \ {f} : ftable'[h] = ftable[h]
  BY <1>0, <1>2, <1>3, Zenon DEF Typed, Entry, None
<1>5. /\ ofile' \in [Procs -> [Fds -> Files \cup {0}]] /\ Refers(f)' = Refers(f) \cup {<<p, d>>}
      /\ ofile'[p][d] = f
      /\ \A q \in Procs, e \in Fds : q # p \/ e # d => ofile'[q][e] = ofile[q][e]
  <2>1. ofile \in [Procs -> [Fds -> Files \cup {0}]] /\ f \in Files \cup {0} /\ Sets(p, d, f)
    BY <1>0, <1>2, <1>3, Zenon DEF Typed
  <2> QED
    BY <1>2, <2>1, SetFd
<1>6. Typed'
  BY <1>0, <1>3, <1>4, <1>5, TypedNext, Zenon DEF Typed
<1>7. Refers(f) = {} /\ Holds(f) = {} /\ ftable[f].type = "none"
  BY <1>0, <1>2, FreeFile, Zenon DEF RefInv, Kind
<1>8. Counted(f)'
  <2>1. Refers(f)' = {<<p, d>>} /\ Holds(f)' = {}
    BY <1>3, <1>5, <1>7, Zenon DEF Holds
  <2>2. Cardinality(Refers(f)') = 1 /\ Cardinality(Holds(f)') = 0
    BY <2>1, FS_Singleton, FS_EmptySet, Zenon
  <2> QED
    BY <1>4, <2>2 DEF Counted
<1>9. Kind(f)'
  BY <1>4 DEF Kind
<1>10. \A q \in Procs : th[q].pc = "pipe2" => th[q].f # f
  BY <1>7, Zenon DEF Holds
<1>11. ASSUME NEW q \in Procs PROVE Empty(q)'
  BY <1>0, <1>3, <1>5, Zenon DEF RefInv, Empty, Fds
<1>12. RefInv'
  BY <1>0, <1>2, <1>3, <1>4, <1>6, <1>8, <1>9, <1>10, <1>11, RefStep, Zenon
<1>13. ASSUME NEW h \in Files, NEW g, NEW w PROVE IsEnd(h, g, w)' <=> IsEnd(h, g, w)
  <2>1. CASE h = f
    BY <1>4, <1>7, <2>1, Zenon DEF IsEnd
  <2>2. CASE h # f
    BY <1>4, <2>2, Zenon DEF IsEnd
  <2> QED
    BY <2>1, <2>2, Zenon
<1>14. ASSUME NEW q \in Procs \ {p}, NEW fd \in Fds PROVE ofile'[q][fd] = ofile[q][fd]
  BY <1>5, Zenon
<1>15. th[p].page = NoPage
  BY <1>3, Zenon DEF Inv, EndInv, Works, Readers, Writers, Closers
<1> QED
  BY <1>3, <1>12, <1>13, <1>14, <1>15, TableKeeps, Zenon DEF Readers, Writers, Closers

\* sys_dup: one more descriptor, one more reference.
LEMMA DupKeeps ==
  ASSUME Inv, NEW p \in Procs, NEW fd \in Fds, Dup(p, fd)
  PROVE  Inv'
<1>0. Typed /\ RefInv /\ 0 \notin Files
  BY FilesConstants DEF Inv, RefInv, Files
<1>1. PICK f, d : f = ofile[p][fd] /\ d = Min(Free(p))
  BY Zenon
<1>2. f \in Files /\ d \in Fds /\ ofile[p][d] = 0
  <2>1. f # 0 /\ d \in Fds /\ ofile[p][d] = 0
    BY <1>1, FirstFree, Zenon DEF Free, Open, Dup
  <2> QED
    BY <1>0, <1>1, <2>1 DEF Typed
<1>3. /\ th[p].pc = "user"
      /\ ftable' = [ftable EXCEPT ![f].ref = @ + 1]
      /\ Sets(p, d, f)
      /\ UNCHANGED <<pipe, th, killed>>
  BY <1>1, Zenon DEF Dup, CanCall, Sets
<1>4. /\ ftable' \in [Files -> Entry]
      /\ ftable'[f].ref = ftable[f].ref + 1
      /\ ftable'[f].type = ftable[f].type /\ ftable'[f].page = ftable[f].page
      /\ ftable'[f].writable = ftable[f].writable
      /\ \A h \in Files \ {f} : ftable'[h] = ftable[h]
  <2>1. PICK e : e = [ftable[f] EXCEPT !.ref = @ + 1]
    BY Zenon
  <2>2. ftable' = [ftable EXCEPT ![f] = e]
    BY <1>3, <2>1, Zenon
  <2>3. ftable[f] \in Entry
    BY <1>0, <1>2, Zenon DEF Typed
  <2>4. /\ e \in Entry /\ e.ref = ftable[f].ref + 1 /\ e.type = ftable[f].type
        /\ e.page = ftable[f].page /\ e.writable = ftable[f].writable
    BY <2>1, <2>3 DEF Entry
  <2> QED
    BY <1>0, <1>2, <2>2, <2>4, Zenon DEF Typed
<1>5. /\ ofile' \in [Procs -> [Fds -> Files \cup {0}]] /\ Refers(f)' = Refers(f) \cup {<<p, d>>}
      /\ ofile'[p][d] = f
      /\ \A q \in Procs, e \in Fds : q # p \/ e # d => ofile'[q][e] = ofile[q][e]
  <2>1. ofile \in [Procs -> [Fds -> Files \cup {0}]] /\ f \in Files \cup {0} /\ Sets(p, d, f)
    BY <1>0, <1>2, <1>3, Zenon DEF Typed
  <2> QED
    BY <1>2, <2>1, SetFd
<1>6. Typed'
  BY <1>0, <1>3, <1>4, <1>5, TypedNext, Zenon DEF Typed
<1>7. <<p, d>> \notin Refers(f)
  <2>1. <<p, d>> \in Refers(f) <=> ofile[p][d] = f
    BY <1>2, RefersIs, Zenon
  <2> QED
    BY <1>0, <1>2, <2>1, Zenon
<1>8. Counted(f)'
  <2>1. Holds(f)' = Holds(f)
    BY <1>3, Zenon DEF Holds
  <2>2. Cardinality(Refers(f)') = Cardinality(Refers(f)) + 1
    <3>1. Cardinality(Refers(f) \cup {<<p, d>>}) = Cardinality(Refers(f)) + 1
      BY <1>7, Finite, OneMore, Zenon
    <3> QED
      BY <1>5, <3>1, Zenon
  <2>3. Counted(f)
    BY <1>0, <1>2, Zenon DEF RefInv
  <2>4. Cardinality(Refers(f)) \in Nat /\ Cardinality(Holds(f)) \in Nat
    BY Finite, Zenon
  <2> QED
    BY <1>4, <2>1, <2>2, <2>3, <2>4 DEF Counted
<1>9. Kind(f)'
  <2>1. Kind(f) /\ ftable[f].ref \in Nat
    BY <1>0, <1>2, Zenon DEF RefInv, Typed, Entry
  <2>2. ftable'[f].ref # 0
    BY <1>4, <2>1
  <2> QED
    BY <1>4, <2>1, <2>2, Zenon DEF Kind
<1>10. \A q \in Procs : th[q].pc = "pipe2" => th[q].f # f
  BY <1>0, <1>1, Zenon DEF RefInv, Holder
<1>11. ASSUME NEW q \in Procs PROVE Empty(q)'
  BY <1>0, <1>3, <1>5, Zenon DEF RefInv, Empty, Fds
<1>12. RefInv'
  BY <1>0, <1>2, <1>3, <1>4, <1>6, <1>8, <1>9, <1>10, <1>11, RefStep, Zenon
<1>13. ASSUME NEW h \in Files, NEW g, NEW w PROVE IsEnd(h, g, w)' <=> IsEnd(h, g, w)
  <2>1. CASE h = f
    BY <1>4, <2>1, Zenon DEF IsEnd
  <2>2. CASE h # f
    BY <1>4, <2>2, Zenon DEF IsEnd
  <2> QED
    BY <2>1, <2>2, Zenon
<1>14. ASSUME NEW q \in Procs \ {p}, NEW e \in Fds PROVE ofile'[q][e] = ofile[q][e]
  BY <1>5, Zenon
<1>15. th[p].page = NoPage
  BY <1>3, Zenon DEF Inv, EndInv, Works, Readers, Writers, Closers
<1> QED
  BY <1>3, <1>12, <1>13, <1>14, <1>15, TableKeeps, Zenon DEF Readers, Writers, Closers

\* fileclose returns to its caller, or goes on to pipeclose.
LEMMA BackIs ==
  ASSUME NEW back \in {BackToUser, BackToExit}
  PROVE  /\ back.done \in Place /\ back.done.pc \in {"user", "exit"} /\ back.done.page = NoPage
         /\ back.pclose \in Closers
<1>1. CASE back = BackToUser
  BY <1>1, UserIs, Zenon DEF BackToUser, Closers
<1>2. CASE back = BackToExit
  BY <1>2, Zenon DEF BackToExit, Closers, User, Place, Labels
<1> QED
  BY <1>1, <1>2, Zenon

\* fileclose's share of the file table and of the descriptors.
Dropped(p, fd, f) ==
  /\ ftable' \in [Files -> Entry] /\ Counted(f)' /\ Kind(f)'
  /\ \A h \in Files \ {f} : ftable'[h] = ftable[h]
  /\ \A q \in Procs, e \in Fds : q # p \/ e # fd => ofile'[q][e] = ofile[q][e]
  /\ ofile' \in [Procs -> [Fds -> Files \cup {0}]]
  /\ ftable[f].ref # 1 => /\ ftable'[f].type = ftable[f].type
                          /\ ftable'[f].page = ftable[f].page
                          /\ ftable'[f].writable = ftable[f].writable
  /\ ftable[f].ref = 1 => ftable'[f].type = "none" /\ Refers(f) = {<<p, fd>>}

\* It gives back one reference, and empties the entry when it was the last.
LEMMA DropCounts ==
  ASSUME RefInv, NEW p \in Procs, NEW fd \in Fds, NEW f \in Files, ofile[p][fd] = f,
         Sets(p, fd, 0), ftable' = [ftable EXCEPT ![f] = DropFile(f)], Holds(f)' = Holds(f)
  PROVE  Dropped(p, fd, f)
<1>1. Counted(f) /\ Kind(f) /\ ftable[f] \in Entry /\ 0 \notin Files
  BY FilesConstants DEF RefInv, Typed, Files
<1>2. <<p, fd>> \in Refers(f)
  BY RefersIs, Zenon
<1>3. ftable[f].ref \in Nat /\ ftable[f].ref >= 1
  BY <1>1, <1>2, UsedFile, Zenon
<1>4. PICK e : e = DropFile(f)
  BY Zenon
<1>5. ftable[f].ref > 1 \/ ftable[f].ref = 1
  BY <1>3
<1>6. e \in Entry /\ e.ref = ftable[f].ref - 1
  <2>1. CASE ftable[f].ref > 1
    <3>1. e = [ftable[f] EXCEPT !.ref = ftable[f].ref - 1] /\ ftable[f].ref - 1 \in Nat
      BY <1>1, <1>3, <1>4, <2>1 DEF DropFile, Entry
    <3> QED
      BY <1>1, <3>1, Zenon DEF Entry
  <2>2. CASE ftable[f].ref = 1
    BY <1>4, <2>2 DEF DropFile, None, Entry
  <2> QED
    BY <1>5, <2>1, <2>2, Zenon
<1>7. /\ ftable[f].ref > 1 => /\ e.type = ftable[f].type /\ e.page = ftable[f].page
                              /\ e.writable = ftable[f].writable
      /\ ftable[f].ref = 1 => e.type = "none"
  <2>1. ASSUME ftable[f].ref > 1
        PROVE  e.type = ftable[f].type /\ e.page = ftable[f].page /\ e.writable = ftable[f].writable
    BY <1>1, <1>4, <2>1, Zenon DEF DropFile, Entry
  <2>2. ASSUME ftable[f].ref = 1 PROVE e.type = "none"
    BY <1>4, <2>2 DEF DropFile, None
  <2> QED
    BY <2>1, <2>2, Zenon
<1>8. ftable'[f] = e /\ ftable' \in [Files -> Entry] /\ \A h \in Files \ {f} : ftable'[h] = ftable[h]
  BY <1>4, <1>6, Zenon DEF RefInv, Typed
<1>9. /\ ofile' \in [Procs -> [Fds -> Files \cup {0}]]
      /\ \A q \in Procs, d \in Fds : q # p \/ d # fd => ofile'[q][d] = ofile[q][d]
      /\ Refers(f)' = Refers(f) \ {<<p, fd>>}
  <2>1. ofile \in [Procs -> [Fds -> Files \cup {0}]] /\ 0 \in Files \cup {0} /\ f # 0
    BY <1>1, Zenon DEF RefInv, Typed
  <2> QED
    BY <2>1, SetFd
<1>10. Counted(f)'
  <2>1. Cardinality(Refers(f) \ {<<p, fd>>}) = Cardinality(Refers(f)) - 1
    BY <1>2, Finite, OneMore, Zenon
  <2>2. Cardinality(Refers(f)') = Cardinality(Refers(f)) - 1 /\ Cardinality(Holds(f)') = Cardinality(Holds(f))
    BY <1>9, <2>1, Zenon
  <2>3. Cardinality(Refers(f)) \in Nat /\ Cardinality(Holds(f)) \in Nat
    BY Finite, Zenon
  <2> QED
    BY <1>1, <1>6, <1>8, <2>2, <2>3 DEF Counted
<1>11. Kind(f)'
  <2>1. ftable[f].ref > 1 => e.ref # 0
    BY <1>3, <1>6
  <2>2. "none" # "pipe"
    BY Zenon
  <2> QED
    BY <1>1, <1>7, <1>8, <1>5, <2>1, <2>2, Zenon DEF Kind
<1>12. ftable[f].ref = 1 => Refers(f) = {<<p, fd>>}
  BY <1>1, <1>2, LastReference, Zenon
<1>13. ftable[f].ref # 1 => ftable[f].ref > 1
  BY <1>3
<1> QED
  BY <1>7, <1>8, <1>9, <1>10, <1>11, <1>12, <1>13, Zenon DEF Dropped

\* fileclose: a reference less; the last one of a pipe's end leaves the end to
\* the pipeclose that follows.
LEMMA FilecloseKeeps ==
  ASSUME Inv, NEW p \in Procs, NEW fd \in Open(p), NEW back \in {BackToUser, BackToExit},
         th[p].pc \in {"user", "exit"}, Fileclose(p, fd, back)
  PROVE  Inv'
<1>0. Typed /\ RefInv /\ 0 \notin Files
  BY FilesConstants DEF Inv, RefInv, Files
<1>1. PICK f : f = ofile[p][fd]
  BY Zenon
<1>2. f \in Files /\ fd \in Fds
  <2>1. fd \in Fds /\ f # 0
    BY <1>1, Zenon DEF Open
  <2> QED
    BY <1>0, <1>1, <2>1 DEF Typed
<1>3. PICK t : t = IF ftable[f].ref = 1 /\ ftable[f].type = "pipe"
                   THEN [User EXCEPT !.pc = back.pclose, !.page = ftable[f].page, !.w = ftable[f].writable]
                   ELSE back.done
  BY Zenon
<1>4. /\ Sets(p, fd, 0) /\ ftable' = [ftable EXCEPT ![f] = DropFile(f)]
      /\ th' = [th EXCEPT ![p] = t] /\ UNCHANGED <<pipe, killed>>
  BY <1>1, <1>3, Zenon DEF Fileclose, Sets
<1>5. /\ t \in Place
      /\ ftable[f].ref = 1 /\ ftable[f].type = "pipe" =>
           t.pc \in Closers /\ t.page = ftable[f].page /\ t.w = ftable[f].writable
      /\ ~(ftable[f].ref = 1 /\ ftable[f].type = "pipe") => t.pc \in {"user", "exit"} /\ t.page = NoPage
  <2>1. CASE ftable[f].ref = 1 /\ ftable[f].type = "pipe"
    <3>1. t = [User EXCEPT !.pc = back.pclose, !.page = ftable[f].page, !.w = ftable[f].writable]
      BY <1>3, <2>1, Zenon
    <3>2. ftable[f].page \in Pages \cup {NoPage} /\ ftable[f].writable \in BOOLEAN
      BY <1>0, <1>2, Zenon DEF Typed, Entry
    <3>3. back.pclose \in Closers
      BY BackIs, Zenon
    <3>4. t \in Place
      BY <3>1, <3>2, <3>3, Zenon DEF User, Place, Labels
    <3>5. t.pc \in Closers /\ t.page = ftable[f].page /\ t.w = ftable[f].writable
      BY <3>1, <3>3, Zenon DEF User
    <3> QED
      BY <2>1, <3>4, <3>5, Zenon
  <2>2. CASE ~(ftable[f].ref = 1 /\ ftable[f].type = "pipe")
    BY <1>3, <2>2, BackIs, Zenon
  <2> QED
    BY <2>1, <2>2, Zenon
<1>6. th' \in [Procs -> Place] /\ th'[p] = t /\ \A q \in Procs \ {p} : th'[q] = th[q]
  BY <1>0, <1>4, <1>5, Zenon DEF Typed
<1>7. t.pc \notin {"pipe2", "unused", "zombie"} \cup Readers \cup Writers
  BY <1>5, Zenon DEF Closers, Readers, Writers
<1>8. \A q \in Procs : /\ th'[q].pc = "pipe2" <=> th[q].pc = "pipe2"
                       /\ th'[q].pc = "pipe2" => th'[q].f = th[q].f
  BY <1>6, <1>7, Zenon
<1>9. Holds(f)' = Holds(f)
  BY <1>8, Zenon DEF Holds
<1>10. Dropped(p, fd, f)
  BY <1>0, <1>1, <1>2, <1>4, <1>9, DropCounts, Zenon
<1>11. Typed'
  BY <1>0, <1>4, <1>6, <1>10, TypedNext, Zenon DEF Typed, Dropped
<1>12. \A q \in Procs \ {p} : \A e \in Fds : ofile'[q][e] = ofile[q][e]
  BY <1>10, Zenon DEF Dropped
<1>13. ASSUME NEW q \in Procs PROVE Empty(q)'
  <2>1. CASE q = p
    BY <1>6, <1>7, <2>1, Zenon DEF Empty
  <2>2. CASE q # p
    BY <1>0, <1>6, <1>12, <2>2, Zenon DEF RefInv, Empty, Fds
  <2> QED
    BY <2>1, <2>2, Zenon
<1>14. RefInv'
  <2>1. \A q \in Procs : th[q].pc = "pipe2" => th[q].f # f
    BY <1>0, <1>1, <1>2, Zenon DEF RefInv, Holder
  <2>2. 0 \in {0, f} /\ ofile[p][fd] \in {0, f}
    BY <1>1, Zenon
  <2> QED
    BY <1>0, <1>2, <1>4, <1>8, <1>10, <1>11, <1>13, <2>1, <2>2, RefStep, Zenon DEF Dropped
<1>15. th[p].pc \notin Readers \cup Writers \cup Closers
  BY Zenon DEF Readers, Writers, Closers
<1>16. CASE ~(ftable[f].ref = 1 /\ ftable[f].type = "pipe")
  <2>1. ASSUME NEW h \in Files, NEW g, NEW w PROVE IsEnd(h, g, w)' <=> IsEnd(h, g, w)
    <3>1. CASE h # f
      BY <1>10, <3>1, Zenon DEF IsEnd, Dropped
    <3>2. CASE h = f /\ ftable[f].ref # 1
      BY <1>10, <3>2, Zenon DEF IsEnd, Dropped
    <3>3. CASE h = f /\ ftable[f].ref = 1
      BY <1>10, <1>16, <3>3, Zenon DEF IsEnd, Dropped
    <3> QED
      BY <3>1, <3>2, <3>3, Zenon
  <2>2. th'[p].pc \notin Readers \cup Writers \cup Closers /\ th'[p].page = NoPage
    BY <1>5, <1>6, <1>16, Zenon DEF Readers, Writers, Closers
  <2>3. \A q \in Procs \ {p} : \A e \in Fds : ofile[q][e] # 0 => ofile'[q][e] = ofile[q][e]
    BY <1>12, Zenon
  <2>4. UNCHANGED pipe /\ \A q \in Procs \ {p} : th'[q] = th[q]
    BY <1>4, <1>6, Zenon
  <2> QED
    BY <1>14, <1>15, <2>1, <2>2, <2>3, <2>4, TableKeeps
<1>17. CASE ftable[f].ref = 1 /\ ftable[f].type = "pipe"
  <2>1. PICK g, w : g = ftable[f].page /\ w = ftable[f].writable
    BY Zenon
  <2>2. g \in Pages /\ w \in BOOLEAN
    <3>1. Kind(f) /\ ftable[f].writable \in BOOLEAN
      BY <1>0, <1>2, Zenon DEF RefInv, Typed, Entry
    <3> QED
      BY <1>17, <2>1, <3>1, Zenon DEF Kind
  <2>3. /\ \A h \in Files \ {f} : \A k, v : IsEnd(h, k, v)' <=> IsEnd(h, k, v)
        /\ \A k, v : IsEnd(f, k, v) <=> k = g /\ v = w
        /\ \A k, v : ~IsEnd(f, k, v)'
    <3>1. \A k, v : IsEnd(f, k, v) <=> k = g /\ v = w
      BY <1>17, <2>1, Zenon DEF IsEnd
    <3>2. \A k, v : ~IsEnd(f, k, v)'
      BY <1>10, <1>17, Zenon DEF IsEnd, Dropped
    <3>3. \A h \in Files \ {f} : \A k, v : IsEnd(h, k, v)' <=> IsEnd(h, k, v)
      BY <1>10, Zenon DEF IsEnd, Dropped
    <3> QED
      BY <3>1, <3>2, <3>3, Zenon
  <2>4. /\ \A q \in Procs \ {p} : \A k, v : Closes(q, k, v)' <=> Closes(q, k, v)
        /\ \A k, v : Closes(p, k, v)' <=> k = g /\ v = w
        /\ \A k, v : ~Closes(p, k, v)
    <3>1. \A k, v : Closes(p, k, v)' <=> k = g /\ v = w
      BY <1>5, <1>6, <1>17, <2>1, Zenon DEF Closes, Closers
    <3>2. \A k, v : ~Closes(p, k, v)
      BY <1>15, Zenon DEF Closes
    <3>3. \A q \in Procs \ {p} : \A k, v : Closes(q, k, v)' <=> Closes(q, k, v)
      BY <1>6, Zenon DEF Closes, Closers
    <3> QED
      BY <3>1, <3>2, <3>3, Zenon
  <2>5. ASSUME NEW k \in Pages, NEW v \in BOOLEAN PROVE OneEnd(k, v)' /\ (Ends(k, v)' <=> Ends(k, v))
    <3>1. OneEnd(k, v) /\ Files' = Files
      BY Zenon DEF Inv, EndInv, Files
    <3>2. CASE k = g /\ v = w
      <4>1. IsEnd(f, k, v) /\ ~IsEnd(f, k, v)' /\ Closes(p, k, v)' /\ Ends(k, v)
        BY <1>2, <2>3, <2>4, <3>2, EndsAre, Zenon
      <4>2. ASSUME NEW h \in Files PROVE ~IsEnd(h, k, v)'
        <5>1. h # f => ~IsEnd(h, k, v)
          BY <1>2, <3>1, <4>1, Zenon DEF OneEnd
        <5> QED
          BY <2>3, <4>1, <5>1, Zenon
      <4>3. ASSUME NEW q \in Procs, Closes(q, k, v)' PROVE q = p
        <5>1. ~Closes(q, k, v)
          BY <1>2, <3>1, <4>1, Zenon DEF OneEnd
        <5> QED
          BY <2>4, <4>3, <5>1, Zenon
      <4>4. Ends(k, v)'
        BY <4>1, EndsAre, Zenon
      <4> QED
        BY <3>1, <4>1, <4>2, <4>3, <4>4, Zenon DEF OneEnd
    <3>3. CASE ~(k = g /\ v = w)
      <4>1. ASSUME NEW h \in Files PROVE IsEnd(h, k, v)' <=> IsEnd(h, k, v)
        BY <2>3, <3>3, Zenon
      <4>2. ASSUME NEW q \in Procs PROVE Closes(q, k, v)' <=> Closes(q, k, v)
        BY <2>4, <3>3, Zenon
      <4>3. Ends(k, v)' <=> Ends(k, v)
        BY <4>1, <4>2, EndsAre, Zenon
      <4> QED
        BY <3>1, <4>1, <4>2, <4>3, Zenon DEF OneEnd
    <3> QED
      BY <3>2, <3>3, Zenon
  <2>6. ASSUME NEW k \in Pages PROVE OpenEnds(k)'
    <3>1. OpenEnds(k)
      BY Zenon DEF Inv, EndInv
    <3> QED
      BY <1>4, <2>5, <3>1, Zenon DEF OpenEnds
  <2>7. ASSUME NEW q \in Procs PROVE Works(q)'
    <3>1. CASE q = p
      BY <1>5, <1>6, <1>7, <1>17, <2>1, <2>2, <3>1, Zenon DEF Works, Readers, Writers, Closers
    <3>2. CASE q # p
      <4>1. Works(q) /\ th'[q] = th[q]
        BY <1>6, <3>2, Zenon DEF Inv, EndInv
      <4>2. ASSUME NEW e \in Fds, NEW k, NEW v, ofile[q][e] # 0, IsEnd(ofile[q][e], k, v)
            PROVE  IsEnd(ofile[q][e], k, v)'
        <5>1. PICK h : h = ofile[q][e]
          BY Zenon
        <5>2. <<q, e>> \in Refers(h) /\ <<q, e>> # <<p, fd>>
          BY <3>2, <5>1, RefersIs, Zenon
        <5>3. h # f
          <6>1. Refers(f) = {<<p, fd>>}
            BY <1>10, <1>17, Zenon DEF Dropped
          <6> QED
            BY <5>2, <6>1, Zenon
        <5>4. h \in Files
          BY <1>0, <4>2, <5>1 DEF Typed
        <5>5. IsEnd(h, k, v)' /\ ofile'[q][e] = h
          BY <1>12, <2>3, <3>2, <4>2, <5>1, <5>3, <5>4, Zenon
        <5> QED
          BY <5>5, Zenon DEF IsEnd
      <4> QED
        BY <1>12, <3>2, <4>1, <4>2, WorksFrame, Zenon
    <3> QED
      BY <3>1, <3>2, Zenon
  <2>8. EndInv'
    BY <2>5, <2>6, <2>7, Zenon DEF EndInv
  <2>9. PipeInv'
    BY <1>4, <1>6, <1>7, PipeFrame, Zenon DEF Inv
  <2> QED
    BY <1>14, <2>8, <2>9, Zenon DEF Inv
<1> QED
  BY <1>16, <1>17, Zenon

\* sys_close, and the loop of exit.
LEMMA CloseKeeps ==
  ASSUME Inv, NEW p \in Procs, NEW fd \in Fds, Close(p, fd) \/ ExitClose(p)
  PROVE  Inv'
<1>1. CASE Close(p, fd)
  BY <1>1, FilecloseKeeps, Zenon DEF Close, CanCall
<1>2. CASE ExitClose(p)
  <2>1. PICK d : d = Min(Open(p))
    BY Zenon
  <2>2. d \in Open(p) /\ Fileclose(p, d, BackToExit) /\ th[p].pc = "exit"
    BY <1>2, <2>1, FirstFree, Zenon DEF ExitClose
  <2> QED
    BY <2>2, FilecloseKeeps, Zenon
<1> QED
  BY <1>1, <1>2, Zenon

\* fork: the child refers to what its parent refers to.
LEMMA ForkKeeps ==
  ASSUME Inv, NEW p \in Procs, NEW child \in Procs, Fork(p, child)
  PROVE  Inv'
<1>0. Typed /\ RefInv /\ 0 \notin Files
  BY FilesConstants DEF Inv, RefInv, Files
<1> DEFINE S(f) == {fd \in Fds : ofile[p][fd] = f}
<1>1. /\ th[p].pc = "user" /\ th[child].pc = "unused"
      /\ ofile' = [ofile EXCEPT ![child] = ofile[p]]
      /\ ftable' = [f \in Files |-> [ftable[f] EXCEPT !.ref = @ + Cardinality(S(f))]]
      /\ th' = [th EXCEPT ![child] = User] /\ UNCHANGED <<pipe, killed>>
  BY Zenon DEF Fork, CanCall
<1> HIDE DEF S
<1>2. /\ th' \in [Procs -> Place] /\ th'[child] = User
      /\ \A q \in Procs \ {child} : th'[q] = th[q]
  BY <1>0, <1>1, UserIs, Zenon DEF Typed
<1>3. /\ ofile' \in [Procs -> [Fds -> Files \cup {0}]] /\ ofile'[child] = ofile[p]
      /\ \A q \in Procs \ {child} : ofile'[q] = ofile[q]
  BY <1>0, <1>1, Zenon DEF Typed
<1>4. ASSUME NEW f \in Files
      PROVE  IsFiniteSet(S(f)) /\ Cardinality(S(f)) \in Nat
  <2>1. IsFiniteSet(Fds)
    BY FilesConstants, FS_Interval DEF Fds
  <2>2. S(f) \in SUBSET Fds
    BY Zenon DEF S
  <2> QED
    BY <2>1, <2>2, FS_Subset, FS_CardinalityType, Zenon
<1>5. ASSUME NEW f \in Files
      PROVE  /\ ftable'[f] \in Entry /\ ftable'[f].ref = ftable[f].ref + Cardinality(S(f))
             /\ ftable'[f].type = ftable[f].type /\ ftable'[f].page = ftable[f].page
             /\ ftable'[f].writable = ftable[f].writable
  <2>1. PICK n \in Nat : n = Cardinality(S(f))
    BY <1>4, Zenon
  <2>2. ftable'[f] = [ftable[f] EXCEPT !.ref = @ + n]
    BY <1>1, <2>1, Zenon
  <2>3. ftable[f] \in Entry
    BY <1>0, Zenon DEF Typed
  <2> QED
    BY <2>1, <2>2, <2>3 DEF Entry
<1>6. ftable' \in [Files -> Entry]
  <2>1. \A f \in Files : ftable'[f] \in Entry
    BY <1>5, Zenon
  <2>2. ftable' = [f \in Files |-> ftable'[f]]
    BY <1>1, Zenon
  <2> QED
    BY <2>1, <2>2, Zenon
<1>7. Typed'
  BY <1>0, <1>1, <1>2, <1>3, <1>6, TypedNext, Zenon DEF Typed
<1>8. \A fd \in Fds : ofile[child][fd] = 0
  BY <1>0, <1>1, Zenon DEF RefInv, Empty
<1>9. ASSUME NEW f \in Files
      PROVE  Cardinality(Refers(f)') = Cardinality(Refers(f)) + Cardinality(S(f))
  <2>1. PICK T : T = {child} \X S(f)
    BY Zenon
  <2>2. IsFiniteSet(T) /\ Cardinality(T) = Cardinality(S(f))
    <3>1. IsFiniteSet({child}) /\ Cardinality({child}) = 1
      BY FS_Singleton, Zenon
    <3>2. IsFiniteSet(T) /\ Cardinality(T) = Cardinality({child}) * Cardinality(S(f))
      BY <1>4, <2>1, <3>1, FS_Product, Zenon
    <3>3. Cardinality(S(f)) \in Nat
      BY <1>4, Zenon
    <3> QED
      BY <3>1, <3>2, <3>3
  <2>3. ASSUME NEW x
        PROVE  /\ x \in Refers(f) => x \in Procs \X Fds /\ x[1] # child
               /\ x \in T <=> x \in Procs \X Fds /\ x[1] = child /\ ofile[p][x[2]] = f
    <3>1. x \in Refers(f) <=> x \in Procs \X Fds /\ ofile[x[1]][x[2]] = f
      BY Zenon DEF Refers
    <3>2. x \in T <=> x \in Procs \X Fds /\ x[1] = child /\ ofile[p][x[2]] = f
      BY <2>1, Zenon DEF S
    <3>3. x \in Procs \X Fds => x[2] \in Fds
      BY Zenon
    <3> QED
      BY <1>0, <1>8, <3>1, <3>2, <3>3, Zenon
  <2>4. Refers(f) \cap T = {}
    BY <2>3, Zenon
  <2>5. ASSUME NEW x PROVE x \in Refers(f)' <=> x \in Refers(f) \/ x \in T
    <3>1. x \in Refers(f)' <=> x \in Procs \X Fds /\ ofile'[x[1]][x[2]] = f
      BY Zenon DEF Refers, Fds
    <3>2. x \in Refers(f) <=> x \in Procs \X Fds /\ ofile[x[1]][x[2]] = f
      BY Zenon DEF Refers
    <3>3. x \in Procs \X Fds => x[1] \in Procs
      BY Zenon
    <3>4. x \in Refers(f) => x[1] # child
      BY <2>3, Zenon
    <3>5. x \in T <=> x \in Procs \X Fds /\ x[1] = child /\ ofile[p][x[2]] = f
      BY <2>3, Zenon
    <3> QED
      BY <1>3, <3>1, <3>2, <3>3, <3>4, <3>5, Zenon
  <2>6. Refers(f)' = Refers(f) \cup T
    BY <2>5, Zenon
  <2>7. Cardinality(Refers(f) \cup T) = Cardinality(Refers(f)) + Cardinality(T) - Cardinality({})
    BY <2>2, <2>4, Finite, FS_Union
  <2>8. Cardinality({}) = 0 /\ Cardinality(Refers(f)) \in Nat /\ Cardinality(S(f)) \in Nat
    BY <1>4, FS_EmptySet, Finite, Zenon
  <2> QED
    BY <2>2, <2>6, <2>7, <2>8
<1>10. \A q \in Procs : /\ th'[q].pc = "pipe2" <=> th[q].pc = "pipe2"
                        /\ th'[q].pc = "pipe2" => th'[q].f = th[q].f
  BY <1>1, <1>2, UserIs, Zenon
<1>11. ASSUME NEW f \in Files PROVE Counted(f)' /\ Kind(f)'
  <2>1. Holds(f)' = Holds(f)
    BY <1>10, Zenon DEF Holds
  <2>2. Counted(f) /\ Kind(f)
    BY <1>0, Zenon DEF RefInv
  <2>3. /\ Cardinality(Refers(f)) \in Nat /\ Cardinality(Holds(f)) \in Nat
        /\ Cardinality(S(f)) \in Nat
    BY <1>4, Finite, Zenon
  <2>4. ftable'[f].ref = ftable[f].ref + Cardinality(S(f))
    BY <1>5, Zenon
  <2>5. ftable[f].ref = Cardinality(Refers(f)) + Cardinality(Holds(f))
    BY <2>2, Zenon DEF Counted
  <2>6. Counted(f)'
    BY <1>9, <2>1, <2>3, <2>4, <2>5 DEF Counted
  <2>7. ftable'[f].ref = 0 => ftable[f].ref = 0
    BY <2>3, <2>4, <2>5
  <2> QED
    BY <1>5, <2>2, <2>6, <2>7, Zenon DEF Kind
<1>12. ASSUME NEW q \in Procs PROVE Holder(q)'
  <2>1. Holder(q)
    BY <1>0, Zenon DEF RefInv
  <2>2. ASSUME th[q].pc = "pipe2"
        PROVE  /\ \A r \in Procs : th'[r].pc = "pipe2" /\ th'[r].f = th[q].f =>
                                     th[r].pc = "pipe2" /\ th[r].f = th[q].f
               /\ ftable'[th[q].f].type = ftable[th[q].f].type
               /\ \A r \in Procs, fd \in Fds : ofile'[r][fd] # th[q].f
    <3>1. PICK h : h = th[q].f
      BY Zenon
    <3>2. h \in Files /\ \A r \in Procs, fd \in Fds : ofile[r][fd] # h
      BY <2>1, <2>2, <3>1, Zenon DEF Holder
    <3>3. \A r \in Procs : th'[r].pc = "pipe2" /\ th'[r].f = h => th[r].pc = "pipe2" /\ th[r].f = h
      BY <1>10, Zenon
    <3>4. ftable'[h].type = ftable[h].type
      BY <1>5, <3>2, Zenon
    <3>5. \A r \in Procs, fd \in Fds : ofile'[r][fd] # h
      BY <1>3, <3>2, Zenon
    <3> QED
      BY <3>1, <3>3, <3>4, <3>5, Zenon
  <2> QED
    BY <1>10, <2>1, <2>2, HolderFrame, Zenon
<1>13. ASSUME NEW q \in Procs PROVE Empty(q)'
  <2>1. CASE q = child
    BY <1>2, <2>1, UserIs, Zenon DEF Empty
  <2>2. CASE q # child
    BY <1>0, <1>2, <1>3, <2>2, Zenon DEF RefInv, Empty, Fds
  <2> QED
    BY <2>1, <2>2, Zenon
<1>14. RefInv'
  BY <1>7, <1>11, <1>12, <1>13, Zenon DEF RefInv, Files
<1>15. ASSUME NEW h \in Files, NEW g, NEW w PROVE IsEnd(h, g, w)' <=> IsEnd(h, g, w)
  BY <1>5, Zenon DEF IsEnd
<1>16. \A q \in Procs \ {child} : \A fd \in Fds : ofile[q][fd] # 0 => ofile'[q][fd] = ofile[q][fd]
  BY <1>3, Zenon
<1>17. /\ th[child].pc \notin Readers \cup Writers \cup Closers
       /\ th'[child].pc \notin Readers \cup Writers \cup Closers /\ th'[child].page = NoPage
  BY <1>1, <1>2, UserIs, Zenon DEF Readers, Writers, Closers
<1>18. UNCHANGED pipe /\ \A q \in Procs \ {child} : th'[q] = th[q]
  BY <1>1, <1>2, Zenon
<1> QED
  BY <1>14, <1>15, <1>16, <1>17, <1>18, TableKeeps

\* The rest of sys_pipe failing: the file it held is free again.
LEMMA PipeFailsKeeps ==
  ASSUME Inv, NEW p \in Procs, th[p].pc = "pipe2", ftable' = PipeFails(th[p].f),
         UNCHANGED <<ofile, pipe, killed>>, th' = [th EXCEPT ![p] = User]
  PROVE  Inv'
<1>0. Typed /\ RefInv
  BY Zenon DEF Inv, RefInv
<1>1. PICK f : f = th[p].f
  BY Zenon
<1>2. /\ f \in Files /\ ftable[f].type = "none" /\ ftable[f].ref # 0
      /\ Refers(f) = {} /\ Holds(f) = {p}
  BY <1>0, <1>1, HeldFile, Zenon
<1>3. /\ ftable' \in [Files -> Entry] /\ ftable'[f] = None
      /\ \A h \in Files \ {f} : ftable'[h] = ftable[h]
  <2>1. None \in Entry
    BY Zenon DEF None, Entry
  <2> QED
    BY <1>0, <1>1, <1>2, <2>1, Zenon DEF PipeFails, Typed
<1>4. None.ref = 0 /\ None.type = "none"
  BY Zenon DEF None
<1>5. th' \in [Procs -> Place] /\ th'[p] = User /\ \A q \in Procs \ {p} : th'[q] = th[q]
  BY <1>0, UserIs, Zenon DEF Typed
<1>6. Typed'
  BY <1>0, <1>3, <1>5, TypedNext, Zenon DEF Typed
<1>7. ASSUME NEW h \in Files PROVE Counted(h)' /\ Kind(h)'
  <2>1. Refers(h)' = Refers(h)
    BY Zenon DEF Refers, Fds
  <2>2. CASE h = f
    <3>1. \A q \in Procs : th[q].pc = "pipe2" /\ th[q].f = f => q = p
      BY <1>2, Zenon DEF Holds
    <3>2. \A q \in Procs : ~(th'[q].pc = "pipe2" /\ th'[q].f = f)
      BY <1>5, <3>1, UserIs, Zenon
    <3>3. Holds(f)' = {}
      BY <3>2, Zenon DEF Holds
    <3>4. Cardinality(Refers(f)') = 0 /\ Cardinality(Holds(f)') = 0
      BY <1>2, <2>1, <2>2, <3>3, FS_EmptySet, Zenon
    <3> QED
      BY <1>3, <1>4, <2>2, <3>4 DEF Counted, Kind
  <2>3. CASE h # f
    <3>1. Holds(h)' = Holds(h)
      BY <1>1, <1>5, <2>3, UserIs, Zenon DEF Holds
    <3> QED
      BY <1>0, <1>3, <2>1, <2>3, <3>1, Zenon DEF RefInv, Counted, Kind
  <2> QED
    BY <2>2, <2>3, Zenon
<1>8. ASSUME NEW q \in Procs PROVE Holder(q)'
  <2>1. CASE q = p
    BY <1>5, <2>1, UserIs, Zenon DEF Holder
  <2>2. CASE q # p
    <3>1. Holder(q) /\ th'[q] = th[q]
      BY <1>0, <1>5, <2>2, Zenon DEF RefInv
    <3>2. ASSUME th[q].pc = "pipe2"
          PROVE  /\ \A r \in Procs : th'[r].pc = "pipe2" /\ th'[r].f = th[q].f =>
                                       th[r].pc = "pipe2" /\ th[r].f = th[q].f
                 /\ ftable'[th[q].f].type = ftable[th[q].f].type
                 /\ \A r \in Procs, fd \in Fds : ofile'[r][fd] # th[q].f
      <4>1. PICK h : h = th[q].f
        BY Zenon
      <4>2. h \in Files /\ \A r \in Procs, fd \in Fds : ofile[r][fd] # h
        BY <3>1, <3>2, <4>1, Zenon DEF Holder
      <4>3. \A r \in Procs : th'[r].pc = "pipe2" /\ th'[r].f = h => th[r].pc = "pipe2" /\ th[r].f = h
        BY <1>5, UserIs, Zenon
      <4>4. ftable'[h].type = ftable[h].type
        BY <1>2, <1>3, <1>4, <4>2, Zenon
      <4>5. \A r \in Procs, fd \in Fds : ofile'[r][fd] # h
        BY <4>2, Zenon
      <4> QED
        BY <4>1, <4>3, <4>4, <4>5, Zenon
    <3> QED
      BY <3>1, <3>2, HolderFrame, Zenon
  <2> QED
    BY <2>1, <2>2, Zenon
<1>9. \A q \in Procs : Empty(q)'
  BY <1>0, <1>5, UserIs, Zenon DEF RefInv, Empty, Fds
<1>10. RefInv'
  BY <1>6, <1>7, <1>8, <1>9, Zenon DEF RefInv, Files
<1>11. ASSUME NEW h \in Files, NEW g, NEW w PROVE IsEnd(h, g, w)' <=> IsEnd(h, g, w)
  BY <1>2, <1>3, <1>4, Zenon DEF IsEnd
<1>12. /\ th[p].pc \notin Readers \cup Writers \cup Closers
       /\ th'[p].pc \notin Readers \cup Writers \cup Closers /\ th'[p].page = NoPage
  BY <1>5, UserIs, Zenon DEF Readers, Writers, Closers
<1>13. \A q \in Procs \ {p} : \A fd \in Fds : ofile[q][fd] # 0 => ofile'[q][fd] = ofile[q][fd]
  BY Zenon
<1> QED
  BY <1>5, <1>10, <1>11, <1>12, <1>13, TableKeeps

\* sys_pipe succeeding: two files, two descriptors, a fresh pipe.
PipeMade(p, f0, f1, fd0, fd1, g) ==
  /\ f0 = th[p].f /\ f1 \in Files /\ ftable[f1].ref = 0
  /\ fd0 \in Fds /\ ofile[p][fd0] = 0 /\ fd1 \in Fds /\ ofile[p][fd1] = 0 /\ fd0 # fd1
  /\ g \in Pages /\ pipe[g].free = TRUE
  /\ ftable' = [ftable EXCEPT ![f0] = FileOf(FALSE, g), ![f1] = FileOf(TRUE, g)]
  /\ pipe' = [pipe EXCEPT ![g] = NewPipe]
  /\ ofile' = [ofile EXCEPT ![p][fd0] = f0, ![p][fd1] = f1]
  /\ th' = [th EXCEPT ![p] = User] /\ UNCHANGED killed

\* The rest of sys_pipe fails or succeeds.
LEMMA Pipe2Is ==
  ASSUME Inv, NEW p \in Procs, Pipe2(p)
  PROVE  \/ /\ th[p].pc = "pipe2" /\ ftable' = PipeFails(th[p].f)
            /\ UNCHANGED <<ofile, pipe, killed>> /\ th' = [th EXCEPT ![p] = User]
         \/ \E f0, f1, fd0, fd1, g : PipeMade(p, f0, f1, fd0, fd1, g)
<1>1. CASE FreeFiles(ftable) = {} \/ FreePages = {} \/ Cardinality(Free(p)) < 2
  BY <1>1, Zenon DEF Pipe2
<1>2. CASE ~(FreeFiles(ftable) = {} \/ FreePages = {} \/ Cardinality(Free(p)) < 2)
  <2>1. PICK f0, f1, fd0, fd1 : /\ f0 = th[p].f /\ f1 = Min(FreeFiles(ftable))
                                /\ fd0 = Min(Free(p)) /\ fd1 = Min(Free(p) \ {fd0})
    BY Zenon
  <2>2. PICK g \in FreePages :
           /\ ftable' = [ftable EXCEPT ![f0] = FileOf(FALSE, g), ![f1] = FileOf(TRUE, g)]
           /\ pipe' = [pipe EXCEPT ![g] = NewPipe]
           /\ ofile' = [ofile EXCEPT ![p][fd0] = f0, ![p][fd1] = f1]
    BY <1>2, <2>1, Zenon DEF Pipe2
  <2>3. th' = [th EXCEPT ![p] = User] /\ UNCHANGED killed
    BY Zenon DEF Pipe2
  <2>4. Cardinality(Free(p)) >= 2
    <3>1. IsFiniteSet(Fds) /\ Free(p) \in SUBSET Fds
      BY FilesConstants, FS_Interval DEF Fds, Free
    <3>2. Cardinality(Free(p)) \in Nat
      BY <3>1, FS_Subset, FS_CardinalityType, Zenon
    <3> QED
      BY <1>2, <3>2
  <2>5. f1 \in FreeFiles(ftable)
    BY <1>2, <2>1, FirstFree, Zenon
  <2>6. fd0 \in Free(p) /\ fd1 \in Free(p) \ {fd0}
    BY <2>1, <2>4, FirstFree, Zenon
  <2>7. fd0 \in Fds /\ ofile[p][fd0] = 0 /\ fd1 \in Fds /\ ofile[p][fd1] = 0 /\ fd0 # fd1
    BY <2>6, Zenon DEF Free, Open
  <2>8. f1 \in Files /\ ftable[f1].ref = 0
    BY <2>5, Zenon DEF FreeFiles
  <2>9. g \in Pages /\ pipe[g].free = TRUE
    BY Zenon DEF FreePages, Inv, RefInv, Typed, Ring
  <2> QED
    BY <2>1, <2>2, <2>3, <2>7, <2>8, <2>9, ZenonT(90) DEF PipeMade
<1> QED
  BY <1>1, <1>2, Zenon

\* What sys_pipe leaves in the tables.
Tabled(p, f0, f1, fd0, fd1, g) ==
  /\ f0 # f1 /\ f0 \in Files /\ ftable[f0].type = "none" /\ ftable[f1].type = "none"
  /\ ftable' \in [Files -> Entry] /\ ofile' \in [Procs -> [Fds -> Files \cup {0}]]
  /\ ftable'[f0] = FileOf(FALSE, g) /\ ftable'[f1] = FileOf(TRUE, g)
  /\ \A h \in Files : h # f0 /\ h # f1 => ftable'[h] = ftable[h]
  /\ \A q \in Procs, e \in Fds :
         ofile'[q][e] = ofile[q][e] \/ ofile'[q][e] = f0 \/ ofile'[q][e] = f1
  /\ \A q \in Procs, e \in Fds : q # p => ofile'[q][e] = ofile[q][e]
  /\ Refers(f0)' = {<<p, fd0>>} /\ Refers(f1)' = {<<p, fd1>>}
  /\ \A h \in Files : h # f0 /\ h # f1 => Refers(h)' = Refers(h)
  /\ \A q \in Procs : th[q].pc = "pipe2" /\ (th[q].f = f0 \/ th[q].f = f1) => q = p

\* The two files are its own, and refer to the two ends of the pipe.
LEMMA PipeTables ==
  ASSUME RefInv, NEW p \in Procs, th[p].pc = "pipe2", NEW f0, NEW f1, NEW fd0, NEW fd1, NEW g,
         PipeMade(p, f0, f1, fd0, fd1, g)
  PROVE  Tabled(p, f0, f1, fd0, fd1, g)
<1>0. Typed /\ 0 \notin Files /\ f1 \in Files /\ g \in Pages /\ fd0 \in Fds /\ fd1 \in Fds /\ fd0 # fd1
  BY FilesConstants DEF RefInv, Files, PipeMade
<1>1. f0 = th[p].f /\ ftable[f1].ref = 0 /\ ofile[p][fd0] = 0 /\ ofile[p][fd1] = 0
  BY Zenon DEF PipeMade
<1>2. f0 \in Files /\ ftable[f0].type = "none" /\ ftable[f0].ref # 0 /\ Refers(f0) = {} /\ Holds(f0) = {p}
  BY <1>1, HeldFile, Zenon
<1>3. Refers(f1) = {} /\ Holds(f1) = {} /\ ftable[f1].type = "none"
  BY <1>0, <1>1, FreeFile, Zenon DEF RefInv, Kind
<1>4. f0 # f1
  BY <1>1, <1>2, Zenon
<1>5. /\ ftable' \in [Files -> Entry]
      /\ ftable'[f0] = FileOf(FALSE, g) /\ ftable'[f1] = FileOf(TRUE, g)
      /\ \A h \in Files : h # f0 /\ h # f1 => ftable'[h] = ftable[h]
  <2>1. FileOf(FALSE, g) \in Entry /\ FileOf(TRUE, g) \in Entry
    BY <1>0, Zenon DEF FileOf, Entry
  <2>2. ftable' = [ftable EXCEPT ![f0] = FileOf(FALSE, g), ![f1] = FileOf(TRUE, g)]
    BY Zenon DEF PipeMade
  <2> QED
    BY <1>0, <1>2, <1>4, <2>1, <2>2, ZenonT(90) DEF Typed
<1>6. /\ ofile' \in [Procs -> [Fds -> Files \cup {0}]]
      /\ ofile'[p][fd0] = f0 /\ ofile'[p][fd1] = f1
      /\ \A q \in Procs, e \in Fds :
            q # p \/ (e # fd0 /\ e # fd1) => ofile'[q][e] = ofile[q][e]
  <2>1. PICK o : o = [ofile[p] EXCEPT ![fd0] = f0, ![fd1] = f1]
    BY Zenon
  <2>2. ofile' = [ofile EXCEPT ![p] = o]
    BY <1>0, <2>1, Zenon DEF PipeMade, Typed
  <2>3. o \in [Fds -> Files \cup {0}] /\ o[fd0] = f0 /\ o[fd1] = f1
        /\ \A e \in Fds : e # fd0 /\ e # fd1 => o[e] = ofile[p][e]
    BY <1>0, <1>2, <2>1, Zenon DEF Typed
  <2> QED
    BY <1>0, <2>2, <2>3, Zenon DEF Typed
<1>7. ASSUME NEW x \in Procs \X Fds
      PROVE  \/ x = <<p, fd0>> /\ ofile'[x[1]][x[2]] = f0
             \/ x = <<p, fd1>> /\ ofile'[x[1]][x[2]] = f1
             \/ x # <<p, fd0>> /\ x # <<p, fd1>> /\ ofile'[x[1]][x[2]] = ofile[x[1]][x[2]]
  <2>1. PICK q, e : q = x[1] /\ e = x[2]
    BY Zenon
  <2>2. q \in Procs /\ e \in Fds /\ x = <<q, e>>
    BY <2>1
  <2>3. /\ x = <<p, fd0>> <=> q = p /\ e = fd0
        /\ x = <<p, fd1>> <=> q = p /\ e = fd1
    BY <2>2, Zenon
  <2> QED
    BY <1>6, <2>1, <2>2, <2>3, Zenon
<1>8. <<p, fd0>> \in Procs \X Fds /\ <<p, fd1>> \in Procs \X Fds /\ <<p, fd0>> # <<p, fd1>>
  BY <1>0, Zenon
<1>9. ASSUME NEW h, NEW x
      PROVE  /\ x \in Refers(h)' <=> x \in Procs \X Fds /\ ofile'[x[1]][x[2]] = h
             /\ x \in Refers(h) <=> x \in Procs \X Fds /\ ofile[x[1]][x[2]] = h
  BY Zenon DEF Refers, Fds
<1>10. \A x : x \notin Refers(f0) /\ x \notin Refers(f1)
  BY <1>2, <1>3, Zenon
<1>11. ASSUME NEW x PROVE (x \in Refers(f0)' <=> x = <<p, fd0>>) /\ (x \in Refers(f1)' <=> x = <<p, fd1>>)
  <2>1. CASE x \in Procs \X Fds
    <3>1. ofile[x[1]][x[2]] # f0 /\ ofile[x[1]][x[2]] # f1
      BY <1>9, <1>10, <2>1, Zenon
    <3> QED
      BY <1>4, <1>7, <1>8, <1>9, <2>1, <3>1
  <2>2. CASE x \notin Procs \X Fds
    BY <1>8, <1>9, <2>2, Zenon
  <2> QED
    BY <2>1, <2>2, ZenonT(90)
<1>12. ASSUME NEW h \in Files, h # f0, h # f1, NEW x PROVE x \in Refers(h)' <=> x \in Refers(h)
  <2>1. ofile[<<p, fd0>>[1]][<<p, fd0>>[2]] = 0 /\ ofile[<<p, fd1>>[1]][<<p, fd1>>[2]] = 0
    BY <1>1, Zenon
  <2>2. h # 0
    BY <1>0, Zenon
  <2>3. CASE x \in Procs \X Fds
    BY <1>7, <1>9, <1>12, <2>1, <2>2, <2>3, Zenon
  <2>4. CASE x \notin Procs \X Fds
    BY <1>9, <2>4, Zenon
  <2> QED
    BY <2>3, <2>4, Zenon
<1>13. /\ Refers(f0)' = {<<p, fd0>>} /\ Refers(f1)' = {<<p, fd1>>}
       /\ \A h \in Files : h # f0 /\ h # f1 => Refers(h)' = Refers(h)
  <2>1. Refers(f0)' = {<<p, fd0>>} /\ Refers(f1)' = {<<p, fd1>>}
    BY <1>11, Zenon
  <2>2. ASSUME NEW h \in Files, h # f0, h # f1 PROVE Refers(h)' = Refers(h)
    BY <1>12, <2>2, Zenon
  <2> QED
    BY <2>1, <2>2, Zenon
<1>14. \A q \in Procs : th[q].pc = "pipe2" /\ (th[q].f = f0 \/ th[q].f = f1) => q = p
  BY <1>2, <1>3, Zenon DEF Holds
<1>15. \A q \in Procs, e \in Fds :
         ofile'[q][e] = ofile[q][e] \/ ofile'[q][e] = f0 \/ ofile'[q][e] = f1
  BY <1>6, Zenon
<1>16. \A q \in Procs, e \in Fds : q # p => ofile'[q][e] = ofile[q][e]
  BY <1>6, Zenon
<1> QED
  BY <1>2, <1>3, <1>4, <1>5, <1>6, <1>13, <1>14, <1>15, <1>16, Zenon DEF Tabled

\* The new pipe is empty and open at both ends.
LEMMA NewPipeIs ==
  /\ NewPipe \in Ring /\ Freed \in Ring
  /\ NewPipe.free = FALSE /\ NewPipe.readopen = TRUE /\ NewPipe.writeopen = TRUE
  /\ Stream(NewPipe)
<1>1. WRAP \in Nat \ {0} /\ PIPESIZE \in Nat \ {0}
  BY FilesConstants
<1>2. 0 \in Counter /\ [k \in 0 .. PIPESIZE - 1 |-> 0] \in [0 .. PIPESIZE - 1 -> Nat]
  BY <1>1 DEF Counter
<1>3. NewPipe \in Ring /\ Freed \in Ring
  BY <1>2, Zenon DEF NewPipe, Freed, Ring
<1>4. /\ NewPipe.free = FALSE /\ NewPipe.readopen = TRUE /\ NewPipe.writeopen = TRUE
      /\ NewPipe.nread = 0 /\ NewPipe.nwrite = 0 /\ NewPipe.sent = 0 /\ NewPipe.got = 0
  BY Zenon DEF NewPipe, Freed
<1>5. Held(NewPipe) = 0
  <2>1. Ahead(0, 0) = WRAP % WRAP
    BY <1>1 DEF Ahead
  <2>2. WRAP % WRAP = 0
    BY <1>1
  <2> QED
    BY <1>4, <2>1, <2>2, Zenon DEF Held
<1>6. Stream(NewPipe)
  BY <1>1, <1>4, <1>5 DEF Stream, InSlots
<1> QED
  BY <1>3, <1>4, <1>6, Zenon

\* sys_pipe succeeding.
LEMMA PipeMadeKeeps ==
  ASSUME Inv, NEW p \in Procs, th[p].pc = "pipe2", NEW f0, NEW f1, NEW fd0, NEW fd1, NEW g,
         PipeMade(p, f0, f1, fd0, fd1, g)
  PROVE  Inv'
<1>0. Typed /\ RefInv /\ f1 \in Files /\ g \in Pages /\ pipe[g].free = TRUE
  BY Zenon DEF Inv, RefInv, PipeMade
<1>1. Tabled(p, f0, f1, fd0, fd1, g)
  BY <1>0, PipeTables, Zenon
<1>2. /\ th' \in [Procs -> Place] /\ th'[p] = User /\ killed' = killed
      /\ \A q \in Procs \ {p} : th'[q] = th[q]
  BY <1>0, UserIs, Zenon DEF Typed, PipeMade
<1>3. pipe' \in [Pages -> Ring] /\ pipe'[g] = NewPipe /\ \A h \in Pages \ {g} : pipe'[h] = pipe[h]
  BY <1>0, NewPipeIs, Zenon DEF Typed, PipeMade
<1>4. Typed'
  BY <1>0, <1>1, <1>2, <1>3, TypedNext, Zenon DEF Typed, Tabled
<1>5. \A w : /\ FileOf(w, g).ref = 1 /\ FileOf(w, g).type = "pipe"
             /\ FileOf(w, g).page = g /\ FileOf(w, g).writable = w
  BY Zenon DEF FileOf
<1>6. th'[p].pc = "user" /\ th'[p].page = NoPage /\ f0 = th[p].f
  BY <1>2, UserIs, Zenon DEF PipeMade
<1>7. ASSUME NEW f \in {f0, f1} PROVE Counted(f)' /\ Kind(f)'
  <2>1. \A q \in Procs : ~(th'[q].pc = "pipe2" /\ th'[q].f = f)
    BY <1>1, <1>2, <1>6, Zenon DEF Tabled
  <2>2. Holds(f)' = {}
    BY <2>1, Zenon DEF Holds
  <2>3. Cardinality(Holds(f)') = 0 /\ Cardinality(Refers(f)') = 1
    <3>1. Refers(f0)' = {<<p, fd0>>} /\ Refers(f1)' = {<<p, fd1>>}
      BY <1>1, Zenon DEF Tabled
    <3>2. \A x : Cardinality({x}) = 1
      BY FS_Singleton, Zenon
    <3>3. CASE f = f0
      BY <2>2, <3>1, <3>2, <3>3, FS_EmptySet, Zenon
    <3>4. CASE f = f1
      BY <2>2, <3>1, <3>2, <3>4, FS_EmptySet, Zenon
    <3> QED
      BY <3>3, <3>4, Zenon
  <2>4. ftable'[f].ref = 1 /\ ftable'[f].type = "pipe" /\ ftable'[f].page = g
    <3>1. ftable'[f] = FileOf(FALSE, g) \/ ftable'[f] = FileOf(TRUE, g)
      BY <1>1, Zenon DEF Tabled
    <3> QED
      BY <1>5, <3>1, Zenon
  <2>5. Counted(f)'
    BY <2>3, <2>4 DEF Counted
  <2>6. Kind(f)'
    BY <1>0, <2>4 DEF Kind
  <2> QED
    BY <2>5, <2>6, Zenon
<1>8. ASSUME NEW h \in Files, h # f0, h # f1 PROVE Counted(h)' /\ Kind(h)'
  <2>1. Holds(h)' = Holds(h)
    BY <1>2, <1>6, <1>8, Zenon DEF Holds
  <2> QED
    <3>1. Counted(h) /\ Kind(h)
      BY <1>0, Zenon DEF RefInv
    <3>2. Refers(h)' = Refers(h) /\ ftable'[h] = ftable[h]
      BY <1>1, <1>8, Zenon DEF Tabled
    <3> QED
      BY <2>1, <3>1, <3>2, Zenon DEF Counted, Kind
<1>9. ASSUME NEW q \in Procs PROVE Holder(q)'
  <2>1. CASE q = p
    BY <1>6, <2>1, Zenon DEF Holder
  <2>2. CASE q # p
    <3>1. Holder(q) /\ th'[q] = th[q]
      BY <1>0, <1>2, <2>2, Zenon DEF RefInv
    <3>2. ASSUME th[q].pc = "pipe2"
          PROVE  /\ \A r \in Procs : th'[r].pc = "pipe2" /\ th'[r].f = th[q].f =>
                                       th[r].pc = "pipe2" /\ th[r].f = th[q].f
                 /\ ftable'[th[q].f].type = ftable[th[q].f].type
                 /\ \A r \in Procs, fd \in Fds : ofile'[r][fd] # th[q].f
      <4>1. PICK h : h = th[q].f
        BY Zenon
      <4>2. h \in Files /\ h # f0 /\ h # f1 /\ \A r \in Procs, fd \in Fds : ofile[r][fd] # h
        BY <1>1, <2>2, <3>1, <3>2, <4>1, Zenon DEF Holder, Tabled
      <4>3. \A r \in Procs : th'[r].pc = "pipe2" /\ th'[r].f = h => th[r].pc = "pipe2" /\ th[r].f = h
        BY <1>2, <1>6, Zenon
      <4>4. ftable'[h].type = ftable[h].type
        BY <1>1, <4>2, Zenon DEF Tabled
      <4>5. \A r \in Procs, fd \in Fds : ofile'[r][fd] # h
        <5>1. \A r \in Procs, e \in Fds :
                ofile'[r][e] = ofile[r][e] \/ ofile'[r][e] = f0 \/ ofile'[r][e] = f1
          BY <1>1, Zenon DEF Tabled
        <5> QED
          BY <4>2, <5>1, Zenon
      <4> QED
        BY <4>1, <4>3, <4>4, <4>5, Zenon
    <3> QED
      BY <3>1, <3>2, HolderFrame, Zenon
  <2> QED
    BY <2>1, <2>2, Zenon
<1>10. ASSUME NEW q \in Procs PROVE Empty(q)'
  <2>1. CASE q = p
    BY <1>6, <2>1, Zenon DEF Empty
  <2>2. CASE q # p
    <3>1. th'[q] = th[q] /\ \A e \in Fds : ofile'[q][e] = ofile[q][e]
      BY <1>1, <1>2, <2>2, Zenon DEF Tabled
    <3> QED
      BY <1>0, <3>1, Zenon DEF RefInv, Empty, Fds
  <2> QED
    BY <2>1, <2>2, Zenon
<1>11. RefInv'
  BY <1>4, <1>7, <1>8, <1>9, <1>10, Zenon DEF RefInv, Files
<1>12. ASSUME NEW k, NEW w
       PROVE  /\ ~IsEnd(f0, k, w) /\ ~IsEnd(f1, k, w)
              /\ IsEnd(f0, k, w)' <=> k = g /\ w = FALSE
              /\ IsEnd(f1, k, w)' <=> k = g /\ w = TRUE
              /\ \A h \in Files : h # f0 /\ h # f1 => (IsEnd(h, k, w)' <=> IsEnd(h, k, w))
  <2>1. ~IsEnd(f0, k, w) /\ ~IsEnd(f1, k, w)
    <3>1. ftable[f0].type = "none" /\ ftable[f1].type = "none"
      BY <1>1, Zenon DEF Tabled
    <3> QED
      BY <3>1, Zenon DEF IsEnd
  <2>2. IsEnd(f0, k, w)' <=> k = g /\ w = FALSE
    <3>1. ftable'[f0].type = "pipe" /\ ftable'[f0].page = g /\ ftable'[f0].writable = FALSE
      <4>1. ftable'[f0] = FileOf(FALSE, g)
        BY <1>1, Zenon DEF Tabled
      <4> QED
        BY <1>5, <4>1, Zenon
    <3>2. IsEnd(f0, k, w)' <=> ftable'[f0].type = "pipe" /\ ftable'[f0].page = k /\ ftable'[f0].writable = w
      BY Zenon DEF IsEnd
    <3> QED
      BY <3>1, <3>2, Zenon
  <2>3. IsEnd(f1, k, w)' <=> k = g /\ w = TRUE
    <3>1. ftable'[f1].type = "pipe" /\ ftable'[f1].page = g /\ ftable'[f1].writable = TRUE
      <4>1. ftable'[f1] = FileOf(TRUE, g)
        BY <1>1, Zenon DEF Tabled
      <4> QED
        BY <1>5, <4>1, Zenon
    <3>2. IsEnd(f1, k, w)' <=> ftable'[f1].type = "pipe" /\ ftable'[f1].page = k /\ ftable'[f1].writable = w
      BY Zenon DEF IsEnd
    <3> QED
      BY <3>1, <3>2, Zenon
  <2>4. \A h \in Files : h # f0 /\ h # f1 => (IsEnd(h, k, w)' <=> IsEnd(h, k, w))
    BY <1>1, Zenon DEF IsEnd, Tabled
  <2> QED
    BY <2>1, <2>2, <2>3, <2>4, Zenon
<1>13. ASSUME NEW q \in Procs, NEW k, NEW w PROVE Closes(q, k, w)' <=> Closes(q, k, w)
  <2>1. CASE q = p
    BY <1>6, <2>1, Zenon DEF Closes, Closers
  <2>2. CASE q # p
    BY <1>2, <2>2, Zenon DEF Closes, Closers
  <2> QED
    BY <2>1, <2>2, Zenon
<1>14. ASSUME NEW w \in BOOLEAN
       PROVE  (\A h \in Files : ~IsEnd(h, g, w)) /\ \A q \in Procs : ~Closes(q, g, w)
  <2>1. OpenEnds(g)
    BY <1>0, Zenon DEF Inv, EndInv
  <2>2. ~Ends(g, w)
    BY <1>0, <2>1, Zenon DEF OpenEnds
  <2> QED
    BY <2>2, EndsAre, Zenon
<1>15. ASSUME NEW k \in Pages, NEW w \in BOOLEAN PROVE OneEnd(k, w)'
  <2>1. OneEnd(k, w) /\ Files' = Files
    BY Zenon DEF Inv, EndInv, Files
  <2>2. CASE k = g
    <3>1. ASSUME NEW h \in Files, IsEnd(h, k, w)' PROVE h = IF w THEN f1 ELSE f0
      BY <1>12, <1>14, <2>2, <3>1, Zenon
    <3>2. \A q \in Procs : ~Closes(q, k, w)'
      BY <1>13, <1>14, <2>2, Zenon
    <3> QED
      BY <2>1, <3>1, <3>2, Zenon DEF OneEnd
  <2>3. CASE k # g
    <3>1. ASSUME NEW h \in Files PROVE IsEnd(h, k, w)' <=> IsEnd(h, k, w)
      BY <1>12, <2>3, Zenon
    <3> QED
      BY <1>13, <2>1, <3>1, Zenon DEF OneEnd
  <2> QED
    BY <2>2, <2>3, Zenon
<1>16. ASSUME NEW k \in Pages PROVE OpenEnds(k)'
  <2>1. CASE k = g
    <3>1. Ends(k, FALSE)' /\ Ends(k, TRUE)'
      <4>1. IsEnd(f0, k, FALSE)' /\ IsEnd(f1, k, TRUE)'
        BY <1>12, <2>1, Zenon
      <4> QED
        BY <1>0, <1>1, <4>1, EndsAre, Zenon DEF Tabled
    <3> QED
      BY <1>3, <2>1, <3>1, NewPipeIs, Zenon DEF OpenEnds
  <2>2. CASE k # g
    <3>1. ASSUME NEW w \in BOOLEAN PROVE Ends(k, w)' <=> Ends(k, w)
      <4>1. ASSUME NEW h \in Files PROVE IsEnd(h, k, w)' <=> IsEnd(h, k, w)
        BY <1>12, <2>2, Zenon
      <4> QED
        BY <1>13, <4>1, EndsAre, Zenon
    <3>2. OpenEnds(k) /\ pipe'[k] = pipe[k]
      BY <1>3, <2>2, Zenon DEF Inv, EndInv
    <3> QED
      BY <3>1, <3>2, Zenon DEF OpenEnds
  <2> QED
    BY <2>1, <2>2, Zenon
<1>17. ASSUME NEW q \in Procs PROVE Works(q)'
  <2>1. CASE q = p
    BY <1>6, <2>1, Zenon DEF Works, Readers, Writers, Closers
  <2>2. CASE q # p
    <3>1. Works(q) /\ th'[q] = th[q]
      BY <1>2, <2>2, Zenon DEF Inv, EndInv
    <3>2. \A e \in Fds : ofile'[q][e] = ofile[q][e]
      BY <1>1, <2>2, Zenon DEF Tabled
    <3>3. ASSUME NEW e \in Fds, NEW k, NEW w, ofile[q][e] # 0, IsEnd(ofile[q][e], k, w)
          PROVE  IsEnd(ofile[q][e], k, w)'
      <4>1. PICK h : h = ofile[q][e]
        BY Zenon
      <4>2. h \in Files
        BY <1>0, <3>3, <4>1 DEF Typed
      <4>3. IsEnd(h, k, w)' /\ ofile'[q][e] = h
        BY <1>12, <3>2, <3>3, <4>1, <4>2, Zenon
      <4> QED
        BY <4>3, Zenon DEF IsEnd
    <3> QED
      BY <3>1, <3>2, <3>3, WorksFrame, Zenon
  <2> QED
    BY <2>1, <2>2, Zenon
<1>18. EndInv'
  BY <1>15, <1>16, <1>17, Zenon DEF EndInv
<1>19. ASSUME NEW h \in Pages, pipe'[h].free = FALSE PROVE Stream(pipe[h])'
  <2>1. Stream(pipe'[h])
    BY <1>3, <1>19, NewPipeIs, Zenon DEF Inv, PipeInv
  <2> QED
    BY <2>1, Zenon DEF Stream, Held, Ahead, InSlots
<1>20. ASSUME NEW q \in Procs PROVE Asleep(q)'
  <2>1. CASE q = p
    BY <1>6, <2>1, Zenon DEF Asleep
  <2>2. CASE q # p
    <3>1. th'[q] = th[q] /\ Asleep(q)
      BY <1>2, <2>2, Zenon DEF Inv, PipeInv
    <3>2. CASE th[q].pc \in Readers \cup Writers
      <4>1. th[q].page \in Pages /\ th[q].page # g
        <5>1. th[q].page \in Pages /\ pipe[th[q].page].free = FALSE
          BY <3>2, InPipe, Zenon DEF Inv
        <5> QED
          BY <1>0, <5>1, Zenon
      <4>2. pipe'[th'[q].page] = pipe[th[q].page]
        BY <1>3, <3>1, <4>1, Zenon
      <4> QED
        BY <3>1, <4>2, Zenon DEF Asleep, Held, Ahead
    <3>3. CASE th[q].pc \notin Readers \cup Writers
      BY <3>1, <3>3, Zenon DEF Asleep, Readers, Writers
    <3> QED
      BY <3>2, <3>3, Zenon
  <2> QED
    BY <2>1, <2>2, Zenon
<1>21. PipeInv'
  BY <1>19, <1>20, Zenon DEF PipeInv
<1> QED
  BY <1>11, <1>18, <1>21, Zenon DEF Inv
-------------------------------------------------------------------------------
(* The theorems. *)

\* One process runs, nothing is open, no pipe exists.
LEMMA InitInv == Init => Inv
<1> SUFFICES ASSUME Init PROVE Inv
  BY Zenon
<1>1. PICK p \in Procs : th = [q \in Procs |-> IF q = p THEN User ELSE Gone]
  BY Zenon DEF Init
<1>2. Gone \in Place /\ Gone.pc = "unused" /\ Gone.page = NoPage
  BY Zenon DEF Gone, User, Place, Labels
<1>3. th \in [Procs -> Place] /\ \A q \in Procs : th[q].pc \in {"user", "unused"} /\ th[q].page = NoPage
  BY <1>1, <1>2, UserIs, Zenon
<1>4. /\ \A f \in Files : ftable[f] = None
      /\ \A q \in Procs, fd \in Fds : ofile[q][fd] = 0
      /\ \A g \in Pages : pipe[g] = Freed
  BY Zenon DEF Init
<1>5. Typed
  <2>1. None \in Entry
    BY Zenon DEF None, Entry
  <2> QED
    BY <1>3, <2>1, NewPipeIs, Zenon DEF Init, Typed
<1>6. None.ref = 0 /\ None.type = "none" /\ 0 \notin Files
  BY FilesConstants DEF None, Files
<1>7. ASSUME NEW f \in Files PROVE Counted(f) /\ Kind(f)
  <2>1. \A x \in Procs \X Fds : ofile[x[1]][x[2]] = 0
    BY <1>4, Zenon
  <2>2. Refers(f) = {}
    BY <1>6, <2>1, Zenon DEF Refers
  <2>3. Holds(f) = {}
    BY <1>3, Zenon DEF Holds
  <2>4. Cardinality(Refers(f)) = 0 /\ Cardinality(Holds(f)) = 0
    BY <2>2, <2>3, FS_EmptySet, Zenon
  <2> QED
    BY <1>4, <1>6, <2>4 DEF Counted, Kind
<1>8. RefInv
  BY <1>3, <1>4, <1>5, <1>7, Zenon DEF RefInv, Holder, Empty
<1>9. ASSUME NEW g, NEW w
      PROVE  (\A f \in Files : ~IsEnd(f, g, w)) /\ \A q \in Procs : ~Closes(q, g, w)
  <2>1. \A f \in Files : ~IsEnd(f, g, w)
    BY <1>4, <1>6, Zenon DEF IsEnd
  <2>2. \A q \in Procs : ~Closes(q, g, w)
    BY <1>3 DEF Closes, Closers
  <2> QED
    BY <2>1, <2>2, Zenon
<1>10. Freed.free = TRUE /\ Freed.readopen = FALSE /\ Freed.writeopen = FALSE
  BY Zenon DEF Freed
<1>11. EndInv
  <2>1. \A g \in Pages : OpenEnds(g)
    BY <1>4, <1>9, <1>10, EndsAre, Zenon DEF OpenEnds
  <2>2. \A g \in Pages, w \in BOOLEAN : OneEnd(g, w)
    BY <1>9, Zenon DEF OneEnd
  <2>3. \A q \in Procs : Works(q)
    BY <1>3, Zenon DEF Works, Readers, Writers, Closers
  <2> QED
    BY <2>1, <2>2, <2>3, Zenon DEF EndInv
<1>12. PipeInv
  <2>1. \A q \in Procs : Asleep(q)
    BY <1>3, Zenon DEF Asleep
  <2>2. \A g \in Pages : pipe[g].free # FALSE
    BY <1>4, <1>10, Zenon
  <2> QED
    BY <2>1, <2>2, Zenon DEF PipeInv
<1> QED
  BY <1>8, <1>11, <1>12, Zenon DEF Inv

\* Every step of every process keeps the invariant.
LEMMA NextInv == Inv /\ [Next]_vars => Inv'
<1> SUFFICES ASSUME Inv, [Next]_vars PROVE Inv'
  BY Zenon
<1>1. CASE UNCHANGED vars
  <2>1. UNCHANGED <<ftable, ofile, pipe, th>> /\ killed' \in [Procs -> BOOLEAN]
    BY <1>1, Zenon DEF vars, Inv, RefInv, Typed
  <2> QED
    BY <2>1, StutterKeeps, Zenon
<1>2. CASE Next
  <2>1. PICK p \in Procs : Kernel(p) \/ Call(p) \/ Kill(p) \/ Reap(p)
    BY <1>2, Zenon DEF Next
  <2>2. 0 \in Fds /\ ReadSizes \subseteq Nat /\ WriteSizes \subseteq Nat
    BY FilesConstants DEF Fds
  <2>3. CASE Kernel(p)
    <3>1. CASE Pipe2(p)
      <4>1. th[p].pc = "pipe2"
        BY <3>1, Zenon DEF Pipe2
      <4>2. CASE \E f0, f1, fd0, fd1, g : PipeMade(p, f0, f1, fd0, fd1, g)
        BY <4>1, <4>2, PipeMadeKeeps, Zenon
      <4>3. CASE ftable' = PipeFails(th[p].f) /\ UNCHANGED <<ofile, pipe, killed>> /\ th' = [th EXCEPT ![p] = User]
        BY <4>1, <4>3, PipeFailsKeeps, Zenon
      <4> QED
        BY <3>1, <4>2, <4>3, Pipe2Is, Zenon
    <3>2. CASE Pipeclose(p)
      BY <3>2, PipecloseKeeps, Zenon
    <3>3. CASE ExitClose(p)
      BY <2>2, <3>3, CloseKeeps, Zenon
    <3>4. CASE ExitDone(p)
      BY <3>4, ExitKeeps, Zenon
    <3>5. CASE Piperead(p)
      BY <3>5, PipereadKeeps, Zenon
    <3>6. CASE Pipewrite(p)
      BY <3>6, PipewriteKeeps, Zenon
    <3>7. CASE Sleep(p)
      BY <3>7, SleepKeeps, Zenon
    <3> QED
      BY <2>3, <3>1, <3>2, <3>3, <3>4, <3>5, <3>6, <3>7, Zenon DEF Kernel
  <2>4. CASE Call(p)
    <3>1. CASE Pipe(p)
      BY <3>1, PipeKeeps, Zenon
    <3>2. CASE OpenInode(p)
      BY <3>2, OpenInodeKeeps, Zenon
    <3>3. CASE Exit(p)
      BY <3>3, ExitKeeps, Zenon
    <3>4. ASSUME NEW fd \in Fds, Dup(p, fd) \/ Close(p, fd) PROVE Inv'
      BY <3>4, DupKeeps, CloseKeeps, Zenon
    <3>5. ASSUME NEW child \in Procs, Fork(p, child) PROVE Inv'
      BY <3>5, ForkKeeps, Zenon
    <3>6. ASSUME NEW fd \in Fds, NEW n \in Nat, Read(p, fd, n) \/ Write(p, fd, n) PROVE Inv'
      BY <3>6, EnterKeeps, Zenon
    <3> QED
      BY <2>2, <2>4, <3>1, <3>2, <3>3, <3>4, <3>5, <3>6, Zenon DEF Call
  <2>5. CASE Kill(p)
    BY <2>5, KillKeeps, Zenon
  <2>6. CASE Reap(p)
    BY <2>6, ExitKeeps, Zenon
  <2> QED
    BY <2>1, <2>3, <2>4, <2>5, <2>6, Zenon
<1> QED
  BY <1>1, <1>2, Zenon

\* The counts, the ends of pipes and the rings of file.c and pipe.c are as Inv
\* says in every reachable state.
THEOREM FilesInvariance == Spec => []Inv
BY InitInv, NextInv, PTL DEF Spec

\* filealloc, filedup and fileclose of file.c: the ref of an open file is the
\* number of descriptors that refer to it, and of the sys_pipe that holds it.
THEOREM CountsAreExact == Spec => []RefsCounted
<1>1. Inv => RefsCounted
  BY Zenon DEF Inv, RefInv, Counted, Refers, Holds, RefsCounted
<1> QED
  BY <1>1, FilesInvariance, PTL

\* pipeclose of pipe.c: a pipe's page is freed exactly when both its ends are
\* closed, and no process is inside piperead or pipewrite on a freed page.
THEOREM PipesOutliveUsers == Spec => []PipeOutlivesUsers
<1>1. ASSUME Inv PROVE PipeOutlivesUsers
  <2>1. \A g \in Pages : /\ pipe[g].free \in BOOLEAN /\ pipe[g].readopen \in BOOLEAN
                         /\ pipe[g].writeopen \in BOOLEAN
    BY <1>1, Zenon DEF Inv, RefInv, Typed, Ring
  <2>2. \A g, w : Ends(g, w) \in BOOLEAN
    BY Zenon DEF Ends
  <2>3. ASSUME NEW g \in Pages
        PROVE  /\ pipe[g].readopen = Ends(g, FALSE) /\ pipe[g].writeopen = Ends(g, TRUE)
               /\ pipe[g].free = (~pipe[g].readopen /\ ~pipe[g].writeopen)
    <3>1. OpenEnds(g)
      BY <1>1, Zenon DEF Inv, EndInv
    <3> QED
      BY <2>1, <2>2, <3>1, Zenon DEF OpenEnds
  <2>4. ASSUME NEW p \in Procs, th[p].page # NoPage PROVE ~pipe[th[p].page].free
    <3>1. pipe[th[p].page].free = FALSE
      BY <1>1, <2>4, InPipe, Zenon DEF Inv
    <3> QED
      BY <3>1, Zenon
  <2> QED
    BY <2>3, <2>4, Zenon DEF PipeOutlivesUsers
<1> QED
  BY <1>1, FilesInvariance, PTL

\* piperead and pipewrite of pipe.c: what is read is what was written, in order,
\* also when the counters wrap around.
THEOREM BytesInOrder == Spec => []StreamInOrder
<1>1. ASSUME Inv PROVE StreamInOrder
  <2>1. ASSUME NEW g \in Pages, ~pipe[g].free
        PROVE  /\ (pipe[g].got + Buffered(g)) % WRAP = pipe[g].sent
               /\ \A k \in 0 .. Buffered(g) - 1 :
                    pipe[g].data[(pipe[g].nread + k) % PIPESIZE] = (pipe[g].got + k) % WRAP
    <3>1. PICK r : r = pipe[g]
      BY Zenon
    <3>2. r.nread \in Counter /\ r.nwrite \in Counter /\ r.free \in BOOLEAN
      BY <1>1, <3>1, Zenon DEF Inv, RefInv, Typed, Ring
    <3>3. Stream(r)
      BY <1>1, <2>1, <3>1, <3>2, Zenon DEF Inv, PipeInv
    <3>4. Buffered(g) = Ahead(r.nwrite, r.nread)
      BY <3>1, Zenon DEF Buffered, Ahead
    <3>5. PICK n : n = Ahead(r.nwrite, r.nread)
      BY Zenon
    <3>6. n \in Counter /\ n = IF r.nwrite >= r.nread THEN r.nwrite - r.nread ELSE r.nwrite + WRAP - r.nread
      BY <3>2, <3>5, AheadIs, Zenon
    <3>7. n \in 0 .. WRAP
      BY <3>6, Sizes DEF Counter
    <3>8. (r.nread + n) % WRAP = IF r.nread + n < WRAP THEN r.nread + n ELSE (r.nread + n) - WRAP
      BY <3>2, <3>7, Advance, Zenon
    <3>9. (r.nread + n) % WRAP = r.nwrite
      BY <3>2, <3>6, <3>8, Sizes DEF Counter
    <3>10. r.sent = r.nwrite /\ r.got = r.nread /\ InSlots(r.data, r.nread, n)
      BY <3>3, <3>5, Zenon DEF Stream, Held
    <3> QED
      BY <3>1, <3>4, <3>5, <3>9, <3>10, Zenon DEF InSlots
  <2> QED
    BY <2>1, Zenon DEF StreamInOrder
<1> QED
  BY <1>1, FilesInvariance, PTL

\* The sleeps of piperead and pipewrite: a process sleeps only while what it
\* waits for is still to come, or a killed writer left it unwoken.
THEOREM NoWakeupMissed == Spec => []SleeperJustified
<1>1. ASSUME Inv PROVE SleeperJustified
  <2>1. ASSUME NEW p \in Procs, NEW g, g = th[p].page
        PROVE  /\ th[p].pc = "wsleep" => Buffered(g) = PIPESIZE /\ pipe[g].readopen
               /\ th[p].pc = "rsleep" => pipe[g].writeopen /\ (Buffered(g) = 0 \/ pipe[g].skipped)
    <3>1. Asleep(p)
      BY <1>1, Zenon DEF Inv, PipeInv
    <3>2. Buffered(g) = Held(pipe[g])
      BY Zenon DEF Buffered, Held, Ahead
    <3>3. /\ th[p].pc = "wsleep" => Held(pipe[g]) = PIPESIZE /\ pipe[g].readopen = TRUE
          /\ th[p].pc = "rsleep" => pipe[g].writeopen = TRUE /\ (Held(pipe[g]) = 0 \/ pipe[g].skipped = TRUE)
      BY <2>1, <3>1, Zenon DEF Asleep
    <3> QED
      BY <3>2, <3>3, Zenon
  <2> QED
    BY <2>1, Zenon DEF SleeperJustified
<1> QED
  BY <1>1, FilesInvariance, PTL
===============================================================================
