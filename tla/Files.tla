-------------------------------- MODULE Files --------------------------------
(***************************************************************************)
(* Open files and pipes (file.c, pipe.c, the descriptor calls of           *)
(* sysfile.c, and what fork, exit and kill of proc.c do with them).        *)
(* A critical section of ftable.lock or of a pipe's lock is one step.  The *)
(* one place where a pipe's lock stays held between two steps is from the  *)
(* test of `killed' to the sleep, because kill does not take that lock.    *)
(* Inodes behind a file are the business of FileSystem.                    *)
(***************************************************************************)
EXTENDS Naturals, FiniteSets, FiniteSetsExt

CONSTANTS Procs,      \* slots of the process table
          NFILE,      \* entries of ftable
          NOFILE,     \* descriptors of a process
          Pages,      \* pages kalloc can give to pipes
          NoPage,
          PIPESIZE,
          WRAP,       \* nread and nwrite are uints: 2^32 in the code
          ReadSizes,  \* the lengths read and write are called with
          WriteSizes

ASSUME FilesConstants ==
    /\ IsFiniteSet(Procs)
    /\ NFILE \in Nat \ {0} /\ NOFILE \in Nat \ {0} /\ PIPESIZE \in Nat \ {0}
    /\ WRAP \in Nat /\ WRAP % PIPESIZE = 0 /\ WRAP > PIPESIZE
    /\ ReadSizes \cup WriteSizes \subseteq Nat /\ NoPage \notin Pages

VARIABLES ftable,   \* the table of open files
          ofile,    \* ofile[p][fd]: a file of ftable, 0 when closed
          pipe,     \* the pipes, by the page they live in
          th,       \* where each process is
          killed    \* p->killed

vars == <<ftable, ofile, pipe, th, killed>>

Files == 1..NFILE
Fds == 0..NOFILE-1
None == [ref |-> 0, type |-> "none", writable |-> FALSE, page |-> NoPage]
User == [pc |-> "user", f |-> 0, page |-> NoPage, n |-> 0, i |-> 0, w |-> FALSE]
Gone == [User EXCEPT !.pc = "unused"]

\* A pipe, with three pieces of history: the numbers of bytes accepted and
\* delivered (a byte's value is its number), and whether a killed writer left
\* readers unwoken.
Freed == [free |-> TRUE, data |-> [k \in 0..PIPESIZE-1 |-> 0],
          nread |-> 0, nwrite |-> 0, readopen |-> FALSE, writeopen |-> FALSE,
          sent |-> 0, got |-> 0, skipped |-> FALSE]

Init == /\ ftable = [f \in Files |-> None]
        /\ ofile = [p \in Procs |-> [fd \in Fds |-> 0]]
        /\ pipe = [g \in Pages |-> Freed]
        /\ \E p \in Procs : th = [q \in Procs |-> IF q = p THEN User ELSE Gone]
        /\ killed = [p \in Procs |-> FALSE]

Open(p) == {fd \in Fds : ofile[p][fd] # 0}
Free(p) == Fds \ Open(p)
FreeFiles(ft) == {f \in Files : ft[f].ref = 0}
FreePages == {g \in Pages : pipe[g].free}
Buffered(g) == (pipe[g].nwrite + WRAP - pipe[g].nread) % WRAP

\* The processes that hold the lock of pipe g, between a test and a sleep.
LockFree(g) == \A q \in Procs : ~(th[q].pc \in {"rdoze", "wdoze"} /\ th[q].page = g)

\* wakeup(&p->nread) and wakeup(&p->nwrite).
WakeReaders(t, g) == [q \in Procs |-> IF t[q].pc = "rsleep" /\ t[q].page = g
                                      THEN [t[q] EXCEPT !.pc = "read"] ELSE t[q]]
WakeWriters(t, g) == [q \in Procs |-> IF t[q].pc = "wsleep" /\ t[q].page = g
                                      THEN [t[q] EXCEPT !.pc = "write"] ELSE t[q]]

\* trap: a killed process makes no further system call.
CanCall(p) == th[p].pc = "user" /\ ~killed[p]
-----------------------------------------------------------------------------
\* sys_pipe, first filealloc of pipealloc.
Pipe(p) ==
    /\ CanCall(p)
    /\ IF FreeFiles(ftable) = {} THEN UNCHANGED <<ftable, th>>
       ELSE LET f == Min(FreeFiles(ftable)) IN
            /\ ftable' = [ftable EXCEPT ![f].ref = 1]
            /\ th' = [th EXCEPT ![p].pc = "pipe2", ![p].f = f]
    /\ UNCHANGED <<ofile, pipe, killed>>

FileOf(writable, g) == [ref |-> 1, type |-> "pipe", writable |-> writable, page |-> g]
NewPipe == [Freed EXCEPT !.free = FALSE, !.readopen = TRUE, !.writeopen = TRUE]

\* What is left when the rest of sys_pipe fails: everything taken is given back.
PipeLeaks(f0) == ftable
PipeFails(f0) == [ftable EXCEPT ![f0] = None]

\* The rest of sys_pipe: the second file, the page, two descriptors, and the
\* error paths of pipealloc and sys_pipe.
Pipe2(p) ==
    /\ th[p].pc = "pipe2"
    /\ LET f0 == th[p].f IN
       IF FreeFiles(ftable) = {} \/ FreePages = {} \/ Cardinality(Free(p)) < 2
       THEN /\ ftable' = PipeFails(f0)
            /\ UNCHANGED <<ofile, pipe>>
       ELSE \E g \in FreePages :
            LET f1 == Min(FreeFiles(ftable))
                fd0 == Min(Free(p))
                fd1 == Min(Free(p) \ {fd0}) IN
            /\ ftable' = [ftable EXCEPT ![f0] = FileOf(FALSE, g), ![f1] = FileOf(TRUE, g)]
            /\ pipe' = [pipe EXCEPT ![g] = NewPipe]
            /\ ofile' = [ofile EXCEPT ![p][fd0] = f0, ![p][fd1] = f1]
    /\ th' = [th EXCEPT ![p] = User]
    /\ UNCHANGED killed

\* sys_open succeeding: a file of an inode, which both reads and writes here.
OpenInode(p) ==
    /\ CanCall(p) /\ FreeFiles(ftable) # {} /\ Free(p) # {}
    /\ LET f == Min(FreeFiles(ftable)) IN
       /\ ftable' = [ftable EXCEPT ![f] = [None EXCEPT !.ref = 1, !.type = "inode"]]
       /\ ofile' = [ofile EXCEPT ![p][Min(Free(p))] = f]
    /\ UNCHANGED <<pipe, th, killed>>

\* sys_dup: fdalloc, then filedup; nothing changes when no descriptor is free.
Dup(p, fd) ==
    /\ CanCall(p) /\ fd \in Open(p) /\ Free(p) # {}
    /\ ofile' = [ofile EXCEPT ![p][Min(Free(p))] = ofile[p][fd]]
    /\ ftable' = [ftable EXCEPT ![ofile[p][fd]].ref = @ + 1]
    /\ UNCHANGED <<pipe, th, killed>>

\* fileclose under ftable.lock; pipeclose follows when it was the last reference.
DropFile(f) == IF ftable[f].ref > 1 THEN [ftable[f] EXCEPT !.ref = @ - 1] ELSE None
Fileclose(p, fd, back) ==
    LET f == ofile[p][fd] IN
    /\ ofile' = [ofile EXCEPT ![p][fd] = 0]
    /\ ftable' = [ftable EXCEPT ![f] = DropFile(f)]
    /\ th' = [th EXCEPT ![p] = IF ftable[f].ref = 1 /\ ftable[f].type = "pipe"
                               THEN [User EXCEPT !.pc = back.pclose, !.page = ftable[f].page,
                                                 !.w = ftable[f].writable]
                               ELSE back.done]
    /\ UNCHANGED <<pipe, killed>>

BackToUser == [pclose |-> "pclose", done |-> User]
BackToExit == [pclose |-> "xpclose", done |-> [User EXCEPT !.pc = "exit"]]

\* sys_close.
Close(p, fd) == CanCall(p) /\ fd \in Open(p) /\ Fileclose(p, fd, BackToUser)

\* The end of a pipe that is closed, and the processes that wait for the other.
ClosedBoth(g, w) == [pipe[g] EXCEPT !.readopen = FALSE, !.writeopen = FALSE]
ClosedEnd(g, w) == IF w THEN [pipe[g] EXCEPT !.writeopen = FALSE, !.skipped = FALSE]
                   ELSE [pipe[g] EXCEPT !.readopen = FALSE]
WokenByRead(t, g, w) == WakeWriters(t, g)
WokenByClose(t, g, w) == IF w THEN WakeReaders(t, g) ELSE WakeWriters(t, g)

\* pipeclose; the page is freed when both ends are closed.
Pipeclose(p) ==
    /\ th[p].pc \in {"pclose", "xpclose"}
    /\ LET g == th[p].page
           closed == ClosedEnd(g, th[p].w) IN
       /\ LockFree(g)
       /\ pipe' = [pipe EXCEPT ![g] = IF ~closed.readopen /\ ~closed.writeopen
                                      THEN Freed ELSE closed]
       /\ th' = [WokenByClose(th, g, th[p].w) EXCEPT
                    ![p] = IF th[p].pc = "pclose" THEN User ELSE BackToExit.done]
    /\ UNCHANGED <<ftable, ofile, killed>>

\* fork's loop over the descriptors.
Fork(p, child) ==
    /\ CanCall(p) /\ th[child].pc = "unused"
    /\ ofile' = [ofile EXCEPT ![child] = ofile[p]]
    /\ ftable' = [f \in Files |-> [ftable[f] EXCEPT
                    !.ref = @ + Cardinality({fd \in Fds : ofile[p][fd] = f})]]
    /\ th' = [th EXCEPT ![child] = User]
    /\ UNCHANGED <<pipe, killed>>

\* exit: by the process itself, or by trap when it was killed.
Exit(p) ==
    /\ th[p].pc = "user"
    /\ th' = [th EXCEPT ![p].pc = "exit"]
    /\ UNCHANGED <<ftable, ofile, pipe, killed>>
ExitClose(p) == /\ th[p].pc = "exit" /\ Open(p) # {}
                /\ Fileclose(p, Min(Open(p)), BackToExit)
ExitDone(p) ==
    /\ th[p].pc = "exit" /\ Open(p) = {}
    /\ th' = [th EXCEPT ![p].pc = "zombie"]
    /\ UNCHANGED <<ftable, ofile, pipe, killed>>

\* The parent's wait frees the slot.
Reap(p) ==
    /\ th[p].pc = "zombie"
    /\ th' = [th EXCEPT ![p] = Gone]
    /\ killed' = [killed EXCEPT ![p] = FALSE]
    /\ UNCHANGED <<ftable, ofile, pipe>>

\* kill: marks the process and wakes it wherever it sleeps.
Kill(p) ==
    /\ th[p].pc # "unused" /\ ~killed[p]
    /\ killed' = [killed EXCEPT ![p] = TRUE]
    /\ th' = [th EXCEPT ![p].pc = CASE @ = "rsleep" -> "read"
                                    [] @ = "wsleep" -> "write"
                                    [] OTHER -> @]
    /\ UNCHANGED <<ftable, ofile, pipe>>
-----------------------------------------------------------------------------
\* sys_read and fileread, sys_write and filewrite, on the right end of a pipe.
\* The wrong end returns -1 and changes nothing.
Read(p, fd, n) ==
    /\ CanCall(p) /\ fd \in Open(p)
    /\ LET f == ftable[ofile[p][fd]] IN
       /\ f.type = "pipe" /\ ~f.writable
       /\ th' = [th EXCEPT ![p] = [User EXCEPT !.pc = "read", !.page = f.page, !.n = n]]
    /\ UNCHANGED <<ftable, ofile, pipe, killed>>
Write(p, fd, n) ==
    /\ CanCall(p) /\ fd \in Open(p)
    /\ LET f == ftable[ofile[p][fd]] IN
       /\ f.type = "pipe" /\ f.writable
       /\ th' = [th EXCEPT ![p] = [User EXCEPT !.pc = "write", !.page = f.page, !.n = n]]
    /\ UNCHANGED <<ftable, ofile, pipe, killed>>

\* The copy loop of piperead, m bytes long.
Delivered(g, m) == [pipe[g] EXCEPT !.nread = (@ + m) % WRAP, !.got = (@ + m) % WRAP]

\* piperead: waits while the pipe is empty and may still be written to.
Piperead(p) ==
    LET g == th[p].page
        m == Min({th[p].n, Buffered(g)}) IN
    /\ th[p].pc = "read" /\ LockFree(g)
    /\ IF pipe[g].nread = pipe[g].nwrite /\ pipe[g].writeopen
       THEN /\ th' = [th EXCEPT ![p] = IF killed[p] THEN User ELSE [@ EXCEPT !.pc = "rdoze"]]
            /\ UNCHANGED pipe
       ELSE /\ pipe' = [pipe EXCEPT ![g] = Delivered(g, m)]
            /\ th' = [WakeWriters(th, g) EXCEPT ![p] = User]
    /\ UNCHANGED <<ftable, ofile, killed>>

\* The test of pipewrite's while, and the bytes that fit before it holds.
RoomOffByOne(g) == PIPESIZE + 1 - Buffered(g)
Room(g) == PIPESIZE - Buffered(g)
Filled(g, m) == [pipe[g] EXCEPT
    !.data = [k \in 0..PIPESIZE-1 |->
                LET js == {j \in 0..m-1 : (pipe[g].nwrite + j) % PIPESIZE = k} IN
                IF js = {} THEN @[k] ELSE (pipe[g].sent + Max(js)) % WRAP],
    !.nwrite = (@ + m) % WRAP, !.sent = (@ + m) % WRAP]

\* pipewrite: copies what fits; a full pipe puts it to sleep, or fails when
\* nobody can read any more or the process was killed.
Pipewrite(p) ==
    LET g == th[p].page
        m == Min({th[p].n - th[p].i, Room(g)})
        i == th[p].i + m IN
    /\ th[p].pc = "write" /\ LockFree(g)
    /\ IF i < th[p].n /\ (~pipe[g].readopen \/ killed[p])
       THEN /\ th' = [th EXCEPT ![p] = User]
            /\ pipe' = [pipe EXCEPT ![g] = [Filled(g, m) EXCEPT !.skipped = TRUE]]
       ELSE /\ th' = [WakeReaders(th, g) EXCEPT
                        ![p] = IF i = th[p].n THEN User ELSE [@ EXCEPT !.pc = "wdoze", !.i = i]]
            /\ pipe' = [pipe EXCEPT ![g] = [Filled(g, m) EXCEPT !.skipped = FALSE]]
    /\ UNCHANGED <<ftable, ofile, killed>>

\* sleep, which gives up the pipe's lock.
Sleep(p) ==
    /\ th[p].pc \in {"rdoze", "wdoze"}
    /\ th' = [th EXCEPT ![p].pc = IF @ = "rdoze" THEN "rsleep" ELSE "wsleep"]
    /\ UNCHANGED <<ftable, ofile, pipe, killed>>

\* What a process does once it is inside the kernel.
Kernel(p) == \/ Pipe2(p) \/ Pipeclose(p) \/ ExitClose(p) \/ ExitDone(p)
             \/ Piperead(p) \/ Pipewrite(p) \/ Sleep(p)

\* The calls a program may make.
Call(p) == \/ Pipe(p) \/ OpenInode(p) \/ Exit(p)
           \/ \E fd \in Fds : Dup(p, fd) \/ Close(p, fd)
           \/ \E child \in Procs : Fork(p, child)
           \/ \E fd \in Fds : \/ \E n \in ReadSizes : Read(p, fd, n)
                           \/ \E n \in WriteSizes : Write(p, fd, n)

Next == \E p \in Procs : Kernel(p) \/ Call(p) \/ Kill(p) \/ Reap(p)

Spec == Init /\ [][Next]_vars
-----------------------------------------------------------------------------
(* What must hold. *)

\* file.c: "ref" counts the descriptors that refer to a file, over all
\* processes and all interleavings of pipe, dup, close, fork and exit, error
\* paths included; the only other holder is a sys_pipe that is under way.
RefsCounted ==
    \A f \in Files :
        ftable[f].ref = Cardinality({x \in Procs \X Fds : ofile[x[1]][x[2]] = f})
                        + Cardinality({p \in Procs : th[p].pc = "pipe2" /\ th[p].f = f})

Ends(g, w) ==
    \/ \E f \in Files : ftable[f].type = "pipe" /\ ftable[f].page = g /\ ftable[f].writable = w
    \/ \E p \in Procs : th[p].pc \in {"pclose", "xpclose"} /\ th[p].page = g /\ th[p].w = w

\* pipeclose frees a pipe's page exactly when its last file is gone: an end is
\* open while a file refers to it or its last close is under way, and a
\* process inside piperead or pipewrite never works on a freed page.
PipeOutlivesUsers ==
    /\ \A g \in Pages :
           /\ pipe[g].readopen = Ends(g, FALSE)
           /\ pipe[g].writeopen = Ends(g, TRUE)
           /\ pipe[g].free = (~pipe[g].readopen /\ ~pipe[g].writeopen)
    /\ \A p \in Procs : th[p].page # NoPage => ~pipe[th[p].page].free

\* pipewrite and piperead: the ring holds exactly the bytes accepted and not
\* yet delivered, in the order they were written, also when the counters wrap
\* and when several processes write.
StreamInOrder ==
    \A g \in Pages :
        ~pipe[g].free =>
            /\ (pipe[g].got + Buffered(g)) % WRAP = pipe[g].sent
            /\ \A k \in 0..Buffered(g)-1 :
                 pipe[g].data[(pipe[g].nread + k) % PIPESIZE] = (pipe[g].got + k) % WRAP

\* No wakeup is missed: a process sleeps in pipewrite only while the pipe is
\* full and has a reader, and in piperead only while it has a writer and is
\* empty, unless a writer found itself killed: it returns without waking the
\* readers of the bytes it wrote, and these sleep on until a write or a close.
SleeperJustified ==
    \A p \in Procs :
        LET g == th[p].page IN
        /\ th[p].pc = "wsleep" => Buffered(g) = PIPESIZE /\ pipe[g].readopen
        /\ th[p].pc = "rsleep" => pipe[g].writeopen /\ (Buffered(g) = 0 \/ pipe[g].skipped)
=============================================================================
