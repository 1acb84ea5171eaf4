------------------------------ MODULE FileSystem ------------------------------
(***************************************************************************)
(* The inode cache of fs.c and the file system calls of sysfile.c, run by  *)
(* several processes.  A call is a stack k[p] of what the process still    *)
(* has to do; its first frame is the next step, and the call's transaction *)
(* ends with its last frame.  A section under an inode's lock that waits   *)
(* for nothing is one step; a lock kept while waiting for another one is   *)
(* kept in `lock'.  Locks are not reentrant.                               *)
(***************************************************************************)
EXTENDS FsImage

CONSTANTS Procs, NoProc, NINODE,
          Files0,      \* what mkfs put into the root directory
          MAXWRITE,    \* filewrite's max: cells written in one transaction
          Programs     \* what the processes may call: [Procs -> Seq(call)]s

ASSUME FileSystemConstants == NINODE > 0 /\ MAXWRITE > 0 /\ NoProc \notin Procs

VARIABLES fs,      \* the image and the cached copies, see FsImage
          ref,     \* references to each inode's cache entry
          lock,    \* who holds ip->lock
          k,       \* what each process still has to do
          reg,     \* the inode (0: none) and name the last function returned
          cwd,
          ofile,   \* the open file of each process: inode (0: none) and offset
          todo,    \* the calls each process has not made yet
          text     \* history: the cells written to each file

fsvars == <<fs, ref, lock, k, reg, cwd, ofile, todo, text>>

NoFile == [ip |-> 0, off |-> 0]
Halted == fs.halt \/ Cardinality({i \in Inums : ref[i] > 0}) > NINODE
Quiet == \A p \in Procs : k[p] = <<>>

\* After mkfs, or a restart: every process starts in the root directory.
Start == [ref |-> [i \in Inums |-> IF i = ROOTINO THEN Cardinality(Procs) ELSE 0],
          lock |-> [i \in Inums |-> NoProc],
          k |-> [p \in Procs |-> <<>>],
          reg |-> [p \in Procs |-> [ip |-> 0, name |-> <<>>]],
          cwd |-> [p \in Procs |-> ROOTINO],
          ofile |-> [p \in Procs |-> NoFile]]

FsInit == /\ fs = MkImage(Files0)
          /\ ref = Start.ref /\ lock = Start.lock /\ k = Start.k
          /\ reg = Start.reg /\ cwd = Start.cwd /\ ofile = Start.ofile
          /\ todo \in Programs
          /\ text = [i \in Inums |-> IF i - 1 \in DOMAIN Files0 THEN Files0[i - 1].cells ELSE <<>>]
-----------------------------------------------------------------------------
\* Frames, and what a step does to the stack: its first frame becomes `frames'.
Iput(i) == [f |-> "iput", ip |-> i]
Iunlockput(i) == [f |-> "iunlockput", ip |-> i]
Then(p, frames) == k' = [k EXCEPT ![p] = frames \o Tail(@)]
At(p, f) == k[p] # <<>> /\ k[p][1].f = f
Return(p, i, name) == reg' = [reg EXCEPT ![p] = [ip |-> i, name |-> name]]
Iget(i) == ref' = [ref EXCEPT ![i] = @ + 1]
Unlocked(i) == lock[i] = NoProc
Hold(i, p) == lock' = [lock EXCEPT ![i] = p]
Inode(f, i) == f.mem[i]

\* Where namex starts: the root, or the current directory.
StartOf(p, path) == IF path # <<>> /\ path[1] = "/" THEN ROOTINO ELSE cwd[p]
NamexFrame(p, path, parent) ==
    [f |-> "namex", ip |-> StartOf(p, path), path |-> path, parent |-> parent]

\* The call x, from user space; a path is a sequence of characters.  The calls
\* that take a path begin with begin_op and the beginning of namex.
Calls(p, c) == k[p] = <<>> /\ todo[p] # <<>> /\ Head(todo[p]).c = c
               /\ todo' = [todo EXCEPT ![p] = Tail(@)]
LooksUp(p, parent, rest) ==
    LET path == Head(todo[p]).path IN
    /\ Iget(StartOf(p, path))
    /\ k' = [k EXCEPT ![p] = <<NamexFrame(p, path, parent)>> \o rest]
    /\ UNCHANGED <<fs, lock, reg, cwd, ofile, text>>

SysOpen(p) == Calls(p, "open") /\ LooksUp(p, FALSE, <<[f |-> "open", rdonly |-> Head(todo[p]).rdonly]>>)
SysCreate(p) == Calls(p, "create") /\ LooksUp(p, TRUE, <<[f |-> "create", type |-> "file"], [f |-> "opened"]>>)
SysMkdir(p) == Calls(p, "mkdir") /\ LooksUp(p, TRUE, <<[f |-> "create", type |-> "dir"], [f |-> "made"]>>)
SysMknod(p) == Calls(p, "mknod") /\ LooksUp(p, TRUE, <<[f |-> "create", type |-> "dev"], [f |-> "made"]>>)
SysLink(p) == Calls(p, "link") /\ LooksUp(p, FALSE, <<[f |-> "link", new |-> Head(todo[p]).new]>>)
SysUnlink(p) == Calls(p, "unlink") /\ LooksUp(p, TRUE, <<[f |-> "unlink"]>>)
SysChdir(p) == Calls(p, "chdir") /\ LooksUp(p, FALSE, <<[f |-> "chdir"]>>)

\* namex: one turn of its loop.
Namex(p) ==
    LET t == k[p][1]
        s == Skipelem(t.path)
        g == Load(fs, t.ip)
        off == Dirlookup(g, t.ip, s.name) IN
    /\ At(p, "namex")
    /\ IF s.name = <<>>
       THEN /\ Return(p, IF t.parent THEN 0 ELSE t.ip, <<>>)
            /\ Then(p, IF t.parent THEN <<Iput(t.ip)>> ELSE <<>>)
            /\ UNCHANGED <<fs, ref>>
       ELSE /\ Unlocked(t.ip)
            /\ fs' = g
            /\ IF g.halt THEN UNCHANGED <<k, reg, ref>>
               ELSE IF Inode(g, t.ip).type # "dir"
               THEN Then(p, <<Iput(t.ip)>>) /\ Return(p, 0, <<>>) /\ UNCHANGED ref
               ELSE IF t.parent /\ s.rest = <<>>
               THEN Then(p, <<>>) /\ Return(p, t.ip, s.name) /\ UNCHANGED ref
               ELSE IF off = -1
               THEN Then(p, <<Iput(t.ip)>>) /\ Return(p, 0, <<>>) /\ UNCHANGED ref
               ELSE LET next == Entry(g, t.ip, off)[2] IN
                    /\ Iget(next)
                    /\ Then(p, <<Iput(t.ip), [t EXCEPT !.ip = next, !.path = s.rest]>>)
                    /\ UNCHANGED reg
    /\ UNCHANGED <<lock, cwd, ofile, todo, text>>

\* iput: under the inode's lock, free an inode without links whose last
\* reference this is; then give up the reference.
LastReferenceAny(i) == TRUE
LastReference(i) == ref[i] = 1
IputLocked(p) ==
    LET i == k[p][1].ip
        frees == fs.mem[i] # NoInode /\ fs.mem[i].nlink = 0 /\ LastReference(i)
        g == Itrunc(fs, i) IN
    /\ At(p, "iput") /\ Unlocked(i)
    /\ fs' = IF frees THEN [Iupdate([g EXCEPT !.mem[i].type = "free"], i) EXCEPT !.mem[i] = NoInode]
             ELSE fs
    /\ text' = IF frees THEN [text EXCEPT ![i] = <<>>] ELSE text
    /\ Then(p, <<[f |-> "deref", ip |-> i]>>)
    /\ UNCHANGED <<ref, lock, reg, cwd, ofile, todo>>
\* An entry whose last reference goes is invalid to the next iget.
Deref(p) ==
    LET i == k[p][1].ip IN
    /\ At(p, "deref")
    /\ ref' = [ref EXCEPT ![i] = @ - 1]
    /\ fs' = IF ref[i] = 1 THEN [fs EXCEPT !.mem[i] = NoInode] ELSE fs
    /\ Then(p, <<>>)
    /\ UNCHANGED <<lock, reg, cwd, ofile, todo, text>>
Unlockput(p) ==
    LET i == k[p][1].ip IN
    /\ At(p, "iunlockput")
    /\ Hold(i, NoProc)
    /\ Then(p, <<Iput(i)>>)
    /\ UNCHANGED <<fs, ref, reg, cwd, ofile, todo, text>>
-----------------------------------------------------------------------------
\* create, when nameiparent has returned: the name exists, or an inode is
\* allocated for it while the directory stays locked.
Create(p) ==
    LET t == k[p][1]
        dp == reg[p].ip
        g == Load(fs, dp)
        off == Dirlookup(g, dp, reg[p].name)
        n == Ialloc(g, t.type) IN
    /\ At(p, "create")
    /\ IF dp = 0 THEN Then(p, <<>>) /\ UNCHANGED <<fs, ref, lock>>
       ELSE /\ Unlocked(dp)
            /\ IF off # -1
               THEN LET i == Entry(g, dp, off)[2] IN
                    /\ fs' = g /\ Iget(i)
                    /\ Then(p, <<Iput(dp), [f |-> "found", ip |-> i, type |-> t.type]>>)
                    /\ UNCHANGED lock
               ELSE /\ fs' = n.f
                    /\ IF n.f.halt THEN UNCHANGED <<ref, lock, k>>
                       ELSE /\ Iget(n.i) /\ Hold(dp, p)
                            /\ Then(p, <<[f |-> "fill", ip |-> n.i, dp |-> dp, type |-> t.type]>>)
    /\ UNCHANGED <<reg, cwd, ofile, todo, text>>
Found(p) ==
    LET t == k[p][1]
        g == Load(fs, t.ip) IN
    /\ At(p, "found") /\ Unlocked(t.ip)
    /\ fs' = g
    /\ IF t.type = "file" /\ Inode(g, t.ip).type = "file"
       THEN Hold(t.ip, p) /\ Return(p, t.ip, <<>>) /\ Then(p, <<>>)
       ELSE Return(p, 0, <<>>) /\ Then(p, <<Iput(t.ip)>>) /\ UNCHANGED lock
    /\ UNCHANGED <<ref, cwd, ofile, todo, text>>
\* The new inode gets its link, a directory its dots, and the directory its
\* entry; create returns it locked, after iput of the directory.
DotsForgetLink(f, i, dp) == Dirlink(Dirlink(f, i, <<".">>, i), i, <<".", ".">>, dp)
Dots(f, i, dp) ==
    Dirlink(Dirlink(Iupdate([f EXCEPT !.mem[dp].nlink = @ + 1], dp), i, <<".">>, i), i, <<".", ".">>, dp)
Fill(p) ==
    LET t == k[p][1]
        g == Load(fs, t.ip)
        linked == Iupdate([g EXCEPT !.mem[t.ip].nlink = 1], t.ip)
        made == IF t.type = "dir" THEN Dots(linked, t.ip, t.dp) ELSE linked IN
    /\ At(p, "fill") /\ Unlocked(t.ip)
    /\ fs' = IF made.halt THEN made ELSE Dirlink(made, t.dp, reg[p].name, t.ip)
    /\ lock' = [lock EXCEPT ![t.dp] = NoProc, ![t.ip] = p]
    /\ Return(p, t.ip, <<>>)
    /\ Then(p, <<Iput(t.dp)>>)
    /\ UNCHANGED <<ref, cwd, ofile, todo, text>>

\* sys_open after create (the inode is locked) or namei; a process has one
\* descriptor, so that fdalloc may fail.
Opens(p, i) == /\ ofile' = IF ofile[p] = NoFile THEN [ofile EXCEPT ![p] = [ip |-> i, off |-> 0]] ELSE ofile
               /\ Then(p, IF ofile[p] = NoFile THEN <<>> ELSE <<Iput(i)>>)
Opened(p) ==
    /\ At(p, "opened")
    /\ IF reg[p].ip = 0 THEN Then(p, <<>>) /\ UNCHANGED <<lock, ofile>>
       ELSE Hold(reg[p].ip, NoProc) /\ Opens(p, reg[p].ip)
    /\ UNCHANGED <<fs, ref, reg, cwd, todo, text>>
Open(p) ==
    LET i == reg[p].ip
        g == Load(fs, i) IN
    /\ At(p, "open")
    /\ IF i = 0 THEN Then(p, <<>>) /\ UNCHANGED <<fs, ofile>>
       ELSE /\ Unlocked(i)
            /\ fs' = g
            /\ IF g.halt THEN UNCHANGED <<k, ofile>>
               ELSE IF Inode(g, i).type = "dir" /\ ~k[p][1].rdonly
               THEN Then(p, <<Iput(i)>>) /\ UNCHANGED ofile
               ELSE Opens(p, i)
    /\ UNCHANGED <<ref, lock, reg, cwd, todo, text>>
\* sys_mkdir and sys_mknod after create.
Made(p) ==
    /\ At(p, "made")
    /\ Then(p, IF reg[p].ip = 0 THEN <<>> ELSE <<Iunlockput(reg[p].ip)>>)
    /\ UNCHANGED <<fs, ref, lock, reg, cwd, ofile, todo, text>>
-----------------------------------------------------------------------------
AddLinks(f, i, n) == Iupdate([f EXCEPT !.mem[i].nlink = @ + n], i)

\* sys_link: the count of the old inode, then the new name, then, on failure,
\* the count again.
Link(p) ==
    LET t == k[p][1]
        i == reg[p].ip
        g == Load(fs, i) IN
    /\ At(p, "link")
    /\ IF i = 0 THEN Then(p, <<>>) /\ UNCHANGED <<fs, ref>>
       ELSE /\ Unlocked(i)
            /\ IF g.halt THEN fs' = g /\ UNCHANGED <<k, ref>>
               ELSE IF Inode(g, i).type = "dir"
               THEN fs' = g /\ Then(p, <<Iput(i)>>) /\ UNCHANGED ref
               ELSE /\ fs' = AddLinks(g, i, 1)
                    /\ Iget(StartOf(p, t.new))
                    /\ Then(p, <<NamexFrame(p, t.new, TRUE), [f |-> "linkname", ip |-> i]>>)
    /\ UNCHANGED <<lock, reg, cwd, ofile, todo, text>>
LinkBad(i) == [f |-> "linkbad", ip |-> i]
Linkname(p) ==
    LET i == k[p][1].ip
        dp == reg[p].ip
        g == Load(fs, dp)
        off == Dirlookup(g, dp, reg[p].name) IN
    /\ At(p, "linkname")
    /\ IF dp = 0 THEN Then(p, <<LinkBad(i)>>) /\ UNCHANGED <<fs, ref, lock>>
       ELSE /\ Unlocked(dp)
            /\ IF off = -1
               THEN /\ fs' = Dirlink(g, dp, reg[p].name, i)
                    /\ Then(p, <<Iput(dp), Iput(i)>>)
                    /\ UNCHANGED <<ref, lock>>
               ELSE LET j == Entry(g, dp, off)[2] IN
                    /\ fs' = g /\ Iget(j) /\ Hold(dp, p)
                    /\ Then(p, <<Iput(j), Iunlockput(dp), LinkBad(i)>>)
    /\ UNCHANGED <<reg, cwd, ofile, todo, text>>
Linkbad(p) ==
    LET i == k[p][1].ip IN
    /\ At(p, "linkbad") /\ Unlocked(i)
    /\ fs' = AddLinks(fs, i, -1)
    /\ Then(p, <<Iput(i)>>)
    /\ UNCHANGED <<ref, lock, reg, cwd, ofile, todo, text>>

\* sys_unlink: the directory stays locked while the inode is locked, the inode
\* while the directory is put.
Unlink(p) ==
    LET dp == reg[p].ip
        g == Load(fs, dp)
        off == Dirlookup(g, dp, reg[p].name) IN
    /\ At(p, "unlink")
    /\ IF dp = 0 THEN Then(p, <<>>) /\ UNCHANGED <<fs, ref, lock>>
       ELSE /\ Unlocked(dp)
            /\ fs' = g
            /\ IF reg[p].name \in {<<".">>, <<".", ".">>} \/ off = -1
               THEN Then(p, <<Iput(dp)>>) /\ UNCHANGED <<ref, lock>>
               ELSE LET i == Entry(g, dp, off)[2] IN
                    /\ Iget(i) /\ Hold(dp, p)
                    /\ Then(p, <<[f |-> "erase", ip |-> i, dp |-> dp, off |-> off]>>)
    /\ UNCHANGED <<reg, cwd, ofile, todo, text>>
Removable(f, i) == Inode(f, i).type = "dir" => Isdirempty(f, i)
Erase(p) ==
    LET t == k[p][1]
        g == Load(fs, t.ip)
        w == Writei(g, t.dp, t.off, <<Zero>>).f IN
    /\ At(p, "erase") /\ Unlocked(t.ip)
    /\ IF g.halt \/ Inode(g, t.ip).nlink < 1
       THEN fs' = Panic(g) /\ UNCHANGED <<k, lock>>
       ELSE IF ~Removable(g, t.ip)
       THEN fs' = g /\ Then(p, <<Iput(t.ip), Iunlockput(t.dp)>>) /\ UNCHANGED lock
       ELSE /\ fs' = IF Inode(g, t.ip).type = "dir" THEN AddLinks(w, t.dp, -1) ELSE w
            /\ lock' = [lock EXCEPT ![t.dp] = NoProc, ![t.ip] = p]
            /\ Then(p, <<Iput(t.dp), [f |-> "unlinked", ip |-> t.ip]>>)
    /\ UNCHANGED <<ref, reg, cwd, ofile, todo, text>>
Unlinked(p) ==
    LET i == k[p][1].ip IN
    /\ At(p, "unlinked")
    /\ fs' = AddLinks(fs, i, -1)
    /\ Hold(i, NoProc)
    /\ Then(p, <<Iput(i)>>)
    /\ UNCHANGED <<ref, reg, cwd, ofile, todo, text>>

\* sys_chdir.
Chdir(p) ==
    LET i == reg[p].ip
        g == Load(fs, i) IN
    /\ At(p, "chdir")
    /\ IF i = 0 THEN Then(p, <<>>) /\ UNCHANGED fs
       ELSE /\ Unlocked(i)
            /\ fs' = g
            /\ IF g.halt THEN UNCHANGED k
               ELSE Then(p, IF Inode(g, i).type # "dir" THEN <<Iput(i)>>
                            ELSE <<Iput(cwd[p]), [f |-> "setcwd", ip |-> i]>>)
    /\ UNCHANGED <<ref, lock, reg, cwd, ofile, todo, text>>
Setcwd(p) ==
    /\ At(p, "setcwd")
    /\ cwd' = [cwd EXCEPT ![p] = k[p][1].ip]
    /\ Then(p, <<>>)
    /\ UNCHANGED <<fs, ref, lock, reg, ofile, todo, text>>
-----------------------------------------------------------------------------
\* filewrite: one transaction per MAXWRITE cells; fileread; fileclose.
Overlay(s, off, cells) ==
    [x \in 1..Max({Len(s), off + Len(cells)}) |->
        IF x \in off + 1..off + Len(cells) THEN cells[x - off] ELSE s[x]]
SysWrite(p) ==
    /\ Calls(p, "write")
    /\ k' = [k EXCEPT ![p] = IF ofile[p] = NoFile THEN <<>>
                             ELSE <<[f |-> "write", v |-> Head(todo[p]).v, n |-> Head(todo[p]).n]>>]
    /\ UNCHANGED <<fs, ref, lock, reg, cwd, ofile, text>>
Filewrite(p) ==
    LET t == k[p][1]
        i == ofile[p].ip
        n1 == Min({t.n, MAXWRITE})
        cells == [x \in 1..n1 |-> Num(t.v)]
        g == Load(fs, i)
        w == Writei(g, i, ofile[p].off, cells)
        isFile == Inode(g, i).type = "file" IN
    /\ At(p, "write") /\ Unlocked(i)
    /\ fs' = IF isFile THEN w.f ELSE g
    /\ IF isFile /\ w.r > 0
       THEN /\ ofile' = [ofile EXCEPT ![p].off = @ + w.r]
            /\ text' = [text EXCEPT ![i] = Overlay(@, ofile[p].off, cells)]
       ELSE UNCHANGED <<ofile, text>>
    /\ Then(p, IF isFile /\ w.r > 0 /\ t.n > n1 THEN <<[t EXCEPT !.n = @ - n1]>> ELSE <<>>)
    /\ UNCHANGED <<ref, lock, reg, cwd, todo>>
SysRead(p) ==
    LET i == ofile[p].ip
        g == Load(fs, i) IN
    /\ Calls(p, "read")
    /\ IF ofile[p] = NoFile THEN UNCHANGED <<fs, ofile>>
       ELSE /\ Unlocked(i)
            /\ fs' = g
            /\ ofile' = [ofile EXCEPT ![p].off =
                   @ + IF Inode(g, i).type = "dev" THEN 0 ELSE Len(Readi(g, i, @, Head(todo[p]).n))]
    /\ UNCHANGED <<ref, lock, k, reg, cwd, text>>
SysClose(p) ==
    /\ Calls(p, "close")
    /\ k' = [k EXCEPT ![p] = IF ofile[p] = NoFile THEN <<>> ELSE <<Iput(ofile[p].ip)>>]
    /\ ofile' = [ofile EXCEPT ![p] = NoFile]
    /\ UNCHANGED <<fs, ref, lock, reg, cwd, text>>

\* A crash goes back to the image of the last commit, made when no call was
\* running, so that it is enough to crash at such moments.
Crash == /\ Quiet
         /\ ref' = Start.ref /\ lock' = Start.lock /\ k' = Start.k
         /\ reg' = Start.reg /\ cwd' = Start.cwd /\ ofile' = Start.ofile
         /\ fs' = [fs EXCEPT !.mem = [i \in Inums |-> NoInode]]
         /\ UNCHANGED <<todo, text>>
-----------------------------------------------------------------------------
UserCall(p) ==
    \/ SysOpen(p) \/ SysCreate(p) \/ SysMkdir(p) \/ SysMknod(p) \/ SysUnlink(p)
    \/ SysChdir(p) \/ SysLink(p) \/ SysWrite(p) \/ SysRead(p) \/ SysClose(p)
InKernel(p) ==
    \/ Namex(p) \/ IputLocked(p) \/ Deref(p) \/ Unlockput(p)
    \/ Create(p) \/ Found(p) \/ Fill(p) \/ Opened(p) \/ Open(p) \/ Made(p)
    \/ Link(p) \/ Linkname(p) \/ Linkbad(p)
    \/ Unlink(p) \/ Erase(p) \/ Unlinked(p)
    \/ Chdir(p) \/ Setcwd(p) \/ Filewrite(p)

FsRuns == ~Halted /\ \E p \in Procs : UserCall(p) \/ InKernel(p)
FsNext == FsRuns \/ Crash
FsSpec == FsInit /\ [][FsNext]_fsvars
RunSpec == FsInit /\ [][FsRuns]_fsvars
-----------------------------------------------------------------------------
Allocated == {i \in Inums : fs.di[i].type # "free"}
Blocks(i) == Direct(fs.di[i]) \cup Indirect(fs, fs.di[i])
\* The image as the disk has it: cached copies of all inodes are the disk's.
OnDisk == [fs EXCEPT !.mem = fs.di]

\* balloc, bfree, bmap, itrunc: every block in use is metadata or belongs to
\* exactly one inode, once; every block below an inode's size is present; and
\* the cached copy of an inode is what iupdate has written.
BlocksOwnedOnce == ~fs.halt =>
    /\ fs.used = (0..NMETA - 1) \cup UNION {Blocks(i) : i \in Allocated}
    /\ \A i, j \in Allocated : i # j => Blocks(i) \cap Blocks(j) = {}
    /\ \A i \in Allocated :
         LET d == fs.di[i]
             held == (d.size + BSIZE - 1) \div BSIZE IN
         Cardinality(Blocks(i)) = held + IF held > NDIRECT THEN 1 ELSE 0
    /\ \A i \in Inums : fs.mem[i] \notin {NoInode, fs.di[i]} => fs.di[i].type = "free"

\* The entries of every directory, <<offset, name, inode>>, and the directories
\* that can be reached from those in S by names other than the dots.
Entries == [i \in Inums |->
              IF fs.di[i].type # "dir" THEN {}
              ELSE {<<off>> \o Entry(OnDisk, i, off) : off \in InUse(OnDisk, i)}]
Named(E, i) == {e \in E[i] : e[1] > 1}
RECURSIVE Reach(_, _)
Reach(E, S) ==
    LET more == {j \in UNION {{e[3] : e \in Named(E, i)} : i \in S} : fs.di[j].type = "dir"} IN
    IF more \subseteq S THEN S ELSE Reach(E, S \cup more)

\* create, link, unlink: whatever calls run at the same time, and after a crash,
\* an entry of a directory in the tree names an allocated inode that has at
\* least as many links as entries; names are unique in a directory; and the
\* directories form a tree whose "." and ".." agree with the names.
TreeIsSound == ~fs.halt =>
    LET E == Entries
        Tree == Reach(E, {ROOTINO})
        Names == UNION {{<<i>> \o e : e \in Named(E, i)} : i \in Tree}
        At4(j) == {x \in Names : x[4] = j} IN
    /\ \A i \in Tree : \A e, g \in E[i] : e[2] = g[2] => e = g
    /\ \A x \in Names : /\ x[4] \in Allocated
                         /\ fs.di[x[4]].type # "dir" => fs.di[x[4]].nlink >= Cardinality(At4(x[4]))
    /\ \A j \in Tree \ {ROOTINO} :
         /\ \E x \in Names : /\ At4(j) = {x}
                            /\ {<<0, <<".">>, j>>, <<1, <<".", ".">>, x[1]>>} \subseteq E[j]
         /\ Quiet => fs.di[j].nlink = 1 + Cardinality({x \in Names : x[1] = j /\ x[4] \in Tree})

\* The references a process holds: its directory and file, what its call keeps
\* in its frames, and what a function has returned to the frame waiting for it.
OwnsIp == {"iput", "deref", "iunlockput", "namex", "found", "fill", "linkname", "linkbad",
           "erase", "unlinked", "setcwd"}
Waits == {"create", "opened", "open", "made", "link", "linkname", "unlink", "chdir"}
Awaited(p) == LET later == {x \in DOMAIN k[p] : k[p][x].f \notin {"iput", "deref"}} IN
              later # {} /\ k[p][Min(later)].f \in Waits
ChangesDir(p) == \E x \in DOMAIN k[p] : k[p][x].f = "setcwd"
References(i) ==
    {<<p, "cwd">> : p \in {q \in Procs : cwd[q] = i /\ ~ChangesDir(q)}}
    \cup {<<p, "file">> : p \in {q \in Procs : ofile[q].ip = i}}
    \cup {<<p, "reg">> : p \in {q \in Procs : reg[q].ip = i /\ Awaited(q)}}
    \cup UNION {{<<p, "ip", x>> : x \in {y \in DOMAIN k[p] : k[p][y].f \in OwnsIp /\ k[p][y].ip = i}}
                \cup {<<p, "dp", x>> : x \in {y \in DOMAIN k[p] : k[p][y].f \in {"fill", "erase"} /\ k[p][y].dp = i}}
                : p \in Procs}

\* iget, idup, iput on every path of every call, failing ones included: the
\* count of an inode is the number of references to it, and an inode that is a
\* process's open file or current directory is not freed.
RefsMatch == ~Halted =>
    /\ \A i \in Inums : ref[i] = Cardinality(References(i))
    /\ \A p \in Procs : ofile[p] # NoFile => ofile[p].ip \in Allocated
    /\ \A p \in Procs : ~ChangesDir(p) => cwd[p] \in Allocated

\* readi, writei, bmap, balloc: a file holds the cells that were written to it,
\* chunk by chunk, by whichever process, and after a crash.
StoredAsWritten == ~fs.halt =>
    \A i \in Allocated : fs.di[i].type = "file" =>
        Readi(OnDisk, i, 0, MAXFILE * BSIZE) = text[i]

\* fs.c:328 says of iput: "If that was the last reference and the inode has no
\* links to it, free the inode (and its content) on disk."
NoOrphan == ~fs.halt => \A i \in Allocated : fs.di[i].nlink = 0 => ref[i] > 0
=============================================================================
