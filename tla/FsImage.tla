------------------------------- MODULE FsImage -------------------------------
(***************************************************************************)
(* The sequential half of fs.c, and mkfs.c: operators on a file system `f'.*)
(*   f.di    the inodes on disk            f.used  the bitmap, as a set     *)
(*   f.mem   their copies in the cache     f.data  the contents of blocks   *)
(*   f.halt  whether the kernel has panicked                                *)
(* Every operator runs under the lock of the inode it is about, and what   *)
(* two inodes share (the bitmap, the free inodes) is changed by one locked *)
(* buffer at a time, so each of them is atomic.  A block has BSIZE cells;  *)
(* a cell is a byte of a file, a directory entry or a block number, always *)
(* as a pair <<name, number>>.                                             *)
(***************************************************************************)
EXTENDS Integers, Sequences, FiniteSets, FiniteSetsExt

CONSTANTS NINODES,    \* sb.ninodes: inodes are numbered 1..NINODES-1
          FSSIZE,     \* sb.size
          NMETA,      \* boot block, super block, log, inodes and bitmap
          BSIZE, NDIRECT, DIRSIZ

ASSUME FsConstants == /\ NMETA \in 1..FSSIZE - 1 /\ NINODES > 1
                      /\ BSIZE > 1 /\ NDIRECT > 0 /\ DIRSIZ > 1

Inums == 1..NINODES - 1
ROOTINO == 1
NINDIRECT == BSIZE
MAXFILE == NDIRECT + NINDIRECT
Zero == <<<<>>, 0>>
Num(n) == <<<<>>, n>>
FreeInode == [type |-> "free", nlink |-> 0, size |-> 0, addrs |-> [a \in 0..NDIRECT |-> 0]]
NoInode == [type |-> "none", nlink |-> 0, size |-> 0, addrs |-> [a \in 0..NDIRECT |-> 0]]

Panic(f) == [f EXCEPT !.halt = TRUE]

\* balloc: the first clear bit; the block is zeroed.  bfree: the bit must be set.
Bzero(f, b) == [f EXCEPT !.used = @ \cup {b}, !.data[b] = [o \in 0..BSIZE - 1 |-> Zero]]
Taken(f, b) == [f |-> Bzero(f, b), b |-> b]
Balloc(f) == IF f.used = 0..FSSIZE - 1 THEN [f |-> Panic(f), b |-> 0]
             ELSE Taken(f, Min((0..FSSIZE - 1) \ f.used))
Bfree(f, B) == IF B \subseteq f.used THEN [f EXCEPT !.used = @ \ B] ELSE Panic(f)

\* ialloc and iupdate.
Typed(f, i, type) == [f |-> [f EXCEPT !.di[i] = [FreeInode EXCEPT !.type = type]], i |-> i]
Ialloc(f, type) ==
    LET free == {i \in Inums : f.di[i].type = "free"} IN
    IF free = {} THEN [f |-> Panic(f), i |-> 0] ELSE Typed(f, Min(free), type)
Iupdate(f, i) == [f EXCEPT !.di[i] = f.mem[i]]

\* The part of ilock that reads the inode from disk.
Load(f, i) == IF f.mem[i] # NoInode THEN f
              ELSE [f EXCEPT !.mem[i] = f.di[i], !.halt = @ \/ f.di[i].type = "free"]

\* bmap: the block of inode i that holds its block bn, allocated if need be; its
\* address is in the inode or in entry bn of the indirect block x.
AddrSet(n, i, a) == [n EXCEPT !.f.mem[i].addrs[a] = n.b]
BmapAddr(f, i, a) ==
    IF f.mem[i].addrs[a] # 0 THEN [f |-> f, b |-> f.mem[i].addrs[a]] ELSE AddrSet(Balloc(f), i, a)
EntrySet(n, x, bn) == IF n.f.halt THEN n ELSE [n EXCEPT !.f.data[x][bn] = Num(n.b)]
BmapEntry(f, x, bn) ==
    IF f.halt \/ f.data[x][bn][2] # 0 THEN [f |-> f, b |-> f.data[x][bn][2]]
    ELSE EntrySet(Balloc(f), x, bn)
BmapIndirect(top, bn) == BmapEntry(top.f, top.b, bn)
Bmap(f, i, bn) ==
    IF bn < NDIRECT THEN BmapAddr(f, i, bn)
    ELSE IF bn < MAXFILE THEN BmapIndirect(BmapAddr(f, i, NDIRECT), bn - NDIRECT)
    ELSE [f |-> Panic(f), b |-> 0]

\* The blocks an inode d of file system f owns.
Direct(d) == {d.addrs[a] : a \in 0..NDIRECT} \ {0}
Indirect(f, d) == IF d.addrs[NDIRECT] = 0 THEN {}
                  ELSE {f.data[d.addrs[NDIRECT]][o][2] : o \in 0..NINDIRECT - 1} \ {0}

\* itrunc; the variant forgets the blocks behind the indirect block.
ItruncDirect(f, i) ==
    Iupdate([Bfree(f, Direct(f.mem[i])) EXCEPT
               !.mem[i].addrs = FreeInode.addrs, !.mem[i].size = 0], i)
Itrunc(f, i) ==
    Iupdate([Bfree(f, Direct(f.mem[i]) \cup Indirect(f, f.mem[i])) EXCEPT
               !.mem[i].addrs = FreeInode.addrs, !.mem[i].size = 0], i)

\* readi and writei, one cell at a time.  Reading finds every block below size
\* present (BlocksOwnedOnce), so that it changes nothing.
Cell(f, i, off) == f.data[Bmap(f, i, off \div BSIZE).b][off % BSIZE]
Readi(f, i, off, n) ==
    IF off > f.mem[i].size THEN <<>>
    ELSE LET m == Min({n, f.mem[i].size - off}) IN [x \in 1..m |-> Cell(f, i, off + x - 1)]
RECURSIVE PutCells(_, _, _, _)
PutCell(m, o, cell) == IF m.f.halt THEN m.f ELSE [m.f EXCEPT !.data[m.b][o] = cell]
PutCells(f, i, off, cells) ==
    IF cells = <<>> \/ f.halt THEN f
    ELSE PutCells(PutCell(Bmap(f, i, off \div BSIZE), off % BSIZE, Head(cells)), i, off + 1, Tail(cells))
GrowAlways(f, i, n, end) == Iupdate([f EXCEPT !.mem[i].size = end], i)
Grow(f, i, n, end) == IF n > 0 /\ end > f.mem[i].size
                      THEN Iupdate([f EXCEPT !.mem[i].size = end], i) ELSE f
Writei(f, i, off, cells) ==
    LET n == Len(cells) IN
    IF off > f.mem[i].size \/ off + n > MAXFILE * BSIZE THEN [f |-> f, r |-> -1]
    ELSE [f |-> Grow(PutCells(f, i, off, cells), i, n, off + n), r |-> n]

\* Directories: the entries of d that are in use, dirlookup (an offset or -1),
\* the writing part of dirlink, isdirempty.
Entry(f, i, off) == Cell(f, i, off)
InUse(f, i) == {off \in 0..f.mem[i].size - 1 : Entry(f, i, off)[2] # 0}
FirstOf(S) == IF S = {} THEN -1 ELSE Min(S)
Dirlookup(f, i, name) == FirstOf({off \in InUse(f, i) : Entry(f, i, off)[1] = name})
WroteOne(w) == IF w.r # 1 THEN Panic(w.f) ELSE w.f
Dirlink(f, i, name, inum) ==
    WroteOne(Writei(f, i, Min((0..f.mem[i].size) \ InUse(f, i)), <<<<name, inum>>>>))
Isdirempty(f, i) == InUse(f, i) \subseteq {0, 1}

\* skipelem: the first element of a path, at most DIRSIZ characters of it, and
\* what follows without leading slashes; no element is <<>>.
Slashes(path) == {i \in 1..Len(path) : \A j \in 1..i : path[j] = "/"}
Unslashed(path) == SubSeq(path, Cardinality(Slashes(path)) + 1, Len(path))
Skipelem(path) ==
    LET s == Unslashed(path)
        len == Min({i \in 0..Len(s) : i = Len(s) \/ s[i + 1] = "/"}) IN
    [name |-> SubSeq(s, 1, Min({len, DIRSIZ})), rest |-> Unslashed(SubSeq(s, len + 1, Len(s)))]

\* mkfs.c: blocks are handed out in order (freeblock), iappend adds cells to an
\* inode on the image, and the bitmap is written at the end.
MkBlock(f) == [f EXCEPT !.used = @ \cup {Cardinality(@)}]
MkIappend(f, i, cell) ==
    LET d == f.di[i]
        bn == d.size \div BSIZE
        top == IF bn < NDIRECT \/ d.addrs[NDIRECT] # 0 THEN f
               ELSE [MkBlock(f) EXCEPT !.di[i].addrs[NDIRECT] = Cardinality(f.used)]
        x == top.di[i].addrs[NDIRECT]
        old == IF bn < NDIRECT THEN d.addrs[bn] ELSE top.data[x][bn - NDIRECT][2]
        b == IF old # 0 THEN old ELSE Cardinality(top.used)
        g == IF old # 0 THEN top
             ELSE IF bn < NDIRECT THEN [MkBlock(top) EXCEPT !.di[i].addrs[bn] = b]
             ELSE [MkBlock(top) EXCEPT !.data[x][bn - NDIRECT] = Num(b)] IN
    [g EXCEPT !.data[b][d.size % BSIZE] = cell, !.di[i].size = @ + 1]
MkIalloc(f, i, type) == [f EXCEPT !.di[i] = [FreeInode EXCEPT !.type = type, !.nlink = 1]]
RECURSIVE MkContents(_, _, _), MkFiles(_, _, _)
MkContents(f, i, cells) ==
    IF cells = <<>> THEN f ELSE MkContents(MkIappend(f, i, Head(cells)), i, Tail(cells))
MkFiles(f, i, files) == \* files: a sequence of [name, cells]
    LET x == Head(files)
        linked == MkIappend(MkIalloc(f, i, "file"), ROOTINO, <<x.name, i>>) IN
    IF files = <<>> THEN f ELSE MkFiles(MkContents(linked, i, x.cells), i + 1, Tail(files))
MkImage(files) ==
    LET blank == [di |-> [i \in Inums |-> FreeInode], mem |-> [i \in Inums |-> NoInode],
                  used |-> 0..NMETA - 1, halt |-> FALSE,
                  data |-> [b \in 0..FSSIZE - 1 |-> [o \in 0..BSIZE - 1 |-> Zero]]]
        root == MkIappend(MkIappend(MkIalloc(blank, ROOTINO, "dir"), ROOTINO, <<<<".">>, ROOTINO>>),
                          ROOTINO, <<<<".", ".">>, ROOTINO>>)
        full == MkFiles(root, ROOTINO + 1, files) IN
    [full EXCEPT !.di[ROOTINO].size = ((@ \div BSIZE) + 1) * BSIZE]
=============================================================================
