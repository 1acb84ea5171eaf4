------------------------------- MODULE Umalloc -------------------------------
(***************************************************************************)
(* malloc and free of umalloc.c.  Memory is counted in units of a header;  *)
(* base, a static variable, lies at 0, below the heap, which starts at 1.  *)
(* The program may also call sbrk itself, so that the heap has gaps.       *)
(***************************************************************************)
EXTENDS Integers, FiniteSets

CONSTANTS HEAP,      \* units sbrk can give out
          MINUNITS,  \* 4096 in morecore
          Sizes      \* block sizes asked for, in units, header included

VARIABLES hdr,       \* the headers: ptr and size; -1 where none was written
          freep,     \* -1 before the first call
          brk,
          used,      \* blocks the program holds: their headers
          gaps       \* units the program took with sbrk

mvars == <<hdr, freep, brk, used, gaps>>
NoHdr == [ptr |-> -1, size |-> -1]

MInit == /\ hdr = [a \in 0..HEAP |-> NoHdr] /\ freep = -1 /\ brk = 1
         /\ used = {} /\ gaps = {}

\* The loop of free: where in the circular list block b belongs.
RECURSIVE FindPlace(_, _, _)
FindPlace(h, b, p) ==
    IF b > p /\ b < h[p].ptr THEN p
    ELSE IF p >= h[p].ptr /\ (b > p \/ b < h[p].ptr) THEN p
    ELSE FindPlace(h, b, h[p].ptr)

\* What was a header and is now inside a block is forgotten (NoHdr).
\* Joining b to the next block, then the block before it to b.
JoinNext(h, p, b) ==
    LET next == h[p].ptr IN
    IF b + h[b].size = next
    THEN [h EXCEPT ![b] = [size |-> h[b].size + h[next].size, ptr |-> h[next].ptr],
                   ![next] = IF next = p THEN @ ELSE NoHdr]
    ELSE [h EXCEPT ![b].ptr = next]
LinkOnly(h, p, b) == [h EXCEPT ![p].ptr = b]
JoinPrev(h, p, b) ==
    IF p + h[p].size = b
    THEN [h EXCEPT ![p] = [size |-> h[p].size + h[b].size, ptr |-> h[b].ptr], ![b] = NoHdr]
    ELSE [h EXCEPT ![p].ptr = b]
\* free: the new headers and freep.
FreeBlock(h, fp, b) == LET p == FindPlace(h, b, fp) IN
                       [h |-> JoinPrev(JoinNext(h, p, b), p, b), fp |-> p]

\* malloc's walk from prevp: the block found, or none after a full round.
RECURSIVE Walk(_, _, _, _)
Walk(h, fp, prev, n) ==
    LET p == h[prev].ptr IN
    IF h[p].size >= n THEN [found |-> TRUE, prev |-> prev, p |-> p]
    ELSE IF p = fp THEN [found |-> FALSE, prev |-> prev, p |-> p]
    ELSE Walk(h, fp, p, n)

\* Taking n units from block p: all of it, or its tail.
Carve(h, prev, p, n) ==
    IF h[p].size = n THEN [h |-> [h EXCEPT ![prev].ptr = h[p].ptr, ![p].ptr = -1], at |-> p]
    ELSE LET q == p + h[p].size - n IN
         [h |-> [h EXCEPT ![p].size = @ - n, ![q] = [ptr |-> -1, size |-> n]], at |-> q]

\* morecore: sbrk, then free of the new block.
More(n) == IF n < MINUNITS THEN MINUNITS ELSE n

Malloc(n) ==
    LET h0 == IF freep = -1 THEN [hdr EXCEPT ![0] = [ptr |-> 0, size |-> 0]] ELSE hdr
        fp == IF freep = -1 THEN 0 ELSE freep
        w == Walk(h0, fp, fp, n) IN
    /\ IF w.found
       THEN LET c == Carve(h0, w.prev, w.p, n) IN
            /\ hdr' = c.h /\ freep' = w.prev /\ used' = used \cup {c.at} /\ brk' = brk
       ELSE IF brk + More(n) > HEAP + 1      \* sbrk fails
       THEN hdr' = h0 /\ freep' = fp /\ UNCHANGED <<used, brk>>
       ELSE LET f == FreeBlock([h0 EXCEPT ![brk] = [ptr |-> -1, size |-> More(n)]], fp, brk)
                again == Walk(f.h, f.fp, f.fp, n)
                c == Carve(f.h, again.prev, again.p, n) IN
            /\ hdr' = c.h /\ freep' = again.prev /\ used' = used \cup {c.at}
            /\ brk' = brk + More(n)
    /\ UNCHANGED gaps

MFree(b) ==
    /\ b \in used
    /\ LET f == FreeBlock(hdr, freep, b) IN hdr' = f.h /\ freep' = f.fp
    /\ used' = used \ {b}
    /\ UNCHANGED <<brk, gaps>>

\* The program's own sbrk of one unit.
Sbrk1 == /\ brk <= HEAP /\ gaps' = gaps \cup {brk} /\ brk' = brk + 1
         /\ UNCHANGED <<hdr, freep, used>>

MNext == (\E n \in Sizes : Malloc(n)) \/ (\E b \in 1..HEAP : MFree(b)) \/ Sbrk1
-----------------------------------------------------------------------------
RECURSIVE ListFrom(_, _)
ListFrom(p, seen) == IF p \in seen THEN seen ELSE ListFrom(hdr[p].ptr, seen \cup {p})
FreeList == IF freep = -1 THEN {} ELSE ListFrom(freep, {})
Units(b) == b..b + hdr[b].size - 1
Heap == 1..brk - 1

\* umalloc.c: the blocks in use and the blocks of the free list share no unit
\* and together are the whole heap (nothing is lost or given out twice); the
\* free list is circular through base and no two of its blocks touch.
HeapPartitioned ==
    /\ freep # -1 => 0 \in FreeList /\ hdr[CHOOSE p \in FreeList : \A q \in FreeList : q <= p].ptr = 0
    /\ LET blocks == used \cup (FreeList \ {0}) IN
       /\ UNION {Units(b) : b \in blocks} \cup gaps = Heap
       /\ \A a, b \in blocks : a # b => Units(a) \cap Units(b) = {}
       /\ used \cap FreeList = {}
       /\ \A a \in FreeList \ {0} : a + hdr[a].size \notin FreeList
=============================================================================
