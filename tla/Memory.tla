-------------------------------- MODULE Memory --------------------------------
(***************************************************************************)
(* Physical pages and address spaces: kalloc.c, vm.c, exec.c, and the      *)
(* parts of proc.c that take and return memory (allocproc, growproc, fork, *)
(* wait).  Pages are counted: an address space has a directory, KPT tables *)
(* for the kernel's part, the tables and pages of the user part.  Each     *)
(* kalloc with the mapping of its page is a step, so that processes compete*)
(* for the last pages; what is freed together is freed in one step.        *)
(***************************************************************************)
EXTENDS Integers, FiniteSets, FiniteSetsExt, Sequences

CONSTANTS NPROC,      \* slots 1..NPROC; slot 1 is init
          NPAGES,     \* pages kinit1 and kinit2 put on the free list
          KPT, PTSIZE,\* tables of the kernel's part, entries of a table
          PGSIZE, KERNBASE,
          WORD,       \* addresses are modulo WORD
          Images,     \* programs: sequences of segments [va, memsz, filesz]
          Increments, \* arguments of sbrk
          ArgSizes    \* bytes exec copies to the new stack

VARIABLES nfree,  \* pages on kmem.freelist
          proc,   \* the process table
          op,     \* what each process is doing in the kernel
          halt    \* a panic

memvars == <<nfree, proc, op, halt>>

Slots == 1..NPROC
PGROUNDUP(a) == ((a + PGSIZE - 1) \div PGSIZE) * PGSIZE
PagesOf(lo, hi) == {v \in 0..KERNBASE \div PGSIZE - 1 : v * PGSIZE >= PGROUNDUP(lo) /\ v * PGSIZE < hi}
TableOf(v) == v \div PTSIZE
NoSpace == [pd |-> 0, kpt |-> 0, pt |-> {}, pg |-> {}, guard |-> {}]
User == [f |-> "user"]
Unused == [state |-> "unused", kstack |-> 0, as |-> NoSpace, sz |-> 0, parent |-> 0]

PagesIn(as) == as.pd + as.kpt + Cardinality(as.pt) + Cardinality(as.pg)

\* userinit after kinit: init has a stack, an address space and one page.
MemInit ==
    LET as == [pd |-> 1, kpt |-> KPT, pt |-> {0}, pg |-> {0}, guard |-> {}] IN
    /\ proc = [p \in Slots |-> IF p # 1 THEN Unused
                 ELSE [state |-> "run", kstack |-> 1, as |-> as, sz |-> PGSIZE, parent |-> 0]]
    /\ nfree = NPAGES - 1 - PagesIn(as)
    /\ op = [p \in Slots |-> User]
    /\ halt = FALSE
-----------------------------------------------------------------------------
\* kalloc and mappages of page v: a table for it first if there is none.
Needs(as, v) == IF TableOf(v) \in as.pt THEN 1 ELSE 2
Mapped(as, v) == [as EXCEPT !.pt = @ \cup {TableOf(v)}, !.pg = @ \cup {v}]

\* deallocuvm: the pages that are present in the range; tables stay.
DeallocDown(as, lo, hi) ==
    LET gone == PagesOf((lo \div PGSIZE) * PGSIZE, hi) IN [as EXCEPT !.pg = @ \ gone, !.guard = @ \ gone]
Dealloc(as, lo, hi) ==
    LET gone == PagesOf(lo, hi) IN [as EXCEPT !.pg = @ \ gone, !.guard = @ \ gone]

\* One turn of allocuvm's loop in an address space, for the address a of a call
\* that grows it from lo to hi.  When a page or its table is not to be had, what
\* the call has mapped is unmapped, and the page without a table freed.
KeepsPage(as, a, lo, hi) ==
    LET v == a \div PGSIZE IN
    IF nfree >= Needs(as, v)
    THEN [ok |-> TRUE, as |-> Mapped(as, v), free |-> nfree - Needs(as, v)]
    ELSE [ok |-> FALSE, as |-> Dealloc(as, lo, hi),
          free |-> (IF nfree > 0 THEN nfree - 1 ELSE 0) + Cardinality(as.pg \cap PagesOf(lo, hi))]
Allocuvm(as, a, lo, hi) ==
    LET v == a \div PGSIZE IN
    IF nfree >= Needs(as, v)
    THEN [ok |-> TRUE, as |-> Mapped(as, v), free |-> nfree - Needs(as, v)]
    ELSE [ok |-> FALSE, as |-> Dealloc(as, lo, hi), free |-> nfree + Cardinality(as.pg \cap PagesOf(lo, hi))]

Sets(p, o) == op' = [op EXCEPT ![p] = o]
\* A process runs user code only while its code is mapped; the page fault of
\* one that is not kills it.
CanRun(p) == proc[p].state = "run" /\ op[p] = User /\ 0 \in proc[p].as.pg

\* sys_sbrk and growproc; the sum is unsigned.
Sbrk(p, n) ==
    LET sz == proc[p].sz
        new == (sz + n) % WORD IN
    /\ CanRun(p)
    /\ IF n > 0 /\ new < KERNBASE /\ new >= sz
       THEN Sets(p, [f |-> "grow", a |-> PGROUNDUP(sz), old |-> sz, new |-> new]) /\ UNCHANGED <<nfree, proc>>
       ELSE IF n < 0 /\ new < sz
       THEN \* shrinking to nothing frees everything and returns an error
            /\ proc' = [proc EXCEPT ![p].as = Dealloc(@, new, sz), ![p].sz = IF new = 0 THEN @ ELSE new]
            /\ nfree' = nfree + Cardinality(proc[p].as.pg \cap PagesOf(new, sz))
            /\ UNCHANGED op
       ELSE UNCHANGED <<nfree, proc, op>>
    /\ UNCHANGED halt
Grow(p) ==
    LET o == op[p]
        r == Allocuvm(proc[p].as, o.a, o.old, o.new) IN
    /\ o.f = "grow"
    /\ IF o.a < o.new
       THEN /\ proc' = [proc EXCEPT ![p].as = r.as]
            /\ nfree' = r.free
            /\ Sets(p, IF r.ok THEN [o EXCEPT !.a = @ + PGSIZE] ELSE User)
       ELSE /\ proc' = [proc EXCEPT ![p].sz = o.new]
            /\ Sets(p, User)
            /\ UNCHANGED nfree
    /\ UNCHANGED halt
-----------------------------------------------------------------------------
\* fork: allocproc takes a slot and, outside the lock, a stack; copyuvm sets up
\* the kernel's part and copies page by page.
Fork(p) ==
    LET free == {q \in Slots : proc[q].state = "unused"}
        q == Min(free) IN
    /\ CanRun(p) /\ free # {}
    /\ proc' = [proc EXCEPT ![q].state = "embryo"]
    /\ Sets(p, [f |-> "kstack", q |-> q])
    /\ UNCHANGED <<nfree, halt>>
Kstack(p) ==
    LET q == op[p].q IN
    /\ op[p].f = "kstack"
    /\ IF nfree = 0
       THEN proc' = [proc EXCEPT ![q].state = "unused"] /\ Sets(p, User) /\ UNCHANGED nfree
       ELSE /\ proc' = [proc EXCEPT ![q].kstack = 1]
            /\ nfree' = nfree - 1
            /\ Sets(p, [f |-> "setup", q |-> q, as |-> NoSpace, image |-> <<>>])
    /\ UNCHANGED halt
\* The failure of fork, given the pages that freevm returned.
ForkFails(p, q, freed) ==
    /\ proc' = [proc EXCEPT ![q].state = "unused", ![q].kstack = 0]
    /\ nfree' = nfree + freed + proc[q].kstack
    /\ Sets(p, User)
Copyuvm(p) ==
    LET o == op[p]
        v == o.i \div PGSIZE IN
    /\ o.f = "copy"
    /\ IF o.i >= proc[p].sz
       THEN /\ proc' = [proc EXCEPT ![o.q] = [state |-> "run", kstack |-> 1, as |-> o.as,
                                              sz |-> proc[p].sz, parent |-> p]]
            /\ Sets(p, User) /\ UNCHANGED <<nfree, halt>>
       ELSE IF v \notin proc[p].as.pg
       THEN halt' = TRUE /\ UNCHANGED <<nfree, proc, op>>
       ELSE /\ IF nfree >= Needs(o.as, v)
               THEN /\ nfree' = nfree - Needs(o.as, v)
                    /\ Sets(p, [o EXCEPT !.i = @ + PGSIZE,
                                  !.as = [Mapped(@, v) EXCEPT !.guard = proc[p].as.guard]])
                    /\ UNCHANGED proc
               ELSE ForkFails(p, o.q, PagesIn(o.as))
            /\ UNCHANGED halt

\* exit leaves a zombie; wait returns the memory of a zombie child.
Exit(p) ==
    /\ p # 1 /\ proc[p].state = "run" /\ op[p] = User
    /\ proc' = [q \in Slots |-> IF q = p THEN [proc[p] EXCEPT !.state = "zombie"]
                                ELSE IF proc[q].parent = p THEN [proc[q] EXCEPT !.parent = 1] ELSE proc[q]]
    /\ UNCHANGED <<nfree, op, halt>>
Wait(p, q) ==
    /\ CanRun(p) /\ proc[q].state = "zombie" /\ proc[q].parent = p
    /\ nfree' = nfree + proc[q].kstack + PagesIn(proc[q].as)
    /\ proc' = [proc EXCEPT ![q] = Unused]
    /\ UNCHANGED <<op, halt>>
-----------------------------------------------------------------------------
\* exec of a program with an ELF header (another one fails before it has taken
\* anything); ip says whether the inode is locked and the transaction open.
Exec(p, image) ==
    /\ CanRun(p)
    /\ Sets(p, [f |-> "setup", q |-> 0, as |-> NoSpace, image |-> image])
    /\ UNCHANGED <<nfree, proc, halt>>
\* setupkvm, for fork (q # 0) and exec: the directory, then the kernel's tables.
Setupkvm(p) ==
    LET o == op[p]
        as == IF o.as.pd = 0 THEN [o.as EXCEPT !.pd = 1] ELSE [o.as EXCEPT !.kpt = @ + 1] IN
    /\ o.f = "setup"
    /\ IF o.as.kpt = KPT
       THEN /\ Sets(p, IF o.q # 0 THEN [f |-> "copy", q |-> o.q, as |-> o.as, i |-> 0]
                       ELSE [f |-> "segment", as |-> o.as, image |-> o.image, sz |-> 0, ip |-> TRUE])
            /\ UNCHANGED <<nfree, proc>>
       ELSE IF nfree > 0
       THEN nfree' = nfree - 1 /\ Sets(p, [o EXCEPT !.as = as]) /\ UNCHANGED proc
       ELSE IF o.q # 0 THEN ForkFails(p, o.q, PagesIn(o.as))
       ELSE nfree' = nfree + PagesIn(o.as) /\ Sets(p, User) /\ UNCHANGED proc
    /\ UNCHANGED halt
\* bad: in exec; freevm of the new address space.
Bad(p, as, free) == nfree' = free + PagesIn(as) /\ Sets(p, User) /\ UNCHANGED proc
\* The next segment, or the end of the program: the checks before allocuvm.
Segment(p) ==
    LET o == op[p]
        s == Head(o.image)
        end == (s.va + s.memsz) % WORD IN
    /\ o.f = "segment"
    /\ IF o.image = <<>>
       THEN LET top == PGROUNDUP(o.sz) IN
            /\ IF top + 2 * PGSIZE >= KERNBASE THEN Bad(p, o.as, nfree)
               ELSE /\ Sets(p, [f |-> "alloc", as |-> o.as, image |-> <<>>, ip |-> FALSE, a |-> top,
                                old |-> top, new |-> top + 2 * PGSIZE])
                    /\ UNCHANGED <<nfree, proc>>
       ELSE IF s.memsz < s.filesz \/ end < s.va \/ end >= KERNBASE \/ Max({o.sz, end}) = 0
       THEN Bad(p, o.as, nfree)
       ELSE /\ Sets(p, [f |-> "alloc", as |-> o.as, image |-> o.image, ip |-> TRUE, a |-> PGROUNDUP(o.sz),
                        old |-> o.sz, new |-> Max({o.sz, end})])
            /\ UNCHANGED <<nfree, proc>>
    /\ UNCHANGED halt
\* allocuvm for a segment or the stack; then loaduvm, whose readi may fall short.
Alloc(p, readable) ==
    LET o == op[p]
        r == Allocuvm(o.as, o.a, o.old, o.new)
        s == Head(o.image) IN
    /\ o.f = "alloc"
    /\ IF o.a < o.new
       THEN IF r.ok THEN nfree' = r.free /\ Sets(p, [o EXCEPT !.as = r.as, !.a = @ + PGSIZE]) /\ UNCHANGED <<proc, halt>>
            ELSE Bad(p, r.as, r.free) /\ UNCHANGED halt
       ELSE IF ~o.ip
       THEN /\ Sets(p, [f |-> "args", sz |-> o.new,
                        as |-> [o.as EXCEPT !.guard = {o.old \div PGSIZE}]])
            /\ halt' = (o.old \div PGSIZE \notin o.as.pg)
            /\ UNCHANGED <<nfree, proc>>
       ELSE IF s.va % PGSIZE # 0 \/ ~readable
       THEN Bad(p, o.as, nfree) /\ UNCHANGED halt
       ELSE /\ Sets(p, [f |-> "segment", as |-> o.as, image |-> Tail(o.image), sz |-> o.new, ip |-> TRUE])
            /\ halt' = \E v \in PagesOf(s.va, s.va + s.filesz) : v \notin o.as.pg
            /\ UNCHANGED <<nfree, proc>>
\* The arguments, copied downwards from the top of the stack until a page that
\* is not the user's; then the new image replaces the old one, which is freed.
Args(p, n) ==
    LET o == op[p]
        touched == {v \in 0..KERNBASE \div PGSIZE : v * PGSIZE < o.sz /\ (v + 1) * PGSIZE > o.sz - n} IN
    /\ o.f = "args"
    /\ IF touched \subseteq o.as.pg \ o.as.guard
       THEN /\ proc' = [proc EXCEPT ![p].as = o.as, ![p].sz = o.sz]
            /\ nfree' = nfree + PagesIn(proc[p].as)
            /\ Sets(p, User)
       ELSE Bad(p, o.as, nfree)
    /\ UNCHANGED halt
-----------------------------------------------------------------------------
MemStep(p) ==
    \/ \E n \in Increments : Sbrk(p, n)
    \/ Grow(p) \/ Fork(p) \/ Kstack(p) \/ Setupkvm(p) \/ Copyuvm(p) \/ Exit(p)
    \/ \E q \in Slots : Wait(p, q)
    \/ \E image \in Images : Exec(p, image)
    \/ Segment(p) \/ \E readable \in BOOLEAN : Alloc(p, readable)
    \/ \E n \in ArgSizes : Args(p, n)
MemNext == ~halt /\ \E p \in Slots : MemStep(p)
MemSpec == MemInit /\ [][MemNext]_memvars
-----------------------------------------------------------------------------
InProgress(p) == IF op[p].f \in {"setup", "copy", "segment", "alloc", "args"} THEN PagesIn(op[p].as) ELSE 0

\* kalloc.c, vm.c, exec.c, fork: on every path, and wherever memory runs out, a
\* page is on the free list or in exactly one stack or address space: nothing is
\* lost and nothing is freed twice.
PagesConserved ==
    nfree + MapThenSumSet(LAMBDA p : proc[p].kstack + PagesIn(proc[p].as) + InProgress(p), Slots) = NPAGES

\* vm.c: the pages below a process's size are there and none above, so that
\* copyuvm finds each of them, whatever sbrk, fork and exec did before and wherever
\* they failed; no panic is reached; an unused slot owns nothing.
SpaceMatchesSize ==
    /\ ~halt
    /\ \A p \in Slots : proc[p].state \in {"run", "zombie"} /\ op[p].f # "grow" /\ proc[p].as.pg # {} =>
         /\ proc[p].as.pg = PagesOf(0, proc[p].sz)
         /\ {TableOf(v) : v \in proc[p].as.pg} \subseteq proc[p].as.pt
    /\ \A p \in Slots : proc[p].state = "unused" => proc[p] = Unused
=============================================================================
