----------------------------- MODULE MCResources -----------------------------
(* What processes own and share, for TLC: open files and pipes, or pages and *)
(* address spaces.  A behaviour is about one of the two.                     *)
EXTENDS Files, TLC

VARIABLES nfree, proc, op, halt,   \* Memory's
          part                     \* "files" or "memory"

MCIncrements == {3, -3}
MCImages == {<<[va |-> 0, memsz |-> 3, filesz |-> 2]>>,
             <<[va |-> 0, memsz |-> 2, filesz |-> 2], [va |-> 4, memsz |-> 1, filesz |-> 0]>>,
             <<[va |-> 1, memsz |-> 2, filesz |-> 1]>>,
             <<[va |-> 14, memsz |-> 3, filesz |-> 3]>>}

Mem == INSTANCE Memory WITH NPROC <- 3, NPAGES <- 18, KPT <- 1, PTSIZE <- 2, PGSIZE <- 2,
         KERNBASE <- 12, WORD <- 16, Images <- MCImages, Increments <- MCIncrements, ArgSizes <- {1, 3}

memory == <<nfree, proc, op, halt>>

RInit == Init /\ Mem!MemInit /\ part \in {"files", "memory"}
RNext == \/ part = "files" /\ Next /\ UNCHANGED <<memory, part>>
         \/ part = "memory" /\ Mem!MemNext /\ UNCHANGED <<vars, part>>
RSpec == RInit /\ [][RNext]_<<vars, memory, part>>

\* Processes are alike in Files, and so are pages; no liveness is checked.
Symmetry == Permutations(Procs) \cup Permutations(Pages)

\* Memory: a page is on the free list or has exactly one owner.
PagesConserved == Mem!PagesConserved

\* Memory: an address space holds the pages below its size and no others.
SpaceMatchesSize == Mem!SpaceMatchesSize
=============================================================================
