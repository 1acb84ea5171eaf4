------------------------------ MODULE PipeProofs ------------------------------
(***************************************************************************)
(* The inductive invariant Inv of module Files, and the proof that the     *)
(* steps of a process inside piperead, pipewrite, pipeclose, sleep and     *)
(* kill preserve it.  Inv has three layers: RefInv (reference counts),     *)
(* EndInv (the ends of pipes) and PipeInv (the bytes in the ring and who   *)
(* sleeps).                                                                *)
(***************************************************************************)
EXTENDS Files, Integers, FiniteSetTheorems, NaturalsInduction, WellFoundedInduction, TLAPS

Readers == {"read", "rdoze", "rsleep"}
Writers == {"write", "wdoze", "wsleep"}
Closers == {"pclose", "xpclose"}
Labels == {"unused", "user", "pipe2", "exit", "zombie"} \cup Readers \cup Writers \cup Closers

Counter == 0 .. WRAP - 1
Entry == [ref : Nat, type : {"none", "pipe", "inode"}, writable : BOOLEAN, page : Pages \cup {NoPage}]
Place == [pc : Labels, f : Files \cup {0}, page : Pages \cup {NoPage}, n : Nat, i : Nat, w : BOOLEAN]
Ring == [free : BOOLEAN, data : [0 .. PIPESIZE - 1 -> Nat],
         nread : Counter, nwrite : Counter, readopen : BOOLEAN, writeopen : BOOLEAN,
         sent : Counter, got : Counter, skipped : BOOLEAN]

Typed ==
  /\ ftable \in [Files -> Entry]
  /\ ofile \in [Procs -> [Fds -> Files \cup {0}]]
  /\ pipe \in [Pages -> Ring]
  /\ th \in [Procs -> Place]
  /\ killed \in [Procs -> BOOLEAN]

\* The descriptors that refer to f, and the calls of sys_pipe that hold it.
Refers(f) == {x \in Procs \X Fds : ofile[x[1]][x[2]] = f}
Holds(f) == {p \in Procs : th[p].pc = "pipe2" /\ th[p].f = f}

Counted(f) == ftable[f].ref = Cardinality(Refers(f)) + Cardinality(Holds(f))

\* A free file is no end of a pipe.
Kind(f) ==
  /\ ftable[f].ref = 0 => ftable[f].type = "none"
  /\ ftable[f].type = "pipe" => ftable[f].page \in Pages

\* The file a sys_pipe under way has allocated belongs to it alone.
Holder(p) ==
  th[p].pc = "pipe2" =>
    /\ th[p].f \in Files /\ ftable[th[p].f].type = "none"
    /\ \A q \in Procs : th[q].pc = "pipe2" /\ th[q].f = th[p].f => q = p
    /\ \A q \in Procs, fd \in Fds : ofile[q][fd] # th[p].f

\* fork gets a slot without descriptors.
Empty(p) == th[p].pc \in {"unused", "zombie"} => \A fd \in Fds : ofile[p][fd] = 0

RefInv ==
  /\ Typed
  /\ \A f \in Files : Counted(f)
  /\ \A f \in Files : Kind(f)
  /\ \A p \in Procs : Holder(p)
  /\ \A p \in Procs : Empty(p)

IsEnd(f, g, w) == ftable[f].type = "pipe" /\ ftable[f].page = g /\ ftable[f].writable = w
Closes(p, g, w) == th[p].pc \in Closers /\ th[p].page = g /\ th[p].w = w

\* An end of a pipe is one file, or one close that is under way.
OneEnd(g, w) ==
  /\ \A f, h \in Files : IsEnd(f, g, w) /\ IsEnd(h, g, w) => f = h
  /\ \A p, q \in Procs : Closes(p, g, w) /\ Closes(q, g, w) => p = q
  /\ \A f \in Files, p \in Procs : ~(IsEnd(f, g, w) /\ Closes(p, g, w))

OpenEnds(g) ==
  /\ pipe[g].readopen = TRUE <=> Ends(g, FALSE)
  /\ pipe[g].writeopen = TRUE <=> Ends(g, TRUE)
  /\ pipe[g].free = TRUE <=> pipe[g].readopen = FALSE /\ pipe[g].writeopen = FALSE

\* A process inside piperead or pipewrite keeps the descriptor it came through.
Through(p, w) == \E fd \in Fds : ofile[p][fd] # 0 /\ IsEnd(ofile[p][fd], th[p].page, w)

Works(p) ==
  /\ th[p].pc \in Readers => Through(p, FALSE)
  /\ th[p].pc \in Writers => Through(p, TRUE) /\ th[p].i <= th[p].n
  /\ th[p].pc \in Closers => th[p].page \in Pages
  /\ th[p].pc \notin Readers \cup Writers \cup Closers => th[p].page = NoPage

EndInv ==
  /\ \A g \in Pages, w \in BOOLEAN : OneEnd(g, w)
  /\ \A g \in Pages : OpenEnds(g)
  /\ \A p \in Procs : Works(p)

\* The ring holds the bytes nread, nread + 1, ..., nwrite - 1, in their slots.
Ahead(a, b) == (a + WRAP - b) % WRAP
Held(r) == Ahead(r.nwrite, r.nread)
InSlots(data, a, n) == \A k \in 0 .. n - 1 : data[(a + k) % PIPESIZE] = (a + k) % WRAP

Stream(r) ==
  /\ r.sent = r.nwrite /\ r.got = r.nread /\ Held(r) <= PIPESIZE
  /\ InSlots(r.data, r.nread, Held(r))

Asleep(p) ==
  LET r == pipe[th[p].page] IN
  /\ th[p].pc \in {"wdoze", "wsleep"} => Held(r) = PIPESIZE /\ r.readopen = TRUE
  /\ th[p].pc \in {"rdoze", "rsleep"} => r.writeopen = TRUE /\ (Held(r) = 0 \/ r.skipped = TRUE)

PipeInv ==
  /\ \A g \in Pages : pipe[g].free = FALSE => Stream(pipe[g])
  /\ \A p \in Procs : Asleep(p)

Inv == RefInv /\ EndInv /\ PipeInv
-------------------------------------------------------------------------------
(* Arithmetic of the counters. *)

\* Division with remainder.
LEMMA DivMod ==
  ASSUME NEW n \in Nat \ {0}, NEW a \in Nat
  PROVE  \E q \in Nat : a = n * q + (a % n)
<1>1. a \div n \in Nat /\ a = n * (a \div n) + (a % n)
  OBVIOUS
<1> QED
  BY <1>1, Zenon

\* A remainder is a remainder of one division only.
LEMMA ModUnique ==
  ASSUME NEW n \in Nat \ {0}, NEW q \in Nat, NEW u \in Nat,
         NEW r \in 0 .. n - 1, NEW s \in 0 .. n - 1, n * q + r = n * u + s
  PROVE  r = s
OBVIOUS

\* Positions less than n apart in the stream are in different slots of n.
LEMMA ModDiffers ==
  ASSUME NEW n \in Nat \ {0}, NEW a \in Nat, NEW d \in 1 .. n - 1
  PROVE  (a + d) % n # a % n
<1>1. PICK q \in Nat : a = n * q + (a % n)
  BY DivMod, Zenon
<1>2. a + d \in Nat
  OBVIOUS
<1>3. PICK u \in Nat : a + d = n * u + ((a + d) % n)
  BY <1>2, DivMod, Zenon
<1>4. SUFFICES ASSUME (a + d) % n = a % n PROVE FALSE
  BY Zenon
<1>5. a % n \in Nat
  OBVIOUS
<1>6. d = n * u - n * q
  BY <1>1, <1>3, <1>4, <1>5
<1>7. n * u - n * q = n * (u - q)
  OBVIOUS
<1>8. /\ u - q \in Int
      /\ u - q > 0 => n * (u - q) >= n
      /\ u - q <= 0 => n * (u - q) <= 0
  <2>1. \A x \in Int : x > 0 => n * x >= n
    OBVIOUS
  <2> QED
    BY <2>1
<1> QED
  BY <1>6, <1>7, <1>8

\* A multiple of n does not move the slot.
LEMMA ModMultiple ==
  ASSUME NEW n \in Nat \ {0}, NEW m \in Nat, m % n = 0, NEW a \in Nat
  PROVE  (a + m) % n = a % n
<1>1. PICK c \in Nat : m = n * c
  <2>1. PICK c \in Nat : m = n * c + (m % n)
    BY DivMod, Zenon
  <2> QED
    BY <2>1
<1>2. PICK q \in Nat : a = n * q + (a % n)
  BY DivMod, Zenon
<1> DEFINE b == a + n * c
<1>3. b \in Nat /\ b = a + m
  BY <1>1
<1> HIDE DEF b
<1>4. PICK u \in Nat : b = n * u + (b % n)
  BY <1>3, DivMod, Zenon
<1>5. a % n \in 0 .. n - 1 /\ b % n \in 0 .. n - 1
  BY <1>3
<1>6. n * q + n * c = n * (q + c)
  OBVIOUS
<1>7. n * (q + c) + (a % n) = n * u + (b % n) /\ q + c \in Nat
  BY <1>2, <1>3, <1>4, <1>5, <1>6 DEF b
<1>8. a % n = b % n
  BY <1>5, <1>7, ModUnique, Zenon
<1> QED
  BY <1>3, <1>8, Zenon

\* uint arithmetic is a subtraction at most once.
LEMMA ModOnce ==
  ASSUME NEW n \in Nat \ {0}, NEW x \in 0 .. 2 * n - 1
  PROVE  x % n = IF x < n THEN x ELSE x - n
OBVIOUS

\* The uints are numbers, and the ring is smaller than their range.
LEMMA Sizes == WRAP \in Nat \ {0} /\ PIPESIZE \in Nat \ {0} /\ WRAP > PIPESIZE
BY FilesConstants

\* A counter advanced by at most WRAP, and the distance of two counters.
LEMMA Advance ==
  ASSUME NEW a \in Counter, NEW m \in 0 .. WRAP
  PROVE  (a + m) % WRAP \in Counter /\ (a + m) % WRAP = IF a + m < WRAP THEN a + m ELSE (a + m) - WRAP
<1> DEFINE x == a + m
<1>1. x \in 0 .. 2 * WRAP - 1
  BY Sizes DEF Counter
<1> HIDE DEF x
<1>2. x % WRAP = IF x < WRAP THEN x ELSE x - WRAP
  BY <1>1, Sizes, ModOnce, Zenon
<1>3. x % WRAP \in Counter
  BY <1>1, <1>2, Sizes DEF Counter
<1> QED
  BY <1>2, <1>3, Zenon DEF x

LEMMA AheadIs ==
  ASSUME NEW a \in Counter, NEW b \in Counter
  PROVE  /\ Ahead(a, b) \in Counter
         /\ Ahead(a, b) = IF a >= b THEN a - b ELSE a + WRAP - b
<1>1. WRAP - b \in 0 .. WRAP /\ a + WRAP - b = a + (WRAP - b)
  BY Sizes DEF Counter
<1>2. Ahead(a, b) = (a + (WRAP - b)) % WRAP
  BY <1>1, Zenon DEF Ahead
<1>3. /\ Ahead(a, b) \in Counter
      /\ Ahead(a, b) = IF a + (WRAP - b) < WRAP THEN a + (WRAP - b) ELSE (a + (WRAP - b)) - WRAP
  BY <1>1, <1>2, Advance, Zenon
<1> QED
  BY <1>3, Sizes DEF Counter

\* Neither the value nor the slot of a byte depends on the counters' having
\* wrapped.
LEMMA SameByte ==
  ASSUME NEW a \in Nat
  PROVE  (a + WRAP) % WRAP = a % WRAP /\ (a + WRAP) % PIPESIZE = a % PIPESIZE
<1>1. WRAP % WRAP = 0
  BY Sizes
<1>2. WRAP % PIPESIZE = 0
  BY FilesConstants, Zenon
<1> QED
  BY <1>1, <1>2, Sizes, ModMultiple, Zenon
-------------------------------------------------------------------------------
(* The ring. *)

\* piperead's loop takes the m oldest bytes.
LEMMA DeliverKeeps ==
  ASSUME NEW a \in Counter, NEW b \in Counter, NEW m \in Nat, m <= Ahead(b, a),
         NEW data, InSlots(data, a, Ahead(b, a))
  PROVE  /\ (a + m) % WRAP \in Counter
         /\ Ahead(b, (a + m) % WRAP) = Ahead(b, a) - m
         /\ InSlots(data, (a + m) % WRAP, Ahead(b, a) - m)
<1> DEFINE c == (a + m) % WRAP
           h == Ahead(b, a)
<1>1. h \in Counter /\ h = IF b >= a THEN b - a ELSE b + WRAP - a
  BY AheadIs, Zenon
<1>2. m \in 0 .. WRAP
  BY <1>1, Sizes DEF Counter
<1>3. c \in Counter /\ c = IF a + m < WRAP THEN a + m ELSE (a + m) - WRAP
  BY <1>2, Advance, Zenon
<1> HIDE DEF c, h
<1>4. Ahead(b, c) = IF b >= c THEN b - c ELSE b + WRAP - c
  BY <1>3, AheadIs, Zenon
<1>5. Ahead(b, c) = h - m
  <2>1. m <= h
    BY Zenon DEF h
  <2> QED
    BY <1>1, <1>3, <1>4, <2>1, Sizes DEF Counter
<1>6. ASSUME NEW k \in 0 .. (h - m) - 1 PROVE data[(c + k) % PIPESIZE] = (c + k) % WRAP
  <2>1. m + k \in 0 .. h - 1 /\ c + k \in Nat
    BY <1>1, <1>3 DEF Counter
  <2>2. data[(a + (m + k)) % PIPESIZE] = (a + (m + k)) % WRAP
    BY <2>1, Zenon DEF InSlots, h
  <2>3. a + (m + k) = c + k \/ a + (m + k) = (c + k) + WRAP
    BY <1>3, Sizes DEF Counter
  <2> QED
    BY <2>1, <2>2, <2>3, SameByte, Zenon
<1> QED
  BY <1>3, <1>5, <1>6, Zenon DEF c, h, InSlots

\* A loop of pipewrite writes each slot at most once.
LEMMA OneByteEach ==
  ASSUME NEW b \in Nat, NEW m \in 0 .. PIPESIZE, NEW i \in 0 .. m - 1
  PROVE  Max({j \in 0 .. m - 1 : (b + j) % PIPESIZE = (b + i) % PIPESIZE}) = i
<1>1. ASSUME NEW x \in Nat, NEW y \in Nat, x < y, y - x < PIPESIZE PROVE y % PIPESIZE # x % PIPESIZE
  <2>1. y - x \in 1 .. PIPESIZE - 1 /\ x + (y - x) = y
    BY <1>1, Sizes
  <2>2. (x + (y - x)) % PIPESIZE # x % PIPESIZE
    BY <2>1, Sizes, ModDiffers, Zenon
  <2> QED
    BY <2>1, <2>2, Zenon
<1>2. ASSUME NEW j \in 0 .. m - 1, j # i PROVE (b + j) % PIPESIZE # (b + i) % PIPESIZE
  <2>1. /\ b + j \in Nat /\ b + i \in Nat
        /\ \/ b + j < b + i /\ (b + i) - (b + j) < PIPESIZE
           \/ b + i < b + j /\ (b + j) - (b + i) < PIPESIZE
    BY <1>2, Sizes
  <2> QED
    BY <1>1, <2>1, Zenon
<1>3. {j \in 0 .. m - 1 : (b + j) % PIPESIZE = (b + i) % PIPESIZE} = {i}
  BY <1>2, Zenon
<1>4. Max({i}) = i
  BY DEF Max
<1> QED
  BY <1>3, <1>4, Zenon

\* new is data after a loop that writes the bytes b, b + 1, ..., b + m - 1.
Wrote(new, data, b, m) ==
  \A k \in 0 .. PIPESIZE - 1 :
    LET js == {j \in 0 .. m - 1 : (b + j) % PIPESIZE = k} IN
    new[k] = IF js = {} THEN data[k] ELSE (b + Max(js)) % WRAP

\* pipewrite's loop puts m bytes behind those that are there.
LEMMA FillKeeps ==
  ASSUME NEW a \in Counter, NEW b \in Counter, NEW m \in Nat, Ahead(b, a) + m <= PIPESIZE,
         NEW data, InSlots(data, a, Ahead(b, a)), NEW new,
         Wrote(new, data, b, m)
  PROVE  /\ (b + m) % WRAP \in Counter
         /\ Ahead((b + m) % WRAP, a) = Ahead(b, a) + m
         /\ InSlots(new, a, Ahead(b, a) + m)
<1> DEFINE c == (b + m) % WRAP
           h == Ahead(b, a)
           Js(k) == {j \in 0 .. m - 1 : (b + j) % PIPESIZE = k}
<1>0. \A k \in 0 .. PIPESIZE - 1 : new[k] = IF Js(k) = {} THEN data[k] ELSE (b + Max(Js(k))) % WRAP
  BY Zenon DEF Wrote
<1>1. h \in Counter /\ h = IF b >= a THEN b - a ELSE b + WRAP - a
  BY AheadIs, Zenon
<1>2. InSlots(data, a, h) /\ h + m <= PIPESIZE
  BY Zenon
<1> SUFFICES c \in Counter /\ Ahead(c, a) = h + m /\ InSlots(new, a, h + m)
  BY Zenon
<1> HIDE DEF c, h, Js
<1>3. m \in 0 .. WRAP
  BY <1>1, <1>2, Sizes DEF Counter
<1>4. c \in Counter /\ c = IF b + m < WRAP THEN b + m ELSE (b + m) - WRAP
  BY <1>3, Advance, Zenon DEF c
<1>5. Ahead(c, a) = IF c >= a THEN c - a ELSE c + WRAP - a
  BY <1>4, AheadIs, Zenon
<1>6. Ahead(c, a) = h + m
  BY <1>1, <1>2, <1>4, <1>5, Sizes DEF Counter
<1>7. ASSUME NEW j \in Nat
      PROVE  /\ b + j \in Nat
             /\ (b + j) % WRAP = (a + (h + j)) % WRAP
             /\ (b + j) % PIPESIZE = (a + (h + j)) % PIPESIZE
  <2>1. a + (h + j) = b + j \/ a + (h + j) = (b + j) + WRAP
    BY <1>1, Sizes DEF Counter
  <2>2. b + j \in Nat
    BY DEF Counter
  <2> QED
    BY <2>1, <2>2, SameByte, Zenon
<1>8. ASSUME NEW x \in Nat, NEW y \in Nat, x < y, y - x < PIPESIZE PROVE y % PIPESIZE # x % PIPESIZE
  <2>1. y - x \in 1 .. PIPESIZE - 1 /\ x + (y - x) = y
    BY <1>8, Sizes
  <2>2. (x + (y - x)) % PIPESIZE # x % PIPESIZE
    BY <2>1, Sizes, ModDiffers, Zenon
  <2> QED
    BY <2>1, <2>2, Zenon
<1>9. ASSUME NEW k \in 0 .. (h + m) - 1 PROVE new[(a + k) % PIPESIZE] = (a + k) % WRAP
  <2> DEFINE s == (a + k) % PIPESIZE
  <2>1. a + k \in Nat /\ k \in Nat /\ k < h + m
    BY <1>1 DEF Counter
  <2>2. s \in 0 .. PIPESIZE - 1
    BY <2>1, Sizes
  <2>3. new[s] = IF Js(s) = {} THEN data[s] ELSE (b + Max(Js(s))) % WRAP
    BY <1>0, <2>2, Zenon
  <2> HIDE DEF s
  <2>4. CASE k < h
    <3>1. ASSUME NEW j \in 0 .. m - 1 PROVE (b + j) % PIPESIZE # s
      <4>1. /\ j \in Nat /\ a + (h + j) \in Nat
            /\ a + k < a + (h + j) /\ (a + (h + j)) - (a + k) < PIPESIZE
        BY <1>1, <1>2, <2>1, <2>4, Sizes DEF Counter
      <4> QED
        BY <1>7, <1>8, <2>1, <4>1, Zenon DEF s
    <3>2. Js(s) = {}
      BY <3>1, Zenon DEF Js
    <3>3. k \in 0 .. h - 1
      BY <1>1, <2>1, <2>4 DEF Counter
    <3>4. data[(a + k) % PIPESIZE] = (a + k) % WRAP
      BY <1>2, <3>3, Zenon DEF InSlots
    <3> QED
      BY <2>3, <3>2, <3>4, Zenon DEF s
  <2>5. CASE k >= h
    <3> DEFINE i == k - h
    <3>1. i \in 0 .. m - 1 /\ i \in Nat /\ h + i = k
      BY <1>1, <2>1, <2>5 DEF Counter
    <3> HIDE DEF i
    <3>2. (b + i) % PIPESIZE = s /\ (b + i) % WRAP = (a + k) % WRAP
      BY <1>7, <3>1, Zenon DEF s
    <3>3. i \in Js(s) /\ b \in Nat /\ m \in 0 .. PIPESIZE
      BY <1>1, <1>2, <3>1, <3>2, Sizes DEF Js, Counter
    <3>4. Max({j \in 0 .. m - 1 : (b + j) % PIPESIZE = (b + i) % PIPESIZE}) = i
      BY <3>1, <3>3, OneByteEach, Zenon
    <3>5. Max(Js(s)) = i
      BY <3>2, <3>4, Zenon DEF Js
    <3> QED
      BY <2>3, <3>2, <3>3, <3>5, Zenon DEF s
  <2> QED
    <3>1. k < h \/ k >= h
      BY <1>1, <2>1 DEF Counter
    <3> QED
      BY <2>4, <2>5, <3>1, Zenon DEF s
<1> QED
  BY <1>4, <1>6, <1>9, Zenon DEF InSlots
-------------------------------------------------------------------------------
(* Reference counts. *)

\* There are finitely many descriptors and calls.
LEMMA Finite ==
  ASSUME NEW f
  PROVE  /\ IsFiniteSet(Refers(f)) /\ Cardinality(Refers(f)) \in Nat
         /\ IsFiniteSet(Holds(f)) /\ Cardinality(Holds(f)) \in Nat
<1>1. IsFiniteSet(Procs) /\ NOFILE \in Nat
  BY FilesConstants, Zenon
<1>2. IsFiniteSet(Fds)
  BY <1>1, FS_Interval DEF Fds
<1>3. IsFiniteSet(Procs \X Fds)
  BY <1>1, <1>2, FS_Product, Zenon
<1>4. Refers(f) \in SUBSET (Procs \X Fds) /\ Holds(f) \in SUBSET Procs
  BY Zenon DEF Refers, Holds
<1> QED
  BY <1>1, <1>3, <1>4, FS_Subset, FS_CardinalityType, Zenon

\* Nothing refers to a file whose count is 0.
LEMMA FreeFile ==
  ASSUME NEW f, Counted(f), ftable[f].ref = 0
  PROVE  Refers(f) = {} /\ Holds(f) = {}
<1>1. Cardinality(Refers(f)) = 0 /\ Cardinality(Holds(f)) = 0
  BY Finite DEF Counted
<1> QED
  BY <1>1, Finite, FS_EmptySet, Zenon

\* A descriptor refers to a file whose count is positive.
LEMMA UsedFile ==
  ASSUME NEW f, Counted(f), NEW x \in Refers(f)
  PROVE  ftable[f].ref \in Nat /\ ftable[f].ref >= 1
<1>1. Cardinality(Refers(f)) # 0
  BY Finite, FS_EmptySet, Zenon
<1> QED
  BY <1>1, Finite DEF Counted

\* The last reference.
LEMMA LastReference ==
  ASSUME NEW f, Counted(f), NEW x \in Refers(f), ftable[f].ref = 1
  PROVE  Refers(f) = {x} /\ Holds(f) = {}
<1>1. Cardinality(Refers(f)) # 0
  BY Finite, FS_EmptySet, Zenon
<1>2. Cardinality(Refers(f)) = 1 /\ Cardinality(Holds(f)) = 0
  BY <1>1, Finite DEF Counted
<1>3. PICK y : Refers(f) = {y}
  BY <1>2, Finite, FS_Singleton, Zenon
<1> QED
  BY <1>2, <1>3, Finite, FS_EmptySet, Zenon

\* The first free entry is a free entry.
LEMMA MinIsMember ==
  ASSUME NEW S \in SUBSET Nat, S # {} PROVE Min(S) \in S
<1> DEFINE R == OpToRel(<, Nat)
<1>1. R = {ss \in Nat \X Nat : ss[1] < ss[2]}
  BY Zenon DEF OpToRel
<1>2. IsWellFoundedOn(R, Nat)
  BY NatLessThanWellFounded, Zenon
<1> HIDE DEF R
<1>3. PICK x \in S : \A y \in S : ~(<<y, x>> \in R)
  BY <1>2, WFMin, Zenon
<1>4. \A y \in S : x <= y
  <2>1. \A y \in Nat : y < x => <<y, x>> \in R
    BY <1>1, Zenon
  <2>2. \A y \in S : y \in Nat /\ ~(y < x)
    BY <1>3, <2>1, Zenon
  <2>3. x \in Nat
    BY Zenon
  <2> QED
    BY <2>2, <2>3
<1> QED
  BY <1>4, Zenon DEF Min

\* filealloc takes a free file, fdalloc a free descriptor.
LEMMA FirstFree ==
  /\ FreeFiles(ftable) # {} => Min(FreeFiles(ftable)) \in FreeFiles(ftable)
  /\ \A p \in Procs : Free(p) # {} => Min(Free(p)) \in Free(p)
  /\ \A p \in Procs : Open(p) # {} => Min(Open(p)) \in Open(p)
  /\ \A p \in Procs : Cardinality(Free(p)) >= 2 =>
       Min(Free(p)) \in Free(p) /\ Min(Free(p) \ {Min(Free(p))}) \in Free(p) \ {Min(Free(p))}
<1>1. Files \subseteq Nat /\ Fds \subseteq Nat /\ NOFILE \in Nat
  BY FilesConstants DEF Files, Fds
<1>2. FreeFiles(ftable) \in SUBSET Nat
  BY <1>1, Zenon DEF FreeFiles
<1>3. \A p \in Procs : Free(p) \in SUBSET Nat /\ Open(p) \in SUBSET Nat /\ Free(p) \in SUBSET Fds
  BY <1>1, Zenon DEF Free, Open
<1>4. ASSUME NEW p \in Procs, Cardinality(Free(p)) >= 2
      PROVE  Min(Free(p)) \in Free(p) /\ Min(Free(p) \ {Min(Free(p))}) \in Free(p) \ {Min(Free(p))}
  <2>1. IsFiniteSet(Free(p))
    <3>1. IsFiniteSet(Fds)
      BY <1>1, FS_Interval DEF Fds
    <3> QED
      BY <1>3, <3>1, FS_Subset, Zenon
  <2>2. Free(p) # {}
    <3>1. Cardinality({}) = 0
      BY FS_EmptySet, Zenon
    <3> QED
      BY <1>4, <3>1
  <2>3. Min(Free(p)) \in Free(p)
    BY <1>3, <2>2, MinIsMember, Zenon
  <2> DEFINE a == Min(Free(p))
  <2> HIDE DEF a
  <2>4. Cardinality(Free(p) \ {a}) = Cardinality(Free(p)) - 1
    BY <2>1, <2>3, FS_RemoveElement, Zenon DEF a
  <2>5. Free(p) \ {a} # {}
    <3>1. Cardinality({}) = 0 /\ Cardinality(Free(p)) \in Nat
      BY <2>1, FS_EmptySet, FS_CardinalityType, Zenon
    <3> QED
      BY <1>4, <2>4, <3>1
  <2>6. Free(p) \ {a} \in SUBSET Nat
    BY <1>3, Zenon
  <2>7. Min(Free(p) \ {a}) \in Free(p) \ {a}
    BY <2>5, <2>6, MinIsMember, Zenon
  <2> QED
    BY <2>3, <2>7, Zenon DEF a
<1> QED
  BY <1>2, <1>3, <1>4, MinIsMember, Zenon
-------------------------------------------------------------------------------
(* Steps that leave the tables of files and descriptors alone. *)

\* What makes an end of a pipe open, before and after a step.
LEMMA EndsAre ==
  ASSUME NEW g, NEW w
  PROVE  /\ Ends(g, w) <=> (\E f \in Files : IsEnd(f, g, w)) \/ (\E p \in Procs : Closes(p, g, w))
         /\ Ends(g, w)' <=> (\E f \in Files : IsEnd(f, g, w)') \/ (\E p \in Procs : Closes(p, g, w)')
BY Zenon DEF Ends, IsEnd, Closes, Closers, Files

\* A process inside piperead, pipewrite or pipeclose works on a pipe whose end
\* is open.
LEMMA InPipe ==
  ASSUME RefInv, EndInv, NEW p \in Procs
  PROVE  /\ NoPage \notin Pages
         /\ th[p].pc \in Readers => th[p].page \in Pages /\ pipe[th[p].page].readopen = TRUE
         /\ th[p].pc \in Writers => th[p].page \in Pages /\ pipe[th[p].page].writeopen = TRUE
         /\ th[p].pc \in Closers => th[p].page \in Pages /\ Ends(th[p].page, th[p].w)
         /\ th[p].page # NoPage => th[p].page \in Pages /\ pipe[th[p].page].free = FALSE
<1>1. Works(p)
  BY Zenon DEF EndInv
<1>2. ASSUME NEW w \in BOOLEAN, Through(p, w)
      PROVE  th[p].page \in Pages /\ Ends(th[p].page, w)
  <2>1. PICK fd \in Fds : ofile[p][fd] # 0 /\ IsEnd(ofile[p][fd], th[p].page, w)
    BY <1>2, Zenon DEF Through
  <2>2. ofile[p][fd] \in Files
    BY <2>1 DEF RefInv, Typed
  <2> QED
    BY <2>1, <2>2, Zenon DEF IsEnd, RefInv, Kind, Ends
<1>3. th[p].pc \in Readers => th[p].page \in Pages /\ pipe[th[p].page].readopen = TRUE
  BY <1>1, <1>2, Zenon DEF Works, EndInv, OpenEnds
<1>4. th[p].pc \in Writers => th[p].page \in Pages /\ pipe[th[p].page].writeopen = TRUE
  BY <1>1, <1>2, Zenon DEF Works, EndInv, OpenEnds
<1>5. th[p].pc \in Closers => th[p].page \in Pages /\ Ends(th[p].page, th[p].w)
  BY <1>1, Zenon DEF Works, Ends, Closers
<1>6. th[p].w \in BOOLEAN /\ \A g \in Pages : pipe[g].free \in BOOLEAN
  BY Zenon DEF RefInv, Typed, Place, Ring
<1>7. th[p].page # NoPage => th[p].page \in Pages /\ pipe[th[p].page].free = FALSE
  <2>1. th[p].page # NoPage => th[p].pc \in Readers \cup Writers \cup Closers
    BY <1>1, Zenon DEF Works
  <2>2. th[p].pc \in Closers => pipe[th[p].page].free = FALSE
    BY <1>5, <1>6, Zenon DEF EndInv, OpenEnds
  <2> QED
    BY <1>3, <1>4, <1>5, <1>6, <2>1, <2>2, Zenon DEF EndInv, OpenEnds
<1>8. NoPage \notin Pages
  BY FilesConstants, Zenon
<1> QED
  BY <1>3, <1>4, <1>5, <1>7, <1>8, Zenon

\* The counts hold if the tables and the calls of sys_pipe are the same.
LEMMA RefFrame ==
  ASSUME RefInv, Typed', UNCHANGED <<ftable, ofile>>,
         \A q \in Procs : /\ th'[q].pc = "pipe2" <=> th[q].pc = "pipe2"
                          /\ th'[q].pc = "pipe2" => th'[q].f = th[q].f,
         \A q \in Procs : Empty(q)'
  PROVE  RefInv'
<1>1. ASSUME NEW f PROVE Refers(f)' = Refers(f) /\ Holds(f)' = Holds(f)
  BY Zenon DEF Refers, Holds
<1>2. \A f \in Files : Counted(f)' /\ Kind(f)'
  BY <1>1, Zenon DEF RefInv, Counted, Kind
<1>3. ASSUME NEW p \in Procs PROVE Holder(p)'
  <2>1. Holder(p)
    BY Zenon DEF RefInv
  <2> QED
    BY <2>1, ZenonT(90) DEF Holder, Files, Fds
<1> QED
  BY <1>2, <1>3, Zenon DEF RefInv

\* The ends hold if the files, the closes and the flags are the same.
LEMMA EndFrame ==
  ASSUME EndInv,
         \A f \in Files : \A g \in Pages, w \in BOOLEAN : IsEnd(f, g, w)' <=> IsEnd(f, g, w),
         \A q \in Procs : \A g \in Pages, w \in BOOLEAN : Closes(q, g, w)' <=> Closes(q, g, w),
         \A g \in Pages : /\ pipe'[g].free = pipe[g].free
                          /\ pipe'[g].readopen = pipe[g].readopen
                          /\ pipe'[g].writeopen = pipe[g].writeopen,
         \A q \in Procs : Works(q)'
  PROVE  EndInv'
<1>1. ASSUME NEW g \in Pages, NEW w \in BOOLEAN PROVE OneEnd(g, w)'
  <2>1. OneEnd(g, w)
    BY Zenon DEF EndInv
  <2>2. (\A f \in Files : IsEnd(f, g, w)' <=> IsEnd(f, g, w)) /\ Files' = Files
    BY Zenon DEF Files
  <2>3. \A q \in Procs : Closes(q, g, w)' <=> Closes(q, g, w)
    BY Zenon
  <2> QED
    BY <2>1, <2>2, <2>3, Zenon DEF OneEnd
<1>2. ASSUME NEW g \in Pages, NEW w \in BOOLEAN PROVE Ends(g, w)' <=> Ends(g, w)
  BY EndsAre, Zenon
<1>3. \A g \in Pages : OpenEnds(g)'
  BY <1>2, Zenon DEF EndInv, OpenEnds
<1> QED
  BY <1>1, <1>3, Zenon DEF EndInv

\* One process moves, and neither takes nor gives back a file or an end.
LEMMA MoveKeeps ==
  ASSUME Inv, NEW p \in Procs, Typed', UNCHANGED <<ftable, ofile, pipe>>,
         \A q \in Procs \ {p} : th'[q] = th[q],
         th[p].pc \notin Closers \cup {"pipe2"}, th'[p].pc \notin Closers \cup {"pipe2"},
         Empty(p)', Works(p)', Asleep(p)'
  PROVE  Inv'
<1>1. \A q \in Procs : q = p \/ th'[q] = th[q]
  BY Zenon
<1>2. \A q \in Procs : Empty(q)'
  BY <1>1, Zenon DEF Inv, RefInv, Empty
<1>3. RefInv'
  <2>1. \A q \in Procs : /\ th'[q].pc = "pipe2" <=> th[q].pc = "pipe2"
                         /\ th'[q].pc = "pipe2" => th'[q].f = th[q].f
    BY <1>1, Zenon
  <2> QED
    BY <1>2, <2>1, RefFrame, Zenon DEF Inv
<1>4. ASSUME NEW q \in Procs PROVE Works(q)'
  <2>1. Works(q)
    BY Zenon DEF Inv, EndInv
  <2>2. CASE th'[q] = th[q]
    <3>1. \A w : Through(q, w)' <=> Through(q, w)
      BY <2>2, Zenon DEF Through, IsEnd, Fds
    <3> QED
      BY <2>1, <2>2, <3>1, Zenon DEF Works, Readers, Writers, Closers
  <2> QED
    BY <1>1, <2>2, Zenon
<1>5. EndInv'
  <2>1. \A q \in Procs : \A g \in Pages, w \in BOOLEAN : Closes(q, g, w)' <=> Closes(q, g, w)
    BY <1>1, Zenon DEF Closes
  <2>2. \A f, g, w : IsEnd(f, g, w)' <=> IsEnd(f, g, w)
    BY Zenon DEF IsEnd
  <2> QED
    BY <1>4, <2>1, <2>2, EndFrame, Zenon DEF Inv
<1>6. \A q \in Procs : Asleep(q)'
  BY <1>1, Zenon DEF Inv, PipeInv, Asleep
<1>7. PipeInv'
  BY <1>6, Zenon DEF Inv, PipeInv
<1> QED
  BY <1>3, <1>5, <1>7, Zenon DEF Inv

\* The types of the state after a step.
LEMMA TypedNext ==
  ASSUME ftable' \in [Files -> Entry], ofile' \in [Procs -> [Fds -> Files \cup {0}]],
         pipe' \in [Pages -> Ring], th' \in [Procs -> Place], killed' \in [Procs -> BOOLEAN]
  PROVE  Typed'
BY Zenon DEF Typed, Files, Fds, Entry, Place, Ring, Counter, Labels, Readers, Writers, Closers

\* A call that fails, or marks a process, changes nothing the invariant reads.
LEMMA StutterKeeps ==
  ASSUME Inv, UNCHANGED <<ftable, ofile, pipe, th>>, killed' \in [Procs -> BOOLEAN]
  PROVE  Inv'
<1>1. Typed'
  BY TypedNext, Zenon DEF Inv, RefInv, Typed
<1>2. RefInv'
  <2>1. \A q \in Procs : Empty(q)'
    BY Zenon DEF Inv, RefInv, Empty, Fds
  <2> QED
    BY <1>1, <2>1, RefFrame, Zenon DEF Inv
<1>3. EndInv'
  <2>1. \A q \in Procs : \A g \in Pages, w \in BOOLEAN : Closes(q, g, w)' <=> Closes(q, g, w)
    BY Zenon DEF Closes, Closers
  <2>2. ASSUME NEW q \in Procs PROVE Works(q)'
    <3>1. Works(q)
      BY Zenon DEF Inv, EndInv
    <3>2. \A w : Through(q, w)' <=> Through(q, w)
      BY Zenon DEF Through, IsEnd, Fds
    <3> QED
      BY <3>1, <3>2, Zenon DEF Works, Readers, Writers, Closers
  <2>3. \A f, g, w : IsEnd(f, g, w)' <=> IsEnd(f, g, w)
    BY Zenon DEF IsEnd
  <2> QED
    BY <2>1, <2>2, <2>3, EndFrame, Zenon DEF Inv
<1>4. PipeInv'
  BY Zenon DEF Inv, PipeInv, Asleep
<1> QED
  BY <1>2, <1>3, <1>4, Zenon DEF Inv

\* exit() begins, or ends with no descriptor left; wait() frees the slot.
LEMMA ExitKeeps ==
  ASSUME Inv, NEW p \in Procs, Exit(p) \/ ExitDone(p) \/ Reap(p)
  PROVE  Inv'
<1>1. th \in [Procs -> Place] /\ Typed
  BY Zenon DEF Inv, RefInv, Typed
<1>2. /\ th[p].pc \in {"user", "exit", "zombie"} /\ th'[p].pc \in {"exit", "zombie", "unused"}
      /\ th'[p].page \in {th[p].page, NoPage} /\ UNCHANGED <<ftable, ofile, pipe>>
      /\ th' \in [Procs -> Place] /\ killed' \in [Procs -> BOOLEAN]
      /\ \A q \in Procs \ {p} : th'[q] = th[q]
      /\ th'[p].pc = "exit" \/ Open(p) = {} \/ th[p].pc = "zombie"
  <2>1. User \in Place /\ Gone \in Place /\ Gone.pc = "unused" /\ Gone.page = NoPage
    BY Zenon DEF Gone, User, Place, Labels
  <2> HIDE DEF Gone
  <2>2. CASE Exit(p)
    BY <1>1, <2>2, ZenonT(90) DEF Exit, Place, Labels, Typed
  <2>3. CASE ExitDone(p)
    BY <1>1, <2>3, ZenonT(90) DEF ExitDone, Place, Labels, Typed
  <2>4. CASE Reap(p)
    BY <1>1, <2>1, <2>4, Zenon DEF Reap, Typed
  <2> QED
    BY <2>2, <2>3, <2>4, Zenon
<1>3. Typed'
  BY <1>1, <1>2, TypedNext, Zenon DEF Typed
<1>4. Empty(p)'
  <2>1. Empty(p)
    BY Zenon DEF Inv, RefInv
  <2> QED
    BY <1>2, <2>1, Zenon DEF Empty, Open, Fds
<1>5. Works(p)' /\ Asleep(p)'
  <2>1. Works(p)
    BY Zenon DEF Inv, EndInv
  <2>2. th'[p].page = NoPage
    BY <1>2, <2>1, Zenon DEF Works, Readers, Writers, Closers
  <2> QED
    BY <1>2, <2>2, Zenon DEF Works, Asleep, Readers, Writers, Closers
<1> QED
  <2>1. th[p].pc \notin Closers \cup {"pipe2"} /\ th'[p].pc \notin Closers \cup {"pipe2"}
    BY <1>2, Zenon DEF Closers
  <2> QED
    BY <1>2, <1>3, <1>4, <1>5, <2>1, MoveKeeps, Zenon

\* kill() marks a process, and wakes it if it sleeps.
LEMMA KillKeeps ==
  ASSUME Inv, NEW p \in Procs, Kill(p)
  PROVE  Inv'
<1>1. th \in [Procs -> Place] /\ Typed
  BY Zenon DEF Inv, RefInv, Typed
<1>2. UNCHANGED <<ftable, ofile, pipe>> /\ killed' \in [Procs -> BOOLEAN]
  BY <1>1, Zenon DEF Kill, Typed
<1>3. CASE th[p].pc \notin {"rsleep", "wsleep"}
  <2>1. th' = th
    BY <1>1, <1>3, Zenon DEF Kill, Place
  <2> QED
    BY <1>2, <2>1, StutterKeeps, Zenon
<1>4. CASE th[p].pc \in {"rsleep", "wsleep"}
  <2>1. /\ th'[p].pc = IF th[p].pc = "rsleep" THEN "read" ELSE "write"
        /\ th'[p].page = th[p].page /\ th'[p].n = th[p].n /\ th'[p].i = th[p].i
        /\ th' \in [Procs -> Place]
        /\ \A q \in Procs \ {p} : th'[q] = th[q]
    BY <1>1, <1>4 DEF Kill, Place, Labels, Readers, Writers
  <2>2. Typed'
    BY <1>1, <1>2, <2>1, TypedNext, Zenon DEF Typed
  <2>3. Empty(p)' /\ Asleep(p)'
    BY <1>4, <2>1, Zenon DEF Empty, Asleep
  <2>4. Works(p)'
    <3>1. Works(p)
      BY Zenon DEF Inv, EndInv
    <3>2. \A w : Through(p, w)' <=> Through(p, w)
      BY <1>2, <2>1, Zenon DEF Through, IsEnd, Fds
    <3> QED
      BY <1>4, <2>1, <3>1, <3>2, Zenon DEF Works, Readers, Writers, Closers
  <2>5. th[p].pc \notin Closers \cup {"pipe2"} /\ th'[p].pc \notin Closers \cup {"pipe2"}
    BY <1>4, <2>1, Zenon DEF Closers
  <2> QED
    BY <1>2, <2>1, <2>2, <2>3, <2>4, <2>5, MoveKeeps, Zenon
<1> QED
  BY <1>3, <1>4, Zenon

\* sys_read and sys_write enter the pipe through a descriptor of the right end.
LEMMA EnterKeeps ==
  ASSUME Inv, NEW p \in Procs, NEW fd \in Fds, NEW n \in Nat, Read(p, fd, n) \/ Write(p, fd, n)
  PROVE  Inv'
<1> DEFINE f == ofile[p][fd]
           l == IF Read(p, fd, n) THEN "read" ELSE "write"
           r == [User EXCEPT !.pc = l, !.page = ftable[f].page, !.n = n]
<1>1. th \in [Procs -> Place] /\ Typed
  BY Zenon DEF Inv, RefInv, Typed
<1>2. /\ UNCHANGED <<ftable, ofile, pipe, killed>> /\ CanCall(p) /\ fd \in Open(p)
      /\ ftable[f].type = "pipe" /\ th' = [th EXCEPT ![p] = r]
      /\ l = "read" => ~ftable[f].writable
      /\ l = "write" => ftable[f].writable
  BY Zenon DEF Read, Write
<1>3. f \in Files /\ f # 0
  BY <1>1, <1>2 DEF Typed, Open, Files
<1>4. ftable[f] \in Entry
  BY <1>1, <1>3, Zenon DEF Typed
<1>5. ftable[f].page \in Pages \cup {NoPage} /\ ftable[f].writable \in BOOLEAN
  BY <1>4, Zenon DEF Entry
<1>6. /\ r \in Place /\ r.pc = l /\ r.page = ftable[f].page /\ r.n = n /\ r.i = 0
  BY <1>5, Zenon DEF User, Place, Labels, Readers, Writers
<1> HIDE DEF r
<1>7. th' \in [Procs -> Place] /\ th'[p] = r /\ \A q \in Procs \ {p} : th'[q] = th[q]
  BY <1>1, <1>2, <1>6, Zenon
<1>8. l \in {"read", "write"} /\ th[p].pc = "user"
  BY <1>2, Zenon DEF CanCall
<1> HIDE DEF l
<1>9. Typed'
  BY <1>1, <1>2, <1>7, TypedNext, Zenon DEF Typed
<1>10. Empty(p)' /\ Asleep(p)'
  BY <1>6, <1>7, <1>8, Zenon DEF Empty, Asleep
<1>11. Works(p)'
  <2>1. \A w \in BOOLEAN : ftable[f].writable = w => Through(p, w)'
    BY <1>2, <1>3, <1>6, <1>7, Zenon DEF Through, IsEnd, Fds
  <2>2. (l = "read" => Through(p, FALSE)') /\ (l = "write" => Through(p, TRUE)')
    BY <1>2, <1>5, <2>1, Zenon
  <2>3. th'[p].i <= th'[p].n
    BY <1>6, <1>7
  <2> QED
    BY <1>6, <1>7, <1>8, <2>2, <2>3, Zenon DEF Works, Readers, Writers, Closers
<1>12. th[p].pc \notin Closers \cup {"pipe2"} /\ th'[p].pc \notin Closers \cup {"pipe2"}
  BY <1>6, <1>7, <1>8, Zenon DEF Closers
<1> QED
  BY <1>2, <1>7, <1>9, <1>10, <1>11, <1>12, MoveKeeps, Zenon

\* sleep() gives up the pipe's lock; what the process found still holds.
LEMMA SleepKeeps ==
  ASSUME Inv, NEW p \in Procs, Sleep(p)
  PROVE  Inv'
<1>1. th \in [Procs -> Place] /\ Typed
  BY Zenon DEF Inv, RefInv, Typed
<1>2. /\ UNCHANGED <<ftable, ofile, pipe, killed>> /\ th[p].pc \in {"rdoze", "wdoze"}
      /\ th'[p].pc = IF th[p].pc = "rdoze" THEN "rsleep" ELSE "wsleep"
      /\ th'[p].page = th[p].page /\ th'[p].n = th[p].n /\ th'[p].i = th[p].i
      /\ th' \in [Procs -> Place]
      /\ \A q \in Procs \ {p} : th'[q] = th[q]
  BY <1>1 DEF Sleep, Place, Labels, Readers, Writers
<1>3. Typed'
  BY <1>1, <1>2, TypedNext, Zenon DEF Typed
<1>4. Empty(p)'
  BY <1>2, Zenon DEF Empty
<1>5. Asleep(p)'
  <2>1. Asleep(p)
    BY Zenon DEF Inv, PipeInv
  <2> QED
    BY <1>2, <2>1, Zenon DEF Asleep, Held, Ahead
<1>6. Works(p)'
  <2>1. Works(p)
    BY Zenon DEF Inv, EndInv
  <2>2. \A w : Through(p, w)' <=> Through(p, w)
    BY <1>2, Zenon DEF Through, IsEnd, Fds
  <2> QED
    BY <1>2, <2>1, <2>2, Zenon DEF Works, Readers, Writers, Closers
<1>7. th[p].pc \notin Closers \cup {"pipe2"} /\ th'[p].pc \notin Closers \cup {"pipe2"}
  BY <1>2, Zenon DEF Closers
<1> QED
  BY <1>2, <1>3, <1>4, <1>5, <1>6, <1>7, MoveKeeps, Zenon
-------------------------------------------------------------------------------
(* Steps inside a pipe, under its lock. *)

\* A process other than the one that steps: it stays, or is woken.
Woken(q) ==
  /\ th'[q].page = th[q].page /\ th'[q].f = th[q].f /\ th'[q].w = th[q].w
  /\ th'[q].n = th[q].n /\ th'[q].i = th[q].i
  /\ \/ th'[q].pc = th[q].pc
     \/ th[q].pc = "rsleep" /\ th'[q].pc = "read"
     \/ th[q].pc = "wsleep" /\ th'[q].pc = "write"

\* wakeup(&p->nread) and wakeup(&p->nwrite).
LEMMA WakeFacts ==
  ASSUME th \in [Procs -> Place], NEW g, NEW p \in Procs, NEW r \in Place,
         NEW t, t = WakeReaders(th, g) \/ t = WakeWriters(th, g),
         th' = [t EXCEPT ![p] = r]
  PROVE  /\ th' \in [Procs -> Place] /\ th'[p] = r
         /\ \A q \in Procs \ {p} : Woken(q)
         /\ \A q \in Procs \ {p} : th[q].page # g => th'[q].pc = th[q].pc
         /\ t = WakeReaders(th, g) =>
              \A q \in Procs \ {p} : ~(th'[q].pc = "rsleep" /\ th'[q].page = g)
         /\ t = WakeWriters(th, g) =>
              \A q \in Procs \ {p} : ~(th'[q].pc = "wsleep" /\ th'[q].page = g)
<1>1. ASSUME NEW q \in Procs
      PROVE  /\ t[q] \in Place /\ t[q].page = th[q].page /\ t[q].f = th[q].f /\ t[q].w = th[q].w
             /\ t[q].n = th[q].n /\ t[q].i = th[q].i
             /\ \/ t[q].pc = th[q].pc
                \/ th[q].pc = "rsleep" /\ t[q].pc = "read" /\ th[q].page = g
                \/ th[q].pc = "wsleep" /\ t[q].pc = "write" /\ th[q].page = g
             /\ t = WakeReaders(th, g) => ~(t[q].pc = "rsleep" /\ t[q].page = g)
             /\ t = WakeWriters(th, g) => ~(t[q].pc = "wsleep" /\ t[q].page = g)
  <2>1. CASE t = WakeReaders(th, g)
    <3>1. t[q] = IF th[q].pc = "rsleep" /\ th[q].page = g THEN [th[q] EXCEPT !.pc = "read"] ELSE th[q]
      BY <2>1, Zenon DEF WakeReaders
    <3>2. th[q] \in Place
      BY Zenon
    <3>3. [th[q] EXCEPT !.pc = "read"] \in Place /\ [th[q] EXCEPT !.pc = "read"].pc = "read"
          /\ [th[q] EXCEPT !.pc = "read"].page = th[q].page /\ [th[q] EXCEPT !.pc = "read"].f = th[q].f
          /\ [th[q] EXCEPT !.pc = "read"].n = th[q].n /\ [th[q] EXCEPT !.pc = "read"].i = th[q].i
          /\ [th[q] EXCEPT !.pc = "read"].w = th[q].w
      BY <3>2, Zenon DEF Place, Labels, Readers
    <3>4. t = WakeWriters(th, g) =>
            t[q] = IF th[q].pc = "wsleep" /\ th[q].page = g THEN [th[q] EXCEPT !.pc = "write"] ELSE th[q]
      BY Zenon DEF WakeWriters
    <3>5. [th[q] EXCEPT !.pc = "write"].pc = "write"
      BY <3>2, Zenon DEF Place
    <3> QED
      BY <2>1, <3>1, <3>2, <3>3, <3>4, <3>5, ZenonT(90)
  <2>2. CASE t = WakeWriters(th, g)
    <3>1. t[q] = IF th[q].pc = "wsleep" /\ th[q].page = g THEN [th[q] EXCEPT !.pc = "write"] ELSE th[q]
      BY <2>2, Zenon DEF WakeWriters
    <3>2. th[q] \in Place
      OBVIOUS
    <3>3. [th[q] EXCEPT !.pc = "write"] \in Place /\ [th[q] EXCEPT !.pc = "write"].pc = "write"
          /\ [th[q] EXCEPT !.pc = "write"].page = th[q].page /\ [th[q] EXCEPT !.pc = "write"].f = th[q].f
          /\ [th[q] EXCEPT !.pc = "write"].n = th[q].n /\ [th[q] EXCEPT !.pc = "write"].i = th[q].i
          /\ [th[q] EXCEPT !.pc = "write"].w = th[q].w
      BY <3>2, Zenon DEF Place, Labels, Writers
    <3>4. t = WakeReaders(th, g) =>
            t[q] = IF th[q].pc = "rsleep" /\ th[q].page = g THEN [th[q] EXCEPT !.pc = "read"] ELSE th[q]
      BY Zenon DEF WakeReaders
    <3>5. [th[q] EXCEPT !.pc = "read"].pc = "read"
      BY <3>2, Zenon DEF Place
    <3> QED
      BY <2>2, <3>1, <3>2, <3>3, <3>4, <3>5, ZenonT(90)
  <2> QED
    BY <2>1, <2>2, Zenon
<1>2. DOMAIN t = Procs /\ t = [q \in Procs |-> t[q]]
  BY Zenon DEF WakeReaders, WakeWriters
<1>3. t \in [Procs -> Place]
  BY <1>1, <1>2, Zenon
<1>4. th' \in [Procs -> Place] /\ th'[p] = r /\ \A q \in Procs \ {p} : th'[q] = t[q]
  BY <1>3, Zenon
<1>5. \A q \in Procs \ {p} : Woken(q)
  BY <1>1, <1>4, Zenon DEF Woken
<1> QED
  BY <1>1, <1>4, <1>5, Zenon

\* A process that stays or is woken keeps its descriptor and its place.
LEMMA WokenKeeps ==
  ASSUME Inv, NEW q \in Procs, Woken(q), UNCHANGED <<ftable, ofile>>
  PROVE  /\ Works(q)' /\ Empty(q)'
         /\ th'[q].pc = "pipe2" <=> th[q].pc = "pipe2"
         /\ th'[q].pc = "pipe2" => th'[q].f = th[q].f
         /\ \A g, w : Closes(q, g, w)' <=> Closes(q, g, w)
<1>1. Works(q) /\ Empty(q)
  BY Zenon DEF Inv, RefInv, EndInv
<1>2. \A w : Through(q, w)' <=> Through(q, w)
  BY Zenon DEF Woken, Through, IsEnd, Fds
<1>3. /\ th'[q].pc \in Readers <=> th[q].pc \in Readers
      /\ th'[q].pc \in Writers <=> th[q].pc \in Writers
      /\ th'[q].pc \in Closers <=> th[q].pc \in Closers
  BY Zenon DEF Woken, Readers, Writers, Closers
<1>4. Works(q)'
  BY <1>1, <1>2, <1>3, Zenon DEF Works, Woken, Readers, Writers, Closers
<1>5. Empty(q)'
  BY <1>1, Zenon DEF Empty, Woken, Fds
<1> QED
  BY <1>3, <1>4, <1>5, Zenon DEF Woken, Closes, Closers

\* p steps on pipe g with the lock free; the flags of the ends stay.
LEMMA LockedKeeps ==
  ASSUME Inv, NEW p \in Procs, NEW g \in Pages, Typed', LockFree(g),
         UNCHANGED <<ftable, ofile>>,
         \A q \in Procs \ {p} : Woken(q),
         \A q \in Procs \ {p} : th[q].page # g => th'[q].pc = th[q].pc,
         \A h \in Pages \ {g} : pipe'[h] = pipe[h],
         pipe'[g].free = pipe[g].free, pipe'[g].readopen = pipe[g].readopen,
         pipe'[g].writeopen = pipe[g].writeopen,
         Stream(pipe'[g]),
         th[p].pc \in Readers \cup Writers, th'[p].pc \in Readers \cup Writers \cup {"user"},
         Works(p)', Asleep(p)',
         \A q \in Procs \ {p} : th[q].page = g /\ th'[q].pc = "wsleep" => Held(pipe'[g]) = PIPESIZE,
         \A q \in Procs \ {p} : th[q].page = g /\ th'[q].pc = "rsleep" =>
                                  Held(pipe'[g]) = 0 \/ pipe'[g].skipped = TRUE
  PROVE  Inv'
<1>1. ASSUME NEW q \in Procs
      PROVE  /\ Works(q)' /\ Empty(q)'
             /\ th'[q].pc = "pipe2" <=> th[q].pc = "pipe2"
             /\ th'[q].pc = "pipe2" => th'[q].f = th[q].f
             /\ \A e, w : Closes(q, e, w)' <=> Closes(q, e, w)
  <2>1. CASE q = p
    BY <2>1, Zenon DEF Empty, Closes, Closers, Readers, Writers
  <2>2. CASE q # p
    BY <2>2, WokenKeeps, Zenon
  <2> QED
    BY <2>1, <2>2, Zenon
<1>2. RefInv'
  BY <1>1, RefFrame, Zenon DEF Inv
<1>3. EndInv'
  <2>1. \A e \in Pages : /\ pipe'[e].free = pipe[e].free
                         /\ pipe'[e].readopen = pipe[e].readopen
                         /\ pipe'[e].writeopen = pipe[e].writeopen
    BY Zenon
  <2>2. \A f, h, w : IsEnd(f, h, w)' <=> IsEnd(f, h, w)
    BY Zenon DEF IsEnd
  <2> QED
    BY <1>1, <2>1, <2>2, EndFrame, Zenon DEF Inv
<1>4. ASSUME NEW e \in Pages, pipe'[e].free = FALSE PROVE Stream(pipe'[e])
  BY <1>4, Zenon DEF Inv, PipeInv
<1>5. ASSUME NEW q \in Procs \ {p} PROVE Asleep(q)'
  <2>1. Asleep(q)
    BY Zenon DEF Inv, PipeInv
  <2>2. CASE th[q].page # g
    <3>1. th'[q].pc = th[q].pc /\ th'[q].page = th[q].page
      BY <2>2, Zenon DEF Woken
    <3>2. CASE th[q].pc \in Readers \cup Writers
      <4>1. th[q].page \in Pages
        BY <3>2, InPipe, Zenon DEF Inv
      <4>2. pipe'[th'[q].page] = pipe[th[q].page]
        BY <2>2, <3>1, <4>1, Zenon
      <4> QED
        BY <2>1, <3>1, <4>2, Zenon DEF Asleep, Held, Ahead
    <3>3. CASE th[q].pc \notin Readers \cup Writers
      BY <3>1, <3>3, Zenon DEF Asleep, Readers, Writers
    <3> QED
      BY <3>2, <3>3, Zenon
  <2>3. CASE th[q].page = g
    <3>1. th[q].pc \notin {"rdoze", "wdoze"}
      BY <2>3, Zenon DEF LockFree
    <3>2. th'[q].pc \notin {"rdoze", "wdoze"} /\ th'[q].page = g
      BY <2>3, <3>1, Zenon DEF Woken
    <3>3. th'[q].pc = "wsleep" => Held(pipe'[g]) = PIPESIZE /\ pipe'[g].readopen = TRUE
      <4>1. th'[q].pc = "wsleep" => th[q].pc = "wsleep"
        BY Zenon DEF Woken
      <4> QED
        BY <2>1, <2>3, <4>1, Zenon DEF Asleep
    <3>4. th'[q].pc = "rsleep" =>
            pipe'[g].writeopen = TRUE /\ (Held(pipe'[g]) = 0 \/ pipe'[g].skipped = TRUE)
      <4>1. th'[q].pc = "rsleep" => th[q].pc = "rsleep"
        BY Zenon DEF Woken
      <4> QED
        BY <2>1, <2>3, <4>1, Zenon DEF Asleep
    <3> QED
      BY <3>2, <3>3, <3>4, Zenon DEF Asleep, Held, Ahead
  <2> QED
    BY <2>2, <2>3, Zenon
<1>6. PipeInv'
  <2>1. \A e \in Pages : pipe'[e].free = FALSE => Stream(pipe[e])'
    BY <1>4, Zenon DEF Stream, Held, Ahead, InSlots
  <2> QED
    BY <1>5, <2>1, Zenon DEF PipeInv
<1> QED
  BY <1>2, <1>3, <1>6, Zenon DEF Inv

\* The smaller of two numbers.
LEMMA MinOfTwo ==
  ASSUME NEW a \in Int, NEW b \in Int
  PROVE  Min({a, b}) = IF a <= b THEN a ELSE b
BY DEF Min

\* The process that ends its call goes back to its program.
LEMMA UserIs == User \in Place /\ User.pc = "user" /\ User.page = NoPage
BY Zenon DEF User, Place, Labels

\* piperead: sleeps on an empty pipe that may still be written to; else takes
\* bytes and wakes the writers.
LEMMA PipereadKeeps ==
  ASSUME Inv, NEW p \in Procs, Piperead(p)
  PROVE  Inv'
<1>g. PICK g : g = th[p].page
  BY Zenon
<1>r. PICK r : r = pipe[g]
  BY Zenon
<1>m. PICK m : m = Min({th[p].n, Buffered(g)})
  BY Zenon
<1>1. th \in [Procs -> Place] /\ pipe \in [Pages -> Ring] /\ Typed
  BY Zenon DEF Inv, RefInv, Typed
<1>2. /\ th[p].pc = "read" /\ LockFree(g) /\ UNCHANGED <<ftable, ofile, killed>>
  BY <1>g, Zenon DEF Piperead
<1>3. g \in Pages /\ r.readopen = TRUE /\ r.free = FALSE
  BY <1>g, <1>r, <1>2, InPipe, Zenon DEF Inv, Readers
<1>4. Works(p) /\ Stream(r) /\ r \in Ring
  BY <1>r, <1>1, <1>3, Zenon DEF Inv, EndInv, PipeInv
<1>5. /\ r.nread \in Counter /\ r.nwrite \in Counter /\ th[p] \in Place /\ th[p].n \in Nat
      /\ r.writeopen \in BOOLEAN
  BY <1>1, <1>4, Zenon DEF Ring, Place
<1>6. CASE r.nread = r.nwrite /\ r.writeopen
  <2>v. PICK v : v = IF killed[p] THEN User ELSE [th[p] EXCEPT !.pc = "rdoze"]
    BY Zenon
  <2>1. th' = [th EXCEPT ![p] = v] /\ pipe' = pipe
    BY <1>g, <1>r, <1>6, <2>v, Zenon DEF Piperead
  <2>2. /\ v \in Place /\ v.pc \in {"user", "rdoze"} /\ (v.pc = "user" => v.page = NoPage)
        /\ v.pc = "rdoze" => v.page = g
    BY <1>g, <1>5, <2>v, UserIs, Zenon DEF Place, Labels, Readers
  <2>3. th' \in [Procs -> Place] /\ th'[p] = v /\ \A q \in Procs \ {p} : th'[q] = th[q]
    BY <1>1, <2>1, <2>2, Zenon
  <2>4. Typed'
    BY <1>1, <1>2, <2>1, <2>3, TypedNext, Zenon DEF Typed
  <2>5. Empty(p)'
    BY <2>2, <2>3, Zenon DEF Empty
  <2>6. Works(p)'
    <3>1. v.page = g => (Through(p, FALSE)' <=> Through(p, FALSE))
      BY <1>g, <1>2, <2>3, Zenon DEF Through, IsEnd, Fds
    <3> QED
      BY <1>g, <1>2, <1>4, <2>2, <2>3, <3>1, Zenon DEF Works, Readers, Writers, Closers
  <2>7. Asleep(p)'
    <3>1. Held(r) = 0
      <4>1. Ahead(r.nwrite, r.nread) = 0
        BY <1>5, <1>6, AheadIs DEF Counter
      <4> QED
        BY <4>1, Zenon DEF Held
    <3>2. r.writeopen = TRUE
      BY <1>5, <1>6, Zenon
    <3> QED
      BY <1>r, <2>1, <2>2, <2>3, <3>1, <3>2, Zenon DEF Asleep, Held, Ahead
  <2>8. th[p].pc \notin Closers \cup {"pipe2"} /\ th'[p].pc \notin Closers \cup {"pipe2"}
    BY <1>2, <2>2, <2>3, Zenon DEF Closers
  <2> QED
    BY <1>2, <2>1, <2>3, <2>4, <2>5, <2>6, <2>7, <2>8, MoveKeeps, Zenon
<1>7. CASE ~(r.nread = r.nwrite /\ r.writeopen)
  <2>1. pipe' = [pipe EXCEPT ![g] = Delivered(g, m)] /\ th' = [WakeWriters(th, g) EXCEPT ![p] = User]
    BY <1>g, <1>r, <1>m, <1>7, Zenon DEF Piperead
  <2>2. Buffered(g) = Held(r) /\ Held(r) = Ahead(r.nwrite, r.nread)
    BY <1>r, Zenon DEF Buffered, Held, Ahead
  <2>3. Held(r) \in Nat
    <3>1. Held(r) \in Counter
      BY <1>5, <2>2, AheadIs, Zenon
    <3> QED
      BY <3>1, Sizes DEF Counter
  <2>4. m \in Nat /\ m <= Held(r)
    <3>1. th[p].n \in Int /\ Held(r) \in Int /\ th[p].n \in Nat
      BY <1>5, <2>3
    <3>2. m = IF th[p].n <= Held(r) THEN th[p].n ELSE Held(r)
      BY <1>m, <2>2, <3>1, MinOfTwo, Zenon
    <3> QED
      BY <2>3, <3>1, <3>2
  <2>v. PICK v : v = Delivered(g, m)
    BY Zenon
  <2>5. /\ (r.nread + m) % WRAP \in Counter
        /\ Ahead(r.nwrite, (r.nread + m) % WRAP) = Held(r) - m
        /\ InSlots(r.data, (r.nread + m) % WRAP, Held(r) - m)
    <3>1. InSlots(r.data, r.nread, Ahead(r.nwrite, r.nread))
      BY <1>4, <2>2, Zenon DEF Stream
    <3>2. m \in Nat /\ m <= Ahead(r.nwrite, r.nread)
      BY <2>2, <2>4, Zenon
    <3>3. /\ (r.nread + m) % WRAP \in Counter
          /\ Ahead(r.nwrite, (r.nread + m) % WRAP) = Ahead(r.nwrite, r.nread) - m
          /\ InSlots(r.data, (r.nread + m) % WRAP, Ahead(r.nwrite, r.nread) - m)
      BY <1>5, <3>1, <3>2, DeliverKeeps, Zenon
    <3> QED
      BY <2>2, <3>3, Zenon
  <2>6. /\ v.nread = (r.nread + m) % WRAP /\ v.got = (r.got + m) % WRAP /\ v.nwrite = r.nwrite
        /\ v.sent = r.sent /\ v.data = r.data /\ v.free = r.free /\ v.readopen = r.readopen
        /\ v.writeopen = r.writeopen /\ v.skipped = r.skipped
    BY <1>r, <1>4, <2>v, Zenon DEF Delivered, Ring
  <2>7. r.got = r.nread /\ r.sent = r.nwrite /\ Held(r) <= PIPESIZE
    BY <1>4, Zenon DEF Stream
  <2>8. v \in Ring
    BY <1>r, <1>4, <2>v, <2>5, <2>7, Zenon DEF Delivered, Ring
  <2>9. Held(v) = Held(r) - m
    BY <2>5, <2>6, Zenon DEF Held
  <2>10. Stream(v)
    <3>1. Held(r) - m <= PIPESIZE
      BY <2>3, <2>4, <2>7, Sizes
    <3> QED
      BY <2>5, <2>6, <2>7, <2>9, <3>1, Zenon DEF Stream
  <2>11. pipe' \in [Pages -> Ring] /\ pipe'[g] = v /\ \A h \in Pages \ {g} : pipe'[h] = pipe[h]
    BY <1>1, <1>3, <2>v, <2>1, <2>8, Zenon
  <2>12. /\ th' \in [Procs -> Place] /\ th'[p] = User
         /\ \A q \in Procs \ {p} : Woken(q)
         /\ \A q \in Procs \ {p} : th[q].page # g => th'[q].pc = th[q].pc
         /\ \A q \in Procs \ {p} : ~(th'[q].pc = "wsleep" /\ th'[q].page = g)
    BY <1>1, <2>1, UserIs, WakeFacts, ZenonT(90)
  <2>13. Typed'
    BY <1>1, <1>2, <2>11, <2>12, TypedNext, Zenon DEF Typed
  <2>14. Works(p)' /\ Asleep(p)'
    BY <2>12, UserIs, Zenon DEF Works, Asleep, Readers, Writers, Closers
  <2>15. ASSUME NEW q \in Procs \ {p}, th[q].page = g, th'[q].pc = "rsleep"
         PROVE  Held(pipe'[g]) = 0 \/ pipe'[g].skipped = TRUE
    <3>1. th[q].pc = "rsleep" /\ Asleep(q)
      BY <2>12, <2>15, Zenon DEF Woken, Inv, PipeInv
    <3>2. Held(r) = 0 \/ r.skipped = TRUE
      BY <1>r, <2>15, <3>1, Zenon DEF Asleep
    <3>3. Held(r) = 0 => Held(v) = 0
      BY <2>3, <2>4, <2>9
    <3> QED
      BY <2>6, <2>11, <3>2, <3>3, Zenon
  <2>16. \A q \in Procs \ {p} : th[q].page = g /\ th'[q].pc = "wsleep" => Held(pipe'[g]) = PIPESIZE
    BY <2>12, Zenon DEF Woken
  <2>17. th[p].pc \in Readers \cup Writers /\ th'[p].pc \in Readers \cup Writers \cup {"user"}
    BY <1>2, <2>12, UserIs, Zenon DEF Readers
  <2> QED
    BY <1>r, <1>2, <1>3, <2>6, <2>10, <2>11, <2>12, <2>13, <2>14, <2>15, <2>16, <2>17, LockedKeeps, Zenon
<1> QED
  BY <1>6, <1>7, Zenon

After(g, m, b) == [Filled(g, m) EXCEPT !.skipped = b]

WroteWell(v, r, m, b) ==
  /\ v \in Ring /\ Stream(v) /\ Held(v) = Held(r) + m /\ v.skipped = b
  /\ v.free = r.free /\ v.readopen = r.readopen /\ v.writeopen = r.writeopen

\* The ring after pipewrite's loop has written m bytes.
LEMMA FilledIs ==
  ASSUME NEW g \in Pages, pipe[g] \in Ring, Stream(pipe[g]), NEW m \in Nat,
         Held(pipe[g]) + m <= PIPESIZE, NEW b \in BOOLEAN
  PROVE  WroteWell(After(g, m, b), pipe[g], m, b)
<1>v. PICK v : v = After(g, m, b)
  BY Zenon
<1>r. PICK r : r = pipe[g]
  BY Zenon
<1> DEFINE Js(k) == {j \in 0 .. m - 1 : (r.nwrite + j) % PIPESIZE = k}
<1>d. PICK d : d = [k \in 0 .. PIPESIZE - 1 |->
                      IF Js(k) = {} THEN r.data[k] ELSE (r.sent + Max(Js(k))) % WRAP]
  BY Zenon
<1>1. Filled(g, m) = [r EXCEPT !.data = d, !.nwrite = (r.nwrite + m) % WRAP, !.sent = (r.sent + m) % WRAP]
  BY <1>r, <1>d, Zenon DEF Filled
<1>2. /\ r \in Ring /\ Stream(r) /\ Held(r) = Ahead(r.nwrite, r.nread)
      /\ Held(r) + m <= PIPESIZE /\ r.sent = r.nwrite /\ r.got = r.nread
      /\ InSlots(r.data, r.nread, Held(r))
  BY <1>r, Zenon DEF Stream, Held
<1>3. r.nread \in Counter /\ r.nwrite \in Counter /\ r.data \in [0 .. PIPESIZE - 1 -> Nat]
  BY <1>2, Zenon DEF Ring
<1>4. Held(r) \in Counter
  BY <1>2, <1>3, AheadIs, Zenon
<1>5. m \in 0 .. PIPESIZE /\ r.nwrite \in Nat
  BY <1>2, <1>3, <1>4, Sizes DEF Counter
<1>6. ASSUME NEW k \in 0 .. PIPESIZE - 1
      PROVE  d[k] = IF Js(k) = {} THEN r.data[k] ELSE (r.nwrite + Max(Js(k))) % WRAP
  BY <1>d, <1>2, Zenon
<1>7. d \in [0 .. PIPESIZE - 1 -> Nat]
  <2>1. ASSUME NEW k \in 0 .. PIPESIZE - 1 PROVE d[k] \in Nat
    <3>1. CASE Js(k) = {}
      BY <1>3, <1>6, <3>1, Zenon
    <3>2. CASE Js(k) # {}
      <4>1. PICK i \in 0 .. m - 1 : (r.nwrite + i) % PIPESIZE = k
        BY <3>2, Zenon
      <4>2. Max(Js(k)) = i
        BY <1>5, <4>1, OneByteEach, ZenonT(90)
      <4>3. d[k] = (r.nwrite + i) % WRAP
        BY <1>6, <3>2, <4>2, Zenon
      <4>4. r.nwrite + i \in Nat
        BY <1>5
      <4>5. (r.nwrite + i) % WRAP \in Nat
        BY <4>4, Sizes
      <4> QED
        BY <4>3, <4>5, Zenon
    <3> QED
      BY <3>1, <3>2, Zenon
  <2> QED
    BY <1>d, <2>1, Zenon
<1>8. /\ (r.nwrite + m) % WRAP \in Counter
      /\ Ahead((r.nwrite + m) % WRAP, r.nread) = Held(r) + m
      /\ InSlots(d, r.nread, Held(r) + m)
  <2>1. Ahead(r.nwrite, r.nread) + m <= PIPESIZE /\ InSlots(r.data, r.nread, Ahead(r.nwrite, r.nread))
    BY <1>2, Zenon
  <2>2. Wrote(d, r.data, r.nwrite, m)
    BY <1>6, Zenon DEF Wrote
  <2>3. /\ (r.nwrite + m) % WRAP \in Counter
        /\ Ahead((r.nwrite + m) % WRAP, r.nread) = Ahead(r.nwrite, r.nread) + m
        /\ InSlots(d, r.nread, Ahead(r.nwrite, r.nread) + m)
    BY <1>3, <2>1, <2>2, FillKeeps, Zenon
  <2> QED
    BY <1>2, <2>3, Zenon
<1> HIDE DEF Js
<1>9. /\ v \in Ring /\ v.data = d /\ v.nwrite = (r.nwrite + m) % WRAP /\ v.sent = (r.sent + m) % WRAP
      /\ v.nread = r.nread /\ v.got = r.got /\ v.skipped = b
      /\ v.free = r.free /\ v.readopen = r.readopen /\ v.writeopen = r.writeopen
  <2>c. PICK c : c = (r.nwrite + m) % WRAP
    BY Zenon
  <2>1. v = [[r EXCEPT !.data = d, !.nwrite = c, !.sent = c] EXCEPT !.skipped = b] /\ c \in Counter
    BY <1>v, <1>1, <1>2, <1>8, <2>c, Zenon DEF After
  <2>2. /\ v \in Ring /\ v.data = d /\ v.nwrite = c /\ v.sent = c
        /\ v.nread = r.nread /\ v.got = r.got /\ v.skipped = b
        /\ v.free = r.free /\ v.readopen = r.readopen /\ v.writeopen = r.writeopen
    BY <1>2, <1>7, <2>1, Zenon DEF Ring
  <2> QED
    BY <1>2, <2>2, <2>c, Zenon
<1>10. Held(v) = Held(r) + m
  BY <1>8, <1>9, Zenon DEF Held
<1> QED
  BY <1>r, <1>v, <1>2, <1>8, <1>9, <1>10, Zenon DEF Stream, WroteWell

\* pipewrite: copies what fits and wakes the readers; sleeps on a full pipe,
\* or gives up.
LEMMA PipewriteKeeps ==
  ASSUME Inv, NEW p \in Procs, Pipewrite(p)
  PROVE  Inv'
<1>g. PICK g : g = th[p].page
  OBVIOUS
<1>r. PICK r : r = pipe[g]
  OBVIOUS
<1>m. PICK m : m = Min({th[p].n - th[p].i, Room(g)})
  BY Zenon
<1>i. PICK i : i = th[p].i + m
  BY Zenon
<1>1. th \in [Procs -> Place] /\ pipe \in [Pages -> Ring] /\ Typed
  BY Zenon DEF Inv, RefInv, Typed
<1>2. /\ th[p].pc = "write" /\ LockFree(g) /\ UNCHANGED <<ftable, ofile, killed>>
  BY <1>g, Zenon DEF Pipewrite
<1>3. g \in Pages /\ r.free = FALSE
  BY <1>g, <1>r, <1>2, InPipe, Zenon DEF Inv, Writers
<1>4. Works(p) /\ Stream(r) /\ r \in Ring
  BY <1>r, <1>1, <1>3, Zenon DEF Inv, EndInv, PipeInv
<1>5. /\ r.nread \in Counter /\ r.nwrite \in Counter /\ th[p] \in Place
      /\ th[p].n \in Nat /\ th[p].i \in Nat /\ r.readopen \in BOOLEAN
  BY <1>1, <1>4, Zenon DEF Ring, Place
<1>6. th[p].i <= th[p].n /\ Through(p, TRUE)
  BY <1>2, <1>4, Zenon DEF Works, Writers
<1>7. /\ Held(r) \in Nat /\ Held(r) <= PIPESIZE /\ Room(g) = PIPESIZE - Held(r)
  <2>1. Buffered(g) = Held(r) /\ Held(r) = Ahead(r.nwrite, r.nread) /\ Held(r) <= PIPESIZE
    BY <1>r, <1>4, Zenon DEF Buffered, Held, Ahead, Stream
  <2>2. Held(r) \in Counter
    <3>1. Ahead(r.nwrite, r.nread) \in Counter
      BY <1>5, AheadIs, Zenon
    <3> QED
      BY <2>1, <3>1, Zenon
  <2>3. Held(r) \in Nat
    BY <2>2, Sizes DEF Counter
  <2> QED
    BY <2>1, <2>3, Zenon DEF Room
<1>8. /\ m \in Nat /\ Held(r) + m <= PIPESIZE /\ i \in Nat /\ i <= th[p].n
      /\ i < th[p].n => Held(r) + m = PIPESIZE
  <2>1. th[p].n - th[p].i \in Int /\ PIPESIZE - Held(r) \in Int
    BY <1>5, <1>7, Sizes
  <2>2. m = IF th[p].n - th[p].i <= PIPESIZE - Held(r) THEN th[p].n - th[p].i ELSE PIPESIZE - Held(r)
    BY <1>m, <1>7, <2>1, MinOfTwo, ZenonT(90)
  <2> QED
    BY <1>i, <1>5, <1>6, <1>7, <2>2, Sizes
<1>9. PICK b \in BOOLEAN, z \in Place :
        /\ pipe' = [pipe EXCEPT ![g] = After(g, m, b)]
        /\ \/ z = User
           \/ z = [th[p] EXCEPT !.pc = "wdoze", !.i = i] /\ i < th[p].n /\ r.readopen
        /\ \/ th' = [th EXCEPT ![p] = z] /\ b = TRUE
           \/ th' = [WakeReaders(th, g) EXCEPT ![p] = z]
  <2>1. [th[p] EXCEPT !.pc = "wdoze", !.i = i] \in Place
    BY <1>5, <1>8, Zenon DEF Place, Labels, Writers
  <2>2. CASE i < th[p].n /\ (~pipe[g].readopen \/ killed[p])
    <3>1. /\ th' = [th EXCEPT ![p] = User]
          /\ pipe' = [pipe EXCEPT ![g] = After(g, m, TRUE)]
      BY <1>g, <1>m, <1>i, <2>2, Zenon DEF Pipewrite, After
    <3> QED
      BY <3>1, UserIs, Zenon
  <2>3. CASE ~(i < th[p].n /\ (~pipe[g].readopen \/ killed[p]))
    <3>1. WakeReaders(th, g)[p] = th[p]
      BY <1>2, Zenon DEF WakeReaders
    <3>2. /\ th' = [WakeReaders(th, g) EXCEPT
                      ![p] = IF i = th[p].n THEN User
                             ELSE [WakeReaders(th, g)[p] EXCEPT !.pc = "wdoze", !.i = i]]
          /\ pipe' = [pipe EXCEPT ![g] = After(g, m, FALSE)]
      BY <1>g, <1>m, <1>i, <2>3, Zenon DEF Pipewrite, After
    <3>3. i # th[p].n => i < th[p].n
      BY <1>5, <1>8
    <3> QED
      BY <1>r, <2>1, <2>3, <3>1, <3>2, <3>3, UserIs, Zenon
  <2> QED
    BY <2>2, <2>3, Zenon
<1>v. PICK v : v = After(g, m, b)
  BY Zenon
<1>10. /\ v \in Ring /\ Stream(v) /\ Held(v) = Held(r) + m /\ v.skipped = b
       /\ v.free = r.free /\ v.readopen = r.readopen /\ v.writeopen = r.writeopen
  <2>1. pipe[g] \in Ring /\ Stream(pipe[g]) /\ Held(pipe[g]) + m <= PIPESIZE /\ m \in Nat
    BY <1>r, <1>4, <1>8, Zenon
  <2>2. WroteWell(After(g, m, b), pipe[g], m, b)
    BY <1>3, <2>1, FilledIs, Zenon
  <2> QED
    BY <1>r, <1>v, <2>2, Zenon DEF WroteWell
<1>11. pipe' \in [Pages -> Ring] /\ pipe'[g] = v /\ \A h \in Pages \ {g} : pipe'[h] = pipe[h]
  BY <1>v, <1>1, <1>3, <1>9, <1>10, Zenon
<1>12. /\ th' \in [Procs -> Place] /\ th'[p] = z
       /\ \A q \in Procs \ {p} : Woken(q)
       /\ \A q \in Procs \ {p} : th[q].page # g => th'[q].pc = th[q].pc
       /\ b = TRUE \/ \A q \in Procs \ {p} : ~(th'[q].pc = "rsleep" /\ th'[q].page = g)
  <2>1. CASE th' = [th EXCEPT ![p] = z] /\ b = TRUE
    <3>1. th' \in [Procs -> Place] /\ th'[p] = z /\ \A q \in Procs \ {p} : th'[q] = th[q]
      BY <1>1, <2>1, Zenon
    <3> QED
      BY <2>1, <3>1, Zenon DEF Woken
  <2>2. CASE th' = [WakeReaders(th, g) EXCEPT ![p] = z]
    <3>1. PICK t : t = WakeReaders(th, g)
      BY Zenon
    <3>2. th' = [t EXCEPT ![p] = z]
      BY <2>2, <3>1, Zenon
    <3>3. th \in [Procs -> Place]
      BY <1>1, Zenon
    <3> QED
      BY <3>1, <3>2, <3>3, WakeFacts, ZenonT(90)
  <2> QED
    BY <1>9, <2>1, <2>2, Zenon
<1>13. Typed'
  BY <1>1, <1>2, <1>11, <1>12, TypedNext, Zenon DEF Typed
<1>14. \/ z.pc = "user" /\ z.page = NoPage
       \/ z.pc = "wdoze" /\ z.page = g /\ z.i = i /\ z.n = th[p].n /\ i < th[p].n /\ r.readopen = TRUE
  <2>1. CASE z = User
    BY <2>1, UserIs, Zenon
  <2>2. CASE z = [th[p] EXCEPT !.pc = "wdoze", !.i = i] /\ i < th[p].n /\ r.readopen
    <3>1. z.pc = "wdoze" /\ z.page = th[p].page /\ z.i = i /\ z.n = th[p].n
      BY <1>5, <2>2, Zenon DEF Place
    <3> QED
      BY <1>g, <1>5, <2>2, <3>1, Zenon
  <2> QED
    BY <1>9, <2>1, <2>2, Zenon
<1>15. Works(p)'
  <2>1. z.page = g => Through(p, TRUE)'
    BY <1>g, <1>2, <1>6, <1>12, Zenon DEF Through, IsEnd, Fds
  <2>2. z.pc = "wdoze" => z.i <= z.n
    BY <1>8, <1>14, Zenon
  <2> QED
    BY <1>12, <1>14, <2>1, <2>2, Zenon DEF Works, Readers, Writers, Closers
<1>16. Asleep(p)'
  <2>1. z.pc = "wdoze" => Held(v) = PIPESIZE
    BY <1>8, <1>10, <1>14, Zenon
  <2> QED
    BY <1>10, <1>11, <1>12, <1>14, <2>1, Zenon DEF Asleep, Held, Ahead
<1>17. ASSUME NEW q \in Procs \ {p}, th[q].page = g, th'[q].pc = "wsleep"
       PROVE  Held(pipe'[g]) = PIPESIZE
  <2>1. th[q].pc = "wsleep" /\ Asleep(q)
    BY <1>12, <1>17, Zenon DEF Woken, Inv, PipeInv
  <2>2. Held(r) = PIPESIZE
    BY <1>r, <1>17, <2>1, Zenon DEF Asleep
  <2>3. Held(r) + m = PIPESIZE
    BY <1>7, <1>8, <2>2
  <2> QED
    BY <1>10, <1>11, <2>3, Zenon
<1>18. ASSUME NEW q \in Procs \ {p}, th[q].page = g, th'[q].pc = "rsleep"
       PROVE  Held(pipe'[g]) = 0 \/ pipe'[g].skipped = TRUE
  <2>1. th'[q].page = g
    BY <1>12, <1>18, Zenon DEF Woken
  <2>2. b = TRUE
    BY <1>12, <1>18, <2>1, Zenon
  <2> QED
    BY <1>10, <1>11, <2>2, Zenon
<1>19. th[p].pc \in Readers \cup Writers /\ th'[p].pc \in Readers \cup Writers \cup {"user"}
  BY <1>2, <1>12, <1>14, Zenon DEF Writers
<1> QED
  BY <1>r, <1>2, <1>3, <1>10, <1>11, <1>12, <1>13, <1>15, <1>16, <1>17, <1>18, <1>19, LockedKeeps, Zenon

\* pipeclose: the end is closed for good, nobody sleeps on it, and whoever
\* waits for the other end is woken.
LEMMA PipecloseKeeps ==
  ASSUME Inv, NEW p \in Procs, Pipeclose(p)
  PROVE  Inv'
<1>g. PICK g : g = th[p].page
  OBVIOUS
<1>w. PICK w : w = th[p].w
  BY Zenon
<1>r. PICK r : r = pipe[g]
  OBVIOUS
<1>c. PICK c : c = ClosedEnd(g, w)
  OBVIOUS
<1>v. PICK v : v = IF ~c.readopen /\ ~c.writeopen THEN Freed ELSE c
  BY Zenon
<1>z. PICK z : z = IF th[p].pc = "pclose" THEN User ELSE BackToExit.done
  BY Zenon
<1>1. th \in [Procs -> Place] /\ pipe \in [Pages -> Ring] /\ Typed
  BY Zenon DEF Inv, RefInv, Typed
<1>2. /\ th[p].pc \in {"pclose", "xpclose"} /\ LockFree(g) /\ UNCHANGED <<ftable, ofile, killed>>
      /\ pipe' = [pipe EXCEPT ![g] = v]
      /\ th' = [WokenByClose(th, g, w) EXCEPT ![p] = z]
  BY <1>g, <1>w, <1>c, <1>v, <1>z, Zenon DEF Pipeclose
<1>3. /\ g \in Pages /\ Closes(p, g, w) /\ r.free = FALSE
  <2>1. NoPage \notin Pages /\ g \in Pages
    BY <1>g, <1>2, InPipe, Zenon DEF Inv, Closers
  <2> QED
    BY <1>g, <1>w, <1>r, <1>2, <2>1, InPipe, Zenon DEF Inv, Closes, Closers
<1>4. w \in BOOLEAN /\ r \in Ring /\ Stream(r)
  <2>1. w \in BOOLEAN
    BY <1>w, <1>1, Zenon DEF Place
  <2> QED
    BY <1>r, <1>1, <1>3, <2>1, Zenon DEF Inv, PipeInv
<1>5. /\ c \in Ring /\ c.free = FALSE
      /\ c.nread = r.nread /\ c.nwrite = r.nwrite /\ c.data = r.data /\ c.sent = r.sent /\ c.got = r.got
      /\ w = TRUE => c.writeopen = FALSE /\ c.readopen = r.readopen
      /\ w = FALSE => c.readopen = FALSE /\ c.writeopen = r.writeopen
  <2>1. CASE w = TRUE
    <3>1. c = [r EXCEPT !.writeopen = FALSE, !.skipped = FALSE]
      BY <1>c, <1>r, <2>1, Zenon DEF ClosedEnd
    <3> QED
      BY <1>3, <1>4, <2>1, <3>1, Zenon DEF Ring
  <2>2. CASE w = FALSE
    <3>1. c = [r EXCEPT !.readopen = FALSE]
      BY <1>c, <1>r, <2>2, Zenon DEF ClosedEnd
    <3> QED
      BY <1>3, <1>4, <2>2, <3>1, Zenon DEF Ring
  <2> QED
    BY <1>4, <2>1, <2>2, Zenon
<1>6. c.readopen \in BOOLEAN /\ c.writeopen \in BOOLEAN
  BY <1>5, Zenon DEF Ring
<1>7. /\ Freed \in Ring /\ Freed.free = TRUE /\ Freed.readopen = FALSE /\ Freed.writeopen = FALSE
  <2>1. [k \in 0 .. PIPESIZE - 1 |-> 0] \in [0 .. PIPESIZE - 1 -> Nat] /\ 0 \in Counter
    BY Sizes DEF Counter
  <2> QED
    BY <2>1, Zenon DEF Freed, Ring
<1>8. /\ v \in Ring /\ v.readopen = c.readopen /\ v.writeopen = c.writeopen
      /\ v.free = TRUE <=> v.readopen = FALSE /\ v.writeopen = FALSE
      /\ v.free = FALSE => v = c
  <2>1. CASE c.readopen = FALSE /\ c.writeopen = FALSE
    <3>1. v = Freed
      BY <1>v, <2>1, Zenon
    <3> QED
      BY <1>7, <2>1, <3>1, Zenon
  <2>2. CASE c.readopen = TRUE \/ c.writeopen = TRUE
    <3>1. v = c
      BY <1>v, <2>2, Zenon
    <3> QED
      BY <1>5, <2>2, <3>1, Zenon
  <2> QED
    BY <1>6, <2>1, <2>2, Zenon
<1>9. pipe' \in [Pages -> Ring] /\ pipe'[g] = v /\ \A h \in Pages \ {g} : pipe'[h] = pipe[h]
  BY <1>1, <1>2, <1>3, <1>8, Zenon
<1>10. z \in Place /\ z.pc \in {"user", "exit"} /\ z.page = NoPage
  <2>1. [User EXCEPT !.pc = "exit"] \in Place /\ [User EXCEPT !.pc = "exit"].pc = "exit"
        /\ [User EXCEPT !.pc = "exit"].page = NoPage
    BY Zenon DEF User, Place, Labels
  <2>2. BackToExit.done = [User EXCEPT !.pc = "exit"]
    BY Zenon DEF BackToExit
  <2> QED
    BY <1>z, <2>1, <2>2, UserIs, Zenon
<1>11. /\ th' \in [Procs -> Place] /\ th'[p] = z
       /\ \A q \in Procs \ {p} : Woken(q)
       /\ \A q \in Procs \ {p} : th[q].page # g => th'[q].pc = th[q].pc
       /\ w = TRUE => \A q \in Procs \ {p} : ~(th'[q].pc = "rsleep" /\ th'[q].page = g)
       /\ w = FALSE => \A q \in Procs \ {p} : ~(th'[q].pc = "wsleep" /\ th'[q].page = g)
  <2>1. CASE w = TRUE
    <3>1. th' = [WakeReaders(th, g) EXCEPT ![p] = z]
      BY <1>2, <2>1, Zenon DEF WokenByClose
    <3> QED
      BY <1>1, <1>10, <2>1, <3>1, WakeFacts, ZenonT(90)
  <2>2. CASE w = FALSE
    <3>1. th' = [WakeWriters(th, g) EXCEPT ![p] = z]
      BY <1>2, <2>2, Zenon DEF WokenByClose
    <3> QED
      BY <1>1, <1>10, <2>2, <3>1, WakeFacts, ZenonT(90)
  <2> QED
    BY <1>4, <2>1, <2>2, Zenon
<1>12. Typed'
  BY <1>1, <1>2, <1>9, <1>11, TypedNext, Zenon DEF Typed
<1>13. ASSUME NEW q \in Procs
       PROVE  /\ Works(q)' /\ Empty(q)'
              /\ th'[q].pc = "pipe2" <=> th[q].pc = "pipe2"
              /\ th'[q].pc = "pipe2" => th'[q].f = th[q].f
  <2>1. CASE q = p
    BY <1>2, <1>10, <1>11, <2>1, Zenon DEF Works, Empty, Readers, Writers, Closers
  <2>2. CASE q # p
    BY <1>2, <1>11, <2>2, WokenKeeps, Zenon
  <2> QED
    BY <2>1, <2>2, Zenon
<1>14. RefInv'
  BY <1>2, <1>12, <1>13, RefFrame, Zenon DEF Inv
<1>15. \A f, h, x : IsEnd(f, h, x)' <=> IsEnd(f, h, x)
  BY <1>2, Zenon DEF IsEnd
<1>16. \A q \in Procs : \A h, x : Closes(q, h, x)' <=> Closes(q, h, x) /\ q # p
  <2>1. \A h, x : ~Closes(p, h, x)'
    BY <1>10, <1>11, Zenon DEF Closes, Closers
  <2>2. \A q \in Procs \ {p} : \A h, x : Closes(q, h, x)' <=> Closes(q, h, x)
    BY <1>2, <1>11, WokenKeeps, Zenon
  <2> QED
    BY <2>1, <2>2, Zenon
<1>17. ASSUME NEW h \in Pages, NEW x \in BOOLEAN PROVE OneEnd(h, x)'
  <2>1. OneEnd(h, x)
    BY Zenon DEF Inv, EndInv
  <2> QED
    BY <1>15, <1>16, <2>1, Zenon DEF OneEnd, Files
<1>18. OneEnd(g, w)
  BY <1>3, <1>4, Zenon DEF Inv, EndInv
<1>19. ASSUME NEW h \in Pages PROVE OpenEnds(h)'
  <2>1. OpenEnds(h)
    BY Zenon DEF Inv, EndInv
  <2>2. \A x : ~(h = g /\ x = w) => (Ends(h, x)' <=> Ends(h, x))
    <3>1. ASSUME NEW x, ~(h = g /\ x = w) PROVE ~Closes(p, h, x)
      BY <1>g, <1>w, <3>1, Zenon DEF Closes
    <3> QED
      BY <1>15, <1>16, <3>1, EndsAre, Zenon
  <2>3. ~Ends(g, w)'
    BY <1>3, <1>15, <1>16, <1>18, EndsAre, Zenon DEF OneEnd
  <2>4. CASE h # g
    <3>1. pipe'[h] = pipe[h]
      BY <1>9, <2>4, Zenon
    <3> QED
      BY <2>1, <2>2, <2>4, <3>1, Zenon DEF OpenEnds
  <2>5. CASE h = g
    <3>1. pipe'[h].readopen = TRUE <=> Ends(h, FALSE)'
      <4>1. CASE w = FALSE
        BY <1>5, <1>8, <1>9, <2>3, <2>5, <4>1, Zenon
      <4>2. CASE w = TRUE
        BY <1>r, <1>5, <1>8, <1>9, <2>1, <2>2, <2>5, <4>2, Zenon DEF OpenEnds
      <4> QED
        BY <1>4, <4>1, <4>2, Zenon
    <3>2. pipe'[h].writeopen = TRUE <=> Ends(h, TRUE)'
      <4>1. CASE w = TRUE
        BY <1>5, <1>8, <1>9, <2>3, <2>5, <4>1, Zenon
      <4>2. CASE w = FALSE
        BY <1>r, <1>5, <1>8, <1>9, <2>1, <2>2, <2>5, <4>2, Zenon DEF OpenEnds
      <4> QED
        BY <1>4, <4>1, <4>2, Zenon
    <3> QED
      BY <1>8, <1>9, <2>5, <3>1, <3>2, Zenon DEF OpenEnds
  <2> QED
    BY <2>4, <2>5, Zenon
<1>20. EndInv'
  BY <1>13, <1>17, <1>19, Zenon DEF EndInv
<1>21. ASSUME NEW h \in Pages, pipe'[h].free = FALSE PROVE Stream(pipe'[h])
  <2>1. CASE h = g
    <3>1. pipe'[h] = c
      BY <1>8, <1>9, <1>21, <2>1, Zenon
    <3> QED
      BY <1>4, <1>5, <3>1, Zenon DEF Stream, Held, Ahead, InSlots
  <2>2. CASE h # g
    BY <1>9, <1>21, <2>2, Zenon DEF Inv, PipeInv
  <2> QED
    BY <2>1, <2>2, Zenon
<1>22. ASSUME NEW q \in Procs PROVE Asleep(q)'
  <2>1. CASE q = p
    BY <1>10, <1>11, <2>1, Zenon DEF Asleep
  <2>2. CASE q # p /\ th[q].page # g
    <3>1. th'[q].pc = th[q].pc /\ th'[q].page = th[q].page /\ Asleep(q)
      BY <1>11, <2>2, Zenon DEF Woken, Inv, PipeInv
    <3>2. CASE th[q].pc \in Readers \cup Writers
      <4>1. th[q].page \in Pages
        BY <3>2, InPipe, Zenon DEF Inv
      <4>2. pipe'[th'[q].page] = pipe[th[q].page]
        BY <1>9, <2>2, <3>1, <4>1, Zenon
      <4> QED
        BY <3>1, <4>2, Zenon DEF Asleep, Held, Ahead
    <3>3. CASE th[q].pc \notin Readers \cup Writers
      BY <3>1, <3>3, Zenon DEF Asleep, Readers, Writers
    <3> QED
      BY <3>2, <3>3, Zenon
  <2>3. CASE q # p /\ th[q].page = g
    <3>1. th[q].pc \notin {"rdoze", "wdoze"} /\ Woken(q)
      BY <1>2, <1>11, <2>3, Zenon DEF LockFree
    <3>2. ASSUME Through(q, w) PROVE FALSE
      <4>1. PICK fd \in Fds : ofile[q][fd] # 0 /\ IsEnd(ofile[q][fd], g, w)
        BY <2>3, <3>2, Zenon DEF Through
      <4>2. ofile[q][fd] \in Files
        BY <1>1, <4>1 DEF Typed
      <4> QED
        BY <1>3, <1>18, <4>1, <4>2, Zenon DEF OneEnd
    <3>3. th'[q].pc \notin {"rsleep", "wsleep", "rdoze", "wdoze"}
      <4>1. Works(q)
        BY Zenon DEF Inv, EndInv
      <4>2. CASE w = TRUE
        <5>1. th[q].pc # "wsleep"
          BY <3>2, <4>1, <4>2, Zenon DEF Works, Writers
        <5> QED
          BY <1>11, <2>3, <3>1, <4>2, <5>1, Zenon DEF Woken
      <4>3. CASE w = FALSE
        <5>1. th[q].pc # "rsleep"
          BY <3>2, <4>1, <4>3, Zenon DEF Works, Readers
        <5> QED
          BY <1>11, <2>3, <3>1, <4>3, <5>1, Zenon DEF Woken
      <4> QED
        BY <1>4, <4>2, <4>3, Zenon
    <3> QED
      BY <3>3, Zenon DEF Asleep
  <2> QED
    BY <2>1, <2>2, <2>3, Zenon
<1>23. PipeInv'
  <2>1. \A h \in Pages : pipe'[h].free = FALSE => Stream(pipe[h])'
    BY <1>21, Zenon DEF Stream, Held, Ahead, InSlots
  <2> QED
    BY <1>22, <2>1, Zenon DEF PipeInv
<1> QED
  BY <1>14, <1>20, <1>23, Zenon DEF Inv
===============================================================================
