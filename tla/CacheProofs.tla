----------------------------- MODULE CacheProofs ------------------------------
(***************************************************************************)
(* What holds of bio.c, sleeplock.c and ide.c for every number of          *)
(* processes, buffers and blocks: whoever sleeps has someone to wake it,   *)
(* bget finds a buffer if there are enough, and the cache implements       *)
(* AtomicBlocks.                                                           *)
(***************************************************************************)
EXTENDS BufferCache, Integers, FiniteSetTheorems, TLAPS

HasLock == {"locked", "held", "sleep_ide", "ide"}
Places  == {"idle", "panic", "acquire", "sleep_lock", "brelse"} \cup HasLock

Buffer == [blockno : Sectors \cup {NoSector}, refcnt : Nat, valid : BOOLEAN,
           dirty : BOOLEAN, pid : Users \cup {NoProc}, data : Values]

Typed ==
  /\ buf \in [Bufs -> Buffer]
  /\ lru \in [Bufs -> Bufs]
  /\ idequeue \in Seq(Bufs)
  /\ platter \in [Sectors -> Values]
  /\ at \in [Users -> Places]
  /\ cur \in [Users -> Bufs \cup {0}]

\* Every buffer is in the list.
Listed == \A i \in Bufs : \E k \in Bufs : lru[k] = i

\* refcnt is the number of processes between bget and the end of brelse.
Sharers(f, i) == {p \in Users : f[p] = i}
Idle(p) == cur[p] = 0 <=> at[p] = "idle" \/ at[p] = "panic"
Counted(i) == buf[i].refcnt = Cardinality(Sharers(cur, i))

\* The sleep lock names the one process that has the buffer to itself.
Holds(p) == at[p] \in HasLock => buf[cur[p]].pid = p
HeldBy(i) == buf[i].pid # NoProc => at[buf[i].pid] \in HasLock /\ cur[buf[i].pid] = i
Waits(p) == at[p] = "sleep_lock" => buf[cur[p]].pid # NoProc

\* The driver's queue has the buffers of the processes asleep in iderw, each
\* once, and the disk works on the first.
Distinct(q) == \A k, m \in 1 .. Len(q) : q[k] = q[m] => k = m
InIderw(i) == Queued(idequeue, i) => buf[i].pid # NoProc /\ at[buf[i].pid] = "sleep_ide"
Awaits(p) == at[p] = "sleep_ide" => Queued(idequeue, cur[p])
Working == device = Restart(idequeue, buf)

Flags(i) ==
  /\ buf[i].dirty = TRUE => buf[i].valid = TRUE
  /\ buf[i].valid = TRUE => buf[i].blockno # NoSector
Has(p) ==
  /\ cur[p] # 0 => buf[cur[p]].blockno # NoSector
  /\ at[p] = "held" \/ at[p] = "ide" => buf[cur[p]].valid = TRUE
  /\ at[p] = "ide" => buf[cur[p]].dirty = FALSE

\* A block is in one buffer, and a clean buffer agrees with the disk.
Alone(i, j) == buf[i].blockno = buf[j].blockno => i = j \/ buf[i].blockno = NoSector
Clean(i) == buf[i].valid = TRUE /\ buf[i].dirty = FALSE => buf[i].data = platter[buf[i].blockno]

Room == Cardinality(Pinned) <= MaxPinned

RefInv == (\A p \in Users : Idle(p)) /\ (\A i \in Bufs : Counted(i))

LockInv ==
  /\ \A p \in Users : Holds(p)
  /\ \A i \in Bufs : HeldBy(i)
  /\ \A p \in Users : Waits(p)

QueueInv ==
  /\ Distinct(idequeue)
  /\ \A i \in Bufs : InIderw(i)
  /\ \A p \in Users : Awaits(p)
  /\ Working

DataInv ==
  /\ \A i \in Bufs : Flags(i)
  /\ \A p \in Users : Has(p)
  /\ \A i, j \in Bufs : Alone(i, j)
  /\ \A i \in Bufs : Clean(i)

CacheInv == Typed /\ Listed /\ RefInv /\ LockInv /\ QueueInv /\ DataInv /\ Room
-------------------------------------------------------------------------------
(* Counting. *)

\* One more process refers to i and one less to h.
Shifted(f, g, h, i) ==
  /\ Cardinality(Sharers(g, i)) = Cardinality(Sharers(f, i)) + 1
  /\ Cardinality(Sharers(g, h)) = Cardinality(Sharers(f, h)) - 1
  /\ \A j : j # i /\ j # h => Sharers(g, j) = Sharers(f, j)

\* When a process exchanges its buffer, the counts of the two buffers change.
LEMMA SharersMove ==
  ASSUME NEW f \in [Users -> Nat], NEW p \in Users, NEW i \in Nat, f[p] # i,
         NEW g, g = [f EXCEPT ![p] = i]
  PROVE  Shifted(f, g, f[p], i)
<1>1. \A j : IsFiniteSet(Sharers(f, j))
  BY CacheConstants, FS_Subset, Zenon DEF Sharers
<1>2. Sharers(g, i) = Sharers(f, i) \cup {p} /\ p \notin Sharers(f, i)
  BY Zenon DEF Sharers
<1>3. Sharers(g, f[p]) = Sharers(f, f[p]) \ {p} /\ p \in Sharers(f, f[p])
  BY Zenon DEF Sharers
<1>4. Cardinality(Sharers(g, i)) = Cardinality(Sharers(f, i)) + 1
  <2>1. Cardinality(Sharers(f, i) \cup {p}) = Cardinality(Sharers(f, i)) + 1
    BY <1>1, <1>2, FS_AddElement, Zenon
  <2> QED
    BY <1>2, <2>1, Zenon
<1>5. Cardinality(Sharers(g, f[p])) = Cardinality(Sharers(f, f[p])) - 1
  <2>1. Cardinality(Sharers(f, f[p]) \ {p}) = Cardinality(Sharers(f, f[p])) - 1
    BY <1>1, <1>3, FS_RemoveElement, Zenon
  <2> QED
    BY <1>3, <2>1, Zenon
<1>6. \A j : j # i /\ j # f[p] => Sharers(g, j) = Sharers(f, j)
  BY Zenon DEF Sharers
<1> QED
  BY <1>4, <1>5, <1>6, Zenon DEF Shifted

\* A buffer somebody refers to has a positive count, and the other way round.
LEMMA SharersSome ==
  ASSUME NEW f, NEW i
  PROVE  /\ Cardinality(Sharers(f, i)) \in Nat
         /\ Cardinality(Sharers(f, i)) = 0 <=> \A p \in Users : f[p] # i
<1>1. IsFiniteSet(Sharers(f, i))
  BY CacheConstants, FS_Subset, Zenon DEF Sharers
<1>2. Cardinality(Sharers(f, i)) = 0 <=> Sharers(f, i) = {}
  BY <1>1, FS_EmptySet, Zenon
<1> QED
  BY <1>1, <1>2, FS_CardinalityType, Zenon DEF Sharers

\* A nonempty set of naturals has a smallest element.
LEMMA Smallest ==
  ASSUME NEW S \in SUBSET Nat, S # {}
  PROVE  \E x \in S : \A y \in S : x <= y
<1> DEFINE R == OpToRel(<, Nat)
<1>1. R = {ss \in Nat \X Nat : ss[1] < ss[2]}
  BY Zenon DEF OpToRel
<1>2. IsWellFoundedOn(R, Nat)
  BY NatLessThanWellFounded, Zenon
<1> HIDE DEF R
<1>3. PICK x \in S : \A y \in S : ~(<<y, x>> \in R)
  BY <1>2, WFMin, Zenon
<1>4. \A y \in Nat : y < x => <<y, x>> \in R
  BY <1>1, Zenon
<1>5. \A y \in S : y \in Nat /\ ~(y < x)
  BY <1>3, <1>4, Zenon
<1> QED
  BY <1>5

\* bget's scan from the end of the list finds a buffer that may be recycled.
LEMMA VictimFound ==
  ASSUME Typed, Listed, NEW j \in Bufs, Recyclable(j)
  PROVE  Victim \in Bufs /\ Recyclable(Victim)
<1> DEFINE Fit(k) == /\ Recyclable(lru[k])
                     /\ \A m \in k + 1 .. NBUF : ~Recyclable(lru[m])
           S == {n \in Nat : n <= NBUF /\ Recyclable(lru[NBUF - n]) /\ NBUF - n \in Bufs}
<1>1. PICK c \in Bufs : lru[c] = j
  BY Zenon DEF Listed
<1>2. NBUF - c \in S
  <2>1. NBUF - c \in Nat /\ NBUF - c <= NBUF /\ NBUF - (NBUF - c) = c
    BY CacheConstants DEF Bufs
  <2> QED
    BY <1>1, <2>1, Zenon
<1>3. PICK x \in S : \A y \in S : x <= y
  BY <1>2, Smallest, Zenon
<1>4. PICK k : k = NBUF - x
  BY Zenon
<1>5. k \in Bufs /\ Recyclable(lru[k]) /\ k \in Nat /\ x = NBUF - k /\ NBUF \in Nat
  BY <1>3, <1>4, CacheConstants DEF Bufs
<1>6. ASSUME NEW m \in k + 1 .. NBUF PROVE ~Recyclable(lru[m])
  <2>1. NBUF - m \in Nat /\ NBUF - m <= NBUF /\ NBUF - (NBUF - m) = m /\ m \in Bufs /\ NBUF - m < x
    BY <1>5 DEF Bufs
  <2>2. ~(NBUF - m \in S)
    BY <1>3, <1>5, <2>1
  <2> QED
    BY <2>1, <2>2, Zenon
<1>7. Fit(k)
  BY <1>5, <1>6, Zenon
<1> HIDE DEF Fit
<1>8. (CHOOSE n \in Bufs : Fit(n)) \in Bufs /\ Fit(CHOOSE n \in Bufs : Fit(n))
  BY <1>5, <1>7, Zenon
<1>9. Victim = lru[CHOOSE n \in Bufs : Fit(n)]
  BY Zenon DEF Victim, Fit
<1> QED
  BY <1>8, <1>9, Zenon DEF Typed, Fit

\* brelse loses no buffer of the list.
LEMMA FrontKeeps ==
  ASSUME Typed, Listed, NEW i \in Bufs
  PROVE  /\ MoveToFront(i) \in [Bufs -> Bufs]
         /\ \A j \in Bufs : \E k \in Bufs : MoveToFront(i)[k] = j
<1>1. PICK c : c = CHOOSE m \in Bufs : lru[m] = i
  BY Zenon
<1>2. c \in Bufs /\ lru[c] = i
  BY <1>1, Zenon DEF Listed
<1>3. MoveToFront(i) = [m \in Bufs |-> IF m = 1 THEN i ELSE IF m <= c THEN lru[m - 1] ELSE lru[m]]
  BY <1>1, Zenon DEF MoveToFront
<1>4. \A m \in Bufs : m # 1 => m - 1 \in Bufs
  BY CacheConstants DEF Bufs
<1>5. ASSUME NEW j \in Bufs PROVE \E k \in Bufs : MoveToFront(i)[k] = j
  <2>1. PICK k \in Bufs : lru[k] = j
    BY Zenon DEF Listed
  <2>2. CASE j = i
    BY <1>2, <1>3, <2>2, CacheConstants DEF Bufs
  <2>3. CASE k < c
    <3>1. PICK m : m = k + 1
      BY Zenon
    <3>2. m \in Bufs /\ m # 1 /\ m <= c /\ m - 1 = k
      BY <1>2, <2>3, <3>1, CacheConstants DEF Bufs
    <3>3. MoveToFront(i)[m] = lru[m - 1]
      BY <1>3, <3>2, Zenon
    <3> QED
      BY <2>1, <3>2, <3>3, Zenon
  <2>4. CASE j # i /\ ~(k < c)
    <3>0. k # c
      BY <1>2, <2>1, <2>4, Zenon
    <3>1. k # 1 /\ ~(k <= c)
      BY <1>2, <2>4, <3>0, CacheConstants DEF Bufs
    <3> QED
      BY <1>3, <2>1, <3>1, Zenon
  <2> QED
    BY <2>2, <2>3, <2>4, Zenon
<1> QED
  BY <1>3, <1>4, <1>5 DEF Typed
-------------------------------------------------------------------------------
(* The driver's queue. *)

\* iderw appends a buffer.
LEMMA QueueAppend ==
  ASSUME NEW q \in Seq(Bufs), Distinct(q), NEW i \in Bufs, ~Queued(q, i)
  PROVE  /\ Append(q, i) \in Seq(Bufs) /\ Distinct(Append(q, i)) /\ Append(q, i) # << >>
         /\ \A j : Queued(Append(q, i), j) <=> Queued(q, j) \/ j = i
         /\ q # << >> => Head(Append(q, i)) = Head(q)
         /\ q = << >> => Head(Append(q, i)) = i
<1>1. PICK r : r = Append(q, i)
  BY Zenon
<1>2. /\ r \in Seq(Bufs) /\ Len(r) = Len(q) + 1 /\ Len(q) \in Nat /\ r[Len(q) + 1] = i
      /\ \A k \in 1 .. Len(q) : r[k] = q[k]
  BY <1>1
<1>3. Distinct(r)
  BY <1>2 DEF Distinct, Queued
<1>4. \A j : Queued(r, j) <=> Queued(q, j) \/ j = i
  BY <1>2 DEF Queued
<1>5. r # << >> /\ Head(r) = r[1]
  BY <1>1, <1>2
<1>6. q # << >> => 1 \in 1 .. Len(q) /\ Head(q) = q[1]
  OBVIOUS
<1>7. q = << >> => Len(q) + 1 = 1
  OBVIOUS
<1> QED
  BY <1>1, <1>2, <1>3, <1>4, <1>5, <1>6, <1>7, Zenon

\* ideintr takes the first buffer off.
LEMMA QueueTail ==
  ASSUME NEW q \in Seq(Bufs), Distinct(q), q # << >>
  PROVE  /\ Tail(q) \in Seq(Bufs) /\ Distinct(Tail(q))
         /\ Head(q) \in Bufs /\ Queued(q, Head(q))
         /\ \A j : Queued(Tail(q), j) <=> Queued(q, j) /\ j # Head(q)
<1>1. PICK r : r = Tail(q)
  BY Zenon
<1>2. /\ r \in Seq(Bufs) /\ Len(q) \in Nat /\ Len(q) > 0 /\ Len(r) = Len(q) - 1
      /\ \A k \in 1 .. Len(r) : r[k] = q[k + 1]
  BY <1>1
<1>3. Head(q) = q[1] /\ 1 \in 1 .. Len(q)
  BY <1>2
<1>4. Distinct(r)
  BY <1>2 DEF Distinct
<1>5. ASSUME NEW j, Queued(r, j) PROVE Queued(q, j) /\ j # Head(q)
  <2>1. PICK k \in 1 .. Len(r) : r[k] = j
    BY <1>5, Zenon DEF Queued
  <2>2. k + 1 \in 1 .. Len(q) /\ q[k + 1] = j /\ k + 1 # 1
    BY <1>2, <2>1
  <2> QED
    BY <1>3, <2>2, Zenon DEF Queued, Distinct
<1>6. ASSUME NEW j, Queued(q, j), j # Head(q) PROVE Queued(r, j)
  <2>1. PICK k \in 1 .. Len(q) : q[k] = j
    BY <1>6, Zenon DEF Queued
  <2>2. k # 1
    BY <1>3, <1>6, <2>1, Zenon
  <2>3. k - 1 \in 1 .. Len(r) /\ r[k - 1] = j
    BY <1>2, <2>1, <2>2
  <2> QED
    BY <2>3, Zenon DEF Queued
<1>7. \A j : Queued(r, j) <=> Queued(q, j) /\ j # Head(q)
  BY <1>5, <1>6, Zenon
<1>8. Head(q) \in Bufs /\ Queued(q, Head(q))
  BY <1>3 DEF Queued
<1> QED
  BY <1>1, <1>2, <1>4, <1>7, <1>8, Zenon
-------------------------------------------------------------------------------
(* What a step leaves alone. *)

SameData(i) ==
  /\ buf'[i].blockno = buf[i].blockno /\ buf'[i].valid = buf[i].valid
  /\ buf'[i].dirty = buf[i].dirty /\ buf'[i].data = buf[i].data

\* A step of p that moves no other process.
Moves(p) == \A q \in Users : q # p => at'[q] = at[q] /\ cur'[q] = cur[q]

\* What a process's place says of it.
Placed(p) == Holds(p) /\ Waits(p) /\ Awaits(p) /\ Has(p)

\* The types after a step, without the primed constants.
LEMMA TypedAfter ==
  ASSUME buf' \in [Bufs -> Buffer], lru' \in [Bufs -> Bufs], idequeue' \in Seq(Bufs),
         platter' \in [Sectors -> Values], at' \in [Users -> Places],
         cur' \in [Users -> Bufs \cup {0}]
  PROVE  Typed'
BY Zenon DEF Typed, Bufs, Buffer, Places, HasLock

\* The layers of the invariant after a step, without the primed constants.
LEMMA InvAfter ==
  ASSUME Typed', Listed', RefInv', Room', Distinct(idequeue)', Working',
         \A p \in Users : Placed(p)',
         \A i \in Bufs : HeldBy(i)' /\ InIderw(i)' /\ Flags(i)' /\ Clean(i)',
         \A i, j \in Bufs : Alone(i, j)'
  PROVE  CacheInv'
<1>1. LockInv'
  BY Zenon DEF LockInv, Placed, Bufs
<1>2. QueueInv'
  BY Zenon DEF QueueInv, Placed, Bufs
<1>3. DataInv'
  BY Zenon DEF DataInv, Placed, Bufs
<1> QED
  BY <1>1, <1>2, <1>3, Zenon DEF CacheInv

\* As long as blocks, flags and data stay, so does what is said of them alone.
LEMMA DataFrame ==
  ASSUME CacheInv, \A i \in Bufs : SameData(i), UNCHANGED <<idequeue, device, platter>>
  PROVE  /\ \A i \in Bufs : Flags(i)' /\ Clean(i)'
         /\ \A i, j \in Bufs : Alone(i, j)'
         /\ Room' /\ Distinct(idequeue)' /\ Working'
<1>1. ASSUME NEW i \in Bufs PROVE Flags(i)' /\ Clean(i)'
  <2>1. Flags(i) /\ Clean(i) /\ SameData(i)
    BY Zenon DEF CacheInv, DataInv
  <2>2. Flags(i)'
    BY <2>1, Zenon DEF SameData, Flags
  <2>3. Clean(i)'
    BY <2>1, Zenon DEF SameData, Clean
  <2> QED
    BY <2>2, <2>3, Zenon
<1>2. \A i, j \in Bufs : Alone(i, j)'
  BY ZenonT(90) DEF CacheInv, DataInv, SameData, Alone
<1>3. Room'
  <2>1. Pinned' = Pinned
    BY Zenon DEF Pinned, SameData, Bufs
  <2> QED
    BY <2>1, Zenon DEF CacheInv, Room
<1>4. Distinct(idequeue)'
  BY Zenon DEF CacheInv, QueueInv, Distinct
<1>5. Working'
  <2>1. CASE idequeue = << >>
    BY <2>1, Zenon DEF CacheInv, QueueInv, Working, Restart, NoReq
  <2>2. CASE idequeue # << >>
    <3>1. PICK h : h = Head(idequeue)
      BY Zenon
    <3>2. h \in Bufs
      BY <2>2, <3>1, QueueTail, Zenon DEF CacheInv, QueueInv, Typed
    <3>3. Idestart(h, buf'[h]) = Idestart(h, buf[h])
      BY <3>2, Zenon DEF SameData, Idestart
    <3> QED
      BY <2>2, <3>1, <3>3, Zenon DEF CacheInv, QueueInv, Working, Restart
  <2> QED
    BY <2>1, <2>2, Zenon
<1> QED
  BY <1>1, <1>2, <1>3, <1>4, <1>5, Zenon

\* A step of p alone that leaves locks, blocks, flags and data as they are.
LEMMA Frame ==
  ASSUME CacheInv, NEW p \in Users, Moves(p), Typed', Listed', RefInv', Placed(p)',
         \A i \in Bufs : SameData(i) /\ buf'[i].pid = buf[i].pid,
         UNCHANGED <<idequeue, device, platter>>,
         at[p] # "sleep_ide", at[p] \in HasLock => at'[p] \in HasLock /\ cur'[p] = cur[p]
  PROVE  CacheInv'
<1>1. /\ \A i \in Bufs : Flags(i)' /\ Clean(i)'
      /\ \A i, j \in Bufs : Alone(i, j)'
      /\ Room' /\ Distinct(idequeue)' /\ Working'
  BY DataFrame, Zenon
<1>2. ASSUME NEW q \in Users PROVE Placed(q)'
  <2>1. CASE q = p
    BY <2>1, Zenon
  <2>2. CASE q # p
    <3>1. at'[q] = at[q] /\ cur'[q] = cur[q]
      BY <2>2, Zenon DEF Moves
    <3>2. at[q] \in HasLock \/ at[q] = "sleep_lock" \/ at[q] = "sleep_ide" \/ at[q] = "held"
            \/ at[q] = "ide" => cur[q] # 0
      BY Zenon DEF CacheInv, RefInv, Idle, HasLock
    <3>3. cur[q] # 0 => cur[q] \in Bufs
      BY Zenon DEF CacheInv, Typed
    <3>4. Placed(q)
      BY Zenon DEF CacheInv, LockInv, QueueInv, DataInv, Placed
    <3>5. Holds(q)' /\ Waits(q)'
      BY <3>1, <3>2, <3>3, <3>4, Zenon DEF Placed, Holds, Waits
    <3>6. Awaits(q)'
      BY <3>1, <3>4, Zenon DEF Placed, Awaits
    <3>7. Has(q)'
      BY <3>1, <3>2, <3>3, <3>4, Zenon DEF Placed, Has, SameData
    <3> QED
      BY <3>5, <3>6, <3>7, Zenon DEF Placed
  <2> QED
    BY <2>1, <2>2, Zenon
<1>3. ASSUME NEW i \in Bufs PROVE HeldBy(i)' /\ InIderw(i)'
  <2>1. PICK q : q = buf[i].pid
    BY Zenon
  <2>2. buf'[i].pid = q
    BY <2>1, Zenon
  <2>3. q # NoProc => q \in Users
    BY <2>1, Zenon DEF CacheInv, Typed, Buffer
  <2>4. q # NoProc => at[q] \in HasLock /\ cur[q] = i
    BY <2>1, Zenon DEF CacheInv, LockInv, HeldBy
  <2>5. q # NoProc => at'[q] \in HasLock /\ cur'[q] = i
    BY <2>3, <2>4, Zenon DEF Moves
  <2>6. Queued(idequeue, i) => q # NoProc /\ at[q] = "sleep_ide"
    BY <2>1, Zenon DEF CacheInv, QueueInv, InIderw
  <2>7. Queued(idequeue, i) => q # NoProc /\ at'[q] = "sleep_ide"
    BY <2>3, <2>6, Zenon DEF Moves
  <2>8. HeldBy(i)'
    BY <2>2, <2>5, Zenon DEF HeldBy, HasLock
  <2>9. InIderw(i)'
    BY <2>2, <2>7, Zenon DEF InIderw
  <2> QED
    BY <2>8, <2>9, Zenon
<1> QED
  BY <1>1, <1>2, <1>3, InvAfter, Zenon

\* A step that changes nobody's buffer and no count.
LEMMA RefsStay ==
  ASSUME CacheInv, NEW p \in Users, Moves(p), cur' = cur, Idle(p)',
         \A i \in Bufs : buf'[i].refcnt = buf[i].refcnt
  PROVE  RefInv'
<1>1. \A q \in Users : Idle(q)'
  BY Zenon DEF CacheInv, RefInv, Moves, Idle
<1>2. \A i \in Bufs : Counted(i)'
  BY Zenon DEF CacheInv, RefInv, Counted, Sharers
<1> QED
  BY <1>1, <1>2, Zenon DEF RefInv, Bufs
-------------------------------------------------------------------------------
(* The steps of a process that only move it or count a reference. *)

\* bget gives p a reference to buffer i.
LEMMA RefsAdd ==
  ASSUME CacheInv, NEW p \in Users, Moves(p), NEW i \in Bufs, cur[p] = 0,
         cur' = [cur EXCEPT ![p] = i], Idle(p)',
         buf'[i].refcnt = buf[i].refcnt + 1,
         \A j \in Bufs : j # i => buf'[j].refcnt = buf[j].refcnt
  PROVE  RefInv'
<1>0. /\ cur \in [Users -> Nat] /\ i \in Nat /\ i # 0 /\ 0 \notin Bufs
      /\ \A j \in Bufs : Counted(j)
  BY CacheConstants DEF CacheInv, Typed, RefInv, Bufs
<1>1. \A q \in Users : Idle(q)'
  BY Zenon DEF CacheInv, RefInv, Moves, Idle
<1>s. Shifted(cur, cur', cur[p], i)
  BY <1>0, SharersMove, Zenon
<1>2. /\ Cardinality(Sharers(cur', i)) = Cardinality(Sharers(cur, i)) + 1
      /\ \A j : j # i /\ j # 0 => Sharers(cur', j) = Sharers(cur, j)
  BY <1>s, Zenon DEF Shifted
<1>3. ASSUME NEW j \in Bufs PROVE Counted(j)'
  <2>0. Counted(j) /\ j # 0
    BY <1>0, Zenon
  <2>1. CASE j = i
    BY <1>2, <2>0, <2>1, Zenon DEF Counted
  <2>2. CASE j # i
    BY <1>2, <2>0, <2>2, Zenon DEF Counted
  <2> QED
    BY <2>1, <2>2, Zenon
<1> QED
  BY <1>1, <1>3, Zenon DEF RefInv, Bufs

\* brelse drops it.
LEMMA RefsDrop ==
  ASSUME CacheInv, NEW p \in Users, Moves(p), NEW i \in Bufs, cur[p] = i,
         cur' = [cur EXCEPT ![p] = 0], Idle(p)',
         buf'[i].refcnt = buf[i].refcnt - 1,
         \A j \in Bufs : j # i => buf'[j].refcnt = buf[j].refcnt
  PROVE  RefInv'
<1>0. /\ cur \in [Users -> Nat] /\ i # 0 /\ 0 \notin Bufs
      /\ \A j \in Bufs : Counted(j)
  BY CacheConstants DEF CacheInv, Typed, RefInv, Bufs
<1>1. \A q \in Users : Idle(q)'
  BY Zenon DEF CacheInv, RefInv, Moves, Idle
<1>s. Shifted(cur, cur', cur[p], 0)
  BY <1>0, SharersMove, Zenon
<1>2. /\ Cardinality(Sharers(cur', i)) = Cardinality(Sharers(cur, i)) - 1
      /\ \A j : j # i /\ j # 0 => Sharers(cur', j) = Sharers(cur, j)
  BY <1>s, Zenon DEF Shifted
<1>3. ASSUME NEW j \in Bufs PROVE Counted(j)'
  <2>0. Counted(j) /\ j # 0
    BY <1>0, Zenon
  <2>1. CASE j = i
    BY <1>2, <2>0, <2>1, Zenon DEF Counted
  <2>2. CASE j # i
    BY <1>2, <2>0, <2>2, Zenon DEF Counted
  <2> QED
    BY <2>1, <2>2, Zenon
<1> QED
  BY <1>1, <1>3, Zenon DEF RefInv, Bufs

\* Where p goes, and that the others stay.
LEMMA GotoMoves ==
  ASSUME CacheInv, NEW p \in Users, NEW l \in Places, Goto(p, l)
  PROVE  /\ at' \in [Users -> Places] /\ at'[p] = l
         /\ \A q \in Users : q # p => at'[q] = at[q]
BY Zenon DEF CacheInv, Typed, Goto

\* A process that goes to l and touches nothing.
LEMMA GotoKeeps ==
  ASSUME CacheInv, NEW p \in Users, NEW l \in Places, Goto(p, l),
         UNCHANGED <<buf, lru, idequeue, device, platter, cur>>,
         at[p] # "sleep_ide", at[p] \in HasLock => l \in HasLock,
         Idle(p)', Placed(p)'
  PROVE  CacheInv'
<1>1. at' \in [Users -> Places] /\ at'[p] = l /\ Moves(p)
  BY GotoMoves, Zenon DEF Moves
<1>2. Typed'
  BY <1>1, TypedAfter, Zenon DEF CacheInv, Typed
<1>3. Listed'
  BY Zenon DEF CacheInv, Listed, Bufs
<1>4. RefInv'
  BY <1>1, RefsStay, Zenon
<1>5. \A i \in Bufs : SameData(i) /\ buf'[i].pid = buf[i].pid
  BY Zenon DEF SameData
<1> QED
  BY <1>1, <1>2, <1>3, <1>4, <1>5, Frame, Zenon

\* bget finds the block in buffer i.
LEMMA BgetHitKeeps ==
  ASSUME CacheInv, NEW p \in Users, NEW n \in Sectors, NEW i \in Bufs, at[p] = "idle",
         buf[i].blockno = n, buf' = [buf EXCEPT ![i].refcnt = @ + 1],
         cur' = [cur EXCEPT ![p] = i], Goto(p, "acquire"),
         UNCHANGED <<lru, idequeue, device, platter>>
  PROVE  CacheInv'
<1>0. cur[p] = 0 /\ i # 0 /\ n # NoSector
  BY CacheConstants DEF CacheInv, RefInv, Idle, Bufs
<1>1. at' \in [Users -> Places] /\ at'[p] = "acquire" /\ Moves(p) /\ cur'[p] = i
  BY GotoMoves, Zenon DEF Moves, Places, CacheInv, Typed
<1>2. /\ \A j \in Bufs : SameData(j) /\ buf'[j].pid = buf[j].pid
      /\ buf'[i].refcnt = buf[i].refcnt + 1
      /\ \A j \in Bufs : j # i => buf'[j].refcnt = buf[j].refcnt
  BY DEF CacheInv, Typed, Buffer, SameData
<1>3. Typed'
  <2>0. buf[i] \in Buffer
    BY Zenon DEF CacheInv, Typed
  <2>1. [buf[i] EXCEPT !.refcnt = @ + 1] \in Buffer
    BY <2>0 DEF Buffer
  <2>2. buf' \in [Bufs -> Buffer]
    BY <2>1, Zenon DEF CacheInv, Typed
  <2>3. cur' \in [Users -> Bufs \cup {0}]
    BY Zenon DEF CacheInv, Typed
  <2> QED
    BY <1>1, <2>2, <2>3, TypedAfter, Zenon DEF CacheInv, Typed
<1>4. Listed'
  BY Zenon DEF CacheInv, Listed, Bufs
<1>5. RefInv'
  <2>1. Idle(p)'
    BY <1>0, <1>1, Zenon DEF Idle
  <2> QED
    BY <1>0, <1>1, <1>2, <2>1, RefsAdd, Zenon
<1>6. Placed(p)'
  <2>1. buf'[i].blockno = n
    BY <1>2, Zenon DEF SameData
  <2> QED
    BY <1>0, <1>1, <2>1, Zenon DEF Placed, Holds, Waits, Awaits, Has, HasLock
<1> QED
  BY <1>1, <1>2, <1>3, <1>4, <1>5, <1>6, Frame, Zenon DEF HasLock

\* acquiresleep finds the lock taken.
LEMMA SleepKeeps ==
  ASSUME CacheInv, NEW p \in Users, AcquireSleep(p), buf[cur[p]].pid # NoProc
  PROVE  CacheInv'
<1>1. Goto(p, "sleep_lock") /\ UNCHANGED <<buf, lru, idequeue, device, platter, cur>> /\ at[p] = "acquire"
  BY Zenon DEF AcquireSleep
<1>2. at'[p] = "sleep_lock" /\ cur[p] # 0
  BY <1>1, GotoMoves, Zenon DEF Places, CacheInv, RefInv, Idle
<1>3. Idle(p)'
  BY <1>1, <1>2, Zenon DEF Idle
<1>4. Placed(p)'
  BY <1>1, <1>2, Zenon DEF Placed, Holds, Waits, Awaits, Has, HasLock, CacheInv, DataInv
<1> QED
  BY <1>1, <1>3, <1>4, GotoKeeps, Zenon DEF Places, HasLock

\* bread finds the buffer valid.
LEMMA BreadValidKeeps ==
  ASSUME CacheInv, NEW p \in Users, Bread(p), buf[cur[p]].valid = TRUE
  PROVE  CacheInv'
<1>1. Goto(p, "held") /\ UNCHANGED <<buf, lru, idequeue, device, platter, cur>> /\ at[p] = "locked"
  BY Zenon DEF Bread
<1>2. at'[p] = "held" /\ cur[p] # 0
  BY <1>1, GotoMoves, Zenon DEF Places, HasLock, CacheInv, RefInv, Idle
<1>3. Idle(p)'
  BY <1>1, <1>2, Zenon DEF Idle
<1>4. Placed(p)'
  BY <1>1, <1>2, Zenon DEF Placed, Holds, Waits, Awaits, Has, HasLock, CacheInv, DataInv, LockInv
<1> QED
  BY <1>1, <1>3, <1>4, GotoKeeps, Zenon DEF Places, HasLock

\* iderw's loop after the interrupt.
LEMMA IderwAgainKeeps ==
  ASSUME CacheInv, NEW p \in Users, IderwAgain(p)
  PROVE  CacheInv'
<1>1. at[p] = "ide" /\ buf[cur[p]].valid = TRUE /\ buf[cur[p]].dirty = FALSE
  BY Zenon DEF IderwAgain, CacheInv, DataInv, Has
<1>2. Goto(p, "held") /\ UNCHANGED <<buf, lru, idequeue, device, platter, cur>>
  BY <1>1, Zenon DEF IderwAgain
<1>3. at'[p] = "held" /\ cur[p] # 0
  BY <1>1, <1>2, GotoMoves, Zenon DEF Places, HasLock, CacheInv, RefInv, Idle
<1>4. Idle(p)'
  BY <1>2, <1>3, Zenon DEF Idle
<1>5. Placed(p)'
  BY <1>1, <1>2, <1>3, Zenon DEF Placed, Holds, Waits, Awaits, Has, HasLock, CacheInv, DataInv, LockInv
<1> QED
  BY <1>1, <1>2, <1>4, <1>5, GotoKeeps, Zenon DEF Places, HasLock

\* brelse gives the reference back.
LEMMA BrelseKeeps ==
  ASSUME CacheInv, NEW p \in Users, Brelse(p)
  PROVE  CacheInv'
<1>1. PICK i : i = cur[p]
  BY Zenon
<1>2. /\ at[p] = "brelse" /\ buf' = [buf EXCEPT ![i] = Dropped(@)]
      /\ lru' = (IF buf[i].refcnt = 1 THEN MoveToFront(i) ELSE lru)
      /\ cur' = [cur EXCEPT ![p] = 0] /\ Goto(p, "idle")
      /\ UNCHANGED <<idequeue, device, platter>>
  BY <1>1, Zenon DEF Brelse
<1>3. i \in Bufs /\ i # 0
  <2>1. i # 0
    BY <1>1, <1>2, Zenon DEF CacheInv, RefInv, Idle
  <2> QED
    BY <1>1, <2>1, Zenon DEF CacheInv, Typed
<1>4. at' \in [Users -> Places] /\ at'[p] = "idle" /\ Moves(p) /\ cur'[p] = 0
  BY <1>2, GotoMoves, Zenon DEF Moves, Places, CacheInv, Typed
<1>5. buf[i].refcnt - 1 \in Nat
  <2>1. buf[i].refcnt = Cardinality(Sharers(cur, i))
    BY <1>3, Zenon DEF CacheInv, RefInv, Counted
  <2>2. Cardinality(Sharers(cur, i)) \in Nat /\ Cardinality(Sharers(cur, i)) # 0
    BY <1>1, SharersSome, Zenon
  <2> QED
    BY <2>1, <2>2
<1>6. Dropped(buf[i]) \in Buffer
  <2>1. buf[i] \in Buffer
    BY <1>3, Zenon DEF CacheInv, Typed
  <2> QED
    BY <1>5, <2>1, Zenon DEF Buffer, Dropped
<1>7. /\ \A j \in Bufs : SameData(j) /\ buf'[j].pid = buf[j].pid
      /\ buf'[i].refcnt = buf[i].refcnt - 1
      /\ \A j \in Bufs : j # i => buf'[j].refcnt = buf[j].refcnt
  BY <1>2, <1>3 DEF CacheInv, Typed, Buffer, SameData, Dropped
<1>8. Typed' /\ Listed'
  <2>1. buf' \in [Bufs -> Buffer]
    BY <1>2, <1>3, <1>6, Zenon DEF CacheInv, Typed
  <2>2. lru' \in [Bufs -> Bufs] /\ \A j \in Bufs : \E k \in Bufs : lru'[k] = j
    <3>1. CASE buf[i].refcnt = 1
      BY <1>2, <1>3, <3>1, FrontKeeps, Zenon DEF CacheInv
    <3>2. CASE buf[i].refcnt # 1
      BY <1>2, <3>2, Zenon DEF CacheInv, Typed, Listed
    <3> QED
      BY <3>1, <3>2, Zenon
  <2>3. cur' \in [Users -> Bufs \cup {0}]
    BY <1>2, Zenon DEF CacheInv, Typed
  <2>4. Typed'
    BY <1>2, <1>4, <2>1, <2>2, <2>3, TypedAfter, Zenon DEF CacheInv, Typed
  <2> QED
    BY <2>2, <2>4, Zenon DEF Listed, Bufs
<1>9. RefInv'
  <2>1. Idle(p)'
    BY <1>4, Zenon DEF Idle
  <2> QED
    BY <1>1, <1>2, <1>3, <1>4, <1>7, <2>1, RefsDrop, Zenon
<1>10. Placed(p)'
  BY <1>4, Zenon DEF Placed, Holds, Waits, Awaits, Has, HasLock
<1> QED
  BY <1>2, <1>4, <1>7, <1>8, <1>9, <1>10, Frame, Zenon DEF HasLock
-------------------------------------------------------------------------------
(* The steps that change one buffer. *)

Others(i) == \A j \in Bufs : j # i => buf'[j] = buf[j]

\* While the disk stays as it is, clean buffers that do not change stay clean.
LEMMA CleanOthers ==
  ASSUME CacheInv, NEW i \in Bufs, Others(i), platter' = platter, NEW j \in Bufs, j # i
  PROVE  Clean(j)'
BY Zenon DEF CacheInv, DataInv, Others, Clean

\* What is said of the blocks, when only buffer i changes.
LEMMA OneChanges ==
  ASSUME CacheInv, NEW i \in Bufs, Others(i), Flags(i)', \A j \in Bufs : Clean(j)',
         \A j \in Bufs : Alone(i, j)'
  PROVE  /\ \A j \in Bufs : Flags(j)' /\ Clean(j)'
         /\ \A j, k \in Bufs : Alone(j, k)'
<1>1. ASSUME NEW j \in Bufs PROVE Flags(j)' /\ Clean(j)'
  <2>1. CASE j = i
    BY <2>1, Zenon
  <2>2. CASE j # i
    <3>1. buf'[j] = buf[j] /\ Flags(j)
      BY <2>2, Zenon DEF Others, CacheInv, DataInv
    <3> QED
      BY <3>1, Zenon DEF Flags
  <2> QED
    BY <2>1, <2>2, Zenon
<1>2. ASSUME NEW j \in Bufs, NEW k \in Bufs PROVE Alone(j, k)'
  <2>1. CASE j = i
    BY <2>1, Zenon
  <2>2. CASE k = i
    <3>1. Alone(i, j)'
      BY Zenon
    <3> QED
      BY <2>2, <3>1, Zenon DEF Alone
  <2>3. CASE j # i /\ k # i
    <3>1. buf'[j] = buf[j] /\ buf'[k] = buf[k] /\ Alone(j, k)
      BY <2>3, Zenon DEF Others, CacheInv, DataInv
    <3> QED
      BY <3>1, Zenon DEF Alone
  <2> QED
    BY <2>1, <2>2, <2>3, Zenon
<1> QED
  BY <1>1, <1>2, Zenon

\* Somebody with another buffer.
LEMMA OtherUser ==
  ASSUME CacheInv, NEW i \in Bufs, Others(i), NEW q \in Users, cur[q] # i,
         at'[q] = at[q], cur'[q] = cur[q],
         Queued(idequeue, cur[q]) => Queued(idequeue', cur[q])
  PROVE  Placed(q)'
<1>1. Placed(q)
  BY Zenon DEF CacheInv, LockInv, QueueInv, DataInv, Placed
<1>2. cur[q] # 0 => buf'[cur[q]] = buf[cur[q]]
  BY Zenon DEF CacheInv, Typed, Others
<1>3. cur[q] = 0 => ~(at[q] \in HasLock) /\ at[q] # "sleep_lock" /\ at[q] # "held" /\ at[q] # "ide"
  BY Zenon DEF CacheInv, RefInv, Idle, HasLock
<1>4. Holds(q)' /\ Waits(q)' /\ Awaits(q)'
  BY <1>1, <1>2, <1>3, Zenon DEF Placed, Holds, Waits, Awaits
<1>5. Has(q)'
  BY <1>1, <1>2, <1>3, Zenon DEF Placed, Has
<1> QED
  BY <1>4, <1>5, Zenon DEF Placed

\* Another buffer.
LEMMA OtherBuffer ==
  ASSUME CacheInv, NEW i \in Bufs, Others(i), NEW j \in Bufs, j # i,
         \A q \in Users : cur[q] = j /\ at[q] \in HasLock => at'[q] = at[q] /\ cur'[q] = cur[q],
         Queued(idequeue', j) => Queued(idequeue, j)
  PROVE  HeldBy(j)' /\ InIderw(j)'
<1>1. PICK q : q = buf[j].pid
  BY Zenon
<1>2. buf'[j].pid = q
  BY <1>1, Zenon DEF Others
<1>3. q # NoProc => q \in Users
  BY <1>1, Zenon DEF CacheInv, Typed, Buffer
<1>4. q # NoProc => at[q] \in HasLock /\ cur[q] = j
  BY <1>1, Zenon DEF CacheInv, LockInv, HeldBy
<1>5. q # NoProc => at'[q] = at[q] /\ cur'[q] = cur[q]
  BY <1>3, <1>4, Zenon
<1>6. Queued(idequeue, j) => q # NoProc /\ at[q] = "sleep_ide"
  BY <1>1, Zenon DEF CacheInv, QueueInv, InIderw
<1>7. HeldBy(j)'
  BY <1>2, <1>4, <1>5, Zenon DEF HeldBy, HasLock
<1>8. InIderw(j)'
  BY <1>2, <1>5, <1>6, Zenon DEF InIderw
<1> QED
  BY <1>7, <1>8, Zenon

\* A step of the process that has, or now takes, the lock of buffer i.
LEMMA HolderStep ==
  ASSUME CacheInv, NEW p \in Users, NEW i \in Bufs, cur[p] = i,
         at[p] \in HasLock \/ buf[i].pid = NoProc,
         Others(i), Moves(p), cur' = cur, at'[p] \in HasLock, Typed',
         buf'[i].pid = p, buf'[i].blockno = buf[i].blockno, buf'[i].refcnt = buf[i].refcnt,
         UNCHANGED lru,
         \A j \in Bufs : j # i => (Queued(idequeue', j) <=> Queued(idequeue, j)),
         Queued(idequeue', i) => at'[p] = "sleep_ide",
         Distinct(idequeue)', Working', Room', Flags(i)', \A j \in Bufs : Clean(j)',
         Awaits(p)', Has(p)'
  PROVE  CacheInv'
<1>0. i # 0 /\ 0 \notin Bufs /\ p # NoProc
  BY CacheConstants DEF Bufs
<1>1. Listed'
  BY Zenon DEF CacheInv, Listed, Bufs
<1>2. RefInv'
  <2>1. at'[p] # "idle" /\ at'[p] # "panic"
    BY Zenon DEF HasLock
  <2>2. Idle(p)'
    BY <1>0, <2>1, Zenon DEF Idle
  <2>3. \A j \in Bufs : buf'[j].refcnt = buf[j].refcnt
    BY Zenon DEF Others
  <2> QED
    BY <2>2, <2>3, RefsStay, Zenon
<1>3. buf[i].blockno # NoSector
  BY <1>0, Zenon DEF CacheInv, DataInv, Has
<1>4. /\ \A j \in Bufs : Flags(j)' /\ Clean(j)'
      /\ \A j, k \in Bufs : Alone(j, k)'
  <2>1. ASSUME NEW j \in Bufs PROVE Alone(i, j)'
    <3>1. buf'[j].blockno = buf[j].blockno
      BY Zenon DEF Others
    <3>2. Alone(i, j)
      BY Zenon DEF CacheInv, DataInv
    <3> QED
      BY <3>1, <3>2, Zenon DEF Alone
  <2> QED
    BY <2>1, OneChanges, Zenon
<1>5. ASSUME NEW q \in Users PROVE Placed(q)'
  <2>1. CASE q = p
    <3>1. Holds(p)' /\ Waits(p)'
      BY <1>0, Zenon DEF Holds, Waits
    <3> QED
      BY <2>1, <3>1, Zenon DEF Placed
  <2>2. CASE q # p /\ cur[q] # i
    <3>1. at'[q] = at[q] /\ cur'[q] = cur[q]
      BY <2>2, Zenon DEF Moves
    <3>2. Queued(idequeue, cur[q]) => Queued(idequeue', cur[q])
      <4>1. CASE cur[q] # 0
        BY <2>2, <4>1, Zenon DEF CacheInv, Typed
      <4>2. CASE cur[q] = 0
        BY <1>0, <4>2 DEF CacheInv, Typed, Queued
      <4> QED
        BY <4>1, <4>2, Zenon
    <3> QED
      BY <2>2, <3>1, <3>2, OtherUser, Zenon
  <2>3. CASE q # p /\ cur[q] = i
    <3>1. at'[q] = at[q] /\ cur'[q] = i
      BY <2>3, Zenon DEF Moves
    <3>2. ~(at[q] \in HasLock)
      <4>1. at[q] \in HasLock => buf[i].pid = q
        BY <2>3, Zenon DEF CacheInv, LockInv, Holds
      <4>2. buf[i].pid = p \/ buf[i].pid = NoProc
        BY Zenon DEF CacheInv, LockInv, Holds
      <4> QED
        BY <2>3, <4>1, <4>2, CacheConstants, Zenon
    <3>3. at'[q] # "sleep_ide" /\ at'[q] # "held" /\ at'[q] # "ide" /\ ~(at'[q] \in HasLock)
      BY <3>1, <3>2, Zenon DEF HasLock
    <3>4. Holds(q)' /\ Waits(q)' /\ Awaits(q)'
      BY <1>0, <3>1, <3>3, Zenon DEF Holds, Waits, Awaits, HasLock
    <3>5. Has(q)'
      BY <1>3, <3>1, <3>3, Zenon DEF Has
    <3> QED
      BY <3>4, <3>5, Zenon DEF Placed
  <2> QED
    BY <2>1, <2>2, <2>3, Zenon
<1>6. ASSUME NEW j \in Bufs PROVE HeldBy(j)' /\ InIderw(j)'
  <2>1. CASE j = i
    BY <1>0, <2>1, Zenon DEF HeldBy, InIderw, HasLock
  <2>2. CASE j # i
    BY <2>2, OtherBuffer, Zenon DEF Moves
  <2> QED
    BY <2>1, <2>2, Zenon
<1> QED
  BY <1>1, <1>2, <1>4, <1>5, <1>6, InvAfter, Zenon
-------------------------------------------------------------------------------
\* A process with the lock, not asleep in iderw: its buffer is not in the queue.
LEMMA NotQueued ==
  ASSUME CacheInv, NEW p \in Users, at[p] = "locked" \/ at[p] = "held"
  PROVE  /\ cur[p] \in Bufs /\ buf[cur[p]].pid = p /\ buf[cur[p]] \in Buffer
         /\ ~Queued(idequeue, cur[p]) /\ buf[cur[p]].blockno # NoSector
<1>1. cur[p] # 0 /\ at[p] \in HasLock /\ at[p] # "sleep_ide"
  BY Zenon DEF CacheInv, RefInv, Idle, HasLock
<1>2. cur[p] \in Bufs /\ buf[cur[p]].pid = p
  BY <1>1, Zenon DEF CacheInv, Typed, LockInv, Holds
<1>3. ~Queued(idequeue, cur[p])
  BY <1>1, <1>2, Zenon DEF CacheInv, QueueInv, InIderw
<1> QED
  BY <1>1, <1>2, <1>3, Zenon DEF CacheInv, Typed, DataInv, Has

\* The disk's request, when a buffer that is not in the queue changes.
LEMMA DeviceStays ==
  ASSUME CacheInv, NEW i \in Bufs, Others(i), ~Queued(idequeue, i), idequeue # << >>
  PROVE  /\ Head(idequeue) \in Bufs
         /\ device = Idestart(Head(idequeue), buf'[Head(idequeue)])
<1>1. Head(idequeue) \in Bufs /\ Queued(idequeue, Head(idequeue))
  BY QueueTail, Zenon DEF CacheInv, QueueInv, Typed
<1>2. Head(idequeue) # i
  BY <1>1, Zenon
<1>3. buf'[Head(idequeue)] = buf[Head(idequeue)]
  BY <1>1, <1>2, Zenon DEF Others
<1> QED
  BY <1>1, <1>3, Zenon DEF CacheInv, QueueInv, Working, Restart

\* Pinning is by the flags, so that fewer dirty buffers pin no more.
LEMMA RoomStays ==
  ASSUME CacheInv, Pinned' \in SUBSET Pinned
  PROVE  Room'
<1>1. IsFiniteSet(Pinned)
  <2>1. IsFiniteSet(Bufs)
    BY CacheConstants, FS_Interval DEF Bufs
  <2>2. Pinned \in SUBSET Bufs
    BY Zenon DEF Pinned
  <2> QED
    BY <2>1, <2>2, FS_Subset, Zenon
<1>2. IsFiniteSet(Pinned') /\ Cardinality(Pinned') <= Cardinality(Pinned)
  BY <1>1, FS_Subset, Zenon
<1>3. Cardinality(Pinned') \in Nat /\ Cardinality(Pinned) \in Nat
  BY <1>1, <1>2, FS_CardinalityType, Zenon
<1> QED
  BY <1>2, <1>3, CacheConstants DEF CacheInv, Room

\* acquiresleep finds the lock free.
LEMMA AcquireKeeps ==
  ASSUME CacheInv, NEW p \in Users, AcquireSleep(p), buf[cur[p]].pid = NoProc
  PROVE  CacheInv'
<1>1. PICK i : i = cur[p]
  BY Zenon
<1>2. /\ at[p] = "acquire" /\ buf' = [buf EXCEPT ![i].pid = p] /\ Goto(p, "locked")
      /\ UNCHANGED <<lru, idequeue, device, platter, cur>>
  BY <1>1, Zenon DEF AcquireSleep
<1>3. i \in Bufs /\ i # 0
  BY <1>1, <1>2, Zenon DEF CacheInv, RefInv, Idle, Typed
<1>4. at' \in [Users -> Places] /\ at'[p] = "locked" /\ Moves(p)
  BY <1>2, GotoMoves, Zenon DEF Moves, Places, HasLock
<1>5. buf \in [Bufs -> Buffer]
  BY Zenon DEF CacheInv, Typed
<1>6. buf[i] \in Buffer /\ [buf[i] EXCEPT !.pid = p] \in Buffer
  BY <1>3, <1>5, Zenon DEF Buffer
<1>7. buf' \in [Bufs -> Buffer] /\ Others(i) /\ buf'[i] = [buf[i] EXCEPT !.pid = p]
  BY <1>2, <1>3, <1>5, <1>6, Zenon DEF Others
<1>8. buf'[i].pid = p /\ buf'[i].refcnt = buf[i].refcnt /\ SameData(i)
  BY <1>6, <1>7, Zenon DEF Buffer, SameData
<1>9. \A j \in Bufs : SameData(j)
  BY <1>7, <1>8, Zenon DEF Others, SameData
<1>10. /\ Flags(i)' /\ Room' /\ Distinct(idequeue)' /\ Working'
       /\ \A j \in Bufs : Clean(j)'
  BY <1>2, <1>3, <1>9, DataFrame, Zenon
<1>11. Typed'
  BY <1>2, <1>4, <1>7, TypedAfter, Zenon DEF CacheInv, Typed
<1>12. ~Queued(idequeue, i)
  BY <1>1, <1>3, Zenon DEF CacheInv, QueueInv, InIderw
<1>13. at'[p] \in HasLock /\ Awaits(p)' /\ buf'[i].blockno = buf[i].blockno
  BY <1>4, <1>8, Zenon DEF HasLock, Awaits, SameData
<1>14. /\ \A j \in Bufs : j # i => (Queued(idequeue', j) <=> Queued(idequeue, j))
       /\ Queued(idequeue', i) => at'[p] = "sleep_ide"
  BY <1>2, <1>12, Zenon
<1>15. cur[p] = i /\ buf[i].pid = NoProc /\ cur' = cur /\ lru' = lru
  BY <1>1, <1>2, Zenon
<1>16. Has(p)'
  <2>1. buf[i].blockno # NoSector
    BY <1>1, <1>3, Zenon DEF CacheInv, DataInv, Has
  <2> QED
    BY <1>4, <1>13, <1>15, <2>1, Zenon DEF Has
<1> QED
  BY <1>3, <1>4, <1>7, <1>8, <1>10, <1>11, <1>13, <1>14, <1>15, <1>16,
     HolderStep, Zenon

\* log_write pins the buffer.
LEMMA LogWriteKeeps ==
  ASSUME CacheInv, NEW p \in Users, NEW v \in Values, LogWriteBuf(p, v)
  PROVE  CacheInv'
<1>1. PICK i : i = cur[p]
  BY Zenon
<1>2. /\ at[p] = "held" /\ buf' = [buf EXCEPT ![i].data = v, ![i].dirty = TRUE]
      /\ Cardinality(Pinned \cup {i}) <= MaxPinned
      /\ UNCHANGED <<lru, idequeue, device, platter, at, cur>>
  BY <1>1, Zenon DEF LogWriteBuf
<1>3. i \in Bufs /\ buf[i].pid = p /\ buf[i] \in Buffer /\ ~Queued(idequeue, i)
      /\ buf[i].blockno # NoSector
  BY <1>1, <1>2, NotQueued, Zenon
<1>4. buf \in [Bufs -> Buffer] /\ buf[i].valid = TRUE
  BY <1>1, <1>2, Zenon DEF CacheInv, Typed, DataInv, Has
<1>5. PICK b : b = [buf[i] EXCEPT !.data = v, !.dirty = TRUE]
  BY Zenon
<1>6. /\ b \in Buffer /\ b.pid = p /\ b.refcnt = buf[i].refcnt /\ b.blockno = buf[i].blockno
      /\ b.valid = TRUE /\ b.dirty = TRUE
  BY <1>3, <1>4, <1>5, Zenon DEF Buffer
<1>7. buf' \in [Bufs -> Buffer] /\ Others(i) /\ buf'[i] = b
  BY <1>2, <1>3, <1>4, <1>5, <1>6, Zenon DEF Others
<1>8. Typed'
  BY <1>2, <1>7, TypedAfter, Zenon DEF CacheInv, Typed
<1>9. Flags(i)' /\ \A j \in Bufs : Clean(j)'
  <2>1. Flags(i)' /\ Clean(i)'
    BY <1>3, <1>6, <1>7, Zenon DEF Flags, Clean
  <2>2. ASSUME NEW j \in Bufs, j # i PROVE Clean(j)'
    BY <1>2, <1>3, <1>7, <2>2, CleanOthers, Zenon
  <2> QED
    BY <2>1, <2>2, Zenon
<1>10. Room'
  <2>1. IsFiniteSet(Bufs)
    BY CacheConstants, FS_Interval DEF Bufs
  <2>2. Pinned \cup {i} \in SUBSET Bufs
    BY <1>3, Zenon DEF Pinned
  <2>3. Pinned' \in SUBSET (Pinned \cup {i})
    BY <1>2, <1>7, Zenon DEF Pinned, Others, Bufs
  <2>4. IsFiniteSet(Pinned \cup {i})
    BY <2>1, <2>2, FS_Subset, Zenon
  <2>5. IsFiniteSet(Pinned') /\ Cardinality(Pinned') <= Cardinality(Pinned \cup {i})
    BY <2>3, <2>4, FS_Subset, Zenon
  <2>6. Cardinality(Pinned') \in Nat /\ Cardinality(Pinned \cup {i}) \in Nat
    BY <2>4, <2>5, FS_CardinalityType, Zenon
  <2> QED
    BY <1>2, <2>5, <2>6, CacheConstants DEF Room
<1>11. Working'
  <2>1. CASE idequeue = << >>
    BY <1>2, <2>1, Zenon DEF CacheInv, QueueInv, Working, Restart, NoReq
  <2>2. CASE idequeue # << >>
    <3>1. device = Idestart(Head(idequeue), buf'[Head(idequeue)])
      BY <1>3, <1>7, <2>2, DeviceStays, Zenon
    <3> QED
      BY <1>2, <2>2, <3>1 DEF Working, Restart
  <2> QED
    BY <2>1, <2>2, Zenon
<1>12. /\ \A j \in Bufs : j # i => (Queued(idequeue', j) <=> Queued(idequeue, j))
       /\ Queued(idequeue', i) => at'[p] = "sleep_ide"
  BY <1>2, <1>3, Zenon
<1>13. Distinct(idequeue)' /\ Awaits(p)' /\ Moves(p)
  BY <1>2, Zenon DEF CacheInv, QueueInv, Distinct, Awaits, Moves
<1>14. at[p] \in HasLock /\ at'[p] \in HasLock /\ at'[p] = "held" /\ cur[p] = i /\ cur' = cur
       /\ lru' = lru
  BY <1>1, <1>2, Zenon DEF HasLock
<1>15. buf'[i].pid = p /\ buf'[i].blockno = buf[i].blockno /\ buf'[i].refcnt = buf[i].refcnt
       /\ buf'[i].valid = TRUE
  BY <1>6, <1>7, Zenon
<1>16. Has(p)'
  BY <1>3, <1>14, <1>15, Zenon DEF Has
<1> QED
  BY <1>3, <1>7, <1>8, <1>9, <1>10, <1>11, <1>12, <1>13, <1>14, <1>15, <1>16, HolderStep

\* iderw: the buffer joins the queue and its holder sleeps.
LEMMA IderwKeeps ==
  ASSUME CacheInv, NEW p \in Users, at[p] = "locked" \/ at[p] = "held",
         NEW b \in Buffer, b.pid = p, b.blockno = buf[cur[p]].blockno,
         b.refcnt = buf[cur[p]].refcnt, b.valid = b.dirty,
         Iderw(p, b), UNCHANGED <<lru, platter, cur>>
  PROVE  CacheInv'
<1>1. PICK i : i = cur[p]
  BY Zenon
<1>2. /\ buf' = [buf EXCEPT ![i] = b] /\ idequeue' = Append(idequeue, i)
      /\ device' = (IF idequeue = << >> THEN Idestart(i, b) ELSE device)
      /\ Goto(p, "sleep_ide")
  BY <1>1, Zenon DEF Iderw
<1>3. i \in Bufs /\ ~Queued(idequeue, i) /\ buf[i].blockno # NoSector
  BY <1>1, NotQueued, Zenon
<1>4. buf \in [Bufs -> Buffer] /\ idequeue \in Seq(Bufs) /\ Distinct(idequeue)
  BY Zenon DEF CacheInv, Typed, QueueInv
<1>5. buf' \in [Bufs -> Buffer] /\ Others(i) /\ buf'[i] = b
  BY <1>2, <1>3, <1>4, Zenon DEF Others
<1>6. /\ idequeue' \in Seq(Bufs) /\ Distinct(idequeue') /\ idequeue' # << >>
      /\ \A j : Queued(idequeue', j) <=> Queued(idequeue, j) \/ j = i
      /\ idequeue # << >> => Head(idequeue') = Head(idequeue)
      /\ idequeue = << >> => Head(idequeue') = i
  BY <1>2, <1>3, <1>4, QueueAppend, Zenon
<1>7. at' \in [Users -> Places] /\ at'[p] = "sleep_ide" /\ Moves(p)
  BY <1>2, GotoMoves, Zenon DEF Moves, Places, HasLock
<1>8. Typed'
  BY <1>5, <1>6, <1>7, TypedAfter, Zenon DEF CacheInv, Typed
<1>9. Flags(i)' /\ \A j \in Bufs : Clean(j)'
  <2>1. b.valid \in BOOLEAN
    BY Zenon DEF Buffer
  <2>2. Flags(i)' /\ Clean(i)'
    BY <1>1, <1>3, <1>5, <2>1, Zenon DEF Flags, Clean
  <2>3. ASSUME NEW j \in Bufs, j # i PROVE Clean(j)'
    BY <1>3, <1>5, <2>3, CleanOthers, Zenon
  <2> QED
    BY <2>2, <2>3, Zenon
<1>10. Room'
  <2>1. Pinned' \in SUBSET Pinned
    BY <1>5, <1>6, Zenon DEF Pinned, Others, Bufs
  <2> QED
    BY <2>1, RoomStays, Zenon
<1>11. Working'
  <2>1. CASE idequeue = << >>
    BY <1>2, <1>5, <1>6, <2>1, Zenon DEF Working, Restart
  <2>2. CASE idequeue # << >>
    <3>1. device = Idestart(Head(idequeue), buf'[Head(idequeue)])
      BY <1>3, <1>5, <2>2, DeviceStays, Zenon
    <3> QED
      BY <1>2, <1>6, <2>2, <3>1 DEF Working, Restart
  <2> QED
    BY <2>1, <2>2, Zenon
<1>12. /\ \A j \in Bufs : j # i => (Queued(idequeue', j) <=> Queued(idequeue, j))
       /\ Queued(idequeue', i)
  BY <1>6, Zenon
<1>13. at[p] \in HasLock /\ at'[p] \in HasLock /\ cur[p] = i /\ cur' = cur /\ lru' = lru
  BY <1>1, <1>7, Zenon DEF HasLock
<1>14. buf'[i].pid = p /\ buf'[i].blockno = buf[i].blockno /\ buf'[i].refcnt = buf[i].refcnt
  BY <1>1, <1>5, Zenon
<1>15. Awaits(p)' /\ Has(p)' /\ Distinct(idequeue)'
  <2>1. Awaits(p)'
    BY <1>12, <1>13, Zenon DEF Awaits
  <2>2. Has(p)'
    BY <1>3, <1>7, <1>13, <1>14, Zenon DEF Has
  <2>3. Distinct(idequeue)'
    BY <1>6, Zenon DEF Distinct
  <2> QED
    BY <2>1, <2>2, <2>3, Zenon
<1> QED
  BY <1>3, <1>5, <1>7, <1>8, <1>9, <1>10, <1>11, <1>12, <1>13, <1>14, <1>15, HolderStep

\* bread of a buffer that is not valid.
LEMMA BreadKeeps ==
  ASSUME CacheInv, NEW p \in Users, Bread(p)
  PROVE  CacheInv'
<1>1. at[p] = "locked" /\ UNCHANGED <<lru, platter, cur>>
  BY Zenon DEF Bread
<1>2. /\ cur[p] \in Bufs /\ buf[cur[p]].pid = p /\ buf[cur[p]] \in Buffer
  BY <1>1, NotQueued, Zenon
<1>3. CASE buf[cur[p]].valid = TRUE
  BY <1>3, BreadValidKeeps, Zenon
<1>4. CASE buf[cur[p]].valid = FALSE
  <2>1. buf[cur[p]].dirty = FALSE
    BY <1>2, <1>4, Zenon DEF CacheInv, DataInv, Flags, Buffer
  <2>2. Iderw(p, buf[cur[p]])
    BY <1>4, Zenon DEF Bread
  <2> QED
    BY <1>1, <1>2, <1>4, <2>1, <2>2, IderwKeeps, Zenon
<1> QED
  BY <1>2, <1>3, <1>4, Zenon DEF Buffer

\* bwrite.
LEMMA BwriteKeeps ==
  ASSUME CacheInv, NEW p \in Users, NEW v \in Values, Bwrite(p, v)
  PROVE  CacheInv'
<1>1. PICK b : b = [buf[cur[p]] EXCEPT !.data = v, !.dirty = TRUE]
  BY Zenon
<1>2. at[p] = "held" /\ Iderw(p, b) /\ UNCHANGED <<lru, platter, cur>>
  BY <1>1, Zenon DEF Bwrite
<1>3. /\ cur[p] \in Bufs /\ buf[cur[p]].pid = p /\ buf[cur[p]] \in Buffer
      /\ buf[cur[p]].valid = TRUE
  BY <1>2, NotQueued, Zenon DEF CacheInv, DataInv, Has
<1>4. /\ b \in Buffer /\ b.pid = p /\ b.blockno = buf[cur[p]].blockno
      /\ b.refcnt = buf[cur[p]].refcnt /\ b.valid = b.dirty
  BY <1>1, <1>3, Zenon DEF Buffer
<1> QED
  BY <1>2, <1>4, IderwKeeps, Zenon

\* What ideintr finds: the disk's request is that of the first buffer in the
\* queue, whose holder sleeps in iderw.
LEMMA AtInterrupt ==
  ASSUME CacheInv, Ideintr
  PROVE  \E i \in Bufs, p \in Users :
           /\ idequeue # << >> /\ i = Head(idequeue) /\ Queued(idequeue, i)
           /\ buf[i].pid = p /\ at[p] = "sleep_ide" /\ cur[p] = i
           /\ buf[i].blockno \in Sectors /\ device = Idestart(i, buf[i])
           /\ \A q \in Users : at[q] = "sleep_ide" /\ cur[q] = i => q = p
<1>1. idequeue # << >>
  BY Zenon DEF Ideintr, CacheInv, QueueInv, Working, Restart
<1>2. PICK i : i = Head(idequeue)
  BY Zenon
<1>3. i \in Bufs /\ Queued(idequeue, i)
  BY <1>1, <1>2, QueueTail, Zenon DEF CacheInv, QueueInv, Typed
<1>4. PICK p : p = buf[i].pid
  BY Zenon
<1>5. p # NoProc /\ at[p] = "sleep_ide"
  BY <1>3, <1>4, Zenon DEF CacheInv, QueueInv, InIderw
<1>6. p \in Users
  BY <1>3, <1>4, <1>5, Zenon DEF CacheInv, Typed, Buffer
<1>7. cur[p] = i
  BY <1>3, <1>4, <1>5, Zenon DEF CacheInv, LockInv, HeldBy
<1>8. i # 0
  BY <1>3, CacheConstants DEF Bufs
<1>9. buf[i].blockno \in Sectors
  BY <1>3, <1>6, <1>7, <1>8, Zenon DEF CacheInv, DataInv, Has, Typed, Buffer
<1>10. ASSUME NEW q \in Users, at[q] = "sleep_ide", cur[q] = i PROVE q = p
  BY <1>4, <1>10, Zenon DEF CacheInv, LockInv, Holds, HasLock
<1>11. device = Idestart(i, buf[i])
  BY <1>1, <1>2, Zenon DEF CacheInv, QueueInv, Working, Restart
<1> QED
  BY <1>1, <1>2, <1>3, <1>4, <1>5, <1>6, <1>7, <1>9, <1>10, <1>11

\* What ideintr does with it: its holder p goes on, and the disk has its data.
Interrupted(i, p) ==
  /\ Others(i) /\ buf' \in [Bufs -> Buffer]
  /\ buf'[i].pid = buf[i].pid /\ buf'[i].blockno = buf[i].blockno
  /\ buf'[i].refcnt = buf[i].refcnt /\ buf'[i].valid = TRUE /\ buf'[i].dirty = FALSE
  /\ buf'[i].data = platter'[buf[i].blockno]
  /\ buf[i].dirty = TRUE => buf'[i].data = buf[i].data
  /\ buf[i].dirty = FALSE => platter' = platter
  /\ platter' \in [Sectors -> Values]
  /\ \A n \in Sectors : n # buf[i].blockno => platter'[n] = platter[n]
  /\ at' \in [Users -> Places] /\ at'[p] = "ide" /\ Moves(p)

\* One request done.
LEMMA InterruptIs ==
  ASSUME CacheInv, Ideintr, NEW i \in Bufs, NEW p \in Users, i = Head(idequeue),
         at[p] = "sleep_ide", cur[p] = i,
         buf[i].blockno \in Sectors, device = Idestart(i, buf[i]),
         \A q \in Users : at[q] = "sleep_ide" /\ cur[q] = i => q = p
  PROVE  Interrupted(i, p)
<1>1. /\ platter' = (IF device.write THEN [platter EXCEPT ![device.block] = device.data] ELSE platter)
      /\ buf' = [buf EXCEPT ![i].valid = TRUE, ![i].dirty = FALSE,
               ![i].data = IF buf[i].dirty THEN buf[i].data ELSE platter[device.block]]
      /\ at' = [q \in Users |-> IF at[q] = "sleep_ide" /\ cur[q] = i THEN "ide" ELSE at[q]]
      /\ cur' = cur
  BY Zenon DEF Ideintr
<1>2. device.write = buf[i].dirty /\ device.block = buf[i].blockno /\ device.data = buf[i].data
  BY Zenon DEF Idestart
<1>3. buf \in [Bufs -> Buffer] /\ buf[i] \in Buffer /\ platter \in [Sectors -> Values]
      /\ at \in [Users -> Places]
  BY Zenon DEF CacheInv, Typed
<1>4. /\ platter' \in [Sectors -> Values]
      /\ \A n \in Sectors : n # buf[i].blockno => platter'[n] = platter[n]
      /\ platter'[buf[i].blockno] = IF buf[i].dirty THEN buf[i].data ELSE platter[buf[i].blockno]
      /\ buf[i].dirty = FALSE => platter' = platter
  BY <1>1, <1>2, <1>3, Zenon DEF Buffer
<1>5. PICK v : v = IF buf[i].dirty THEN buf[i].data ELSE platter[buf[i].blockno]
  BY Zenon
<1>6. v \in Values
  BY <1>3, <1>5, Zenon DEF Buffer
<1>7. PICK b : b = [buf[i] EXCEPT !.valid = TRUE, !.dirty = FALSE, !.data = v]
  BY Zenon
<1>8. /\ b \in Buffer /\ b.pid = buf[i].pid /\ b.blockno = buf[i].blockno /\ b.refcnt = buf[i].refcnt
      /\ b.valid = TRUE /\ b.dirty = FALSE /\ b.data = v
  BY <1>3, <1>6, <1>7, Zenon DEF Buffer
<1>9. buf' = [buf EXCEPT ![i] = b]
  BY <1>1, <1>2, <1>3, <1>5, <1>7, Zenon
<1>10. buf' \in [Bufs -> Buffer] /\ Others(i) /\ buf'[i] = b
  BY <1>3, <1>8, <1>9, Zenon DEF Others
<1>11. at' \in [Users -> Places] /\ at'[p] = "ide" /\ Moves(p)
  <2>1. "ide" \in Places
    BY Zenon DEF Places, HasLock
  <2>2. at' \in [Users -> Places] /\ at'[p] = "ide"
    BY <1>1, <1>3, <2>1, Zenon
  <2>3. \A q \in Users : q # p => at'[q] = at[q] /\ cur'[q] = cur[q]
    BY <1>1, Zenon
  <2> QED
    BY <2>2, <2>3, Zenon DEF Moves
<1>12. buf'[i].data = platter'[buf[i].blockno] /\ (buf[i].dirty = TRUE => buf'[i].data = buf[i].data)
  BY <1>4, <1>5, <1>8, <1>10, ZenonT(90)
<1> QED
  BY <1>4, <1>8, <1>10, <1>11, <1>12, Zenon DEF Interrupted

\* ideintr.
LEMMA IdeintrKeeps ==
  ASSUME CacheInv, Ideintr
  PROVE  CacheInv'
<1>1. PICK i \in Bufs, p \in Users :
           /\ idequeue # << >> /\ i = Head(idequeue) /\ Queued(idequeue, i)
           /\ buf[i].pid = p /\ at[p] = "sleep_ide" /\ cur[p] = i
           /\ buf[i].blockno \in Sectors /\ device = Idestart(i, buf[i])
           /\ \A q \in Users : at[q] = "sleep_ide" /\ cur[q] = i => q = p
  BY AtInterrupt, Zenon
<1>2. Interrupted(i, p)
  BY <1>1, InterruptIs, Zenon
<1>3. /\ idequeue' = Tail(idequeue) /\ device' = Restart(idequeue', buf') /\ UNCHANGED <<lru, cur>>
  BY Zenon DEF Ideintr
<1>4. /\ idequeue' \in Seq(Bufs) /\ Distinct(idequeue')
      /\ \A j : Queued(idequeue', j) <=> Queued(idequeue, j) /\ j # i
  BY <1>1, <1>3, QueueTail, Zenon DEF CacheInv, QueueInv, Typed
<1>5. Typed'
  BY <1>2, <1>3, <1>4, TypedAfter, ZenonT(90) DEF CacheInv, Typed, Interrupted
<1>6. i # 0 /\ buf[i].blockno # NoSector
  BY <1>1, CacheConstants DEF Bufs
<1>7. Flags(i)'
  BY <1>2, <1>6, Zenon DEF Flags, Interrupted
<1>8. ASSUME NEW j \in Bufs PROVE Clean(j)'
  <2>1. CASE j = i
    BY <1>2, <2>1, Zenon DEF Clean, Interrupted
  <2>2. CASE j # i
    <3>1. buf'[j] = buf[j] /\ Clean(j) /\ Flags(j) /\ Alone(i, j)
      BY <1>2, <2>2, Zenon DEF Others, CacheInv, DataInv, Interrupted
    <3>2. buf[j].valid = TRUE => buf[j].blockno # buf[i].blockno /\ buf[j].blockno # NoSector
      BY <1>6, <2>2, <3>1, Zenon DEF Alone, Flags
    <3>3. buf[j].valid = TRUE => buf[j].blockno \in Sectors
      BY <3>2, Zenon DEF CacheInv, Typed, Buffer
    <3>4. buf[j].valid = TRUE => platter'[buf[j].blockno] = platter[buf[j].blockno]
      BY <1>2, <3>2, <3>3, Zenon DEF Interrupted
    <3> QED
      BY <3>1, <3>4, Zenon DEF Clean
  <2> QED
    BY <2>1, <2>2, Zenon
<1>9. Room'
  <2>1. Pinned' \in SUBSET Pinned
    BY <1>2, <1>4, Zenon DEF Pinned, Others, Bufs, Interrupted
  <2> QED
    BY <2>1, RoomStays, Zenon
<1>10. Working' /\ Distinct(idequeue)'
  BY <1>3, <1>4, Zenon DEF Working, Distinct
<1>11. /\ \A j \in Bufs : j # i => (Queued(idequeue', j) <=> Queued(idequeue, j))
       /\ ~Queued(idequeue', i)
  BY <1>4, Zenon
<1>12. at[p] \in HasLock /\ at'[p] \in HasLock /\ cur' = cur /\ lru' = lru
  BY <1>1, <1>2, <1>3, Zenon DEF HasLock, Interrupted
<1>13. Awaits(p)' /\ Has(p)'
  BY <1>1, <1>2, <1>6, <1>12 DEF Awaits, Has, Interrupted
<1> QED
  BY <1>1, <1>2, <1>5, <1>7, <1>8, <1>9, <1>10, <1>11, <1>12, <1>13, HolderStep DEF Interrupted

\* releasesleep: the lock is free and everybody who waits for it tries again.
LEMMA ReleaseKeeps ==
  ASSUME CacheInv, NEW p \in Users, Releasesleep(p)
  PROVE  CacheInv'
<1>1. PICK i : i = cur[p]
  OBVIOUS
<1>2. /\ at[p] = "held" /\ buf' = [buf EXCEPT ![i].pid = NoProc]
      /\ at' = LockSleepersWake([at EXCEPT ![p] = "brelse"], i)
      /\ UNCHANGED <<lru, idequeue, device, platter, cur>>
  BY <1>1, Zenon DEF Releasesleep
<1>3. i \in Bufs /\ buf[i].pid = p /\ buf[i] \in Buffer /\ ~Queued(idequeue, i)
      /\ buf[i].blockno # NoSector
  BY <1>1, <1>2, NotQueued, Zenon
<1>4. buf \in [Bufs -> Buffer] /\ at \in [Users -> Places] /\ cur \in [Users -> Bufs \cup {0}]
  BY Zenon DEF CacheInv, Typed
<1>5. PICK b : b = [buf[i] EXCEPT !.pid = NoProc]
  BY Zenon
<1>6. /\ b \in Buffer /\ b.pid = NoProc /\ b.refcnt = buf[i].refcnt /\ b.blockno = buf[i].blockno
      /\ b.valid = buf[i].valid /\ b.dirty = buf[i].dirty /\ b.data = buf[i].data
  BY <1>3, <1>5, Zenon DEF Buffer
<1>7. buf' \in [Bufs -> Buffer] /\ Others(i) /\ buf'[i] = b
  BY <1>2, <1>3, <1>4, <1>5, <1>6, Zenon DEF Others
<1>8. /\ at' \in [Users -> Places] /\ at'[p] = "brelse"
      /\ \A q \in Users : q # p =>
           at'[q] = IF at[q] = "sleep_lock" /\ cur[q] = i THEN "acquire" ELSE at[q]
  BY <1>2, <1>4, Zenon DEF LockSleepersWake, Places
<1>9. \A j \in Bufs : SameData(j) /\ buf'[j].refcnt = buf[j].refcnt
  BY <1>6, <1>7, Zenon DEF Others, SameData
<1>10. /\ Room' /\ Distinct(idequeue)' /\ Working'
       /\ \A j \in Bufs : Flags(j)' /\ Clean(j)'
       /\ \A j, k \in Bufs : Alone(j, k)'
  BY <1>2, <1>9, DataFrame, Zenon
<1>11. Typed'
  BY <1>2, <1>7, <1>8, TypedAfter, Zenon DEF CacheInv, Typed
<1>12. Listed'
  BY <1>2, Zenon DEF CacheInv, Listed, Bufs
<1>13. RefInv'
  <2>1. ASSUME NEW q \in Users PROVE Idle(q)'
    <3>1. cur'[q] = cur[q] /\ Idle(q) /\ Idle(p)
      BY <1>2, Zenon DEF CacheInv, RefInv
    <3>2. CASE q = p
      BY <1>2, <1>8, <3>1, <3>2, Zenon DEF Idle
    <3>3. CASE q # p
      BY <1>8, <3>1, <3>3, Zenon DEF Idle
    <3> QED
      BY <3>2, <3>3, Zenon
  <2>2. \A j \in Bufs : Counted(j)'
    BY <1>2, <1>9, Zenon DEF CacheInv, RefInv, Counted, Sharers
  <2> QED
    BY <2>1, <2>2, Zenon DEF RefInv, Bufs
<1>14. ASSUME NEW q \in Users PROVE Placed(q)'
  <2>1. CASE q = p
    BY <1>1, <1>2, <1>3, <1>6, <1>7, <1>8, <2>1 DEF Placed, Holds, Waits, Awaits, Has, HasLock
  <2>2. CASE q # p /\ cur[q] # i
    BY <1>2, <1>3, <1>7, <1>8, <2>2, OtherUser, ZenonT(90)
  <2>3. CASE q # p /\ cur[q] = i
    <3>1. ~(at[q] \in HasLock)
      BY <1>3, <2>3, Zenon DEF CacheInv, LockInv, Holds
    <3>2. ~(at'[q] \in HasLock) /\ at'[q] # "sleep_lock"
      BY <1>8, <2>3, <3>1, Zenon DEF HasLock
    <3>3. cur'[q] = i
      BY <1>2, <2>3, Zenon
    <3> QED
      BY <1>3, <1>6, <1>7, <3>2, <3>3, Zenon DEF Placed, Holds, Waits, Awaits, Has, HasLock
  <2> QED
    BY <2>1, <2>2, <2>3, Zenon
<1>15. ASSUME NEW j \in Bufs PROVE HeldBy(j)' /\ InIderw(j)'
  <2>1. CASE j = i
    BY <1>2, <1>3, <1>6, <1>7, <2>1, Zenon DEF HeldBy, InIderw
  <2>2. CASE j # i
    <3>1. \A q \in Users : cur[q] = j /\ at[q] \in HasLock => at'[q] = at[q] /\ cur'[q] = cur[q]
      BY <1>1, <1>2, <1>8, <2>2, Zenon
    <3> QED
      BY <1>2, <1>3, <1>7, <2>2, <3>1, OtherBuffer, Zenon
  <2> QED
    BY <2>1, <2>2, Zenon
<1> QED
  BY <1>10, <1>11, <1>12, <1>13, <1>14, <1>15, InvAfter, Zenon
-------------------------------------------------------------------------------
(* bget recycles a buffer. *)

\* Nobody refers to a buffer that may be recycled, nobody holds its lock, and
\* it is not in the driver's queue.
LEMMA RecyclableIsFree ==
  ASSUME CacheInv, NEW i \in Bufs, Recyclable(i)
  PROVE  /\ \A q \in Users : cur[q] # i
         /\ buf[i].pid = NoProc /\ ~Queued(idequeue, i) /\ buf[i].dirty = FALSE
<1>1. buf[i] \in Buffer
  BY Zenon DEF CacheInv, Typed
<1>2. Cardinality(Sharers(cur, i)) = 0
  BY Zenon DEF CacheInv, RefInv, Counted, Recyclable
<1>3. \A q \in Users : cur[q] # i
  BY <1>2, SharersSome, Zenon
<1>4. buf[i].pid = NoProc
  BY <1>1, <1>3, Zenon DEF CacheInv, LockInv, HeldBy, Buffer
<1>5. ~Queued(idequeue, i)
  BY <1>4, Zenon DEF CacheInv, QueueInv, InIderw
<1> QED
  BY <1>1, <1>3, <1>4, <1>5, Zenon DEF Recyclable, Buffer

\* bget makes buffer i the buffer of block n, which no buffer has.
LEMMA RecycleKeeps ==
  ASSUME CacheInv, NEW p \in Users, NEW n \in Sectors, at[p] = "idle",
         \A j \in Bufs : buf[j].blockno # n, NEW i \in Bufs, Recyclable(i),
         buf' = [buf EXCEPT ![i].blockno = n, ![i].refcnt = 1,
                            ![i].valid = FALSE, ![i].dirty = FALSE],
         cur' = [cur EXCEPT ![p] = i], Goto(p, "acquire"),
         UNCHANGED <<lru, idequeue, device, platter>>
  PROVE  CacheInv'
<1>1. /\ \A q \in Users : cur[q] # i
      /\ buf[i].pid = NoProc /\ ~Queued(idequeue, i) /\ buf[i].dirty = FALSE
  BY RecyclableIsFree, Zenon
<1>2. cur[p] = 0 /\ i # 0 /\ n # NoSector /\ buf[i].refcnt = 0
  BY CacheConstants DEF CacheInv, RefInv, Idle, Bufs, Recyclable
<1>3. buf \in [Bufs -> Buffer] /\ buf[i] \in Buffer /\ cur \in [Users -> Bufs \cup {0}]
  BY Zenon DEF CacheInv, Typed
<1>4. PICK b : b = [buf[i] EXCEPT !.blockno = n, !.refcnt = 1, !.valid = FALSE, !.dirty = FALSE]
  BY Zenon
<1>5. /\ b \in Buffer /\ b.blockno = n /\ b.refcnt = 1 /\ b.valid = FALSE /\ b.dirty = FALSE
      /\ b.pid = NoProc
  BY <1>1, <1>3, <1>4, Zenon DEF Buffer
<1>6. buf' \in [Bufs -> Buffer] /\ Others(i) /\ buf'[i] = b
  BY <1>3, <1>4, <1>5, Zenon DEF Others
<1>7. at' \in [Users -> Places] /\ at'[p] = "acquire" /\ Moves(p) /\ cur'[p] = i
      /\ cur' \in [Users -> Bufs \cup {0}]
  BY <1>3, GotoMoves, Zenon DEF Moves, Places
<1>8. Typed'
  BY <1>6, <1>7, TypedAfter, Zenon DEF CacheInv, Typed
<1>9. Listed'
  BY Zenon DEF CacheInv, Listed, Bufs
<1>10. RefInv'
  <2>1. Idle(p)'
    BY <1>2, <1>7, Zenon DEF Idle
  <2>2. buf'[i].refcnt = buf[i].refcnt + 1 /\ \A j \in Bufs : j # i => buf'[j].refcnt = buf[j].refcnt
    BY <1>2, <1>5, <1>6 DEF Others
  <2> QED
    BY <1>2, <1>7, <2>1, <2>2, RefsAdd, ZenonT(90)
<1>11. /\ \A j \in Bufs : Flags(j)' /\ Clean(j)'
       /\ \A j, k \in Bufs : Alone(j, k)'
  <2>1. Flags(i)' /\ Clean(i)'
    BY <1>5, <1>6, Zenon DEF Flags, Clean
  <2>2. ASSUME NEW j \in Bufs, j # i PROVE Clean(j)'
    BY <1>6, <2>2, CleanOthers, ZenonT(90)
  <2>3. ASSUME NEW j \in Bufs PROVE Alone(i, j)'
    BY <1>5, <1>6, ZenonT(90) DEF Alone, Others
  <2>4. \A j \in Bufs : Clean(j)'
    BY <2>1, <2>2, Zenon
  <2> QED
    BY <1>6, <2>1, <2>3, <2>4, OneChanges, Zenon
<1>12. Room'
  <2>1. Pinned' \in SUBSET Pinned
    BY <1>5, <1>6, Zenon DEF Pinned, Others, Bufs
  <2> QED
    BY <2>1, RoomStays, Zenon
<1>13. Working' /\ Distinct(idequeue)'
  <2>1. CASE idequeue = << >>
    BY <2>1 DEF CacheInv, QueueInv, Working, Restart, NoReq, Distinct
  <2>2. CASE idequeue # << >>
    <3>1. device = Idestart(Head(idequeue), buf'[Head(idequeue)])
      BY <1>1, <1>6, <2>2, DeviceStays, Zenon
    <3> QED
      BY <2>2, <3>1, Zenon DEF CacheInv, QueueInv, Working, Restart, Distinct
  <2> QED
    BY <2>1, <2>2, Zenon
<1>14. ASSUME NEW q \in Users PROVE Placed(q)'
  <2>1. CASE q = p
    BY <1>2, <1>5, <1>6, <1>7, <2>1, Zenon DEF Placed, Holds, Waits, Awaits, Has, HasLock
  <2>2. CASE q # p
    BY <1>1, <1>6, <1>7, <2>2, OtherUser, Zenon DEF Moves
  <2> QED
    BY <2>1, <2>2, Zenon
<1>15. ASSUME NEW j \in Bufs PROVE HeldBy(j)' /\ InIderw(j)'
  <2>1. CASE j = i
    BY <1>1, <1>5, <1>6, <2>1, Zenon DEF HeldBy, InIderw
  <2>2. CASE j # i
    <3>1. \A q \in Users : cur[q] = j /\ at[q] \in HasLock => at'[q] = at[q] /\ cur'[q] = cur[q]
      BY <1>7, Zenon DEF Moves, HasLock
    <3> QED
      BY <1>6, <2>2, <3>1, OtherBuffer
  <2> QED
    BY <2>1, <2>2, Zenon
<1> QED
  BY <1>8, <1>9, <1>10, <1>11, <1>12, <1>13, <1>14, <1>15, InvAfter, Zenon

\* bget, in its three cases.
LEMMA BgetKeeps ==
  ASSUME CacheInv, NEW p \in Users, NEW n \in Sectors, Bget(p, n)
  PROVE  CacheInv'
<1>1. at[p] = "idle" /\ UNCHANGED <<lru, idequeue, device, platter>>
  BY Zenon DEF Bget
<1>2. CASE \E j \in Bufs : buf[j].blockno = n
  <2>1. PICK i \in {j \in Bufs : buf[j].blockno = n} :
          /\ buf' = [buf EXCEPT ![i].refcnt = @ + 1]
          /\ cur' = [cur EXCEPT ![p] = i]
          /\ Goto(p, "acquire")
    BY <1>2, ZenonT(90) DEF Bget
  <2> QED
    BY <1>1, <2>1, BgetHitKeeps, Zenon
<1>3. CASE ~(\E j \in Bufs : buf[j].blockno = n) /\ \E j \in Bufs : Recyclable(j)
  <2>1. PICK i : i = Victim
    BY Zenon
  <2>2. i \in Bufs /\ Recyclable(i)
    BY <1>3, <2>1, VictimFound, Zenon DEF CacheInv
  <2>3. /\ buf' = [buf EXCEPT ![i].blockno = n, ![i].refcnt = 1,
                              ![i].valid = FALSE, ![i].dirty = FALSE]
        /\ cur' = [cur EXCEPT ![p] = i]
        /\ Goto(p, "acquire")
    BY <1>3, <2>1, Zenon DEF Bget
  <2> QED
    BY <1>1, <1>3, <2>2, <2>3, RecycleKeeps, ZenonT(90)
<1>4. CASE ~(\E j \in Bufs : buf[j].blockno = n) /\ ~(\E j \in Bufs : Recyclable(j))
  <2>1. Goto(p, "panic") /\ UNCHANGED <<buf, cur>>
    BY <1>4, Zenon DEF Bget
  <2>2. at'[p] = "panic" /\ cur[p] = 0
    BY <1>1, <2>1, GotoMoves, Zenon DEF Places, CacheInv, RefInv, Idle
  <2>3. Idle(p)' /\ Placed(p)'
    BY <2>1, <2>2, Zenon DEF Idle, Placed, Holds, Waits, Awaits, Has, HasLock
  <2> QED
    BY <1>1, <2>1, <2>3, GotoKeeps, Zenon DEF Places, HasLock
<1> QED
  BY <1>2, <1>3, <1>4, Zenon
-------------------------------------------------------------------------------
(* The theorems. *)

\* binit, an idle disk and no process inside the cache.
LEMMA CacheInitInv == CacheInit => CacheInv
<1> SUFFICES ASSUME CacheInit PROVE CacheInv
  BY Zenon
<1>1. \A i \in Bufs : /\ buf[i].blockno = NoSector /\ buf[i].refcnt = 0 /\ buf[i].valid = FALSE
                      /\ buf[i].dirty = FALSE /\ buf[i].pid = NoProc
  BY Zenon DEF CacheInit
<1>2. \A p \in Users : at[p] = "idle" /\ cur[p] = 0
  BY Zenon DEF CacheInit
<1>3. ~\E j : Queued(idequeue, j)
  BY DEF CacheInit, Queued
<1>4. Typed
  <2>1. buf \in [Bufs -> Buffer]
    BY CacheConstants, Zenon DEF CacheInit, Buffer
  <2>2. lru \in [Bufs -> Bufs]
    BY CacheConstants DEF CacheInit, Bufs
  <2>3. idequeue \in Seq(Bufs) /\ platter \in [Sectors -> Values]
    BY CacheConstants DEF CacheInit
  <2>4. at \in [Users -> Places] /\ cur \in [Users -> Bufs \cup {0}]
    BY Zenon DEF CacheInit, Places
  <2> QED
    BY <2>1, <2>2, <2>3, <2>4, Zenon DEF Typed
<1>5. Listed
  <2>1. ASSUME NEW i \in Bufs PROVE \E k \in Bufs : lru[k] = i
    <3>1. PICK k : k = NBUF + 1 - i
      BY Zenon
    <3>2. k \in Bufs /\ NBUF + 1 - k = i
      BY <3>1, CacheConstants DEF Bufs
    <3> QED
      BY <3>2, Zenon DEF CacheInit
  <2> QED
    BY <2>1, Zenon DEF Listed
<1>6. RefInv
  <2>1. \A i \in Bufs : i # 0
    BY CacheConstants DEF Bufs
  <2>2. ASSUME NEW i \in Bufs PROVE Counted(i)
    <3>1. Cardinality(Sharers(cur, i)) = 0
      BY <1>2, <2>1, SharersSome, Zenon
    <3> QED
      BY <1>1, <3>1, Zenon DEF Counted
  <2>3. \A p \in Users : Idle(p)
    BY <1>2, Zenon DEF Idle
  <2> QED
    BY <2>2, <2>3, Zenon DEF RefInv
<1>7. LockInv
  BY <1>1, <1>2, Zenon DEF LockInv, Holds, HeldBy, Waits, HasLock
<1>8. QueueInv
  <2>1. Distinct(idequeue) /\ Working
    BY DEF CacheInit, Distinct, Working, Restart
  <2> QED
    BY <1>2, <1>3, <2>1, Zenon DEF QueueInv, InIderw, Awaits
<1>9. DataInv
  BY <1>1, <1>2, Zenon DEF DataInv, Flags, Has, Alone, Clean
<1>10. Room
  <2>1. Pinned = {}
    BY <1>1, Zenon DEF Pinned
  <2> QED
    BY <2>1, FS_EmptySet, CacheConstants DEF Room
<1> QED
  BY <1>4, <1>5, <1>6, <1>7, <1>8, <1>9, <1>10 DEF CacheInv

\* Every step of a process and every interrupt preserves the invariant.
LEMMA CacheNextInv == CacheInv /\ [CacheNext]_cacheVars => CacheInv'
<1> SUFFICES ASSUME CacheInv, [CacheNext]_cacheVars PROVE CacheInv'
  BY Zenon
<1>1. ASSUME NEW p \in Users, Step(p) PROVE CacheInv'
  <2>1. CASE AcquireSleep(p)
    BY <2>1, SleepKeeps, AcquireKeeps, Zenon
  <2>2. CASE Bread(p)
    BY <2>2, BreadKeeps, Zenon
  <2>3. CASE IderwAgain(p)
    BY <2>3, IderwAgainKeeps
  <2>4. CASE Releasesleep(p)
    BY <2>4, ReleaseKeeps
  <2>5. CASE Brelse(p)
    BY <2>5, BrelseKeeps
  <2> QED
    BY <1>1, <2>1, <2>2, <2>3, <2>4, <2>5 DEF Step
<1>2. ASSUME NEW p \in Users, NEW n \in Sectors, Bget(p, n) PROVE CacheInv'
  BY <1>2, BgetKeeps, Zenon
<1>3. ASSUME NEW p \in Users, NEW v \in Values, Bwrite(p, v) \/ LogWriteBuf(p, v) PROVE CacheInv'
  BY <1>3, BwriteKeeps, LogWriteKeeps, Zenon
<1>4. CASE Ideintr
  BY <1>4, IdeintrKeeps, Zenon
<1>5. CASE UNCHANGED cacheVars
  <2>1. UNCHANGED <<buf, lru, idequeue, device, platter, at, cur>>
    BY <1>5, Zenon DEF cacheVars
  <2>2. Typed' /\ Listed' /\ RefInv'
    BY <2>1 DEF CacheInv, Typed, Listed, RefInv, Idle, Counted, Sharers, Bufs, Buffer, Places, HasLock
  <2>3. LockInv' /\ QueueInv'
    BY <2>1 DEF CacheInv, LockInv, QueueInv, Holds, HeldBy, Waits, Distinct, InIderw, Awaits,
       Working, Restart, NoReq, Idestart, Bufs, HasLock
  <2>4. DataInv' /\ Room'
    BY <2>1, Zenon DEF CacheInv, DataInv, Room, Flags, Has, Alone, Clean, Pinned, Bufs
  <2> QED
    BY <2>2, <2>3, <2>4, Zenon DEF CacheInv
<1> QED
  BY <1>1, <1>2, <1>3, <1>4, <1>5, Zenon DEF CacheNext

\* The invariant holds in every state of every behaviour of the cache.
THEOREM CacheInvariance == CacheSpec => []CacheInv
BY CacheInitInv, CacheNextInv, PTL DEF CacheSpec

\* acquiresleep and iderw, for any number of processes, buffers and requests: a
\* process sleeps for a lock only while somebody holds it, and for the disk only
\* while its buffer is in the queue, and then the disk works on the first.
THEOREM SleepersAreWoken == CacheSpec => []SleeperHasWaker
<1>1. CacheInv => SleeperHasWaker
  <2> SUFFICES ASSUME CacheInv PROVE SleeperHasWaker
    BY Zenon
  <2>1. \A p \in Users : Waits(p) /\ Awaits(p)
    BY Zenon DEF CacheInv, LockInv, QueueInv
  <2>2. idequeue = << >> => device = NoReq
    BY Zenon DEF CacheInv, QueueInv, Working, Restart
  <2>3. idequeue # << >> => device = Idestart(Head(idequeue), buf[Head(idequeue)])
    BY Zenon DEF CacheInv, QueueInv, Working, Restart
  <2>4. idequeue # << >> => device.buf = Head(idequeue)
    BY <2>3 DEF Idestart
  <2> QED
    BY <2>1, <2>2, <2>4, Zenon DEF SleeperHasWaker, Waits, Awaits
<1> QED
  BY <1>1, CacheInvariance, PTL

\* The buffers that the processes other than p refer to.
Taken(p) == {cur[q] : q \in Users \ {p}}

\* They are at most as many as these processes.
LEMMA TakenIsSmall ==
  ASSUME NEW p \in Users
  PROVE  /\ IsFiniteSet(Taken(p)) /\ Cardinality(Taken(p)) \in Nat
         /\ Cardinality(Taken(p)) <= Cardinality(Users) - 1
<1>1. PICK f : f = [q \in Users \ {p} |-> cur[q]]
  BY Zenon
<1>2. f \in Surjection(Users \ {p}, Taken(p))
  BY <1>1, Zenon DEF Surjection, Taken
<1>3. IsFiniteSet(Users \ {p}) /\ Cardinality(Users \ {p}) = Cardinality(Users) - 1
  BY CacheConstants, FS_RemoveElement, Zenon
<1>4. IsFiniteSet(Taken(p)) /\ Cardinality(Taken(p)) <= Cardinality(Users \ {p})
  BY <1>2, <1>3, FS_Surjection, Zenon
<1> QED
  BY <1>3, <1>4, FS_CardinalityType, Zenon

\* A process without a buffer finds one: the others have at most one each, and
\* the rest are not all pinned.
LEMMA OneIsLeft ==
  ASSUME CacheInv, Cardinality(Users) + MaxPinned <= NBUF, NEW p \in Users, cur[p] = 0
  PROVE  \E i \in Bufs : Recyclable(i)
<1> SUFFICES ASSUME \A i \in Bufs : ~Recyclable(i) PROVE FALSE
  BY Zenon
<1>1. ASSUME NEW i \in Bufs PROVE i \in Taken(p) \cup Pinned
  <2>0. i # 0 /\ ~Recyclable(i) /\ buf[i] \in Buffer
    BY CacheConstants DEF Bufs, CacheInv, Typed
  <2>1. CASE \E q \in Users : cur[q] = i
    BY <2>0, <2>1, Zenon DEF Taken
  <2>2. CASE \A q \in Users : cur[q] # i
    <3>1. Cardinality(Sharers(cur, i)) = 0
      BY <2>2, SharersSome, Zenon
    <3>2. buf[i].refcnt = 0
      BY <3>1, Zenon DEF CacheInv, RefInv, Counted
    <3>3. buf[i].dirty
      BY <2>0, <3>2, Zenon DEF Recyclable
    <3>4. buf[i].pid = NoProc
      BY <2>0, <2>2, Zenon DEF CacheInv, LockInv, HeldBy, Buffer
    <3>5. ~Queued(idequeue, i)
      BY <3>4, Zenon DEF CacheInv, QueueInv, InIderw
    <3> QED
      BY <3>3, <3>5, Zenon DEF Pinned
  <2> QED
    BY <2>1, <2>2, Zenon
<1>2. IsFiniteSet(Bufs) /\ Cardinality(Bufs) = NBUF
  BY CacheConstants, FS_Interval DEF Bufs
<1>3. IsFiniteSet(Pinned)
  <2>1. Pinned \in SUBSET Bufs
    BY Zenon DEF Pinned
  <2> QED
    BY <1>2, <2>1, FS_Subset, Zenon
<1>4. /\ IsFiniteSet(Taken(p)) /\ Cardinality(Taken(p)) \in Nat
      /\ Cardinality(Taken(p)) <= Cardinality(Users) - 1
  BY TakenIsSmall, Zenon
<1>5. /\ IsFiniteSet(Taken(p) \cup Pinned)
      /\ Cardinality(Taken(p) \cup Pinned) =
           Cardinality(Taken(p)) + Cardinality(Pinned) - Cardinality(Taken(p) \cap Pinned)
  BY <1>3, <1>4, FS_Union, Zenon
<1>6. Cardinality(Bufs) <= Cardinality(Taken(p) \cup Pinned)
  <2>1. Bufs \in SUBSET (Taken(p) \cup Pinned)
    BY <1>1, Zenon
  <2> QED
    BY <1>5, <2>1, FS_Subset, Zenon
<1>7. Cardinality(Taken(p) \cap Pinned) \in Nat
  <2>1. Taken(p) \cap Pinned \in SUBSET Pinned
    BY Zenon
  <2>2. IsFiniteSet(Taken(p) \cap Pinned)
    BY <1>3, <2>1, FS_Subset, Zenon
  <2> QED
    BY <2>2, FS_CardinalityType, Zenon
<1>8. Cardinality(Pinned) \in Nat /\ Cardinality(Users) \in Nat /\ Cardinality(Pinned) <= MaxPinned
  BY <1>3, CacheConstants, FS_CardinalityType, Zenon DEF CacheInv, Room
<1> QED
  BY <1>2, <1>4, <1>5, <1>6, <1>7, <1>8, CacheConstants

\* bget: if every process can have a buffer beside the pinned ones, the panic at
\* the end of bget is out of reach, whatever is recycled, held or pinned when.
THEOREM EnoughBuffers ==
  ASSUME Cardinality(Users) + MaxPinned <= NBUF
  PROVE  CacheSpec => []BufferForEveryone
<1>1. CacheInit => BufferForEveryone
  BY Zenon DEF CacheInit, BufferForEveryone
<1>2. ASSUME CacheInv, BufferForEveryone, [CacheNext]_cacheVars PROVE BufferForEveryone'
  <2>0. /\ \A p \in Users : at[p] # "panic"
        /\ at \in [Users -> Places]
    BY <1>2, Zenon DEF BufferForEveryone, CacheInv, Typed
  <2>1. ASSUME NEW p \in Users, NEW l, l # "panic", Goto(p, l) PROVE BufferForEveryone'
    BY <2>0, <2>1, Zenon DEF BufferForEveryone, Goto
  <2>2. ASSUME NEW p \in Users, NEW n \in Sectors, Bget(p, n) PROVE BufferForEveryone'
    <3>1. cur[p] = 0
      BY <1>2, <2>2, Zenon DEF Bget, CacheInv, RefInv, Idle
    <3>2. \E i \in Bufs : Recyclable(i)
      BY <1>2, <3>1, OneIsLeft, Zenon
    <3>3. Goto(p, "acquire")
      BY <2>2, <3>2, Zenon DEF Bget
    <3> QED
      BY <2>1, <3>3, Zenon
  <2>3. ASSUME NEW p \in Users, Step(p) PROVE BufferForEveryone'
    <3>1. CASE AcquireSleep(p)
      BY <2>1, <3>1, Zenon DEF AcquireSleep
    <3>2. CASE Bread(p)
      BY <2>1, <3>2, Zenon DEF Bread, Iderw
    <3>3. CASE IderwAgain(p)
      BY <2>1, <3>3, Zenon DEF IderwAgain
    <3>4. CASE Releasesleep(p)
      BY <2>0, <3>4, Zenon DEF Releasesleep, LockSleepersWake, BufferForEveryone
    <3>5. CASE Brelse(p)
      BY <2>1, <3>5, Zenon DEF Brelse
    <3> QED
      BY <2>3, <3>1, <3>2, <3>3, <3>4, <3>5, Zenon DEF Step
  <2>4. ASSUME NEW p \in Users, NEW v \in Values, Bwrite(p, v) \/ LogWriteBuf(p, v)
        PROVE  BufferForEveryone'
    BY <2>0, <2>1, <2>4, Zenon DEF Bwrite, Iderw, LogWriteBuf, BufferForEveryone
  <2>5. CASE Ideintr
    BY <2>0, <2>5, Zenon DEF Ideintr, BufferForEveryone
  <2>6. CASE UNCHANGED cacheVars
    BY <2>0, <2>6, Zenon DEF cacheVars, BufferForEveryone
  <2> QED
    BY <1>2, <2>2, <2>3, <2>4, <2>5, <2>6, Zenon DEF CacheNext
<1>3. CacheInv /\ BufferForEveryone /\ [CacheNext]_cacheVars => BufferForEveryone'
  BY <1>2, Zenon
<1> QED
  BY <1>1, <1>3, CacheInvariance, PTL DEF CacheSpec
-------------------------------------------------------------------------------
(* The cache implements AtomicBlocks. *)

\* Buffer i has the contents of block b, and process p has block b to itself.
Caches(i, b) == buf[i].blockno = b /\ buf[i].valid = TRUE
Owns(p, b) == /\ at[p] \in {"held", "ide", "sleep_ide"}
              /\ buf[cur[p]].valid = TRUE /\ buf[cur[p]].blockno = b

\* What AtomicBlocks sees of a state.
View ==
  \A b \in Sectors :
    /\ \A i \in Bufs : Caches(i, b) => Contents(b) = buf[i].data
    /\ (\A i \in Bufs : ~Caches(i, b)) => Contents(b) = platter[b]
    /\ \A p \in Users : Owns(p, b) => Owner(b) = p
    /\ (\A p \in Users : ~Owns(p, b)) => Owner(b) = NoProc

\* One buffer has a block.
LEMMA OneCaches ==
  ASSUME CacheInv, NEW b \in Sectors, NEW i \in Bufs, NEW j \in Bufs, Caches(i, b), Caches(j, b)
  PROVE  i = j
<1>1. Alone(i, j) /\ b # NoSector
  BY CacheConstants, Zenon DEF CacheInv, DataInv
<1> QED
  BY <1>1, Zenon DEF Alone, Caches

\* The process that has a block holds the lock of its buffer.
LEMMA OwnerHolds ==
  ASSUME CacheInv, NEW b \in Sectors, NEW p \in Users, Owns(p, b)
  PROVE  cur[p] \in Bufs /\ buf[cur[p]].pid = p /\ Caches(cur[p], b)
<1>1. at[p] \in HasLock /\ cur[p] # 0
  BY Zenon DEF Owns, HasLock, CacheInv, RefInv, Idle
<1>2. cur[p] \in Bufs
  BY <1>1, Zenon DEF CacheInv, Typed
<1>3. buf[cur[p]].pid = p
  BY <1>1, Zenon DEF CacheInv, LockInv, Holds
<1> QED
  BY <1>2, <1>3, Zenon DEF Owns, Caches

\* One process has a block.
LEMMA OneOwns ==
  ASSUME CacheInv, NEW b \in Sectors, NEW p \in Users, NEW q \in Users, Owns(p, b), Owns(q, b)
  PROVE  p = q
<1>1. cur[p] \in Bufs /\ buf[cur[p]].pid = p /\ Caches(cur[p], b)
  BY OwnerHolds, Zenon
<1>2. cur[q] \in Bufs /\ buf[cur[q]].pid = q /\ Caches(cur[q], b)
  BY OwnerHolds, Zenon
<1>3. cur[p] = cur[q]
  BY <1>1, <1>2, OneCaches, Zenon
<1> QED
  BY <1>1, <1>2, <1>3, Zenon

\* The view of a block.
LEMMA Viewed == CacheInv => View
<1> SUFFICES ASSUME CacheInv, NEW b \in Sectors
             PROVE  /\ \A i \in Bufs : Caches(i, b) => Contents(b) = buf[i].data
                    /\ (\A i \in Bufs : ~Caches(i, b)) => Contents(b) = platter[b]
                    /\ \A p \in Users : Owns(p, b) => Owner(b) = p
                    /\ (\A p \in Users : ~Owns(p, b)) => Owner(b) = NoProc
  BY Zenon DEF View
<1>1. ASSUME NEW i \in Bufs PROVE i \in Caching(b) <=> Caches(i, b)
  <2>1. buf[i].valid \in BOOLEAN
    BY Zenon DEF CacheInv, Typed, Buffer
  <2> QED
    BY <2>1, Zenon DEF Caching, Caches
<1>2. ASSUME NEW p \in Users PROVE p \in Holding(b) <=> Owns(p, b)
  <2>1. CASE cur[p] = 0
    BY <2>1, Zenon DEF Holding, Owns, CacheInv, RefInv, Idle
  <2>2. CASE cur[p] # 0
    <3>1. cur[p] \in Bufs
      BY <2>2, Zenon DEF CacheInv, Typed
    <3>2. buf[cur[p]].valid \in BOOLEAN
      BY <3>1, Zenon DEF CacheInv, Typed, Buffer
    <3> QED
      BY <3>2, Zenon DEF Holding, Owns
  <2> QED
    BY <2>1, <2>2, Zenon
<1>3. ASSUME NEW i \in Bufs, Caches(i, b) PROVE Contents(b) = buf[i].data
  <2>1. Caching(b) = {i}
    BY <1>1, <1>3, OneCaches, Zenon DEF Caching
  <2>2. (CHOOSE j \in {i} : TRUE) = i
    BY Zenon
  <2> QED
    BY <2>1, <2>2, Zenon DEF Contents
<1>4. ASSUME \A i \in Bufs : ~Caches(i, b) PROVE Contents(b) = platter[b]
  <2>1. Caching(b) = {}
    BY <1>1, <1>4, Zenon DEF Caching
  <2> QED
    BY <2>1, Zenon DEF Contents
<1>5. ASSUME NEW p \in Users, Owns(p, b) PROVE Owner(b) = p
  <2>1. Holding(b) = {p}
    BY <1>2, <1>5, OneOwns, Zenon DEF Holding
  <2>2. (CHOOSE q \in {p} : TRUE) = p
    BY Zenon
  <2> QED
    BY <2>1, <2>2, Zenon DEF Owner
<1>6. ASSUME \A p \in Users : ~Owns(p, b) PROVE Owner(b) = NoProc
  <2>1. Holding(b) = {}
    BY <1>2, <1>6, Zenon DEF Holding
  <2> QED
    BY <2>1, Zenon DEF Owner
<1> QED
  BY <1>3, <1>4, <1>5, <1>6, Zenon

\* The same after a step.
LEMMA ViewedNext == CacheInv' => View'
BY Viewed, PTL
-------------------------------------------------------------------------------
(* Steps of AtomicBlocks. *)

Simulates == [Abstract!BlocksNext]_<<[b \in Sectors |-> Contents(b)], [b \in Sectors |-> Owner(b)]>>

SameContents(b) == Contents(b)' = Contents(b)
SameOwner(b) == Owner(b)' = Owner(b)

\* Nothing a caller could see has changed.
LEMMA StutterStep ==
  ASSUME \A b \in Sectors : SameContents(b), \A b \in Sectors : SameOwner(b)
  PROVE  Simulates
BY Zenon DEF Simulates, SameContents, SameOwner

\* p has got block b.
LEMMA TakeStep ==
  ASSUME NEW p \in Users, NEW b \in Sectors, Owner(b) = NoProc, Owner(b)' = p,
         \A c \in Sectors : SameContents(c), \A c \in Sectors : c # b => SameOwner(c)
  PROVE  Simulates
<1>1. Abstract!TakeBlock(p, b)
  BY Zenon DEF Abstract!TakeBlock, SameContents, SameOwner
<1> QED
  BY <1>1, Zenon DEF Simulates, Abstract!BlocksNext

\* p has given block b back.
LEMMA GiveStep ==
  ASSUME NEW p \in Users, NEW b \in Sectors, Owner(b) = p, Owner(b)' = NoProc,
         \A c \in Sectors : SameContents(c), \A c \in Sectors : c # b => SameOwner(c)
  PROVE  Simulates
<1>1. Abstract!GiveBack(p, b)
  BY Zenon DEF Abstract!GiveBack, SameContents, SameOwner
<1> QED
  BY <1>1, Zenon DEF Simulates, Abstract!BlocksNext

\* p has replaced the contents of its block b.
LEMMA ReplaceStep ==
  ASSUME NEW p \in Users, NEW b \in Sectors, NEW v \in Values, Owner(b) = p, Contents(b)' = v,
         \A c \in Sectors : c # b => SameContents(c), \A c \in Sectors : SameOwner(c)
  PROVE  Simulates
<1>1. Abstract!ReplaceBlock(p, b, v)
  BY Zenon DEF Abstract!ReplaceBlock, SameContents, SameOwner
<1> QED
  BY <1>1, Zenon DEF Simulates, Abstract!BlocksNext
-------------------------------------------------------------------------------
(* What a step leaves alone. *)

\* A buffer keeps its block and its data.
LEMMA BlockStays ==
  ASSUME View, View', NEW b \in Sectors, platter'[b] = platter[b],
         \A i \in Bufs : Caches(i, b)' <=> Caches(i, b),
         \A i \in Bufs : Caches(i, b) => buf'[i].data = buf[i].data
  PROVE  SameContents(b)
<1>1. CASE \E i \in Bufs : Caches(i, b)
  <2>1. PICK i \in Bufs : Caches(i, b)
    BY <1>1, Zenon
  <2>2. Contents(b) = buf[i].data
    BY <2>1, Zenon DEF View
  <2>3. Contents(b)' = buf'[i].data
    BY <2>1, Zenon DEF View, Bufs
  <2> QED
    BY <2>1, <2>2, <2>3, Zenon DEF SameContents
<1>2. CASE \A i \in Bufs : ~Caches(i, b)
  <2>1. Contents(b) = platter[b]
    BY <1>2, Zenon DEF View
  <2>2. Contents(b)' = platter'[b]
    BY <1>2, Zenon DEF View, Bufs
  <2> QED
    BY <2>1, <2>2, Zenon DEF SameContents
<1> QED
  BY <1>1, <1>2, Zenon

\* The same processes have the block.
LEMMA OwnerStays ==
  ASSUME View, View', NEW b \in Sectors, \A p \in Users : Owns(p, b)' <=> Owns(p, b)
  PROVE  SameOwner(b)
<1>1. CASE \E p \in Users : Owns(p, b)
  BY <1>1, Zenon DEF View, SameOwner
<1>2. CASE \A p \in Users : ~Owns(p, b)
  BY <1>2, Zenon DEF View, SameOwner
<1> QED
  BY <1>1, <1>2, Zenon

\* The buffers keep their blocks and data.
KeepsBlock(i) == /\ buf'[i].blockno = buf[i].blockno /\ buf'[i].data = buf[i].data
               /\ buf'[i].valid = buf[i].valid

\* Then so do the blocks, if the disk does.
LEMMA BlocksStay ==
  ASSUME View, View', platter' = platter, \A i \in Bufs : KeepsBlock(i), NEW b \in Sectors
  PROVE  SameContents(b)
<1>1. ASSUME NEW i \in Bufs PROVE Caches(i, b)' <=> Caches(i, b)
  BY Zenon DEF Caches, KeepsBlock
<1>2. \A i \in Bufs : buf'[i].data = buf[i].data
  BY Zenon DEF KeepsBlock
<1> QED
  BY <1>1, <1>2, BlockStays, Zenon

\* A process that keeps its place and its buffer keeps its block.
LEMMA OwnsStays ==
  ASSUME CacheInv, NEW q \in Users, at'[q] = at[q], cur'[q] = cur[q],
         cur[q] \in Bufs => KeepsBlock(cur[q]), NEW b \in Sectors
  PROVE  Owns(q, b)' <=> Owns(q, b)
<1>1. CASE cur[q] = 0
  BY <1>1, Zenon DEF Owns, CacheInv, RefInv, Idle
<1>2. CASE cur[q] # 0
  <2>1. KeepsBlock(cur[q])
    BY <1>2, Zenon DEF CacheInv, Typed
  <2> QED
    BY <2>1, Zenon DEF Owns, KeepsBlock
<1> QED
  BY <1>1, <1>2, Zenon

\* A step of p that leaves blocks and data alone and after which p has what it had.
LEMMA QuietStep ==
  ASSUME CacheInv, CacheInv', NEW p \in Users, Moves(p), platter' = platter,
         \A i \in Bufs : KeepsBlock(i), \A b \in Sectors : Owns(p, b)' <=> Owns(p, b)
  PROVE  Simulates
<1>1. View /\ View'
  BY Viewed, ViewedNext, Zenon
<1>2. ASSUME NEW b \in Sectors, NEW q \in Users PROVE Owns(q, b)' <=> Owns(q, b)
  <2>1. CASE q = p
    BY <2>1, Zenon
  <2>2. CASE q # p
    BY <2>2, OwnsStays, Zenon DEF Moves
  <2> QED
    BY <2>1, <2>2, Zenon
<1>3. \A b \in Sectors : SameOwner(b)
  BY <1>1, <1>2, OwnerStays, Zenon
<1>4. \A b \in Sectors : SameContents(b)
  BY <1>1, BlocksStay, Zenon
<1> QED
  BY <1>3, <1>4, StutterStep, Zenon

\* A process that is neither before nor after the step in a place with a block.
LEMMA NeverOwned ==
  ASSUME NEW p \in Users, NEW b \in Sectors,
         ~(at[p] \in {"held", "ide", "sleep_ide"}), ~(at'[p] \in {"held", "ide", "sleep_ide"})
  PROVE  Owns(p, b)' <=> Owns(p, b)
BY Zenon DEF Owns
-------------------------------------------------------------------------------
(* The operations. *)

\* bget of a block that some buffer has.
LEMMA BgetHitSim ==
  ASSUME CacheInv, CacheInv', NEW p \in Users, NEW i \in Bufs, at[p] = "idle",
         buf' = [buf EXCEPT ![i].refcnt = @ + 1], cur' = [cur EXCEPT ![p] = i],
         Goto(p, "acquire"), platter' = platter
  PROVE  Simulates
<1>1. at'[p] = "acquire" /\ \A q \in Users : q # p => at'[q] = at[q]
  BY GotoMoves, Zenon DEF Places
<1>2. Moves(p)
  BY <1>1, Zenon DEF Moves, CacheInv, Typed
<1>3. ASSUME NEW j \in Bufs PROVE KeepsBlock(j)
  <2>1. buf \in [Bufs -> Buffer] /\ buf[j] \in Buffer
    BY Zenon DEF CacheInv, Typed
  <2> QED
    BY <2>1, Zenon DEF KeepsBlock, Buffer
<1>4. \A b \in Sectors : Owns(p, b)' <=> Owns(p, b)
  BY <1>1, NeverOwned, Zenon
<1> QED
  BY <1>2, <1>3, <1>4, QuietStep, Zenon

\* bget of a block no buffer has: the buffer it recycles agrees with the disk.
LEMMA RecycleSim ==
  ASSUME CacheInv, CacheInv', NEW p \in Users, NEW n \in Sectors, at[p] = "idle",
         NEW i \in Bufs, Recyclable(i),
         buf' = [buf EXCEPT ![i].blockno = n, ![i].refcnt = 1,
                            ![i].valid = FALSE, ![i].dirty = FALSE],
         cur' = [cur EXCEPT ![p] = i], Goto(p, "acquire"), platter' = platter
  PROVE  Simulates
<1>1. View /\ View'
  BY Viewed, ViewedNext, Zenon
<1>2. at'[p] = "acquire" /\ \A q \in Users : q # p => at'[q] = at[q] /\ cur'[q] = cur[q]
  BY GotoMoves DEF Places, CacheInv, Typed
<1>3. (\A q \in Users : cur[q] # i) /\ buf[i].dirty = FALSE
  BY RecyclableIsFree, Zenon
<1>4. buf'[i].valid = FALSE /\ \A j \in Bufs : j # i => buf'[j] = buf[j]
  <2>1. buf \in [Bufs -> Buffer] /\ buf[i] \in Buffer
    BY Zenon DEF CacheInv, Typed
  <2> QED
    BY <2>1, Zenon DEF Buffer
<1>5. ASSUME NEW b \in Sectors, NEW q \in Users PROVE Owns(q, b)' <=> Owns(q, b)
  <2>1. CASE q = p
    BY <1>2, <2>1, NeverOwned, Zenon
  <2>2. CASE q # p
    <3>1. cur[q] \in Bufs => KeepsBlock(cur[q])
      BY <1>3, <1>4, Zenon DEF KeepsBlock
    <3> QED
      BY <1>2, <2>2, <3>1, OwnsStays, Zenon
  <2> QED
    BY <2>1, <2>2, Zenon
<1>6. \A b \in Sectors : SameOwner(b)
  BY <1>1, <1>5, OwnerStays, Zenon
<1>7. ASSUME NEW b \in Sectors PROVE SameContents(b)
  <2>1. ~Caches(i, b)' /\ \A j \in Bufs : j # i => (Caches(j, b)' <=> Caches(j, b))
    BY <1>4, Zenon DEF Caches
  <2>2. CASE Caches(i, b)
    <3>1. \A j \in Bufs : ~Caches(j, b)'
      BY <2>1, <2>2, OneCaches, Zenon
    <3>2. Contents(b)' = platter'[b]
      BY <1>1, <3>1, Zenon DEF View, Bufs
    <3>3. Contents(b) = buf[i].data
      BY <1>1, <2>2, Zenon DEF View
    <3>4. buf[i].data = platter[b]
      BY <1>3, <2>2, Zenon DEF CacheInv, DataInv, Clean, Caches
    <3> QED
      BY <3>2, <3>3, <3>4, Zenon DEF SameContents
  <2>3. CASE ~Caches(i, b)
    <3>1. \A j \in Bufs : Caches(j, b)' <=> Caches(j, b)
      BY <2>1, <2>3, Zenon
    <3>2. \A j \in Bufs : Caches(j, b) => buf'[j].data = buf[j].data
      BY <1>4, <2>3, Zenon
    <3> QED
      BY <1>1, <3>1, <3>2, BlockStays, Zenon
  <2> QED
    BY <2>2, <2>3, Zenon
<1> QED
  BY <1>6, <1>7, StutterStep, Zenon

\* A step of p that changes no buffer, and no place with a block.
LEMMA GotoSim ==
  ASSUME CacheInv, CacheInv', NEW p \in Users, NEW l \in Places, Goto(p, l),
         UNCHANGED <<buf, platter, cur>>,
         at[p] \in {"held", "ide", "sleep_ide"} <=> l \in {"held", "ide", "sleep_ide"}
  PROVE  Simulates
<1>1. at'[p] = l /\ \A q \in Users : q # p => at'[q] = at[q]
  BY GotoMoves, Zenon
<1>2. Moves(p) /\ \A i \in Bufs : KeepsBlock(i)
  BY <1>1, Zenon DEF Moves, KeepsBlock
<1>3. \A b \in Sectors : Owns(p, b)' <=> Owns(p, b)
  BY <1>1, Zenon DEF Owns
<1> QED
  BY <1>2, <1>3, QuietStep, Zenon

\* bget.
LEMMA BgetSim ==
  ASSUME CacheInv, CacheInv', NEW p \in Users, NEW n \in Sectors, Bget(p, n)
  PROVE  Simulates
<1>1. at[p] = "idle" /\ UNCHANGED <<lru, idequeue, device, platter>>
  BY Zenon DEF Bget
<1>2. CASE \E j \in Bufs : buf[j].blockno = n
  <2>1. PICK i \in {j \in Bufs : buf[j].blockno = n} :
          /\ buf' = [buf EXCEPT ![i].refcnt = @ + 1]
          /\ cur' = [cur EXCEPT ![p] = i]
          /\ Goto(p, "acquire")
    BY <1>2, Zenon DEF Bget
  <2> QED
    BY <1>1, <2>1, BgetHitSim, Zenon
<1>3. CASE ~(\E j \in Bufs : buf[j].blockno = n) /\ \E j \in Bufs : Recyclable(j)
  <2>1. PICK i : i = Victim
    BY Zenon
  <2>2. i \in Bufs /\ Recyclable(i)
    BY <1>3, <2>1, VictimFound, Zenon DEF CacheInv
  <2>3. /\ buf' = [buf EXCEPT ![i].blockno = n, ![i].refcnt = 1,
                              ![i].valid = FALSE, ![i].dirty = FALSE]
        /\ cur' = [cur EXCEPT ![p] = i]
        /\ Goto(p, "acquire")
    BY <1>3, <2>1, Zenon DEF Bget
  <2> QED
    BY <1>1, <2>2, <2>3, RecycleSim, Zenon
<1>4. CASE ~(\E j \in Bufs : buf[j].blockno = n) /\ ~(\E j \in Bufs : Recyclable(j))
  <2>1. Goto(p, "panic") /\ UNCHANGED <<buf, cur>>
    BY <1>4, Zenon DEF Bget
  <2> QED
    BY <1>1, <2>1, GotoSim, Zenon DEF Places
<1> QED
  BY <1>2, <1>3, <1>4, Zenon

\* acquiresleep.
LEMMA AcquireSim ==
  ASSUME CacheInv, CacheInv', NEW p \in Users, AcquireSleep(p)
  PROVE  Simulates
<1>1. at[p] = "acquire" /\ UNCHANGED <<lru, idequeue, device, platter, cur>>
  BY Zenon DEF AcquireSleep
<1>2. CASE buf[cur[p]].pid # NoProc
  <2>1. Goto(p, "sleep_lock") /\ UNCHANGED buf
    BY <1>2, Zenon DEF AcquireSleep
  <2> QED
    BY <1>1, <2>1, GotoSim, Zenon DEF Places
<1>3. CASE buf[cur[p]].pid = NoProc
  <2>1. buf' = [buf EXCEPT ![cur[p]].pid = p] /\ Goto(p, "locked")
    BY <1>3, Zenon DEF AcquireSleep
  <2>2. at'[p] = "locked" /\ Moves(p)
    BY <1>1, <2>1, GotoMoves, Zenon DEF Places, HasLock, Moves
  <2>3. ASSUME NEW j \in Bufs PROVE KeepsBlock(j)
    <3>1. buf \in [Bufs -> Buffer] /\ buf[j] \in Buffer
      BY Zenon DEF CacheInv, Typed
    <3> QED
      BY <2>1, <3>1, Zenon DEF KeepsBlock, Buffer
  <2>4. \A b \in Sectors : Owns(p, b)' <=> Owns(p, b)
    BY <1>1, <2>2, NeverOwned, Zenon
  <2> QED
    BY <1>1, <2>2, <2>3, <2>4, QuietStep
<1> QED
  BY <1>2, <1>3, Zenon

\* brelse, after releasesleep.
LEMMA BrelseSim ==
  ASSUME CacheInv, CacheInv', NEW p \in Users, Brelse(p)
  PROVE  Simulates
<1>1. /\ at[p] = "brelse" /\ buf' = [buf EXCEPT ![cur[p]] = Dropped(buf[cur[p]])]
      /\ cur' = [cur EXCEPT ![p] = 0] /\ Goto(p, "idle") /\ platter' = platter
  BY Zenon DEF Brelse
<1>2. at'[p] = "idle" /\ \A q \in Users : q # p => at'[q] = at[q]
  BY <1>1, GotoMoves, Zenon DEF Places
<1>3. Moves(p)
  BY <1>1, <1>2, Zenon DEF Moves, CacheInv, Typed
<1>4. ASSUME NEW j \in Bufs PROVE KeepsBlock(j)
  <2>1. buf \in [Bufs -> Buffer] /\ buf[j] \in Buffer
    BY DEF CacheInv, Typed
  <2> QED
    BY <1>1, <2>1, Zenon DEF KeepsBlock, Buffer, Dropped
<1>5. \A b \in Sectors : Owns(p, b)' <=> Owns(p, b)
  BY <1>1, <1>2, NeverOwned, Zenon
<1> QED
  BY <1>1, <1>3, <1>4, <1>5, QuietStep

\* bread of a valid buffer: p gets the block, which nobody had.
LEMMA BreadSim ==
  ASSUME CacheInv, CacheInv', NEW p \in Users, Bread(p)
  PROVE  Simulates
<1>1. at[p] = "locked" /\ UNCHANGED <<lru, platter, cur>>
  BY Zenon DEF Bread
<1>2. cur[p] \in Bufs /\ buf[cur[p]].pid = p /\ buf[cur[p]] \in Buffer /\ buf[cur[p]].blockno # NoSector
  BY <1>1, NotQueued, Zenon
<1>3. CASE buf[cur[p]].valid = TRUE
  <2>0. Goto(p, "held") /\ buf' = buf
    BY <1>3, Zenon DEF Bread
  <2>1. at'[p] = "held" /\ \A q \in Users : q # p => at'[q] = at[q]
    BY <2>0, GotoMoves, Zenon DEF Places, HasLock
  <2>2. PICK b \in Sectors : b = buf[cur[p]].blockno
    BY <1>2, Zenon DEF Buffer
  <2>3. View /\ View'
    BY Viewed, ViewedNext, Zenon
  <2>4. \A c \in Sectors : SameContents(c)
    BY <1>1, <2>0, <2>3, BlocksStay, Zenon DEF KeepsBlock
  <2>5. Caches(cur[p], b)
    BY <1>3, <2>2, Zenon DEF Caches
  <2>6. ASSUME NEW q \in Users, Owns(q, b) PROVE FALSE
    <3>1. cur[q] \in Bufs /\ buf[cur[q]].pid = q /\ Caches(cur[q], b)
      BY <2>6, OwnerHolds, Zenon
    <3>2. q = p
      BY <1>2, <2>5, <3>1, OneCaches, Zenon
    <3> QED
      BY <1>1, <2>6, <3>2, Zenon DEF Owns
  <2>7. Owns(p, b)' /\ \A c \in Sectors : c # b => ~Owns(p, c) /\ ~Owns(p, c)'
    BY <1>1, <1>3, <2>0, <2>1, <2>2 DEF Owns
  <2>8. ASSUME NEW c \in Sectors, c # b PROVE SameOwner(c)
    <3>1. ASSUME NEW q \in Users PROVE Owns(q, c)' <=> Owns(q, c)
      <4>1. CASE q = p
        BY <2>7, <2>8, <4>1, Zenon
      <4>2. CASE q # p
        BY <1>1, <2>0, <2>1, <4>2, Zenon DEF Owns
      <4> QED
        BY <4>1, <4>2, Zenon
    <3> QED
      BY <2>3, <3>1, OwnerStays, Zenon
  <2>9. Owner(b) = NoProc /\ Owner(b)' = p
    BY <2>3, <2>6, <2>7, Zenon DEF View
  <2> QED
    BY <2>4, <2>8, <2>9, TakeStep, Zenon
<1>4. CASE buf[cur[p]].valid # TRUE
  <2>1. buf' = [buf EXCEPT ![cur[p]] = buf[cur[p]]] /\ Goto(p, "sleep_ide")
    BY <1>2, <1>4, Zenon DEF Bread, Iderw, Buffer
  <2>2. at'[p] = "sleep_ide" /\ Moves(p)
    BY <1>1, <2>1, GotoMoves, Zenon DEF Places, HasLock, Moves
  <2>3. buf' = buf
    BY <2>1, Zenon DEF CacheInv, Typed
  <2>4. \A b \in Sectors : ~Owns(p, b)' /\ ~Owns(p, b)
    BY <1>1, <1>4, <2>3, Zenon DEF Owns
  <2>5. \A i \in Bufs : KeepsBlock(i)
    BY <2>3, Zenon DEF KeepsBlock
  <2> QED
    BY <1>1, <2>2, <2>4, <2>5, QuietStep
<1> QED
  BY <1>3, <1>4, Zenon

\* iderw's loop.
LEMMA IderwAgainSim ==
  ASSUME CacheInv, CacheInv', NEW p \in Users, IderwAgain(p)
  PROVE  Simulates
<1>1. at[p] = "ide" /\ buf[cur[p]].valid = TRUE /\ buf[cur[p]].dirty = FALSE
  BY Zenon DEF IderwAgain, CacheInv, DataInv, Has
<1>2. Goto(p, "held") /\ UNCHANGED <<buf, platter, cur>>
  BY <1>1, Zenon DEF IderwAgain
<1> QED
  BY <1>1, <1>2, GotoSim, Zenon DEF Places, HasLock
-------------------------------------------------------------------------------

\* bwrite and log_write: the holder replaces the contents, and keeps the block.
LEMMA WriteSim ==
  ASSUME CacheInv, CacheInv', NEW p \in Users, NEW v \in Values, at[p] = "held",
         at'[p] = "held" \/ at'[p] = "sleep_ide", Moves(p), UNCHANGED <<platter, cur>>,
         buf' = [buf EXCEPT ![cur[p]] = [buf[cur[p]] EXCEPT !.data = v, !.dirty = TRUE]]
  PROVE  Simulates
<1>1. PICK i : i = cur[p]
  BY Zenon
<1>2. i \in Bufs /\ buf[i] \in Buffer /\ buf[i].blockno # NoSector /\ buf[i].valid = TRUE
  BY <1>1, NotQueued, Zenon DEF CacheInv, DataInv, Has
<1>3. PICK b \in Sectors : b = buf[i].blockno
  BY <1>2, Zenon DEF Buffer
<1>4. View /\ View'
  BY Viewed, ViewedNext, Zenon
<1>5. /\ buf'[i].blockno = b /\ buf'[i].valid = TRUE /\ buf'[i].data = v
      /\ \A j \in Bufs : j # i => buf'[j] = buf[j]
  <2>1. buf \in [Bufs -> Buffer]
    BY Zenon DEF CacheInv, Typed
  <2> QED
    BY <1>1, <1>2, <1>3, <2>1, Zenon DEF Buffer
<1>6. ASSUME NEW c \in Sectors, NEW q \in Users PROVE Owns(q, c)' <=> Owns(q, c)
  <2>1. CASE cur[q] = 0
    <3>1. q # p
      BY <1>1, <1>2, <2>1, CacheConstants DEF Bufs
    <3> QED
      BY <2>1, <3>1, Zenon DEF Moves, Owns, CacheInv, RefInv, Idle
  <2>2. CASE cur[q] # 0
    <3>1. cur[q] \in Bufs
      BY <2>2, Zenon DEF CacheInv, Typed
    <3>2. buf'[cur[q]].valid = buf[cur[q]].valid /\ buf'[cur[q]].blockno = buf[cur[q]].blockno
      BY <1>2, <1>3, <1>5, <3>1, Zenon
    <3>3. at'[q] \in {"held", "ide", "sleep_ide"} <=> at[q] \in {"held", "ide", "sleep_ide"}
      BY Zenon DEF Moves
    <3> QED
      BY <3>2, <3>3, Zenon DEF Owns
  <2> QED
    BY <2>1, <2>2, Zenon
<1>7. \A c \in Sectors : SameOwner(c)
  BY <1>4, <1>6, OwnerStays, Zenon
<1>8. ASSUME NEW c \in Sectors, c # b PROVE SameContents(c)
  <2>1. ~Caches(i, c) /\ ~Caches(i, c)'
    BY <1>3, <1>5, <1>8, Zenon DEF Caches
  <2>2. \A j \in Bufs : Caches(j, c)' <=> Caches(j, c)
    BY <1>5, <2>1, Zenon DEF Caches
  <2>3. \A j \in Bufs : Caches(j, c) => buf'[j].data = buf[j].data
    BY <1>5, <2>1, Zenon
  <2> QED
    BY <1>4, <2>2, <2>3, BlockStays, Zenon
<1>9. Owner(b) = p
  <2>1. Owns(p, b)
    BY <1>1, <1>2, <1>3, Zenon DEF Owns
  <2> QED
    BY <1>4, <2>1, Zenon DEF View
<1>10. Contents(b)' = v
  <2>1. Caches(i, b)'
    BY <1>5, Zenon DEF Caches
  <2> QED
    BY <1>2, <1>4, <1>5, <2>1 DEF View, Bufs
<1> QED
  BY <1>7, <1>8, <1>9, <1>10, ReplaceStep

\* bwrite.
LEMMA BwriteSim ==
  ASSUME CacheInv, CacheInv', NEW p \in Users, NEW v \in Values, Bwrite(p, v)
  PROVE  Simulates
<1>1. /\ at[p] = "held" /\ Goto(p, "sleep_ide") /\ UNCHANGED <<platter, cur>>
      /\ buf' = [buf EXCEPT ![cur[p]] = [buf[cur[p]] EXCEPT !.data = v, !.dirty = TRUE]]
  BY Zenon DEF Bwrite, Iderw
<1>2. at'[p] = "sleep_ide" /\ Moves(p)
  <2>1. "sleep_ide" \in Places
    BY Zenon DEF Places, HasLock
  <2>2. at'[p] = "sleep_ide" /\ \A q \in Users : q # p => at'[q] = at[q]
    BY <1>1, <2>1, GotoMoves, Zenon
  <2> QED
    BY <1>1, <2>2, Zenon DEF Moves
<1> QED
  BY <1>1, <1>2, WriteSim, Zenon

\* log_write.
LEMMA LogWriteSim ==
  ASSUME CacheInv, CacheInv', NEW p \in Users, NEW v \in Values, LogWriteBuf(p, v)
  PROVE  Simulates
<1>1. /\ at[p] = "held" /\ UNCHANGED <<platter, cur, at>>
      /\ buf' = [buf EXCEPT ![cur[p]].data = v, ![cur[p]].dirty = TRUE]
  BY Zenon DEF LogWriteBuf
<1>2. buf' = [buf EXCEPT ![cur[p]] = [buf[cur[p]] EXCEPT !.data = v, !.dirty = TRUE]]
  <2>1. cur[p] \in Bufs /\ buf \in [Bufs -> Buffer]
    BY <1>1, NotQueued, Zenon DEF CacheInv, Typed
  <2> QED
    BY <1>1, <2>1, Zenon
<1>3. at'[p] = "held" /\ Moves(p)
  BY <1>1, Zenon DEF Moves
<1> QED
  BY <1>1, <1>2, <1>3, WriteSim, Zenon

\* releasesleep: p gives its block back, and nobody else loses or gets one.
LEMMA ReleaseSim ==
  ASSUME CacheInv, CacheInv', NEW p \in Users, Releasesleep(p)
  PROVE  Simulates
<1>1. PICK i : i = cur[p]
  BY Zenon
<1>2. /\ at[p] = "held" /\ buf' = [buf EXCEPT ![i].pid = NoProc]
      /\ at' = LockSleepersWake([at EXCEPT ![p] = "brelse"], i)
      /\ UNCHANGED <<platter, cur>>
  BY <1>1, Zenon DEF Releasesleep
<1>3. i \in Bufs /\ buf[i] \in Buffer /\ buf[i].blockno # NoSector /\ buf[i].valid = TRUE
  BY <1>1, <1>2, NotQueued, Zenon DEF CacheInv, DataInv, Has
<1>4. PICK b \in Sectors : b = buf[i].blockno
  BY <1>3 DEF Buffer
<1>5. View /\ View'
  BY Viewed, ViewedNext
<1>6. ASSUME NEW j \in Bufs PROVE KeepsBlock(j)
  <2>1. buf \in [Bufs -> Buffer] /\ buf[j] \in Buffer
    BY Zenon DEF CacheInv, Typed
  <2> QED
    BY <1>2, <2>1, Zenon DEF KeepsBlock, Buffer
<1>7. \A c \in Sectors : SameContents(c)
  BY <1>2, <1>5, <1>6, BlocksStay, Zenon
<1>8. at'[p] = "brelse" /\ \A q \in Users : q # p => \/ at'[q] = at[q]
                                                     \/ at[q] = "sleep_lock" /\ at'[q] = "acquire"
  <2>1. at \in [Users -> Places]
    BY Zenon DEF CacheInv, Typed
  <2> QED
    BY <1>2, <2>1, Zenon DEF LockSleepersWake
<1>9. ASSUME NEW c \in Sectors, NEW q \in Users, q # p PROVE Owns(q, c)' <=> Owns(q, c)
  <2>1. CASE at'[q] = at[q]
    BY <1>2, <1>6, <2>1, OwnsStays, Zenon
  <2>2. CASE at[q] = "sleep_lock" /\ at'[q] = "acquire"
    BY <2>2, NeverOwned, Zenon
  <2> QED
    BY <1>8, <1>9, <2>1, <2>2
<1>10. Owns(p, b) /\ (\A c \in Sectors : ~Owns(p, c)') /\ \A c \in Sectors : c # b => ~Owns(p, c)
  BY <1>1, <1>2, <1>3, <1>4, <1>8 DEF Owns
<1>11. ASSUME NEW c \in Sectors, c # b PROVE SameOwner(c)
  <2>1. \A q \in Users : Owns(q, c)' <=> Owns(q, c)
    BY <1>9, <1>10, <1>11, Zenon
  <2> QED
    BY <1>5, <2>1, OwnerStays, Zenon
<1>12. \A q \in Users : ~Owns(q, b)'
  BY <1>9, <1>10, OneOwns, Zenon
<1>13. Owner(b) = p /\ Owner(b)' = NoProc
  BY <1>5, <1>10, <1>12, Zenon DEF View
<1> QED
  BY <1>7, <1>11, <1>13, GiveStep

\* ideintr: after a read the reader has the block, with what the disk had; a
\* write changes nothing, since the buffer had the contents already.
LEMMA IdeintrSim ==
  ASSUME CacheInv, CacheInv', Ideintr
  PROVE  Simulates
<1>1. PICK i \in Bufs, p \in Users :
           /\ idequeue # << >> /\ i = Head(idequeue) /\ Queued(idequeue, i)
           /\ buf[i].pid = p /\ at[p] = "sleep_ide" /\ cur[p] = i
           /\ buf[i].blockno \in Sectors /\ device = Idestart(i, buf[i])
           /\ \A q \in Users : at[q] = "sleep_ide" /\ cur[q] = i => q = p
  BY AtInterrupt, Zenon
<1>2. Interrupted(i, p)
  BY <1>1, InterruptIs, Zenon
<1>3. PICK b \in Sectors : b = buf[i].blockno
  BY <1>1, Zenon
<1>4. View /\ View' /\ buf[i] \in Buffer /\ cur' = cur
  BY Viewed, ViewedNext, Zenon DEF CacheInv, Typed, Ideintr
<1>5. /\ buf'[i].blockno = b /\ buf'[i].valid = TRUE /\ at'[p] = "ide"
      /\ \A j \in Bufs : j # i => buf'[j] = buf[j]
      /\ \A c \in Sectors : c # b => platter'[c] = platter[c]
  BY <1>2, <1>3, Zenon DEF Interrupted, Others
<1>6. ASSUME NEW c \in Sectors, NEW q \in Users, q # p PROVE Owns(q, c)' <=> Owns(q, c)
  <2>1. at'[q] = at[q]
    BY <1>2, <1>6, Zenon DEF Interrupted, Moves
  <2>2. CASE cur[q] = i
    <3>1. ~Owns(q, c)
      BY <1>1, <1>6, <2>2, OwnerHolds
    <3>2. ~(at[q] \in {"held", "ide", "sleep_ide"})
      <4>1. at[q] \in HasLock => buf[i].pid = q
        BY <2>2, Zenon DEF CacheInv, LockInv, Holds
      <4> QED
        BY <1>1, <1>6, <4>1 DEF HasLock
    <3> QED
      BY <2>1, <3>2, NeverOwned, Zenon
  <2>3. CASE cur[q] # i
    <3>1. cur[q] \in Bufs => KeepsBlock(cur[q])
      BY <1>5, <2>3, Zenon DEF KeepsBlock
    <3> QED
      BY <1>4, <2>1, <3>1, OwnsStays
  <2> QED
    BY <2>2, <2>3, Zenon
<1>7. ASSUME NEW c \in Sectors, c # b PROVE SameContents(c)
  <2>1. ~Caches(i, c) /\ ~Caches(i, c)'
    BY <1>3, <1>5, <1>7, Zenon DEF Caches
  <2>2. \A j \in Bufs : Caches(j, c)' <=> Caches(j, c)
    BY <1>5, <2>1, Zenon DEF Caches
  <2>3. \A j \in Bufs : Caches(j, c) => buf'[j].data = buf[j].data
    BY <1>5, <2>1, Zenon
  <2>4. platter'[c] = platter[c]
    BY <1>5, <1>7, Zenon
  <2> QED
    BY <1>4, <2>2, <2>3, <2>4, BlockStays
<1>8. Contents(b)' = buf'[i].data /\ Caches(i, b)'
  <2>1. Caches(i, b)'
    BY <1>5, Zenon DEF Caches
  <2> QED
    BY <1>4, <2>1, Zenon DEF View, Bufs
<1>9. \A c \in Sectors : c # b => ~Owns(p, c) /\ ~Owns(p, c)'
  BY <1>1, <1>3, <1>4, <1>5 DEF Owns
<1>10. Owns(p, b)'
  BY <1>1, <1>4, <1>5, Zenon DEF Owns
<1>11. ASSUME NEW c \in Sectors, c # b PROVE SameOwner(c)
  <2>1. \A q \in Users : Owns(q, c)' <=> Owns(q, c)
    BY <1>6, <1>9, <1>11, Zenon
  <2> QED
    BY <1>4, <2>1, OwnerStays
<1>12. CASE buf[i].valid = TRUE
  <2>1. buf'[i].data = buf[i].data
    <3>1. CASE buf[i].dirty = TRUE
      BY <1>2, <3>1, Zenon DEF Interrupted
    <3>2. CASE buf[i].dirty = FALSE
      <4>1. buf[i].data = platter[b]
        BY <1>3, <1>12, <3>2 DEF CacheInv, DataInv, Clean
      <4>2. buf'[i].data = platter[b]
        BY <1>2, <1>3, <3>2, Zenon DEF Interrupted
      <4> QED
        BY <4>1, <4>2, Zenon
    <3> QED
      BY <1>4, <3>1, <3>2, Zenon DEF Buffer
  <2>2. Contents(b) = buf[i].data
    BY <1>3, <1>4, <1>12, Zenon DEF View, Caches
  <2>3. \A c \in Sectors : SameContents(c)
    BY <1>7, <1>8, <2>1, <2>2 DEF SameContents
  <2>4. Owns(p, b)
    BY <1>1, <1>3, <1>12, Zenon DEF Owns
  <2>5. SameOwner(b)
    BY <1>4, <1>10, <2>4 DEF View, SameOwner
  <2>6. \A c \in Sectors : SameOwner(c)
    BY <1>11, <2>5
  <2> QED
    BY <2>3, <2>6, StutterStep, Zenon
<1>13. CASE buf[i].valid = FALSE
  <2>1. buf[i].dirty = FALSE
    BY <1>4, <1>13 DEF CacheInv, DataInv, Flags, Buffer
  <2>2. buf'[i].data = platter[b]
    BY <1>2, <1>3, <2>1 DEF Interrupted
  <2>3. ASSUME NEW j \in Bufs, Caches(j, b) PROVE FALSE
    <3>1. Alone(i, j) /\ b # NoSector
      BY CacheConstants, Zenon DEF CacheInv, DataInv
    <3>2. i = j
      BY <1>3, <2>3, <3>1 DEF Alone, Caches
    <3> QED
      BY <1>13, <2>3, <3>2, Zenon DEF Caches
  <2>4. Contents(b) = platter[b]
    BY <1>4, <2>3, Zenon DEF View
  <2>5. \A c \in Sectors : SameContents(c)
    BY <1>7, <1>8, <2>2, <2>4 DEF SameContents
  <2>6. ASSUME NEW q \in Users, Owns(q, b) PROVE FALSE
    BY <2>3, <2>6, OwnerHolds
  <2>7. Owner(b) = NoProc /\ Owner(b)' = p
    BY <1>4, <1>10, <2>6, Zenon DEF View
  <2> QED
    BY <1>11, <2>5, <2>7, TakeStep
<1> QED
  BY <1>4, <1>12, <1>13, Zenon DEF Buffer

\* At the start the blocks have what the disk has, and nobody has a block.
LEMMA BlocksStart == CacheInit => Abstract!BlocksInit
<1> SUFFICES ASSUME CacheInit PROVE Abstract!BlocksInit
  OBVIOUS
<1>1. ASSUME NEW b \in Sectors PROVE Caching(b) = {} /\ Holding(b) = {}
  BY Zenon DEF CacheInit, Caching, Holding
<1>2. ASSUME NEW b \in Sectors PROVE Contents(b) = Blank /\ Owner(b) = NoProc
  BY <1>1, Zenon DEF Contents, Owner, CacheInit
<1> QED
  BY <1>2, CacheConstants, Zenon DEF Abstract!BlocksInit

\* bread, bwrite, log_write and brelse, over recycled buffers, the sleep locks
\* and the disk queue, implement AtomicBlocks: a block has one contents, which
\* only the process that has it replaces, and which nothing ever loses.
THEOREM ImplementsBlocks == CacheSpec => OneCopyOfEachBlock
<1>1. ASSUME CacheInv, CacheInv', [CacheNext]_cacheVars PROVE Simulates
  <2>1. ASSUME NEW p \in Users, Step(p) PROVE Simulates
    BY <1>1, <2>1, AcquireSim, BreadSim, IderwAgainSim, ReleaseSim, BrelseSim DEF Step
  <2>2. ASSUME NEW p \in Users, NEW n \in Sectors, Bget(p, n) PROVE Simulates
    BY <1>1, <2>2, BgetSim, Zenon
  <2>3. ASSUME NEW p \in Users, NEW v \in Values, Bwrite(p, v) \/ LogWriteBuf(p, v) PROVE Simulates
    BY <1>1, <2>3, BwriteSim, LogWriteSim
  <2>4. CASE Ideintr
    BY <1>1, <2>4, IdeintrSim, Zenon
  <2>5. CASE UNCHANGED cacheVars
    <3>1. \A b \in Sectors : SameContents(b)
      BY <2>5 DEF cacheVars, SameContents, Contents, Caching, Bufs
    <3>2. \A b \in Sectors : SameOwner(b)
      BY <2>5 DEF cacheVars, SameOwner, Owner, Holding
    <3> QED
      BY <3>1, <3>2, StutterStep, Zenon
  <2> QED
    BY <1>1, <2>1, <2>2, <2>3, <2>4, <2>5 DEF CacheNext
<1>2. CacheInv /\ CacheInv' /\ [CacheNext]_cacheVars => Simulates
  BY <1>1, Zenon
<1> QED
  BY <1>2, BlocksStart, CacheInvariance, PTL
  DEF CacheSpec, OneCopyOfEachBlock, Abstract!BlocksSpec, Simulates

===============================================================================
