------------------------------- MODULE LogSpace -------------------------------
(***************************************************************************)
(* The first two layers of the inductive invariant of module Log.          *)
(* ControlInv: which process may be where, and what outstanding,           *)
(* committing and the buffer locks say about it.  SpaceInv: how much of    *)
(* the log is used and how much begin_op has reserved.                     *)
(***************************************************************************)
EXTENDS Log, FiniteSetTheorems, TLAPS

\* The processes between begin_op and end_op.
Active == {p \in Procs : pc[p] \in InOp \cup {"panic"}}

Booting == pc[InitProc] \in Recovering

\* log.committing is set exactly while a process is in commit().
CommitFlag ==
  /\ committing \in BOOLEAN
  /\ committing => \E p \in Procs : pc[p] \in Committing
  /\ \A p \in Procs : pc[p] \in Committing => committing

ControlInv ==
  /\ pc \in [Procs -> Labels]
  /\ held \in [Procs -> Blocks \cup {NoBlock}]
  /\ outstanding \in Nat
  /\ \A p \in Procs : pc[p] = "off" <=> p # InitProc /\ Booting
  /\ \A p \in Procs : pc[p] \in Recovering => p = InitProc
  /\ outstanding = Cardinality(Active)
  /\ CommitFlag
  /\ \A p, q \in Procs : pc[p] \in Committing =>
       pc[q] \notin InOp \cup {"panic"} /\ (pc[q] \in Committing => q = p)
  /\ \A p \in Procs : held[p] # NoBlock <=> pc[p] \in {"log_write", "panic"}
  /\ \A p, q \in Procs : held[p] # NoBlock /\ held[p] = held[q] => p = q

-------------------------------------------------------------------------------
\* The processes inside a call are finitely many, so outstanding counts them.
LEMMA ActiveFinite == IsFiniteSet(Active)
BY LogConstants, FS_Subset, Zenon DEF Active

\* The state initlog starts from satisfies the control invariant.
LEMMA ControlInit == Init => ControlInv
<1> SUFFICES ASSUME Init PROVE ControlInv
  BY Zenon
<1>1. Active = {}
  BY Zenon DEF Init, Active, BootPc, InOp
<1>2. outstanding = Cardinality(Active)
  BY <1>1, FS_EmptySet, Zenon DEF Init
<1>3. CommitFlag
  BY Zenon DEF Init, CommitFlag, BootPc, Committing
<1> QED
  BY <1>2, <1>3, LogConstants
     DEF Init, ControlInv, BootPc, Booting, Labels, InOp, Committing, Recovering

\* Every step of log.c keeps the control invariant.
LEMMA ControlStep ==
  ASSUME ControlInv, [Next]_vars
  PROVE  ControlInv'
<1> USE LogConstants DEF Labels, InOp, Committing, Recovering, Booting
<1>0. /\ pc \in [Procs -> Labels] /\ IsFiniteSet(Active)
  BY ActiveFinite, Zenon DEF ControlInv, CommitFlag
<1>1. ASSUME NEW p \in Procs, BeginOp(p) PROVE ControlInv'
  <2>1. CASE MustWait
    <3>1. Active' = Active
      BY <1>0, <1>1, <2>1, Zenon DEF BeginOp, Active
    <3> QED BY <1>1, <2>1, <3>1 DEF BeginOp, ControlInv, CommitFlag
  <2>2. CASE ~MustWait
    <3>1. Active' = Active \cup {p} /\ p \notin Active
      BY <1>0, <1>1, <2>2, Zenon DEF BeginOp, Active
    <3>2. Cardinality(Active') = Cardinality(Active) + 1
      BY <1>0, <3>1, FS_AddElement, Zenon
    <3> QED BY <1>1, <2>2, <3>2 DEF BeginOp, ControlInv, CommitFlag, MustWait
  <2> QED BY <2>1, <2>2, Zenon
<1>2. ASSUME NEW p \in Procs, LogWrite(p) PROVE ControlInv'
  <2>1. Active' = Active
    BY <1>0, <1>2, Zenon DEF LogWrite, Active
  <2> QED BY <1>2, <2>1 DEF LogWrite, ControlInv, CommitFlag
<1>3. ASSUME NEW p \in Procs, EndOp(p) PROVE ControlInv'
  <2>1. ~committing
    BY <1>3, Zenon DEF ControlInv, CommitFlag, EndOp
  <2>2. Active' = Active \ {p} /\ p \in Active
    BY <1>0, <1>3, <2>1, Zenon DEF EndOp, Active, Wakeup
  <2>3. Cardinality(Active') = Cardinality(Active) - 1
    BY <1>0, <2>2, FS_RemoveElement, Zenon
  <2>4. outstanding' \in Nat /\ outstanding' = Cardinality(Active')
    BY <1>3, <2>2, <2>3, <1>0, FS_RemoveElement, FS_CardinalityType DEF EndOp, ControlInv, CommitFlag
  <2>5. CASE outstanding = 1
    <3>0. IsFiniteSet(Active') /\ Cardinality(Active') = 0
      BY <1>0, <1>3, <2>2, <2>4, <2>5, FS_RemoveElement DEF EndOp
    <3>1. Active' = {}
      BY <3>0, FS_EmptySet, Zenon
    <3>2. pc' = [pc EXCEPT ![p] = "commit"] /\ committing' = TRUE
      BY <1>3, <2>1, <2>5, Zenon DEF EndOp
    <3>3. CommitFlag'
      BY <1>0, <3>2, Zenon DEF CommitFlag
    <3> QED BY <1>3, <2>1, <3>1, <3>2, <3>3, <2>4 DEF EndOp, ControlInv, Active
  <2>6. CASE outstanding # 1
    <3>1. pc' = Wakeup([pc EXCEPT ![p] = "idle"]) /\ UNCHANGED committing
      BY <1>3, <2>1, <2>6, Zenon DEF EndOp
    <3> QED BY <1>3, <2>1, <3>1, <2>4 DEF EndOp, ControlInv, CommitFlag, Wakeup
  <2> QED BY <2>5, <2>6, Zenon
<1>4. ASSUME NEW p \in Procs, CommitStep(p) PROVE ControlInv'
  <2>1. CASE EndCommit(p)
    <3>1. Active' = Active
      BY <1>0, <2>1, Zenon DEF EndCommit, Active, Wakeup
    <3>2. \A q \in Procs : pc'[q] \notin Committing
      BY <2>1 DEF EndCommit, ControlInv, Wakeup
    <3>3. CommitFlag'
      BY <2>1, <3>2, Zenon DEF EndCommit, CommitFlag
    <3> QED BY <2>1, <3>1, <3>3 DEF EndCommit, ControlInv, Wakeup
  <2>2. CASE InstallTrans(p)
    <3>1. Active' = Active
      BY <1>0, <2>2, Zenon DEF InstallTrans, Advance, Active
    <3> QED BY <2>2, <3>1 DEF InstallTrans, Advance, ControlInv, CommitFlag
  <2>3. CASE Commit(p) \/ WriteLog(p) \/ WriteHead(p) \/ ClearLog(p)
    <3>1. Active' = Active
      BY <1>0, <2>3, Zenon DEF Commit, WriteLog, WriteHead, ClearLog, Advance, Active
    <3>2. /\ pc[p] \in Committing
          /\ \E l \in Committing : pc' = [pc EXCEPT ![p] = l]
          /\ UNCHANGED <<held, outstanding, committing>>
      BY <1>0, <2>3 DEF Commit, WriteLog, WriteHead, ClearLog, Advance, memVars
    <3> QED BY <3>1, <3>2 DEF ControlInv, CommitFlag
  <2> QED BY <1>4, <2>1, <2>2, <2>3, Zenon DEF CommitStep
<1>5. ASSUME NEW p \in Procs, RecoverStep(p) PROVE ControlInv'
  <2>1. CASE ReadHead(p)
    <3>1. Active' = Active
      BY <1>0, <2>1, Zenon DEF ReadHead, Active
    <3> QED BY <2>1, <3>1 DEF ReadHead, ControlInv, CommitFlag
  <2>2. CASE RecoverClear(p)
    <3>1. Active' = Active
      BY <1>0, <2>2 DEF RecoverClear, Active, ControlInv, CommitFlag
    <3> QED BY <2>2, <3>1 DEF RecoverClear, ControlInv, CommitFlag
  <2> QED BY <1>5, <2>1, <2>2, Zenon DEF RecoverStep
<1>6. ASSUME NEW p \in Procs, NEW b \in Blocks, NEW v \in Vals, ModifyBlock(p, b, v)
      PROVE  ControlInv'
  <2>1. Active' = Active
    BY <1>0, <1>6, Zenon DEF ModifyBlock, Active
  <2> QED BY <1>6, <2>1 DEF ModifyBlock, ControlInv, CommitFlag, BufferFree
<1>7. ASSUME NEW b \in Blocks, Evict(b) PROVE ControlInv'
  BY <1>7 DEF Evict, procVars, ControlInv, CommitFlag, Active
<1>8. CASE Crash
  <2>1. Active' = {}
    BY <1>8, Zenon DEF Crash, BootPc, Active
  <2>2. outstanding' = Cardinality(Active')
    BY <1>8, <2>1, FS_EmptySet, Zenon DEF Crash
  <2>3. CommitFlag'
    BY <1>8, Zenon DEF Crash, BootPc, CommitFlag
  <2> QED BY <1>8, <2>2, <2>3 DEF Crash, BootPc, ControlInv
<1>9. CASE UNCHANGED vars
  BY <1>9, Zenon DEF vars, procVars, memVars, ControlInv, CommitFlag, Active
<1> QED
  BY <1>1, <1>2, <1>3, <1>4, <1>5, <1>6, <1>7, <1>8, <1>9, Zenon DEF Next
-------------------------------------------------------------------------------
\* What begin_op has reserved and log_write has not used: one token for each
\* block a running call may still add to the log.
Tokens(A, w) == {t \in A \X (1 .. MAXOPBLOCKS) : t[2] > Cardinality(w[t[1]])}

NoRepeats(s) == \A i, j \in 1 .. Len(s) : s[i] = s[j] => i = j

\* A header that is not empty leaves the unused part of one call's
\* reservation free.
Fits(s) == s # << >> => Len(s) + (MAXOPBLOCKS - OPBLOCKS) <= LOGSIZE

SpaceInv ==
  /\ lh \in Seq(Blocks) /\ head \in Seq(Blocks)
  /\ wrote \in [Procs -> SUBSET Blocks]
  /\ NoRepeats(lh) /\ NoRepeats(head)
  /\ Fits(lh) /\ Fits(head)
  /\ Len(lh) + Cardinality(Tokens(Active, wrote)) <= LOGSIZE
  /\ \A p \in Active : wrote[p] \subseteq RangeOf(lh) /\ Cardinality(wrote[p]) <= OPBLOCKS
  /\ \A p \in Procs : pc[p] \in {"log_write", "panic"} =>
       Cardinality(wrote[p] \cup {held[p]}) <= OPBLOCKS

-------------------------------------------------------------------------------
\* There are finitely many tokens, at most MAXOPBLOCKS for each call.
LEMMA TokensBound ==
  ASSUME NEW A \in SUBSET Procs, NEW w
  PROVE  /\ IsFiniteSet(Tokens(A, w)) /\ Cardinality(Tokens(A, w)) \in Nat
         /\ Cardinality(Tokens(A, w)) <= Cardinality(A) * MAXOPBLOCKS
<1>1. IsFiniteSet(A)
  BY LogConstants, FS_Subset, Zenon
<1>2. IsFiniteSet(1 .. MAXOPBLOCKS) /\ Cardinality(1 .. MAXOPBLOCKS) = MAXOPBLOCKS
  BY LogConstants, FS_Interval
<1>3. /\ IsFiniteSet(A \X (1 .. MAXOPBLOCKS))
      /\ Cardinality(A \X (1 .. MAXOPBLOCKS)) = Cardinality(A) * MAXOPBLOCKS
  BY <1>1, <1>2, FS_Product, Zenon
<1>4. Tokens(A, w) \in SUBSET (A \X (1 .. MAXOPBLOCKS))
  BY Zenon DEF Tokens
<1> QED
  BY <1>3, <1>4, FS_Subset, FS_CardinalityType, Zenon

\* The fewer calls, and the more they have written, the fewer tokens.
LEMMA TokensShrink ==
  ASSUME NEW A \in SUBSET Procs, NEW w, NEW B \in SUBSET A, NEW x,
         \A p \in B : /\ Cardinality(w[p]) \in Nat /\ Cardinality(x[p]) \in Nat
                      /\ Cardinality(w[p]) <= Cardinality(x[p])
  PROVE  Cardinality(Tokens(B, x)) <= Cardinality(Tokens(A, w))
<1>1. Tokens(B, x) \in SUBSET Tokens(A, w)
  BY LogConstants DEF Tokens
<1> QED
  BY <1>1, TokensBound, FS_Subset, Zenon

\* A call keeps the tokens for the blocks it never writes.
LEMMA TokensKept ==
  ASSUME NEW A \in SUBSET Procs, NEW w, NEW p \in A,
         Cardinality(w[p]) \in Nat, Cardinality(w[p]) <= OPBLOCKS
  PROVE  MAXOPBLOCKS - OPBLOCKS <= Cardinality(Tokens(A, w))
<1> DEFINE K == (OPBLOCKS + 1) .. MAXOPBLOCKS
<1>0. OPBLOCKS + 1 \in Int /\ MAXOPBLOCKS \in Int
  BY LogConstants
<1>1. IsFiniteSet(K) /\ Cardinality(K) = MAXOPBLOCKS - OPBLOCKS
  <2>1. /\ IsFiniteSet(K)
        /\ Cardinality(K) = IF OPBLOCKS + 1 > MAXOPBLOCKS THEN 0
                            ELSE MAXOPBLOCKS - (OPBLOCKS + 1) + 1
    BY SMTT(30), <1>0, FS_Interval
  <2> QED BY <2>1, LogConstants
<1>2. IsFiniteSet({p}) /\ Cardinality({p}) = 1
  BY FS_Singleton, Zenon
<1>3. Cardinality({p} \X K) = 1 * (MAXOPBLOCKS - OPBLOCKS)
  BY ZenonT(90), <1>1, <1>2, FS_Product
<1>4. {p} \X K \in SUBSET Tokens(A, w)
  BY LogConstants DEF Tokens
<1>5. Cardinality({p} \X K) <= Cardinality(Tokens(A, w))
  BY <1>4, TokensBound, FS_Subset, Zenon
<1> QED
  BY <1>3, <1>5, LogConstants

\* A call that writes one more block uses up a token.
LEMMA TokenUsed ==
  ASSUME NEW A \in SUBSET Procs, NEW w, NEW p \in A, NEW x,
         \A q \in A : q # p => x[q] = w[q],
         Cardinality(w[p]) \in Nat, Cardinality(x[p]) = Cardinality(w[p]) + 1,
         Cardinality(x[p]) <= OPBLOCKS
  PROVE  Cardinality(Tokens(A, x)) + 1 <= Cardinality(Tokens(A, w))
<1> DEFINE t == <<p, Cardinality(x[p])>>
<1>1. t \in Tokens(A, w)
  BY LogConstants DEF Tokens
<1>2. Tokens(A, x) \in SUBSET (Tokens(A, w) \ {t})
  BY LogConstants DEF Tokens
<1>3. /\ IsFiniteSet(Tokens(A, w) \ {t})
      /\ Cardinality(Tokens(A, w) \ {t}) = Cardinality(Tokens(A, w)) - 1
  BY <1>1, TokensBound, FS_RemoveElement
<1>4. Cardinality(Tokens(A, x)) <= Cardinality(Tokens(A, w) \ {t})
  BY <1>2, <1>3, FS_Subset, Zenon
<1>5. Cardinality(Tokens(A, x)) \in Nat /\ Cardinality(Tokens(A, w)) \in Nat
  BY TokensBound, Zenon
<1> QED
  BY <1>3, <1>4, <1>5

\* A sequence has finitely many entries.
LEMMA RangeFinite ==
  ASSUME NEW s \in Seq(Blocks)
  PROVE  IsFiniteSet(RangeOf(s))
<1>1. IsFiniteSet(1 .. Len(s))
  BY FS_Interval
<1>2. s \in Surjection(1 .. Len(s), RangeOf(s))
  BY DEF Surjection, RangeOf
<1> QED
  BY <1>1, <1>2, FS_Surjection, Zenon

\* log_write's absorption keeps the header free of repetitions.
LEMMA AbsorbFacts ==
  ASSUME NEW s \in Seq(Blocks), NEW b \in Blocks, NoRepeats(s)
  PROVE  /\ Absorb(s, b) \in Seq(Blocks) /\ NoRepeats(Absorb(s, b))
         /\ RangeOf(Absorb(s, b)) = RangeOf(s) \cup {b}
         /\ Absorb(s, b) # << >>
         /\ b \in RangeOf(s) => Absorb(s, b) = s
         /\ b \notin RangeOf(s) => Len(Absorb(s, b)) = Len(s) + 1
<1>1. CASE b \in RangeOf(s)
  BY <1>1 DEF Absorb, RangeOf
<1>2. CASE b \notin RangeOf(s)
  <2>1. Absorb(s, b) = Append(s, b)
    BY <1>2, Zenon DEF Absorb
  <2>2. RangeOf(Append(s, b)) = RangeOf(s) \cup {b}
    BY DEF RangeOf
  <2>3. NoRepeats(Append(s, b))
    BY <1>2 DEF NoRepeats, RangeOf
  <2> QED BY <1>2, <2>1, <2>2, <2>3
<1> QED BY <1>1, <1>2, Zenon

\* The initial state satisfies the space invariant.
LEMMA SpaceInit == Init => SpaceInv
<1> SUFFICES ASSUME Init PROVE SpaceInv
  OBVIOUS
<1>1. Active = {}
  BY DEF Init, Active, BootPc, InOp
<1>2. Cardinality(Tokens({}, wrote)) = 0
  BY FS_EmptySet, Zenon DEF Tokens
<1> QED
  BY <1>1, <1>2, LogConstants DEF Init, SpaceInv, NoRepeats, Fits, BootPc

\* Every step of log.c keeps the space invariant.
LEMMA SpaceStep ==
  ASSUME ControlInv, ControlInv', SpaceInv, [Next]_vars
  PROVE  SpaceInv'
<1> USE LogConstants DEF Labels, InOp, Committing, Recovering
<1>0. /\ pc \in [Procs -> Labels] /\ held \in [Procs -> Blocks \cup {NoBlock}]
      /\ Active \in SUBSET Procs /\ Active' \in SUBSET Procs
  BY Zenon DEF ControlInv, Active
<1>a. \A p \in Active : IsFiniteSet(wrote[p]) /\ Cardinality(wrote[p]) \in Nat
  <2>1. IsFiniteSet(RangeOf(lh))
    BY RangeFinite, Zenon DEF SpaceInv
  <2> QED BY <2>1, FS_Subset, FS_CardinalityType, Zenon DEF SpaceInv
<1>b. ASSUME UNCHANGED <<lh, wrote, held>>, head' \in {head, lh}, Active' = Active,
             \A p \in Procs : pc'[p] \in {"log_write", "panic"} =>
                                pc[p] \in {"log_write", "panic"}
      PROVE  SpaceInv'
  BY <1>b, Zenon DEF SpaceInv
<1>c. ASSUME Active' = {}, UNCHANGED wrote, head' \in {head, << >>}, lh' \in {head, << >>}
      PROVE  SpaceInv'
  <2>1. Cardinality(Tokens(Active', wrote')) = 0
    BY <1>c, FS_EmptySet, Zenon DEF Tokens
  <2>2. Len(lh') <= LOGSIZE
    BY <1>c DEF SpaceInv, Fits
  <2>3. \A p \in Procs : pc'[p] \notin {"log_write", "panic"}
    BY <1>c, Zenon DEF Active
  <2>4. NoRepeats(<< >>) /\ Fits(<< >>) /\ << >> \in Seq(Blocks)
    BY DEF NoRepeats, Fits
  <2>5. /\ lh' \in Seq(Blocks) /\ NoRepeats(lh') /\ Fits(lh')
        /\ head' \in Seq(Blocks) /\ NoRepeats(head') /\ Fits(head')
    BY <1>c, <2>4, Zenon DEF SpaceInv
  <2>6. Len(lh') + Cardinality(Tokens(Active', wrote')) <= LOGSIZE
    BY <2>1, <2>2, <2>5
  <2> QED BY <1>c, <2>3, <2>5, <2>6, Zenon DEF SpaceInv
<1>1. ASSUME NEW p \in Procs, BeginOp(p) PROVE SpaceInv'
  <2>1. CASE MustWait
    <3>1. Active' = Active
      BY <1>0, <1>1, <2>1, Zenon DEF BeginOp, Active
    <3> QED BY <1>0, <1>1, <1>b, <2>1, <3>1, Zenon DEF BeginOp, diskVars
  <2>2. CASE ~MustWait
    <3>1. Active' = Active \cup {p} /\ wrote'[p] = {} /\ \A q \in Active : q # p => wrote'[q] = wrote[q]
      BY <1>0, <1>1, <2>2 DEF BeginOp, Active, SpaceInv
    <3>2. Len(lh) + (outstanding + 1) * MAXOPBLOCKS <= LOGSIZE
      BY <2>2, Zenon DEF MustWait, HasSpace
    <3>3. Cardinality(Active') = outstanding + 1
      BY <1>1, <2>2, Zenon DEF ControlInv, BeginOp
    <3>4. /\ Cardinality(Tokens(Active', wrote')) \in Nat
          /\ Cardinality(Tokens(Active', wrote')) <= (outstanding + 1) * MAXOPBLOCKS
      BY <1>0, <3>3, TokensBound, Zenon
    <3>5. Len(lh) + Cardinality(Tokens(Active', wrote')) <= LOGSIZE
      BY <3>2, <3>4 DEF SpaceInv, ControlInv
    <3>6. Cardinality(wrote'[p]) <= OPBLOCKS
      BY <3>1, FS_EmptySet
    <3>7. UNCHANGED <<lh, head, held>> /\ wrote' \in [Procs -> SUBSET Blocks]
      BY <1>1, <2>2, Zenon DEF BeginOp, diskVars, SpaceInv
    <3>8. \A q \in Active' : wrote'[q] \subseteq RangeOf(lh') /\ Cardinality(wrote'[q]) <= OPBLOCKS
      BY <3>1, <3>6, <3>7, Zenon DEF SpaceInv
    <3>9. \A q \in Procs : pc'[q] \in {"log_write", "panic"} =>
            q # p /\ q \in Active /\ pc[q] \in {"log_write", "panic"}
      BY <1>0, <1>1, <2>2, Zenon DEF BeginOp, Active
    <3> QED BY <3>1, <3>5, <3>7, <3>8, <3>9, Zenon DEF SpaceInv
  <2> QED BY <2>1, <2>2, Zenon
<1>2. ASSUME NEW p \in Procs, LogWrite(p) PROVE SpaceInv'
  <2> DEFINE b == held[p]
  <2>1. p \in Active /\ b \in Blocks /\ Active' = Active
    BY <1>0, <1>2 DEF LogWrite, ControlInv, Active
  <2>2. lh' = Absorb(lh, b) /\ UNCHANGED head
    BY <1>2, Zenon DEF LogWrite, diskVars
  <2>3. /\ lh' \in Seq(Blocks) /\ NoRepeats(lh') /\ lh' # << >>
        /\ RangeOf(lh') = RangeOf(lh) \cup {b}
        /\ b \in RangeOf(lh) => lh' = lh
        /\ b \notin RangeOf(lh) => Len(lh') = Len(lh) + 1
    BY <2>1, <2>2, AbsorbFacts, Zenon DEF SpaceInv
  <2>4. wrote'[p] = wrote[p] \cup {b} /\ \A q \in Procs : q # p => wrote'[q] = wrote[q]
    BY <1>2, Zenon DEF LogWrite, SpaceInv
  <2>5. /\ Cardinality(wrote'[p]) = IF b \in wrote[p] THEN Cardinality(wrote[p])
                                    ELSE Cardinality(wrote[p]) + 1
        /\ Cardinality(wrote'[p]) <= OPBLOCKS /\ Cardinality(wrote'[p]) \in Nat
    <3>1. IsFiniteSet(wrote[p]) /\ Cardinality(wrote[p]) \in Nat
      BY <1>a, <2>1, Zenon
    <3>2. Cardinality(wrote[p] \cup {b}) <= OPBLOCKS
      BY <1>2, Zenon DEF SpaceInv, LogWrite
    <3>3. Cardinality(wrote[p] \cup {b}) = IF b \in wrote[p] THEN Cardinality(wrote[p])
                                          ELSE Cardinality(wrote[p]) + 1
      BY <3>1, FS_AddElement, Zenon
    <3>4. Cardinality(wrote'[p]) = Cardinality(wrote[p] \cup {b})
      BY <2>4, Zenon
    <3> HIDE DEF b
    <3> QED BY <3>1, <3>2, <3>3, <3>4
  <2>6. Len(lh') + Cardinality(Tokens(Active', wrote')) <= LOGSIZE
    <3>1. CASE b \in RangeOf(lh)
      <4>1. Cardinality(Tokens(Active, wrote')) <= Cardinality(Tokens(Active, wrote))
        <5>1. \A q \in Active : /\ Cardinality(wrote[q]) \in Nat
                                /\ Cardinality(wrote'[q]) \in Nat
                                /\ Cardinality(wrote[q]) <= Cardinality(wrote'[q])
          <6> SUFFICES ASSUME NEW q \in Active
                       PROVE  /\ Cardinality(wrote[q]) \in Nat
                              /\ Cardinality(wrote'[q]) \in Nat
                              /\ Cardinality(wrote[q]) <= Cardinality(wrote'[q])
            BY Zenon
          <6>1. Cardinality(wrote[q]) \in Nat
            BY <1>a, Zenon
          <6>2. CASE q = p
            BY <6>1, <6>2, <2>5
          <6>3. CASE q # p
            BY <1>0, <6>1, <6>3, <2>4
          <6> QED BY <6>2, <6>3, Zenon
        <5> QED BY <1>0, <5>1, TokensShrink, Zenon
      <4>2. Cardinality(Tokens(Active, wrote')) \in Nat /\ Cardinality(Tokens(Active, wrote)) \in Nat
        BY <1>0, TokensBound, Zenon
      <4> QED BY <2>1, <2>3, <3>1, <4>1, <4>2 DEF SpaceInv
    <3>2. CASE b \notin RangeOf(lh)
      <4>1. b \notin wrote[p]
        BY <2>1, <3>2, Zenon DEF SpaceInv
      <4>2. Cardinality(Tokens(Active, wrote')) + 1 <= Cardinality(Tokens(Active, wrote))
        BY SMTT(30), <1>0, <1>a, <2>1, <2>4, <2>5, <4>1, TokenUsed
      <4>3. Cardinality(Tokens(Active, wrote')) \in Nat /\ Cardinality(Tokens(Active, wrote)) \in Nat
        BY <1>0, TokensBound
      <4> QED BY <2>1, <2>3, <3>2, <4>2, <4>3 DEF SpaceInv
    <3> QED BY <3>1, <3>2, Zenon
  <2>7. Fits(lh')
    <3>1. MAXOPBLOCKS - OPBLOCKS <= Cardinality(Tokens(Active', wrote'))
      BY <1>0, <2>1, <2>5, TokensKept, Zenon
    <3>2. Cardinality(Tokens(Active', wrote')) \in Nat
      BY <1>0, TokensBound, Zenon
    <3> QED BY <2>3, <2>6, <3>1, <3>2 DEF Fits
  <2>8. \A q \in Active' : wrote'[q] \subseteq RangeOf(lh') /\ Cardinality(wrote'[q]) <= OPBLOCKS
    BY <1>0, <2>1, <2>3, <2>4, <2>5, Zenon DEF SpaceInv
  <2>9. \A q \in Procs : pc'[q] \in {"log_write", "panic"} =>
          q # p /\ pc[q] \in {"log_write", "panic"} /\ held'[q] = held[q]
    BY <1>0, <1>2, Zenon DEF LogWrite
  <2>10. wrote' \in [Procs -> SUBSET Blocks]
    BY <1>2, <2>1, Zenon DEF SpaceInv, LogWrite
  <2> QED BY <2>2, <2>3, <2>4, <2>6, <2>7, <2>8, <2>9, <2>10, Zenon DEF SpaceInv
<1>3. ASSUME NEW p \in Procs, EndOp(p) PROVE SpaceInv'
  <2>1. ~committing
    BY <1>3, Zenon DEF ControlInv, CommitFlag, EndOp
  <2>2. Active' = Active \ {p}
    BY <1>0, <1>3, <2>1, Zenon DEF EndOp, Active, Wakeup
  <2>3. UNCHANGED <<lh, head, held, wrote>>
    BY <1>3, Zenon DEF EndOp, diskVars
  <2>4. Cardinality(Tokens(Active', wrote)) <= Cardinality(Tokens(Active, wrote))
    BY <1>0, <1>a, <2>2, TokensShrink
  <2>5. Cardinality(Tokens(Active', wrote)) \in Nat /\ Cardinality(Tokens(Active, wrote)) \in Nat
    BY <1>0, TokensBound, Zenon
  <2>6. Len(lh) + Cardinality(Tokens(Active', wrote)) <= LOGSIZE
    BY <2>4, <2>5 DEF SpaceInv
  <2>7. \A q \in Procs : pc'[q] \in {"log_write", "panic"} => pc[q] \in {"log_write", "panic"}
    BY <1>0, <1>3, <2>1, Zenon DEF EndOp, Wakeup
  <2> QED BY <2>2, <2>3, <2>6, <2>7, Zenon DEF SpaceInv
<1>4. ASSUME NEW p \in Procs, CommitStep(p) PROVE SpaceInv'
  <2>1. CASE ClearLog(p)
    <3>1. Active' = {}
      BY <1>0, <2>1, Zenon DEF ClearLog, Active, ControlInv
    <3> QED BY <1>c, <2>1, <3>1, Zenon DEF ClearLog
  <2>2. CASE ~ClearLog(p)
    <3>1. Active' = Active
      BY <1>0, <1>4, <2>2, Zenon DEF CommitStep, Commit, WriteLog, WriteHead, InstallTrans, EndCommit,
                              Advance, Active, Wakeup
    <3>2. \A q \in Procs : pc'[q] \in {"log_write", "panic"} => pc[q] \in {"log_write", "panic"}
      BY <1>0, <1>4, <2>2, Zenon DEF CommitStep, Commit, WriteLog, WriteHead, InstallTrans, EndCommit,
                              Advance, Wakeup
    <3>3. UNCHANGED <<lh, wrote, held>> /\ head' \in {head, lh}
      BY <1>4, <2>2, Zenon DEF CommitStep, Commit, WriteLog, WriteHead, InstallTrans, EndCommit,
                        memVars, diskVars
    <3> QED BY <1>b, <3>1, <3>2, <3>3, Zenon
  <2> QED BY <2>1, <2>2, Zenon
<1>5. ASSUME NEW p \in Procs, RecoverStep(p) PROVE SpaceInv'
  <2>1. Active' = {}
    BY SMTT(30), <1>0, <1>5 DEF RecoverStep, ReadHead, RecoverClear, Active, ControlInv, Booting
  <2> QED BY <1>5, <1>c, <2>1, Zenon DEF RecoverStep, ReadHead, RecoverClear, diskVars
<1>6. ASSUME NEW p \in Procs, NEW b \in Blocks, NEW v \in Vals, ModifyBlock(p, b, v)
      PROVE  SpaceInv'
  <2>1. Active' = Active /\ p \in Active
    BY SMTT(30), <1>0, <1>6 DEF ModifyBlock, Active
  <2>2. UNCHANGED <<lh, head, wrote>>
    BY <1>6, Zenon DEF ModifyBlock, diskVars
  <2>3. held'[p] = b /\ Cardinality(wrote[p] \cup {b}) <= OPBLOCKS
    BY <1>0, <1>6, Zenon DEF ModifyBlock
  <2>4. \A q \in Procs : q # p => held'[q] = held[q] /\ pc'[q] = pc[q]
    BY <1>0, <1>6, Zenon DEF ModifyBlock
  <2>5. \A q \in Procs : pc'[q] \in {"log_write", "panic"} =>
          Cardinality(wrote'[q] \cup {held'[q]}) <= OPBLOCKS
    <3> SUFFICES ASSUME NEW q \in Procs, pc'[q] \in {"log_write", "panic"}
                 PROVE  Cardinality(wrote'[q] \cup {held'[q]}) <= OPBLOCKS
      BY Zenon
    <3>1. CASE q = p
      BY <2>2, <2>3, <3>1, Zenon
    <3>2. CASE q # p
      BY <2>2, <2>4, <3>2, Zenon DEF SpaceInv
    <3> QED BY <3>1, <3>2, Zenon
  <2> QED BY <2>1, <2>2, <2>5, Zenon DEF SpaceInv
<1>7. ASSUME NEW b \in Blocks, Evict(b) PROVE SpaceInv'
  BY <1>7, <1>b, Zenon DEF Evict, procVars, diskVars, Active
<1>8. CASE Crash
  <2>1. Active' = {}
    BY <1>8, Zenon DEF Crash, BootPc, Active
  <2>2. Cardinality(Tokens(Active', wrote')) = 0
    BY <2>1, FS_EmptySet, Zenon DEF Tokens
  <2>3. NoRepeats(<< >>) /\ Fits(<< >>)
    BY DEF NoRepeats, Fits
  <2>4. /\ lh' = << >> /\ head' = head /\ wrote' \in [Procs -> SUBSET Blocks]
        /\ \A q \in Procs : pc'[q] \notin {"log_write", "panic"}
    BY <1>8, Zenon DEF Crash, BootPc, diskVars
  <2> QED BY <2>1, <2>2, <2>3, <2>4 DEF SpaceInv
<1>9. CASE UNCHANGED vars
  BY <1>9, <1>b, Zenon DEF vars, procVars, memVars, diskVars, Active
<1> QED
  BY <1>1, <1>2, <1>3, <1>4, <1>5, <1>6, <1>7, <1>8, <1>9, Zenon DEF Next
===============================================================================
