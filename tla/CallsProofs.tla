----------------------------- MODULE CallsProofs ------------------------------
(***************************************************************************)
(* What holds of assignment 1's send and recv for every number of          *)
(* processes and slots, of signal delivery for every number of processes   *)
(* and any program length, and of assignment 2's send, recv and barrier    *)
(* for any processes, messages and sizes, as long as no process has QSIZE  *)
(* messages waiting: enque does not test for space, so that a ring that    *)
(* fills up would look empty.                                              *)
(***************************************************************************)
EXTENDS Messages, Signals, Mailbox, FiniteSetTheorems, TLAPS

\* The flags and the table are consistent with who sleeps.
MsgInv ==
  /\ dest \in [Table -> Users \cup {NoProc}]
  /\ waiting \in [Users -> BOOLEAN]
  /\ doing \in [Users -> {"user", "asleep", "awake", "gone"}]
  /\ WaiterIsFlagged

\* At boot the table is empty and nobody sleeps.
LEMMA MsgInvInit == MsgInit => MsgInv
BY MessagesConstants, ZenonT(90) DEF MsgInit, MsgInv, WaiterIsFlagged

\* sys_send, sys_recv, wakeups and kills keep flags and table consistent.
LEMMA MsgInvStep ==
  ASSUME MsgInv, [MsgNext]_msgVars
  PROVE  MsgInv'
<1> USE MessagesConstants
<1>1. ASSUME NEW p \in Users, NEW q \in Users, NEW m \in Texts, SysSend(p, q, m)
      PROVE  MsgInv'
  <2>1. CASE waiting[q]
    BY ZenonT(90), <1>1, <2>1 DEF SysSend, Awoken, MsgInv, WaiterIsFlagged
  <2>2. CASE ~waiting[q]
    <3>1. doing[q] # "asleep"
      BY <2>2, Zenon DEF MsgInv, WaiterIsFlagged
    <3>2. UNCHANGED <<waiting, doing>>
      BY <1>1, <2>2, Zenon DEF SysSend, Store
    <3>3. dest' \in [Table -> Users \cup {NoProc}] /\ \A i \in Table : dest'[i] \in {dest[i], q}
      BY <1>1, <2>2, Zenon DEF SysSend, Store, MsgInv
    <3> QED
      BY <3>1, <3>2, <3>3, Zenon DEF MsgInv, WaiterIsFlagged
  <2> QED
    BY <2>1, <2>2, Zenon
<1>2. ASSUME NEW p \in Users, SysRecv(p) PROVE MsgInv'
  <2> DEFINE mine == {i \in Table : dest[i] = p}
  <2>1. CASE mine # {}
    <3>1. UNCHANGED <<waiting, doing>>
      BY <1>2, <2>1, Zenon DEF SysRecv
    <3>2. dest' \in [Table -> Users \cup {NoProc}] /\ \A i \in Table : dest'[i] \in {dest[i], NoProc}
      BY <1>2, <2>1, Zenon DEF SysRecv, MsgInv
    <3> QED
      BY <3>1, <3>2 DEF MsgInv, WaiterIsFlagged
  <2>2. CASE mine = {}
    BY <1>2, <2>2, ZenonT(90) DEF SysRecv, MsgInv, WaiterIsFlagged
  <2> QED
    BY <2>1, <2>2, Zenon
<1>3. ASSUME NEW p \in Users, RecvReturns(p) \/ KillReceiver(p) PROVE MsgInv'
  BY <1>3 DEF RecvReturns, KillReceiver, MsgInv, WaiterIsFlagged
<1>4. CASE UNCHANGED msgVars
  BY <1>4, Zenon DEF msgVars, MsgInv, WaiterIsFlagged
<1> QED
  BY <1>1, <1>2, <1>3, <1>4, Zenon DEF MsgNext, MsgStep

\* Whoever sleeps in recv is flagged and has no message in the table, for any
\* number of processes and slots, with kills and with the lock that a send
\* into a full table keeps.
THEOREM SleeperIsFlagged == MsgSpec => []WaiterIsFlagged
<1>1. MsgInit => MsgInv
  BY MsgInvInit, Zenon
<1>2. MsgInv /\ [MsgNext]_msgVars => MsgInv'
  BY MsgInvStep, Zenon
<1>3. MsgInv => WaiterIsFlagged
  BY Zenon DEF MsgInv
<1> QED
  BY <1>1, <1>2, <1>3, PTL DEF MsgSpec
-------------------------------------------------------------------------------
Frames == [at : {"main", "handler", "code"}, step : Nat]
Records == [state : {"unused", "run"}, handler : BOOLEAN, intr : BOOLEAN,
            message : Contents \cup {None}, dis : BOOLEAN, tf : Frames, low : Frames]

\* A process with signal state r whose main program has executed n steps is
\* there, or in its handler: then signals are disabled, which is why the saved
\* frame is still the main program's.
InPlace(r, n) ==
  \/ r.tf = Frame("main", n)
  \/ r.tf.at = "handler" /\ r.dis = TRUE /\ r.low = Frame("main", n)

SigInv ==
  /\ sig \in [Entries -> Records]
  /\ steps \in [Entries -> Nat]
  /\ clean \in [Entries -> BOOLEAN]
  /\ \A s \in Entries : Runs(s) /\ clean[s] => InPlace(sig[s], steps[s])

\* The way back to user mode, through checkTraps, keeps a process in place.
LEMMA CheckTrapsKeeps ==
  ASSUME NEW r \in Records, NEW n \in Nat
  PROVE  /\ CheckTraps(r) \in Records
         /\ CheckTraps(r).state = r.state
         /\ InPlace(r, n) => InPlace(CheckTraps(r), n)
<1>1. CASE CheckTraps(r) = r
  BY <1>1, Zenon
<1>2. CASE CheckTraps(r) = Delivered(r) /\ ~r.dis
  <2>1. r.tf \in Frames /\ [r.tf EXCEPT !.at = "handler"] \in Frames
        /\ [r.tf EXCEPT !.at = "handler"].at = "handler"
    BY Zenon DEF Records, Frames
  <2> DEFINE h == [r.tf EXCEPT !.at = "handler"]
  <2>2. Delivered(r) = [r EXCEPT !.dis = TRUE, !.intr = FALSE, !.low = r.tf, !.tf = h, !.message = None]
    BY Zenon DEF Delivered
  <2> HIDE DEF h
  <2>3. Delivered(r) \in Records
    BY <2>1, <2>2, Zenon DEF Records, h
  <2>4. /\ Delivered(r).state = r.state /\ Delivered(r).dis = TRUE
        /\ Delivered(r).low = r.tf /\ Delivered(r).tf.at = "handler"
    BY <2>1, <2>2, Zenon DEF Records, h
  <2>5. r.dis = FALSE
    BY <1>2, Zenon DEF Records
  <2> QED
    BY <1>2, <2>3, <2>4, <2>5, Zenon DEF InPlace
<1> QED
  BY <1>1, <1>2, Zenon DEF CheckTraps

\* A process that allocproc or exec has just set up is at the start of main.
LEMMA FreshInPlace ==
  /\ Fresh \in Records
  /\ [Fresh EXCEPT !.state = "run"] \in Records
  /\ [Fresh EXCEPT !.state = "run"].state = "run"
  /\ InPlace(Fresh, 0) /\ InPlace([Fresh EXCEPT !.state = "run"], 0)
<1>1. Fresh \in Records /\ Fresh.tf = Frame("main", 0)
  BY Zenon DEF Fresh, Records, Frame, Frames
<1>2. /\ [Fresh EXCEPT !.state = "run"] \in Records
      /\ [Fresh EXCEPT !.state = "run"].state = "run"
      /\ [Fresh EXCEPT !.state = "run"].tf = Frame("main", 0)
  BY Zenon DEF Fresh, Records, Frame, Frames
<1> QED
  BY <1>1, <1>2, Zenon DEF InPlace

\* The first process starts its main program at step 0.
LEMMA SigInvInit == SigInit => SigInv
<1> SUFFICES ASSUME SigInit PROVE SigInv
  BY Zenon
<1>1. \A s \in Entries : sig[s] \in {Fresh, [Fresh EXCEPT !.state = "run"]} /\ steps[s] = 0
  BY Zenon DEF SigInit
<1>2. sig \in [Entries -> Records]
  BY FreshInPlace, Zenon DEF SigInit
<1>3. steps \in [Entries -> Nat] /\ clean \in [Entries -> BOOLEAN]
  BY Zenon DEF SigInit
<1> QED
  BY <1>1, <1>2, <1>3, FreshInPlace, Zenon DEF SigInv

\* A trap of s in which the call's body leaves s with r and nobody else changes.
LEMMA ReturnKeeps ==
  ASSUME SigInv, NEW s \in Entries, Runs(s), NEW r \in Records, r.state = "run", Return(s, r),
         steps' \in [Entries -> Nat], clean' \in [Entries -> BOOLEAN],
         \A t \in Entries \ {s} : steps'[t] = steps[t] /\ clean'[t] = clean[t],
         clean'[s] => InPlace(r, steps'[s])
  PROVE  SigInv'
<1>1. sig' \in [Entries -> Records]
  BY CheckTrapsKeeps, Zenon DEF SigInv, Return
<1>2. InPlace(r, steps'[s]) => InPlace(sig'[s], steps'[s])
  BY CheckTrapsKeeps, Zenon DEF SigInv, Return
<1>3. \A t \in Entries \ {s} : sig'[t] = sig[t]
  BY Zenon DEF SigInv, Return
<1> QED
  BY <1>1, <1>2, <1>3, Zenon DEF SigInv, Runs

\* Signals, handlers, fork, exec, exit and interrupts keep every process in place.
LEMMA SigInvStep ==
  ASSUME SigInv, [SigNext]_sigVars
  PROVE  SigInv'
<1> USE SignalsConstants
<1>1. ASSUME NEW s \in Entries, Interrupt(s) PROVE SigInv'
  <2> DEFINE next == (sig[s].tf.step + 1) % STEPS
             r == [sig[s] EXCEPT !.tf.step = IF sig[s].tf.at = "main" THEN next ELSE @]
  <2>1. sig[s] \in Records /\ steps[s] \in Nat /\ Runs(s) /\ sig[s].state = "run"
    BY <1>1, Zenon DEF SigInv, Interrupt, Runs
  <2>2. next \in Nat /\ (steps[s] + 1) % STEPS \in Nat
    BY <2>1 DEF Records, Frames
  <2>3. r \in Records /\ r.state = "run"
    BY <2>1, <2>2, Zenon DEF Records, Frames
  <2>4. clean[s] => InPlace(r, steps'[s])
    <3> SUFFICES ASSUME clean[s] PROVE InPlace(r, steps'[s])
      BY Zenon
    <3>1. InPlace(sig[s], steps[s])
      BY <2>1, Zenon DEF SigInv
    <3>2. CASE sig[s].tf.at = "main"
      <4>1. sig[s].tf = Frame("main", steps[s])
        BY <3>1, <3>2, Zenon DEF InPlace
      <4>2. steps'[s] = (steps[s] + 1) % STEPS
        BY <1>1, <2>1, <3>2, Zenon DEF Interrupt, SigInv
      <4>3. r.tf = Frame("main", steps'[s])
        BY <2>1, <3>2, <4>1, <4>2 DEF Frame, Records, Frames
      <4> QED
        BY <4>3, Zenon DEF InPlace
    <3>3. CASE sig[s].tf.at # "main"
      <4>1. sig[s].tf.at = "handler" /\ sig[s].dis = TRUE /\ sig[s].low = Frame("main", steps[s])
        BY <3>1, <3>3 DEF InPlace, Frame
      <4>2. steps' = steps
        BY <1>1, <3>3, Zenon DEF Interrupt
      <4>3. r.tf.at = "handler" /\ r.dis = TRUE /\ r.low = Frame("main", steps[s])
        BY <2>1, <3>3, <4>1, Zenon DEF Records, Frames
      <4> QED
        BY <4>2, <4>3, Zenon DEF InPlace
    <3> QED
      BY <3>2, <3>3, Zenon
  <2> QED
    BY <1>1, <2>1, <2>2, <2>3, <2>4, ReturnKeeps, Zenon DEF Interrupt, SigInv
<1>2. ASSUME NEW s \in Entries, NEW h \in BOOLEAN, Sigset(s, h) PROVE SigInv'
  <2>1. sig[s] \in Records /\ steps[s] \in Nat /\ Runs(s) /\ sig[s].state = "run"
    BY <1>2, Zenon DEF SigInv, Sigset, Runs
  <2>2. [sig[s] EXCEPT !.handler = h] \in Records
    BY <2>1, Zenon DEF Records
  <2>3. clean[s] => InPlace([sig[s] EXCEPT !.handler = h], steps[s])
    BY <2>1, Zenon DEF SigInv, InPlace, Records
  <2>4. [sig[s] EXCEPT !.handler = h].state = "run"
    BY <2>1, Zenon DEF Records
  <2> QED
    BY <1>2, <2>1, <2>2, <2>3, <2>4, ReturnKeeps, Zenon DEF Sigset, SigInv
<1>3. ASSUME NEW s \in Entries, Sigret(s) PROVE SigInv'
  <2> DEFINE r == [sig[s] EXCEPT !.tf = sig[s].low, !.dis = FALSE]
  <2>1. sig[s] \in Records /\ steps[s] \in Nat /\ Runs(s) /\ sig[s].state = "run"
    BY <1>3, Zenon DEF SigInv, Sigret, Runs
  <2>2. r \in Records /\ r.state = "run" /\ r.tf = sig[s].low
    BY <2>1, Zenon DEF Records
  <2>3. clean[s] => InPlace(r, steps[s])
    BY <1>3, <2>1, <2>2 DEF SigInv, Sigret, InPlace, Frame
  <2> QED
    BY <1>3, <2>1, <2>2, <2>3, ReturnKeeps, Zenon DEF Sigret, SigInv
<1>4. ASSUME NEW s \in Entries, Exec(s) PROVE SigInv'
  BY <1>4, FreshInPlace, ReturnKeeps, Zenon DEF Exec, SigInv
<1>5. ASSUME NEW s \in Entries, Gone(s) PROVE SigInv'
  <2>1. sig' \in [Entries -> Records] /\ sig'[s].state = "unused"
    BY <1>5 DEF Gone, SigInv, Records
  <2> QED
    BY <1>5, <2>1, Zenon DEF Gone, SigInv, Runs
<1>6. ASSUME NEW s \in Entries, NEW T \in SUBSET Entries, NEW m \in Contents, SendMulti(s, T, m)
      PROVE  SigInv'
  <2> DEFINE marked == [t \in Entries |-> IF t \in T THEN [sig[t] EXCEPT !.intr = TRUE, !.message = m]
                                          ELSE sig[t]]
  <2>1. \A t \in Entries : /\ marked[t] \in Records /\ marked[t].state = sig[t].state
                           /\ InPlace(sig[t], steps[t]) => InPlace(marked[t], steps[t])
    <3> SUFFICES ASSUME NEW t \in Entries
                 PROVE  /\ marked[t] \in Records /\ marked[t].state = sig[t].state
                        /\ InPlace(sig[t], steps[t]) => InPlace(marked[t], steps[t])
      BY Zenon
    <3>1. sig[t] \in Records
      BY Zenon DEF SigInv
    <3>2. marked[t] = sig[t] \/ marked[t] = [sig[t] EXCEPT !.intr = TRUE, !.message = m]
      BY Zenon
    <3> HIDE DEF marked
    <3>3. /\ marked[t] \in Records /\ marked[t].state = sig[t].state
          /\ marked[t].tf = sig[t].tf /\ marked[t].dis = sig[t].dis /\ marked[t].low = sig[t].low
      BY <3>1, <3>2, Zenon DEF Records
    <3> QED
      BY <3>3, Zenon DEF InPlace
  <2>2. sig' = [t \in Entries |-> IF t = s THEN CheckTraps(marked[t]) ELSE marked[t]]
    BY <1>6, Zenon DEF SendMulti
  <2>3. \A t \in Entries : /\ sig'[t] \in Records /\ sig'[t].state = sig[t].state
                           /\ InPlace(sig[t], steps[t]) => InPlace(sig'[t], steps[t])
    BY <2>1, <2>2, CheckTrapsKeeps, Zenon DEF SigInv
  <2> QED
    BY <1>6, <2>2, <2>3, Zenon DEF SendMulti, SigInv, Runs
<1>7. ASSUME NEW s \in Entries, NEW t \in Entries, Fork(s, t) PROVE SigInv'
  <2> DEFINE child == [sig[s] EXCEPT !.dis = FALSE, !.intr = FALSE, !.message = None]
  <2>1. sig[s] \in Records /\ steps[s] \in Nat /\ Runs(s) /\ sig[s].state = "run" /\ s # t
    BY <1>7, Zenon DEF SigInv, Fork, Runs
  <2>2. child \in Records /\ child.state = "run" /\ child.tf = sig[s].tf
    BY <2>1, Zenon DEF Records
  <2>3. clean[s] /\ sig[s].tf.at = "main" => InPlace(child, steps[s])
    BY <2>1, <2>2, Zenon DEF SigInv, InPlace
  <2>4. sig' = [u \in Entries |-> IF u = s THEN CheckTraps(sig[s])
                                  ELSE IF u = t THEN CheckTraps(child) ELSE sig[u]]
    BY <1>7, <2>1, Zenon DEF Fork, SigInv
  <2>5. sig' \in [Entries -> Records]
    BY <2>1, <2>2, <2>4, CheckTrapsKeeps, Zenon DEF SigInv
  <2>6. clean[s] => InPlace(sig'[s], steps[s])
    BY <2>1, <2>4, CheckTrapsKeeps, Zenon DEF SigInv
  <2>7. clean'[t] => InPlace(sig'[t], steps'[t])
    BY ZenonT(90), <1>7, <2>1, <2>2, <2>3, <2>4, CheckTrapsKeeps DEF Fork, SigInv
  <2> QED
    BY <1>7, <2>1, <2>4, <2>5, <2>6, <2>7, Zenon DEF Fork, SigInv, Runs
<1>8. CASE UNCHANGED sigVars
  BY <1>8, Zenon DEF sigVars, SigInv, Runs
<1> QED
  BY <1>1, <1>2, <1>3, <1>4, <1>5, <1>6, <1>7, <1>8, Zenon DEF SigNext, SigStep

\* checkTraps and proc_sigret: the main program of a process not forked inside
\* a handler goes on where a signal interrupted it, for any number of processes,
\* whatever signals, forks, execs and interrupts happen and in whatever order.
THEOREM SignalsResumeInPlace == SigSpec => []ResumesInPlace
<1>1. SigInit => SigInv
  BY SigInvInit
<1>2. SigInv /\ [SigNext]_sigVars => SigInv'
  BY SigInvStep
<1>3. ASSUME SigInv PROVE ResumesInPlace
  <2> SUFFICES ASSUME NEW s \in Entries, Runs(s), clean[s]
               PROVE  LET main == IF sig[s].tf.at = "main" THEN sig[s].tf ELSE sig[s].low IN
                      main.at = "main" /\ main.step = steps[s]
    BY Zenon DEF ResumesInPlace
  <2>1. InPlace(sig[s], steps[s])
    BY <1>3, Zenon DEF SigInv
  <2>2. Frame("main", steps[s]).at = "main" /\ Frame("main", steps[s]).step = steps[s]
    BY Zenon DEF Frame
  <2> QED
    BY <2>1, <2>2, Zenon DEF InPlace
<1>4. SigInv => ResumesInPlace
  BY <1>3, Zenon
<1> QED
  BY <1>1, <1>2, <1>4, PTL DEF SigSpec

-------------------------------------------------------------------------------
(* Assignment 2: mailboxes and the barrier. *)

Fits == MaxPending < QSIZE

Places == {"user", "recv", "recv_asleep", "bar_asleep", "bar_awake", "dead"}

Typed ==
  /\ to \in [Slots -> Procs \cup {NoPid}] /\ buf \in [Slots -> Msgs \cup {Blank}]
  /\ queue \in [Procs -> Seq(Slots)] /\ waitq \in [Procs -> BOOLEAN]
  /\ arrived \in Nat /\ pids \in [0 .. NumProcs - 1 -> Procs \cup {NoPid}]
  /\ pc \in [Procs -> Places] /\ killed \in [Procs -> BOOLEAN]
  /\ entered \in [Procs -> Nat] /\ passed \in [Procs -> Nat]

\* A wait flag is set only while its process is in recv, with an empty queue.
FlagsRight ==
  \A p \in Procs : waitq[p] = TRUE => queue[p] = << >> /\ pc[p] \in {"recv", "recv_asleep"}

MailInv == Typed /\ SlotsAccounted /\ FlagsRight /\ SleeperHasNoMail

\* Barrier number r + 1 is filling: who has called it, and that only a process
\* killed meanwhile can be elsewhere than asleep in it, on record in bar.pids.
InRound(r) == {p \in Procs : entered[p] = r + 1}
Stands(p, r) ==
  /\ entered[p] \in {r, r + 1} /\ passed[p] <= r
  /\ pc[p] \in {"user", "recv", "recv_asleep"} /\ killed[p] = FALSE => entered[p] = r
  /\ pc[p] = "bar_awake" /\ killed[p] = FALSE => entered[p] = r /\ passed[p] < r
  /\ pc[p] = "bar_asleep" => entered[p] = r + 1 /\ \E k \in 0 .. arrived - 1 : pids[k] = p
Round(r) ==
  /\ arrived = Cardinality(InRound(r)) /\ arrived < NumProcs
  /\ \A p \in Procs : Stands(p, r)
BarInv == \E r \in Nat : Round(r)

Inv == MailInv /\ BarInv
-------------------------------------------------------------------------------
\* A non-empty set of slot numbers has a lowest one, which send takes.
LEMMA MinIsMember ==
  ASSUME NEW S \in SUBSET Nat, S # {} PROVE Min(S) \in S
<1> DEFINE R == OpToRel(<, Nat)
<1>0. R = {ss \in Nat \X Nat : ss[1] < ss[2]}
  BY Zenon DEF OpToRel
<1>w. IsWellFoundedOn(R, Nat)
  BY NatLessThanWellFounded, Zenon
<1> HIDE DEF R
<1>1. PICK x \in S : \A y \in S : ~(<<y, x>> \in R)
  BY <1>w, WFMin, Zenon
<1>2. \A y \in S : x <= y
  <2>1. \A y \in Nat : y < x => <<y, x>> \in R
    BY <1>0, Zenon
  <2>2. \A y \in S : y \in Nat /\ ~(y < x)
    BY <1>1, <2>1, Zenon
  <2>3. x \in Nat
    BY Zenon
  <2> QED
    BY <2>2, <2>3
<1> QED
  BY <1>2, Zenon DEF Min

\* barrier_init is given the number of processes, and there is one.
LEMMA NumProcsType == NumProcs \in Nat \ {0}
BY MailboxConstants, FS_CardinalityType, FS_EmptySet, Zenon DEF NumProcs

-------------------------------------------------------------------------------
\* At boot no slot is in use and the first barrier is empty.
LEMMA InitInv == Init => Inv
<1> SUFFICES ASSUME Init PROVE Inv
  OBVIOUS
<1>1. Typed
  BY MailboxConstants, NumProcsType DEF Init, Typed, Places, Slots
<1>2. SlotsAccounted /\ FlagsRight /\ SleeperHasNoMail
  BY MailboxConstants DEF Init, SlotsAccounted, FlagsRight, SleeperHasNoMail, Slots
<1>3. Round(0)
  <2>1. InRound(0) = {}
    BY DEF Init, InRound
  <2> QED
    <3>1. arrived = 0 /\ Cardinality(InRound(0)) = 0 /\ 0 < NumProcs
      <4>1. arrived = 0
        BY Zenon DEF Init
      <4>2. Cardinality(InRound(0)) = 0
        BY <2>1, FS_EmptySet, Zenon
      <4> QED
        BY <4>1, <4>2, NumProcsType
    <3>2. \A p \in Procs : Stands(p, 0)
      BY DEF Init, Stands
    <3> QED
      BY <3>1, <3>2, Zenon DEF Round
<1> QED
  BY <1>1, <1>2, <1>3, Zenon DEF Inv, MailInv, BarInv

\* send takes a slot nobody has, and puts it at the end of the queue.
LEMMA SendStep ==
  ASSUME Fits, Inv, NEW p \in Procs, NEW q \in Procs, NEW m \in Msgs, Send(p, q, m)
  PROVE  /\ MailInv'
         /\ \E i \in Free : /\ queue' = [queue EXCEPT ![q] = Append(@, i)]
                            /\ buf' = [buf EXCEPT ![i] = m]
<1> DEFINE i == Min(Free)
<1>0. Typed /\ SlotsAccounted /\ FlagsRight /\ SleeperHasNoMail
  BY Zenon DEF Inv, MailInv
<1>1. i \in Slots /\ to[i] = NoPid
  <2>1. Free \in SUBSET Nat /\ Free # {}
    BY MailboxConstants DEF Send, Free, Slots
  <2> HIDE DEF i
  <2>2. i \in Free
    BY <2>1, MinIsMember, Zenon DEF i
  <2> QED
    BY <2>2, Zenon DEF Free
<1>2. /\ buf' = [buf EXCEPT ![i] = m] /\ to' = [to EXCEPT ![i] = q]
      /\ queue' = [queue EXCEPT ![q] = Enque(@, i)]
      /\ waitq' = [waitq EXCEPT ![q] = FALSE]
      /\ UNCHANGED <<arrived, pids, entered, passed, killed>>
  BY Zenon DEF Send, barVars
<1>w. \/ waitq[q] = TRUE /\ pc' = Wake(pc, {q})
      \/ waitq[q] = FALSE /\ pc' = pc
  BY <1>0, Zenon DEF Send, Typed
<1> HIDE DEF i
<1>3. Enque(queue[q], i) = Append(queue[q], i)
  BY MailboxConstants, <1>0 DEF Send, Enque, Fits, Typed
<1>4. queue' = [queue EXCEPT ![q] = Append(@, i)]
  BY <1>2, <1>3, Zenon
<1>5. Typed'
  <2>1. pc' \in [Procs -> Places]
    BY <1>0, <1>w, ZenonT(90) DEF Typed, Wake, Places
  <2>2. Append(queue[q], i) \in Seq(Slots)
    BY <1>0, <1>1 DEF Typed
  <2>3. queue' \in [Procs -> Seq(Slots)]
    BY <1>0, <1>4, <2>2, Zenon DEF Typed
  <2>4. to' \in [Slots -> Procs \cup {NoPid}] /\ buf' \in [Slots -> Msgs \cup {Blank}]
    BY <1>0, <1>1, <1>2, Zenon DEF Typed
  <2>5. waitq' \in [Procs -> BOOLEAN]
    BY <1>0, <1>2, Zenon DEF Typed
  <2> QED
    BY <1>0, <1>2, <2>1, <2>3, <2>4, <2>5, Zenon DEF Typed
<1>6. SlotsAccounted'
  <2> SUFFICES ASSUME NEW u \in Procs
               PROVE  /\ {queue'[u][k] : k \in 1 .. Len(queue'[u])} = {j \in Slots : to'[j] = u}
                      /\ \A k, l \in 1 .. Len(queue'[u]) : queue'[u][k] = queue'[u][l] => k = l
    BY Zenon DEF SlotsAccounted
  <2>1. /\ {queue[u][k] : k \in 1 .. Len(queue[u])} = {j \in Slots : to[j] = u}
        /\ \A k, l \in 1 .. Len(queue[u]) : queue[u][k] = queue[u][l] => k = l
        /\ queue[u] \in Seq(Slots)
    BY <1>0, Zenon DEF SlotsAccounted, Typed
  <2>2. \A k \in 1 .. Len(queue[u]) : queue[u][k] # i
    BY <1>1, <2>1, MailboxConstants, Zenon
  <2>3. CASE u = q
    <3>1. queue'[u] = Append(queue[u], i)
      BY <1>0, <1>4, <2>3, Zenon DEF Typed
    <3>2. {j \in Slots : to'[j] = u} = {j \in Slots : to[j] = u} \cup {i}
      BY <1>0, <1>1, <1>2, <2>3, Zenon DEF Typed
    <3>3. /\ Len(queue'[u]) = Len(queue[u]) + 1 /\ Len(queue[u]) \in Nat
          /\ queue'[u][Len(queue[u]) + 1] = i
          /\ \A k \in 1 .. Len(queue[u]) : queue'[u][k] = queue[u][k]
      BY <2>1, <1>1, <3>1
    <3> DEFINE n == Len(queue[u])
               old == queue[u]
               new == queue'[u]
    <3>4. {new[k] : k \in 1 .. n + 1} = {old[k] : k \in 1 .. n} \cup {i}
      <4> HIDE DEF n, old, new
      <4>1. \A k \in 1 .. n + 1 : k \in 1 .. n \/ k = n + 1
        BY <3>3 DEF n
      <4>2. \A k \in 1 .. n : new[k] = old[k] /\ k \in 1 .. n + 1
        BY <3>3 DEF n, old, new
      <4>3. new[n + 1] = i /\ n + 1 \in 1 .. n + 1
        BY <3>3 DEF n, new
      <4> QED
        BY <4>1, <4>2, <4>3, Zenon
    <3>5. \A k, l \in 1 .. n + 1 : new[k] = new[l] => k = l
      <4>1. \A k, l \in 1 .. n : old[k] = old[l] => k = l
        BY <2>1, Zenon
      <4>2. \A k \in 1 .. n : old[k] # i /\ new[k] = old[k]
        BY <2>2, <3>3, Zenon
      <4>3. new[n + 1] = i /\ n \in Nat
        BY <3>3, Zenon
      <4> HIDE DEF n, old, new
      <4>4. \A k \in 1 .. n + 1 : k \in 1 .. n \/ k = n + 1
        BY <4>3
      <4> QED
        BY <4>1, <4>2, <4>3, <4>4, Zenon
    <3> QED
      BY <2>1, <3>2, <3>3, <3>4, <3>5, Zenon
  <2>4. CASE u # q
    <3>1. queue'[u] = queue[u]
      BY <1>0, <1>4, <2>4, Zenon DEF Typed
    <3>2. {j \in Slots : to'[j] = u} = {j \in Slots : to[j] = u}
      BY <1>0, <1>1, <1>2, <2>4, MailboxConstants, Zenon DEF Typed
    <3> QED
      BY <2>1, <3>1, <3>2
  <2> QED
    BY <2>3, <2>4, Zenon
<1>7. FlagsRight' /\ SleeperHasNoMail'
  <2> SUFFICES ASSUME NEW u \in Procs
               PROVE  /\ waitq'[u] = TRUE => queue'[u] = << >> /\ pc'[u] \in {"recv", "recv_asleep"}
                      /\ pc'[u] = "recv_asleep" => queue'[u] = << >> /\ waitq'[u]
    BY Zenon DEF FlagsRight, SleeperHasNoMail
  <2>1. CASE u = q
    <3>1. waitq'[u] = FALSE
      BY <1>0, <1>2, <2>1, Zenon DEF Typed
    <3>2. pc'[u] # "recv_asleep"
      <4>1. CASE waitq[q] = TRUE
        BY <1>0, <1>w, <2>1, <4>1 DEF Wake, Typed
      <4>2. CASE waitq[q] = FALSE
        BY <1>0, <1>w, <2>1, <4>2, Zenon DEF SleeperHasNoMail
      <4> QED
        BY <1>w, <4>1, <4>2, Zenon
    <3> QED
      BY <3>1, <3>2, Zenon
  <2>2. CASE u # q
    <3>1. pc'[u] = pc[u]
      BY <1>0, <1>w, <2>2, Zenon DEF Wake, Typed
    <3>2. queue'[u] = queue[u] /\ waitq'[u] = waitq[u]
      BY <1>0, <1>2, <1>4, <2>2, Zenon DEF Typed
    <3> QED
      BY <1>0, <3>1, <3>2, Zenon DEF FlagsRight, SleeperHasNoMail
  <2> QED
    BY <2>1, <2>2, Zenon
<1> QED
  BY <1>1, <1>2, <1>4, <1>5, <1>6, <1>7, Zenon DEF MailInv, Free
-------------------------------------------------------------------------------
\* recv takes the slot at the head of its queue and frees it, or goes to sleep.
LEMMA RecvStep ==
  ASSUME Inv, NEW p \in Procs, Recv(p)
  PROVE  /\ MailInv'
         /\ \/ UNCHANGED <<queue, buf>>
            \/ /\ queue[p] # << >>
               /\ queue' = [queue EXCEPT ![p] = Tail(@)]
               /\ buf' = [buf EXCEPT ![Head(queue[p])] = Blank]
<1>0. Typed /\ SlotsAccounted /\ FlagsRight /\ SleeperHasNoMail
  BY Zenon DEF Inv, MailInv
<1>1. CASE queue[p] # << >>
  <2> DEFINE i == Head(queue[p])
             n == Len(queue[p])
  <2>1. /\ to' = [to EXCEPT ![i] = NoPid] /\ buf' = [buf EXCEPT ![i] = Blank]
        /\ queue' = [queue EXCEPT ![p] = Tail(@)]
        /\ pc' = [pc EXCEPT ![p] = "user"]
        /\ UNCHANGED <<waitq, arrived, pids, entered, passed, killed>>
    BY <1>1, Zenon DEF Recv, FreeSlot, barVars
  <2>2. /\ queue[p] \in Seq(Slots) /\ n \in Nat \ {0} /\ i = queue[p][1] /\ i \in Slots
        /\ Tail(queue[p]) \in Seq(Slots) /\ Len(Tail(queue[p])) = n - 1
        /\ \A k \in 1 .. n - 1 : Tail(queue[p])[k] = queue[p][k + 1]
    BY <1>0, <1>1 DEF Typed
  <2>3. /\ {queue[p][k] : k \in 1 .. n} = {j \in Slots : to[j] = p}
        /\ \A k, l \in 1 .. n : queue[p][k] = queue[p][l] => k = l
        /\ to[i] = p
    <3>1. /\ {queue[p][k] : k \in 1 .. n} = {j \in Slots : to[j] = p}
          /\ \A k, l \in 1 .. n : queue[p][k] = queue[p][l] => k = l
      BY <1>0, Zenon DEF SlotsAccounted
    <3> QED
      BY <2>2, <3>1
  <2>4. ~waitq[p]
    BY <1>0, <1>1, Zenon DEF FlagsRight
  <2> HIDE DEF i, n
  <2>5. Typed'
    BY <1>0, <2>1, <2>2, Zenon DEF Typed, Places
  <2>6. SlotsAccounted'
    <3> SUFFICES ASSUME NEW u \in Procs
                 PROVE  /\ {queue'[u][k] : k \in 1 .. Len(queue'[u])} = {j \in Slots : to'[j] = u}
                        /\ \A k, l \in 1 .. Len(queue'[u]) : queue'[u][k] = queue'[u][l] => k = l
      BY Zenon DEF SlotsAccounted
    <3>1. CASE u = p
      <4>1. queue'[u] = Tail(queue[p])
        BY <1>0, <2>1, <3>1, Zenon DEF Typed
      <4>2. {j \in Slots : to'[j] = u} = {j \in Slots : to[j] = p} \ {i}
        BY <1>0, <2>1, <2>2, <3>1, MailboxConstants, Zenon DEF Typed
      <4>3. \A x : x \in {queue'[u][k] : k \in 1 .. Len(queue'[u])}
                   <=> x \in {queue[p][k] : k \in 1 .. n} \ {i}
        <5>1. \A k \in 1 .. n - 1 : queue[p][k + 1] # i
          BY <2>2, <2>3
        <5>2. \A k \in 1 .. n : queue[p][k] # i => k - 1 \in 1 .. n - 1
          BY <2>2
        <5>3. Len(queue'[u]) = n - 1 /\ \A k \in 1 .. n - 1 : queue'[u][k] = queue[p][k + 1]
          BY <2>2, <4>1, Zenon
        <5>4. \A k \in 1 .. n : queue[p][k] # i => queue'[u][k - 1] = queue[p][k]
          BY <2>2, <5>2, <5>3
        <5>5. \A k \in 1 .. n - 1 : k + 1 \in 1 .. n
          BY <2>2
        <5> DEFINE new == queue'[u]
                   old == queue[p]
        <5>6. \A x : x \in {new[k] : k \in 1 .. n - 1} <=> x \in {old[k] : k \in 1 .. n} \ {i}
          <6>1. \A k \in 1 .. n - 1 : old[k + 1] # i /\ new[k] = old[k + 1] /\ k + 1 \in 1 .. n
            BY <5>1, <5>3, <5>5, Zenon
          <6>2. \A k \in 1 .. n : old[k] # i => new[k - 1] = old[k] /\ k - 1 \in 1 .. n - 1
            BY <5>2, <5>4, Zenon
          <6> HIDE DEF new, old
          <6> QED
            BY <6>1, <6>2
        <5> QED
          BY <5>3, <5>6, Zenon
      <4>4. \A k, l \in 1 .. Len(queue'[u]) : queue'[u][k] = queue'[u][l] => k = l
        BY <2>2, <2>3, <4>1
      <4> QED
        BY <2>3, <4>2, <4>3, <4>4, Zenon
    <3>2. CASE u # p
      <4>1. queue'[u] = queue[u]
        BY <1>0, <2>1, <3>2, Zenon DEF Typed
      <4>2. {j \in Slots : to'[j] = u} = {j \in Slots : to[j] = u}
        BY <1>0, <2>1, <2>3, <3>2, MailboxConstants, Zenon DEF Typed
      <4> QED
        BY <1>0, <4>1, <4>2 DEF SlotsAccounted
    <3> QED
      BY <3>1, <3>2, Zenon
  <2>7. FlagsRight' /\ SleeperHasNoMail'
    BY <1>0, <2>1, <2>4, Zenon DEF Typed, FlagsRight, SleeperHasNoMail
  <2> QED
    BY <1>1, <2>1, <2>5, <2>6, <2>7, Zenon DEF MailInv, i
<1>2. CASE queue[p] = << >>
  <2>1. /\ waitq' = [waitq EXCEPT ![p] = TRUE] /\ pc' = [pc EXCEPT ![p] = "recv_asleep"]
        /\ UNCHANGED <<to, buf, queue, arrived, pids, entered, passed, killed>>
    BY <1>2, Zenon DEF Recv, barVars
  <2>2. Typed'
    BY <1>0, <2>1, Zenon DEF Typed, Places
  <2>3. SlotsAccounted'
    BY <1>0, <2>1 DEF SlotsAccounted
  <2>4. FlagsRight' /\ SleeperHasNoMail'
    BY <1>0, <1>2, <2>1, Zenon DEF Typed, FlagsRight, SleeperHasNoMail
  <2> QED
    BY <2>1, <2>2, <2>3, <2>4, Zenon DEF MailInv
<1> QED
  BY <1>1, <1>2, Zenon

\* The other steps leave the messages alone; a wakeup for the barrier or by kill
\* may also end a sleep in recv, whose loop looks again.
LEMMA OtherStep ==
  ASSUME Inv, NEW p \in Procs, Barrier(p) \/ BarrierReturn(p) \/ Kill(p) \/ Die(p)
  PROVE  MailInv' /\ UNCHANGED <<queue, buf>>
<1>0. Typed /\ SlotsAccounted /\ FlagsRight /\ SleeperHasNoMail
  BY Zenon DEF Inv, MailInv
<1>1. UNCHANGED <<to, buf, queue, waitq>>
  BY Zenon DEF Barrier, BarrierReturn, Kill, Die, ipcVars
<1>2. Typed'
  <2>1. CASE Barrier(p)
    <3>1. CASE LastToArrive
      <4>1. pc' \in [Procs -> Places]
        BY ZenonT(90), <1>0, <2>1, <3>1 DEF Barrier, Typed, Wake, Places
      <4>2. /\ arrived' = 0 /\ entered' = [entered EXCEPT ![p] = @ + 1]
            /\ passed' = [passed EXCEPT ![p] = @ + 1] /\ UNCHANGED <<pids, killed>>
        BY <2>1, <3>1, Zenon DEF Barrier
      <4>3. entered' \in [Procs -> Nat] /\ passed' \in [Procs -> Nat]
        BY <1>0, <4>2 DEF Typed
      <4> QED
        BY <1>0, <1>1, <4>1, <4>2, <4>3, Zenon DEF Typed
    <3>2. CASE ~LastToArrive
      <4>1. /\ arrived' = arrived + 1 /\ entered' = [entered EXCEPT ![p] = @ + 1]
            /\ pids' = [pids EXCEPT ![arrived] = p] /\ pc' = [pc EXCEPT ![p] = "bar_asleep"]
            /\ UNCHANGED <<passed, killed>>
        BY <2>1, <3>2, Zenon DEF Barrier
      <4>2. entered' \in [Procs -> Nat] /\ arrived' \in Nat
        BY <1>0, <4>1 DEF Typed
      <4>3. pids' \in [0 .. NumProcs - 1 -> Procs \cup {NoPid}]
        BY <1>0, <4>1, Zenon DEF Typed
      <4>4. pc' \in [Procs -> Places]
        BY <1>0, <4>1, Zenon DEF Typed, Places
      <4> QED
        BY <1>0, <1>1, <4>1, <4>2, <4>3, <4>4, Zenon DEF Typed
    <3> QED
      BY <3>1, <3>2, Zenon
  <2>2. CASE BarrierReturn(p)
    BY <1>0, <1>1, <2>2 DEF BarrierReturn, Typed, Places
  <2>3. CASE Kill(p) \/ Die(p)
    <3>1. pc' \in [Procs -> Places]
      BY <1>0, <2>3, ZenonT(90) DEF Kill, Die, Typed, Wake, Places
    <3>2. killed' \in [Procs -> BOOLEAN]
      BY <1>0, <2>3, Zenon DEF Kill, Die, Typed
    <3>3. UNCHANGED <<arrived, pids, entered, passed>>
      BY <2>3, Zenon DEF Kill, Die, barVars
    <3> QED
      BY <1>0, <1>1, <3>1, <3>2, <3>3, Zenon DEF Typed
  <2> QED
    BY <2>1, <2>2, <2>3, Zenon
<1>3. \A u \in Procs : \/ pc'[u] = pc[u]
                       \/ pc[u] = "recv_asleep" /\ pc'[u] = "recv"
                       \/ ~(pc[u] \in {"recv", "recv_asleep"}) /\ ~(pc'[u] \in {"recv", "recv_asleep"})
  <2>1. CASE Barrier(p)
    BY ZenonT(90), <1>0, <2>1 DEF Barrier, Typed, Wake
  <2>2. CASE BarrierReturn(p) \/ Die(p)
    BY <1>0, <2>2, Zenon DEF BarrierReturn, Die, Typed
  <2>3. CASE Kill(p)
    BY <1>0, <2>3, Zenon DEF Kill, Typed, Wake
  <2> QED
    BY <2>1, <2>2, <2>3, Zenon
<1>4. SlotsAccounted'
  BY <1>0, <1>1 DEF SlotsAccounted
<1>5. FlagsRight' /\ SleeperHasNoMail'
  BY <1>0, <1>1, <1>3, Zenon DEF FlagsRight, SleeperHasNoMail
<1> QED
  BY <1>1, <1>2, <1>4, <1>5, Zenon DEF MailInv
-------------------------------------------------------------------------------
\* Steps of send and recv: nobody enters, leaves or is woken from the barrier.
LEMMA CalmStep ==
  ASSUME Inv, NEW r \in Nat, Round(r), UNCHANGED <<barVars, killed>>,
         \A u \in Procs : \/ pc'[u] = pc[u]
                          \/ {pc[u], pc'[u]} \subseteq {"user", "recv", "recv_asleep"}
  PROVE  Round(r)'
<1>1. UNCHANGED <<arrived, pids, entered, passed, killed>>
  BY Zenon DEF barVars
<1>2. InRound(r)' = InRound(r)
  BY <1>1, Zenon DEF InRound
<1>3. \A u \in Procs : Stands(u, r)'
  BY <1>1, Zenon DEF Round, Stands
<1> QED
  BY <1>1, <1>2, <1>3, Zenon DEF Round

\* A caller that is not the last is on record in bar.pids when it falls asleep.
LEMMA ArriveStep ==
  ASSUME Inv, NEW r \in Nat, Round(r), NEW p \in Procs, Barrier(p), ~LastToArrive
  PROVE  Round(r)'
<1>0. Typed
  BY Zenon DEF Inv, MailInv
<1>s. pc[p] = "user" /\ killed[p] = FALSE
  BY <1>0, Zenon DEF Barrier, Typed
<1>1. /\ entered[p] = r
      /\ entered' = [entered EXCEPT ![p] = @ + 1] /\ arrived' = arrived + 1
      /\ pids' = [pids EXCEPT ![arrived] = p] /\ pc' = [pc EXCEPT ![p] = "bar_asleep"]
      /\ UNCHANGED <<passed, killed>>
  BY <1>s, Zenon DEF Barrier, Round, Stands
<1>2. arrived + 1 < NumProcs
  BY <1>0, NumProcsType DEF LastToArrive, Typed
<1>3. InRound(r)' = InRound(r) \cup {p} /\ p \notin InRound(r)
  BY <1>0, <1>1 DEF InRound, Typed
<1>4. Cardinality(InRound(r)') = arrived + 1
  <2>1. IsFiniteSet(InRound(r))
    BY MailboxConstants, FS_Subset, Zenon DEF InRound
  <2>2. Cardinality(InRound(r)) = arrived
    BY Zenon DEF Round
  <2> QED
    BY <1>3, <2>1, <2>2, FS_AddElement, Zenon
<1>5. \A u \in Procs \ {p} : entered'[u] = entered[u] /\ pc'[u] = pc[u]
  BY <1>0, <1>1, Zenon DEF Typed
<1>6. entered'[p] = r + 1 /\ pc'[p] = "bar_asleep" /\ arrived \in 0 .. arrived' - 1 /\ pids'[arrived] = p
  BY <1>0, <1>1, <1>2, NumProcsType DEF Typed
<1>7. \A u \in Procs \ {p}, k \in 0 .. arrived - 1 : pids[k] = u => k \in 0 .. arrived' - 1 /\ pids'[k] = u
  BY <1>0, <1>1, <1>2, NumProcsType DEF Typed
<1>8. Stands(p, r)'
  BY <1>1, <1>6, Zenon DEF Round, Stands
<1>9. ASSUME NEW u \in Procs \ {p} PROVE Stands(u, r)'
  BY <1>1, <1>5, <1>7 DEF Round, Stands
<1> QED
  BY <1>1, <1>2, <1>4, <1>8, <1>9, Zenon DEF Round

\* The last caller finds everybody else in the barrier, wakes them all, and
\* barrier r + 2 begins to fill.
LEMMA OpenStep ==
  ASSUME Inv, NEW r \in Nat, Round(r), NEW p \in Procs, Barrier(p), LastToArrive
  PROVE  Round(r + 1)'
<1> DEFINE woken == {pids[k] : k \in 0 .. NumProcs - 1}
<1>0. Typed
  BY Zenon DEF Inv, MailInv
<1>s. pc[p] = "user" /\ killed[p] = FALSE
  BY <1>0, Zenon DEF Barrier, Typed
<1>1. /\ pc[p] = "user" /\ entered[p] = r
      /\ entered' = [entered EXCEPT ![p] = @ + 1] /\ arrived' = 0
      /\ pc' = Wake(pc, woken) /\ passed' = [passed EXCEPT ![p] = @ + 1]
      /\ UNCHANGED <<pids, killed>>
  BY <1>s, Zenon DEF Barrier, Round, Stands
<1>2. arrived = NumProcs - 1
  BY <1>0, NumProcsType DEF LastToArrive, Round, Typed
<1>3. InRound(r) = Procs \ {p}
  <2>1. InRound(r) \subseteq Procs \ {p}
    BY <1>1 DEF InRound
  <2>2. IsFiniteSet(Procs \ {p}) /\ Cardinality(Procs \ {p}) = NumProcs - 1
    BY MailboxConstants, FS_RemoveElement, Zenon DEF NumProcs
  <2>3. Cardinality(InRound(r)) = Cardinality(Procs \ {p})
    BY <1>2, <2>2, Zenon DEF Round
  <2> QED
    BY <2>1, <2>2, <2>3, FS_Subset, Zenon
<1>4. \A u \in Procs : entered'[u] = r + 1
  BY <1>0, <1>1, <1>3, Zenon DEF InRound, Typed
<1>5. InRound(r + 1)' = {}
  BY <1>4 DEF InRound
<1>6. \A u \in Procs : pc[u] = "bar_asleep" => u \in woken
  <2> SUFFICES ASSUME NEW u \in Procs, pc[u] = "bar_asleep" PROVE u \in woken
    BY Zenon
  <2>1. PICK k \in 0 .. arrived - 1 : pids[k] = u
    BY Zenon DEF Round, Stands
  <2>2. k \in 0 .. NumProcs - 1
    BY <1>2, NumProcsType
  <2> QED
    BY <2>1, <2>2, Zenon
<1>7. \A u \in Procs : pc'[u] # "bar_asleep"
  <2> HIDE DEF woken
  <2> QED
    BY <1>0, <1>1, <1>6, Zenon DEF Typed, Wake
<1>8. \A u \in Procs : pc'[u] = "bar_awake" => passed'[u] < r + 1
  <2> SUFFICES ASSUME NEW u \in Procs, pc'[u] = "bar_awake" PROVE passed'[u] < r + 1
    BY Zenon
  <2> HIDE DEF woken
  <2>1. u # p
    BY <1>0, <1>1, Zenon DEF Typed, Wake
  <2>2. passed'[u] = passed[u] /\ passed[u] <= r /\ passed[u] \in Nat
    BY <1>0, <1>1, <2>1, Zenon DEF Typed, Round, Stands
  <2> QED
    BY <2>2
<1>9. \A u \in Procs : passed'[u] <= r + 1
  <2> HIDE DEF woken
  <2> QED
    BY <1>0, <1>1 DEF Typed, Round, Stands
<1> HIDE DEF woken
<1>10. \A u \in Procs : Stands(u, r + 1)'
  BY <1>4, <1>7, <1>8, <1>9, Zenon DEF Stands
<1>11. arrived' = Cardinality(InRound(r + 1)') /\ arrived' < NumProcs
  BY <1>1, <1>5, FS_EmptySet, NumProcsType
<1> QED
  BY <1>10, <1>11, Zenon DEF Round

\* Whatever a process does, the barrier stays in its round or goes to the next.
LEMMA RoundStep ==
  ASSUME Inv, NEW p \in Procs,
         (\E q \in Procs, m \in Msgs : Send(p, q, m)) \/ Recv(p) \/ Barrier(p)
            \/ BarrierReturn(p) \/ Kill(p) \/ Die(p)
  PROVE  BarInv'
<1>0. Typed /\ FlagsRight
  BY Zenon DEF Inv, MailInv
<1>r. PICK r \in Nat : Round(r)
  BY Zenon DEF Inv, BarInv
<1>1. ASSUME NEW q \in Procs, NEW m \in Msgs, Send(p, q, m) PROVE BarInv'
  <2>1. /\ \/ waitq[q] = TRUE /\ pc' = Wake(pc, {q})
           \/ waitq[q] = FALSE /\ pc' = pc
        /\ UNCHANGED <<barVars, killed>>
    BY SMTT(30), <1>0, <1>1 DEF Send, Typed
  <2>2. waitq[q] = TRUE => pc[q] \in {"recv", "recv_asleep"}
    BY <1>0, Zenon DEF FlagsRight
  <2>3. \A u \in Procs : \/ pc'[u] = pc[u]
                         \/ {pc[u], pc'[u]} \subseteq {"user", "recv", "recv_asleep"}
    BY <1>0, <2>1, <2>2 DEF Typed, Wake
  <2>4. Round(r)'
    BY <1>r, <2>1, <2>3, CalmStep, Zenon
  <2> QED
    BY <1>r, <2>4, Zenon DEF BarInv
<1>2. CASE Recv(p)
  <2>1. /\ pc' = [pc EXCEPT ![p] = "user"] \/ pc' = [pc EXCEPT ![p] = "recv_asleep"]
        /\ pc[p] \in {"user", "recv"}
        /\ UNCHANGED <<barVars, killed>>
    BY <1>2, Zenon DEF Recv
  <2>3. \A u \in Procs : \/ pc'[u] = pc[u]
                         \/ {pc[u], pc'[u]} \subseteq {"user", "recv", "recv_asleep"}
    BY <1>0, <2>1, Zenon DEF Typed
  <2>4. Round(r)'
    BY <1>r, <2>1, <2>3, CalmStep, Zenon
  <2> QED
    BY <1>r, <2>4, Zenon DEF BarInv
<1>3. CASE BarrierReturn(p)
  <2>1. /\ pc[p] = "bar_awake" /\ pc' = [pc EXCEPT ![p] = "user"]
        /\ passed' = [passed EXCEPT ![p] = IF killed[p] THEN @ ELSE @ + 1]
        /\ UNCHANGED <<arrived, pids, entered, killed>>
    BY <1>3, Zenon DEF BarrierReturn
  <2>2. InRound(r)' = InRound(r)
    BY <2>1, Zenon DEF InRound
  <2>3. \A u \in Procs \ {p} : passed'[u] = passed[u] /\ pc'[u] = pc[u]
    BY <1>0, <2>1, Zenon DEF Typed
  <2>4. Stands(p, r)
    BY <1>r, Zenon DEF Round
  <2>5. Stands(p, r)'
    <3>1. pc'[p] = "user"
      BY <1>0, <2>1, Zenon DEF Typed
    <3>2. CASE killed[p] = TRUE
      <4>1. passed'[p] = passed[p]
        BY <1>0, <2>1, <3>2, Zenon DEF Typed
      <4> QED
        BY <2>1, <2>4, <3>1, <3>2, <4>1, Zenon DEF Stands
    <3>3. CASE killed[p] = FALSE
      <4>1. passed'[p] = passed[p] + 1 /\ passed[p] \in Nat
        BY <1>0, <2>1, <3>3, Zenon DEF Typed
      <4> QED
        BY <2>1, <2>4, <3>1, <3>3, <4>1 DEF Stands
    <3> QED
      BY <1>0, <3>2, <3>3, Zenon DEF Typed
  <2>6. \A u \in Procs \ {p} : Stands(u, r)'
    BY <1>r, <2>1, <2>3, Zenon DEF Round, Stands
  <2>7. Round(r)'
    BY <1>r, <2>1, <2>2, <2>5, <2>6, Zenon DEF Round
  <2> QED
    BY <1>r, <2>7 DEF BarInv
<1>4. CASE Kill(p)
  <2>1. /\ killed' = [killed EXCEPT ![p] = TRUE] /\ pc' = Wake(pc, {p})
        /\ UNCHANGED <<arrived, pids, entered, passed>>
    BY <1>4, Zenon DEF Kill, barVars
  <2>2. InRound(r)' = InRound(r)
    BY <2>1, Zenon DEF InRound
  <2>3. /\ killed'[p] = TRUE /\ pc'[p] # "bar_asleep"
        /\ \A u \in Procs \ {p} : killed'[u] = killed[u] /\ pc'[u] = pc[u]
    BY <1>0, <2>1, Zenon DEF Typed, Wake
  <2>4. \A u \in Procs : Stands(u, r)'
    BY ZenonT(90), <1>r, <2>1, <2>3 DEF Round, Stands
  <2>7. Round(r)'
    BY <1>r, <2>1, <2>2, <2>4, Zenon DEF Round
  <2> QED
    BY <1>r, <2>7 DEF BarInv
<1>5. CASE Die(p)
  <2>1. /\ pc' = [pc EXCEPT ![p] = "dead"]
        /\ UNCHANGED <<arrived, pids, entered, passed, killed>>
    BY <1>5, Zenon DEF Die, barVars
  <2>2. InRound(r)' = InRound(r)
    BY <2>1, Zenon DEF InRound
  <2>3. pc'[p] = "dead" /\ \A u \in Procs \ {p} : pc'[u] = pc[u]
    BY <1>0, <2>1, Zenon DEF Typed
  <2>4. \A u \in Procs : Stands(u, r)'
    BY <1>r, <2>1, <2>3, Zenon DEF Round, Stands
  <2>7. Round(r)'
    BY <1>r, <2>1, <2>2, <2>4, Zenon DEF Round
  <2> QED
    BY <1>r, <2>7 DEF BarInv
<1>6. CASE Barrier(p)
  <2>1. Round(r)' \/ Round(r + 1)'
    BY <1>r, <1>6, ArriveStep, OpenStep, Zenon
  <2> QED
    BY <1>r, <2>1 DEF BarInv
<1> QED
  BY <1>1, <1>2, <1>3, <1>4, <1>5, <1>6, Zenon

\* Every system call and every kill preserves both halves of the invariant.
LEMMA InvStep == ASSUME Fits, Inv, [Next]_vars PROVE Inv'
<1>1. CASE UNCHANGED vars
  <2>1. UNCHANGED <<to, buf, queue, waitq, arrived, pids, entered, passed, pc, killed>>
    BY <1>1, Zenon DEF vars, ipcVars, barVars
  <2>2. MailInv'
    BY <2>1 DEF Inv, MailInv, Typed, SlotsAccounted, FlagsRight, SleeperHasNoMail
  <2>3. BarInv'
    <3>1. PICK r \in Nat : Round(r)
      BY Zenon DEF Inv, BarInv
    <3>2. InRound(r)' = InRound(r)
      BY <2>1, Zenon DEF InRound
    <3>3. \A u \in Procs : Stands(u, r)'
      BY <2>1, <3>1, Zenon DEF Round, Stands
    <3>4. Round(r)'
      BY <2>1, <3>1, <3>2, <3>3, Zenon DEF Round
    <3> QED
      BY <3>4, Zenon DEF BarInv
  <2> QED
    BY <2>2, <2>3, Zenon DEF Inv
<1>2. ASSUME NEW p \in Procs,
             (\E q \in Procs, m \in Msgs : Send(p, q, m)) \/ Recv(p) \/ Barrier(p)
                \/ BarrierReturn(p) \/ Kill(p) \/ Die(p)
      PROVE  Inv'
  <2>1. MailInv'
    BY <1>2, SendStep, RecvStep, OtherStep, Zenon
  <2>2. BarInv'
    BY <1>2, RoundStep, Zenon
  <2> QED
    BY <2>1, <2>2, Zenon DEF Inv
<1> QED
  BY <1>1, <1>2, Zenon DEF Next
-------------------------------------------------------------------------------
\* Everything the model's steps preserve holds always.
LEMMA Invariance == ASSUME Fits PROVE Spec => []Inv
<1>1. Init => Inv
  BY InitInv, Zenon
<1>2. Inv /\ [Next]_vars => Inv'
  BY InvStep, Zenon
<1> QED
  BY <1>1, <1>2, PTL DEF Spec

\* sys_send, sys_recv: for any number of processes and slots, no slot is lost or
\* shared, while no process has QSIZE messages waiting.
THEOREM SlotsNeverLeak == ASSUME Fits PROVE Spec => []SlotsAccounted
<1>1. Inv => SlotsAccounted
  BY Zenon DEF Inv, MailInv
<1> QED
  BY <1>1, Invariance, PTL

\* sys_recv: nobody sleeps while it has mail, and the next sender wakes it,
\* although barrier and kill wake the same channel.
THEOREM NoMailSleptThrough == ASSUME Fits PROVE Spec => []SleeperHasNoMail
<1>1. Inv => SleeperHasNoMail
  BY Zenon DEF Inv, MailInv
<1> QED
  BY <1>1, Invariance, PTL

\* sys_barrier: for any number of processes and rounds, nobody gets past a
\* barrier that somebody has not reached, whatever messages and kills wake.
THEOREM BarrierNeverLeaks == ASSUME Fits PROVE Spec => []BarrierHolds
<1>1. ASSUME Inv PROVE BarrierHolds
  <2>1. Typed
    BY <1>1, Zenon DEF Inv, MailInv
  <2>2. PICK r \in Nat : Round(r)
    BY <1>1, Zenon DEF Inv, BarInv
  <2> QED
    <3>1. \A p \in Procs : passed[p] \in Nat /\ entered[p] \in Nat
      BY <2>1, Zenon DEF Typed
    <3>2. \A p \in Procs : passed[p] <= r /\ (entered[p] = r \/ entered[p] = r + 1)
      BY <2>2, Zenon DEF Round, Stands
    <3> QED
      BY <3>1, <3>2 DEF BarrierHolds
<1>2. Inv => BarrierHolds
  BY SMTT(30), <1>1
<1> QED
  BY <1>2, Invariance, PTL
-------------------------------------------------------------------------------
\* The contents of the slots in each queue, in order: the abstract inbox.
Box == [p \in Procs |-> [k \in 1 .. Len(queue[p]) |-> buf[queue[p][k]]]]

\* enque of a fresh slot appends its message and changes no other inbox.
LEMMA BoxSend ==
  ASSUME Inv, NEW q \in Procs, NEW m \in Msgs, NEW i \in Free,
         queue' = [queue EXCEPT ![q] = Append(@, i)], buf' = [buf EXCEPT ![i] = m]
  PROVE  Box' = [Box EXCEPT ![q] = Append(@, m)]
<1>0. Typed /\ SlotsAccounted
  BY Zenon DEF Inv, MailInv
<1>1. i \in Slots /\ to[i] = NoPid
  BY Zenon DEF Free
<1>2. \A u \in Procs : \A k \in 1 .. Len(queue[u]) : queue[u][k] \in Slots /\ queue[u][k] # i
  <2> SUFFICES ASSUME NEW u \in Procs, NEW k \in 1 .. Len(queue[u])
               PROVE  queue[u][k] \in Slots /\ to[queue[u][k]] = u
    BY <1>1, MailboxConstants
  <2>1. queue[u][k] \in {queue[u][l] : l \in 1 .. Len(queue[u])}
    BY Zenon
  <2> QED
    BY <1>0, <2>1 DEF SlotsAccounted
<1>3. ASSUME NEW u \in Procs, u # q PROVE Box'[u] = Box[u]
  <2>1. queue'[u] = queue[u]
    BY <1>0, <1>3, Zenon DEF Typed
  <2>2. \A k \in 1 .. Len(queue[u]) : buf'[queue[u][k]] = buf[queue[u][k]]
    BY <1>0, <1>2, Zenon DEF Typed
  <2> QED
    BY ZenonT(90), <2>1, <2>2 DEF Box
<1>4. Box'[q] = Append(Box[q], m)
  <2> DEFINE n == Len(queue[q])
  <2>1. /\ queue'[q] = Append(queue[q], i) /\ n \in Nat /\ Len(queue'[q]) = n + 1
        /\ queue'[q][n + 1] = i /\ \A k \in 1 .. n : queue'[q][k] = queue[q][k]
    BY <1>0, <1>1 DEF Typed
  <2>2. \A k \in 1 .. n : buf'[queue'[q][k]] = buf[queue[q][k]]
    BY <1>0, <1>2, <2>1 DEF Typed
  <2>3. buf'[i] = m
    BY <1>0, <1>1, Zenon DEF Typed
  <2> HIDE DEF n
  <2>4. Box[q] = [k \in 1 .. n |-> buf[queue[q][k]]]
    BY Zenon DEF Box, n
  <2>5. Box'[q] = [k \in 1 .. n + 1 |-> buf'[queue'[q][k]]]
    BY <2>1, Zenon DEF Box
  <2>6. Append([k \in 1 .. n |-> buf[queue[q][k]]], m)
          = [k \in 1 .. n + 1 |-> IF k \in 1 .. n THEN buf[queue[q][k]] ELSE m]
    BY <2>1
  <2> QED
    BY <2>1, <2>2, <2>3, <2>4, <2>5, <2>6
<1> QED
  BY <1>3, <1>4, Zenon DEF Box

\* deque of the first slot removes the first message; spoiling that slot
\* changes nothing that is still queued.
LEMMA BoxRecv ==
  ASSUME Inv, NEW p \in Procs, queue[p] # << >>,
         queue' = [queue EXCEPT ![p] = Tail(@)], buf' = [buf EXCEPT ![Head(queue[p])] = Blank]
  PROVE  Box[p] # << >> /\ Box' = [Box EXCEPT ![p] = Tail(@)]
<1> DEFINE i == Head(queue[p])
           n == Len(queue[p])
<1>0. Typed /\ SlotsAccounted
  BY Zenon DEF Inv, MailInv
<1>1. /\ n \in Nat \ {0} /\ i = queue[p][1] /\ i \in Slots /\ queue[p] \in Seq(Slots)
      /\ Len(Tail(queue[p])) = n - 1
      /\ \A k \in 1 .. n - 1 : Tail(queue[p])[k] = queue[p][k + 1]
  BY <1>0 DEF Typed
<1>2. \A k \in 2 .. n : queue[p][k] # i /\ queue[p][k] \in Slots
  BY <1>0, <1>1 DEF SlotsAccounted
<1>3. to[i] = p
  BY <1>0, <1>1 DEF SlotsAccounted
<1> HIDE DEF i, n
<1>4. ASSUME NEW u \in Procs, u # p PROVE Box'[u] = Box[u]
  <2>1. queue'[u] = queue[u]
    BY <1>0, <1>4, Zenon DEF Typed
  <2>2. \A k \in 1 .. Len(queue[u]) : queue[u][k] \in Slots /\ queue[u][k] # i
    BY <1>0, <1>3, <1>4 DEF SlotsAccounted
  <2>3. \A k \in 1 .. Len(queue[u]) : buf'[queue[u][k]] = buf[queue[u][k]]
    BY <1>0, <2>2, Zenon DEF Typed, i
  <2> QED
    BY ZenonT(90), <2>1, <2>3 DEF Box
<1>5. Box[p] = [k \in 1 .. n |-> buf[queue[p][k]]]
  BY Zenon DEF Box, n
<1>6. Box[p] # << >>
  BY <1>1, <1>5
<1>7. Box'[p] = Tail(Box[p])
  <2>1. queue'[p] = Tail(queue[p])
    BY <1>0, Zenon DEF Typed
  <2>2. \A k \in 1 .. n - 1 : k + 1 \in 2 .. n
    BY <1>1
  <2>3. \A k \in 1 .. n - 1 : buf'[queue'[p][k]] = buf[queue[p][k + 1]]
    BY <1>0, <1>1, <1>2, <2>1, <2>2 DEF Typed, i
  <2>4. Box'[p] = [k \in 1 .. n - 1 |-> buf'[queue'[p][k]]]
    BY <1>1, <2>1, Zenon DEF Box
  <2>5. Tail([k \in 1 .. n |-> buf[queue[p][k]]]) = [k \in 1 .. n - 1 |-> buf[queue[p][k + 1]]]
    BY <1>1
  <2>6. [k \in 1 .. n - 1 |-> buf'[queue'[p][k]]] = [k \in 1 .. n - 1 |-> buf[queue[p][k + 1]]]
    BY <2>3, Zenon
  <2>7. Box'[p] = [k \in 1 .. n - 1 |-> buf[queue[p][k + 1]]]
    BY <2>4, <2>6, Zenon
  <2>8. Tail(Box[p]) = [k \in 1 .. n - 1 |-> buf[queue[p][k + 1]]]
    BY <1>5, <2>5, Zenon
  <2> QED
    BY <2>7, <2>8, Zenon
<1>8. DOMAIN Box = Procs /\ DOMAIN Box' = Procs
  BY Zenon DEF Box
<1>9. Box' = [u \in Procs |-> Box'[u]]
  BY DEF Box
<1>10. [Box EXCEPT ![p] = Tail(@)] = [u \in Procs |-> IF u = p THEN Tail(Box[p]) ELSE Box[u]]
  BY <1>8, Zenon
<1> QED
  BY <1>4, <1>6, <1>7, <1>9, <1>10, Zenon

\* sys_send and sys_recv implement one first-in first-out inbox per process, for
\* any processes, messages and slots: the slot table, the rings of slot numbers
\* and the wait flags never lose, duplicate, misdirect or reorder a message.
THEOREM ImplementsInbox == ASSUME Fits PROVE Spec => DeliversInOrder
<1>1. Init => IB!InboxInit
  BY DEF Init, IB!InboxInit
<1>2. ASSUME Inv, [Next]_vars PROVE [IB!InboxNext]_Box
  <2>1. ASSUME NEW p \in Procs, NEW q \in Procs, NEW m \in Msgs, Send(p, q, m) PROVE IB!InboxNext
    <3>1. PICK i \in Free : /\ queue' = [queue EXCEPT ![q] = Append(@, i)]
                            /\ buf' = [buf EXCEPT ![i] = m]
      BY <1>2, <2>1, SendStep
    <3>2. Box' = [Box EXCEPT ![q] = Append(@, m)]
      BY <1>2, <3>1, BoxSend, Zenon
    <3> QED
      BY <3>2, Zenon DEF IB!InboxNext, IB!Deposit, Box
  <2>2. ASSUME NEW p \in Procs, Recv(p) PROVE IB!InboxNext \/ Box' = Box
    <3>1. CASE UNCHANGED <<queue, buf>>
      BY <3>1, Zenon DEF Box
    <3>2. CASE /\ queue[p] # << >>
               /\ queue' = [queue EXCEPT ![p] = Tail(@)]
               /\ buf' = [buf EXCEPT ![Head(queue[p])] = Blank]
      <4>1. Box[p] # << >> /\ Box' = [Box EXCEPT ![p] = Tail(@)]
        BY <1>2, <3>2, BoxRecv, Zenon
      <4> QED
        BY <4>1, Zenon DEF IB!InboxNext, IB!Collect, Box
    <3> QED
      BY <1>2, <2>2, <3>1, <3>2, RecvStep, Zenon
  <2>3. ASSUME NEW p \in Procs, Barrier(p) \/ BarrierReturn(p) \/ Kill(p) \/ Die(p) PROVE Box' = Box
    BY <1>2, <2>3, OtherStep, Zenon DEF Box
  <2>4. CASE UNCHANGED vars
    BY <2>4, Zenon DEF vars, ipcVars, Box
  <2> QED
    BY <1>2, <2>1, <2>2, <2>3, <2>4, Zenon DEF Next
<1>3. Inv /\ [Next]_vars => [IB!InboxNext]_Box
  BY <1>2, Zenon
<1> QED
  BY <1>1, <1>3, Invariance, PTL DEF Spec, DeliversInOrder, IB!InboxSpec, Box
===============================================================================
