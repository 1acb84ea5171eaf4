------------------------------ MODULE MCMessages ------------------------------
(* Message passing and the programs built on it.  A behaviour is about one    *)
(* part: the calls of assignment 2 (Mailbox), those of assignment 1           *)
(* (Messages), signals, Maekawa's program on xv6 or on Linux, or Jacobi's on  *)
(* xv6 or on Linux.                                                           *)
EXTENDS Mailbox, Messages, Signals

VARIABLES inbox, place, round, todo, q, temp, num, done, pbar, pbar2,  \* LinuxMaekawa's
          mail, at, k, sweep, next, halo, diff, count,          \* Jacobi's
          part

callVars    == <<msgVars, sigVars>>
maekawaVars == <<inbox, place, round, todo, q, temp, num, done, pbar, pbar2>>
jacobiVars  == <<mail, at, k, sweep, next, halo, diff, count>>

Mae == INSTANCE LinuxMaekawa WITH SIZE <- 2, P1 <- 1, Release <- 100, NoPid <- 99, pc <- place
Jac == INSTANCE Jacobi WITH NP <- 2, ROWS <- 4, WIDTH <- 2, L <- 2, LINUX <- FALSE
JaL == INSTANCE Jacobi WITH NP <- 2, ROWS <- 4, WIDTH <- 2, L <- 2, LINUX <- TRUE

MInit ==
  /\ Init /\ MsgInit /\ SigInit /\ Mae!LinuxInit
  /\ \/ part \in {"mailbox", "messages", "signals", "maekawa", "maekawa_linux"} /\ JaL!JacobiInit
           /\ count = [p \in {0, 1} |-> 0]
     \/ part = "jacobi" /\ Jac!JacobiInit
     \/ part = "jacobi_linux" /\ JaL!JacobiInit

Calls == part = "mailbox" /\ Next /\ UNCHANGED <<callVars, maekawaVars, jacobiVars, part>>
Calls1 == /\ \/ part = "messages" /\ MsgNext /\ UNCHANGED sigVars
             \/ part = "signals" /\ SigNext /\ UNCHANGED msgVars
          /\ UNCHANGED <<vars, maekawaVars, jacobiVars, part>>
Maekawa(p) ==
  /\ \/ part = "maekawa" /\ Mae!Step(p) /\ UNCHANGED <<pbar, pbar2>>
     \/ part = "maekawa_linux" /\ Mae!LinuxStep(p)
  /\ UNCHANGED <<vars, callVars, jacobiVars, part>>
Jacobi(p) ==
  /\ part \in {"jacobi", "jacobi_linux"} /\ Jac!JacobiStep(p)
  /\ UNCHANGED <<vars, callVars, maekawaVars, part>>

MNext == Calls \/ Calls1 \/ (\E p \in 0 .. 3 : Maekawa(p)) \/ (\E p \in 0 .. 1 : Jacobi(p))

mvars == <<vars, callVars, maekawaVars, jacobiVars, part>>

\* A process woken inside recv or barrier runs again (Mailbox).  The programs do
\* not stop while some process of theirs can take a step; no more is needed,
\* since each step brings them forward.
Woken(p) == (pc[p] = "recv" /\ Recv(p)) \/ BarrierReturn(p)
MSpec ==
  /\ MInit /\ [][MNext]_mvars
  /\ \A p \in Procs : WF_mvars(part = "mailbox" /\ Woken(p) /\ UNCHANGED <<callVars, maekawaVars, jacobiVars, part>>)
  /\ WF_mvars((\E p \in 0 .. 3 : Maekawa(p)) \/ (\E p \in 0 .. 1 : Jacobi(p)))
-------------------------------------------------------------------------------
\* Maekawa and LinuxMaekawa: one process at a time has the lock, in grid order.
GrantedInOrder == Mae!MutualExclusion /\ Mae!GrantedInOrder

\* Jacobi: a sweep uses the neighbours' rows of the same sweep.
BordersFresh == Jac!BordersFresh

\* maekawa.c, jacob.c and jacob_linux.c end: no process is left waiting for a
\* vote, a release, a row or a verdict that nobody sends, and Maekawa's leaves
\* no message behind in the kernel's table.
ProgramsEnd ==
  <>(IF part = "maekawa" THEN \A p \in 0 .. 3 : place[p] = "exit" /\ inbox[p] = << >>
     ELSE part \in {"jacobi", "jacobi_linux"} => \A p \in 0 .. 1 : at[p] = "done")
===============================================================================
