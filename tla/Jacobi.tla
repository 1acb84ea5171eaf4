-------------------------------- MODULE Jacobi --------------------------------
(***************************************************************************)
(* The parallel Jacobi iteration of src/a2/jacob.c over send and recv, and *)
(* its Linux version src/a2/jacob_linux.c over message queues (LINUX):     *)
(* which messages travel, in which order, and what they are taken for.     *)
(* Messages carry no sender and no type; the receiver takes what comes.    *)
(*                                                                         *)
(* A cell of the matrix is known by its row, its column and the sweep that *)
(* computed it; whether a sweep changed a cell by more than EPSILON is a   *)
(* free choice.                                                            *)
(***************************************************************************)
EXTENDS Naturals, Sequences, FiniteSets

CONSTANTS NP,       \* processes; rank 0 is the master
          ROWS,     \* N - 2, the rows that are computed
          WIDTH,    \* messages per border row
          L,        \* sweeps after which the master stops
          LINUX

VARIABLES mail,     \* what was sent to each rank and not yet received
          at,       \* where each rank is
          k,        \* its loop index
          sweep,    \* how often it has replaced u by w
          next,     \* the rank it takes for its next neighbour
          halo,     \* the border rows it holds of its neighbours
          diff,     \* "big" or "small", compared with EPSILON
          count     \* sweeps counted; not initialised by the program

jacobiVars == <<mail, at, k, sweep, next, halo, diff, count>>

Ranks    == 0 .. NP - 1
Nobody   == NP
Cols     == 1 .. WIDTH
first(p) == (p * ROWS) \div NP + 1
last(p)  == ((p + 1) * ROWS) \div NP
Garbage  == [is |-> "garbage"]
Cell(r, c, n) == [is |-> "cell", row |-> r, col |-> c, sweep |-> n]

Chan == INSTANCE Inbox WITH inbox <- mail, Procs <- Ranks, Msgs <- {}

\* The matrix is set before the forks; the children of xv6 wait for the pid of
\* their next neighbour, those of Linux compute its queue.
JacobiInit ==
  /\ Chan!InboxInit
  /\ at = [p \in Ranks |-> IF LINUX THEN "down" ELSE "next"]
  /\ k = [p \in Ranks |-> 1]
  /\ sweep = [p \in Ranks |-> 0]
  /\ next = [p \in Ranks |-> IF LINUX THEN p + 1 ELSE Nobody]
  /\ halo = [p \in Ranks |-> [above |-> [c \in Cols |-> Cell(first(p) - 1, c, 0)],
                              below |-> [c \in Cols |-> Cell(last(p) + 1, c, 0)]]]
  /\ diff = [p \in Ranks |-> "small"]
  /\ count \in [Ranks -> {0, L}]
-------------------------------------------------------------------------------
Go(p, label) == at' = [at EXCEPT ![p] = label] /\ k' = [k EXCEPT ![p] = 1]
Loop(p, n, label) ==
  IF k[p] < n THEN k' = [k EXCEPT ![p] = @ + 1] /\ UNCHANGED at ELSE Go(p, label)

\* send to rank q; a message for a pid that is no rank reaches none of them.
Post(q, m) == IF q \in Ranks THEN Chan!Deposit(q, m) ELSE UNCHANGED mail
Take(p) == Chan!Collect(p)
Got(p) == Head(mail[p])

\* The master tells ranks 1 .. NP-2 the pid of their next neighbour.
SendNext(p) ==
  /\ at[p] = "next" /\ p = 0
  /\ IF k[p] < NP - 1
     THEN Post(k[p], [is |-> "pid", of |-> k[p] + 1]) /\ k' = [k EXCEPT ![p] = @ + 1] /\ UNCHANGED <<at, next>>
     ELSE next' = [next EXCEPT ![p] = 1] /\ Go(p, "down") /\ UNCHANGED mail
  /\ UNCHANGED <<sweep, halo, diff, count>>
RecvNext(p) ==
  /\ at[p] = "next" /\ p # 0
  /\ IF p = NP - 1 THEN UNCHANGED <<mail, next>>
     ELSE Take(p) /\ next' = [next EXCEPT ![p] = IF Got(p).is = "pid" THEN Got(p).of ELSE Nobody]
  /\ Go(p, "down")
  /\ UNCHANGED <<sweep, halo, diff, count>>

\* The four loops that exchange the border rows: down, from above, up, from
\* below.  The first and the last rank skip those they have no neighbour for.
SendDown(p) ==
  /\ at[p] = "down"
  /\ IF p = NP - 1 THEN Go(p, "above") /\ UNCHANGED mail
     ELSE Post(next[p], Cell(last(p), k[p], sweep[p])) /\ Loop(p, WIDTH, "above")
  /\ UNCHANGED <<sweep, next, halo, diff, count>>
RecvAbove(p) ==
  /\ at[p] = "above"
  /\ IF p = 0 THEN Go(p, "up") /\ UNCHANGED <<mail, halo>>
     ELSE Take(p) /\ halo' = [halo EXCEPT ![p].above[k[p]] = Got(p)] /\ Loop(p, WIDTH, "up")
  /\ UNCHANGED <<sweep, next, diff, count>>
SendUp(p) ==
  /\ at[p] = "up"
  /\ IF p = 0 THEN Go(p, "below") /\ UNCHANGED mail
     ELSE Post(p - 1, Cell(first(p), k[p], sweep[p])) /\ Loop(p, WIDTH, "below")
  /\ UNCHANGED <<sweep, next, halo, diff, count>>
SkipBelow(p) ==
  /\ at[p] = "below"
  /\ Go(p, "compute")
  /\ UNCHANGED <<mail, sweep, next, halo, diff, count>>
RecvBelow(p) ==
  /\ at[p] = "below"
  /\ IF p = NP - 1 THEN Go(p, "compute") /\ UNCHANGED <<mail, halo>>
     ELSE Take(p) /\ halo' = [halo EXCEPT ![p].below[k[p]] = Got(p)] /\ Loop(p, WIDTH, "compute")
  /\ UNCHANGED <<sweep, next, diff, count>>

Compute(p, d) ==
  /\ at[p] = "compute"
  /\ diff' = [diff EXCEPT ![p] = d]
  /\ count' = [count EXCEPT ![p] = @ + 1]
  /\ Go(p, IF p = 0 THEN "gather" ELSE "report")
  /\ UNCHANGED <<mail, sweep, next, halo>>
-------------------------------------------------------------------------------
\* A number received as a difference; anything but a difference may compare
\* either way.
AsDiff(m) == IF m.is = "diff" THEN {m.val} ELSE {"big", "small"}
Larger(d, e) == IF "big" \in {d, e} THEN "big" ELSE "small"

SendDiff(p) ==
  /\ at[p] = "report"
  /\ Post(0, [is |-> "diff", val |-> diff[p]])
  /\ Go(p, "verdict")
  /\ UNCHANGED <<sweep, next, halo, diff, count>>
Gather(p) ==
  /\ at[p] = "gather"
  /\ IF NP = 1 THEN UNCHANGED <<mail, diff>>
     ELSE Take(p) /\ \E d \in AsDiff(Got(p)) : diff' = [diff EXCEPT ![p] = Larger(d, @)]
  /\ Loop(p, NP - 1, "decide")
  /\ UNCHANGED <<sweep, next, halo, count>>

\* A large difference: u gets w.  The border rows of w were never computed.
Replace(p) ==
  /\ sweep' = [sweep EXCEPT ![p] = @ + 1]
  /\ halo' = [halo EXCEPT ![p] = [above |-> [c \in Cols |-> Garbage], below |-> [c \in Cols |-> Garbage]]]
Continue(p) ==
  IF diff'[p] = "small" THEN Go(p, "print") /\ UNCHANGED <<sweep, halo>>
  ELSE Go(p, "down") /\ Replace(p)
\* The master's decision goes to everybody.
Decide(p) ==
  /\ at[p] = "decide"
  /\ diff' = [diff EXCEPT ![p] = IF count[p] >= L THEN "small" ELSE @]
  /\ IF k[p] < NP
     THEN Post(k[p], [is |-> "diff", val |-> diff'[p]]) /\ Loop(p, NP, "decide") /\ UNCHANGED <<sweep, halo>>
     ELSE UNCHANGED mail /\ Continue(p)
  /\ UNCHANGED <<next, count>>
Verdict(p) ==
  /\ at[p] = "verdict"
  /\ Take(p)
  /\ \E d \in AsDiff(Got(p)) : diff' = [diff EXCEPT ![p] = d]
  /\ Continue(p)
  /\ UNCHANGED <<next, count>>

\* The ranks print one after the other: the master prints, then gives the turn
\* to each of the others and takes its count.
GiveTurn(p) ==
  /\ at[p] = "print" /\ p = 0
  /\ IF k[p] < NP THEN Post(k[p], [is |-> "turn"]) /\ at' = [at EXCEPT ![p] = "count"] /\ UNCHANGED k
     ELSE Go(p, "wait") /\ UNCHANGED mail
  /\ UNCHANGED <<sweep, next, halo, diff, count>>
TakeCount(p) ==
  /\ at[p] = "count"
  /\ Take(p)
  /\ at' = [at EXCEPT ![p] = "print"] /\ k' = [k EXCEPT ![p] = @ + 1]
  /\ UNCHANGED <<sweep, next, halo, diff, count>>
PrintRows(p) ==
  /\ at[p] = "print" /\ p # 0
  /\ Take(p)
  /\ Go(p, "printed")
  /\ UNCHANGED <<sweep, next, halo, diff, count>>
SendCount(p) ==
  /\ at[p] = "printed"
  /\ Post(0, [is |-> "count"])
  /\ Go(p, "done")
  /\ UNCHANGED <<sweep, next, halo, diff, count>>
WaitAll(p) ==
  /\ at[p] = "wait" /\ \A r \in Ranks \ {p} : at[r] = "done"
  /\ Go(p, "done")
  /\ UNCHANGED <<mail, sweep, next, halo, diff, count>>

JacobiStep(p) ==
  \/ SendNext(p) \/ RecvNext(p)
  \/ SendDown(p) \/ RecvAbove(p) \/ SendUp(p) \/ RecvBelow(p)
  \/ \E d \in {"big", "small"} : Compute(p, d)
  \/ SendDiff(p) \/ Gather(p) \/ Decide(p) \/ Verdict(p)
  \/ GiveTurn(p) \/ TakeCount(p) \/ PrintRows(p) \/ SendCount(p) \/ WaitAll(p)

JacobiNext == \E p \in Ranks : JacobiStep(p)

JacobiSpec == JacobiInit /\ [][JacobiNext]_jacobiVars
              /\ \A p \in Ranks : WF_jacobiVars(JacobiStep(p))
-------------------------------------------------------------------------------
\* jacob.c, "Share border results with next and prev": a rank computes with its
\* neighbours' rows of its own sweep, each value in its column, although rows,
\* differences and verdicts travel in one untyped queue and the neighbours may
\* be a phase ahead; and all ranks stop after the same sweep.  With two
\* processes: with more, rows from both sides mix.
BordersFresh ==
  /\ \A p \in Ranks : at[p] = "compute" =>
       /\ p # 0 => halo[p].above = [c \in Cols |-> Cell(first(p) - 1, c, sweep[p])]
       /\ p # NP - 1 => halo[p].below = [c \in Cols |-> Cell(last(p) + 1, c, sweep[p])]
  /\ \A p, r \in Ranks : at[p] = "print" /\ at[r] \in {"print", "printed", "done"} => sweep[p] = sweep[r]

===============================================================================
