----------------------------- MODULE LinuxMaekawa -----------------------------
(***************************************************************************)
(* src/a2/maekawa_linux.c: Maekawa's algorithm on Linux message queues.    *)
(* Every process works out the requests of its quorum by itself, in the    *)
(* order of the grid; votes and releases travel as in maekawa.c.  The      *)
(* barrier is built from anonymous tokens in two queues, which a fast      *)
(* process can take from a slow one.                                       *)
(***************************************************************************)
EXTENDS Maekawa, SequencesExt

VARIABLES pbar,     \* tokens of type 100: arrivals not yet counted
          pbar2     \* tokens of type 200: permissions to go on

linuxVars == <<vars, pbar, pbar2>>

Root == 0

LinuxInit == Init /\ pbar = 0 /\ pbar2 = 0

\* msgsnd and msgrcv on a process's own queue are the inbox's Deposit and
\* Collect; Release is the message 500, and what is smaller (the place of the
\* process it is for, or 100) is a vote.
-------------------------------------------------------------------------------
\* The turn of the process itself: the first member of its quorum gets its vote
\* by a message, the others wait in q.
LinuxRequest(p) ==
  LET rest == todo[p] \ {Min(todo[p])} IN
  /\ pc[p] = "turn" /\ round[p] = p
  /\ IB!Deposit(Min(todo[p]), Min(todo[p]))
  /\ q' = [q EXCEPT ![p] = SetToSortSeq(rest, <)]
  /\ todo' = [todo EXCEPT ![p] = @ \ {p}]
  /\ Goto(p, "arrive")
  /\ UNCHANGED <<round, temp, num, done, pbar, pbar2>>

\* barrier(): all but the root leave a token and wait for one; the root takes
\* P - 1 tokens and then gives P - 1.  num counts the root's loops.
LinuxArrive(p) ==
  /\ pc[p] = "arrive" \/ (pc[p] = "turn" /\ round[p] # p)
  /\ round' = [round EXCEPT ![p] = @ + 1]
  /\ pbar' = IF p = Root THEN pbar ELSE pbar + 1
  /\ Goto(p, "barrier")
  /\ UNCHANGED <<inbox, todo, q, temp, num, done, pbar2>>
AfterLinuxBarrier(p) == IF round[p] <= P THEN "turn" ELSE "votes"
LinuxPass(p) ==
  /\ pc[p] = "barrier" /\ p # Root /\ pbar2 > 0
  /\ pbar2' = pbar2 - 1
  /\ Goto(p, AfterLinuxBarrier(p))
  /\ UNCHANGED <<inbox, round, todo, q, temp, num, done, pbar>>
RootCounts(p) ==
  /\ pc[p] = "barrier" /\ p = Root /\ num[p] < P - 1 /\ pbar > 0
  /\ pbar' = pbar - 1
  /\ num' = [num EXCEPT ![p] = @ + 1]
  /\ UNCHANGED <<inbox, pc, round, todo, q, temp, done, pbar2>>
GiveToken == pbar2 + 1
RootGives(p) ==
  /\ pc[p] = "barrier" /\ p = Root /\ num[p] >= P - 1
  /\ pbar2' = GiveToken
  /\ IF num[p] < 2 * (P - 1) - 1
     THEN num' = [num EXCEPT ![p] = @ + 1] /\ UNCHANGED pc
     ELSE num' = [num EXCEPT ![p] = 0] /\ Goto(p, AfterLinuxBarrier(p))
  /\ UNCHANGED <<inbox, round, todo, q, temp, done, pbar>>
-------------------------------------------------------------------------------
\* A vote passed on, unless nobody waits for it.
PassVote(p, m) ==
  /\ IF Deque(q[p]).val = NoPid THEN inbox' = m
     ELSE inbox' = [m EXCEPT ![Deque(q[p]).val] = Append(@, Deque(q[p]).val)]
  /\ q' = [q EXCEPT ![p] = Deque(q[p]).rest]
  /\ done' = [done EXCEPT ![p] = @ + 1]
Received(p) == [inbox EXCEPT ![p] = Tail(@)]

\* One turn of the loop that waits for the votes; a release passes the vote on.
LinuxVotes(p) ==
  /\ pc[p] = "votes" /\ inbox[p] # << >>
  /\ IF Head(inbox[p]) = Release
     THEN PassVote(p, Received(p)) /\ UNCHANGED <<num, pc>>
     ELSE /\ inbox' = Received(p)
          /\ num' = [num EXCEPT ![p] = @ + 1]
          /\ Goto(p, IF num'[p] < Needed THEN "votes" ELSE IF p < P1 THEN "leave" ELSE "cs")
          /\ UNCHANGED <<q, done>>
  /\ UNCHANGED <<round, todo, temp, pbar, pbar2>>
LinuxLeaveSection(p) ==
  /\ pc[p] = "cs"
  /\ Goto(p, "leave")
  /\ UNCHANGED <<inbox, round, todo, q, temp, num, done, pbar, pbar2>>
\* It gives its own vote to the next request, then tells the others.
LinuxLeave(p) ==
  /\ pc[p] = "leave"
  /\ PassVote(p, inbox)
  /\ Goto(p, "release")
  /\ UNCHANGED <<round, todo, temp, num, pbar, pbar2>>
LinuxRelease(p) ==
  /\ pc[p] = "release"
  /\ IB!Deposit(Min(todo[p]), Release)
  /\ todo' = [todo EXCEPT ![p] = @ \ {Min(@)}]
  /\ Goto(p, IF todo'[p] = {} THEN "serve" ELSE "release")
  /\ UNCHANGED <<round, q, temp, num, done, pbar, pbar2>>
\* The loop that serves the others, and the end of main.
LinuxServe(p) ==
  /\ pc[p] = "serve"
  /\ IF Finished(done[p])
     THEN Goto(p, Ending(p)) /\ UNCHANGED <<inbox, q, done>>
     ELSE /\ inbox[p] # << >>
          /\ IF Head(inbox[p]) = Release THEN PassVote(p, Received(p))
             ELSE inbox' = Received(p) /\ UNCHANGED <<q, done>>
          /\ UNCHANGED pc
  /\ UNCHANGED <<round, todo, temp, num, pbar, pbar2>>

LinuxStep(p) ==
  \/ LinuxRequest(p) \/ LinuxArrive(p) \/ LinuxPass(p) \/ RootCounts(p) \/ RootGives(p)
  \/ LinuxVotes(p) \/ LinuxLeaveSection(p) \/ LinuxLeave(p) \/ LinuxRelease(p) \/ LinuxServe(p)
  \/ WaitForChildren(p) /\ UNCHANGED <<pbar, pbar2>>

LinuxNext == \E p \in Places : LinuxStep(p)

LinuxSpec == LinuxInit /\ [][LinuxNext]_linuxVars /\ \A p \in Places : WF_linuxVars(LinuxStep(p))
===============================================================================
