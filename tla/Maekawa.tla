------------------------------- MODULE Maekawa -------------------------------
(***************************************************************************)
(* Maekawa's mutual exclusion as the program src/a2/maekawa.c runs it on   *)
(* the system calls send, recv and barrier.  Messages go through the FIFO  *)
(* inboxes that Mailbox implements (module Inbox), and a barrier lets      *)
(* nobody through before all have arrived, as Mailbox's BarrierHolds says. *)
(*                                                                         *)
(* A process is known by its place size*i + j in the grid; its pid is that *)
(* of the first process plus its place.  Each send and recv is one step.   *)
(***************************************************************************)
EXTENDS Integers, Sequences, FiniteSets, FiniteSetsExt

CONSTANTS SIZE,      \* the grid has SIZE * SIZE processes
          P1,        \* the first P1 processes do not use the lock
          Release,   \* the message 100
          NoPid      \* -1, what deque returns for an empty queue

P      == SIZE * SIZE
Places == 0 .. P - 1

\* The row and the column of a process: the quorum whose votes it needs.
Quorum(p) == {q \in Places : q \div SIZE = p \div SIZE \/ q % SIZE = p % SIZE}

VARIABLES
  inbox,     \* messages sent and not yet received, by process
  pc,
  round,     \* how many barriers each process has called
  todo,      \* the members of the quorum its sending loop has still to reach
  q,         \* the requests waiting for its vote
  temp,      \* the pid that a reply is about to be sent to
  num,       \* votes received
  done       \* num_procs_done: releases received

vars == <<inbox, pc, round, todo, q, temp, num, done>>

IB == INSTANCE Inbox WITH Procs <- Places, Msgs <- Places \cup {Release}

Init ==
  /\ IB!InboxInit
  /\ pc = [p \in Places |-> "turn"]
  /\ round = [p \in Places |-> 0]
  /\ todo = [p \in Places |-> Quorum(p)]
  /\ q = [p \in Places |-> << >>]
  /\ temp = [p \in Places |-> NoPid]
  /\ num = [p \in Places |-> 0] /\ done = [p \in Places |-> 0]

Goto(p, label) == pc' = [pc EXCEPT ![p] = label]
-------------------------------------------------------------------------------
(* The request phase: in turn t only the process at place t sends. *)

\* One send of a loop over the quorum; the last one ends the loop.
Tell(p, m, after) ==
  LET r == Min(todo[p]) IN
  /\ IB!Deposit(r, m)
  /\ IF todo[p] = {r}
     THEN todo' = [todo EXCEPT ![p] = Quorum(p)] /\ Goto(p, after)
     ELSE todo' = [todo EXCEPT ![p] = @ \ {r}] /\ UNCHANGED pc
  /\ UNCHANGED <<round, q, temp, num, done>>

Request(p) == pc[p] = "turn" /\ round[p] = p /\ Tell(p, p, "arrive")

Arrive(p) ==
  /\ pc[p] = "arrive" \/ (pc[p] = "turn" /\ round[p] # p)
  /\ round' = [round EXCEPT ![p] = @ + 1]
  /\ Goto(p, "barrier")
  /\ UNCHANGED <<inbox, todo, q, temp, num, done>>

\* One barrier ends each turn, one follows the request phase and one the
\* collection of the requests.
AfterBarrier(r) == IF r <= P THEN "turn" ELSE IF r = P + 1 THEN "first" ELSE "votes"

LeaveBarrierEarly(p) ==
  /\ pc[p] = "barrier" /\ \A r \in Places : round[r] + 1 >= round[p]
  /\ Goto(p, AfterBarrier(round[p]))
  /\ UNCHANGED <<inbox, round, todo, q, temp, num, done>>

LeaveBarrier(p) ==
  /\ pc[p] = "barrier" /\ \A r \in Places : round[r] >= round[p]
  /\ Goto(p, AfterBarrier(round[p]))
  /\ UNCHANGED <<inbox, round, todo, q, temp, num, done>>

(* Collecting the requests: the first gets the vote, the others wait. *)

FirstRequest(p) ==
  /\ pc[p] = "first"
  /\ IB!Collect(p)
  /\ temp' = [temp EXCEPT ![p] = Head(inbox[p])]
  /\ Goto(p, "grant")
  /\ UNCHANGED <<round, todo, q, num, done>>

Grant(p) ==
  /\ pc[p] = "grant"
  /\ IB!Deposit(temp[p], temp[p])
  /\ Goto(p, "collect")
  /\ UNCHANGED <<round, todo, q, temp, num, done>>

CollectRequest(p) ==
  /\ pc[p] = "collect"
  /\ IB!Collect(p)
  /\ q' = [q EXCEPT ![p] = Append(@, Head(inbox[p]))]
  /\ Goto(p, IF Len(q'[p]) = 2 * SIZE - 2 THEN "arrive" ELSE "collect")
  /\ UNCHANGED <<round, todo, temp, num, done>>
-------------------------------------------------------------------------------
(* Votes, the critical section and the service of the others. *)

Deque(s) ==
  IF s = << >> THEN [val |-> NoPid, rest |-> s]
  ELSE [val |-> Head(s), rest |-> Tail(s)]

\* A release was received: the vote goes to the next request, if any.
PassVoteOn(p, label) ==
  /\ temp' = [temp EXCEPT ![p] = Deque(q[p]).val]
  /\ q' = [q EXCEPT ![p] = Deque(q[p]).rest]
  /\ Goto(p, label)

NeededRowOnly == SIZE - 1

Needed == 2 * SIZE - 1

\* One turn of the loop that waits for the votes.
AwaitVotes(p) ==
  /\ pc[p] = "votes"
  /\ IB!Collect(p)
  /\ LET m == Head(inbox[p]) IN
     IF m = Release THEN PassVoteOn(p, "votes_reply") /\ UNCHANGED num
     ELSE /\ num' = IF m = p THEN [num EXCEPT ![p] = @ + 1] ELSE num
          /\ q' = IF m = p THEN q ELSE [q EXCEPT ![p] = Append(@, m)]
          /\ Goto(p, IF num'[p] # Needed THEN "votes"
                     ELSE IF p < P1 THEN "release" ELSE "cs")
          /\ UNCHANGED temp
  /\ UNCHANGED <<round, todo, done>>

LeaveSection(p) ==
  /\ pc[p] = "cs"
  /\ Goto(p, "release")
  /\ UNCHANGED <<inbox, round, todo, q, temp, num, done>>

SendRelease(p) == pc[p] = "release" /\ Tell(p, Release, "serve")

FinishedLate(n) == n > 2 * SIZE - 1

Finished(n) == n >= 2 * SIZE - 1

\* The end of main: the first process waits for the others.
Ending(p) == IF p = 0 THEN "wait" ELSE "exit"

\* One turn of the loop that serves the others after the release.
Serve(p) ==
  /\ pc[p] = "serve"
  /\ IB!Collect(p)
  /\ IF Head(inbox[p]) = Release THEN PassVoteOn(p, "serve_reply")
     ELSE /\ Goto(p, IF Finished(done[p]) THEN Ending(p) ELSE "serve")
          /\ UNCHANGED <<q, temp>>
  /\ UNCHANGED <<round, todo, num, done>>

\* send(getpid(), temp, &temp) after a release.  With an empty queue temp is
\* -1 and no process gets the message.
Reply(p) ==
  /\ pc[p] \in {"votes_reply", "serve_reply"}
  /\ IF temp[p] = NoPid THEN UNCHANGED inbox ELSE IB!Deposit(temp[p], temp[p])
  /\ done' = [done EXCEPT ![p] = @ + 1]
  /\ Goto(p, IF pc[p] = "votes_reply" THEN "votes"
             ELSE IF Finished(done'[p]) THEN Ending(p) ELSE "serve")
  /\ UNCHANGED <<round, todo, q, temp, num>>

WaitForChildren(p) ==
  /\ pc[p] = "wait" /\ \A r \in Places \ {p} : pc[r] = "exit"
  /\ Goto(p, "exit")
  /\ UNCHANGED <<inbox, round, todo, q, temp, num, done>>
-------------------------------------------------------------------------------
Step(p) ==
  \/ Request(p) \/ Arrive(p) \/ LeaveBarrier(p)
  \/ FirstRequest(p) \/ Grant(p) \/ CollectRequest(p)
  \/ AwaitVotes(p) \/ LeaveSection(p) \/ SendRelease(p)
  \/ Serve(p) \/ Reply(p) \/ WaitForChildren(p)

Next == \E p \in Places : Step(p)

Spec == Init /\ [][Next]_vars

\* Every process runs, and the critical section (a sleep) ends.
FairSpec == Spec /\ \A p \in Places : WF_vars(Step(p))
-------------------------------------------------------------------------------
(* Properties *)

\* At most one process is between "acquired the lock" and "released the lock".
MutualExclusion == \A p, r \in Places : pc[p] = "cs" /\ pc[r] = "cs" => p = r

Past == {"release", "serve", "serve_reply", "wait", "exit"}

\* The lock is granted in the order of the grid, because the barriers put the
\* requests into every queue in that order: no process gets all its votes
\* before each one ahead of it has left the critical section.  The votes of
\* two processes can therefore never be caught in a cycle.
GrantedInOrder ==
  \A p, r \in Places : r < p /\ pc[p] \in {"cs"} \cup Past => pc[r] \in Past

\* The program ends: every process gets its votes and its releases, and the
\* first one finds all the others gone.
Terminates == <>(\A p \in Places : pc[p] = "exit")
===============================================================================
