-------------------------------- MODULE Inbox --------------------------------
(***************************************************************************)
(* What send and recv promise (src/a2/sysproc.c): every message is         *)
(* received exactly once, by the process it was sent to, in the order in   *)
(* which the sends to that process happened.                               *)
(***************************************************************************)
EXTENDS Sequences

CONSTANTS Procs, Msgs

VARIABLE inbox          \* the messages sent to each process, not yet received

InboxInit == inbox = [p \in Procs |-> << >>]

Deposit(p, m) == inbox' = [inbox EXCEPT ![p] = Append(@, m)]

Collect(p) ==
  /\ inbox[p] # << >>
  /\ inbox' = [inbox EXCEPT ![p] = Tail(@)]

InboxNext == \E p \in Procs : Collect(p) \/ \E m \in Msgs : Deposit(p, m)

InboxSpec == InboxInit /\ [][InboxNext]_inbox
===============================================================================
