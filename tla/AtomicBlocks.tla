---------------------------- MODULE AtomicBlocks ----------------------------
(* What the buffer cache promises its callers: every block has one current    *)
(* contents, and a process that has the block to itself may replace it.       *)
CONSTANTS Procs, Blocks, Vals, NoProc
VARIABLES contents,  \* the current contents of each block
          owner      \* the process that has the block, or NoProc

TakeBlock(p, b) ==
  /\ owner[b] = NoProc /\ owner'[b] = p
  /\ owner' = [owner EXCEPT ![b] = p]
  /\ UNCHANGED contents

ReplaceBlock(p, b, v) ==
  /\ owner[b] = p /\ contents'[b] = v
  /\ contents' = [contents EXCEPT ![b] = v]
  /\ UNCHANGED owner

GiveBack(p, b) ==
  /\ owner[b] = p /\ owner'[b] = NoProc
  /\ owner' = [owner EXCEPT ![b] = NoProc]
  /\ UNCHANGED contents

BlocksInit ==
  /\ contents \in [Blocks -> Vals]
  /\ owner = [b \in Blocks |-> NoProc]

BlocksNext ==
  \E p \in Procs, b \in Blocks :
    TakeBlock(p, b) \/ GiveBack(p, b) \/ \E v \in Vals : ReplaceBlock(p, b, v)

BlocksSpec == BlocksInit /\ [][BlocksNext]_<<contents, owner>>
=============================================================================
