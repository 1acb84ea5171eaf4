-------------------------------- MODULE Shell --------------------------------
(***************************************************************************)
(* The shell running one command line (runcmd, main, fork1 of sh.c) on the *)
(* descriptors and pipes of Files.  Each process has the calls it still    *)
(* has to make.  The programs it executes: "w" writes to descriptor 1, "r" *)
(* reads descriptor 0 to its end, "c" copies one to the other; any other   *)
(* name cannot be executed.  The only file that exists is "f".             *)
(***************************************************************************)
EXTENDS Files, ShellParser

CONSTANT Lines    \* the lines the shell may be given

VARIABLES code,     \* code[p]: what p still does, first call first
          pfd,      \* pfd[p]: p[0] and p[1] of runcmd
          parent    \* parent[p]; 0 is init

shvars == <<ftable, ofile, pipe, th, killed, code, pfd, parent>>

Sh == 1
P0 == 10      \* stand for p[0] and p[1]
P1 == 11
Op(op) == [op |-> op]
CloseOp(fd) == [op |-> "close", fd |-> fd]
DupOp(fd) == [op |-> "dup", fd |-> fd]
OpenOp(file, fd) == [op |-> "open", file |-> file, fd |-> fd]
ForkOp(c) == [op |-> "fork", code |-> c]
RunOp(cmd) == [op |-> "run", cmd |-> cmd]
WriteOp(n) == [op |-> "write", n |-> n]

Program(name) ==
    CASE name = <<"w">> -> <<WriteOp(3), Op("exit")>>
      [] name = <<"r">> -> <<Op("readall"), Op("exit")>>
      [] name = <<"c">> -> <<Op("copyall"), Op("exit")>>
      [] OTHER -> <<Op("exit")>>

\* runcmd, one case per type of command.
LeftEnd(cmd) == <<CloseOp(1), DupOp(P1), CloseOp(P0), CloseOp(P1), RunOp(cmd)>>
RightKeepsWriting(cmd) == <<CloseOp(0), DupOp(P0), CloseOp(P0), RunOp(cmd)>>
RightEnd(cmd) == <<CloseOp(0), DupOp(P0), CloseOp(P0), CloseOp(P1), RunOp(cmd)>>
RunPipe(cmd) == <<Op("pipe"), ForkOp(LeftEnd(cmd.left)), ForkOp(RightEnd(cmd.right)),
                  CloseOp(P0), CloseOp(P1), Op("wait"), Op("wait"), Op("exit")>>
Runcmd(cmd) ==
    CASE cmd.type = "EXEC" -> IF cmd.argv = <<>> THEN <<Op("exit")>> ELSE Program(cmd.argv[1])
      [] cmd.type = "REDIR" -> <<CloseOp(cmd.fd), OpenOp(cmd.file, cmd.fd), RunOp(cmd.cmd)>>
      [] cmd.type = "LIST" -> <<ForkOp(<<RunOp(cmd.left)>>), Op("wait"), RunOp(cmd.right)>>
      [] cmd.type = "PIPE" -> RunPipe(cmd)
      [] cmd.type = "BACK" -> <<ForkOp(<<RunOp(cmd.cmd)>>), Op("exit")>>
      [] OTHER -> <<Op("exit")>>      \* a panic of the parser

\* main: console open on the descriptors, one line read.
ShInit ==
    /\ ftable = [f \in Files |-> IF f = 1 THEN [None EXCEPT !.ref = 2, !.type = "inode"] ELSE None]
    /\ ofile = [p \in Procs |-> [fd \in Fds |-> IF p = Sh /\ fd \in {0, 1} THEN 1 ELSE 0]]
    /\ pipe = [g \in Pages |-> Freed]
    /\ th = [p \in Procs |-> IF p = Sh THEN User ELSE Gone]
    /\ killed = [p \in Procs |-> FALSE]
    /\ \E line \in Lines :
         code = [p \in Procs |-> IF p = Sh THEN <<ForkOp(<<RunOp(Parsecmd(line))>>), Op("wait")>>
                                 ELSE <<>>]
    /\ pfd = [p \in Procs |-> <<0, 0>>]
    /\ parent = [p \in Procs |-> 0]

Fd(p, fd) == IF fd = P0 THEN pfd[p][1] ELSE IF fd = P1 THEN pfd[p][2] ELSE fd
At1(p, op) == th[p].pc = "user" /\ code[p] # <<>> /\ code[p][1].op = op
Done1(p) == code' = [code EXCEPT ![p] = Tail(@)]
Panic1(p) == code' = [code EXCEPT ![p] = <<Op("exit")>>]
Files1 == <<ftable, ofile, pipe, th, killed>>

RunStep(p) ==
    /\ At1(p, "run")
    /\ code' = [code EXCEPT ![p] = Runcmd(Head(@).cmd)]
    /\ UNCHANGED <<Files1, pfd, parent>>

\* close of a descriptor that is not open fails, and nobody looks at the result.
CloseStep(p) ==
    /\ At1(p, "close") /\ Done1(p)
    /\ LET fd == Fd(p, Head(code[p]).fd) IN
       IF fd \in Open(p) THEN Close(p, fd) ELSE UNCHANGED Files1
    /\ UNCHANGED <<pfd, parent>>

DupStep(p) == /\ At1(p, "dup") /\ Done1(p) /\ Dup(p, Fd(p, Head(code[p]).fd))
              /\ UNCHANGED <<pfd, parent>>

\* open: of a missing file to read, or without a free entry, it fails.
OpenStep(p) ==
    /\ At1(p, "open")
    /\ LET o == Head(code[p]) IN
       IF (o.fd = 0 /\ o.file # <<"f">>) \/ FreeFiles(ftable) = {} \/ Free(p) = {}
       THEN Panic1(p) /\ UNCHANGED Files1
       ELSE Done1(p) /\ OpenInode(p)
    /\ UNCHANGED <<pfd, parent>>

\* pipe: the descriptors it will return are the first free ones.
PipeStep(p) ==
    /\ At1(p, "pipe") /\ Pipe(p)
    /\ IF FreeFiles(ftable) = {} \/ Cardinality(Free(p)) < 2
       THEN Panic1(p) /\ UNCHANGED pfd
       ELSE /\ Done1(p)
            /\ pfd' = [pfd EXCEPT ![p] = <<Min(Free(p)), Min(Free(p) \ {Min(Free(p))})>>]
    /\ UNCHANGED parent

\* fork1; allocproc takes the first unused slot.
Unused == {q \in Procs : th[q].pc = "unused"}
ForkStep(p) ==
    /\ At1(p, "fork")
    /\ IF Unused = {} THEN Panic1(p) /\ UNCHANGED <<Files1, pfd, parent>>
       ELSE LET child == Min(Unused) IN
            /\ Fork(p, child)
            /\ code' = [code EXCEPT ![p] = Tail(@), ![child] = Head(code[p]).code]
            /\ pfd' = [pfd EXCEPT ![child] = pfd[p]]
            /\ parent' = [parent EXCEPT ![child] = p]

\* wait: returns at once without children, and otherwise with one that has exited.
Children(p) == {q \in Procs : parent[q] = p /\ th[q].pc # "unused"}
WaitStep(p) ==
    /\ At1(p, "wait") /\ Done1(p)
    /\ IF Children(p) = {} THEN UNCHANGED <<Files1, parent>>
       ELSE \E q \in Children(p) : Reap(q) /\ parent' = [parent EXCEPT ![q] = 0]
    /\ UNCHANGED pfd

\* exit; its children are init's from now on.
ExitStep(p) ==
    /\ At1(p, "exit") /\ Exit(p)
    /\ parent' = [q \in Procs |-> IF parent[q] = p THEN 0 ELSE parent[q]]
    /\ code' = [code EXCEPT ![p] = <<>>]
    /\ pfd' = [pfd EXCEPT ![p] = <<0, 0>>]

\* write and read on what descriptors 1 and 0 are: a pipe's end, a file
\* (writing succeeds, reading ends at once), or nothing.
OnPipe(p, fd, w) == /\ fd \in Open(p) /\ ftable[ofile[p][fd]].type = "pipe"
                    /\ ftable[ofile[p][fd]].writable = w
WriteStep(p) ==
    /\ At1(p, "write") /\ Done1(p)
    /\ IF OnPipe(p, 1, TRUE) THEN Write(p, 1, Head(code[p]).n) ELSE UNCHANGED Files1
    /\ UNCHANGED <<pfd, parent>>
ReadStep(p) ==
    /\ At1(p, "readall") \/ At1(p, "copyall")
    /\ IF OnPipe(p, 0, FALSE) THEN Read(p, 0, 2) /\ UNCHANGED code
       ELSE Done1(p) /\ UNCHANGED Files1
    /\ UNCHANGED <<pfd, parent>>

\* A step inside the kernel; read's result decides how the program goes on.
KernelStep(p) ==
    /\ Kernel(p)
    /\ code' = [code EXCEPT ![p] =
          IF th[p].pc = "read" /\ th'[p].pc = "user"
          THEN IF Buffered(th[p].page) = 0 THEN Tail(@)
               ELSE IF Head(@).op = "copyall" THEN <<WriteOp(Min({2, Buffered(th[p].page)}))>> \o @
               ELSE @
          ELSE IF th[p].pc = "pipe2" /\ ofile' = ofile THEN <<Op("exit")>> ELSE @]
    /\ UNCHANGED <<pfd, parent>>

InitReaps(p) == parent[p] = 0 /\ p # Sh /\ Reap(p) /\ UNCHANGED <<code, pfd, parent>>

ShStep(p) == \/ KernelStep(p) \/ RunStep(p) \/ CloseStep(p) \/ DupStep(p) \/ OpenStep(p)
             \/ PipeStep(p) \/ ForkStep(p) \/ WaitStep(p) \/ ExitStep(p)
             \/ WriteStep(p) \/ ReadStep(p) \/ InitReaps(p)
ShNext == \E p \in Procs : ShStep(p)

\* Every process that can run does, and init waits in an endless loop.
ShFairness == \A p \in Procs : WF_shvars(ShStep(p))
ShSpec == ShInit /\ [][ShNext]_shvars /\ ShFairness
-----------------------------------------------------------------------------
\* runcmd and main of sh.c: whatever the line, the shell gets back from wait
\* and prompts again, and in the end no process, file, descriptor or pipe of
\* the command is left.  A pipeline only ends because every process closes the
\* pipe ends it does not use.
CommandEnds ==
    <>[](/\ code[Sh] = <<>> /\ th[Sh] = User
         /\ \A p \in Procs \ {Sh} : th[p] = Gone
         /\ \A f \in Files \ {1} : ftable[f] = None
         /\ \A g \in Pages : pipe[g].free)
=============================================================================
