-------------------------------- MODULE Signals --------------------------------
(***************************************************************************)
(* Multicast by signal handlers: sys_sigset, sys_send_multi and sys_sigret *)
(* of src/xv6A1/sysproc.c, proc_sigset, proc_sigsend, checkTraps and       *)
(* proc_sigret of proc.c, and what fork, exec and exit do to the signal    *)
(* state.  Each action is one trap, up to checkTraps on the way back to    *)
(* user mode (trapasm.S).                                                  *)
(*                                                                         *)
(* prev_tf is never set, so the interrupted frame is kept at address 0 of  *)
(* the process's own memory, which fork copies and exec replaces.  Of a    *)
(* frame only the program counter is kept: eax, which syscall() overwrites *)
(* with sys_sigret's 0 after the frame is restored, is left out.           *)
(***************************************************************************)
EXTENDS Naturals, FiniteSets

CONSTANTS NPROC,
          Contents, None,   \* messages; None begins with the byte -1
          STEPS             \* bound: a program is a loop of STEPS instructions

ASSUME SignalsConstants == STEPS \in Nat \ {0}

VARIABLES sig,     \* per slot: the signal fields of struct proc and tf
          steps,   \* history: instructions the main program has executed
          clean    \* history: not forked inside a handler

sigVars == <<sig, steps, clean>>

Entries == 0 .. NPROC - 1
Frame(at, step) == [at |-> at, step |-> step]
Fresh == [state |-> "unused", handler |-> FALSE, intr |-> FALSE, message |-> None,
          dis |-> FALSE, tf |-> Frame("main", 0), low |-> Frame("code", 0)]

SigInit ==
  /\ sig = [s \in Entries |-> IF s = 0 THEN [Fresh EXCEPT !.state = "run"] ELSE Fresh]
  /\ steps = [s \in Entries |-> 0]
  /\ clean = [s \in Entries |-> TRUE]
-------------------------------------------------------------------------------
Delivered(r) ==
  [r EXCEPT !.dis = TRUE, !.intr = FALSE, !.low = r.tf, !.tf.at = "handler", !.message = None]

CheckTrapsNested(r) ==
  IF ~r.handler \/ r.message = None \/ ~r.intr THEN r ELSE Delivered(r)

\* checkTraps: redirect the return to the handler.
CheckTraps(r) ==
  IF r.dis \/ ~r.handler \/ r.message = None \/ ~r.intr THEN r ELSE Delivered(r)

\* A system call of s returns; r is s after the call's body.
Return(s, r) == sig' = [sig EXCEPT ![s] = CheckTraps(r)]

Runs(s) == sig[s].state = "run"

\* The program computes, and is interrupted by the timer or a device.
Interrupt(s) ==
  LET main == sig[s].tf.at = "main"
      next == (sig[s].tf.step + 1) % STEPS IN
  /\ Runs(s)
  /\ Return(s, [sig[s] EXCEPT !.tf.step = IF main THEN next ELSE @])
  /\ steps' = IF main THEN [steps EXCEPT ![s] = (@ + 1) % STEPS] ELSE steps
  /\ UNCHANGED clean

\* sigset returns the previous handler; h is whether the new one is not -1.
Sigset(s, h) ==
  /\ Runs(s)
  /\ Return(s, [sig[s] EXCEPT !.handler = h])
  /\ UNCHANGED <<steps, clean>>

\* send_multi: proc_sigsend for each receiver.  The pid is used as an index of
\* ptable.proc, whatever process or none is in that slot.
SendMulti(s, to, m) ==
  /\ Runs(s)
  /\ LET marked == [t \in Entries |-> IF t \in to THEN [sig[t] EXCEPT !.intr = TRUE, !.message = m]
                                      ELSE sig[t]] IN
     sig' = [marked EXCEPT ![s] = CheckTraps(@)]
  /\ UNCHANGED <<steps, clean>>

\* The handler returns into the code checkTraps left on the stack, which calls
\* sigret: the frame is restored.  A pending signal is delivered at once.
Sigret(s) ==
  /\ Runs(s) /\ sig[s].tf.at = "handler"
  /\ Return(s, [sig[s] EXCEPT !.tf = sig[s].low, !.dis = FALSE])
  /\ UNCHANGED <<steps, clean>>

\* fork: the child has the parent's handler, frame and memory, and no signal
\* pending or masked.
Fork(s, t) ==
  /\ Runs(s) /\ sig[t].state = "unused"
  /\ LET child == [sig[s] EXCEPT !.dis = FALSE, !.intr = FALSE, !.message = None] IN
     sig' = [sig EXCEPT ![t] = CheckTraps(child), ![s] = CheckTraps(@)]
  /\ steps' = [steps EXCEPT ![t] = steps[s]]
  /\ clean' = [clean EXCEPT ![t] = clean[s] /\ sig[s].tf.at = "main"]

Exec(s) ==
  /\ Runs(s)
  /\ Return(s, [Fresh EXCEPT !.state = "run"])
  /\ steps' = [steps EXCEPT ![s] = 0]
  /\ clean' = [clean EXCEPT ![s] = TRUE]

\* exit and the parent's wait; the signal fields of the slot stay.
Gone(s) ==
  /\ s # 0 /\ Runs(s)
  /\ sig' = [sig EXCEPT ![s].state = "unused"]
  /\ UNCHANGED <<steps, clean>>

SigStep(s) ==
  \/ Interrupt(s)
  \/ \E h \in BOOLEAN : Sigset(s, h)
  \/ Sigret(s) \/ Exec(s) \/ Gone(s)
  \/ \E to \in SUBSET Entries \ {{}}, m \in Contents : SendMulti(s, to, m)
  \/ \E t \in Entries : Fork(s, t)

SigNext == \E s \in Entries : SigStep(s)

SigSpec == SigInit /\ [][SigNext]_sigVars
-------------------------------------------------------------------------------
\* checkTraps, proc_sigret: however signals, forks and interrupts fall, the main
\* program goes on where it was interrupted: while its handler runs the saved
\* frame is the main program's, and no signal that arrives meanwhile replaces it.
ResumesInPlace ==
  \A s \in Entries : Runs(s) /\ clean[s] =>
    LET main == IF sig[s].tf.at = "main" THEN sig[s].tf ELSE sig[s].low IN
    main.at = "main" /\ main.step = steps[s]
===============================================================================
