--------------------------- MODULE ProcessManager ---------------------------
(***************************************************************************)
(* What the scheduler promises, without its data structures: a kernel      *)
(* process that is never removed, user processes that come and go, one     *)
(* process running, and each live user process owning a stack block that   *)
(* nobody else owns.  Which slot, which block and which successor are      *)
(* picked is left open.                                                    *)
(***************************************************************************)
CONSTANTS
    Users,    \* process slots other than the kernel's
    Kernel,   \* the kernel process
    Blocks    \* stack blocks

VARIABLES
    running,  \* the process on the CPU
    stackOf   \* the live user processes, each with its stack block

vars == <<running, stackOf>>

Live == DOMAIN stackOf
Free == Blocks \ {stackOf[p] : p \in Live}

\* stackOf without process p, and with p given block b.
Without(p) == [q \in Live \ {p} |-> stackOf[q]]
With(p, b) == [q \in Live \cup {p} |-> IF q = p THEN b ELSE stackOf[q]]

Init ==
    /\ running = Kernel
    /\ stackOf = [q \in {} |-> Kernel]

\* Only the kernel process, on which the shell runs, creates and kills.
Create(p, b) ==
    /\ running = Kernel
    /\ p \in Users \ Live
    /\ b \in Free
    /\ stackOf' = With(p, b)
    /\ UNCHANGED running

Kill(p) ==
    /\ running = Kernel
    /\ p \in Live
    /\ stackOf' = Without(p)
    /\ UNCHANGED running

\* The running process gives the CPU away, or ends and gives it away.
Switch ==
    /\ running' \in Live \cup {Kernel}
    /\ UNCHANGED stackOf

Exit ==
    /\ running \in Live
    /\ stackOf' = Without(running)
    /\ running' \in (Live \ {running}) \cup {Kernel}

Next ==
    \/ \E p \in Users, b \in Blocks : Create(p, b)
    \/ \E p \in Users : Kill(p)
    \/ Switch
    \/ Exit

Spec == Init /\ [][Next]_vars
=============================================================================
