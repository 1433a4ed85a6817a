------------------------------- MODULE Programs -------------------------------
(***************************************************************************)
(* The command run of shell/cmd_run.c on top of Router: a program is read  *)
(* from a file into one static buffer and becomes a process whose code is  *)
(* that buffer; a test is a process whose code is part of the kernel.      *)
(* Which process runs when is Scheduler's subject; here a process is in    *)
(* the table or not.                                                       *)
(***************************************************************************)
EXTENDS Router

CONSTANTS
    RunSize,       \* sizeof file_buffer of execute__run
    Bytes,
    Contents,      \* what the files hold: by type and name
    Unbounded,     \* the types whose files are copied without a look at the buffer
    Zero,          \* a cell of the buffer before it is used
    UserSlots,     \* the slots of the process table but the kernel's
    TestCount,     \* entries of test_list
    ProgramArgs,   \* bound of the model: the names typed behind run
    TestNumbers    \* bound of the model: the numbers typed behind run test

ASSUME ProgramsAssumption ==
    /\ RunSize \in Nat
    /\ ProgramArgs \subseteq Args
    /\ UserSlots \in Nat /\ TestCount \in Nat /\ TestNumbers \subseteq Nat
    /\ \A fs \in DOMAIN Files :
          /\ Contents[fs] \in [Files[fs] -> Seq(Bytes)]
          \* bound of the model: nothing is written behind the buffer
          /\ fs \in Unbounded => \A n \in Files[fs] : Len(Contents[fs][n]) <= RunSize

VARIABLES
    file_buffer,   \* of execute__run
    processes      \* the user slots

pvars == <<rvars, file_buffer, processes>>

\* A slot: in use or not.  History: the program read last is that of this slot,
\* and it is one of these files.
Unused      == [used |-> FALSE, latest |-> FALSE, named |-> {}]
FromTest    == [used |-> TRUE, latest |-> FALSE, named |-> {}]
FromFile(N) == [used |-> TRUE, latest |-> TRUE, named |-> N]
Older(p)    == [p EXCEPT !.latest = FALSE, !.named = {}]

\* A path that does not fit makes no claim.
AllFiles == UNION {{File(fs, n) : n \in Files[fs]} : fs \in DOMAIN Files}
FilesNamed(path) == IF Len(path) < PathSize THEN AllFiles \cap Named(path) ELSE AllFiles

\* create_process: the first free slot; nothing when there is none.
Created(p, process) ==
    LET free == {s \in 1..UserSlots : p[s] = Unused}
    IN  IF free = {} THEN p
        ELSE [p EXCEPT ![CHOOSE s \in free : \A t \in free : s <= t] = process]

\* What read_file copies, and its length: nothing if there is no file.
Read(file) ==
    IF file = Nothing THEN <<>>
    ELSE IF file.fs \in Unbounded THEN Contents[file.fs][file.name]
    ELSE Take(Contents[file.fs][file.name], RunSize)

\* Mutant: the buffer is cleared before the file is looked for.
OverwrittenCleared(buffer, bytes) ==
    [k \in 1..RunSize |-> IF k <= Len(bytes) THEN bytes[k] ELSE Zero]

\* Behind a short program the end of an earlier one stays.
Overwritten(buffer, bytes) ==
    [k \in 1..RunSize |-> IF k <= Len(bytes) THEN bytes[k] ELSE buffer[k]]

\* run with the name of a file.  The file is read before a slot is looked for.
RunFile(arg) ==
    LET bytes == Read(ReadFile(AbsolutePath(arg)))
    IN  /\ Open(arg)
        /\ file_buffer' = Overwritten(file_buffer, bytes)
        /\ processes' =
              IF bytes = <<>> THEN processes
              ELSE Created([s \in 1..UserSlots |-> Older(processes[s])],
                           FromFile(FilesNamed(Wanted(arg))))

\* run test: a number that is none of the list starts nothing.
RunTest(n) ==
    /\ processes' = IF n < TestCount THEN Created(processes, FromTest) ELSE processes
    /\ UNCHANGED <<rvars, file_buffer>>

\* A process exits or is killed.
End(s) ==
    /\ processes[s] # Unused
    /\ processes' = [processes EXCEPT ![s] = Unused]
    /\ UNCHANGED <<rvars, file_buffer>>

ProgramsInit ==
    /\ Init
    /\ file_buffer = [k \in 1..RunSize |-> Zero]
    /\ processes = [s \in 1..UserSlots |-> Unused]

ProgramsNext ==
    \/ Next /\ UNCHANGED <<file_buffer, processes>>
    \/ \E arg \in ProgramArgs : RunFile(arg)
    \/ \E n \in TestNumbers : RunTest(n)
    \/ \E s \in 1..UserSlots : End(s)

ProgramsSpec == ProgramsInit /\ [][ProgramsNext]_pvars

-----------------------------------------------------------------------------
(* Properties *)

\* All processes from files share the buffer.  What is certain is this: until
\* another run reads a file, a process finds the whole program of the file that
\* was named, whatever else is started, listed, read by other commands, ended or
\* fails; and no more than one process is that lucky.
LatestProgramIntact ==
    /\ \A s, t \in 1..UserSlots : processes[s].latest /\ processes[t].latest => s = t
    /\ \A s \in 1..UserSlots :
          processes[s].latest =>
              \E f \in processes[s].named :
                  LET program == Contents[f.fs][f.name]
                  IN  Len(program) <= RunSize => program = Take(file_buffer, Len(program))
=============================================================================
