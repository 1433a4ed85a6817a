---------------------------- MODULE ContextSwitch ----------------------------
(***************************************************************************)
(* arch_scheduler.asm and arch_syscall.asm: how a process is suspended in  *)
(* schedule() or in int 0x80 and how another one is resumed.               *)
(*                                                                         *)
(* The module extends Scheduler with the CPU, the stacks and the saved     *)
(* contexts.  A stack is the sequence of its live words, the first pushed  *)
(* first; a stack pointer is a stack and a number of words, so [esp + 4*k] *)
(* is the word k below the top.  What lies past the top is dead: nothing   *)
(* reads it, and reading it would give Junk.  ebx, ecx, esi, edi and ebp   *)
(* are treated alike everywhere and are one register, rest.                *)
(*                                                                         *)
(* The process is any program: it computes, calls and returns, calls       *)
(* schedule(), makes write and exit system calls.                          *)
(***************************************************************************)
EXTENDS Scheduler, Descriptors

CONSTANTS
    MaxLocals,   \* bound of the model: words a process keeps on its stack
    Values,      \* bound of the model: what a computation can leave in registers
    WriteArgs    \* <<descriptor, count>> of the writes processes make

ASSUME ContextSwitchAssumption ==
    /\ MaxLocals \in Nat
    /\ Values \subseteq Nat
    /\ WriteArgs \subseteq Nat \X Nat

VARIABLES
    cpu,     \* the registers: sp, ip, flags, ax, dx, rest
    mem,     \* the live words of every stack
    ctx,     \* the registers saved in every slot of process_list
    expect   \* history: what a process that gave the CPU away must find when it
             \* resumes, and the result of the system call it resumes from;
             \* forgotten once it has run on

csvars == <<vars, cpu, mem, ctx, expect>>

-----------------------------------------------------------------------------
(* Machine words, and programs.  A word is <<kind, number, number>>. *)

Number(n)   == <<"number", n, 0>>
Junk        == <<"junk", 0, 0>>
Zero        == Number(0)
EFlags2     == Number(2)      \* interrupts disabled
KernelCS    == Number(8)
WriteNumber == Number(4)
ExitNumber  == Number(1)
ProcPtr(p)  == <<"process_ctx", p, 0>>

\* The instruction of process p that a name stands for.
Code(p, place) == <<place, p, 0>>
Place(ip)      == ip[1]
Owner(ip)      == ip[2]

\* The stacks: the boot stack of the kernel process and the blocks of the pool.
BootStack == -1
Stacks    == Addresses \cup {BootStack}

SP(stack, depth) == [stack |-> stack, depth |-> depth]

\* Register values a program computes: they tell processes and times apart.
Computed(p, v, sp) ==
    [sp |-> sp, ip |-> Code(p, "run"), flags |-> <<"eflags", p, v>>,
     ax |-> <<"eax", p, v>>, dx |-> <<"edx", p, v>>, rest |-> <<"rest", p, v>>]

-----------------------------------------------------------------------------
(* Instructions, on a machine [cpu, mem]. *)

WordAt(stack, k) == IF k \in 1..Len(stack) THEN stack[k] ELSE Junk

StackAt(m) == m.mem[m.cpu.sp.stack]

\* [esp + 4*k]
Word(m, k) == WordAt(StackAt(m), m.cpu.sp.depth - k)

\* esp := sp.  What lies past it is dead.
MoveSP(m, sp) ==
    [m EXCEPT !.cpu.sp = sp,
              !.mem[sp.stack] = [k \in 1..sp.depth |-> WordAt(@, k)]]

Rewound(m, words) == SP(m.cpu.sp.stack, m.cpu.sp.depth - words)

PushWord(m, w) ==
    [m EXCEPT !.mem[m.cpu.sp.stack] = Append(@, w), !.cpu.sp.depth = @ + 1]

\* push of several words, the first one first
PushWords(m, ws) ==
    [m EXCEPT !.mem[m.cpu.sp.stack] = @ \o ws, !.cpu.sp.depth = @ + Len(ws)]

Drop(m, words) == MoveSP(m, Rewound(m, words))

\* ret and iret
Ret(m)  == [Drop(m, 1) EXCEPT !.cpu.ip = Word(m, 0)]
IRet(m) == [Drop(m, 3) EXCEPT !.cpu.ip = Word(m, 0), !.cpu.flags = Word(m, 2)]

-----------------------------------------------------------------------------
(* switch_process and switch_process_in_irq. *)

\* Mutant: the saved esp still counts the return address.
SavedWithReturnAddress(m) ==
    LET f == PushWords(m, <<m.cpu.flags, m.cpu.ax>>)
    IN  [slot |-> Word(f, 3)[2], next |-> Word(f, 4)[2],
         ctx  |-> [sp |-> Rewound(f, 2), ip |-> Word(f, 2), flags |-> Word(f, 1),
                   ax |-> Word(f, 0), dx |-> f.cpu.dx, rest |-> f.cpu.rest]]

\* The context switch_process stores, and the position it stores it in: on
\* top of the stack are its own eax and eflags, then the return address and
\* the two arguments.
SavedByCall(m) ==
    LET f == PushWords(m, <<m.cpu.flags, m.cpu.ax>>)
    IN  [slot |-> Word(f, 3)[2], next |-> Word(f, 4)[2],
         ctx  |-> [sp |-> Rewound(f, 3), ip |-> Word(f, 2), flags |-> Word(f, 1),
                   ax |-> Word(f, 0), dx |-> f.cpu.dx, rest |-> f.cpu.rest]]

\* Mutant: the frame of an interrupt that changes the privilege level.
SavedByIRQFromRing3(m) ==
    LET f == PushWord(m, m.cpu.ax)
    IN  [slot |-> Word(f, 2)[2], next |-> Word(f, 3)[2],
         ctx  |-> [sp |-> Rewound(f, 10), ip |-> Word(f, 5), flags |-> Word(f, 7),
                   ax |-> Word(f, 0), dx |-> f.cpu.dx, rest |-> f.cpu.rest]]

\* The same in an interrupt: eax, return address, the two pointers, another
\* return address, and the eip, cs and eflags that int pushed.
SavedByIRQ(m) ==
    LET f == PushWord(m, m.cpu.ax)
    IN  [slot |-> Word(f, 2)[2], next |-> Word(f, 3)[2],
         ctx  |-> [sp |-> Rewound(f, 8), ip |-> Word(f, 5), flags |-> Word(f, 7),
                   ax |-> Word(f, 0), dx |-> f.cpu.dx, rest |-> f.cpu.rest]]

\* Mutant: eax is left holding the pointer to the next process.
LoadedButEAX(m, c) ==
    [m EXCEPT !.cpu.flags = c.flags, !.cpu.ax = ProcPtr(0), !.cpu.dx = c.dx,
              !.cpu.rest = c.rest]

\* The registers but esp and eip, from a context.
Loaded(m, c) ==
    [m EXCEPT !.cpu.flags = c.flags, !.cpu.ax = c.ax, !.cpu.dx = c.dx, !.cpu.rest = c.rest]

\* Mutant: the new process is expected to have its return address on its stack.
RestoredWithoutIP(m, c) == Ret(MoveSP(Loaded(m, c), c.sp))

\* Leaving switch_process: popfd while still on the old stack, then the new
\* esp, the new eip pushed, ret.
RestoredByCall(m, c) == Ret(PushWord(MoveSP(Loaded(m, c), c.sp), c.ip))

\* Leaving switch_process_in_irq: an interrupt frame built on the new stack
\* for iret.
RestoredByIRQ(m, c) ==
    LET old == [c EXCEPT !.flags = m.cpu.flags]
    IN  IRet(PushWords(MoveSP(Loaded(m, old), c.sp), <<c.flags, KernelCS, c.ip>>))

\* A suspended process's words past its saved esp are dead.
Suspended(m, sp) == [m EXCEPT !.mem[sp.stack] = [k \in 1..sp.depth |-> WordAt(@, k)]]

SwitchByCall(m, ctxs) ==
    LET s    == SavedByCall(m)
        new  == [ctxs EXCEPT ![s.slot] = s.ctx]
    IN  [machine |-> RestoredByCall(Suspended(m, s.ctx.sp), new[s.next]), ctx |-> new]

SwitchByIRQ(m, ctxs) ==
    LET s    == SavedByIRQ(m)
        new  == [ctxs EXCEPT ![s.slot] = s.ctx]
    IN  [machine |-> RestoredByIRQ(Suspended(m, s.ctx.sp), new[s.next]), ctx |-> new]

-----------------------------------------------------------------------------
(* What a process runs. *)

Machine  == [cpu |-> cpu, mem |-> mem]

\* What is to be found on resuming, with the registers and stack of m.
Expected(m, res) == [cpu |-> m.cpu, stack |-> StackAt(m), result |-> res]
NoExpectation    == [cpu |-> Computed(0, 0, SP(BootStack, 0)), stack |-> <<>>, result |-> Zero]

Become(m) == cpu' = m.cpu /\ mem' = m.mem

InProgram == Owner(cpu.ip) = cur /\ Place(cpu.ip) # "afterSwitch"

CSInit ==
    /\ Init
    /\ cpu = Computed(0, 0, SP(BootStack, 0))
    /\ mem = [s \in Stacks |-> <<>>]
    /\ ctx = [p \in Slots |-> [sp |-> SP(BootStack, 0), ip |-> Zero, flags |-> Zero,
                               ax |-> Zero, dx |-> Zero, rest |-> Zero]]
    /\ expect = [p \in Slots |-> NoExpectation]

Compute(v) ==
    /\ InProgram
    /\ cpu' = Computed(cur, v, cpu.sp)
    /\ expect' = [expect EXCEPT ![cur] = NoExpectation]
    /\ UNCHANGED <<vars, mem, ctx>>

PushLocal ==
    /\ InProgram
    /\ cpu.sp.depth < MaxLocals
    /\ Become(PushWord(Machine, <<"local", cur, cpu.sp.depth>>))
    /\ UNCHANGED <<vars, ctx, expect>>

PopLocal ==
    /\ InProgram
    /\ cpu.sp.depth > 0
    /\ Become(Drop(Machine, 1))
    /\ UNCHANGED <<vars, ctx, expect>>

\* The shell creates a process: init_process_ctx clears the context and sets
\* eip, eflags and esp (the address of the block, below which it grows).
CSCreate ==
    /\ InProgram
    /\ Create
    /\ LET p == FirstFree
           c == [sp |-> SP(stackBase'[p], 0), ip |-> Code(p, "entry"), flags |-> EFlags2,
                 ax |-> Zero, dx |-> Zero, rest |-> Zero]
       IN  /\ ctx' = [ctx EXCEPT ![p] = c]
           /\ expect' = [expect EXCEPT ![p] = [cpu |-> c, stack |-> <<>>, result |-> Zero]]
           /\ mem' = [mem EXCEPT ![stackBase'[p]] = <<>>]
    /\ UNCHANGED cpu

\* The words of the killed process are dead.
CSKill(pid) ==
    /\ InProgram
    /\ Kill(pid)
    /\ expect' = IF pid = 0 THEN expect ELSE [expect EXCEPT ![pid] = NoExpectation]
    /\ mem' = IF pid = 0 THEN mem ELSE [mem EXCEPT ![stackBase[pid]] = <<>>]
    /\ UNCHANGED <<cpu, ctx>>

\* schedule(): the caller's return address, then, if another process is next,
\* the arguments and the return address of switch_process.
CSSchedule ==
    /\ InProgram
    /\ Yield
    /\ IF cur' = cur
       THEN UNCHANGED <<cpu, mem, ctx, expect>>
       ELSE LET inSchedule == PushWords(Machine, <<Code(cur, "run"), ProcPtr(cur'), ProcPtr(cur)>>)
                after == Code(cur, "afterSwitch")
                s == SwitchByCall(PushWord(inSchedule, after), ctx)
            IN  /\ Become(s.machine)
                /\ ctx' = s.ctx
                /\ expect' = [expect EXCEPT ![cur] =
                                 Expected([inSchedule EXCEPT !.cpu.ip = after], Zero)]

\* The rest of schedule() after switch_process returned: drop the arguments
\* and return to the caller.
ReturnFromSchedule ==
    /\ Place(cpu.ip) = "afterSwitch"
    /\ Become(Ret(Drop(Machine, 2)))
    /\ expect' = [expect EXCEPT ![cur] = NoExpectation]
    /\ UNCHANGED <<vars, ctx>>

\* int 0x80 up to the call of switch_process_in_irq.  The registers pushed
\* by syscall_entry_point_asm and schedule_in_irq_context are popped again
\* before it; the pointers are those of get_current_process and
\* move_to_next_process.
InIRQ(m, from, to) ==
    PushWords(m, <<m.cpu.flags, KernelCS, m.cpu.ip,
                   Code(0, "syscall_entry_point_asm"), ProcPtr(to), ProcPtr(from),
                   Code(0, "schedule_in_irq_context") >>)

\* int 0x80 enters the gate that was registered for it; control reaches the
\* instruction after int with eax = number.
CSInterrupt(number, res) ==
    /\ Entered(LinuxSyscall) = LinuxSyscall
    /\ LET atInt == [Machine EXCEPT !.cpu.ax = number, !.cpu.ip = Code(cur, "afterInt")]
           s == SwitchByIRQ(InIRQ(atInt, cur, cur'), ctx)
       IN  /\ Become(s.machine)
           /\ ctx' = s.ctx
           /\ expect' = [expect EXCEPT ![cur] = Expected(atInt, res)]

\* sys_write: descriptor 1 only, at most 1023 bytes.
WriteResult(fd, count) ==
    Number(IF fd # 1 THEN -9 ELSE IF count > 1023 THEN -12 ELSE count)

\* syscall_entry_point_C drops the result of sys_write.
SyscallWrite(fd, count) ==
    /\ InProgram
    /\ Yield
    /\ CSInterrupt(WriteNumber, WriteResult(fd, count))

\* The context of the dead process is saved into its slot all the same; the
\* kernel process is not killed and gets the CPU back.
SyscallExit ==
    /\ InProgram
    /\ Exit
    /\ CSInterrupt(ExitNumber, ExitNumber)

CSNext ==
    \/ \E v \in Values : Compute(v)
    \/ PushLocal
    \/ PopLocal
    \/ CSCreate
    \/ \E pid \in Slots : CSKill(pid)
    \/ CSSchedule
    \/ ReturnFromSchedule
    \/ \E a \in WriteArgs : SyscallWrite(a[1], a[2])
    \/ SyscallExit

CSSpec == CSInit /\ [][CSNext]_csvars

-----------------------------------------------------------------------------
(* Properties *)

Registers == {"sp", "ip", "flags", "ax", "dx", "rest"}

StackOfProcess(p) == IF p = 0 THEN BootStack ELSE stackBase[p]

IsPointer(sp) == sp.stack \in Stacks /\ sp.depth \in Nat

\* The registers are complete, the stack pointers stay in a stack, and no
\* live word is junk.
CSTypeOK ==
    /\ DOMAIN cpu = Registers /\ IsPointer(cpu.sp)
    /\ \A p \in Slots : DOMAIN ctx[p] = Registers /\ IsPointer(ctx[p].sp)
    /\ DOMAIN mem = Stacks
    /\ \A s \in Stacks : \A k \in 1..Len(mem[s]) : mem[s][k] # Junk

\* Control stays in the program of the running process: no return, after any
\* mix of the two ways to suspend and the two ways to resume, ends anywhere
\* else.  (The log of 21.01. describes the return address that was 0.)
ReturnsToCaller ==
    cpu.ip \in {Code(cur, place) : place \in {"entry", "run", "afterSwitch", "afterInt"}}

\* The running process is on its own stack, and its calls of schedule() and
\* int 0x80 leave no words behind on it: the stack holds its locals, and the
\* frame of schedule() while it is there.
StackBalanced ==
    /\ cpu.sp.stack = StackOfProcess(cur)
    /\ cpu.sp.depth = Len(mem[cpu.sp.stack])
    /\ cpu.sp.depth <= MaxLocals + (IF Place(cpu.ip) = "afterSwitch" THEN 3 ELSE 0)

\* While a process is suspended, its saved registers and the live words of
\* its stack stay what they were when it gave the CPU away, whatever the
\* others do and however often the others are created and killed.
SuspendedIntact ==
    \A p \in used \ {cur} :
        /\ ctx[p] = expect[p].cpu
        /\ mem[ctx[p].sp.stack] = expect[p].stack

\* A process that gets the CPU finds every register and its stack exactly as
\* it left them, whether it left by schedule() or int 0x80 and whichever of
\* the two the process before it leaves by; a new process finds the cleared
\* registers and the empty stack of init_process_ctx.
ResumesExactly ==
    [][(cur' # cur \/ expect'[cur'] \notin {expect[cur'], NoExpectation})
          => /\ cpu' = expect'[cur'].cpu
             /\ mem'[cpu'.sp.stack] = expect'[cur'].stack]_csvars

\* The CPU enters the handler that was registered, in the code segment the
\* switch routines go back to.
EntersAsRegistered ==
    \A k \in 1..Len(Registered) :
        LET g == Registered[k]
        IN  /\ Entered(g.vector) = g.vector
            /\ Target(g.vector).ip = g.offset
            /\ Number(Target(g.vector).selector) = KernelCS
            /\ Target(g.vector).masks <=> g.vector = LinuxSyscall

\* A segment of all memory, of 32-bit code of the kernel's privilege.
IsFlatCode(s) ==
    /\ s.base = 0 /\ s.limit = 1048575 /\ s.granularity = 1
    /\ s.present = 1 /\ s.executable = 1 /\ s.type = 1
    /\ s.privilege = 0 /\ s.size = 1 /\ s.longMode = 0

\* What the two tables are printed as: the gates registered, and behind their
\* selector a flat ring 0 code segment.
PrintsAsRegistered ==
    /\ DOMAIN PrintedIDT = {Registered[k].vector : k \in 1..Len(Registered)}
    /\ \A k \in 1..Len(Registered) :
          LET p == PrintedIDT[Registered[k].vector]
          IN  \A field \in {"privilege", "type", "selector", "offset"} :
                 p[field] = Registered[k][field]
    /\ \A v \in DOMAIN PrintedIDT : IsFlatCode(PrintedGDT[PrintedIDT[v].selector \div 8 + 1])

NoOtherGate ==
    \A v \in Vectors : Entered(v) \in {v, GeneralProtection} /\ Entered(v) \in DOMAIN Handlers

\* While programs run, whatever the memory of the table held before boot, every
\* gate leads where it was registered and no other vector leads anywhere but to
\* the general protection handler: int 0x80, and only it, keeps interrupts off,
\* which makes a system call atomic, and no int instruction resets the machine.
GatesAsRegistered ==
    InProgram => EntersAsRegistered /\ PrintsAsRegistered /\ NoOtherGate

\* A process coming back from write finds the result in EAX, as on Linux.
LinuxWriteResult ==
    Place(cpu.ip) = "afterInt" /\ expect[cur].cpu.ax = WriteNumber
        => cpu.ax = expect[cur].result
=============================================================================
