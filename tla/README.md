# almostOS in TLA+

Specifications of almostOS, a small 32-bit x86 kernel with a cooperative
scheduler, two Linux-style system calls, a FAT-like file system and a shell
inside the kernel. The modules are translated from the C and assembly sources;
`PROJECT.json` gives, for every definition, the lines it stands for.

    tlc -config MCScheduler.cfg MCScheduler       # one of the runs below
    tlapm TinyFSProofs.tla                        # the proofs

## The system

| Component | Source | State | Operations |
|---|---|---|---|
| Scheduler, stack pool | `scheduler.c` | `process_list[16]`, `current_process_index`, `free_blocks_stack` | `create_process`, `kill_process`, `kill_current_process`, `schedule` |
| Free-block stack | `memory/stack.c` | caller's buffer, pointer | `stack_init`, `stack_push`, `stack_pop` |
| Context switch | `arch/x86-32/arch_scheduler.asm`, `arch_syscall.asm`, `system_calls.c` | CPU registers, stacks, saved contexts | `switch_process`, `switch_process_in_irq`, `schedule_in_irq_context`, `int 0x80` with write and exit |
| TinyFS | `fs/tinyfs/code/` | disk image: FAT, directory chain, data chains | `fs_create_file`, `fs_delete`, `fs_open`, `fs_write`, reads |
| Disk images | `fs/tinyfs/code/disk_image.c` | pointers to the image, image file (host) | `fs_load_ramdisk`, `fs_load_disk_image`, `fs_store_disk_image` |
| TinyFS drivers | `fs/tinyfs/tests/` | open image (host) | FUSE and shell front ends |
| Heap | `memory/malloc.c` | blocks, free list in a `stack.c` stack | `heap_malloc`, `heap_free` |
| File-system router | `fs/filesystem_router.c`, `virtual_fs.c` | mount table | `mount_fs`, `read_file`, `get_list_of_files` |
| Terminal | `shell/terminal.c` | ring of lines, cursor, window | print, scroll, redraw |
| Shell | `shell/` | input line, argument vector, `run`'s file buffer | key presses, commands |
| Main loop, tty | `kernel_main.c`, `arch/x86-32/tty.c` | none | poll, `schedule()` |
| Printing, strings | `kernel_stdio.c`, `utils/` | none | `kernel_printf`, `LOG`, `atoi`, `hex_to_long` |
| Descriptor tables | `arch/x86-32/IDT_*.c`, `GDT_*.c` | IDT, the loader's GDT | built and printed once |
| Drivers, start-up | `drivers/`, `arch/x86-32/*.c` | ports | run once, or a port access |
| User programs | `user-space/` | their registers and stack | compute, write, exit |

How they meet. The main loop is process 0: it polls keyboard and serial line,
which call the shell; the shell's commands run to completion inside process 0.
`run` calls `create_process`, `kill` calls `kill_process`, `ls` and `cat` call
the router, which calls TinyFS on a RAM disk. After each poll process 0 calls
`schedule()`. The other processes are the kernel threads and the programs
started by `run`; they give the CPU away by `schedule()` or by a system call,
and `sys_exit` calls `kill_current_process`. Stack blocks and heap blocks are
both handed out from a `stack.c` stack of byte indexes.

What makes each part correct, and what is hard about it:

- *Scheduler*: every live process owns a block that no other owns and keeps it;
  no block is lost or listed twice after any history; everybody gets a turn;
  the search for the next process ends. Hard: histories of create, kill and
  exit that reuse slots and blocks, and killing a slot that is not in use.
- *Free-block stack*: answers as a bounded LIFO at both ends of its buffer.
- *Context switch*: a process finds its registers and stack as it left them.
  Hard: there are two ways to leave and two to be resumed, and each must accept
  what the other stored; a process may exit on a stack it has just given back.
- *TinyFS*: chains are disjoint, no cluster is lost, and a file reads as what
  was appended to it. Hard: the disk filling up in the middle of an operation,
  entries straddling clusters, recycled clusters still holding old bytes.
- *Disk images*: what is stored is the image in use, and comes back as it was but
  for the FAT entries that `FAT_init` marks.
  Hard: every call can fail or end the program half way, the file is emptied
  before it is written, and the image pointer is kept in two places.
- *Heap*: no block handed out twice, none lost. Hard: addresses go out and
  indexes come back, over blocks separated by red zones.
- *Router*: a typed name reaches the file it names, whatever `cd` came before.
  Hard: the path buffer filling up over a sequence of `cd`.
- *Terminal*: the window shows the last lines. Hard: the ring wraps around while
  the window scrolls; the column one past a full line; who redraws when.
- *Shell*: the command run is the line typed. Hard: the line is split in place
  and the next one is typed over what is left; nothing checks its length. All runs of a file share one
  static buffer for the code.
- *Printing*: a number printed reads back as that number. Hard: the edges of the
  fixed buffers, of the digits and of the sign.
- *Descriptor tables*: every gate leads to its handler and no other does.

There is one CPU, and interrupts are never enabled: a process starts with
EFLAGS = 2 and vector 0x80 is an interrupt gate. So whatever a handler does up
to its return or its context switch is one atomic action; the interleavings are
those of handlers, chosen by who calls `schedule()` or `int 0x80` when.

## Modules

| Module | Models |
|---|---|
| `ByteStack` | The list operations of `stack.c`: push dropped when full, pop ignored when empty |
| `LIFO` | Abstract: a bounded LIFO with the answers of its calls |
| `ByteStackBuffer` | `stack.c` with its buffer and pointer; implements `LIFO` |
| `ProcessManager` | Abstract: live processes, each with a block of its own, one running |
| `Scheduler` | `scheduler.c`; uses `ByteStack`; implements `ProcessManager` |
| `ContextSwitch` | The assembly and the system calls; extends `Scheduler` and `Descriptors` |
| `FileTable` | Abstract: numbered files with a name and a growing content |
| `TinyFS` | `fs/tinyfs/code`; implements `FileTable` |
| `FuseDriver` | `fuse_test.c`: TinyFS through FUSE, written at any offset; extends `TinyFS` |
| `Allocator` | Abstract: blocks given to one caller each, refused only when all are out |
| `Heap` | `malloc.c`; uses `ByteStack`; implements `Allocator` |
| `Teletype` | Abstract: the last lines of what was printed |
| `Terminal` | `terminal.c` and the printing calls; implements `Teletype` |
| `Digits` | The characters of numbers and what a numeral stands for |
| `Formatting` | The texts of `kernel_printf` and `LOG` and the rows of a dump, as pure operators |
| `KernelStdio` | `kernel_stdio.c` and the end of `dump`: `Formatting` on a `Terminal` |
| `Shell` | Keyboard and serial input, the input line, `parse_arguments`, the choice of the command, `atoi` and `hex_to_long` |
| `Router` | `cd`, `ls`, `cat`, `hexdump`, and the mount table behind them |
| `Programs` | `run` on top of `Router`: the buffer all programs share, and the process table |
| `Descriptors` | The interrupt and segment tables, and what the CPU makes of a gate |
| `DiskImage` | `disk_image.c` and the load and store calls of `fs_operations.c`, on a host |
| `ListFacts` | Lemmas about numbers, free lists and recursive functions that several proofs rest on |
| `ContextSwitchProofs` | The theorems about `Scheduler` and `ContextSwitch`, and their proofs |
| `HeapProofs` | The theorems about `Heap` and `ByteStackBuffer`, and their proofs |
| `DiskImageProofs`, `RouterProofs`, `KernelStdioProofs`, `TinyFSProofs`, `ShellProofs` | The theorems about a component, and their proofs |
| `MC*` | Instances and bounds for TLC |

**Scheduler.** `used` is the set of slots whose `name` is not NULL, `cur` is
`current_process_index`, `stackBase` is `stack_mem_base`, which stays in the
slot when a process is killed, and `freeBlocks` is the content of
`free_blocks_stack`. Blocks are held by address and listed by index, as in the
code, with both conversions. `Create`, `CreateRefused`, `Kill`, `Yield` and
`Exit` are the handlers; the first three belong to the shell and need process 0
to run. `KillsDead` says whether the operator types `kill` for a slot that is
not in use. A `write` is a `Yield` here. `init_process_stack_allocator` ends
without the return value its caller tests; the Makefile compiles without
optimisation, and there the value is the TRUE left by the last `stack_push`, so
initialisation succeeds.

**ContextSwitch.** Adds `cpu`, `mem` (the live words of every stack), `ctx` (the
registers in `process_list`) and the history `expect` (what a suspended process
must find again). The instructions that move the stack pointer are operators on
a machine, and the two switch routines are written with them, so the offsets of
the assembly (`[esp + 4*k]`) are real: a wrong one reads another word, or junk.
Words are symbolic: who computed them and what for. The general registers that
the code saves and loads alike (ebx, ecx, esi, edi, ebp) are one register. Code
that pushes and pops in balance around a call (`pushad`/`popad` of the entry
point) is left out. When a process is killed its words are dead, and no later
read reaches them.

**TinyFS.** `fat` and `cell` are the image, `files` the history of directory
indexes created and not deleted. An entry has three cells for the sixteen bytes
(name, size, first cluster), and three does not divide the cluster size, so an
entry straddles clusters as sixteen-byte entries in hundred-byte clusters do.
Each action is one call of `fs_operations.c`, with everything it writes on the way
to an error. Reads are `Content`. A handle is an index and never expires, so
a write through an old handle is a write to whatever file has that index, and
`Write` ranges over those. The size is one number: `cluster_read_16bit` reads
the high byte first, against its comment, but the writer agrees with it.
Behaviours start from a zeroed image with the directory empty; `create_disk`
leaves what `malloc` returned. File names do not occur among the data bytes:
a program that looked for a name spelled in recycled data would find it, see
`tinyfs_listing`.

**FuseDriver.** The driver writes at the offset FUSE asks for, and adds the bytes
written to the size of the file whatever that offset was (`fuse_test.c:239`). A file
written over, or behind its end, then has a size that is not that of its content,
also larger than its clusters, and modulo `SizeRange` again smaller: `SizeInChain`
and `ImplementsFileTable` are not so under `FuseSpec` and not claimed of it. What is
so, and checked by `fuse`: the clusters stay accounted for, and a call changes no
other file. Names are looked up at every call, as FUSE passes paths.

**DiskImage.** `images` are the ramdisk array of the program and what `malloc`
gave it, `disk_ptr` and `cluster_ptr` the two variables `s_disk_image_ptr` of
`disk_image.c` and `cluster_operations.c`, `file` the image file, which is all that
survives the process. The cells are the three FAT entries that `FAT_init` looks
at, and data. `ChangeImage` stands for every operation of TinyFS and changes any
cell, the three FAT entries included: with a FAT as `malloc` returned it, or by way
of an entry nobody created, `free_clusters` and `cluster_write_8bit` reach the
clusters 0 to 2 as well. A load marks 0 and 1 again. A part of an image is loaded
like a whole one: `load_disk` takes the size of the file for that of the image. Three
facts show in the definitions. `store_disk` after `load_ramdisk` writes 3000 bytes
from an array of 1000 (the cells beyond are `Outside`). A failing `load_disk` falls
back to `create_disk` for whatever reason, so an image that could not be read is
later overwritten. And if `create_disk` fails too, TinyFS keeps working on the old
image while `store_disk` refuses. In the kernel build (`LOCAL_COMPILE` not set)
nothing is stored and loading always creates.

**Heap.** `freeBlocks` is the content of `free_blocks_stack`, `held` the
addresses callers have, `result` the last call with its arguments. Addresses are
numbers, computed and divided as in the code, the result of the division in a
byte. Callers free what they were given, or NULL, as `shell_execute_command`
does.

**Terminal.** `buffer`, `first`, `end` and `endX` are the fields of the context,
`screen` the rows of the display. `Put` is `terminal_putchar`, with the redraw
before a line break; each action, here and in `KernelStdio`, is a whole call of
`kernel_stdio.c`, with the redraws it makes. Two peculiarities are in the model and in `Teletype`: text
before the first line break goes to a line that is never shown, and a backspace
on a full line opens another one. The input row is part of every redraw; nothing
is ever written to it, so below a full window a row is blanked, which for the
shell is the free row above the outline of the log. The comment on top of
`terminal.c` says long lines are cut and line breaks not understood; the code
wraps the former and understands the latter, and so does the model. A window
must be two lines smaller than the ring, or a full ring would look empty.

**Formatting and KernelStdio.** A format is the sequence of its conversions; a
number is a word of `WordRange` values, `Signed` where the code has an `int`. Digits are
taken off the end as the loops do, so that the digit count, the sign, the padding
and the cut at the end of the buffer are those of the code. `LongToHex` makes a
zero byte of the remainder of a negative number: a log line whose timestamp has
the top bit set loses its time, and a dump from such an address prints a row of a
few zeros at most. `print_decimal` negates the least integer, which C does not
define; as compiled it stays what it is, and characters below `0` are printed that
make no numeral. A width without the zero flag is ignored, a negative number is
never padded, and `LOG` takes of a message longer than its buffer the first
character only. `FormatsAsAsked` states each of these. A byte 127 in a dump is
printed as it is and erases the column before it. The copy on the serial line is
left out.

**Descriptors.** An entry is its eight bytes. `IDT` is the table after the five
calls of `add_IDT_entry`, from whatever memory held before; `Decoded` and `Segment`
are the two sets of `get_descriptor_*`; `Entered` and `Target` are the CPU, external.
`ContextSwitch` takes an `int 0x80` through `Entered`. `LoaderGDT` is the table
noted at the end of `GDT_Global_Descriptor_Table.c`: the code segment number 8 is
written into the gates and only that table makes it right.

**Shell.** `line` is `input_line` with the two padding cells behind it, `len` is
`input_len`, which lies behind those (`LengthAt` is 52 where the array has 50, as the
Makefile's compiler lays the two variables out), `previous` the keyboard driver's
last scan code. Nothing in `shell_on_input` checks the length. The first character
on a full line is wiped out by the zero for `input_line[sizeof input_line]`; behind the
next one the zero that ends the line hits the low byte of `input_len`, and typing
goes on at the start of the line. `overrun` is a history of that: a character was
typed on a full line since the last Enter. `text` is a history as well: what was
typed on the line, until it is overrun. A byte from the serial line loses its top
bit, so it can be a zero (`Bytes`), which is stored and counted; the string
functions see the text up to its first zero (`Seen`). A poll of the keyboard or of
the serial line is one action, with
all that the key sets off. Characters are letters, the space and the two control
keys; `MaxArgs` is how many pointers a heap block takes. With 50 cells and 32
pointers no line is refused in the code; the model takes smaller numbers to go
through the refusal as well. `number` of the last command is what `kill` and `dump`
make of their argument: characters that are no digits are skipped and the rest
wraps around, so a word is the number 0 and `kill 4294967297` is `kill 1`.

**Router.** Strings are sequences of characters, buffers are zero behind them, as
each command starts with a zeroed path. `current_dir` and `table` are the code's;
`asked` is a history: the directory the user asked for, however long. A mount is
found by the first component of the path and skipped by the length of its
directory, so mounts must be directories of the root, as the three at start are.
`virtual_fs.c` and the test file system are sets of names like TinyFS. `Open` is
what `cat` and `hexdump` share, `Programs` adds `run`. `cd` does
not look whether a directory exists, and no file system has directories: `ls`
below a mount lists the mount.

**Programs.** `file_buffer` is the static array of `execute__run`, `processes` the
user slots with a history: whether the program read last is theirs, and which
files its path names. `RunFile` reads into the buffer before it looks for a slot,
so a run that starts nothing because the table is full still replaces the code
of a process that is alive; a run whose file does not exist changes nothing.
Behind a short program the end of an earlier one stays. What a process does once
its code is replaced is undefined and not modelled.

## Runs

| Run | Question | Result |
|---|---|---|
| `scheduler` | Do histories of create, kill, yield and exit keep the pool exact, and is the scheduling fair? | holds, 12 310 states |
| `kill_dead` | And if a PID is killed twice? | `StacksExclusive` violated |
| `context_switch` | Does every mix of suspending and resuming restore registers and stack, and do the gates lead where they were registered? | holds, 292 626 states |
| `write_result` | Does a program see the result of `write` in EAX, as on Linux? | `LinuxWriteResult` violated |
| `tinyfs` | Do files keep their content and clusters stay accounted for, also when the disk fills up? | holds, 17 111 states |
| `tinyfs_listing` | Does the directory list only files that were created? | `OnlyCreatedListed` violated |
| `fuse` | Do writes at any offset lose a cluster or touch another file? | no, 91 474 states |
| `memory` | Can a block be lost or given out twice, and does a buffer of `stack.c` behave as a bounded LIFO? | no; it does, 157 625 states |
| `disk` | Is what was stored the image in use, and does it come back, after failures and restarts? | yes, 2 049 583 states |
| `terminal` | Does the window show the last lines whatever is printed by whom, and do numbers read back? | yes, 28 659 states |
| `shell` | Are the command run and its number those typed, or can an earlier line show through? | they are, if it was not overrun, 2 740 824 states |
| `router` | Does a name lead to the file it names after any sequence of `cd`, and is the program run that file's? | yes, 110 940 states |

The disagreements found:

- `kill 1` twice frees the block of the dead process twice (`scheduler.c:187`
  reads `stack_mem_base` of a slot that is no longer in use). Two later processes
  run on one stack. The comment at `scheduler.c:226` says that freeing the
  memory is what allows processes to be killed and created freely.
- `syscall_entry_point_C` drops what `sys_write` returns and `popad` brings back
  the call number: the program reads 4 whatever happened. The README calls the
  system calls Linux compatible.
- `rootdir_set_file_entry` grows the directory into a free cluster without
  clearing it. If the cluster belonged to a deleted file, its old bytes appear
  as directory entries beyond the new one.

Bounds. `scheduler`: four user slots and five blocks, one more than the slots,
as the code has 32 blocks for 15; slots and blocks recycle in every order, the
table fills, and the round robin wraps. The theorems cover all other sizes.
`context_switch`: the kernel and two processes, so a process can be resumed by
one that left the other way, and a block can be recycled while a third process
is suspended; a local word on a stack makes a lost or added word visible; one
write suffices as its arguments change no control (the violation run has the
refused ones too). `tinyfs`: seven clusters of four cells, four of them for data and directory
growth: chunks of seven cells span clusters, the disk fills during an append, in
the second cell of an entry and before the data cluster is taken, and a second
file of the same name can exist. `tinyfs_listing` has one more cluster, as a
deleted file's data must end up in the directory. `fuse`: the same
disk, a chunk of three cells, written at an offset inside the first cluster and at
one behind it, so that files are written over, have gaps and grow until the disk is
full, and sizes below eight, so that they wrap. `disk`: images of four cells, three
FAT entries and one of data, two earlier files, one smaller than the default, a
ramdisk array one cell too short, two contents that `malloc` may return, changes
that free the clusters 0 and 2, put data in place of the latter and behind it, and
two allocations in one process, so that
every load can follow every other one, with failures, short writes and restarts
between them.

`memory`: one block more than the code has, so that blocks return in
another order than they went; sizes at both ends of what is served, and beyond;
beside the heap a stack of four cells and three values, called in any way, so that
both ends of its buffer are hit.
`terminal`: two columns, a ring of four lines and a window of two at row one, so
the ring wraps, the window scrolls in every position of the ring, rows above and
below exist to be drawn on by mistake, and a string of three characters spans
two lines; words of eight bits, a buffer of six characters and log lines of six,
so that every number is printed in every width that fits, formats and messages
are cut, and one format prints a zero byte by `%c`, where its text ends.
`shell`: five cells and two behind them, so that lines are overrun once and several
times, zeros typed at every place, one digit, a long of eight values, so that two
digits wrap around, and the letters that choose `help`, `hexdump` and `dump`, which
reads its number to base 16 (that of `kill`, base 10, is covered by the proof alone);
one key whose release is seen, as all releases are treated alike; up to two words
and a third that is refused, leading, trailing and repeated spaces. `router`: paths of five characters, which reach every file, mounts and names of
one, arguments absolute, relative, with an empty component, ending in a slash
and of two components; directories asked for of up to six characters,
so the buffer overflows; `run` with two of the names, which lead to all three
files and to none; two slots for processes, programs that are shorter than
the buffer, as long and longer.

What the properties do not say. `LineIsText` and the three about commands say
nothing of a line that was overrun, until the next Enter. `RanAsTyped` states one
exception: a lone `h` runs `help` or `hexdump`, as the shell looks at the third
character of a line that has one, which is what an earlier line left there
(`shell.c:177`). `FormatsAsAsked` does not say how a message too long for a log
line goes on when the time before it is negative. `ComesBackWhole` says nothing of
a file that was cut off. `LatestProgramIntact` is about programs that fit the
buffer.

Deadlock is checked in every run that is expected to pass: some process can
always go on, and every call of the other components answers.

Fairness. Only `scheduler` checks liveness, under `WF_vars(Yield)`: the running
process gives the CPU away. The main loop calls `schedule()` in every turn
(`kernel_main.c:241-254`), the threads of the tree do so in their loops and the
programs of `user-space/` come back by system calls. A program that never gives
the CPU away would stop the system: scheduling is cooperative, and `RunsAgain`
says nothing about such programs. Creation, kill and exit need no fairness.

Every property has at least one mutant in `PROJECT.json`: a plausible mistake in
a mapped definition which makes TLC report exactly that property.

## Proofs

Proved by TLAPS for every number of slots and blocks and every block size that
satisfies `SchedulerAssumption` (at least as many blocks as user slots, at most
255, block size positive):

| Theorem | States |
|---|---|
| `TypeCorrect` | `Spec => []TypeOK` |
| `KernelSurvives` | process 0 is never removed, the running process is in the table |
| `StacksSuffice` | no live process has a NULL stack |
| `StacksStay` | no step moves the stack of a process that stays alive |
| `StacksAreExclusive` | no two live processes share a block, if only live processes are killed |
| `PoolIsAccounted` | the free list is exact, under the same condition |
| `ManagerImplemented` | `Spec => Manager!Spec`, under the same condition |

There are two inductive invariants. `CoreInv` holds whatever is killed: types,
`RunningIsLive`, `LiveHaveStacks` and `EnoughBlocks` (free entries and live
processes together are at least the number of blocks). The last is what makes
`LiveHaveStacks` inductive: when a slot is free there are fewer live processes
than blocks, so the list is not empty. It also survives a double kill, which
only adds entries, and a push onto a full list, which then already has
`StackCount` entries. `PoolInv` adds `StacksExclusive` and `PoolAccounted`, each
of which needs the other: a block on the free list must not be in use for the
new process to be alone on it. It needs `KillsDead = FALSE`; with `TRUE` the run
`kill_dead` is the counterexample. `StackStays` is not checked by a run: under the
condition of `ManagerImplemented` it is part of the abstract process manager, which
never changes the block of a process that stays; the theorem holds without. Underneath, `AddressFacts` says that index
and address convert back and forth, `NextUsedIsUsed` and `FirstFreeIsFree` that
the two searches return what they look for (from `LeastNatural`, the least
element of a set of naturals).

For the heap, for every number of blocks up to 255, every block and red zone
size and every set of sizes asked for (`HeapAssumption`):

| Theorem | States |
|---|---|
| `HeapTypeCorrect` | `Spec => []TypeOK` |
| `HeapAccounted` | every block is listed exactly once or held |
| `RedZonesKept` | held blocks and their red zones do not overlap and lie in the buffer |
| `HeapIsAllocator` | `Spec => Promise!Spec`, the abstract allocator |

`HeapInv` is `TypeOK` and `BlocksAccounted`, which is inductive as it stands: an
address that is held is the address of an index that is not listed, the division
finds that index again, and the list has room for it as it lacks at least one.
`RedZonesBetween`, which no run checks, follows from the types alone, as different
indexes are at least a stride apart, and the refusals of the abstract allocator from
`BlocksAccounted`: an empty list means that every block is held.

For `stack.c`, for every size of its buffer and all bytes:

| Theorem | States |
|---|---|
| `BufferTypeCorrect` | `BufferSpec => []BufferTypeOK`: the pointer stays in the buffer |
| `BufferIsLIFO` | `BufferSpec => Abstract!Spec`, the bounded LIFO |

The types, which no run checks on their own, are inductive and are all the
refinement needs: what is stacked are the cells below the pointer, so a push puts a
cell behind them and a pop takes the last one away.

For the context switch, for any number of processes, stacks, locals and values.
`RefinesScheduler` and `GatesStayRegistered` need no condition; the others need
`KillsDead = FALSE`, as two processes on one stack do overwrite each other.

| Theorem | States |
|---|---|
| `RefinesScheduler` | `CSSpec => Spec`: every theorem about the scheduler holds of it |
| `ContextTypeCorrect` | `CSSpec => []CSTypeOK`, in particular no live word is junk |
| `AlwaysReturnsToCaller` | no `ret` or `iret` goes anywhere but into the running program |
| `StacksStayBalanced` | neither way to give the CPU away leaves a word behind |
| `SuspendedStaysIntact` | what is saved of a suspended process stays as it left it |
| `AlwaysResumesExactly` | who gets the CPU has all its registers and words again |
| `GatesStayRegistered` | `CSSpec => []GatesAsRegistered`: every gate leads where it was registered |

None of the four properties is inductive: each says what is so of one process and
holds only because of what the others' stacks look like. `CSInv` adds to
`PoolInv` and the types two statements about every live process. `RunningInOrder`:
the running process is on its own stack and either in its program or in
`schedule()` with that call's three words on top. `SuspendedInOrder`: the saved
context of a suspended process points behind the last word of its own stack and
is, with the stack, what `expect` recorded when it left. A step of one process
leaves the stacks of the others alone because `PoolInv` keeps blocks apart. The
offsets of the assembly enter in lemmas about instructions (`PushedWords`,
`PushThenDrop`, `LoadedAndMoved`): what was pushed is found at its offset,
`SavedByCall` and `SavedByIRQ` save what was there before the call, and
`RestoredByCallExactly`, `RestoredByIRQExactly` end with the saved registers and
the memory unchanged, whichever way the process had left.

`GatesStayRegistered` is about the tables, which no step changes: it holds for all
addresses of handlers and whatever the memory of the table held before. It unfolds
`IDT` entry by entry (`IDTUnfolds`, `EntryAdded`): the bytes of the five gates are
those of `IsBuilt`, all other entries are empty. `BuiltReads` then says what the CPU
and the print functions make of these bytes, and `AddressBytes` that an address of
four bytes comes out of its parts again. The assumption `DescriptorsAssumption` asks that
addresses have four bytes and that the loader's second descriptor is that of flat
kernel code (`FlatKernelCode`), as it is dumped at the end of
`GDT_Global_Descriptor_Table.c`; of it the theorem says that it is printed as such.

For the images on disk, for images of any size, all contents and every failure:

| Theorem | States |
|---|---|
| `DiskTypeCorrect` | no pointer dangles |
| `AlwaysStoresWhatIsUsed` | the image stored is the one in use, with its size |
| `AlwaysStoredWhole` | the file is the beginning of one image, all of it after success |
| `AlwaysComesBackWhole` | `Spec => ComesBackWhole`: what was stored whole is loaded with its size and all cells but the FAT entries `FAT_init` marks |

`DiskInv` is the three invariants and that what a store was last opened for is an
image (`SourceIsImage`). `ComesBackWhole` is about one step: the file is the image it
was opened for, so the load takes that image through `FAT_init`, of which the
property says what it may change. Nothing is assumed of the FAT entries stored.

For the router and the programs, for every size of the buffers and the table, all
mounts, files and names, and directories of any length:

| Theorem | States |
|---|---|
| `RouterTypeCorrect` | the current directory is absolute and fits |
| `DirectoryIsAsked` | it is what was asked for, cut once |
| `AlwaysLeadsWhereNamed` | a path that fits reaches the one file it names |
| `LatestStaysIntact` | the program read last is whole in the shared buffer |

`RouterInv` is `DirectoryAsAsked`, `LeadsWhereNamed`, that what is asked for starts
with a slash, and that the mount table is that of the start; `ProgramsInv` adds
the types of the buffer and the processes and `LatestProgramIntact`. The heart is
`FirstDirMatches`: comparing first components, each cut to its buffer, finds a mount
exactly if the path is its directory or lies below it; `LeadsToOne` then says that
no path leads to two. `TakeOfAppended` says that cutting before an append changes
nothing when the result is cut. `RouterAssumption` asks that the mounts are
directories of the root, differ, and fit the table (three of eight entries at
start, `kernel_main.c:228`). The table is built by a recursive function; its
values are found by the least index at which it could differ (`LeastNatural`).

For the terminal, for every size of ring, window and line and whatever is printed
by whichever call:

| Theorem | States |
|---|---|
| `TerminalTypeCorrect` | the cursor and the window stay in the ring, rows hold lines |
| `WindowShowsText` | the display shows the window onto the ring, and blanks behind it |
| `TeletypeImplemented` | `StdioSpec => ImplementsTeletype`: every call is one emission of the abstract teletype |
| `FormatsAreAsAsked` | `StdioSpec => FormatsAsAsked`: what is printed for numbers, formats, log lines and dumps reads back as what they were made from, and what is printed where it cannot |

`TerminalInv` says that the context is one of the `Terminals` (the types, at most
`WindowSize` lines from the first to the last, rows outside the window blank) and
that the window is `Drawn`. Its core is `RowsLie`: the lines shown lie one after
another in the ring, all different, up to the line of the cursor. From it follow
`OpenedScrolls` (a line opened scrolls the sheet, wherever the ring wraps) and
`WritingOverwrites` (a character changes one column of the last line), and from
these `PutTypes`: a character put is that character typed on the sheet.
`PrintingTypes` and `TypingChains` carry it to strings; both are recursive
functions over the characters, for which `ListFacts` has `RecursionExists` and
`SameRecursion`. `DumpSimulates` puts the rows of a dump together into one emission.
`TerminalAssumption` asks that the line break is no backspace, and
`StringsAssumption` that the model's set of strings holds what the calls print
(TLC evaluates both).

`FormatsAsAsked` says of the calls which are made that three statements about the
operators of `Formatting` hold, and the theorem shows the three for every size of
word and buffer. `NumbersAreReadBack`: reading n digits from the first on, the value
after k of them is what was left of the number with n - k digits off its end (`Rest`),
for every k (`DigitsReadBack`); a number below the range of words is used up before its buffer
is full (`WordEnds`), so the loop ends at the first k that leaves nothing, and hence
the first digit is no zero (`NumeralDigits`, `CountOfDigits`). Padding adds zeros in
front (`PaddedStands`), and nothing is cut as the text buffer holds more than a
number and its sign. Of a negative number that is not negated the last remainder is
no digit (`NegativeRemainder`, `NegativeEnds`): so the least integer is no numeral
(`LeastIsNoNumeral`), and a negative time or address ends the string before its first
digit (`TimelessLine`, `UnaddressedRow`; `TimedLine`, `AddressedRow` are the others). `LogLinesReadBack` and `DumpsReadBack` add where the parts of a
line lie: a string ends at its first zero, or where it is cut (`CStringIs`,
`CStringOfCut`), and the columns of a row start at `Start` (`ColumnsJoined`).
`FormatsFit`: a format is the join of the texts of its conversions (`TextsJoined`), and
two texts printed as one are each as printed alone, cut once more, unless the first
holds a zero byte (`JoinedCut`, `TextEnds`); `%c` of zero prints one, which
`FitsTogether` did not allow for before. Inductions over the digits and the
conversions are over a range of numbers (`RangeInduction`), on the values of the
recursive functions that `Formatting` and the folds define.

`FormattingAssumption` asks that the number buffer holds the digits of every word
(16 cells in `print_decimal` and `print_hex`), the text buffer one cell more than
a number and its sign and the log buffer the time and two characters;
`CharactersAssumption`, that no character printed is the zero that ends a string;
`FormatsAssumption`, that `%s` gets a string and a number is a word.

For TinyFS, for every number of clusters the FAT can name, every cluster size, all
names, all contents and however often the disk runs full in the middle of a call:

| Theorem | States |
|---|---|
| `TypesKept` | `Spec => []TypeOK` |
| `ClustersStayAccounted` | chains end and share nothing; no cluster is lost or listed free in use |
| `FilesStayInChain` | no size exceeds the clusters of its file, after creates, deletes and `fs_write`s |
| `ImageShowsTable` | `Spec => ImplementsFileTable`: the image is the abstract table of files |

They are about `Spec`; of `FuseSpec`, under which the third and the fourth fail,
nothing is proved.

None of these is inductive: what a call does depends on what lies in the directory,
which itself lies in a chain. `TinyFSInv` says that there are *paths*, one sequence
of clusters for each head, with which the FAT and the image are `Sound`: the FAT
links them and takes nothing else (`Laid`); every path is the directory's or that
of one file, whose entry lies in the directory as a whole, bears a name and has a
size that fits (`FilesSound`, `ChainsOwned`); and no other entry bears a name
(`OthersNameless`), nor does any cell outside the directory (`DataNameless`), which
is what keeps a cluster with old data in it from becoming a file when the directory
takes it in. `DataNameless` rests on the assumption that no chunk spells a name;
without it the directory does list such data, see `tinyfs_listing`.

What is read and written is addressed by offset along a path. `HopOnPath` and
`ChainOnPath` say that following the FAT is following the path; `GrownReaches`, that
lengthening a chain step by step lengthens its path and leaves the others, also when
it stops at a full disk; `WriteDataWrites`, that `WriteData` leaves a prefix of the
values at their offsets and nothing else in the chain, in three cases: it was long
enough, it grew, or the disk was full. `SetEntrySets` and `ChunkIsStored` apply
this to the directory and to a file; `DeleteSound`, `EntryMade`, `EntryNotMade` and
`WriteSound` put a call together, and `TableStep` reads names and contents off the
paths before and after. The proof led to two changes of form in `TinyFS`: the arms
of a `CASE` in `Grown` overlapped, so that which one is taken was TLC's choice, and
`UNION S \ T` in `ClustersAccounted` is not read in the same way by TLC and by the
prover; both now say what TLC had checked.

For the shell, for lines of any length, any letters and any typing on both inputs:

| Theorem | States |
|---|---|
| `ShellTypeCorrect` | the line with the cells behind it, its length and the last scan code have their types, overrun or not |
| `LineShowsText` | the line is the text typed, up to a zero, unless it was overrun |
| `ArgumentsAreWords` | the arguments of a command are the words of that text |
| `CommandIsTyped` | the command is the one typed; `h` alone may run `hexdump` |
| `NumberIsTyped` | the number `kill` and `dump` get is the one typed |

The last three are about lines neither overrun nor refused. `ShellInv` is the types
and, unless the line was overrun, that the text is on the line, ended there, and as
long as `input_len` says (`HasText` in `TextInv`); the zero behind every character
typed keeps it so whatever splitting has left, and after an overrun Enter starts
over with an empty line (`EmptyHasText`). The part of the text up to its first zero
(`Seen`) is then what splitting works on (`OnLine`). The
last three add their own statement about the last command. The loop of
`parse_arguments` has the invariant `SplitAt`: after k rounds the first k ends of
words are zeroed and nothing else (`LineSplit`), the k pointers stand at the first
k starts, and the next word starts where the search for it stops (`NextAt`). Words
are told apart by their *rank* among the starts and among the ends
(`RankUnique`). `WordsCounted` says that the number of rounds, counted by the runs
of spaces, is the number of ends, `AllStarted` that it is the number of starts
too; a line of spaces only is a case of its own (`BlankArgs`). `CellsRead` then says
that what the shell looks at to choose a command is the text, except that a space
may have become a zero. `ShellAssumption` asks that the letters of the commands
are neither space nor zero.

`NumberIsTyped` compares two ways to read a number: `ReadNumber` goes from the last
character to the first, as `atoi` and `hex_to_long` do, and reduces every sum and
multiplier to what a long holds; `NumberIn` adds up the digits from the first on and
reduces the result. The invariant of the loop (`NumberReadAsTyped`): what is in front
of the characters read, times the multiplier, plus the result, leaves the remainder of
the whole number. `ReadStepCounts` is one step of it and rests on `ReduceFirst`, a fact
about remainders.

Only model-checked are `RunsAgain`, that everybody gets the CPU again, as liveness
under fairness is out of the prover's reach, and what `fuse` says of `FuseSpec`:
`ClustersAccounted` there and `OneFileAtATime`. Every other property of the runs that
pass is stated by one of the theorems.

## Not modelled

- Devices and boot: port and memory accesses, and what is only printed (BIOS data
  area, registers). The copy of the output on the serial line.
- The depth of stacks in bytes: a process starts at the low end of its block and
  grows into the one below (`scheduler.c:172`), which needs sizes of frames that
  the source does not fix. `ContextSwitch` keeps the stacks apart by block.
- Writes behind an array, other than those behind the input line: `kill` with a
  number outside the table, a file larger than the buffer of its reader.
- Names longer than an entry's field, empty names, an image whose FAT is not one,
  reading the geometry from an image (not written yet), FUSE calls other than
  `fuse_write`, create and unlink.
- The contents of files where they are only printed, the text of listings, the
  name of a process that points into a stack frame that is gone, where `dump`
  starts when no address is typed.
- The unit tests inside `malloc.c` and `stack.c`.

## Plan

Done: scheduler, free-block stack, context switch with the descriptor tables,
TinyFS and its images, heap, terminal with formatted printing, shell line, router
and programs, with the theorems of all of them. What would come next:

1. The rest of the FUSE driver: its reads and attributes, once it is settled what
   size a file should have after a write at an offset.
2. `ContextSwitch` with the display: a `write` that prints into the terminal
   between two prompts, if it says more than the two modules say apart.
