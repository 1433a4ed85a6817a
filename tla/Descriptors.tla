------------------------------ MODULE Descriptors ------------------------------
(***************************************************************************)
(* The descriptor tables: how IDT_Interrupt_Descriptor_Table.c builds the  *)
(* gates byte by byte, how it and GDT_Global_Descriptor_Table.c read       *)
(* entries back to print them, and what the CPU does with a gate.  An      *)
(* entry is its eight bytes, numbered from 0.                              *)
(***************************************************************************)
EXTENDS Integers, Sequences

CONSTANTS
    Handlers,     \* the address of the handler registered for each vector
    OldTable,     \* what the memory of the table holds before
    LoaderGDT     \* the segment descriptors the boot loader leaves, the first at 0

Vectors    == 0..255
Byte       == 0..255
Entries    == [0..7 -> Byte]
EmptyEntry == [i \in 0..7 |-> 0]

DivideError       == 0
InvalidOpcode     == 6
SegmentNotPresent == 11
GeneralProtection == 13
LinuxSyscall      == 128

Trap32      == 15
Interrupt32 == 14
GateTypes   == {5, 6, 7, 14, 15}     \* task, and interrupt and trap of 16 and 32 bits

\* An address has four bytes.
IsAddress(a) == a \in Nat /\ a \div 16777216 \in Byte

\* The descriptor behind selector 8 as it is dumped at the end of
\* GDT_Global_Descriptor_Table.c: base 0, the largest limit, in pages, and ring 0
\* code of 32 bits.  How readable, conforming or accessed it is does not matter.
FlatKernelCode(e) ==
    /\ e[0] = 255 /\ e[1] = 255 /\ e[6] % 16 = 15
    /\ e[2] = 0 /\ e[3] = 0 /\ e[4] = 0 /\ e[7] = 0
    /\ e[5] \in 152..159
    /\ e[6] \div 32 = 6

ASSUME DescriptorsAssumption ==
    /\ DOMAIN Handlers =
          {DivideError, InvalidOpcode, SegmentNotPresent, GeneralProtection, LinuxSyscall}
    /\ \A v \in DOMAIN Handlers : IsAddress(Handlers[v])
    /\ OldTable \in [Vectors -> Entries]
    /\ LoaderGDT \in Seq(Entries)
    /\ Len(LoaderGDT) >= 2 /\ FlatKernelCode(LoaderGDT[2])

-----------------------------------------------------------------------------
(* Building the interrupt table *)

\* a | b
BitOr(a, b) ==
    LET bit(n, weight) == (n \div weight) % 2
        or(weight) == IF bit(a, weight) + bit(b, weight) = 0 THEN 0 ELSE weight
    IN  or(1) + or(2) + or(4) + or(8) + or(16) + or(32) + or(64) + or(128)

WithPresentBit(e, value) == [e EXCEPT ![5] = BitOr(@, (value * 128) % 256)]
WithPrivilege(e, level)  == [e EXCEPT ![5] = BitOr(@, 32 * (IF level > 3 THEN 3 ELSE level))]
WithSegment(e, selector) == [e EXCEPT ![2] = selector % 256, ![3] = (selector \div 256) % 256]

\* Mutant: the type overwrites what was set before.
WithGateTypeOnly(e, type) == [e EXCEPT ![5] = IF type \in GateTypes THEN type ELSE 0]

\* A type that is none becomes 0.
WithGateType(e, type) == [e EXCEPT ![5] = BitOr(@, IF type \in GateTypes THEN type ELSE 0)]

WithOffset(e, address) ==
    [e EXCEPT ![0] = address % 256, ![1] = (address \div 256) % 256,
              ![6] = (address \div 65536) % 256, ![7] = (address \div 16777216) % 256]

Gate(vector, privilege, type, selector) ==
    [vector |-> vector, privilege |-> privilege, type |-> type, selector |-> selector,
     offset |-> Handlers[vector]]

\* add_IDT_entry
WithEntry(table, g) ==
    [table EXCEPT ![g.vector] =
        WithOffset(WithSegment(WithGateType(WithPrivilege(WithPresentBit(@, 1),
            g.privilege), g.type), g.selector), g.offset)]

\* The limit is the size of the table, one more than the last byte's offset.
Limit == 256 * 8

Cleared(table) == [v \in Vectors |-> IF v < Limit \div 8 THEN EmptyEntry ELSE table[v]]

Registered ==
    <<Gate(DivideError, 0, Trap32, 8), Gate(InvalidOpcode, 0, Trap32, 8),
      Gate(SegmentNotPresent, 0, Trap32, 8), Gate(GeneralProtection, 0, Trap32, 8),
      Gate(LinuxSyscall, 0, Interrupt32, 8)>>

\* configure_interrupt_descriptor_table
IDT ==
    LET table[k \in 0..Len(Registered)] ==
            IF k = 0 THEN Cleared(OldTable) ELSE WithEntry(table[k - 1], Registered[k])
    IN  table[Len(Registered)]

-----------------------------------------------------------------------------
(* Reading entries back, to print them *)

\* get_descriptor_*, of the interrupt table
Decoded(e) ==
    [present   |-> e[5] \div 128,
     privilege |-> (e[5] \div 32) % 4,
     type      |-> e[5] % 16,
     selector  |-> e[2] + e[3] * 256,
     offset    |-> e[0] + e[1] * 256 + e[6] * 65536 + e[7] * 16777216]

\* print_interrupt_descriptor_table: the entries in use.
PrintedIDT ==
    LET shown == {v \in 0..((Limit + 1) \div 8 - 1) : Decoded(IDT[v]).present # 0}
    IN  [v \in shown |-> Decoded(IDT[v])]

\* print_GDT_table: the fields of a segment descriptor.
Segment(e) ==
    LET access == e[5]
        flags  == e[6] \div 16
    IN  [base        |-> e[2] + e[3] * 256 + e[4] * 65536 + e[7] * 16777216,
         limit       |-> e[0] + e[1] * 256 + (e[6] % 16) * 65536,
         present     |-> (access \div 128) % 2,
         privilege   |-> (access \div 32) % 4,
         type        |-> (access \div 16) % 2,
         executable  |-> (access \div 8) % 2,
         dc          |-> (access \div 4) % 2,
         rw          |-> (access \div 2) % 2,
         accessed    |-> access % 2,
         granularity |-> (flags \div 8) % 2,
         size        |-> (flags \div 4) % 2,
         longMode    |-> (flags \div 2) % 2]

PrintedGDT == [k \in 1..Len(LoaderGDT) |-> Segment(LoaderGDT[k])]

-----------------------------------------------------------------------------
(* The CPU *)

\* A gate the CPU accepts, from kernel privilege: inside the limit, of a gate's
\* type, whose bits are five in byte 5, and present.
Accepted(v) ==
    /\ v * 8 + 7 <= Limit
    /\ IDT[v][5] % 32 \in GateTypes
    /\ IDT[v][5] >= 128

Reset == -1

\* The vector entered by int v: its own, or the general protection fault that a
\* zero entry gives.
Entered(v) ==
    IF Accepted(v) THEN v ELSE IF Accepted(GeneralProtection) THEN GeneralProtection ELSE Reset

\* Where control goes, with which code segment, and whether interrupts stay off.
Target(v) ==
    [ip       |-> IDT[v][0] + 256 * (IDT[v][1] + 256 * (IDT[v][6] + 256 * IDT[v][7])),
     selector |-> IDT[v][2] + 256 * IDT[v][3],
     masks    |-> IDT[v][5] % 16 \in {6, 14}]
=============================================================================
