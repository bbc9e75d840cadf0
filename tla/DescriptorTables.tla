-------------------------- MODULE DescriptorTables --------------------------
(***************************************************************************)
(* The GDT, the TSS descriptor and the IDT that system_tables_setup.c      *)
(* builds, and how the CPU reads them.  A 32-bit half of a GDT entry is    *)
(* its two 16-bit words, the lower first; an address is four words.        *)
(***************************************************************************)
EXTENDS Integers, Sequences

CONSTANTS
  CPU_MODE,   \* 64, 32 or 16: the mode of user code
  TssBase,    \* address of tss
  Handlers    \* exception_handlers: a sequence of addresses, vector 0 first

Word == 0 .. 2^16 - 1
Address == [1 .. 4 -> Word]

ASSUME DescriptorAssumption ==
  /\ CPU_MODE \in {16, 32, 64}
  /\ TssBase \in Address
  /\ Handlers \in Seq(Address)

(* Flags of an entry's second half, as numbers of its lower and upper word *)
GDT_PRESENT == 2^15
GDT_DPL_3 == 3 * 2^13
GDT_CODE_OR_DATA_SEGMENT == 2^12
Execute == 11 * 2^8        \* execute/read, accessed
ReadWrite == 3 * 2^8       \* read/write, accessed
GDT_TSS_AVAILABLE == 9 * 2^8
GDT_GRANULARITY == 2^7     \* the upper word from here
D_BIT == 2^6
L_BIT == 2^5
LimitHigh == 15

(* GDT_USER_CODE_SEGMENT                                                   *)
UserCodeMode == CASE CPU_MODE = 64 -> L_BIT [] CPU_MODE = 32 -> D_BIT [] OTHER -> 0

(* A flat segment: limit 0xfffff pages.                                    *)
Flat(lower, upper) ==
  <<2^16 - 1, 0, GDT_PRESENT + GDT_CODE_OR_DATA_SEGMENT + lower,
    LimitHigh + GDT_GRANULARITY + upper>>

TssSize == 104

(* Faulty TssDescriptor: the third byte of the base goes nowhere.          *)
TssDescriptorShifted ==
  <<TssSize - 1, TssBase[1], GDT_PRESENT + GDT_TSS_AVAILABLE, TssBase[2]>>

(* gdt[5]                                                                  *)
TssDescriptor ==
  <<TssSize - 1, TssBase[1],
    GDT_PRESENT + GDT_TSS_AVAILABLE + (TssBase[2] % 256),
    256 * (TssBase[2] \div 256)>>

Gdt == <<
  <<0, 0, 0, 0>>,
  Flat(Execute, L_BIT),
  Flat(ReadWrite, 0),
  Flat(Execute + GDT_DPL_3, UserCodeMode),
  Flat(ReadWrite + GDT_DPL_3, 0),
  TssDescriptor,
  <<TssBase[3], TssBase[4], 0, 0>> >>

IDT_TRAP_GATE == 15 * 2^8
KernelCode == 8

(* Faulty Gate: user code may call every gate.                             *)
GateCallable(vector) ==
  LET pointer == Handlers[vector + 1]
  IN  [offset_low       |-> pointer[1],
       segment_selector |-> KernelCode,
       flags            |-> GDT_PRESENT + IDT_TRAP_GATE + GDT_DPL_3,
       offset_middle    |-> pointer[2],
       offset_high      |-> <<pointer[3], pointer[4]>>]

(* setup_idt: user code may raise the breakpoint by an int instruction.    *)
Gate(vector) ==
  LET pointer == Handlers[vector + 1]
  IN  [offset_low       |-> pointer[1],
       segment_selector |-> KernelCode,
       flags            |-> GDT_PRESENT + IDT_TRAP_GATE
                              + (IF vector = 3 THEN GDT_DPL_3 ELSE 0),
       offset_middle    |-> pointer[2],
       offset_high      |-> <<pointer[3], pointer[4]>>]

Idt == [vector \in 0 .. Len(Handlers) - 1 |-> Gate(vector)]

----------------------------------------------------------------------------
(* How the CPU reads them.                                                 *)
Bit(word, n) == (word \div 2^n) % 2 = 1

Dpl(word) == (word \div 2^13) % 4

Segment(selector) ==
  LET e == Gdt[selector \div 8 + 1]
  IN  [present |-> Bit(e[3], 15), dpl |-> Dpl(e[3]), system |-> ~Bit(e[3], 12),
       type |-> (e[3] \div 2^8) % 16,
       long |-> Bit(e[4], 5), default32 |-> Bit(e[4], 6),
       base |-> <<e[2], (e[3] % 256) + 256 * (e[4] \div 256)>>,
       limit |-> e[1] + 2^16 * (e[4] % 16), pages |-> Bit(e[4], 7)]

TaskSegment(selector) ==
  LET low == Segment(selector)
      high == Gdt[selector \div 8 + 2]
  IN  [low EXCEPT !.base = @ \o <<high[1], high[2]>>]

GateOffset(gate) ==
  <<gate.offset_low, gate.offset_middle>> \o gate.offset_high

(* Every exception of user code, and none by an int instruction but the    *)
(* breakpoint, reaches its own handler in the 64-bit kernel segment, on    *)
(* the stack the TSS at TssBase names.                                     *)
GatesReachHandlers ==
  /\ \A v \in DOMAIN Idt :
       /\ GateOffset(Idt[v]) = Handlers[v + 1]
       /\ Bit(Idt[v].flags, 15) /\ (Idt[v].flags \div 2^8) % 16 \in {14, 15}
       /\ Dpl(Idt[v].flags) = (IF v = 3 THEN 3 ELSE 0)
       /\ LET code == Segment(Idt[v].segment_selector)
          IN  /\ code.present /\ code.dpl = 0 /\ ~code.system
              /\ code.type \in 8 .. 15 /\ code.long /\ ~code.default32

TaskFound(selector) ==
  LET task == TaskSegment(selector)
  IN  /\ task.present /\ task.system /\ task.type = 9
      /\ task.base = TssBase /\ task.limit = TssSize - 1 /\ ~task.pages

(* The selectors of enter_user are user segments of the mode asked for.    *)
UserSegments(code_selector, stack_selector) ==
  LET code == Segment(code_selector)
      stack == Segment(stack_selector)
  IN  /\ code_selector % 4 = 3 /\ stack_selector % 4 = 3
      /\ code.present /\ code.dpl = 3 /\ ~code.system /\ code.type \in 8 .. 15
      /\ code.long = (CPU_MODE = 64) /\ code.default32 = (CPU_MODE = 32)
      /\ stack.present /\ stack.dpl = 3 /\ ~stack.system /\ stack.type \in {2, 3}
=============================================================================
