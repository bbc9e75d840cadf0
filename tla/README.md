# A verification of the PMC bruteforcer

The program is a UEFI application that executes one x86 instruction after
another in user mode, reads the performance counters after each, and saves the
instructions that behave unexpectedly. A session runs for days, nobody watches
it, and its only result is a file. If the search skips a part of the
instruction space, or an instruction is recorded with the wrong counters,
nothing shows it. These modules state what the search, the main loop and the
file must guarantee, check it with TLC on small instances, and prove the
central parts with TLAPS for every instance.

Paths below are relative to the repository; `loop.c` stands for
`src/instruction_execution_loop.c`.

## 1. Inventory

| component | code | state | operations | must hold |
|---|---|---|---|---|
| prefix filter | `loop.c` 323-567 | `malformed_instruction_expect_ud` | `is_prefix`, `count_prefixes`, `contains_invalid_count_of_prefixes` | stays inside the array; accepts what its comments promise |
| instruction search | `loop.c` 191-224, 939-972 | `instruction_bytes`, `cur_instruction_length`, `cur_byte_index`, `last_instruction_length` | grow by a byte, select the next instruction | every candidate once, in order; ends |
| main loop | `loop.c` 172-198, 569-937, 982-1009 | UD2's counters, the last counters, statistics, `flush_required` | one per exception: measure UD2, grow, repeat, classify, save, flush, select | nothing saved twice, wrongly measured or lost |
| save file | `src/save_file.c` | `output_file` and its position | open, write a record field by field, flush, close | decodable after any failure |
| boot sequence | `src/main.c`, `loop.c` 131-167 | what is allocated, CR4, CR8, IF, EFER, MSRs | `efi_main` | order of the steps; a refusal gives everything back |
| page remapping | `src/remap.c` | page tables, CR0.WP, TLB | `remap_page` | one page changes, all others translate as before |
| exception and user entry | `src/exception_handlers.S`, `src/enter_user.S`, `loop.c` 172-198 | kernel stack, counters, the user code page, MCIP, NMI blocking | enter, `execute_instruction`, `iretq` | what runs is what is recorded, also when NMI or `#MC` hits the handler |
| descriptor tables | `src/system_tables_setup.c` | GDT, IDT, TSS | encode | the CPU reads what was meant |
| CPU detection | `src/uarch_config.c` | - | family/model to counter selectors | only the CPUs whose counters it has |
| disassembler wrapper | `src/disasm.c` | the XED chip | length of an instruction or 0 | - |
| console | `src/print.c` | text mode | choose a mode, `vsnprintf` | stays inside the buffer |
| string, runtime | `src/string.c`, `src/stdlib.c`, ... | - | small libc | C semantics |

How they interact: there is no loop in the main loop. `execute_instruction`
writes the instruction so that it ends at the end of the user code page and
leaves for user mode; it never returns. The CPU comes back with an exception
(TF is set, so at the latest with `#DB` after one instruction), the stub in
`exception_handlers.S` builds the context and jumps to `handle_exception`, and
the handler ends by executing the next instruction. A call that executes again
from the middle of the handler abandons the rest of it. The next page is not
accessible, so an instruction that is longer than the bytes written raises
`#PF` just past the page, and the handler appends a byte and executes again:
that is how the CPU tells the search the instruction's length.

What makes it hard:

* the selection is a `while` loop inside an `if`, a `do` loop after it, and a
  `goto` from the second into the first; its state survives from instruction to
  instruction, and the CPU's answers choose the path;
* every handler can be cut off in the middle by its own re-execution, so the
  position of each side effect decides whether it happens per run or per
  instruction;
* the CPU may do anything: other exceptions in a repeated run, counters that
  never repeat, machine checks;
* a record is several writes to removable media, a write or a flush may fail,
  and the machine is switched off at will;
* exceptions that are not masked (NMI, `#MC`) may hit the handler itself; their
  handler is the same function, which never returns to what it interrupted;
* the boot sequence changes the tables under the firmware's feet and goes on
  calling the firmware;
* every call to the firmware may fail.

`PROJECT.json` lists each hazard at its line with the properties that cover it.

## 2. Modules

```
InstructionPrefixes ── InstructionSearch ─┬─ BruteforceLoop ──── MCBruteforceLoop
     (filter)      implements│            │      │ implements
                       CandidateOrder     │   RecordLog ◄─── SaveFileDecoder ── SaveFile
                                          │                        │
                          MCInstructionSearch                  MCSaveFile
                                          │
   DescriptorTables ┄┄(instance)┄┄ NestedExceptions ── MCNestedExceptions

RemapPage ──────────┐ implements AddressSpace
OpenSaveFile ───────┼── Boot ── MCBoot          Console ─┬─ MCRuntime
DescriptorTables ───┤                           Strings ─┘
CpuDetection ───────┘

NumberInduction ─┬─ InstructionSearchProofs ─┬─ BruteforceLoopProofs
                 │                           └─ NestedExceptionsProofs
                 ├─ SaveFileProofs   (of SaveFileDecoder)
                 └─ RuntimeProofs    (of Console and Strings)
Boot ── BootProofs ── RemapProofs
```

**InstructionPrefixes** has no state. It is the filter with the real byte
values: `Kind` is the `switch`, `PassesPrefix` and `RejectsAt` are what one turn
of the `for` loop does, and `ContainsInvalidCountOfPrefixes` says that some turn
is reached and rejects. `IsCountedPrefix` is the separate table of
`is_prefix`/`count_prefixes`. The constant `Byte` is the set of values a byte may
take: `0 .. 255` in the code; a sample of it for TLC. `ByteAssumption` asks that
0 and 0xff are in the sample and that every byte but the last has a next one.

**CandidateOrder** is the abstract specification: one step per instruction, no
loops. `Advance` jumps to the first instruction that the filter accepts, after
the current one, among those the tunnelling rule (`GivesUp`) still wants;
`Exhaust` ends the search, and only when there is none.

**InstructionSearch** has the globals under their names, and `pc` for the place
in the selection: `executing` (user mode), `carry` (the `while` loop under
`update_byte_index`), `increment` (the `do` loop), `halted` (Done). A turn of a
loop is an action: `Carry`, `Finish`, `EndCarry` for the `while` loop, `Overflow`
(the goto) and `Increment` for the `do` loop; `BeginSelect` is the `if` at
line 940, `Extend` is `increment_instruction_length_and_retry_exec`. `origin` is
auxiliary: the state the selection started from, for the refinement mapping.
When an execution ends in `Extend` and when in a selection is the CPU's choice.

**BruteforceLoop** extends it with the handler. A step is an exception together
with all that the handler does up to the next user entry, except that the
selection takes the steps of InstructionSearch. The context is reduced to what
the handler tests: the vector (`#UD`, `#PF`, `#MC`, other), kernel or user mode,
whether a fetch faulted just past the page, and PF_USER. Counters are values
that can be equal or not. XED is external and answers any length it could.

| action | code |
|---|---|
| `MeasureUd2Again`, `Ud2Measured`, `Ud2Unexpected` | the branches of `check_ud2_measurements` |
| `ExtendInstruction` | the page fault just past the page, `loop.c` 762-769 |
| `Retry` | `restart_on_unstable_counters_values` when it executes again |
| `PassOver`, `Save`, `SaveFails` | the rest of `check_last_instruction` for an instruction that is not interesting, is saved, or cannot be saved |
| `SelectNext` | the selection, and Done |

`Settles` collects what lets the handler get past its restarts, `InstructionType`
is the type after all its assignments, `CountAndFlush` the counter and the flush.
`previous` is auxiliary: the last run of the instruction being executed. Files
that are closed are always followed by `halt()`, so `file_open` is also "the
program runs".

**SaveFile** is the file as bytes. Each `Write` the code makes is a step;
`pending` are the writes the current record still needs. `WriteFails` may leave
part of a field. `PowerCut` may lose any number of bytes after the durable ones,
and a run after it opens the file again. A file that `open_save_file` has not emptied
(`not emptied`) is not followed further. The firmware's file is external: bytes
are lost from the end only, Flush and Close make everything durable, and
shortening the file is durable at once. `SaveAssumption` says what the loop saves:
as many counters in each record as in the reference, an instruction of 1 to 15
bytes, a type of 1 to 7 and an exception of 0 to 31, so that each of these fits its
half byte or seven bits. **SaveFileDecoder** has a reader of the format (the
repository announces one but has none yet). It reads field by field, each from the
position where the one before it ended; numbers, counters and records are recursive
functions of a position or a count, so that proofs can be about them.

**RecordLog** is what a session promises about its records with nothing said of
exceptions or bytes: a log that grows by whole records while it is open, and
whose flushed first part no power cut takes away. BruteforceLoop implements it
with `output_file` and `durable`, SaveFile with the records the reader finds in
its bytes and `kept`. That is where the two meet: `output_file` in the loop is
`saved` in SaveFile.

**NestedExceptions** extends InstructionSearch with exceptions between the
handler's steps. `mode` is the place: the entry, the acknowledgement of an `#MC`,
the handler, a selection, the five parts of `execute_instruction`, user mode,
and what comes after Done. `KernelException` is an NMI or `#MC` anywhere in kernel
mode. It may find a turn of a loop half done (`HalfTurn`: the byte is stored and
the index is not, or the byte is incremented and the filter has not been asked;
`HalfBegun`: one of the two stores at line 960), and the handler starts from
there. NMIs are blocked from the delivery of one to the next `iretq`; an `#MC`
with MCIP set shuts the CPU down. `user_code_page` holds the last bytes of the
page, as many as an instruction has. `mcip_abandoned` is auxiliary. The step of
the handler between entry and selection is one (`Settle`): what it records is
BruteforceLoop's.

**Boot** composes four modules and is `efi_main`, an action per block of it that
has an outcome of its own. While `pc` is `save file` the steps of **OpenSaveFile**
run, one per call to the firmware, with `size_given` (auxiliary) telling whether the
first `GetInfo` answered as UEFI has it (any other status is returned as it is,
`EFI_SUCCESS` too, and the file is then not emptied); while it is `remapping ...` those of
**RemapPage**. Every firmware call may fail and may turn interrupts on
(`CallsFirmware`).

**RemapPage** has the page tables as a function from slots to entries. A slot
`<<l, i>>` is the entry of level `l` on the path of the pages whose number divided
by `Span(l)` is `i`; since the firmware's tables are a tree, a path names an entry,
and the physical addresses of tables do not matter. `LinkTable` is the branch
that puts a new table in place of a large page or of nothing, `Descend` the rest
of a turn, `MapPage` line 117. `Translate` is the CPU's walk; `cached` is what the
TLB may hold, everything that was true since CR3 was last written. **AddressSpace**
is the abstract specification: `Widen` gives rights to some pages and takes none,
`Grant` gives the requested page exactly what was asked for and leaves the others
alone.

**DescriptorTables** builds the GDT, TSS descriptor and IDT from 16-bit words as
the code does, and reads them as the CPU does. **CpuDetection** is the arithmetic
on CPUID's signature and the table look-up.

**Console** is `print_init`'s loop over the text modes and `vsnprintf` turn by turn,
with the jump from the modifiers back into the `switch`. A format is what a text
spells, and a text is built of pieces (`Then`): a character, `%` and a character,
a string, a number with modifiers. That tells what a call should print without
asking the code; `FormatAssumption` says what calls look like, and that no argument
is missing or of another type. **Strings** has the string functions as recursive
functions of the position in memory, each call one step. Memory holds bytes,
0 to 255; `memcmp` subtracts them as they are, `strcmp` as signed characters
(`Signed`), which plain `char` is for the Makefile's target. `LastCell` ends a scan with
the memory; strings end before it, so no call gets there.

## 3. Runs

| run | shows | instance |
|---|---|---|
| `search64` | types, `ZeroTail`, `SelectionInvariant`, `NeverRevisits`, refinement of CandidateOrder, termination | 8 bytes, 4 positions, 64-bit; about 13 000 states |
| `search32` | `PrefixScanInBounds` and the refinement where 0x62 and 0xc4 may be opcodes | 5 bytes, 5 positions, 32-bit; about 17 000 states |
| `loop_any_cpu` | the loop implements RecordLog, no record twice, statistics agree with the file, all criteria saved, the program stops or runs one instruction for ever | any exception in a repeated run, flushes may fail, 2 records; about 147 000 states |
| `loop_steady_cpu` | loss at a power cut is bounded; a saved `#UD` was measured twice | a CPU that repeats its exception, flushes succeed, 3 records; about 169 000 states |
| `save_file` | the file decodes to what was saved, in every state and after every power cut, and implements RecordLog | 4 kinds of records, 3 records, two earlier contents; about 19 000 states |
| `boot` | user mode finds its page, tables, stack and counters ready; remapping moves no other page and leaves nothing stale; no maskable interrupt on changed tables; what fails is given back | tables of 2 entries, so 16 pages; 9 firmwares, 7 CPUs, 5 places of the user pages; about 17 000 states |
| `nested_exceptions` | the state a nested handler starts from never reaches user mode damaged; counters of one run; MCIP; the program ends | 3 bytes, 3 positions, 2 nested exceptions; about 82 000 states |
| `runtime` | `vsnprintf` prints its text cut to the buffer, `print_init` sets the largest mode, the string functions keep to C but for the three departures of section 5 | formats of up to 2 pieces and a dangling `%`, 6 buffer sizes; memories of 4 cells with the bytes 0, 1 and 200; about 171 000 states |
| `lock_before_vex`, `loop_machine_check`, `save_file_error_code`, `strings_against_c` | the disagreements of section 5, a counterexample each | as the passing run of the module |

Why the bounds are enough:

* the byte samples hold 0, 0xff and one byte of each case the filter treats
  differently in that mode, among them a payload EVEX accepts, so that each
  branch of the filter is taken; four (five) positions give an EVEX prefix with
  its whole payload, and a carry over more than one byte;
* the loop's runs use two byte values and two positions: the search under them
  is checked in `search64`, here it is enough that an instruction is extended,
  cut and carried and that Done is reached. Two counter values can repeat and
  differ. `MaxRecords` bounds how many instructions the CPU makes interesting;
  `FLUSH_PERIOD` is 2 or 3 instead of 0x1000000 so that a run can
  end a period, with and without records in it; with two bytes and two positions
  hardly more than one is passed, and `LossBounded` is about any number of them;
* SaveFile has counters of one and two bytes, records with and without extra
  data, and instruction bytes that read as fields when the reader is off by one.
  The earlier contents are longer than what a run of one record writes, so
  contents left behind would show. The instances leave out counters of three and
  more bytes: `Varint` repeats the same step.

* a table of two entries has an entry that is remapped and one that must not
  change at every level; the sample of firmwares maps regions by 1 GB, 2 MB and
  4 KB pages and mixes of two, with every kind of rights above and below, with
  and without five levels and no-execute bits. The two user pages are in one page
  table, or in two that part one, two or three levels up;
* three positions let a nested exception hit a carry over two bytes, and two
  nested exceptions let the second hit the handler of the first;
* `vsnprintf`'s buffers end in the middle of, just before and just behind each kind
  of piece;
* memory has bytes of both signs, and four cells hold two strings that differ, a
  buffer they fill, and a byte behind it.

Fairness is weak fairness of the whole next-state relation. In
`InstructionSearch` and `BruteforceLoop` this says that the CPU comes back from
user mode (TF raises `#DB` after one instruction at the latest) and that the
handler, with interrupts off, runs on. Nothing says that counters ever repeat:
`StopsOrRunsAgainForEver` has that as its second case, and so permits the endless
repetition of one instruction; it says that this is the only way not to stop.
`NestedExceptions` has weak fairness of the program's and the user code's steps, and strong fairness of
`Settle`, which says that counters settle: an instruction repeated for ever is the
other run's subject. `EndsDespiteNesting` counts `undefined` as an end: that an NMI
leaves `halt()` and the handler goes on with a null `output_file` is in the model
(`ExceptionAfterHalt`), but no property excludes it. Nested exceptions are not fair;
`MaxNested` makes them finitely many. The other modules have no fairness and no liveness property.

Deadlock is not checked because all these programs stop: after Done, after a
failure, when the file cannot be opened, and Boot at the first user instruction.

## 4. Proofs

The theorems about the search, the loop and the nested exceptions hold for every
`Byte`, `MaxInstructionLength`, `MAX_PREFIXES` and `CPU_MODE` that `ByteAssumption`,
`LengthAssumption` and `FilterAssumption` allow, in particular 256 bytes and 15
positions; those about the loop for every set of counters, every period and every
CPU; those about the boot sequence for every CPU, firmware and fanout that
`BootAssumption`, `RemapAssumption` and `DescriptorAssumption` allow (the firmware's
memory is closed to user code, entries of upper levels that let it
in let it execute; tables of at least two entries), with `AbsenceAssumption` only
saying that `NoRequest` and `Unmapped` are neither requests nor translations.
Those about the file hold for every set of records, reference and earlier contents,
and all bounds, that `SaveAssumption` allows; those about the runtime for every set of
characters, arguments, texts, modes and buffer sizes that `FormatAssumption` and
`ModesAssumption` allow, and for memories of any size. Of the theorems about the
search only the one on the prefix scan looks inside the filter: the search is
correct whatever `ContainsInvalidCountOfPrefixes` and `IsCountedPrefix` answer.

* **NumberInduction**: every loop and recursive function needs induction, and the
  library's induction theorems take an operator, which the provers cannot
  instantiate. Here induction is the membership of numbers in a set
  (`LeastNumber`, `UpTo`, `UpToFromAll`), which they can. `ScanExists` and `ScanValue`
  are the same for a recursive function that goes up until it stops.

* **InstructionSearchProofs**: `SearchInv` is `TypeOK`, `ZeroTail` and `BytesKept`.
  `BytesKept` says of the two loops that the bytes before the current one are
  still those the selection started from (`origin`), that the current one has not
  gone down, and that in the `do` loop the instruction ends at the current byte.
  Without it `NeverRevisits` does not follow from a single step: the property
  compares the end of a selection with its start, many turns of the loops
  earlier. `SuccessorProperties` gets the next byte value from `ByteAssumption`.
  From `SearchInv`: `TypeCorrect`, `ZeroTailHolds`, and `SearchNeverRevisits` by
  `SelectionAdvances` (a selection that ends has moved the current byte up and
  changed none before it).
  For the refinement, `SkipInv` is `SelectionInvariant` written over the globals and
  `origin` alone, which is the form the induction needs: every value between the
  original and the present one of the current byte is rejected, and every given-up
  byte after it has nothing left to try. With it, the step to `executing` is
  `Advance`, the step to `halted` is `Exhaust`, `Extend` is `Lengthen`, and all other
  steps are stutters: `SelectionInvariantHolds` and `SearchImplementsOrder`.
  `PrefixScanStaysInside` is about `count_prefixes`, whose guard is always true: what
  keeps it inside the array is that the filter has accepted the bytes up to the
  current one (`Accepted`, a further invariant) and that zeroes follow; both are
  needed, and `MAX_PREFIXES + 4 <= MaxInstructionLength`, which the theorem assumes,
  is 5 of 15 in the code.
* **BruteforceLoopProofs**: `StepSearches` shows that every step of the loop is a
  step of the search or leaves it alone, so that the invariants and the
  refinement carry over (`LoopImplementsOrder`). `RecordInv` adds to
  `RecordsInSearchOrder` where the last record stands during a selection: not
  after `origin`. It gives `RecordsAreInSearchOrder`. `LoopScanStaysInside` carries the
  prefix scan over. `CriteriaAreSaved`: the type that the handler's assignments leave
  is set whenever one of the README's criteria is met (`ReasonsStay`: no later
  assignment takes an earlier one back to none).
  The loop's bookkeeping: `FileTypes` (records, statistics,
  the file) and `MeasureTypes` (counters and runs) are two independent type
  invariants, from which `LoopTypeCorrect` follows; `FileSteps` says in which three
  ways a step of the loop can change the file, and every later proof splits on
  these instead of on the actions. `LoopImplementsLog` is the refinement of
  RecordLog. `LossBounded` assumes `~FlushMayFail`; its invariant adds that the
  flag is set exactly when something is not durable. `StatisticsAgree` counts sets
  of record indices with the cardinality theorems of the library. `RunsMeasuredTwice`
  assumes `Intruders = {}` (a repeated run ends as the one before it did; without
  this the property is false, see `loop_machine_check`); `LastRunInv` ties
  `last_perf_counters_values` to the previous run of the same instruction.
* **NestedExceptionsProofs**: `SearchInv` of InstructionSearchProofs is kept also by
  the nested exceptions (`BrokenOffKeepsSearchInv`): the half turns leave zeroes
  behind the index, because the index moves after the byte is cleared. `NestedInv`
  says what holds at each place of `execute_instruction`: the counters are off
  before they are cleared, no run is counted from there to the entry, and after
  the copy the page ends with the current instruction. It yields all six
  theorems; `FrameIsRead` needs of the tables only that no gate but the
  breakpoint's is callable (`OnlyBreakpointCallable`).
* **BootProofs**: four small invariants, each over the variables it needs, since
  efi_main's steps rarely touch each other's. `MaskInv`: from `MaskInterrupts` on CR8
  masks. `WpInv`: where CR0.WP is clear and that `orig_cr0_wp` is the value before.
  `TlbInv`: outside remap_page the TLB holds only what the tables hold.
  `OpenInv`, `CleanInv`, `ReturnInv`: what is held at each call of open_save_file and
  allocated at each step of efi_main; of these `FileOpenedOrClosed`, which says that
  the file is empty only for a firmware that asked for a buffer (without that condition
  it is false). `GatesLeadToHandlers` and `TssIsFound` are about
  the constants only: for all addresses of handlers and TSS, taking the
  descriptors apart gives back what setup_gdt and setup_idt put in. `PhaseInv` says
  what efi_main has done by each of its phases; `OnlySkylakes` is arithmetic on the
  signature, for every value CPUID may report: the family and model that
  the look-up compares leave six signatures. With the two tables they give
  `FirstExceptionIsHandled`.
* **RemapProofs**: remap_page implements AddressSpace. It starts from the arithmetic
  of `Span` and `PtIndex` (pages that share an index at one level share it at all
  levels above; the pages of a split large page are those of its new table), all
  from `Division` and products of Fanout. `WalkEnds` gives each page the
  level where its walk ends, so that `Translate` has no CHOOSE to reason about.
  `TableInv` is the inductive invariant, and each part of it is needed:
  `IdentityMap` (a large page maps its own address) makes a split leave every
  translation alone and keeps the new entries' frames in memory; `UserRuns` (no
  entry above the last level withholds execution from user code it lets in) is why
  line 107, which does not look at the no-execute bit where execution is asked for,
  still reaches it: whoever asks for execution asks for user access too
  (`RunsAsUser`); `WalkInv` says that the levels left behind lead on and withhold
  nothing asked for, so that at line 117 the page gets exactly its rights. A step of
  the walk is then `Widen`, the write of the entry `Grant`, all else a stutter.
  What the two calls leave for the loop. `MappedInv`: a page
  that has its own entry keeps it through the walk for the other page, also when
  they share all tables or none. `UserInv`: only one entry that maps memory lets
  user code in; `NxInv`: until EFER.NXE is set one entry has the no-execute bit. From
  these `UserPagesReady` and `NoReservedBits`; `BootTypes` joins TableInv with the
  variables the tables do not know of.

* **SaveFileProofs**: first the format. `Varint` of a value is bytes that give the
  value back wherever they stand in a file and that are incomplete when cut
  (induction on the value, as membership in a set); then the same for counters,
  instructions and records, so that a file that holds a record's bytes at a position
  reads as that record there, and one that ends earlier as nothing. The code's
  writes need an invariant about places in the file, since the bytes are written in
  one step and read back in another: `SaveInv` is the types and `SavedLayout`, which
  says that the file is the first bytes of some `w` that is the encoding of the
  items saved and perhaps one more, that the flushed ones end where the disk is
  certain, and that the next is not whole; while a record is saved, `Halfway` says
  which of its writes are made and that the pending ones are the rest. Without `w`
  a write in the middle of a record could not be told from a garbled one, and
  without the record that is not whole a power cut or a failed write could be taken
  for data. From it `FileIsReadable`, `PowerCutKeepsRecords`, and, step by step,
  `FileImplementsLog`. `TypesHold` needs only the types.
* **RuntimeProofs**: `LargestModeIsSet` needs that the largest area so far is that of
  the selected mode, mode 0 before any (`ModeInv`). `StringsKeepToC` gives each recursive
  function its value (`LoopValue` for the loops), and from these each call its
  result; it leaves out just what section 5 shows broken:
  `strcmp`'s order of bytes of which one is 0x80 or above (`SignedOrder` has what
  remains true), `memcmp` of equal buffers, and the terminator of `strcat_s`.
  `TextIsPrinted`: `PrintInv` says what is left of the call at each turn: the rest of the format spells a text, the arguments left are that text's, and what is
  still to be printed is what it prints; in a directive, that the digits chosen
  so far are those the rest of the modifiers start from (`AtDirective`); while
  copying, that the rest of the piece comes first (`AtCopy`). Texts are closed under
  taking the first piece off, which is what a turn of the loop does, so this needs no
  induction over texts.

So every invariant, action property and refinement of a passing run is a theorem.
Only model-checked are the liveness properties (`SearchEnds`,
`StopsOrRunsAgainForEver`, `EndsDespiteNesting`), since the proof system does not
reach liveness under fairness, and the disagreements of section 5, which are
counterexamples.

## 5. Where code and documentation disagree

* `lock_before_vex`: the comment at `loop.c` 480 keeps LOCK (and REX) before VEX;
  with `MAX_PREFIXES` 1, line 503 rejects a VEX at index 1 before these rules
  are asked. `malformed_instruction_expect_ud` is never true.
* `loop_machine_check`: `README.md` line 18 says that an instruction is executed at
  least twice until its counters repeat. When a repeated run ends in `#MC`,
  `last_perf_counters_values` is not cleared, and the next instruction's `#UD` is
  accepted after one run if its counters equal the left-over ones.
* `save_file_error_code`: `save_file.c` 189 masks the exception number as if it
  were a bit, so no error code is ever saved.
* `strings_against_c` shows three departures of `src/string.c` in one counterexample
  (`OneStringFunctionIsC` asks for any one of the three to be kept). Line 55
  subtracts plain `char`, while C's `strcmp`, which `src/string.h` 9 declares,
  compares unsigned ones. With equal buffers line 44 subtracts the bytes behind
  them, while C's `memcmp` (`src/string.h` 8) returns 0. Strings that just fill the
  buffer are ended one behind it by line 135, in the function that says it prevents
  overflows (130).

The model has the code's behaviour in each case; the properties of the passing
runs hold with it.

Met while modelling, with no run of their own:

* `save_file.c` 91 returns what `GetInfo` answered without a buffer. The message at
  line 89 calls anything but `EFI_BUFFER_TOO_SMALL` unexpected, but `EFI_SUCCESS` is
  success for efi_main, which then goes on with a file that was not reset as
  line 112 has it. `GetInfoSize` does this, and `OpenResult` promises an empty file
  only if the firmware asked for a buffer (`size_given`).
* `README.md` line 18 says only candidates are executed again; `loop.c` 828 executes
  every `#UD` again, before the comparison with UD2 (`Settles`, `Retry`).
* `README.md` line 34 names Alder Lake among the CPUs; `src/uarch_config.c` has
  the models of Skylake and its successors on the same core only, and efi_main
  refuses an Alder Lake (`SampleCpu` has one).
* `src/save_file.c` 77 goes on with a null `output_file` after a failed `Open`; in
  OpenSaveFile what follows is `undefined`.
* `src/main.c` 49 masks the number of machine check banks with 0xf, so banks from
  16 on are not enabled (`mc_banks`); the architecture has eight bits for it.

## 6. Not modelled, and the limits of the models

Default build only (`COUNT_RETIRED`, `COUNT_XED_VS_CPU_MISMATCHES`, and
`TRACE_REMAP`, which only prints): no `COUNT_NOPS`, `NO_SAVE`,
`SAVE_REGS_ON_EXCEPTION`. Console output and statistics dumps are left out. The
program counts in 64 bits and cannot overflow in a machine's lifetime; statistics
are natural numbers.

* The stack pointer. A nested exception pushes on the handler's stack, the next
  user entry starts again at `tss.rsp0`; how deep two pages reach depends on the
  compiler's frames. Neither is the alignment that the stub makes for
  `handle_exception`.
* What a nested exception does to a record being written, and what it counts:
  `handle_exception` is one step in NestedExceptions between the entry and the
  selection.
* NMI and `#MC` in efi_main: between `lgdt` and `lidt` they find the firmware's
  gates with the program's segments.
* What is written over the old records of a file that was not emptied (status
  `not emptied` of SaveFile, `GetInfoSize` of OpenSaveFile): the
  theorems about the file are about files that were.
* PAT: an entry of RemapPage has no memory type. Bit 12 of a large page's entry
  is PAT, of a small page's an address bit; UEFI's map has it clear.
* Intel XED, which answers any length; `abort` and the stack protector, which halt;
  memcpy and memset, which are the firmware's.

What could come next: BruteforceLoop's `Save` as the sequence of SaveFile's writes
in one composition, with one proof that the two implementations of RecordLog agree;
the records of nested exceptions.
