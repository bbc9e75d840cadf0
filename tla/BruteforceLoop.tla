--------------------------- MODULE BruteforceLoop ---------------------------
(***************************************************************************)
(* The exception-driven main loop.  Nothing here is a loop in the C code:  *)
(* execute_instruction leaves for user mode and never returns, the CPU     *)
(* comes back with an exception, and handle_exception runs to the next     *)
(* execute_instruction.  So one step is one exception, from its entry to   *)
(* the next entry into user mode, except that the selection of the next    *)
(* instruction is made of InstructionSearch's steps.                       *)
(*                                                                         *)
(* A call that executes again from the middle of the handler (execute_ud,  *)
(* increment_instruction_length_and_retry_exec and                         *)
(* restart_on_unstable_counters_values) abandons the rest of it.           *)
(*                                                                         *)
(* previous is auxiliary: the last execution of the instruction that is    *)
(* being executed, if it has been executed before.                         *)
(***************************************************************************)
EXTENDS InstructionSearch, Sequences, FiniteSets

CONSTANTS
  Counters,        \* the values the performance counters may show after a run
  ZeroCounters,    \* all of them 0, as before anything has run
  NoRun,           \* "not executed yet"
  FLUSH_PERIOD,    \* 0x1000000 in the code
  Intruders,       \* exceptions a repeated run may raise instead of the first one's
  FlushMayFail,    \* may Flush of the file return an error?
  MaxRecords       \* bound: instructions the CPU makes worth saving

ASSUME LoopAssumption ==
  /\ ZeroCounters \notin Counters   \* a run issues at least one micro-op
  /\ FLUSH_PERIOD \in Nat \ {0} /\ MaxRecords \in Nat
  /\ FlushMayFail \in BOOLEAN

VARIABLES
  measuring_ud, ud_perf_counters_values, last_perf_counters_values,
  unique_instructions_executed, instructions_saved,
  type_counters,   \* kernel_exceptions, machine_checks, ...: one per type
  flush_required,
  output_file,     \* the records written, in order
  file_open,       \* output_file # NULL; closing it is always followed by halt()
  durable,         \* how many of the records have reached the disk
  previous

measureVars == <<measuring_ud, ud_perf_counters_values>>
saveVars == <<unique_instructions_executed, instructions_saved, type_counters,
              flush_required, output_file, file_open, durable>>
runVars == <<last_perf_counters_values, previous>>
vars == <<searchVars, measureVars, saveVars, runVars>>

InterestingType ==
  {"KERNEL_EXCEPTION", "KERNEL_PAGE_FAULT", "MACHINE_CHECK", "UNDOCUMENTED_UD",
   "UNDOCUMENTED_NOT_UD", "VEX_MALFORMED_BUT_ACCEPTED", "XED_LENGTH_MISMATCH"}

Exception == {"#UD", "#PF", "#MC", "other"}

(* What the handler looks at in the context and CR2: the vector, the       *)
(* privilege level of CS, whether an instruction fetch faulted just after  *)
(* the code page, and whether PF_USER is clear in the error code.          *)
Context ==
  {c \in [exception : Exception, kernel : BOOLEAN, past_end : BOOLEAN,
          supervisor : BOOLEAN] :
     /\ c.past_end => c.exception = "#PF" /\ ~c.kernel /\ ~c.supervisor
     /\ c.supervisor => c.exception = "#PF"}

(* No run is not a run.                                                    *)
ASSUME RunAssumption == NoRun \notin [context : Context, counters : Counters]

Record == [exception : Exception, counters : Counters, type : InterestingType,
           length : Length, bytes : Instruction]

Init ==
  /\ SearchInit
  /\ measuring_ud = TRUE
  /\ ud_perf_counters_values = ZeroCounters
  /\ last_perf_counters_values = ZeroCounters
  /\ unique_instructions_executed = 0
  /\ instructions_saved = 0
  /\ type_counters = [t \in InterestingType |-> 0]
  /\ flush_required = FALSE
  /\ output_file = <<>>
  /\ file_open = TRUE
  /\ durable = 0
  /\ previous = NoRun

----------------------------------------------------------------------------
(* The CPU raises an exception: which, and with which counters, is its     *)
(* choice, but the same instruction raises the same exception, unless an   *)
(* intruder comes first.                                                   *)
Raises(context) ==
  /\ file_open
  /\ pc = "executing"
  /\ previous # NoRun =>
       context = previous.context \/ context.exception \in Intruders

(* Faulty CloseAndHalt: halt() without close_save_file.                    *)
HaltOnly == file_open' = FALSE /\ UNCHANGED durable

(* close_save_file: the firmware writes out what it holds, then halt().    *)
CloseAndHalt ==
  /\ file_open' = FALSE
  /\ durable' = Len(output_file')

(* check_ud2_measurements: the values differ from the last run's.          *)
MeasureUd2Again(context, cur) ==
  /\ measuring_ud
  /\ Raises(context) /\ context.exception = "#UD"
  /\ cur # ud_perf_counters_values
  /\ ud_perf_counters_values' = cur
  /\ UNCHANGED <<searchVars, measuring_ud, saveVars, runVars>>

(* The values repeat: save them and start the search, or fail to save.     *)
Ud2Measured(context, cur) ==
  /\ measuring_ud
  /\ Raises(context) /\ context.exception = "#UD"
  /\ cur = ud_perf_counters_values
  /\ measuring_ud' = FALSE
  /\ \/ UNCHANGED saveVars
     \/ /\ UNCHANGED <<unique_instructions_executed, instructions_saved,
                       type_counters, flush_required, output_file>>
        /\ CloseAndHalt
  /\ UNCHANGED <<searchVars, ud_perf_counters_values, runVars>>

(* UD2 raised something else.                                              *)
Ud2Unexpected(context) ==
  /\ measuring_ud
  /\ Raises(context) /\ context.exception # "#UD"
  /\ UNCHANGED <<searchVars, measureVars, runVars, unique_instructions_executed,
                 instructions_saved, type_counters, flush_required, output_file>>
  /\ CloseAndHalt

(* increment_instruction_length_and_retry_exec, when it does not return.   *)
NeedsMoreBytes(context) ==
  context.past_end /\ cur_instruction_length < MaxInstructionLength

ExtendInstruction(context) ==
  /\ ~measuring_ud
  /\ Raises(context) /\ NeedsMoreBytes(context)
  /\ Extend
  /\ previous' = NoRun
  /\ UNCHANGED <<measureVars, saveVars, last_perf_counters_values>>

(* restart_on_unstable_counters_values, when it does not return.           *)
Retry(context, cur) ==
  /\ ~measuring_ud
  /\ Raises(context) /\ context.exception = "#UD"
  /\ cur # last_perf_counters_values
  /\ last_perf_counters_values' = cur
  /\ previous' = [context |-> context, counters |-> cur]
  /\ UNCHANGED <<searchVars, measureVars, saveVars>>

(* Faulty InstructionType: a #UD that is not undocumented is not           *)
(* interesting, whatever its length.                                       *)
InstructionTypeForgetsLength(context, cur, disasm_length) ==
  LET known == disasm_length # 0
      by_privilege == IF context.kernel THEN "KERNEL_EXCEPTION" ELSE "NOT_INTERESTING"
      by_length == IF known /\ cur_instruction_length # disasm_length
                   THEN "XED_LENGTH_MISMATCH" ELSE by_privilege
      by_access == IF context.supervisor THEN "KERNEL_PAGE_FAULT" ELSE by_length
  IN  CASE context.exception = "#MC" -> "MACHINE_CHECK"
        [] context.exception = "#UD" ->
             IF ~known /\ cur # ud_perf_counters_values
             THEN "UNDOCUMENTED_UD" ELSE "NOT_INTERESTING"
        [] OTHER -> IF known THEN by_access ELSE "UNDOCUMENTED_NOT_UD"

(* instruction_type as check_last_instruction leaves it: later assignments *)
(* win.  disasm_length is what XED says, 0 for an unknown instruction.     *)
InstructionType(context, cur, disasm_length) ==
  LET known == disasm_length # 0
      by_privilege == IF context.kernel THEN "KERNEL_EXCEPTION" ELSE "NOT_INTERESTING"
      by_prefix == IF malformed_instruction_expect_ud /\ context.exception # "#UD"
                   THEN "VEX_MALFORMED_BUT_ACCEPTED" ELSE by_privilege
      by_length == IF known /\ cur_instruction_length # disasm_length
                   THEN "XED_LENGTH_MISMATCH" ELSE by_prefix
      by_access == IF context.supervisor THEN "KERNEL_PAGE_FAULT" ELSE by_length
  IN  CASE context.exception = "#MC" -> "MACHINE_CHECK"
        [] context.exception = "#UD" ->
             IF ~known /\ cur # ud_perf_counters_values
             THEN "UNDOCUMENTED_UD" ELSE by_length
        [] OTHER -> IF known THEN by_access ELSE "UNDOCUMENTED_NOT_UD"

(* Faulty Settles: the values are kept for the next instruction.           *)
SettlesKeepsValues(context, cur) ==
  /\ ~measuring_ud
  /\ Raises(context) /\ ~NeedsMoreBytes(context)
  /\ context.exception = "#UD" => cur = last_perf_counters_values
  /\ UNCHANGED last_perf_counters_values
  /\ previous' = NoRun

(* The handler gets past its restarts: the instruction is dealt with.  An  *)
(* accepted #UD clears the values the next one is compared with.           *)
Settles(context, cur) ==
  /\ ~measuring_ud
  /\ Raises(context) /\ ~NeedsMoreBytes(context)
  /\ context.exception = "#UD" => cur = last_perf_counters_values
  /\ last_perf_counters_values' = IF context.exception = "#UD" THEN ZeroCounters
                                  ELSE last_perf_counters_values
  /\ previous' = NoRun

(* Faulty CountAndFlush: flush_required is cleared without a flush.        *)
CountAndForget(dirty) ==
  /\ unique_instructions_executed' = unique_instructions_executed + 1
  /\ flush_required' = FALSE
  /\ IF unique_instructions_executed' % FLUSH_PERIOD = 0 /\ dirty
     THEN durable' = Len(output_file')
     ELSE UNCHANGED durable

(* Count the instruction, and once in FLUSH_PERIOD flush what is written.  *)
(* The result of the flush is not looked at.                               *)
CountAndFlush(dirty) ==
  /\ unique_instructions_executed' = unique_instructions_executed + 1
  /\ IF unique_instructions_executed' % FLUSH_PERIOD = 0 /\ dirty
     THEN /\ flush_required' = FALSE
          /\ durable' \in {Len(output_file')} \cup
                            (IF FlushMayFail THEN {durable} ELSE {})
     ELSE flush_required' = dirty /\ UNCHANGED durable

PassOver(context, cur, disasm_length) ==
  /\ Settles(context, cur)
  /\ InstructionType(context, cur, disasm_length) = "NOT_INTERESTING"
  /\ UNCHANGED <<measureVars, type_counters, instructions_saved, output_file, file_open>>
  /\ CountAndFlush(flush_required)
  /\ BeginSelect

Save(context, cur, disasm_length) ==
  LET type == InstructionType(context, cur, disasm_length) IN
  /\ Settles(context, cur)
  /\ type # "NOT_INTERESTING" /\ Len(output_file) < MaxRecords
  /\ type_counters' = [type_counters EXCEPT ![type] = @ + 1]
  /\ output_file' = Append(output_file,
       [exception |-> context.exception, counters |-> cur, type |-> type,
        length |-> cur_instruction_length, bytes |-> instruction_bytes])
  /\ instructions_saved' = instructions_saved + 1
  /\ CountAndFlush(TRUE)
  /\ BeginSelect
  /\ UNCHANGED <<measureVars, file_open>>

(* Faulty SaveFails: the failure is not noticed.                           *)
SaveFailsGoesOn(context, cur, disasm_length) ==
  LET type == InstructionType(context, cur, disasm_length) IN
  /\ Settles(context, cur)
  /\ type # "NOT_INTERESTING" /\ Len(output_file) < MaxRecords
  /\ type_counters' = [type_counters EXCEPT ![type] = @ + 1]
  /\ BeginSelect
  /\ UNCHANGED <<measureVars, instructions_saved, output_file, file_open>>
  /\ CountAndFlush(TRUE)

(* A write fails: the record is not complete, the program stops.           *)
SaveFails(context, cur, disasm_length) ==
  LET type == InstructionType(context, cur, disasm_length) IN
  /\ Settles(context, cur)
  /\ type # "NOT_INTERESTING" /\ Len(output_file) < MaxRecords
  /\ type_counters' = [type_counters EXCEPT ![type] = @ + 1]
  /\ UNCHANGED <<searchVars, measureVars, unique_instructions_executed,
                 instructions_saved, flush_required, output_file>>
  /\ CloseAndHalt

(* Faulty SelectNext: Done without close_save_file and halt.               *)
SelectNextLeavesOpen ==
  /\ file_open
  /\ Select
  /\ UNCHANGED <<saveVars, measureVars, runVars>>

(* The selection, and Done when it finds nothing left.                     *)
SelectNext ==
  /\ file_open
  /\ Select
  /\ IF pc' = "halted"
     THEN /\ UNCHANGED <<unique_instructions_executed, instructions_saved,
                         type_counters, flush_required, output_file>>
          /\ CloseAndHalt
     ELSE UNCHANGED saveVars
  /\ UNCHANGED <<measureVars, runVars>>

(* What XED can answer for the instruction.                                *)
DisasmLength == 0 .. cur_instruction_length

ReExecute == \E context \in Context, cur \in Counters :
               MeasureUd2Again(context, cur) \/ Retry(context, cur)

LoopNext ==
  \/ ReExecute
  \/ SelectNext
  \/ \E context \in Context :
       \/ Ud2Unexpected(context)
       \/ ExtendInstruction(context)
       \/ \E cur \in Counters :
            \/ Ud2Measured(context, cur)
            \/ \E disasm_length \in DisasmLength :
                 \/ PassOver(context, cur, disasm_length)
                 \/ Save(context, cur, disasm_length)
                 \/ SaveFails(context, cur, disasm_length)

(* An entry into user mode always ends in an exception (TF is set), and    *)
(* the handler runs on with interrupts off.                                *)
Spec == Init /\ [][LoopNext]_vars /\ WF_vars(LoopNext)

----------------------------------------------------------------------------
(* Types of the loop's variables.                                          *)
LoopTypeOK ==
  /\ TypeOK
  /\ measuring_ud \in BOOLEAN
  /\ ud_perf_counters_values \in Counters \cup {ZeroCounters}
  /\ last_perf_counters_values \in Counters \cup {ZeroCounters}
  /\ unique_instructions_executed \in Nat
  /\ instructions_saved \in Nat
  /\ type_counters \in [InterestingType -> Nat]
  /\ flush_required \in BOOLEAN
  /\ output_file \in Seq(Record)
  /\ file_open \in BOOLEAN
  /\ durable \in 0 .. Len(output_file)
  /\ previous \in [context : Context, counters : Counters] \cup {NoRun}

(* The records come in the order of the search: no instruction is in the   *)
(* file twice, whatever was retried, extended or cut between, and none is  *)
(* written that the search has not reached.                                *)
RecordsInSearchOrder ==
  /\ \A i, j \in 1 .. Len(output_file) :
       i < j => LexLess(output_file[i].bytes, output_file[j].bytes)
  /\ pc = "executing" /\ file_open =>
       \A i \in 1 .. Len(output_file) :
         LexLess(output_file[i].bytes, instruction_bytes)

(* The statistics agree with the file: each type was counted as often as   *)
(* it was saved, plus the one whose saving failed and stopped the program. *)
Saved(type) == {i \in 1 .. Len(output_file) : output_file[i].type = type}

StatisticsMatchFile ==
  /\ instructions_saved = Len(output_file)
  /\ \A t \in InterestingType : type_counters[t] >= Cardinality(Saved(t))
  /\ file_open => \A t \in InterestingType :
                    type_counters[t] = Cardinality(Saved(t))

(* While the flushes succeed, flush_required is set exactly when something *)
(* written is not on the disk, and a power cut loses at most the records   *)
(* of the last, unfinished period of FLUSH_PERIOD instructions.            *)
UnfinishedPeriod == unique_instructions_executed % FLUSH_PERIOD

LossIsBounded ==
  file_open => /\ flush_required <=> durable < Len(output_file)
               /\ Len(output_file) - durable <= UnfinishedPeriod

(* The loop implements the record log: whatever is repeated, fails or ends *)
(* the session, records are only ever added at the end, one at a time, and *)
(* a session that ends leaves none of them unflushed.                      *)
SessionLog == INSTANCE RecordLog WITH
  log <- output_file, flushed <- durable, open <- file_open

ImplementsLog == SessionLog!LogSpec

(* README: the instruction is executed "at least two times until the       *)
(* performance counter values from the last run match the results from the *)
(* previous one".  No #UD is recorded with values of a single run.         *)
LastRecord == output_file'[Len(output_file')]

MeasuredTwice ==
  [][(Len(output_file') > Len(output_file) /\ LastRecord.exception = "#UD")
     => previous # NoRun /\ previous.counters = LastRecord.counters]_vars

(* README, Filtering Criteria: what must be in the file.  The handler      *)
(* assigns instruction_type up to five times; no assignment may undo the   *)
(* reason another one had.                                                 *)
MeetsCriteria(context, cur, disasm_length) ==
  \/ /\ context.exception = "#UD"
     /\ cur # ud_perf_counters_values
     /\ disasm_length # cur_instruction_length
  \/ context.kernel
  \/ context.exception = "#MC"

SavesWhatMeetsCriteria ==
  [][\A context \in Context, cur \in Counters, disasm_length \in DisasmLength :
       PassOver(context, cur, disasm_length)
         => ~MeetsCriteria(context, cur, disasm_length)]_vars

(* The program stops, after Done or a failure, unless some instruction, or *)
(* UD2 itself, is executed again for ever because its values never repeat. *)
StopsOrRunsAgainForEver == <>~file_open \/ []<><<ReExecute>>_vars
=============================================================================
