-------------------------- MODULE NestedExceptions --------------------------
(***************************************************************************)
(* The handler interrupted: cli does not keep NMI and #MC out of kernel    *)
(* mode, and their handler is the same handle_exception, which never       *)
(* returns.  It treats the interrupted selection as an instruction that    *)
(* has been executed, selects again from whatever the globals hold, and    *)
(* enters user mode from there.                                            *)
(*                                                                         *)
(* Here are the steps between which an exception can come: the entry       *)
(* through the stub, the handler, the selection of InstructionSearch, and  *)
(* execute_instruction.  The measurement of UD2, what is recorded and the  *)
(* save file are BruteforceLoop's.  The stores of the handler are taken in *)
(* the order of the source.                                                *)
(*                                                                         *)
(* mcip_abandoned is auxiliary: an NMI came between an #MC and the         *)
(* clearing of MCIP.                                                       *)
(***************************************************************************)
EXTENDS InstructionSearch, Sequences

CONSTANTS
  TssBase, Handlers,  \* of DescriptorTables
  NoContext,
  MaxNested           \* bound: NMI and #MC that come in kernel mode

ASSUME NestedAssumption == MaxNested \in Nat

Tables == INSTANCE DescriptorTables

VARIABLES
  mode,            \* see Mode
  context,         \* the exception handle_exception looks at, or NoContext
  user_code_page,  \* the last bytes of the page, as many as an instruction has
  user_rip,        \* where user mode was entered, in the same bytes
  global_ctrl,     \* PERF_GLOBAL_CTRL enables the counters
  runs_counted,    \* entries into user mode since the counters were cleared
  mcip,            \* IA32_MCG_STATUS.MCIP
  nmi_blocked,     \* from the delivery of an NMI to the next iretq
  nested,
  mcip_abandoned

nestedVars == <<mode, context, user_code_page, user_rip, global_ctrl, runs_counted,
                mcip, nmi_blocked, nested, mcip_abandoned>>
vars == <<searchVars, nestedVars>>

Executing == {"disable counters", "clear counters", "enable counters", "copy", "enter"}
InKernel == {"machine check", "handler", "selecting"} \cup Executing

(* "undefined": the handler writes through output_file, which is NULL once *)
(* the file is closed.  "shutdown": an #MC came with MCIP set.             *)
Mode == {"user", "halted", "undefined", "shutdown"} \cup InKernel

EXCEPTION_NMI == 2
EXCEPTION_INVALID_OPCODE == 6
EXCEPTION_PAGE_FAULT == 14
EXCEPTION_MACHINE_CHECK == 18
Vector == 0 .. 21

(* The CPU's list, and the code's.                                         *)
PushesErrorCode == {8, 10, 11, 12, 13, 14, 17, 21}
EXCEPTIONS_WITH_ERROR_CODE_MASK == {8, 10, 11, 12, 13, 14, 17, 21}

(* What user code can raise: an exception of its own, or a gate that its   *)
(* privilege level lets it call, which pushes no error code.               *)
CallableGates == {v \in DOMAIN Tables!Idt : Tables!Dpl(Tables!Idt[v].flags) = 3}

UserContext ==
  [vector : Vector \ PushesErrorCode, error_code : {FALSE}, kernel : {FALSE}]
    \cup [vector : PushesErrorCode, error_code : {TRUE}, kernel : {FALSE}]
    \cup [vector : CallableGates, error_code : {FALSE}, kernel : {FALSE}]

KernelContext ==
  [vector : {EXCEPTION_NMI, EXCEPTION_MACHINE_CHECK}, error_code : {FALSE},
   kernel : {TRUE}]

(* No context is not a context.                                            *)
ASSUME ContextAssumption == NoContext \notin UserContext \cup KernelContext

Init ==
  /\ SearchInit
  /\ mode = "disable counters" /\ context = NoContext
  /\ user_code_page = [k \in Index |-> 0] /\ user_rip = 0
  /\ global_ctrl = TRUE /\ runs_counted = 1   \* the last run of UD2
  /\ mcip = FALSE /\ nmi_blocked = FALSE
  /\ nested = 0 /\ mcip_abandoned = FALSE

----------------------------------------------------------------------------
(* The CPU goes through a gate, and the stub calls handle_exception.       *)
Enters(c) ==
  /\ context' = c
  /\ mode' = IF c.vector = EXCEPTION_MACHINE_CHECK THEN "machine check" ELSE "handler"
  /\ mcip' = (mcip \/ c.vector = EXCEPTION_MACHINE_CHECK)
  /\ nmi_blocked' = (nmi_blocked \/ c.vector = EXCEPTION_NMI)

ShutsDown(vector) == mcip /\ vector = EXCEPTION_MACHINE_CHECK

Shutdown ==
  /\ mode' = "shutdown" /\ context' = NoContext
  /\ UNCHANGED <<mcip, nmi_blocked>>

(* TF is set, so user mode always ends in an exception.                    *)
UserException ==
  /\ mode = "user"
  /\ \E c \in UserContext : IF ShutsDown(c.vector) THEN Shutdown ELSE Enters(c)
  /\ UNCHANGED <<searchVars, user_code_page, user_rip, global_ctrl, runs_counted,
                 nested, mcip_abandoned>>

(* Faulty HalfTurn: the index moves first.                                 *)
HalfTurnIndexFirst ==
  IF pc = "carry" /\ instruction_bytes[cur_byte_index] = LastByte /\ cur_byte_index # 0
  THEN [bytes |-> instruction_bytes, index |-> cur_byte_index - 1]
  ELSE [bytes |-> instruction_bytes, index |-> cur_byte_index]

(* The globals in the middle of a turn of a loop: the byte is cleared and  *)
(* the index is where it was, or the byte is incremented and the filter    *)
(* has not been asked.                                                     *)
HalfTurn ==
  LET byte == instruction_bytes[cur_byte_index]
      Holding(b) == [bytes |-> [instruction_bytes EXCEPT ![cur_byte_index] = b],
                     index |-> cur_byte_index]
  IN  CASE pc = "carry" /\ byte = LastByte -> Holding(0)
        [] pc = "increment" /\ byte # LastByte -> Holding(Successor(byte))
        [] OTHER -> Holding(byte)

(* And between the two stores that start the search at the last byte.      *)
HalfBegun ==
  IF mode = "handler" /\ ~StaysOnByte
  THEN [bytes |-> instruction_bytes, index |-> cur_instruction_length - 1]
  ELSE [bytes |-> instruction_bytes, index |-> cur_byte_index]

(* NMI or #MC in kernel mode.  The interrupted code is not resumed.        *)
KernelException ==
  /\ mode \in InKernel /\ nested < MaxNested
  /\ nested' = nested + 1
  /\ \E c \in KernelContext :
       /\ c.vector = EXCEPTION_NMI => ~nmi_blocked
       /\ IF ShutsDown(c.vector) THEN Shutdown ELSE Enters(c)
       /\ mcip_abandoned' = (mcip_abandoned \/ (mode = "machine check" /\ mode' = "handler"))
  /\ \E found \in {HalfTurn, HalfBegun,
                   [bytes |-> instruction_bytes, index |-> cur_byte_index]} :
       instruction_bytes' = found.bytes /\ cur_byte_index' = found.index
  /\ pc' = "executing"
  /\ UNCHANGED <<cur_instruction_length, last_instruction_length,
                 malformed_instruction_expect_ud, origin, user_code_page, user_rip,
                 global_ctrl, runs_counted>>

(* They end hlt as well.  The handler finds the file closed.               *)
ExceptionAfterHalt ==
  /\ mode = "halted" /\ nested < MaxNested
  /\ nested' = nested + 1
  /\ \/ ~nmi_blocked /\ mode' = "undefined"
     \/ mode' = IF mcip THEN "shutdown" ELSE "undefined"
  /\ UNCHANGED <<searchVars, context, user_code_page, user_rip, global_ctrl,
                 runs_counted, mcip, nmi_blocked, mcip_abandoned>>

----------------------------------------------------------------------------
(* Faulty AckMachineCheck: MCIP stays set.                                 *)
AckNothing ==
  /\ mode = "machine check"
  /\ mode' = "handler"
  /\ UNCHANGED <<searchVars, context, user_code_page, user_rip, global_ctrl,
                 runs_counted, mcip, nmi_blocked, nested, mcip_abandoned>>

(* The banks are read and cleared, then MCIP.                              *)
AckMachineCheck ==
  /\ mode = "machine check"
  /\ mcip' = FALSE
  /\ mode' = "handler"
  /\ UNCHANGED <<searchVars, context, user_code_page, user_rip, global_ctrl,
                 runs_counted, nmi_blocked, nested, mcip_abandoned>>

(* increment_instruction_length_and_retry_exec                             *)
ExtendInstruction ==
  /\ mode = "handler" /\ ~context.kernel /\ context.vector = EXCEPTION_PAGE_FAULT
  /\ Extend
  /\ mode' = "disable counters" /\ context' = NoContext
  /\ UNCHANGED <<user_code_page, user_rip, global_ctrl, runs_counted, mcip,
                 nmi_blocked, nested, mcip_abandoned>>

(* restart_on_unstable_counters_values                                     *)
Retry ==
  /\ mode = "handler" /\ context.vector = EXCEPTION_INVALID_OPCODE
  /\ mode' = "disable counters" /\ context' = NoContext
  /\ UNCHANGED <<searchVars, user_code_page, user_rip, global_ctrl, runs_counted,
                 mcip, nmi_blocked, nested, mcip_abandoned>>

(* The instruction is dealt with, whether it was one or not.               *)
Settle ==
  /\ mode = "handler"
  /\ BeginSelect
  /\ mode' = "selecting" /\ context' = NoContext
  /\ UNCHANGED <<user_code_page, user_rip, global_ctrl, runs_counted, mcip,
                 nmi_blocked, nested, mcip_abandoned>>

SelectNext ==
  /\ mode = "selecting"
  /\ Select
  /\ mode' = CASE pc' = "executing" -> "disable counters"
               [] pc' = "halted" -> "halted"
               [] OTHER -> mode
  /\ UNCHANGED <<context, user_code_page, user_rip, global_ctrl, runs_counted, mcip,
                 nmi_blocked, nested, mcip_abandoned>>

(* Faulty ProgramCounters: the counters are not cleared.                   *)
ProgramCountersKeepsValues ==
  /\ \/ mode = "disable counters" /\ mode' = "clear counters" /\ global_ctrl' = FALSE
     \/ mode = "clear counters" /\ mode' = "enable counters" /\ UNCHANGED global_ctrl
     \/ mode = "enable counters" /\ mode' = "copy" /\ global_ctrl' = TRUE
  /\ UNCHANGED <<searchVars, context, user_code_page, user_rip, runs_counted, mcip,
                 nmi_blocked, nested, mcip_abandoned>>

(* execute_instruction: the counters off, cleared, and on.                 *)
ProgramCounters ==
  /\ \/ /\ mode = "disable counters" /\ mode' = "clear counters"
        /\ global_ctrl' = FALSE /\ UNCHANGED runs_counted
     \/ /\ mode = "clear counters" /\ mode' = "enable counters"
        /\ runs_counted' = 0 /\ UNCHANGED global_ctrl
     \/ /\ mode = "enable counters" /\ mode' = "copy"
        /\ global_ctrl' = TRUE /\ UNCHANGED runs_counted
  /\ UNCHANGED <<searchVars, context, user_code_page, user_rip, mcip, nmi_blocked,
                 nested, mcip_abandoned>>

Start == MaxInstructionLength - cur_instruction_length

(* Faulty CopyInstruction: to the start of the longest instruction.        *)
CopyToSamePlace ==
  /\ mode = "copy"
  /\ user_code_page' =
       [k \in Index |-> IF k < cur_instruction_length THEN instruction_bytes[k]
                        ELSE user_code_page[k]]
  /\ mode' = "enter"
  /\ UNCHANGED <<searchVars, context, user_rip, global_ctrl, runs_counted, mcip,
                 nmi_blocked, nested, mcip_abandoned>>

(* The instruction's last byte is the page's last byte.                    *)
CopyInstruction ==
  /\ mode = "copy"
  /\ user_code_page' =
       [k \in Index |-> IF k >= Start THEN instruction_bytes[k - Start]
                        ELSE user_code_page[k]]
  /\ mode' = "enter"
  /\ UNCHANGED <<searchVars, context, user_rip, global_ctrl, runs_counted, mcip,
                 nmi_blocked, nested, mcip_abandoned>>

(* enter_user.  The next exception starts at the top of the TSS's stack.   *)
EnterUser ==
  /\ mode = "enter"
  /\ mode' = "user" /\ user_rip' = Start
  /\ runs_counted' = runs_counted + (IF global_ctrl THEN 1 ELSE 0)
  /\ nmi_blocked' = FALSE
  /\ UNCHANGED <<searchVars, context, user_code_page, global_ctrl, mcip, nested,
                 mcip_abandoned>>

Program ==
  \/ AckMachineCheck \/ ExtendInstruction \/ Retry \/ Settle \/ SelectNext
  \/ ProgramCounters \/ CopyInstruction \/ EnterUser

Next == UserException \/ KernelException \/ ExceptionAfterHalt \/ Program

(* The program runs on, user mode always ends, and a #UD is not executed   *)
(* again for ever.                                                         *)
Spec ==
  Init /\ [][Next]_vars /\ WF_vars(UserException \/ Program) /\ SF_vars(Settle)

----------------------------------------------------------------------------
(* Types.                                                                  *)
NestedTypeOK ==
  /\ TypeOK
  /\ mode \in Mode
  /\ context \in UserContext \cup KernelContext \cup {NoContext}
  /\ mode \in {"machine check", "handler"} => context # NoContext
  /\ user_code_page \in Instruction /\ user_rip \in Index
  /\ global_ctrl \in BOOLEAN /\ runs_counted \in Nat
  /\ mcip \in BOOLEAN /\ nmi_blocked \in BOOLEAN /\ mcip_abandoned \in BOOLEAN
  /\ nested \in 0 .. MaxNested

(* struct context, lowest address first: what the stub and the CPU pushed, *)
(* and what the handler takes for the CS of the interrupted code.          *)
Pushed(c) ==
  <<"exception_number">> \o (IF c.error_code THEN <<"error_code">> ELSE <<>>)
    \o <<"rip", "cs", "rflags", "rsp", "ss">>

ReadAsCs(c) ==
  Pushed(c)[IF c.vector \in EXCEPTIONS_WITH_ERROR_CODE_MASK THEN 4 ELSE 3]

(* The handler tells user from kernel mode by the CS the CPU pushed,       *)
(* however the exception was raised: no gate that user code can call is    *)
(* one whose exception has an error code.                                  *)
FrameRead == context # NoContext => ReadAsCs(context) = "cs"

(* Whatever the selection left when it was interrupted, user mode is only  *)
(* entered with nothing behind the current byte that Extend could pick up. *)
ZeroTailInUser == mode = "user" => ZeroTail

(* What runs is what the handler will record: the page ends with the       *)
(* current instruction and nothing of another is before its end.           *)
RunsWhatItRecords ==
  mode = "user" \/ (context # NoContext /\ ~context.kernel) =>
    /\ user_rip + cur_instruction_length = MaxInstructionLength
    /\ \A k \in 0 .. cur_instruction_length - 1 :
         user_code_page[user_rip + k] = instruction_bytes[k]

(* The counters read after an exception of user code are those of one run, *)
(* also when an execute_instruction was abandoned half way before it.      *)
CountersOfOneRun ==
  mode \in {"machine check", "handler"} /\ ~context.kernel => runs_counted = 1

(* User code runs with MCIP clear, so that a second #MC does not shut the  *)
(* CPU down, unless an NMI has hit the handler of an #MC: its own handler  *)
(* does not return to the clearing.                                        *)
McipRearmed == mode = "user" /\ mcip => mcip_abandoned

(* Selections that start again do not keep the search from ending, as long *)
(* as the exceptions in kernel mode are finitely many.                     *)
EndsDespiteNesting == <>(mode \in {"halted", "undefined", "shutdown"})
=============================================================================
