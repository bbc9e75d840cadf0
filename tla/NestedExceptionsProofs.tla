----------------------- MODULE NestedExceptionsProofs -----------------------
(***************************************************************************)
(* Theorems about the interrupted handler, for every number of exceptions  *)
(* in kernel mode, wherever they come.                                     *)
(***************************************************************************)
EXTENDS NestedExceptions, InstructionSearchProofs

(* A step of the program is a step of the search or leaves the search      *)
(* alone; only an exception in kernel mode breaks off a selection.         *)
LEMMA StepSearches ==
  ASSUME [Next]_vars PROVE KernelException \/ [SearchNext]_searchVars
<1>1. CASE UserException
  BY <1>1 DEF UserException
<1>2. CASE ExceptionAfterHalt
  BY <1>2 DEF ExceptionAfterHalt
<1>3. CASE AckMachineCheck \/ Retry \/ ProgramCounters \/ CopyInstruction \/ EnterUser
  BY <1>3 DEF AckMachineCheck, Retry, ProgramCounters, CopyInstruction, EnterUser
<1>4. CASE ExtendInstruction \/ Settle \/ SelectNext
  BY <1>4 DEF ExtendInstruction, Settle, SelectNext, SearchNext
<1>5. CASE UNCHANGED vars
  BY <1>5 DEF vars
<1> QED
  BY <1>1, <1>2, <1>3, <1>4, <1>5 DEF Next, Program

(* What an exception in kernel mode leaves of the selection is something   *)
(* the next selection can start from: the bytes behind the current one are *)
(* 0 in the middle of a turn as well.                                      *)
LEMMA BrokenOffKeepsSearchInv ==
  ASSUME SearchInv, KernelException PROVE SearchInv'
<1> DEFINE whole == [bytes |-> instruction_bytes, index |-> cur_byte_index]
<1> USE LengthAssumption
<1>t. TypeOK /\ ZeroTail
  BY DEF SearchInv
<1>1. PICK found \in {HalfTurn, HalfBegun, whole} :
        instruction_bytes' = found.bytes /\ cur_byte_index' = found.index
  BY DEF KernelException
<1>2. /\ pc' = "executing"
      /\ UNCHANGED <<cur_instruction_length, last_instruction_length,
                     malformed_instruction_expect_ud, origin>>
  BY DEF KernelException
<1>3. \/ instruction_bytes' = instruction_bytes
      \/ \E b \in Byte :
           instruction_bytes' = [instruction_bytes EXCEPT ![cur_byte_index] = b]
  <2>1. ASSUME found = HalfTurn
        PROVE  \E b \in Byte :
                 instruction_bytes' = [instruction_bytes EXCEPT ![cur_byte_index] = b]
    <3> DEFINE byte == instruction_bytes[cur_byte_index]
    <3>1. byte \in Byte
      BY <1>t DEF TypeOK, Instruction
    <3>2. CASE pc = "carry" /\ byte = LastByte
      BY <1>1, <2>1, <3>2, ZeroAndLast DEF HalfTurn
    <3>3. CASE pc = "increment" /\ byte # LastByte
      BY <1>1, <2>1, <3>1, <3>3, SuccessorProperties DEF HalfTurn
    <3>4. CASE ~(pc = "carry" /\ byte = LastByte) /\ ~(pc = "increment" /\ byte # LastByte)
      BY <1>1, <2>1, <3>1, <3>4 DEF HalfTurn
    <3> QED
      BY <3>2, <3>3, <3>4
  <2>2. ASSUME found # HalfTurn
        PROVE  instruction_bytes' = instruction_bytes
    BY <1>1, <2>2 DEF HalfBegun
  <2> QED
    BY <2>1, <2>2
<1>4. cur_byte_index' \in {cur_byte_index, cur_instruction_length - 1}
  BY <1>1 DEF HalfTurn, HalfBegun
<1>5. cur_byte_index' \in Index /\ cur_byte_index <= cur_byte_index'
      /\ cur_byte_index' < cur_instruction_length
  BY <1>4, <1>t DEF TypeOK, ZeroTail, Index, Length
<1>6. instruction_bytes' \in Instruction
  BY <1>3, <1>t DEF TypeOK, Instruction
<1>7. TypeOK'
  BY <1>2, <1>5, <1>6, <1>t DEF TypeOK, PC
<1>8. ASSUME NEW j \in Index, j > cur_byte_index'
      PROVE  instruction_bytes'[j] = 0
  <2>1. j > cur_byte_index
    BY <1>5, <1>8, <1>t DEF TypeOK, Index
  <2>2. instruction_bytes'[j] = instruction_bytes[j]
    BY <1>3, <1>t, <2>1 DEF TypeOK, Instruction, Index
  <2> QED
    BY <1>t, <2>1, <2>2 DEF ZeroTail
<1>9. ZeroTail'
  BY <1>2, <1>5, <1>8 DEF ZeroTail
<1> QED
  BY <1>2, <1>7, <1>9 DEF SearchInv, BytesKept

LEMMA NextKeepsSearchInv == SearchInv /\ [Next]_vars => SearchInv'
  BY StepSearches, BrokenOffKeepsSearchInv, NextSearchInv

----------------------------------------------------------------------------
(* The types of the variables beside the search's.                         *)
NestedTypes ==
  /\ mode \in Mode
  /\ context \in UserContext \cup KernelContext \cup {NoContext}
  /\ mode \in {"machine check", "handler"} => context # NoContext
  /\ user_code_page \in Instruction /\ user_rip \in Index
  /\ global_ctrl \in BOOLEAN /\ runs_counted \in Nat
  /\ mcip \in BOOLEAN /\ nmi_blocked \in BOOLEAN /\ mcip_abandoned \in BOOLEAN
  /\ nested \in 0 .. MaxNested

(* Where the counters stand at each step of execute_instruction, and after *)
(* user code has run: an abandoned execute_instruction leaves them at any  *)
(* of these, and the next one clears them while they do not count.         *)
CountersInv ==
  /\ mode = "clear counters" => ~global_ctrl
  /\ mode = "enable counters" => runs_counted = 0
  /\ mode \in {"copy", "enter"} => runs_counted = 0 /\ global_ctrl
  /\ mode = "user" => runs_counted = 1
  /\ mode \in {"machine check", "handler"} /\ ~context.kernel => runs_counted = 1

(* MCIP is set in the handler of an #MC before the clearing, or for good   *)
(* if that was abandoned.                                                  *)
McipInv ==
  mode \in InKernel \cup {"user"} /\ mcip => mcip_abandoned \/ mode = "machine check"

(* The page holds the current instruction from the copy to the end of the  *)
(* handling of its exception.                                              *)
PageHolds(start) ==
  \A k \in 0 .. cur_instruction_length - 1 :
    user_code_page[start + k] = instruction_bytes[k]

PageInv ==
  /\ mode = "enter" => PageHolds(Start)
  /\ mode = "user" \/ (context # NoContext /\ ~context.kernel) =>
       user_rip = Start /\ PageHolds(user_rip)
  /\ mode \in {"user", "enter", "selecting"} \cup Executing => context = NoContext

NestedInv == NestedTypes /\ CountersInv /\ McipInv /\ PageInv

LEMMA StartInIndex == TypeOK => Start \in Index
  BY LengthAssumption DEF TypeOK, Length, Index, Start

LEMMA InitNestedInv == Init => NestedInv
<1> SUFFICES ASSUME Init PROVE NestedInv
  OBVIOUS
<1>1. user_code_page \in Instruction
  BY ZeroAndLast DEF Init, Instruction
<1>2. user_rip \in Index /\ nested \in 0 .. MaxNested
  <2>1. user_rip = 0 /\ nested = 0
    BY DEF Init
  <2> QED
    BY <2>1, LengthAssumption, NestedAssumption DEF Index
<1>3. mode \in Mode /\ mode \notin {"machine check", "handler"} /\ context = NoContext
  BY DEF Init, Mode, InKernel, Executing
<1>4. NestedTypes
  BY <1>1, <1>2, <1>3 DEF Init, NestedTypes
<1> QED
  BY <1>3, <1>4 DEF Init, NestedInv, CountersInv, McipInv, PageInv

(* An exception enters the handler, or shuts the CPU down.                 *)
LEMMA EntersKinds ==
  ASSUME NestedTypes, NEW c \in UserContext \cup KernelContext,
         IF ShutsDown(c.vector) THEN Shutdown ELSE Enters(c)
  PROVE  \/ /\ mode' \in {"machine check", "handler"} /\ context' = c
            /\ mcip' \in BOOLEAN /\ nmi_blocked' \in BOOLEAN
            /\ mcip' => mcip \/ mode' = "machine check"
         \/ mode' = "shutdown" /\ context' = NoContext
            /\ mcip' = mcip /\ nmi_blocked' = nmi_blocked
<1>1. CASE ShutsDown(c.vector)
  BY <1>1 DEF Shutdown
<1>2. CASE ~ShutsDown(c.vector)
  BY <1>2 DEF Enters, NestedTypes
<1> QED
  BY <1>1, <1>2

LEMMA UserExceptionKeeps ==
  ASSUME TypeOK, NestedInv, UserException PROVE NestedInv'
<1>1. PICK c \in UserContext : IF ShutsDown(c.vector) THEN Shutdown ELSE Enters(c)
  BY DEF UserException
<1>2. /\ mode = "user"
      /\ UNCHANGED <<searchVars, user_code_page, user_rip, global_ctrl, runs_counted,
                     nested, mcip_abandoned>>
  BY DEF UserException
<1>3. c # NoContext /\ c \in UserContext \cup KernelContext
  BY ContextAssumption
<1>4. runs_counted = 1 /\ user_rip = Start /\ PageHolds(user_rip)
      /\ (mcip => mcip_abandoned)
  BY <1>2 DEF NestedInv, CountersInv, PageInv, McipInv
<1>5. Start' = Start /\ PageHolds(user_rip)'
  BY <1>2, <1>4 DEF Start, PageHolds, searchVars
<1>6. CASE mode' = "shutdown" /\ context' = NoContext
  <2>1. mcip' \in BOOLEAN /\ nmi_blocked' \in BOOLEAN
    BY <1>1, <1>3, EntersKinds DEF NestedInv, NestedTypes
  <2> QED
    BY <1>2, <1>6, <2>1 DEF NestedInv, NestedTypes, CountersInv, McipInv, PageInv, Mode,
                            InKernel, Executing
<1>7. CASE mode' \in {"machine check", "handler"} /\ context' = c
  <2>1. /\ mcip' \in BOOLEAN /\ nmi_blocked' \in BOOLEAN
        /\ mcip' => mcip \/ mode' = "machine check"
    BY <1>1, <1>3, <1>7, EntersKinds DEF NestedInv
  <2>2. NestedTypes'
    BY <1>2, <1>3, <1>7, <2>1 DEF NestedInv, NestedTypes, Mode, InKernel
  <2>3. CountersInv'
    BY <1>2, <1>4, <1>7 DEF CountersInv
  <2>4. McipInv'
    BY <1>2, <1>4, <1>7, <2>1 DEF McipInv
  <2>5. PageInv'
    BY <1>2, <1>4, <1>5, <1>7 DEF PageInv, Executing
  <2> QED
    BY <2>2, <2>3, <2>4, <2>5 DEF NestedInv
<1> QED
  BY <1>1, <1>3, <1>6, <1>7, EntersKinds DEF NestedInv

LEMMA KernelExceptionKeeps ==
  ASSUME NestedInv, KernelException PROVE NestedInv'
<1>1. PICK c \in KernelContext :
        /\ IF ShutsDown(c.vector) THEN Shutdown ELSE Enters(c)
        /\ mcip_abandoned' = (mcip_abandoned \/ (mode = "machine check" /\ mode' = "handler"))
  BY DEF KernelException
<1>2. /\ mode \in InKernel /\ nested < MaxNested /\ nested' = nested + 1
      /\ UNCHANGED <<user_code_page, user_rip, global_ctrl, runs_counted>>
  BY DEF KernelException
<1>3. c # NoContext /\ c \in UserContext \cup KernelContext /\ c.kernel
  BY ContextAssumption DEF KernelContext
<1>4. nested' \in 0 .. MaxNested /\ mcip_abandoned' \in BOOLEAN
  <2>1. nested' \in 0 .. MaxNested
    <3>1. nested \in 0 .. MaxNested /\ MaxNested \in Nat
      BY NestedAssumption DEF NestedInv, NestedTypes
    <3> QED
      BY <1>2, <3>1
  <2>2. mcip_abandoned' \in BOOLEAN
    BY <1>1, Zenon
  <2> QED
    BY <2>1, <2>2
<1>5. CASE mode' = "shutdown" /\ context' = NoContext
  <2>1. mcip' \in BOOLEAN /\ nmi_blocked' \in BOOLEAN
    BY <1>1, <1>3, EntersKinds DEF NestedInv, NestedTypes
  <2> QED
    BY <1>2, <1>4, <1>5, <2>1 DEF NestedInv, NestedTypes, CountersInv, McipInv, PageInv,
                                  Mode, InKernel, Executing
<1>6. CASE mode' \in {"machine check", "handler"} /\ context' = c
  <2>1. /\ mcip' \in BOOLEAN /\ nmi_blocked' \in BOOLEAN
        /\ mcip' => mcip \/ mode' = "machine check"
    BY <1>1, <1>3, <1>6, EntersKinds DEF NestedInv
  <2>2. NestedTypes'
    BY <1>2, <1>3, <1>4, <1>6, <2>1 DEF NestedInv, NestedTypes, Mode, InKernel
  <2>3. CountersInv'
    BY <1>3, <1>6 DEF CountersInv
  <2>4. McipInv'
    BY <1>1, <1>2, <1>6, <2>1 DEF McipInv, NestedInv
  <2>5. PageInv'
    BY <1>3, <1>6 DEF PageInv, Executing
  <2> QED
    BY <2>2, <2>3, <2>4, <2>5 DEF NestedInv
<1> QED
  BY <1>1, <1>3, <1>5, <1>6, EntersKinds DEF NestedInv

LEMMA ExceptionAfterHaltKeeps ==
  ASSUME NestedInv, ExceptionAfterHalt PROVE NestedInv'
<1>1. mode' \in {"undefined", "shutdown"} /\ nested' \in 0 .. MaxNested
  BY NestedAssumption DEF ExceptionAfterHalt, NestedInv, NestedTypes
<1>2. NestedTypes' /\ CountersInv' /\ McipInv'
  BY <1>1 DEF ExceptionAfterHalt, NestedInv, NestedTypes, CountersInv, McipInv, Mode,
              InKernel, Executing
<1>3. PageInv'
  <2>1. UNCHANGED <<searchVars, context, user_code_page, user_rip>>
    BY DEF ExceptionAfterHalt
  <2>2. Start' = Start /\ (PageHolds(user_rip) => PageHolds(user_rip)')
    BY <2>1 DEF Start, PageHolds, searchVars
  <2> QED
    BY <1>1, <2>1, <2>2 DEF NestedInv, PageInv, Executing
<1> QED
  BY <1>2, <1>3 DEF NestedInv

(* From the handler's last word about an exception to the entry into user  *)
(* mode there is no context.                                               *)
LEMMA HandlerKeeps ==
  ASSUME NestedInv,
         AckMachineCheck \/ ExtendInstruction \/ Retry \/ Settle \/ SelectNext
  PROVE  NestedInv'
<1>1. CASE AckMachineCheck
  <2>1. UNCHANGED <<searchVars, context, user_code_page, user_rip>>
        /\ mode = "machine check" /\ mode' = "handler" /\ mcip' = FALSE
    BY <1>1 DEF AckMachineCheck
  <2>2. Start' = Start /\ (PageHolds(user_rip) => PageHolds(user_rip)')
    BY <2>1 DEF Start, PageHolds, searchVars
  <2>3. PageInv'
    BY <2>1, <2>2 DEF NestedInv, PageInv, Executing
  <2> QED
    BY <1>1, <2>3 DEF AckMachineCheck, NestedInv, NestedTypes, CountersInv, McipInv, Mode,
                      InKernel
<1>2. CASE ExtendInstruction \/ Retry \/ Settle \/ SelectNext
  <2>1. /\ mode \in {"handler", "selecting"}
        /\ mode' \in {"disable counters", "selecting", "halted"}
        /\ context' = NoContext
        /\ UNCHANGED <<user_code_page, user_rip, global_ctrl, runs_counted, mcip,
                       nmi_blocked, nested, mcip_abandoned>>
    BY <1>2 DEF ExtendInstruction, Retry, Settle, SelectNext, NestedInv, PageInv
  <2> QED
    BY <2>1 DEF NestedInv, NestedTypes, CountersInv, McipInv, PageInv, Mode, InKernel,
                Executing
<1> QED
  BY <1>1, <1>2

LEMMA ExecuteInstructionKeeps ==
  ASSUME TypeOK, NestedInv, ProgramCounters \/ CopyInstruction \/ EnterUser
  PROVE  NestedInv'
<1>1. UNCHANGED <<searchVars, context, mcip, nested, mcip_abandoned>>
      /\ mode \in Executing
  BY DEF ProgramCounters, CopyInstruction, EnterUser, Executing
<1>2. context = NoContext /\ context' = NoContext
  BY <1>1 DEF NestedInv, PageInv
<1>3. Start' = Start /\ cur_instruction_length' = cur_instruction_length
      /\ instruction_bytes' = instruction_bytes
  BY <1>1 DEF Start, searchVars
<1>4. CASE ProgramCounters
  <2>1. mode' \in {"clear counters", "enable counters", "copy"}
        /\ UNCHANGED <<user_code_page, user_rip, nmi_blocked>>
    BY <1>4 DEF ProgramCounters
  <2>2. NestedTypes'
    <3>1. global_ctrl' \in BOOLEAN /\ runs_counted' \in Nat
      <4>1. global_ctrl \in BOOLEAN /\ runs_counted \in Nat
        BY DEF NestedInv, NestedTypes
      <4>2. global_ctrl' \in {FALSE, TRUE, global_ctrl}
        BY <1>4 DEF ProgramCounters
      <4>3. runs_counted' \in {0, runs_counted}
        BY <1>4 DEF ProgramCounters
      <4>4. global_ctrl' \in BOOLEAN
        BY <4>1, <4>2, Zenon
      <4>5. runs_counted' \in Nat
        BY <4>1, <4>3
      <4> QED
        BY <4>4, <4>5
    <3>2. mode' \in Mode /\ mode' \notin {"machine check", "handler"}
      BY <2>1 DEF Mode, InKernel, Executing
    <3> QED
      BY <1>1, <2>1, <3>1, <3>2 DEF NestedInv, NestedTypes
  <2>3. CountersInv'
    BY <1>4 DEF ProgramCounters, NestedInv, CountersInv
  <2>4. McipInv' /\ PageInv'
    BY <1>1, <1>2, <2>1 DEF NestedInv, McipInv, PageInv, InKernel, Executing
  <2> QED
    BY <2>2, <2>3, <2>4 DEF NestedInv
<1>5. CASE CopyInstruction
  <2>1. /\ mode = "copy" /\ mode' = "enter"
        /\ UNCHANGED <<user_rip, global_ctrl, runs_counted, nmi_blocked>>
        /\ user_code_page' = [k \in Index |-> IF k >= Start THEN instruction_bytes[k - Start]
                                              ELSE user_code_page[k]]
    BY <1>5 DEF CopyInstruction
  <2>2. user_code_page' \in Instruction
    <3>1. ASSUME NEW k \in Index, k >= Start PROVE k - Start \in Index
      BY <3>1, StartInIndex, LengthAssumption DEF Index
    <3> QED
      BY <2>1, <3>1 DEF NestedInv, NestedTypes, TypeOK, Instruction
  <2>3. PageHolds(Start)'
    <3>1. ASSUME NEW k \in 0 .. cur_instruction_length - 1
          PROVE  user_code_page'[Start + k] = instruction_bytes[k]
      <4>1. Start + k \in Index /\ Start + k >= Start /\ (Start + k) - Start = k
        BY LengthAssumption DEF TypeOK, Start, Index, Length
      <4> QED
        BY <2>1, <4>1
    <3> QED
      BY <1>3, <3>1 DEF PageHolds
  <2>4. NestedTypes'
    BY <1>1, <1>2, <2>1, <2>2 DEF NestedInv, NestedTypes, Mode, InKernel, Executing
  <2>5. CountersInv' /\ McipInv' /\ PageInv'
    BY <1>1, <1>2, <2>1, <2>3 DEF NestedInv, CountersInv, McipInv, PageInv, InKernel,
                                  Executing
  <2> QED
    BY <2>4, <2>5 DEF NestedInv
<1>6. CASE EnterUser
  <2>1. /\ mode = "enter" /\ mode' = "user" /\ user_rip' = Start
        /\ UNCHANGED <<user_code_page, global_ctrl>> /\ nmi_blocked' = FALSE
        /\ runs_counted = 0 /\ global_ctrl
    BY <1>6 DEF EnterUser, NestedInv, CountersInv
  <2>2. runs_counted' = 1
    BY <1>6, <2>1 DEF EnterUser
  <2>3. PageHolds(user_rip)'
    BY <1>3, <2>1 DEF NestedInv, PageInv, PageHolds
  <2>4. NestedTypes'
    BY <1>1, <1>2, <2>1, <2>2, StartInIndex DEF NestedInv, NestedTypes, Mode
  <2>5. CountersInv' /\ McipInv' /\ PageInv'
    BY <1>1, <1>2, <1>3, <2>1, <2>2, <2>3 DEF NestedInv, CountersInv, McipInv, PageInv,
                                              InKernel, Executing
  <2> QED
    BY <2>4, <2>5 DEF NestedInv
<1> QED
  BY <1>4, <1>5, <1>6

LEMMA NextNestedInv == SearchInv /\ NestedInv /\ [Next]_vars => NestedInv'
<1> SUFFICES ASSUME SearchInv, NestedInv, [Next]_vars PROVE NestedInv'
  OBVIOUS
<1>1. TypeOK
  BY DEF SearchInv
<1>2. CASE UNCHANGED vars
  <2>1. UNCHANGED <<searchVars, nestedVars>>
    BY <1>2 DEF vars
  <2>2. Start' = Start /\ (PageHolds(Start) => PageHolds(Start)')
        /\ (PageHolds(user_rip) => PageHolds(user_rip)')
    BY <2>1 DEF Start, PageHolds, searchVars, nestedVars
  <2>3. NestedTypes'
    BY <2>1 DEF nestedVars, NestedInv, NestedTypes
  <2>4. CountersInv' /\ McipInv'
    BY <2>1 DEF nestedVars, NestedInv, CountersInv, McipInv
  <2>5. PageInv'
    BY <2>1, <2>2 DEF nestedVars, NestedInv, PageInv
  <2> QED
    BY <2>3, <2>4, <2>5 DEF NestedInv
<1> QED
  BY <1>1, <1>2, UserExceptionKeeps, KernelExceptionKeeps, ExceptionAfterHaltKeeps,
     HandlerKeeps, ExecuteInstructionKeeps DEF Next, Program

----------------------------------------------------------------------------
LEMMA NestedInvariant == Spec => [](SearchInv /\ NestedInv)
<1>1. Init => SearchInv
  BY InitSearchInv DEF Init
<1> QED
  BY <1>1, InitNestedInv, NextKeepsSearchInv, NextNestedInv, PTL DEF Spec

(* The types hold wherever the handler is interrupted: no index leaves     *)
(* instruction_bytes because a selection was broken off.                   *)
THEOREM NestedTypeCorrect == Spec => []NestedTypeOK
<1>1. SearchInv /\ NestedInv => NestedTypeOK
  BY DEF SearchInv, NestedInv, NestedTypes, NestedTypeOK
<1> QED
  BY <1>1, NestedInvariant, PTL

(* User mode is entered with zeroes behind the current byte.               *)
THEOREM ZeroTailDespiteNesting == Spec => []ZeroTailInUser
<1>1. SearchInv => ZeroTailInUser
  BY DEF SearchInv, ZeroTailInUser
<1> QED
  BY <1>1, NestedInvariant, PTL

(* What runs is what the handler will record.                              *)
THEOREM PageHoldsInstruction == Spec => []RunsWhatItRecords
<1>1. SearchInv /\ NestedInv => RunsWhatItRecords
  <2> SUFFICES ASSUME TypeOK, NestedInv,
                      mode = "user" \/ (context # NoContext /\ ~context.kernel)
               PROVE  /\ user_rip + cur_instruction_length = MaxInstructionLength
                      /\ PageHolds(user_rip)
    BY DEF SearchInv, RunsWhatItRecords, PageHolds
  <2>1. user_rip = Start /\ PageHolds(user_rip)
    BY DEF NestedInv, PageInv
  <2> QED
    BY <2>1, LengthAssumption DEF TypeOK, Length, Start
<1> QED
  BY <1>1, NestedInvariant, PTL

(* The counters read after an exception of user code are those of one run. *)
THEOREM CountersAreOfOneRun == Spec => []CountersOfOneRun
<1>1. NestedInv => CountersOfOneRun
  BY DEF NestedInv, CountersInv, CountersOfOneRun
<1> QED
  BY <1>1, NestedInvariant, PTL

(* MCIP is clear in user mode unless an NMI hit the handler of an #MC.     *)
THEOREM McipIsRearmed == Spec => []McipRearmed
<1>1. NestedInv => McipRearmed
  BY DEF NestedInv, McipInv, McipRearmed
<1> QED
  BY <1>1, NestedInvariant, PTL

----------------------------------------------------------------------------
(* The breakpoint's gate is the only one that user code may call.          *)
LEMMA OnlyBreakpointCallable == CallableGates \subseteq {3}
<1> SUFFICES ASSUME NEW v \in DOMAIN Tables!Idt, v # 3
             PROVE  Tables!Dpl(Tables!Idt[v].flags) # 3
  BY DEF CallableGates
<1>1. Tables!Idt[v].flags = 36608
  BY DEF Tables!Idt, Tables!Gate, Tables!GDT_PRESENT, Tables!IDT_TRAP_GATE
<1>2. (36608 \div 2^13) % 4 = 0
  OBVIOUS
<1> QED
  BY <1>1, <1>2 DEF Tables!Dpl

(* Where CS stands in what is pushed.                                      *)
LEMMA CsInFrame ==
  ASSUME NEW c, c.error_code <=> c.vector \in EXCEPTIONS_WITH_ERROR_CODE_MASK
  PROVE  ReadAsCs(c) = "cs"
<1> DEFINE frame == <<"rip", "cs", "rflags", "rsp", "ss">>
<1>1. CASE c.error_code
  <2>1. Pushed(c) = <<"exception_number">> \o <<"error_code">> \o frame
    BY <1>1, Zenon DEF Pushed
  <2>2. (<<"exception_number">> \o <<"error_code">> \o frame)[4] = "cs"
    OBVIOUS
  <2> QED
    BY <1>1, <2>1, <2>2, Zenon DEF ReadAsCs
<1>2. CASE ~c.error_code
  <2>1. Pushed(c) = <<"exception_number">> \o <<>> \o frame
    BY <1>2, Zenon DEF Pushed
  <2>2. (<<"exception_number">> \o <<>> \o frame)[3] = "cs"
    OBVIOUS
  <2> QED
    BY <1>2, <2>1, <2>2, Zenon DEF ReadAsCs
<1> QED
  BY <1>1, <1>2

(* The handler finds CS in the frame, also of an exception user code has   *)
(* raised by calling a gate: none of those it can call has an error code.  *)
THEOREM FrameIsRead == Spec => []FrameRead
<1>1. ASSUME NEW c \in UserContext \cup KernelContext
      PROVE  c.error_code <=> c.vector \in EXCEPTIONS_WITH_ERROR_CODE_MASK
  <2>1. ASSUME c.error_code = FALSE, c.vector \notin PushesErrorCode
        PROVE  c.error_code <=> c.vector \in EXCEPTIONS_WITH_ERROR_CODE_MASK
    BY <2>1 DEF PushesErrorCode, EXCEPTIONS_WITH_ERROR_CODE_MASK
  <2>2. ASSUME c.error_code = TRUE, c.vector \in PushesErrorCode
        PROVE  c.error_code <=> c.vector \in EXCEPTIONS_WITH_ERROR_CODE_MASK
    BY <2>2 DEF PushesErrorCode, EXCEPTIONS_WITH_ERROR_CODE_MASK
  <2>3. CASE c \in KernelContext
    <3>1. c.error_code = FALSE /\ c.vector \in {2, 18}
      BY <2>3 DEF KernelContext, EXCEPTION_NMI, EXCEPTION_MACHINE_CHECK
    <3>2. c.vector \notin PushesErrorCode
      BY <3>1 DEF PushesErrorCode
    <3> QED
      BY <2>1, <3>1, <3>2
  <2>4. CASE c \in UserContext
    <3>1. CASE c \in [vector : Vector \ PushesErrorCode, error_code : {FALSE}, kernel : {FALSE}]
      BY <2>1, <3>1
    <3>2. CASE c \in [vector : PushesErrorCode, error_code : {TRUE}, kernel : {FALSE}]
      BY <2>2, <3>2
    <3>3. CASE c \in [vector : CallableGates, error_code : {FALSE}, kernel : {FALSE}]
      <4>1. c.error_code = FALSE /\ c.vector = 3
        BY <3>3, OnlyBreakpointCallable
      <4>2. c.vector \notin PushesErrorCode
        BY <4>1 DEF PushesErrorCode
      <4> QED
        BY <2>1, <4>1, <4>2
    <3> QED
      BY <2>4, <3>1, <3>2, <3>3 DEF UserContext
  <2> QED
    BY <2>3, <2>4
<1>2. NestedInv => FrameRead
  BY <1>1, CsInFrame DEF NestedInv, NestedTypes, FrameRead
<1> QED
  BY <1>2, NestedInvariant, PTL
=============================================================================
