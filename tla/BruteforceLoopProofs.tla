------------------------ MODULE BruteforceLoopProofs ------------------------
(***************************************************************************)
(* Theorems about the main loop, for every CPU: whatever exceptions and    *)
(* counters come back, and in whatever order.                              *)
(***************************************************************************)
EXTENDS BruteforceLoop, InstructionSearchProofs, FiniteSetTheorems

(* A step of the loop is a step of the search or leaves the search alone:  *)
(* retries, measurements and failures do not disturb it.                   *)
LEMMA StepSearches == [LoopNext]_vars => [SearchNext]_searchVars
<1> SUFFICES ASSUME [LoopNext]_vars PROVE [SearchNext]_searchVars
  OBVIOUS
<1>1. CASE ReExecute
  BY <1>1 DEF ReExecute, MeasureUd2Again, Retry
<1>2. CASE SelectNext
  BY <1>2 DEF SelectNext, SearchNext
<1>3. ASSUME NEW context \in Context, Ud2Unexpected(context)
      PROVE  [SearchNext]_searchVars
  BY <1>3 DEF Ud2Unexpected
<1>4. ASSUME NEW context \in Context, ExtendInstruction(context)
      PROVE  [SearchNext]_searchVars
  BY <1>4 DEF ExtendInstruction, SearchNext
<1>5. ASSUME NEW context \in Context, NEW cur \in Counters, Ud2Measured(context, cur)
      PROVE  [SearchNext]_searchVars
  BY <1>5 DEF Ud2Measured
<1>6. ASSUME NEW context \in Context, NEW cur \in Counters,
             NEW disasm_length \in DisasmLength,
             \/ PassOver(context, cur, disasm_length)
             \/ Save(context, cur, disasm_length)
             \/ SaveFails(context, cur, disasm_length)
      PROVE  [SearchNext]_searchVars
  BY <1>6 DEF PassOver, Save, SaveFails, SearchNext
<1>7. CASE UNCHANGED vars
  BY <1>7 DEF vars
<1> QED
  BY <1>1, <1>2, <1>3, <1>4, <1>5, <1>6, <1>7 DEF LoopNext

(* The loop keeps the invariants of the search.                            *)
LEMMA LoopSearchInvariant == Spec => [](SearchInv /\ SkipInv)
<1>1. Init => SearchInv /\ SkipInv
  BY InitSearchInv, InitSkipInv DEF Init
<1>2. SearchInv /\ SkipInv /\ [LoopNext]_vars => (SearchInv /\ SkipInv)'
  BY StepSearches, NextSearchInv, NextSkipInv
<1> QED
  BY <1>1, <1>2, PTL DEF Spec

(* The whole program gives the CPU the candidates of the abstract order,   *)
(* although most exceptions restart or abandon the handler.                *)
THEOREM LoopImplementsOrder == Spec => ImplementsOrder
<1>1. Init => Order!OrderInit
  BY InitRefines DEF Init
<1>2. SearchInv /\ SkipInv /\ [LoopNext]_vars => [Order!OrderNext]_Order!orderVars
  BY StepSearches, NextRefines
<1> QED
  BY <1>1, <1>2, LoopSearchInvariant, PTL DEF Spec, ImplementsOrder, Order!OrderSpec

----------------------------------------------------------------------------
(* The order of the candidates is transitive.                              *)
LEMMA LexLessTransitive ==
  ASSUME NEW a \in Instruction, NEW b \in Instruction, NEW c \in Instruction,
         LexLess(a, b), LexLess(b, c)
  PROVE  LexLess(a, c)
<1>1. PICK k \in Index : a[k] < b[k] /\ \A j \in 0 .. k - 1 : a[j] = b[j]
  BY DEF LexLess
<1>2. PICK m \in Index : b[m] < c[m] /\ \A j \in 0 .. m - 1 : b[j] = c[j]
  BY DEF LexLess
<1>3. k \in Int /\ m \in Int /\ 0 <= k /\ 0 <= m
  BY DEF Index
<1>4. \A i \in Index : a[i] \in Int /\ b[i] \in Int /\ c[i] \in Int
  BY ByteIsInt DEF Instruction
<1>5. CASE k < m
  <2>1. b[k] = c[k]
    BY <1>2, <1>3, <1>5
  <2>2. \A j \in 0 .. k - 1 : a[j] = c[j]
    BY <1>1, <1>2, <1>3, <1>5
  <2> QED
    BY <1>1, <2>1, <2>2 DEF LexLess
<1>6. CASE k = m
  <2>1. a[k] < c[k]
    BY <1>1, <1>2, <1>4, <1>6
  <2>2. \A j \in 0 .. k - 1 : a[j] = c[j]
    BY <1>1, <1>2, <1>3, <1>6
  <2> QED
    BY <2>1, <2>2 DEF LexLess
<1>7. CASE m < k
  <2>1. a[m] = b[m]
    BY <1>1, <1>3, <1>7
  <2>2. \A j \in 0 .. m - 1 : a[j] = c[j]
    BY <1>1, <1>2, <1>3, <1>7
  <2> QED
    BY <1>2, <2>1, <2>2 DEF LexLess
<1> QED
  BY <1>3, <1>5, <1>6, <1>7

(* What is written was executed before what is executed now; during a      *)
(* selection the last of it may be what the selection started from.        *)
RecordInv ==
  /\ output_file \in Seq(Record)
  /\ \A i, j \in 1 .. Len(output_file) :
       i < j => LexLess(output_file[i].bytes, output_file[j].bytes)
  /\ pc = "executing" /\ file_open =>
       \A i \in 1 .. Len(output_file) : LexLess(output_file[i].bytes, instruction_bytes)
  /\ pc \in {"carry", "increment"} =>
       \A i \in 1 .. Len(output_file) :
         output_file[i].bytes = origin.bytes \/ LexLess(output_file[i].bytes, origin.bytes)

LEMMA InstructionTypeRange ==
  ASSUME NEW context, NEW cur, NEW disasm_length
  PROVE  InstructionType(context, cur, disasm_length)
           \in InterestingType \cup {"NOT_INTERESTING"}
<1> DEFINE Types == InterestingType \cup {"NOT_INTERESTING"}
           known == disasm_length # 0
           by_privilege == IF context.kernel THEN "KERNEL_EXCEPTION" ELSE "NOT_INTERESTING"
           by_prefix == IF malformed_instruction_expect_ud /\ context.exception # "#UD"
                        THEN "VEX_MALFORMED_BUT_ACCEPTED" ELSE by_privilege
           by_length == IF known /\ cur_instruction_length # disasm_length
                        THEN "XED_LENGTH_MISMATCH" ELSE by_prefix
           by_access == IF context.supervisor THEN "KERNEL_PAGE_FAULT" ELSE by_length
           by_ud == IF ~known /\ cur # ud_perf_counters_values
                    THEN "UNDOCUMENTED_UD" ELSE by_length
           by_known == IF known THEN by_access ELSE "UNDOCUMENTED_NOT_UD"
<1>1. by_prefix \in Types
  BY Zenon DEF InterestingType
<1>2. by_length \in Types
  <2> HIDE DEF by_prefix
  <2> QED  BY <1>1, Zenon DEF InterestingType
<1>3. by_ud \in Types /\ by_known \in Types /\ "MACHINE_CHECK" \in Types
  <2> HIDE DEF by_length
  <2> QED  BY <1>2, Zenon DEF InterestingType
<1>4. InstructionType(context, cur, disasm_length) =
        CASE context.exception = "#MC" -> "MACHINE_CHECK"
          [] context.exception = "#UD" -> by_ud
          [] OTHER -> by_known
  BY Zenon DEF InstructionType
<1> HIDE DEF Types, by_ud, by_known
<1> QED
  BY <1>3, <1>4 DEF Types

(* A step that leaves the file alone and, if it executes something else,   *)
(* executes what a selection has found.                                    *)
LEMMA RecordInvKept ==
  ASSUME SearchInv, RecordInv, [SearchNext]_searchVars,
         output_file' = output_file, file_open' => file_open,
         pc = "executing" => pc' = "executing" /\ instruction_bytes' = instruction_bytes
  PROVE  RecordInv'
<1>1. \A i \in 1 .. Len(output_file) : output_file[i].bytes \in Instruction
  <2> TAKE i \in 1 .. Len(output_file)
  <2>1. output_file[i] \in Record
    BY DEF RecordInv
  <2> QED
    BY <2>1, Zenon DEF Record
<1>2. origin.bytes \in Instruction /\ instruction_bytes' \in Instruction
  BY NextSearchInv DEF SearchInv, TypeOK, Origin
<1>3. CASE pc = "executing"
  BY <1>3 DEF RecordInv
<1>4. CASE pc # "executing" /\ pc' = "executing"
  <2>1. pc \in {"carry", "increment"}
    BY <1>4 DEF SearchNext, Select, searchVars, Extend, BeginSelect, Carry,
                Finish, EndCarry, Overflow, Increment
  <2>2. LexLess(origin.bytes, instruction_bytes')
    BY <1>4, SelectionAdvances
  <2>3. \A i \in 1 .. Len(output_file) : LexLess(output_file[i].bytes, instruction_bytes')
    BY <1>1, <1>2, <2>1, <2>2, LexLessTransitive DEF RecordInv
  <2> QED
    BY <1>4, <2>3 DEF RecordInv
<1>5. CASE pc # "executing" /\ pc' # "executing"
  <2>1. origin' = origin
    BY <1>5 DEF SearchNext, Select, searchVars, Extend, BeginSelect, Carry,
                Finish, EndCarry, Overflow, Increment
  <2>2. pc' \in {"carry", "increment"} => pc \in {"carry", "increment"}
    BY <1>5 DEF SearchNext, Select, searchVars, Extend, BeginSelect, Carry,
                Finish, EndCarry, Overflow, Increment
  <2> QED
    BY <1>5, <2>1, <2>2 DEF RecordInv
<1> QED
  BY <1>3, <1>4, <1>5

(* The step that starts a selection after writing the instruction, or not. *)
LEMMA RecordInvBeginSelect ==
  ASSUME SearchInv, RecordInv, BeginSelect, file_open,
         \/ output_file' = output_file
         \/ \E r \in Record : /\ r.bytes = instruction_bytes
                              /\ output_file' = Append(output_file, r)
  PROVE  RecordInv'
<1>1. pc = "executing" /\ pc' # "executing" /\ origin'.bytes = instruction_bytes
  BY DEF BeginSelect
<1>2. output_file \in Seq(Record)
  BY DEF RecordInv
<1>3. CASE output_file' = output_file
  BY <1>1, <1>3 DEF RecordInv
<1>4. ASSUME NEW r \in Record, r.bytes = instruction_bytes,
             output_file' = Append(output_file, r)
      PROVE  RecordInv'
  <2>1. /\ output_file' \in Seq(Record)
        /\ Len(output_file) \in Nat
        /\ Len(output_file') = Len(output_file) + 1
        /\ \A i \in 1 .. Len(output_file) : output_file'[i] = output_file[i]
        /\ output_file'[Len(output_file) + 1] = r
    BY <1>2, <1>4
  <2>2. \A i \in 1 .. Len(output_file) : LexLess(output_file[i].bytes, r.bytes)
    BY <1>1, <1>4 DEF RecordInv
  <2>3. ASSUME NEW i \in 1 .. Len(output_file'), NEW j \in 1 .. Len(output_file'), i < j
        PROVE  LexLess(output_file'[i].bytes, output_file'[j].bytes)
    <3>1. i \in 1 .. Len(output_file)
      BY <2>1, <2>3
    <3>2. CASE j = Len(output_file) + 1
      BY <2>1, <2>2, <3>1, <3>2
    <3>3. CASE j \in 1 .. Len(output_file)
      BY <2>1, <2>3, <3>1, <3>3 DEF RecordInv
    <3> QED
      BY <2>1, <3>2, <3>3
  <2>4. ASSUME NEW i \in 1 .. Len(output_file')
        PROVE  \/ output_file'[i].bytes = origin'.bytes
               \/ LexLess(output_file'[i].bytes, origin'.bytes)
    <3>1. CASE i = Len(output_file) + 1
      BY <1>1, <1>4, <2>1, <3>1
    <3>2. CASE i \in 1 .. Len(output_file)
      BY <1>1, <1>4, <2>1, <2>2, <3>2
    <3> QED
      BY <2>1, <3>1, <3>2
  <2> QED
    BY <1>1, <2>1, <2>3, <2>4 DEF RecordInv
<1> QED
  BY <1>3, <1>4

LEMMA NextRecordInv == SearchInv /\ RecordInv /\ [LoopNext]_vars => RecordInv'
<1> SUFFICES ASSUME SearchInv, RecordInv, [LoopNext]_vars PROVE RecordInv'
  OBVIOUS
<1>s. [SearchNext]_searchVars
  BY StepSearches
<1>1. CASE ReExecute
  BY <1>1, <1>s, RecordInvKept DEF ReExecute, MeasureUd2Again, Retry, searchVars, saveVars
<1>2. CASE SelectNext
  <2>1. output_file' = output_file /\ (file_open' => file_open)
    BY <1>2 DEF SelectNext, saveVars
  <2>2. pc # "executing"
    BY <1>2 DEF SelectNext, Select, Carry, Finish, EndCarry, Overflow, Increment
  <2> QED
    BY <1>s, <2>1, <2>2, RecordInvKept
<1>3. ASSUME NEW context \in Context, Ud2Unexpected(context)
      PROVE  RecordInv'
  BY <1>3, <1>s, RecordInvKept DEF Ud2Unexpected, CloseAndHalt, searchVars
<1>4. ASSUME NEW context \in Context, ExtendInstruction(context)
      PROVE  RecordInv'
  BY <1>4, <1>s, RecordInvKept DEF ExtendInstruction, Extend, saveVars
<1>5. ASSUME NEW context \in Context, NEW cur \in Counters, Ud2Measured(context, cur)
      PROVE  RecordInv'
  BY <1>5, <1>s, RecordInvKept DEF Ud2Measured, CloseAndHalt, searchVars, saveVars
<1>6. ASSUME NEW context \in Context, NEW cur \in Counters,
             NEW disasm_length \in DisasmLength,
             PassOver(context, cur, disasm_length)
      PROVE  RecordInv'
  BY <1>6, RecordInvBeginSelect DEF PassOver, Settles, Raises
<1>7. ASSUME NEW context \in Context, NEW cur \in Counters,
             NEW disasm_length \in DisasmLength,
             Save(context, cur, disasm_length)
      PROVE  RecordInv'
  <2> DEFINE type == InstructionType(context, cur, disasm_length)
             r == [exception |-> context.exception, counters |-> cur, type |-> type,
                   length |-> cur_instruction_length, bytes |-> instruction_bytes]
  <2>1. type \in InterestingType
    BY <1>7, InstructionTypeRange DEF Save
  <2>2. context.exception \in Exception
    BY DEF Context
  <2>3. r \in Record
    BY <2>1, <2>2 DEF Record, SearchInv, TypeOK
  <2>4. output_file' = Append(output_file, r) /\ BeginSelect /\ file_open
    BY <1>7 DEF Save, Settles, Raises
  <2>5. r.bytes = instruction_bytes
    OBVIOUS
  <2> HIDE DEF r
  <2> QED
    BY <2>3, <2>4, <2>5, RecordInvBeginSelect
<1>8. ASSUME NEW context \in Context, NEW cur \in Counters,
             NEW disasm_length \in DisasmLength,
             SaveFails(context, cur, disasm_length)
      PROVE  RecordInv'
  BY <1>8, <1>s, RecordInvKept DEF SaveFails, CloseAndHalt, searchVars
<1>9. CASE UNCHANGED vars
  BY <1>9, <1>s, RecordInvKept DEF vars, searchVars, saveVars
<1> QED
  BY <1>1, <1>2, <1>3, <1>4, <1>5, <1>6, <1>7, <1>8, <1>9 DEF LoopNext

(* No instruction is in the file twice, and the records are in the order   *)
(* of the search.                                                          *)
THEOREM RecordsAreInSearchOrder == Spec => []RecordsInSearchOrder
<1>1. Init => RecordInv
  BY DEF Init, SearchInit, RecordInv
<1>2. SearchInv /\ RecordInv /\ [LoopNext]_vars => RecordInv'
  BY NextRecordInv
<1>3. RecordInv => RecordsInSearchOrder
  BY DEF RecordInv, RecordsInSearchOrder
<1> QED
  BY <1>1, <1>2, <1>3, LoopSearchInvariant, PTL DEF Spec
----------------------------------------------------------------------------
(* What the main loop does to its file: the types, the statistics, the     *)
(* flushes, the record log, and the second measurement before a #UD is     *)
(* recorded.                                                               *)

(* What a step can do to the file and what is counted about it.  The rest  *)
(* of a step, the search and the measurements, does not reach these        *)
(* variables.                                                              *)
KeepsFile == UNCHANGED saveVars

Stops ==
  /\ file_open
  /\ UNCHANGED <<unique_instructions_executed, instructions_saved, flush_required,
                 output_file>>
  /\ \/ UNCHANGED type_counters
     \/ \E t \in InterestingType :
          type_counters' = [type_counters EXCEPT ![t] = @ + 1]
  /\ CloseAndHalt

Counts ==
  /\ file_open
  /\ UNCHANGED <<type_counters, instructions_saved, output_file, file_open>>
  /\ CountAndFlush(flush_required)

Writes(r) ==
  /\ file_open /\ UNCHANGED file_open
  /\ type_counters' = [type_counters EXCEPT ![r.type] = @ + 1]
  /\ output_file' = Append(output_file, r)
  /\ instructions_saved' = instructions_saved + 1
  /\ CountAndFlush(TRUE)

LEMMA FileSteps ==
  ASSUME SearchInv, [LoopNext]_vars
  PROVE  KeepsFile \/ Stops \/ Counts \/ \E r \in Record : Writes(r)
<1>1. CASE ReExecute
  BY <1>1 DEF ReExecute, MeasureUd2Again, Retry, KeepsFile
<1>2. CASE SelectNext
  BY <1>2 DEF SelectNext, KeepsFile, Stops
<1>3. ASSUME NEW context \in Context, Ud2Unexpected(context)
      PROVE  Stops
  BY <1>3 DEF Ud2Unexpected, Raises, Stops
<1>4. ASSUME NEW context \in Context, ExtendInstruction(context)
      PROVE  KeepsFile
  BY <1>4 DEF ExtendInstruction, KeepsFile
<1>5. ASSUME NEW context \in Context, NEW cur \in Counters, Ud2Measured(context, cur)
      PROVE  KeepsFile \/ Stops
  BY <1>5 DEF Ud2Measured, Raises, KeepsFile, Stops
<1>6. ASSUME NEW context \in Context, NEW cur \in Counters,
             NEW disasm_length \in DisasmLength,
             PassOver(context, cur, disasm_length)
      PROVE  Counts
  BY <1>6 DEF PassOver, Settles, Raises, Counts
<1>7. ASSUME NEW context \in Context, NEW cur \in Counters,
             NEW disasm_length \in DisasmLength,
             Save(context, cur, disasm_length)
      PROVE  \E r \in Record : Writes(r)
  <2> DEFINE type == InstructionType(context, cur, disasm_length)
             r == [exception |-> context.exception, counters |-> cur, type |-> type,
                   length |-> cur_instruction_length, bytes |-> instruction_bytes]
  <2>1. type \in InterestingType
    BY <1>7, InstructionTypeRange DEF Save
  <2>2. context.exception \in Exception
    BY DEF Context
  <2>3. r \in Record
    BY <2>1, <2>2 DEF Record, SearchInv, TypeOK
  <2>4. r.type = type
    OBVIOUS
  <2>5. /\ file_open /\ UNCHANGED file_open
        /\ type_counters' = [type_counters EXCEPT ![type] = @ + 1]
        /\ output_file' = Append(output_file, r)
        /\ instructions_saved' = instructions_saved + 1
        /\ CountAndFlush(TRUE)
    BY <1>7 DEF Save, Settles, Raises
  <2> HIDE DEF r, type
  <2> QED
    BY <2>3, <2>4, <2>5 DEF Writes
<1>8. ASSUME NEW context \in Context, NEW cur \in Counters,
             NEW disasm_length \in DisasmLength,
             SaveFails(context, cur, disasm_length)
      PROVE  Stops
  <2>1. InstructionType(context, cur, disasm_length) \in InterestingType
    BY <1>8, InstructionTypeRange DEF SaveFails
  <2> QED
    BY <1>8, <2>1 DEF SaveFails, Settles, Raises, Stops
<1>9. CASE UNCHANGED vars
  BY <1>9 DEF vars, KeepsFile
<1> QED
  BY <1>1, <1>2, <1>3, <1>4, <1>5, <1>6, <1>7, <1>8, <1>9 DEF LoopNext

----------------------------------------------------------------------------
(* The types of these variables.                                           *)
FileTypes ==
  /\ unique_instructions_executed \in Nat
  /\ instructions_saved \in Nat
  /\ type_counters \in [InterestingType -> Nat]
  /\ flush_required \in BOOLEAN
  /\ output_file \in Seq(Record)
  /\ file_open \in BOOLEAN
  /\ durable \in 0 .. Len(output_file)

LEMMA InitFileTypes == Init => FileTypes
<1> SUFFICES ASSUME Init PROVE FileTypes
  OBVIOUS
<1>1. output_file = <<>> /\ durable = 0
  BY DEF Init
<1>2. output_file \in Seq(Record) /\ durable \in 0 .. Len(output_file)
  BY <1>1
<1> QED
  BY <1>2 DEF Init, FileTypes

(* What CountAndFlush leaves.                                              *)
LEMMA FlushTypes ==
  ASSUME FileTypes, NEW dirty \in BOOLEAN, CountAndFlush(dirty),
         output_file' \in Seq(Record), Len(output_file) <= Len(output_file')
  PROVE  /\ unique_instructions_executed' \in Nat
         /\ flush_required' \in BOOLEAN
         /\ durable' \in {durable, Len(output_file')}
         /\ durable' \in 0 .. Len(output_file')
<1>1. durable' \in {durable, Len(output_file')}
  BY DEF CountAndFlush
<1>2. Len(output_file) \in Nat /\ Len(output_file') \in Nat /\ durable \in Nat
      /\ durable <= Len(output_file)
  BY DEF FileTypes
<1>3. durable' \in 0 .. Len(output_file')
  BY <1>1, <1>2
<1>4. unique_instructions_executed' \in Nat
  BY DEF CountAndFlush, FileTypes
<1>5. flush_required' \in BOOLEAN
  BY Zenon DEF CountAndFlush
<1> QED
  BY <1>1, <1>3, <1>4, <1>5

LEMMA AppendRecord ==
  ASSUME output_file \in Seq(Record), NEW r \in Record,
         output_file' = Append(output_file, r)
  PROVE  /\ output_file' \in Seq(Record)
         /\ Len(output_file) \in Nat
         /\ Len(output_file') = Len(output_file) + 1
         /\ \A i \in 1 .. Len(output_file) : output_file'[i] = output_file[i]
         /\ output_file'[Len(output_file) + 1] = r
  OBVIOUS

LEMMA NextFileTypes == SearchInv /\ FileTypes /\ [LoopNext]_vars => FileTypes'
<1> SUFFICES ASSUME SearchInv, FileTypes, [LoopNext]_vars PROVE FileTypes'
  OBVIOUS
<1>1. CASE KeepsFile
  BY <1>1 DEF KeepsFile, saveVars, FileTypes
<1>2. CASE Stops
  <2>1. type_counters' \in [InterestingType -> Nat]
    BY <1>2 DEF Stops, FileTypes
  <2>2. output_file' \in Seq(Record) /\ durable' = Len(output_file')
    BY <1>2 DEF Stops, CloseAndHalt, FileTypes
  <2>3. durable' \in 0 .. Len(output_file')
    BY <2>2
  <2> QED
    BY <1>2, <2>1, <2>2, <2>3 DEF Stops, CloseAndHalt, FileTypes
<1>3. CASE Counts
  <2>1. output_file' = output_file /\ CountAndFlush(flush_required)
        /\ flush_required \in BOOLEAN
    BY <1>3 DEF Counts, FileTypes
  <2>2. output_file' \in Seq(Record) /\ Len(output_file) <= Len(output_file')
    BY <2>1 DEF FileTypes
  <2>3. /\ unique_instructions_executed' \in Nat
        /\ flush_required' \in BOOLEAN
        /\ durable' \in 0 .. Len(output_file')
    BY <2>1, <2>2, FlushTypes
  <2>4. UNCHANGED <<type_counters, instructions_saved, output_file, file_open>>
    BY <1>3 DEF Counts
  <2> QED
    BY <2>2, <2>3, <2>4 DEF FileTypes
<1>4. ASSUME NEW r \in Record, Writes(r)
      PROVE  FileTypes'
  <2>1. r.type \in InterestingType
    BY DEF Record
  <2>2. type_counters' \in [InterestingType -> Nat] /\ instructions_saved' \in Nat
    BY <1>4, <2>1 DEF Writes, FileTypes
  <2>3. output_file' \in Seq(Record) /\ Len(output_file) <= Len(output_file')
    BY <1>4, AppendRecord DEF Writes, FileTypes
  <2>4. /\ unique_instructions_executed' \in Nat
        /\ flush_required' \in BOOLEAN
        /\ durable' \in 0 .. Len(output_file')
    BY <1>4, <2>3, FlushTypes DEF Writes
  <2> QED
    BY <1>4, <2>2, <2>3, <2>4 DEF Writes, FileTypes
<1> QED
  BY <1>1, <1>2, <1>3, <1>4, FileSteps

(* The types of the measurements.                                          *)
MeasureTypes ==
  /\ measuring_ud \in BOOLEAN
  /\ ud_perf_counters_values \in Counters \cup {ZeroCounters}
  /\ last_perf_counters_values \in Counters \cup {ZeroCounters}
  /\ previous \in [context : Context, counters : Counters] \cup {NoRun}

LEMMA NextMeasureTypes == MeasureTypes /\ [LoopNext]_vars => MeasureTypes'
<1> SUFFICES ASSUME MeasureTypes, [LoopNext]_vars PROVE MeasureTypes'
  OBVIOUS
<1>1. CASE ReExecute
  BY <1>1 DEF ReExecute, MeasureUd2Again, Retry, MeasureTypes, measureVars, runVars
<1>2. CASE SelectNext
  BY <1>2 DEF SelectNext, MeasureTypes, measureVars, runVars
<1>3. ASSUME NEW context \in Context, Ud2Unexpected(context)
      PROVE  MeasureTypes'
  BY <1>3 DEF Ud2Unexpected, MeasureTypes, measureVars, runVars
<1>4. ASSUME NEW context \in Context, ExtendInstruction(context)
      PROVE  MeasureTypes'
  BY <1>4 DEF ExtendInstruction, MeasureTypes, measureVars
<1>5. ASSUME NEW context \in Context, NEW cur \in Counters, Ud2Measured(context, cur)
      PROVE  MeasureTypes'
  BY <1>5 DEF Ud2Measured, MeasureTypes, runVars
<1>6. ASSUME NEW context \in Context, NEW cur \in Counters,
             NEW disasm_length \in DisasmLength,
             \/ PassOver(context, cur, disasm_length)
             \/ Save(context, cur, disasm_length)
             \/ SaveFails(context, cur, disasm_length)
      PROVE  MeasureTypes'
  BY <1>6 DEF PassOver, Save, SaveFails, Settles, MeasureTypes, measureVars
<1>7. CASE UNCHANGED vars
  BY <1>7 DEF vars, measureVars, runVars, MeasureTypes
<1> QED
  BY <1>1, <1>2, <1>3, <1>4, <1>5, <1>6, <1>7 DEF LoopNext

LEMMA LoopFileInvariant == Spec => [](SearchInv /\ FileTypes /\ MeasureTypes)
<1>1. Init => MeasureTypes
  BY DEF Init, MeasureTypes
<1> QED
  BY <1>1, InitFileTypes, NextFileTypes, NextMeasureTypes, LoopSearchInvariant, PTL
     DEF Spec

(* The loop's variables keep their types.                                  *)
THEOREM LoopTypeCorrect == Spec => []LoopTypeOK
<1>1. SearchInv /\ FileTypes /\ MeasureTypes => LoopTypeOK
  BY DEF SearchInv, FileTypes, MeasureTypes, LoopTypeOK
<1> QED
  BY <1>1, LoopFileInvariant, PTL

----------------------------------------------------------------------------
(* The session's log: every step of the loop adds at most one record, and  *)
(* a flush, once in a period or at the end, takes all there are.           *)
LEMMA NextLogs ==
  ASSUME SearchInv, FileTypes, [LoopNext]_vars
  PROVE  [SessionLog!LogNext]_SessionLog!logVars
<1>1. CASE KeepsFile
  BY <1>1 DEF KeepsFile, saveVars, SessionLog!logVars
<1>2. CASE Stops
  <2>1. SessionLog!CloseLog
    BY <1>2 DEF Stops, CloseAndHalt, SessionLog!CloseLog
  <2> QED
    BY <2>1 DEF SessionLog!LogNext
<1>3. CASE Counts
  <2>1. output_file' = output_file /\ file_open' = file_open /\ file_open
    BY <1>3 DEF Counts
  <2>2. durable' = durable \/ durable' = Len(output_file')
    BY <1>3 DEF Counts, CountAndFlush
  <2> QED
    BY <2>1, <2>2 DEF SessionLog!LogNext, SessionLog!FlushLog, SessionLog!logVars
<1>4. ASSUME NEW r \in Record, Writes(r)
      PROVE  SessionLog!LogNext
  <2>1. output_file \in Seq(Record) /\ output_file' = Append(output_file, r)
    BY <1>4 DEF Writes, FileTypes
  <2>2. /\ Len(output_file') = Len(output_file) + 1
        /\ SubSeq(output_file', 1, Len(output_file)) = output_file
    BY <2>1
  <2>3. durable' = durable \/ durable' = Len(output_file')
    BY <1>4 DEF Writes, CountAndFlush
  <2>4. SessionLog!AddRecord
    BY <1>4, <2>2, <2>3 DEF Writes, SessionLog!AddRecord
  <2> QED
    BY <2>4 DEF SessionLog!LogNext
<1> QED
  BY <1>1, <1>2, <1>3, <1>4, FileSteps

(* The loop implements the record log: records are only added, one at a    *)
(* time, and a session that ends leaves none of them unflushed.            *)
THEOREM LoopImplementsLog == Spec => ImplementsLog
<1>1. Init => SessionLog!LogInit
  <2> SUFFICES ASSUME Init PROVE SessionLog!LogInit
    OBVIOUS
  <2>1. output_file = <<>> /\ durable = 0
    BY DEF Init
  <2>2. durable = Len(output_file)
    BY <2>1
  <2> QED
    BY <2>1, <2>2 DEF SessionLog!LogInit
<1>2. SearchInv /\ FileTypes /\ [LoopNext]_vars
        => [SessionLog!LogNext]_SessionLog!logVars
  BY NextLogs
<1> QED
  BY <1>1, <1>2, LoopFileInvariant, PTL DEF Spec, ImplementsLog, SessionLog!LogSpec

----------------------------------------------------------------------------
(* While flushes succeed, flush_required says whether something is not on  *)
(* the disk, and what is not is of the unfinished period.                  *)
LEMMA PeriodGrows ==
  ASSUME NEW n \in Nat, (n + 1) % FLUSH_PERIOD # 0
  PROVE  (n + 1) % FLUSH_PERIOD = (n % FLUSH_PERIOD) + 1
<1> DEFINE p == FLUSH_PERIOD
           d == ((n + 1) \div p) - (n \div p)
<1>1. p \in Nat \ {0}
  BY LoopAssumption
<1>2. /\ n \div p \in Int /\ n % p \in 0 .. p - 1
      /\ n = p * (n \div p) + (n % p)
  BY <1>1
<1>3. /\ (n + 1) \div p \in Int /\ (n + 1) % p \in 1 .. p - 1
      /\ n + 1 = p * ((n + 1) \div p) + ((n + 1) % p)
  BY <1>1
<1>4. d \in Int /\ p * d = (n % p) + 1 - ((n + 1) % p)
  BY <1>1, <1>2, <1>3
<1> HIDE DEF p, d
<1>5. d < 0 => p * d <= 0 - p
  BY <1>1, <1>4
<1>6. d > 0 => p * d >= p
  BY <1>1, <1>4
<1>7. d = 0
  BY <1>1, <1>2, <1>3, <1>4, <1>5, <1>6
<1>8. p * d = 0
  BY <1>1, <1>7
<1>9. (n + 1) % p = (n % p) + 1
  BY <1>2, <1>3, <1>4, <1>8
<1> QED
  BY <1>9 DEF p

(* The flush at the end of a period.                                       *)
LEMMA FlushKeepsLossBounded ==
  ASSUME ~FlushMayFail, FileTypes, LossIsBounded, file_open,
         output_file' \in Seq(Record),
         NEW dirty \in BOOLEAN, CountAndFlush(dirty),
         \/ output_file' = output_file /\ dirty = flush_required
         \/ Len(output_file') = Len(output_file) + 1 /\ dirty = TRUE
  PROVE  LossIsBounded'
<1> DEFINE executed == unique_instructions_executed + 1
<1>1. /\ Len(output_file) \in Nat /\ durable \in Nat /\ Len(output_file') \in Nat
      /\ durable <= Len(output_file) /\ unique_instructions_executed \in Nat
  BY DEF FileTypes
<1>2. /\ flush_required <=> durable < Len(output_file)
      /\ Len(output_file) - durable <= UnfinishedPeriod
  BY DEF LossIsBounded
<1>3. UnfinishedPeriod \in Nat /\ executed % FLUSH_PERIOD \in Nat
  BY <1>1, LoopAssumption DEF UnfinishedPeriod
<1>4. UnfinishedPeriod' = executed % FLUSH_PERIOD
  BY DEF CountAndFlush, UnfinishedPeriod
<1>5. CASE executed % FLUSH_PERIOD = 0 /\ dirty
  <2>1. flush_required' = FALSE /\ durable' = Len(output_file')
    BY <1>4, <1>5 DEF CountAndFlush, UnfinishedPeriod
  <2>2. /\ ~(durable' < Len(output_file'))
        /\ Len(output_file') - durable' <= UnfinishedPeriod'
    BY <1>1, <1>3, <1>4, <2>1
  <2> QED
    BY <2>1, <2>2 DEF LossIsBounded
<1>6. CASE ~(executed % FLUSH_PERIOD = 0 /\ dirty)
  <2>1. flush_required' = dirty /\ durable' = durable
    BY <1>6 DEF CountAndFlush
  <2>2. dirty <=> durable < Len(output_file')
    BY <1>1, <1>2
  <2>3. CASE executed % FLUSH_PERIOD = 0
    BY <1>1, <1>3, <1>4, <1>6, <2>1, <2>2, <2>3 DEF LossIsBounded
  <2>4. CASE executed % FLUSH_PERIOD # 0
    <3>1. UnfinishedPeriod' = UnfinishedPeriod + 1
      BY <1>1, <1>4, <2>4, PeriodGrows DEF UnfinishedPeriod
    <3>2. Len(output_file') <= Len(output_file) + 1
      BY <1>1
    <3> QED
      BY <1>1, <1>2, <1>3, <2>1, <2>2, <3>1, <3>2 DEF LossIsBounded
  <2> QED
    BY <2>3, <2>4
<1> QED
  BY <1>5, <1>6

(* If no flush returns an error, a power cut costs at most the records of  *)
(* the unfinished period, whatever the period.                             *)
THEOREM LossBounded ==
  ASSUME ~FlushMayFail
  PROVE  Spec => []LossIsBounded
<1>1. Init => LossIsBounded
  <2> SUFFICES ASSUME Init PROVE LossIsBounded
    OBVIOUS
  <2>1. /\ output_file = <<>> /\ durable = 0 /\ flush_required = FALSE
        /\ unique_instructions_executed = 0
    BY DEF Init
  <2>2. Len(output_file) = 0 /\ UnfinishedPeriod \in Nat
    BY <2>1, LoopAssumption DEF UnfinishedPeriod
  <2>3. ~(durable < Len(output_file)) /\ Len(output_file) - durable <= UnfinishedPeriod
    BY <2>1, <2>2
  <2> QED
    BY <2>1, <2>3 DEF LossIsBounded
<1>2. SearchInv /\ FileTypes /\ LossIsBounded /\ [LoopNext]_vars => LossIsBounded'
  <2> SUFFICES ASSUME SearchInv, FileTypes, LossIsBounded, [LoopNext]_vars
               PROVE  LossIsBounded'
    OBVIOUS
  <2>1. CASE KeepsFile
    BY <2>1 DEF KeepsFile, saveVars, LossIsBounded, UnfinishedPeriod
  <2>2. CASE Stops
    BY <2>2 DEF Stops, CloseAndHalt, LossIsBounded
  <2>3. CASE Counts
    <3>1. /\ file_open /\ output_file' = output_file /\ CountAndFlush(flush_required)
          /\ flush_required \in BOOLEAN /\ output_file' \in Seq(Record)
      BY <2>3 DEF Counts, FileTypes
    <3> QED
      BY <3>1, FlushKeepsLossBounded
  <2>4. ASSUME NEW r \in Record, Writes(r)
        PROVE  LossIsBounded'
    <3>1. /\ file_open /\ CountAndFlush(TRUE) /\ output_file \in Seq(Record)
          /\ output_file' = Append(output_file, r)
      BY <2>4 DEF Writes, FileTypes
    <3>2. output_file' \in Seq(Record) /\ Len(output_file') = Len(output_file) + 1
      BY <3>1
    <3> QED
      BY <3>1, <3>2, FlushKeepsLossBounded
  <2> QED
    BY <2>1, <2>2, <2>3, <2>4, FileSteps
<1> QED
  BY <1>1, <1>2, LoopFileInvariant, PTL DEF Spec

----------------------------------------------------------------------------
(* The positions a type was saved at, and what a record adds to them.      *)
LEMMA SavedFinite ==
  ASSUME output_file \in Seq(Record), NEW t
  PROVE  IsFiniteSet(Saved(t)) /\ Cardinality(Saved(t)) \in Nat
<1>1. IsFiniteSet(1 .. Len(output_file))
  BY FS_Interval
<1>2. Saved(t) \subseteq 1 .. Len(output_file)
  BY DEF Saved
<1> QED
  BY <1>1, <1>2, FS_Subset, FS_CardinalityType

LEMMA SavedGrows ==
  ASSUME output_file \in Seq(Record), NEW r \in Record, NEW t,
         output_file' = Append(output_file, r)
  PROVE  Cardinality(Saved(t)') = Cardinality(Saved(t)) + (IF r.type = t THEN 1 ELSE 0)
<1>1. /\ Len(output_file) \in Nat
      /\ Len(output_file') = Len(output_file) + 1
      /\ \A i \in 1 .. Len(output_file) : output_file'[i] = output_file[i]
      /\ output_file'[Len(output_file) + 1] = r
  BY AppendRecord
<1>2. 1 .. Len(output_file') = (1 .. Len(output_file)) \cup {Len(output_file) + 1}
  BY <1>1
<1>3. CASE r.type = t
  <2>1. Saved(t)' = Saved(t) \cup {Len(output_file) + 1}
    BY <1>1, <1>2, <1>3 DEF Saved
  <2>2. Len(output_file) + 1 \notin Saved(t)
    BY <1>1 DEF Saved
  <2> QED
    BY <1>3, <2>1, <2>2, SavedFinite, FS_AddElement
<1>4. CASE r.type # t
  <2>1. Saved(t)' = Saved(t)
    BY <1>1, <1>2, <1>4 DEF Saved
  <2> QED
    BY <1>4, <2>1, SavedFinite
<1> QED
  BY <1>3, <1>4

(* The statistics agree with the file, whatever is retried or fails.       *)
THEOREM StatisticsAgree == Spec => []StatisticsMatchFile
<1>1. Init => StatisticsMatchFile
  <2> SUFFICES ASSUME Init PROVE StatisticsMatchFile
    OBVIOUS
  <2>1. output_file = <<>> /\ type_counters = [t \in InterestingType |-> 0]
        /\ instructions_saved = 0
    BY DEF Init
  <2>2. \A t : Saved(t) = {}
    BY <2>1 DEF Saved
  <2>3. Len(output_file) = 0 /\ Cardinality({}) = 0
    BY <2>1, FS_EmptySet
  <2>4. \A t \in InterestingType : type_counters[t] = 0 /\ Cardinality(Saved(t)) = 0
    BY <2>1, <2>2, <2>3
  <2>5. \A t \in InterestingType : /\ type_counters[t] >= Cardinality(Saved(t))
                                   /\ type_counters[t] = Cardinality(Saved(t))
    BY <2>4
  <2> QED
    BY <2>1, <2>3, <2>5 DEF StatisticsMatchFile
<1>2. SearchInv /\ FileTypes /\ StatisticsMatchFile /\ [LoopNext]_vars
        => StatisticsMatchFile'
  <2> SUFFICES ASSUME SearchInv, FileTypes, StatisticsMatchFile, [LoopNext]_vars
               PROVE  StatisticsMatchFile'
    OBVIOUS
  <2>1. /\ output_file \in Seq(Record)
        /\ type_counters \in [InterestingType -> Nat]
        /\ \A t : Cardinality(Saved(t)) \in Nat
    BY SavedFinite DEF FileTypes
  <2>2. output_file' = output_file => \A t : Saved(t)' = Saved(t)
    BY DEF Saved
  <2>3. CASE KeepsFile
    BY <2>2, <2>3 DEF KeepsFile, saveVars, StatisticsMatchFile
  <2>4. CASE Stops
    <3>1. \A t \in InterestingType : type_counters'[t] >= type_counters[t]
      BY <2>1, <2>4 DEF Stops
    <3>2. \A t \in InterestingType : type_counters'[t] \in Nat
      BY <2>1, <2>4 DEF Stops
    <3>3. /\ instructions_saved' = instructions_saved /\ output_file' = output_file
          /\ ~file_open'
      BY <2>4 DEF Stops, CloseAndHalt
    <3> QED
      BY <2>1, <2>2, <3>1, <3>2, <3>3 DEF StatisticsMatchFile
  <2>5. CASE Counts
    BY <2>2, <2>5 DEF Counts, StatisticsMatchFile
  <2>6. ASSUME NEW r \in Record, Writes(r)
        PROVE  StatisticsMatchFile'
    <3>1. /\ file_open /\ output_file' = Append(output_file, r)
          /\ type_counters' = [type_counters EXCEPT ![r.type] = @ + 1]
          /\ instructions_saved' = instructions_saved + 1
      BY <2>6 DEF Writes
    <3>2. instructions_saved' = Len(output_file')
      BY <2>1, <3>1, AppendRecord DEF StatisticsMatchFile
    <3>3. ASSUME NEW t \in InterestingType
          PROVE  type_counters'[t] = Cardinality(Saved(t)')
      <4>1. type_counters[t] = Cardinality(Saved(t))
        BY <3>1 DEF StatisticsMatchFile
      <4>2. type_counters'[t] = type_counters[t] + (IF r.type = t THEN 1 ELSE 0)
        BY <2>1, <3>1
      <4>3. Cardinality(Saved(t)')
              = Cardinality(Saved(t)) + (IF r.type = t THEN 1 ELSE 0)
        BY <2>1, <3>1, SavedGrows
      <4> QED
        BY <4>1, <4>2, <4>3
    <3>4. type_counters' \in [InterestingType -> Nat]
      BY <2>6, NextFileTypes DEF FileTypes
    <3>5. \A t \in InterestingType : type_counters'[t] \in Nat
      BY <3>4
    <3>6. \A t \in InterestingType : type_counters'[t] >= Cardinality(Saved(t)')
      BY <3>3, <3>5
    <3> QED
      BY <3>2, <3>3, <3>6 DEF StatisticsMatchFile
  <2> QED
    BY <2>3, <2>4, <2>5, <2>6, FileSteps
<1> QED
  BY <1>1, <1>2, LoopFileInvariant, PTL DEF Spec

----------------------------------------------------------------------------
(* Values to compare with are those of the last run of the instruction     *)
(* being executed, and that run raised #UD.                                *)
LastRunInv ==
  last_perf_counters_values # ZeroCounters =>
    /\ previous # NoRun
    /\ previous.counters = last_perf_counters_values
    /\ previous.context.exception = "#UD"

(* The last values outlive an instruction if something else than #UD ends  *)
(* it; a CPU that repeats its exceptions cannot do that.                   *)
LEMMA NextLastRunInv ==
  ASSUME Intruders = {}, MeasureTypes, LastRunInv, [LoopNext]_vars
  PROVE  LastRunInv'
<1>1. ASSUME NEW context \in Context, NEW cur \in Counters, Retry(context, cur)
      PROVE  LastRunInv'
  <2>1. previous' = [context |-> context, counters |-> cur]
        /\ last_perf_counters_values' = cur /\ context.exception = "#UD"
    BY <1>1 DEF Retry
  <2>2. [context |-> context, counters |-> cur] # NoRun
    BY RunAssumption
  <2> QED
    BY <2>1, <2>2 DEF LastRunInv
<1>2. ASSUME NEW context \in Context, Raises(context), context.exception # "#UD"
      PROVE  last_perf_counters_values = ZeroCounters
  BY <1>2 DEF Raises, LastRunInv
<1>3. ASSUME NEW context \in Context, NEW cur \in Counters, Settles(context, cur)
      PROVE  LastRunInv'
  BY <1>2, <1>3 DEF Settles, LastRunInv
<1>4. CASE UNCHANGED runVars
  BY <1>4 DEF runVars, LastRunInv
<1>5. ASSUME NEW context \in Context, ExtendInstruction(context)
      PROVE  LastRunInv'
  <2>1. context.exception = "#PF" /\ Raises(context)
    BY <1>5 DEF ExtendInstruction, NeedsMoreBytes, Context
  <2> QED
    BY <1>2, <1>5, <2>1 DEF ExtendInstruction, LastRunInv
<1>6. CASE ReExecute
  BY <1>1, <1>4, <1>6 DEF ReExecute, MeasureUd2Again
<1>7. CASE SelectNext
  BY <1>4, <1>7 DEF SelectNext
<1>8. ASSUME NEW context \in Context, NEW cur \in Counters,
             NEW disasm_length \in DisasmLength,
             \/ PassOver(context, cur, disasm_length)
             \/ Save(context, cur, disasm_length)
             \/ SaveFails(context, cur, disasm_length)
      PROVE  LastRunInv'
  BY <1>3, <1>8 DEF PassOver, Save, SaveFails
<1>9. CASE UNCHANGED vars
  BY <1>4, <1>9 DEF vars
<1> QED
  BY <1>4, <1>5, <1>6, <1>7, <1>8, <1>9 DEF LoopNext, Ud2Unexpected, Ud2Measured

(* With a CPU that repeats its exceptions, no #UD is recorded with the     *)
(* values of a single run.                                                 *)
THEOREM RunsMeasuredTwice ==
  ASSUME Intruders = {}
  PROVE  Spec => MeasuredTwice
<1> DEFINE Twice == (Len(output_file') > Len(output_file) /\ LastRecord.exception = "#UD")
                      => previous # NoRun /\ previous.counters = LastRecord.counters
<1>1. Init => LastRunInv
  BY DEF Init, LastRunInv
<1>2. MeasureTypes /\ LastRunInv /\ [LoopNext]_vars => LastRunInv'
  BY NextLastRunInv
<1>3. ASSUME FileTypes, LastRunInv, NEW context \in Context, NEW cur \in Counters,
             NEW disasm_length \in DisasmLength, Save(context, cur, disasm_length)
      PROVE  Twice
  <2> DEFINE r == [exception |-> context.exception, counters |-> cur,
                   type |-> InstructionType(context, cur, disasm_length),
                   length |-> cur_instruction_length, bytes |-> instruction_bytes]
  <2>1. output_file' = Append(output_file, r) /\ output_file \in Seq(Record)
    BY <1>3 DEF Save, FileTypes
  <2>2. r.exception = context.exception /\ r.counters = cur
    OBVIOUS
  <2> HIDE DEF r
  <2>3. LastRecord = r
    BY <2>1 DEF LastRecord
  <2>4. context.exception = "#UD" => cur = last_perf_counters_values
    BY <1>3 DEF Save, Settles
  <2>5. cur # ZeroCounters
    BY LoopAssumption
  <2> QED
    BY <1>3, <2>2, <2>3, <2>4, <2>5 DEF LastRunInv
<1>4. FileTypes /\ LastRunInv /\ [LoopNext]_vars => [Twice]_vars
  <2> SUFFICES ASSUME FileTypes, LastRunInv, [LoopNext]_vars PROVE Twice
    OBVIOUS
  <2>1. CASE output_file' = output_file
    BY <2>1 DEF FileTypes
  <2>2. CASE output_file' # output_file
    <3>1. \E context \in Context, cur \in Counters, disasm_length \in DisasmLength :
            Save(context, cur, disasm_length)
      BY <2>2 DEF LoopNext, ReExecute, MeasureUd2Again, Retry, SelectNext, Ud2Unexpected,
                  ExtendInstruction, Ud2Measured, PassOver, SaveFails, vars, saveVars
    <3> QED
      BY <1>3, <3>1
  <2> QED
    BY <2>1, <2>2
<1> QED
  BY <1>1, <1>2, <1>4, LoopFileInvariant, PTL DEF Spec, MeasuredTwice

----------------------------------------------------------------------------
(* An instruction type that is interesting is never taken back: whatever   *)
(* order the five assignments come in, a reason to save stays a reason.    *)
LEMMA ReasonsStay ==
  ASSUME NEW context \in Context, NEW cur \in Counters, NEW disasm_length \in DisasmLength,
         MeetsCriteria(context, cur, disasm_length)
  PROVE  InstructionType(context, cur, disasm_length) # "NOT_INTERESTING"
<1>1. CASE context.exception = "#MC"
  BY <1>1 DEF InstructionType
<1>2. CASE context.exception = "#UD"
  <2>1. context.kernel
          \/ (cur # ud_perf_counters_values /\ disasm_length # cur_instruction_length)
    BY <1>2 DEF MeetsCriteria
  <2>2. CASE context.kernel
    BY <1>2, <2>2 DEF InstructionType
  <2>3. CASE cur # ud_perf_counters_values /\ disasm_length # cur_instruction_length
    BY <1>2, <2>3 DEF InstructionType
  <2> QED
    BY <2>1, <2>2, <2>3
<1>3. CASE context.exception \notin {"#MC", "#UD"}
  <2>1. context.kernel
    BY <1>3 DEF MeetsCriteria
  <2> QED
    BY <1>3, <2>1 DEF InstructionType
<1> QED
  BY <1>1, <1>2, <1>3

(* Nothing that meets the README's criteria is passed over.                *)
THEOREM CriteriaAreSaved == Spec => SavesWhatMeetsCriteria
<1>1. ASSUME NEW context \in Context, NEW cur \in Counters,
             NEW disasm_length \in DisasmLength, PassOver(context, cur, disasm_length)
      PROVE  ~MeetsCriteria(context, cur, disasm_length)
  BY <1>1, ReasonsStay DEF PassOver
<1>2. [LoopNext]_vars =>
        [\A context \in Context, cur \in Counters, disasm_length \in DisasmLength :
           PassOver(context, cur, disasm_length)
             => ~MeetsCriteria(context, cur, disasm_length)]_vars
  BY <1>1
<1> QED
  BY <1>2, PTL DEF Spec, SavesWhatMeetsCriteria

(* The prefix scan stays inside the array in the whole loop too.           *)
THEOREM LoopScanStaysInside ==
  ASSUME MAX_PREFIXES + 4 <= MaxInstructionLength
  PROVE  Spec => []PrefixScanInBounds
<1>1. Init => Accepted
  BY InitAccepted DEF Init
<1>2. SearchInv /\ Accepted /\ [LoopNext]_vars => Accepted'
  BY StepSearches, NextAccepted
<1>3. SearchInv /\ Accepted => PrefixScanInBounds
  BY AcceptedInBounds
<1> QED
  BY <1>1, <1>2, <1>3, LoopSearchInvariant, PTL DEF Spec
=============================================================================
