------------------------- MODULE InstructionSearch -------------------------
(***************************************************************************)
(* The search for the next instruction to execute: the globals             *)
(* instruction_bytes, cur_instruction_length, cur_byte_index and           *)
(* last_instruction_length, the selection at the end of                    *)
(* check_last_instruction, and the growth of the instruction on a page     *)
(* fault past its last byte (increment_instruction_length_and_retry_exec). *)
(*                                                                         *)
(* The CPU decides how long an instruction is, so whether an execution     *)
(* ends in Extend or in a selection is open here.  The selection is two    *)
(* nested loops joined by a goto; pc says which loop runs, and every turn  *)
(* of a loop is a step.                                                    *)
(*                                                                         *)
(* origin is auxiliary: the four globals as the selection found them.  No  *)
(* action reads it.                                                        *)
(***************************************************************************)
EXTENDS InstructionPrefixes

VARIABLES
  instruction_bytes, cur_instruction_length, cur_byte_index,
  last_instruction_length, malformed_instruction_expect_ud,
  pc,      \* "executing": in user mode; "carry": the while loop below
           \* update_byte_index; "increment": the do loop; "halted": Done
  origin

searchVars ==
  <<instruction_bytes, cur_instruction_length, cur_byte_index,
    last_instruction_length, malformed_instruction_expect_ud, pc, origin>>

Length == 1 .. MaxInstructionLength

PC == {"executing", "carry", "increment", "halted"}

Origin == [bytes : Instruction, length : Length, index : Index,
           last : 0 .. MaxInstructionLength]

(* The least byte above b: b + 1, where Byte is 0 .. 255.                  *)
Successor(b) == CHOOSE c \in Byte : c > b /\ \A d \in Byte : d > b => c <= d

SearchInit ==
  /\ instruction_bytes = [i \in Index |-> 0]
  /\ cur_instruction_length = 1
  /\ cur_byte_index = 0
  /\ last_instruction_length = 0
  /\ malformed_instruction_expect_ud = FALSE
  /\ pc = "executing"
  /\ origin = [bytes |-> instruction_bytes, length |-> 1, index |-> 0, last |-> 0]

----------------------------------------------------------------------------
(* Faulty Extend: no test against the size of instruction_bytes.           *)
ExtendPastArray ==
  /\ pc = "executing"
  /\ cur_instruction_length' = cur_instruction_length + 1
  /\ UNCHANGED <<instruction_bytes, cur_byte_index, last_instruction_length,
                 malformed_instruction_expect_ud, pc, origin>>

(* The fetch ran off the page after the last byte: execute one byte more.  *)
(* The new byte is already 0, and the filter is not asked again.           *)
Extend ==
  /\ pc = "executing"
  /\ cur_instruction_length < MaxInstructionLength
  /\ cur_instruction_length' = cur_instruction_length + 1
  /\ UNCHANGED <<instruction_bytes, cur_byte_index, last_instruction_length,
                 malformed_instruction_expect_ud, pc, origin>>

(* Faulty StaysOnByte: prefixes are given up like other bytes.             *)
StaysOnPrefix == cur_instruction_length = last_instruction_length

(* cur_instruction_length == last_instruction_length && !cur_byte_is_prefix *)
StaysOnByte ==
  /\ cur_instruction_length = last_instruction_length
  /\ ~IsCountedPrefix(instruction_bytes, cur_instruction_length, cur_byte_index)

(* The executed instruction is dealt with: the selection starts, at the    *)
(* same byte or at the last one.                                           *)
BeginSelect ==
  /\ pc = "executing"
  /\ origin' = [bytes |-> instruction_bytes, length |-> cur_instruction_length,
                index |-> cur_byte_index, last |-> last_instruction_length]
  /\ \/ /\ StaysOnByte
        /\ pc' = "carry"
        /\ UNCHANGED <<cur_byte_index, last_instruction_length>>
     \/ /\ ~StaysOnByte
        /\ pc' = "increment"
        /\ cur_byte_index' = cur_instruction_length - 1
        /\ last_instruction_length' = cur_instruction_length
  /\ UNCHANGED <<instruction_bytes, cur_instruction_length,
                 malformed_instruction_expect_ud>>

(* Faulty Carry: the exhausted byte is left as it is; the index moves      *)
(* before the byte is cleared; the first byte is not told from the others. *)
CarryKeepsByte ==
  /\ pc = "carry"
  /\ instruction_bytes[cur_byte_index] = LastByte
  /\ cur_byte_index # 0
  /\ cur_byte_index' = cur_byte_index - 1
  /\ UNCHANGED <<instruction_bytes, cur_instruction_length, last_instruction_length,
                 malformed_instruction_expect_ud, pc, origin>>

CarryClearsWrongByte ==
  /\ pc = "carry"
  /\ instruction_bytes[cur_byte_index] = LastByte
  /\ cur_byte_index # 0
  /\ instruction_bytes' = [instruction_bytes EXCEPT ![cur_byte_index - 1] = 0]
  /\ cur_byte_index' = cur_byte_index - 1
  /\ UNCHANGED <<cur_instruction_length, last_instruction_length,
                 malformed_instruction_expect_ud, pc, origin>>

CarryPastFirst ==
  /\ pc = "carry"
  /\ instruction_bytes[cur_byte_index] = LastByte
  /\ instruction_bytes' = [instruction_bytes EXCEPT ![cur_byte_index] = 0]
  /\ cur_byte_index' = cur_byte_index - 1
  /\ UNCHANGED <<cur_instruction_length, last_instruction_length,
                 malformed_instruction_expect_ud, pc, origin>>

(* A turn of the while loop: the byte is exhausted, go to the one before.  *)
Carry ==
  /\ pc = "carry"
  /\ instruction_bytes[cur_byte_index] = LastByte
  /\ cur_byte_index # 0
  /\ instruction_bytes' = [instruction_bytes EXCEPT ![cur_byte_index] = 0]
  /\ cur_byte_index' = cur_byte_index - 1
  /\ UNCHANGED <<cur_instruction_length, last_instruction_length,
                 malformed_instruction_expect_ud, pc, origin>>

(* Faulty Finish: Done does not halt.                                      *)
FinishWraps ==
  /\ pc = "carry"
  /\ instruction_bytes[cur_byte_index] = LastByte
  /\ cur_byte_index = 0
  /\ instruction_bytes' = [instruction_bytes EXCEPT ![0] = 0]
  /\ pc' = "increment"
  /\ UNCHANGED <<cur_instruction_length, cur_byte_index,
                 last_instruction_length, malformed_instruction_expect_ud, origin>>

(* The first byte is exhausted: Done, close the file and halt.             *)
Finish ==
  /\ pc = "carry"
  /\ instruction_bytes[cur_byte_index] = LastByte
  /\ cur_byte_index = 0
  /\ instruction_bytes' = [instruction_bytes EXCEPT ![0] = 0]
  /\ pc' = "halted"
  /\ UNCHANGED <<cur_instruction_length, cur_byte_index,
                 last_instruction_length, malformed_instruction_expect_ud, origin>>

(* Faulty EndCarry: the instruction is not cut.                            *)
EndCarryKeepsLength ==
  /\ pc = "carry"
  /\ instruction_bytes[cur_byte_index] # LastByte
  /\ pc' = "increment"
  /\ UNCHANGED <<instruction_bytes, cur_instruction_length, cur_byte_index,
                 last_instruction_length, malformed_instruction_expect_ud, origin>>

(* The while loop ends; the instruction is cut after the current byte.     *)
EndCarry ==
  /\ pc = "carry"
  /\ instruction_bytes[cur_byte_index] # LastByte
  /\ cur_instruction_length' = cur_byte_index + 1
  /\ pc' = "increment"
  /\ UNCHANGED <<instruction_bytes, cur_byte_index, last_instruction_length,
                 malformed_instruction_expect_ud, origin>>

(* Faulty Overflow: a break in place of the goto.                          *)
OverflowBreaks ==
  /\ pc = "increment"
  /\ instruction_bytes[cur_byte_index] = LastByte
  /\ pc' = "executing"
  /\ UNCHANGED <<instruction_bytes, cur_instruction_length, cur_byte_index,
                 last_instruction_length, malformed_instruction_expect_ud, origin>>

(* A turn of the do loop that finds the byte exhausted: the goto.          *)
Overflow ==
  /\ pc = "increment"
  /\ instruction_bytes[cur_byte_index] = LastByte
  /\ pc' = "carry"
  /\ UNCHANGED <<instruction_bytes, cur_instruction_length, cur_byte_index,
                 last_instruction_length, malformed_instruction_expect_ud, origin>>

(* A turn of the do loop: the next value of the byte, executed if the      *)
(* filter accepts it.  The filter sets malformed_instruction_expect_ud.    *)
Increment ==
  /\ pc = "increment"
  /\ instruction_bytes[cur_byte_index] # LastByte
  /\ instruction_bytes' =
       [instruction_bytes EXCEPT ![cur_byte_index] = Successor(@)]
  /\ malformed_instruction_expect_ud' =
       MalformedExpectUd(instruction_bytes', cur_instruction_length)
  /\ \/ /\ ContainsInvalidCountOfPrefixes(instruction_bytes', cur_instruction_length)
        /\ pc' = "increment"
     \/ /\ ~ContainsInvalidCountOfPrefixes(instruction_bytes', cur_instruction_length)
        /\ pc' = "executing"
  /\ UNCHANGED <<cur_instruction_length, cur_byte_index,
                 last_instruction_length, origin>>

Select == Carry \/ Finish \/ EndCarry \/ Overflow \/ Increment

SearchNext == Extend \/ BeginSelect \/ Select

(* The CPU always comes back with an exception and the handler always runs *)
(* on, so some step is always taken.                                       *)
SearchSpec ==
  SearchInit /\ [][SearchNext]_searchVars /\ WF_searchVars(SearchNext)

----------------------------------------------------------------------------
(* Types of the variables.                                                 *)
TypeOK ==
  /\ instruction_bytes \in Instruction
  /\ cur_instruction_length \in Length
  /\ cur_byte_index \in Index
  /\ last_instruction_length \in 0 .. MaxInstructionLength
  /\ malformed_instruction_expect_ud \in BOOLEAN
  /\ pc \in PC
  /\ origin \in Origin

(* Instruction a comes before b in the order of the search.                *)
LexLess(a, b) ==
  \E k \in Index : a[k] < b[k] /\ \A j \in 0 .. k - 1 : a[j] = b[j]

(* The incremented byte is inside the instruction and every byte after it  *)
(* is 0.  Extend relies on it: it appends the byte that is there without   *)
(* clearing it, and a byte left behind by an earlier instruction would     *)
(* make the search start in the middle of that position's values.          *)
ZeroTail ==
  /\ cur_byte_index < cur_instruction_length
  /\ \A j \in Index : j > cur_byte_index => instruction_bytes[j] = 0

(* No instruction is executed twice by the search: what a selection hands  *)
(* to the CPU is strictly after what the selection started from, whatever  *)
(* the carries, the cuts and the gotos between did.                        *)
NeverRevisits ==
  [][pc # "executing" /\ pc' = "executing"
       => LexLess(origin.bytes, instruction_bytes')]_searchVars

(* count_prefixes never reads instruction_bytes[15]: bytes the scan        *)
(* examines at the last index are not reached, although the guard of the   *)
(* read does not say so.                                                   *)
PrefixScanInBounds ==
  pc = "executing" =>
    \A i \in 0 .. cur_instruction_length - 1 :
      CountReaches(instruction_bytes, cur_instruction_length, i)
        => i + 1 < MaxInstructionLength

(* The comment in contains_invalid_count_of_prefixes: "keep LOCK prefix    *)
(* (and REX, if using 2-byte form of VEX) just in case some instructions   *)
(* hide there".  A LOCK that has reached VEX is not skipped.               *)
KeepsLockBeforeVex ==
  [][(/\ pc = "increment" /\ cur_instruction_length = 2
      /\ instruction_bytes'[0] = \hf0 /\ instruction_bytes'[1] \in {\hc4, \hc5})
       => pc' # "increment"]_searchVars

(* The selection implements the abstract order of candidates: it skips     *)
(* nothing but what the filter rejects or the tunnelling rule gives up,    *)
(* and reports Done only when nothing is left.  While the loops run the    *)
(* abstract search still stands where the selection started.               *)
InSelection == pc # "executing"

Order == INSTANCE CandidateOrder WITH
  Invalid <- ContainsInvalidCountOfPrefixes,
  CountsAsPrefix <- IsCountedPrefix,
  candidate  <- IF InSelection THEN origin.bytes ELSE instruction_bytes,
  length     <- IF InSelection THEN origin.length ELSE cur_instruction_length,
  position   <- IF InSelection THEN origin.index ELSE cur_byte_index,
  lastLength <- IF InSelection THEN origin.last ELSE last_instruction_length,
  finished   <- pc = "halted"

ImplementsOrder == Order!OrderSpec

(* What the two loops maintain, between the selection's start and its end: *)
(* the bytes before the current one are as they were, the current one has  *)
(* only passed values the filter rejects, and every byte given up after it *)
(* has nothing acceptable left.  The goto enters the while loop with the   *)
(* do loop's byte and the cut changes the length the filter is asked       *)
(* about, so this is what joins the loops.                                 *)
SelectionInvariant ==
  pc \in {"carry", "increment"} =>
    /\ cur_byte_index <= Order!Frontier
    /\ \A j \in 0 .. cur_byte_index - 1 : instruction_bytes[j] = origin.bytes[j]
    /\ instruction_bytes[cur_byte_index] >= origin.bytes[cur_byte_index]
    /\ \A w \in Byte :
         origin.bytes[cur_byte_index] < w /\ w <= instruction_bytes[cur_byte_index]
           => ~Order!Accepts(origin.bytes, cur_byte_index, w)
    /\ \A j \in cur_byte_index + 1 .. Order!Frontier, w \in Byte :
         w > origin.bytes[j] => ~Order!Accepts(origin.bytes, j, w)
    /\ pc = "increment" => cur_instruction_length = cur_byte_index + 1
    /\ last_instruction_length =
         IF Order!GivesUp THEN origin.last ELSE origin.length

(* Every run of the search ends in Done: no cycle of extending, cutting    *)
(* and carrying goes on for ever.                                          *)
SearchEnds == <>(pc = "halted")
=============================================================================
