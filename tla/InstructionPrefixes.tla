------------------------ MODULE InstructionPrefixes ------------------------
(***************************************************************************)
(* The prefix filter of the brute-force search: how the bytes of an x86    *)
(* instruction are read as prefixes, how many of them lead an instruction  *)
(* (count_prefixes) and which prefix combinations the search refuses to    *)
(* execute (contains_invalid_count_of_prefixes).                           *)
(*                                                                         *)
(* An instruction is a function from 0 .. MaxInstructionLength - 1 to      *)
(* bytes, of which the first `length' are meaningful.  Bytes have their    *)
(* real values.  The C code tests bit fields with masks; here a mask is    *)
(* the arithmetic on the byte that selects the same field.                 *)
(***************************************************************************)
EXTENDS Integers

CONSTANTS
  Byte,                  \* the byte values the search ranges over; 0 .. 255 in the code
  MaxInstructionLength,  \* sizeof(instruction_bytes), 15 in the code
  MAX_PREFIXES,          \* how many prefixes an instruction may have, 1 in the code
  CPU_MODE               \* the mode the image is built for: 16, 32 or 64

LastByte == 255          \* 0xff, the byte whose increment carries

(***************************************************************************)
(* Byte may be any sample of 0 .. 255 that holds both ends and in which    *)
(* each byte but the last has a successor, so a model can leave out bytes  *)
(* the filter treats alike.  For 0 .. 255 the successor of b is b + 1.     *)
(***************************************************************************)
ASSUME ByteAssumption ==
  /\ Byte \subseteq 0 .. LastByte
  /\ 0 \in Byte
  /\ LastByte \in Byte
  /\ \A b \in Byte \ {LastByte} :
       \E c \in Byte : c > b /\ \A d \in Byte : d > b => c <= d

ASSUME LengthAssumption == MaxInstructionLength \in Nat \ {0}

ASSUME FilterAssumption == MAX_PREFIXES \in Nat /\ CPU_MODE \in {16, 32, 64}

Index == 0 .. MaxInstructionLength - 1

Instruction == [Index -> Byte]

----------------------------------------------------------------------------
(* What a byte is when it stands where a prefix may stand: the cases of    *)
(* the switch in contains_invalid_count_of_prefixes.                       *)

Kind(byte) ==
  CASE byte \in {\h26, \h2e, \h36, \h3e, \h64, \h65} -> "segment"
    [] byte = \h66                                   -> "operand size"
    [] byte = \h67                                   -> "address size"
    [] byte = \hf0                                   -> "lock"
    [] byte = \hf2                                   -> "repne"
    [] byte = \hf3                                   -> "rep"
    [] byte = \h62                                   -> "evex"
    [] byte \in {\hc4, \hc5}                         -> "vex"
    [] byte \in \h40 .. \h4f /\ CPU_MODE = 64        -> "rex"
    [] OTHER                                         -> "opcode"

(* EVEX and VEX carry operand fields and end the prefixes; these do not.   *)
PlainPrefix ==
  {"segment", "operand size", "address size", "lock", "repne", "rep", "rex"}

(* The scan stops, and accepts, at an opcode byte.  Outside 64-bit mode    *)
(* 0x62, 0xc4 and 0xc5 are BOUND, LES and LDS unless the next byte has its *)
(* two top bits set.                                                       *)
IsOpcode(bytes, length, i) ==
  \/ Kind(bytes[i]) = "opcode"
  \/ /\ CPU_MODE # 64
     /\ Kind(bytes[i]) \in {"evex", "vex"}
     /\ i + 1 = length \/ bytes[i + 1] < \hc0

Seen(bytes, i) == {Kind(bytes[j]) : j \in 0 .. i - 1}

(* A prefix given twice, or any plain prefix after REX.                    *)
IsRepeated(bytes, i) ==
  /\ Kind(bytes[i]) \in PlainPrefix
  /\ "rex" \in Seen(bytes, i) \/ Kind(bytes[i]) \in Seen(bytes, i)

(* Faulty EvexPayloadAllowed: EVEX is taken for a prefix like another.     *)
EvexPayloadUnchecked(bytes, length, i) == TRUE

(* The EVEX fields the search leaves free, once all three bytes are there. *)
EvexPayloadAllowed(bytes, length, i) ==
  i + 3 < length =>
    /\ bytes[i + 1] \div 16 = \hf                          \* p0 = 1111____
    /\ (bytes[i + 2] \div 8) % 16 = 0                      \* p1 = _0000___
    /\ bytes[i + 3] % 32 = 8 /\ bytes[i + 3] < 128         \* p2 = 0__01000

(* The same for the two bytes after 0xc4 and the one after 0xc5.           *)
VexPayloadAllowed(bytes, length, i) ==
  /\ bytes[i] = \hc4 /\ i + 2 < length =>
       /\ bytes[i + 1] \div 32 = 7                         \* b1 = 111_____
       /\ (bytes[i + 2] \div 8) % 16 = \hf                 \* b2 = _1111___
  /\ bytes[i] = \hc5 /\ i + 1 < length =>
       bytes[i + 1] \div 8 = 31                            \* b1 = 11111___

(* vex_invalid: a prefix before VEX that VEX encodes itself.               *)
VexInvalid(bytes, i) ==
  \/ bytes[i] = \hc4 /\ "rex" \in Seen(bytes, i)
  \/ Seen(bytes, i) \cap {"operand size", "rep", "repne"} # {}

(* The loop goes on past byte i.                                           *)
PassesPrefix(bytes, i) ==
  /\ Kind(bytes[i]) \in PlainPrefix
  /\ ~IsRepeated(bytes, i)
  /\ i < MAX_PREFIXES

(* The loop returns true at byte i.                                        *)
RejectsAt(bytes, length, i) ==
  /\ ~IsOpcode(bytes, length, i)
  /\ \/ IsRepeated(bytes, i)
     \/ i >= MAX_PREFIXES
     \/ /\ Kind(bytes[i]) = "evex"
        /\ ~EvexPayloadAllowed(bytes, length, i)
     \/ /\ Kind(bytes[i]) = "vex"
        /\ ~VexPayloadAllowed(bytes, length, i) \/ VexInvalid(bytes, i)

Reaches(bytes, i) == \A j \in 0 .. i - 1 : PassesPrefix(bytes, j)

ContainsInvalidCountOfPrefixes(bytes, length) ==
  \E i \in 0 .. length - 1 : Reaches(bytes, i) /\ RejectsAt(bytes, length, i)

(* malformed_instruction_expect_ud: the filter kept a VEX instruction with *)
(* a LOCK prefix, or a two-byte VEX with REX, that should raise #UD.       *)
MalformedExpectUd(bytes, length) ==
  \E i \in 0 .. length - 1 :
    /\ Reaches(bytes, i)
    /\ i < MAX_PREFIXES
    /\ Kind(bytes[i]) = "vex" /\ ~IsOpcode(bytes, length, i)
    /\ VexPayloadAllowed(bytes, length, i) /\ ~VexInvalid(bytes, i)
    /\ \/ bytes[i] = \hc5 /\ "rex" \in Seen(bytes, i)
       \/ "lock" \in Seen(bytes, i)

----------------------------------------------------------------------------
(* is_prefix and count_prefixes keep a table of their own: 0xc4 and 0xc5   *)
(* count as prefixes in every mode, and EVEX does not end the count.       *)

IsPrefix(byte, next) ==
  \/ byte \in {\h26, \h2e, \h36, \h3e, \h64, \h65, \h66, \h67}
  \/ byte \in {\hc4, \hc5, \hf0, \hf2, \hf3}
  \/ byte \in \h40 .. \h4f /\ CPU_MODE = 64
  \/ byte = \h62 /\ (CPU_MODE = 64 \/ next >= \hc0)

(* bytes[prefixes + 1].  The test prefixes < length + 1 that guards the    *)
(* read is always true, so only PrefixScanInBounds keeps it inside.        *)
NextByte(bytes, i) == IF i + 1 \in Index THEN bytes[i + 1] ELSE 0

(* The loop examines byte i: everything before it is a prefix, and none of *)
(* that is VEX.                                                            *)
CountReaches(bytes, length, i) ==
  /\ i < length
  /\ \A j \in 0 .. i - 1 : /\ IsPrefix(bytes[j], NextByte(bytes, j))
                           /\ bytes[j] \notin {\hc4, \hc5}

(* cur_byte_index < count_prefixes(bytes, length), for byte i.             *)
IsCountedPrefix(bytes, length, i) ==
  CountReaches(bytes, length, i) /\ IsPrefix(bytes[i], NextByte(bytes, i))
=============================================================================
