---------------------- MODULE InstructionSearchProofs ----------------------
(***************************************************************************)
(* Theorems about the search, for every set of bytes with both ends and    *)
(* successors, every maximal length, every limit on the prefixes and every *)
(* CPU mode.                                                               *)
(***************************************************************************)
EXTENDS InstructionSearch, NumberInduction

(* The next byte exists, is greater, and nothing lies between.             *)
LEMMA SuccessorProperties ==
  ASSUME NEW b \in Byte, b # LastByte
  PROVE  /\ Successor(b) \in Byte
         /\ Successor(b) > b
         /\ \A d \in Byte : d > b => Successor(b) <= d
<1>1. \E c \in Byte : c > b /\ \A d \in Byte : d > b => c <= d
  BY ByteAssumption
<1> QED
  BY <1>1 DEF Successor

LEMMA ByteIsInt == \A b \in Byte : b \in Int /\ 0 <= b /\ b <= LastByte
<1>1. Byte \subseteq 0 .. LastByte
  BY ByteAssumption
<1> QED
  BY <1>1 DEF LastByte

LEMMA ZeroAndLast == 0 \in Byte /\ LastByte \in Byte /\ LastByte \in Int
  BY ByteAssumption DEF LastByte

----------------------------------------------------------------------------
(* The inductive invariant without the filter: enough for the types, the   *)
(* zero tail and the order of the candidates.                              *)
BytesKept ==
  pc \in {"carry", "increment"} =>
    /\ \A j \in 0 .. cur_byte_index - 1 : instruction_bytes[j] = origin.bytes[j]
    /\ instruction_bytes[cur_byte_index] >= origin.bytes[cur_byte_index]
    /\ pc = "increment" => cur_instruction_length = cur_byte_index + 1

SearchInv == TypeOK /\ ZeroTail /\ BytesKept

LEMMA InitSearchInv == SearchInit => SearchInv
<1> SUFFICES ASSUME SearchInit PROVE SearchInv
  OBVIOUS
<1>1. 0 \in Index /\ 1 \in Length
  BY LengthAssumption DEF Index, Length
<1>2. TypeOK
  <2>1. instruction_bytes \in Instruction
    BY ZeroAndLast DEF SearchInit, Instruction
  <2>2. 0 \in 0 .. MaxInstructionLength
    BY LengthAssumption
  <2>3. origin \in Origin
    BY <1>1, <2>1, <2>2 DEF SearchInit, Origin
  <2> QED
    BY <1>1, <2>1, <2>2, <2>3 DEF SearchInit, TypeOK, PC
<1>3. ZeroTail /\ BytesKept
  BY <1>1 DEF SearchInit, ZeroTail, BytesKept
<1> QED
  BY <1>2, <1>3 DEF SearchInv

LEMMA NextSearchInv == SearchInv /\ [SearchNext]_searchVars => SearchInv'
<1> SUFFICES ASSUME SearchInv, [SearchNext]_searchVars
             PROVE  SearchInv'
  OBVIOUS
<1> USE LengthAssumption
<1>t. TypeOK /\ ZeroTail /\ BytesKept
  BY DEF SearchInv
<1>1. CASE Extend
  <2>1. TypeOK'
    BY <1>1, <1>t DEF Extend, TypeOK, Length
  <2>2. ZeroTail' /\ BytesKept'
    BY <1>1, <1>t DEF Extend, TypeOK, ZeroTail, BytesKept, Length, Index
  <2> QED
    BY <2>1, <2>2 DEF SearchInv
<1>2. CASE BeginSelect
  <2>1. origin' \in Origin
    BY <1>2, <1>t DEF BeginSelect, TypeOK, Origin
  <2>2. TypeOK'
    BY <1>2, <1>t, <2>1 DEF BeginSelect, TypeOK, PC, Length, Index
  <2>3. ZeroTail'
    BY <1>2, <1>t DEF BeginSelect, TypeOK, ZeroTail, Length, Index
  <2>4. BytesKept'
    <3>1. cur_byte_index' \in Index
      BY <2>2 DEF TypeOK
    <3>2. instruction_bytes'[cur_byte_index'] \in Int
      BY <2>2, <3>1, ByteIsInt DEF TypeOK, Instruction
    <3> QED
      BY <1>2, <1>t, <3>1, <3>2 DEF BeginSelect, TypeOK, BytesKept, Length, Index
  <2> QED
    BY <2>2, <2>3, <2>4 DEF SearchInv
<1>3. CASE Carry
  <2>1. TypeOK'
    <3>1. cur_byte_index' \in Index
      BY <1>3, <1>t DEF Carry, TypeOK, Index
    <3>2. instruction_bytes' \in Instruction
      BY <1>3, <1>t, ZeroAndLast DEF Carry, TypeOK, Instruction
    <3> QED
      BY <1>3, <1>t, <3>1, <3>2 DEF Carry, TypeOK
  <2>2. ZeroTail'
    <3>1. cur_byte_index' < cur_instruction_length'
      BY <1>3, <1>t DEF Carry, TypeOK, ZeroTail, Index, Length
    <3>2. ASSUME NEW j \in Index, j > cur_byte_index'
          PROVE  instruction_bytes'[j] = 0
      <4>1. CASE j = cur_byte_index
        BY <1>3, <1>t, <4>1 DEF Carry, TypeOK, Instruction
      <4>2. CASE j # cur_byte_index
        <5>1. j > cur_byte_index
          BY <1>3, <1>t, <3>2, <4>2 DEF Carry, TypeOK, Index
        <5> QED
          BY <1>3, <1>t, <4>2, <5>1 DEF Carry, TypeOK, ZeroTail, Instruction
      <4> QED
        BY <4>1, <4>2
    <3> QED
      BY <3>1, <3>2 DEF ZeroTail
  <2>3. BytesKept'
    <3>1. instruction_bytes[cur_byte_index - 1] = origin.bytes[cur_byte_index - 1]
      BY <1>3, <1>t DEF Carry, BytesKept, TypeOK, Index
    <3>2. instruction_bytes[cur_byte_index - 1] \in Int
      BY <1>3, <1>t, ByteIsInt DEF Carry, TypeOK, Instruction, Index
    <3> QED
      BY <1>3, <1>t, <3>1, <3>2 DEF Carry, BytesKept, TypeOK, Instruction, Index
  <2> QED
    BY <2>1, <2>2, <2>3 DEF SearchInv
<1>4. CASE Finish
  <2>1. TypeOK'
    BY <1>4, <1>t, ZeroAndLast DEF Finish, TypeOK, Instruction, Index, PC
  <2>2. ZeroTail' /\ BytesKept'
    BY <1>4, <1>t DEF Finish, TypeOK, ZeroTail, BytesKept, Instruction, Index
  <2> QED
    BY <2>1, <2>2 DEF SearchInv
<1>5. CASE EndCarry
  <2>1. TypeOK'
    BY <1>5, <1>t DEF EndCarry, TypeOK, Length, Index, PC
  <2>2. ZeroTail' /\ BytesKept'
    BY <1>5, <1>t DEF EndCarry, TypeOK, ZeroTail, BytesKept, Index
  <2> QED
    BY <2>1, <2>2 DEF SearchInv
<1>6. CASE Overflow
  BY <1>6, <1>t DEF Overflow, SearchInv, TypeOK, ZeroTail, BytesKept, PC
<1>7. CASE Increment
  <2>1. instruction_bytes[cur_byte_index] \in Byte \ {LastByte}
    BY <1>7, <1>t DEF Increment, TypeOK, Instruction
  <2>2. /\ Successor(instruction_bytes[cur_byte_index]) \in Byte
        /\ Successor(instruction_bytes[cur_byte_index]) > instruction_bytes[cur_byte_index]
    BY <2>1, SuccessorProperties
  <2>3. malformed_instruction_expect_ud' \in BOOLEAN
    BY <1>7 DEF Increment, MalformedExpectUd
  <2>4. TypeOK'
    BY <1>7, <1>t, <2>2, <2>3 DEF Increment, TypeOK, Instruction, PC
  <2>5. ZeroTail'
    BY <1>7, <1>t DEF Increment, TypeOK, ZeroTail, Instruction, Index
  <2>6. BytesKept'
    <3>1. /\ instruction_bytes'[cur_byte_index] = Successor(instruction_bytes[cur_byte_index])
          /\ \A j \in 0 .. cur_byte_index - 1 : instruction_bytes'[j] = instruction_bytes[j]
          /\ cur_byte_index' = cur_byte_index /\ origin' = origin
          /\ cur_instruction_length' = cur_instruction_length
          /\ pc = "increment"
      BY <1>7, <1>t DEF Increment, TypeOK, Instruction, Index
    <3>2. origin.bytes[cur_byte_index] \in Byte
      BY <1>t DEF TypeOK, Origin, Instruction
    <3>3. Successor(instruction_bytes[cur_byte_index]) >= origin.bytes[cur_byte_index]
      BY <3>1, <3>2, <2>1, <2>2, <1>t, ByteIsInt DEF BytesKept
    <3> QED
      BY <3>1, <3>3, <1>t DEF BytesKept
  <2> QED
    BY <2>4, <2>5, <2>6 DEF SearchInv
<1>8. CASE UNCHANGED searchVars
  BY <1>8, <1>t DEF searchVars, SearchInv, TypeOK, ZeroTail, BytesKept
<1> QED
  BY <1>1, <1>2, <1>3, <1>4, <1>5, <1>6, <1>7, <1>8 DEF SearchNext, Select

(* SearchInv is an invariant of the search.                                *)
THEOREM SearchInvariant == SearchSpec => []SearchInv
  BY InitSearchInv, NextSearchInv, PTL DEF SearchSpec

(* The globals keep their ranges: the length never exceeds the array, and  *)
(* cur_byte_index never runs below 0 or past it.                           *)
THEOREM TypeCorrect == SearchSpec => []TypeOK
<1>1. SearchInv => TypeOK
  BY DEF SearchInv
<1> QED
  BY <1>1, SearchInvariant, PTL

(* A grown instruction always continues with zeroes.                       *)
THEOREM ZeroTailHolds == SearchSpec => []ZeroTail
<1>1. SearchInv => ZeroTail
  BY DEF SearchInv
<1> QED
  BY <1>1, SearchInvariant, PTL

----------------------------------------------------------------------------
LEMMA SelectionAdvances ==
  ASSUME SearchInv, [SearchNext]_searchVars,
         pc # "executing", pc' = "executing"
  PROVE  LexLess(origin.bytes, instruction_bytes')
<1>1. Increment
  BY DEF SearchNext, Select, searchVars, Extend, BeginSelect, Carry, Finish,
         EndCarry, Overflow
<1>2. TypeOK /\ BytesKept
  BY DEF SearchInv
<1>3. instruction_bytes[cur_byte_index] \in Byte \ {LastByte}
  BY <1>1, <1>2 DEF Increment, TypeOK, Instruction
<1>4. origin.bytes[cur_byte_index] \in Byte
  BY <1>2 DEF TypeOK, Origin, Instruction
<1>5. /\ Successor(instruction_bytes[cur_byte_index]) > instruction_bytes[cur_byte_index]
      /\ Successor(instruction_bytes[cur_byte_index]) \in Byte
  BY <1>3, SuccessorProperties
<1>6. /\ instruction_bytes'[cur_byte_index] = Successor(instruction_bytes[cur_byte_index])
      /\ \A j \in 0 .. cur_byte_index - 1 : instruction_bytes'[j] = instruction_bytes[j]
  BY <1>1, <1>2 DEF Increment, TypeOK, Instruction, Index
<1>7. origin.bytes[cur_byte_index] < instruction_bytes'[cur_byte_index]
  BY <1>1, <1>2, <1>3, <1>4, <1>5, <1>6, ByteIsInt DEF BytesKept, Increment
<1>8. \A j \in 0 .. cur_byte_index - 1 : origin.bytes[j] = instruction_bytes'[j]
  BY <1>1, <1>2, <1>6 DEF BytesKept, Increment
<1> QED
  BY <1>2, <1>7, <1>8 DEF LexLess, TypeOK

(* The search never executes an instruction twice: each selection hands    *)
(* out an instruction strictly after the one it started from.              *)
THEOREM SearchNeverRevisits == SearchSpec => NeverRevisits
<1>1. SearchInv /\ [SearchNext]_searchVars =>
        (pc # "executing" /\ pc' = "executing"
           => LexLess(origin.bytes, instruction_bytes'))
  BY SelectionAdvances
<1> QED
  BY <1>1, SearchInvariant, PTL DEF SearchSpec, NeverRevisits
----------------------------------------------------------------------------
(* The search implements CandidateOrder: what the loops, the goto and the  *)
(* carries select is the first acceptable candidate in order, and nothing  *)
(* else.  The filter is not looked into: this holds whatever it rejects.   *)

(* The tunnelling rule and the last byte still to be incremented, of the   *)
(* globals that a selection started from.                                  *)
Leaves(o) == o.length = o.last /\ ~IsCountedPrefix(o.bytes, o.length, o.index)

Limit(o) == IF Leaves(o) THEN o.index ELSE o.length - 1

Rejected(c, k, w) == ContainsInvalidCountOfPrefixes(Order!Cut(c, k, w), k + 1)

LEMMA FrontierIsLimit ==
  ASSUME pc # "executing"
  PROVE  /\ Order!GivesUp <=> Leaves(origin)
         /\ Order!Frontier = Limit(origin)
BY DEF Order!GivesUp, Order!Frontier, InSelection, Leaves, Limit

LEMMA FrontierIsLimitNext ==
  ASSUME pc' # "executing"
  PROVE  /\ Order!GivesUp' <=> Leaves(origin')
         /\ Order!Frontier' = Limit(origin')
BY DEF Order!GivesUp, Order!Frontier, InSelection, Leaves, Limit

LEMMA LimitInIndex ==
  ASSUME NEW o \in Origin
  PROVE  Limit(o) \in Index
BY LengthAssumption DEF Limit, Origin, Index, Length

(* An instruction that agrees with c before byte k, and has only zeroes    *)
(* after it, is c cut at k.                                                *)
LEMMA AgreesUpToIsCut ==
  ASSUME NEW b \in [Index -> Byte], NEW c, NEW k \in Index,
         \A j \in 0 .. k - 1 : b[j] = c[j],
         \A j \in Index : j > k => b[j] = 0
  PROVE  b = Order!Cut(c, k, b[k])
<1>1. ASSUME NEW j \in Index
      PROVE  b[j] = IF j < k THEN c[j] ELSE IF j = k THEN b[k] ELSE 0
  <2>1. k \in Int /\ j \in Int /\ 0 <= j
    BY DEF Index
  <2>2. CASE j < k
    <3>1. b[j] = c[j]
      BY <2>1, <2>2
    <3> QED
      BY <2>1, <2>2, <3>1
  <2>3. CASE j = k
    BY <2>1, <2>3
  <2>4. CASE j > k
    BY <2>1, <2>4
  <2> QED
    BY <2>1, <2>2, <2>3, <2>4
<1> QED
  BY <1>1 DEF Order!Cut, Order!Index, Index

(* SelectionInvariant in terms of the globals alone.                       *)
Between(o) ==
  /\ cur_byte_index <= Limit(o)
  /\ \A j \in 0 .. cur_byte_index - 1 : instruction_bytes[j] = o.bytes[j]
  /\ instruction_bytes[cur_byte_index] >= o.bytes[cur_byte_index]
  /\ \A w \in Byte :
       o.bytes[cur_byte_index] < w /\ w <= instruction_bytes[cur_byte_index]
         => Rejected(o.bytes, cur_byte_index, w)
  /\ \A j \in cur_byte_index + 1 .. Limit(o), w \in Byte :
       w > o.bytes[j] => Rejected(o.bytes, j, w)
  /\ pc = "increment" => cur_instruction_length = cur_byte_index + 1
  /\ last_instruction_length = IF Leaves(o) THEN o.last ELSE o.length

SkipInv == pc \in {"carry", "increment"} => Between(origin)

LEMMA SkipInvIsSelectionInvariant == SkipInv <=> SelectionInvariant
BY FrontierIsLimit
DEF SkipInv, Between, SelectionInvariant, Order!Accepts, Rejected

(* What Increment makes of the instruction.                                *)
LEMMA CandidateIsCut ==
  ASSUME SearchInv, Between(origin), NEW s \in Byte,
         instruction_bytes' = [instruction_bytes EXCEPT ![cur_byte_index] = s]
  PROVE  instruction_bytes' = Order!Cut(origin.bytes, cur_byte_index, s)
<1>1. cur_byte_index \in Index /\ instruction_bytes \in [Index -> Byte]
  BY DEF SearchInv, TypeOK, Instruction
<1>2. instruction_bytes' \in [Index -> Byte] /\ instruction_bytes'[cur_byte_index] = s
  BY <1>1
<1>3. ASSUME NEW j \in 0 .. cur_byte_index - 1
      PROVE  instruction_bytes'[j] = origin.bytes[j]
  <2>1. j \in Index /\ j # cur_byte_index
    BY <1>1, LengthAssumption DEF Index
  <2> QED
    BY <1>1, <2>1 DEF Between
<1>4. ASSUME NEW j \in Index, j > cur_byte_index
      PROVE  instruction_bytes'[j] = 0
  <2>1. j # cur_byte_index
    BY <1>1, <1>4 DEF Index
  <2> QED
    BY <1>1, <1>4, <2>1 DEF SearchInv, ZeroTail
<1> QED
  BY <1>1, <1>2, <1>3, <1>4, AgreesUpToIsCut

LEMMA InitSkipInv == SearchInit => SkipInv
BY DEF SearchInit, SkipInv

LEMMA NextSkipInv ==
  SearchInv /\ SkipInv /\ [SearchNext]_searchVars => SkipInv'
<1> SUFFICES ASSUME SearchInv, SkipInv, [SearchNext]_searchVars,
                    pc' \in {"carry", "increment"}
             PROVE  Between(origin)'
  BY DEF SkipInv
<1>t. TypeOK /\ ZeroTail
  BY DEF SearchInv
<1>r. /\ cur_byte_index \in Index
      /\ instruction_bytes \in [Index -> Byte]
      /\ origin.bytes \in [Index -> Byte]
      /\ Limit(origin) \in Index
      /\ cur_instruction_length \in Length
  BY <1>t, LimitInIndex DEF TypeOK, Instruction, Origin
<1>1. CASE Extend
  BY <1>1 DEF Extend
<1>2. CASE BeginSelect
  <2>1. origin'.bytes = instruction_bytes /\ instruction_bytes' = instruction_bytes
    BY <1>2 DEF BeginSelect
  <2>2. /\ Limit(origin') = cur_byte_index'
        /\ last_instruction_length' =
             IF Leaves(origin') THEN origin'.last ELSE origin'.length
        /\ pc' = "increment" => cur_instruction_length' = cur_byte_index' + 1
    BY <1>2, <1>r DEF BeginSelect, StaysOnByte, Limit, Leaves, Length
  <2>3. cur_byte_index' \in Index
    BY <1>2, <1>r, LengthAssumption DEF BeginSelect, Length, Index
  <2>4. instruction_bytes[cur_byte_index'] \in Int
    BY <2>3, <1>r, ByteIsInt
  <2>5. \A w \in Byte : ~(instruction_bytes[cur_byte_index'] < w
                            /\ w <= instruction_bytes[cur_byte_index'])
    BY <2>4, ByteIsInt
  <2>6. \A j \in cur_byte_index' + 1 .. Limit(origin') : FALSE
    <3>1. cur_byte_index' \in Int
      BY <2>3 DEF Index
    <3>2. Limit(origin') \in Int /\ Limit(origin') = cur_byte_index'
      BY <2>2, <3>1
    <3>3. \A x \in Int : \A j \in x + 1 .. x : FALSE
      OBVIOUS
    <3> QED
      BY <3>1, <3>2, <3>3, Zenon
  <2>7. /\ cur_byte_index' <= Limit(origin')
        /\ instruction_bytes'[cur_byte_index'] >= origin'.bytes[cur_byte_index']
    <3>1. cur_byte_index' \in Int
      BY <2>3 DEF Index
    <3> QED
      BY <2>1, <2>2, <2>4, <3>1
  <2> QED
    BY <2>1, <2>2, <2>5, <2>6, <2>7 DEF Between
<1>3. CASE Carry
  <2>1. /\ Between(origin)
        /\ origin' = origin
        /\ instruction_bytes[cur_byte_index] = LastByte
        /\ cur_byte_index' = cur_byte_index - 1
        /\ cur_byte_index' \in Index
        /\ last_instruction_length' = last_instruction_length
        /\ pc' = "carry"
    <3>1. /\ Between(origin)
          /\ origin' = origin
          /\ instruction_bytes[cur_byte_index] = LastByte
          /\ cur_byte_index' = cur_byte_index - 1
          /\ cur_byte_index # 0
          /\ last_instruction_length' = last_instruction_length
          /\ pc' = "carry"
      BY <1>3 DEF Carry, SkipInv
    <3>2. cur_byte_index' \in Index
      BY <3>1, <1>r, LengthAssumption DEF Index
    <3> QED
      BY <3>1, <3>2
  <2>2. \A j \in Index : j # cur_byte_index => instruction_bytes'[j] = instruction_bytes[j]
    BY <1>3, <1>r DEF Carry
  <2>3. instruction_bytes'[cur_byte_index'] = origin.bytes[cur_byte_index']
    <3>1. cur_byte_index' \in 0 .. cur_byte_index - 1 /\ cur_byte_index' # cur_byte_index
      BY <2>1, <1>r, LengthAssumption DEF Index
    <3> QED
      BY <2>1, <2>2, <3>1 DEF Between
  <2>4. origin.bytes[cur_byte_index'] \in Int
    BY <2>1, <1>r, ByteIsInt
  <2>5. ASSUME NEW j \in 0 .. cur_byte_index' - 1
        PROVE  instruction_bytes'[j] = origin.bytes[j]
    <3>1. j \in 0 .. cur_byte_index - 1 /\ j \in Index /\ j # cur_byte_index
      BY <2>1, <1>r, LengthAssumption DEF Index
    <3> QED
      BY <2>1, <2>2, <3>1 DEF Between
  <2>6. \A w \in Byte : w > origin.bytes[cur_byte_index]
                          => Rejected(origin.bytes, cur_byte_index, w)
    BY <2>1, ByteIsInt, <1>r DEF Between
  <2>7. \A j \in cur_byte_index' + 1 .. Limit(origin), w \in Byte :
          w > origin.bytes[j] => Rejected(origin.bytes, j, w)
    BY <2>1, <2>6, <1>r DEF Between, Index
  <2>8. cur_byte_index' <= Limit(origin)
    BY <2>1, <1>r DEF Between, Index
  <2>9. \A w \in Byte : ~(origin.bytes[cur_byte_index'] < w
                            /\ w <= instruction_bytes'[cur_byte_index'])
    BY <2>3, <2>4, ByteIsInt
  <2> QED
    BY <2>1, <2>3, <2>4, <2>5, <2>7, <2>8, <2>9 DEF Between
<1>4. CASE Finish
  BY <1>4 DEF Finish
<1>5. CASE EndCarry
  <2>1. Between(origin)
    BY <1>5 DEF EndCarry, SkipInv
  <2> QED
    BY <1>5, <2>1 DEF EndCarry, Between
<1>6. CASE Overflow
  <2>1. Between(origin)
    BY <1>6 DEF Overflow, SkipInv
  <2> QED
    BY <1>6, <2>1 DEF Overflow, Between
<1>7. CASE Increment
  <2>1. /\ Between(origin)
        /\ origin' = origin
        /\ cur_byte_index' = cur_byte_index
        /\ cur_instruction_length' = cur_instruction_length
        /\ last_instruction_length' = last_instruction_length
        /\ pc = "increment" /\ pc' = "increment"
        /\ cur_instruction_length = cur_byte_index + 1
        /\ ContainsInvalidCountOfPrefixes(instruction_bytes', cur_byte_index + 1)
    BY <1>7 DEF Increment, SkipInv, Between
  <2> DEFINE v == instruction_bytes[cur_byte_index]
             s == Successor(v)
  <2>2. v \in Byte \ {LastByte}
    BY <1>7, <1>r DEF Increment
  <2>3. s \in Byte /\ s > v /\ \A d \in Byte : d > v => s <= d
    BY <2>2, SuccessorProperties
  <2>4. instruction_bytes' = [instruction_bytes EXCEPT ![cur_byte_index] = s]
    BY <1>7 DEF Increment
  <2> HIDE DEF s
  <2>5. instruction_bytes' = Order!Cut(origin.bytes, cur_byte_index, s)
    BY <2>1, <2>3, <2>4, <1>r, CandidateIsCut
  <2>6. Rejected(origin.bytes, cur_byte_index, s)
    BY <2>1, <2>5 DEF Rejected
  <2>7. instruction_bytes'[cur_byte_index] = s
    BY <2>4, <1>r
  <2>8. origin.bytes[cur_byte_index] \in Int /\ v \in Int /\ s \in Int
    BY <1>r, <2>3, ByteIsInt
  <2>9. \A w \in Byte : origin.bytes[cur_byte_index] < w /\ w <= s
                          => Rejected(origin.bytes, cur_byte_index, w)
    <3> SUFFICES ASSUME NEW w \in Byte, origin.bytes[cur_byte_index] < w, w <= s
                 PROVE  Rejected(origin.bytes, cur_byte_index, w)
      OBVIOUS
    <3>1. w \in Int
      BY ByteIsInt
    <3>2. CASE w <= v
      BY <2>1, <3>2 DEF Between
    <3>3. CASE w > v
      <4>1. w = s
        BY <2>3, <2>8, <3>1, <3>3
      <4> QED
        BY <4>1, <2>6
    <3> QED
      BY <2>8, <3>1, <3>2, <3>3
  <2>10. \A j \in 0 .. cur_byte_index - 1 : instruction_bytes'[j] = origin.bytes[j]
    BY <2>1, <2>4, <1>r DEF Between, Index
  <2>11. s >= origin.bytes[cur_byte_index]
    BY <2>1, <2>3, <2>8 DEF Between
  <2> QED
    BY <2>1, <2>7, <2>9, <2>10, <2>11 DEF Between
<1>8. CASE UNCHANGED searchVars
  <2>1. Between(origin)
    BY <1>8 DEF searchVars, SkipInv
  <2> QED
    BY <1>8, <2>1 DEF searchVars, Between
<1> QED
  BY <1>1, <1>2, <1>3, <1>4, <1>5, <1>6, <1>7, <1>8 DEF SearchNext, Select

LEMMA SkipInvariant == SearchSpec => [](SearchInv /\ SkipInv)
BY InitSearchInv, NextSearchInv, InitSkipInv, NextSkipInv, PTL DEF SearchSpec

(* Between its start and its end a selection has passed only what the      *)
(* filter rejects, across the goto and the cuts.                           *)
THEOREM SelectionInvariantHolds == SearchSpec => []SelectionInvariant
BY SkipInvariant, SkipInvIsSelectionInvariant, PTL

----------------------------------------------------------------------------
LEMMA InitRefines == SearchInit => Order!OrderInit
BY DEF SearchInit, Order!OrderInit, InSelection, Index, Order!Index

(* Every step of the search is a step of the abstract order, or a stutter. *)
LEMMA NextRefines ==
  SearchInv /\ SkipInv /\ [SearchNext]_searchVars => [Order!OrderNext]_Order!orderVars
<1> SUFFICES ASSUME SearchInv, SkipInv, [SearchNext]_searchVars
             PROVE  [Order!OrderNext]_Order!orderVars
  OBVIOUS
<1>t. TypeOK /\ ZeroTail
  BY DEF SearchInv
<1>r. /\ cur_byte_index \in Index
      /\ instruction_bytes \in [Index -> Byte]
      /\ origin.bytes \in [Index -> Byte]
      /\ Limit(origin) \in Index
  BY <1>t, LimitInIndex DEF TypeOK, Instruction, Origin
<1>1. CASE Extend
  <2>1. Order!Lengthen
    BY <1>1 DEF Extend, Order!Lengthen, InSelection
  <2> QED
    BY <2>1 DEF Order!OrderNext
<1>2. CASE BeginSelect
  BY <1>2 DEF BeginSelect, Order!orderVars, InSelection
<1>3. CASE Carry
  BY <1>3 DEF Carry, Order!orderVars, InSelection
<1>4. CASE Finish
  <2>1. /\ Between(origin)
        /\ pc = "carry" /\ pc' = "halted" /\ origin' = origin
        /\ cur_byte_index = 0
        /\ instruction_bytes[0] = LastByte
    BY <1>4 DEF Finish, SkipInv
  <2>2. \A k \in 0 .. Limit(origin), w \in Byte :
          w > origin.bytes[k] => Rejected(origin.bytes, k, w)
    BY <2>1, <1>r, ByteIsInt DEF Between, Index
  <2>3. \A k \in 0 .. Order!Frontier, w \in Byte :
          w > origin.bytes[k] => ~Order!Accepts(origin.bytes, k, w)
    BY <2>1, <2>2, FrontierIsLimit DEF Order!Accepts, Rejected
  <2>4. Order!Exhaust
    BY <2>1, <2>3 DEF Order!Exhaust, InSelection
  <2> QED
    BY <2>4 DEF Order!OrderNext
<1>5. CASE EndCarry
  BY <1>5 DEF EndCarry, Order!orderVars, InSelection
<1>6. CASE Overflow
  BY <1>6 DEF Overflow, Order!orderVars, InSelection
<1>7. CASE Increment
  <2>1. CASE pc' = "increment"
    BY <1>7, <2>1 DEF Increment, Order!orderVars, InSelection
  <2>2. CASE pc' = "executing"
    <3> DEFINE k == cur_byte_index
               v == instruction_bytes[cur_byte_index]
               s == Successor(v)
    <3>1. /\ Between(origin)
          /\ origin' = origin
          /\ pc = "increment"
          /\ k' = k
          /\ cur_instruction_length' = k + 1
          /\ last_instruction_length' =
               IF Leaves(origin) THEN origin.last ELSE origin.length
          /\ ~ContainsInvalidCountOfPrefixes(instruction_bytes', k + 1)
      BY <1>7, <2>2 DEF Increment, SkipInv, Between
    <3>2. v \in Byte \ {LastByte}
      BY <1>7, <1>r DEF Increment
    <3>3. s \in Byte /\ s > v /\ \A d \in Byte : d > v => s <= d
      BY <3>2, SuccessorProperties
    <3>4. instruction_bytes' = [instruction_bytes EXCEPT ![k] = s]
      BY <1>7 DEF Increment
    <3> HIDE DEF s
    <3>5. instruction_bytes' = Order!Cut(origin.bytes, k, s)
      BY <3>1, <3>3, <3>4, <1>r, CandidateIsCut
    <3>6. origin.bytes[k] \in Int /\ v \in Int /\ s \in Int
      BY <1>r, <3>3, ByteIsInt
    <3>7. s > origin.bytes[k]
      BY <3>1, <3>3, <3>6 DEF Between
    <3>8. Order!Accepts(origin.bytes, k, s)
      BY <3>1, <3>5 DEF Order!Accepts
    <3>9. \A w \in Byte : origin.bytes[k] < w /\ w < s => ~Order!Accepts(origin.bytes, k, w)
      BY <3>1, <3>3, <3>6, ByteIsInt DEF Between, Order!Accepts, Rejected
    <3>10. \A j \in k + 1 .. Order!Frontier, w \in Byte :
             w > origin.bytes[j] => ~Order!Accepts(origin.bytes, j, w)
      BY <3>1, FrontierIsLimit DEF Between, Order!Accepts, Rejected
    <3>11. k \in 0 .. Order!Frontier
      BY <3>1, <1>r, FrontierIsLimit DEF Between, Index
    <3>12. last_instruction_length' = IF Order!GivesUp THEN origin.last ELSE origin.length
      BY <3>1, FrontierIsLimit
    <3>13. Order!Advance
      BY <2>2, <3>1, <3>3, <3>5, <3>7, <3>8, <3>9, <3>10, <3>11, <3>12
      DEF Order!Advance, InSelection
    <3> QED
      BY <3>13 DEF Order!OrderNext
  <2> QED
    BY <1>7, <2>1, <2>2 DEF Increment
<1>8. CASE UNCHANGED searchVars
  BY <1>8 DEF searchVars, Order!orderVars, InSelection
<1> QED
  BY <1>1, <1>2, <1>3, <1>4, <1>5, <1>6, <1>7, <1>8 DEF SearchNext, Select

(* The loops of check_last_instruction select the first acceptable         *)
(* candidate in order, and Done means that none is left.                   *)
THEOREM SearchImplementsOrder == SearchSpec => ImplementsOrder
<1>1. SearchInit => Order!OrderInit
  BY InitRefines
<1>2. SearchInv /\ SkipInv /\ [SearchNext]_searchVars => [Order!OrderNext]_Order!orderVars
  BY NextRefines
<1> QED
  BY <1>1, <1>2, SkipInvariant, PTL DEF SearchSpec, ImplementsOrder, Order!OrderSpec

----------------------------------------------------------------------------
(* The prefix count and the filter.  They are two tables of the same bytes *)
(* that differ: the count goes on where the filter stops at an EVEX.  What *)
(* the count reads is bounded only through what the filter has accepted.   *)
Counted(bytes, j) == IsPrefix(bytes[j], NextByte(bytes, j)) /\ bytes[j] \notin {\hc4, \hc5}

(* Zero, and the second payload byte that EVEX is allowed, are no prefixes. *)
LEMMA ZeroIsNoPrefix == \A next : ~IsPrefix(0, next)
  BY DEF IsPrefix

LEMMA PayloadIsNoPrefix ==
  \A b \in 0 .. 255 : (b \div 8) % 16 = 0 => \A next : ~IsPrefix(b, next)
<1> SUFFICES ASSUME NEW b \in 0 .. 255, (b \div 8) % 16 = 0, NEW next, IsPrefix(b, next)
             PROVE  FALSE
  OBVIOUS
<1>1. b \in 0 .. 7 \/ b \in 128 .. 135
  OBVIOUS
<1> QED
  BY <1>1 DEF IsPrefix

(* A byte that counts is a plain prefix for the filter, or an EVEX.        *)
LEMMA CountedKind ==
  ASSUME NEW bytes \in Instruction, NEW length \in Length, NEW k \in Index,
         k + 1 \in Index, k + 1 < length, Counted(bytes, k)
  PROVE  /\ Kind(bytes[k]) \in PlainPrefix \cup {"evex"}
         /\ ~IsOpcode(bytes, length, k)
<1> DEFINE b == bytes[k]
<1>1. b \in 0 .. 255 /\ bytes[k + 1] \in 0 .. 255
  BY ByteIsInt DEF Instruction, LastByte
<1>2. b \notin {\hc4, \hc5} /\ NextByte(bytes, k) = bytes[k + 1]
  BY DEF Counted, NextByte
<1>3. IsPrefix(b, bytes[k + 1])
  BY <1>2 DEF Counted
<1>4. k + 1 # length
  BY DEF Index, Length
<1> HIDE DEF b
<1>5. CASE b = \h62
  <2>1. CPU_MODE = 64 \/ bytes[k + 1] >= \hc0
    BY <1>3, <1>5 DEF IsPrefix
  <2>2. Kind(b) = "evex"
    BY <1>5 DEF Kind
  <2> QED
    BY <1>1, <1>4, <2>1, <2>2 DEF b, IsOpcode
<1>6. CASE b # \h62
  <2>1. \/ b \in {\h26, \h2e, \h36, \h3e, \h64, \h65, \h66, \h67, \hf0, \hf2, \hf3}
        \/ b \in \h40 .. \h4f /\ CPU_MODE = 64
    BY <1>2, <1>3, <1>6 DEF IsPrefix, b
  <2>2. Kind(b) \in PlainPrefix
    BY <2>1 DEF Kind, PlainPrefix
  <2>3. Kind(b) \notin {"opcode", "evex", "vex"}
    BY <2>2 DEF PlainPrefix
  <2> QED
    BY <2>2, <2>3 DEF b, IsOpcode
<1> QED
  BY <1>5, <1>6

(* If the filter accepted the first a bytes and the others are 0, the      *)
(* count stops before the last byte but one.  The longest way there is     *)
(* MAX_PREFIXES prefixes, one of them an EVEX, and two payload bytes.      *)
LEMMA CountStops ==
  ASSUME MAX_PREFIXES + 4 <= MaxInstructionLength,
         NEW bytes \in Instruction, NEW a \in Length,
         ~ContainsInvalidCountOfPrefixes(bytes, a),
         \A j \in Index : j >= a => bytes[j] = 0,
         \A j \in 0 .. MaxInstructionLength - 2 : Counted(bytes, j)
  PROVE  FALSE
<1> USE LengthAssumption, FilterAssumption
<1>1. a >= MaxInstructionLength - 1
  <2> SUFFICES ASSUME a < MaxInstructionLength - 1 PROVE FALSE
    BY DEF Length
  <2>1. a \in Index /\ a \in 0 .. MaxInstructionLength - 2
    BY DEF Length, Index
  <2>2. bytes[a] = 0
    BY <2>1 DEF Index
  <2> QED
    BY <2>1, <2>2, ZeroIsNoPrefix DEF Counted
<1>2. PICK k \in Nat : ~PassesPrefix(bytes, k) /\ \A n \in Nat : ~PassesPrefix(bytes, n) => k <= n
  <2> DEFINE T == {n \in Nat : ~PassesPrefix(bytes, n)}
  <2>1. MAX_PREFIXES \in T
    BY DEF PassesPrefix
  <2>2. T \in SUBSET Nat
    OBVIOUS
  <2>3. \E m \in T : \A n \in T : m <= n
    <3> HIDE DEF T
    <3> QED
      BY <2>1, <2>2, LeastNumber
  <2> QED
    BY <2>3
<1>3. k <= MAX_PREFIXES
  BY <1>2 DEF PassesPrefix
<1>4. Reaches(bytes, k)
  BY <1>2 DEF Reaches
<1>5. k \in 0 .. a - 1 /\ ~RejectsAt(bytes, a, k)
  BY <1>1, <1>3, <1>4 DEF ContainsInvalidCountOfPrefixes, Length
<1>6. /\ k \in Index /\ k + 1 \in Index /\ k + 1 < a
      /\ k \in 0 .. MaxInstructionLength - 2 /\ k + 2 \in 0 .. MaxInstructionLength - 2
  BY <1>1, <1>3 DEF Index, Length
<1>7. Kind(bytes[k]) \in PlainPrefix \cup {"evex"} /\ ~IsOpcode(bytes, a, k)
  BY <1>6, CountedKind
<1>8. ~IsRepeated(bytes, k) /\ k < MAX_PREFIXES
  BY <1>5, <1>7 DEF RejectsAt
<1>9. Kind(bytes[k]) = "evex"
  BY <1>2, <1>7, <1>8 DEF PassesPrefix
<1>10. EvexPayloadAllowed(bytes, a, k)
  BY <1>5, <1>7, <1>9 DEF RejectsAt
<1>11. k + 3 < a
  BY <1>1, <1>8 DEF Length
<1>12. (bytes[k + 2] \div 8) % 16 = 0
  BY <1>10, <1>11 DEF EvexPayloadAllowed
<1>13. bytes[k + 2] \in 0 .. 255
  <2>1. k + 2 \in Index
    BY <1>6 DEF Index
  <2>2. bytes[k + 2] \in Byte
    BY <2>1 DEF Instruction
  <2> QED
    BY <2>2, ByteIsInt DEF LastByte
<1> QED
  BY <1>6, <1>12, <1>13, PayloadIsNoPrefix DEF Counted

(* What is executed was accepted up to the byte incremented last; what was *)
(* appended since is 0.                                                    *)
Accepted ==
  pc = "executing" => ~ContainsInvalidCountOfPrefixes(instruction_bytes, cur_byte_index + 1)

LEMMA AcceptedInBounds ==
  MAX_PREFIXES + 4 <= MaxInstructionLength /\ SearchInv /\ Accepted => PrefixScanInBounds
<1> SUFFICES ASSUME MAX_PREFIXES + 4 <= MaxInstructionLength, SearchInv, Accepted,
                    pc = "executing", NEW i \in 0 .. cur_instruction_length - 1,
                    CountReaches(instruction_bytes, cur_instruction_length, i),
                    ~(i + 1 < MaxInstructionLength)
             PROVE  FALSE
  BY DEF PrefixScanInBounds
<1>1. TypeOK /\ ZeroTail
  BY DEF SearchInv
<1>2. i = MaxInstructionLength - 1
  BY <1>1, LengthAssumption DEF TypeOK, Length
<1>3. \A j \in 0 .. MaxInstructionLength - 2 : Counted(instruction_bytes, j)
  BY <1>2, LengthAssumption DEF CountReaches, Counted
<1>4. cur_byte_index + 1 \in Length /\ instruction_bytes \in Instruction
  BY <1>1, LengthAssumption DEF TypeOK, Length, Index
<1>5. \A j \in Index : j >= cur_byte_index + 1 => instruction_bytes[j] = 0
  BY <1>1 DEF ZeroTail, TypeOK, Index
<1> QED
  BY <1>3, <1>4, <1>5, CountStops DEF Accepted

LEMMA InitAccepted == SearchInit => Accepted
<1> SUFFICES ASSUME SearchInit, ContainsInvalidCountOfPrefixes(instruction_bytes, 1)
             PROVE  FALSE
  <2>1. SearchInit => cur_byte_index + 1 = 1
    BY DEF SearchInit
  <2> QED
    BY <2>1 DEF Accepted
<1>0. PICK i \in 0 .. 1 - 1 : RejectsAt(instruction_bytes, 1, i)
  BY DEF ContainsInvalidCountOfPrefixes
<1>1. instruction_bytes[i] = 0
  BY LengthAssumption DEF SearchInit, Index
<1>2. Kind(0) = "opcode"
  BY DEF Kind
<1> QED
  BY <1>0, <1>1, <1>2 DEF RejectsAt, IsOpcode

LEMMA NextAccepted == SearchInv /\ Accepted /\ [SearchNext]_searchVars => Accepted'
<1> SUFFICES ASSUME SearchInv, Accepted, [SearchNext]_searchVars, pc' = "executing"
             PROVE  ~ContainsInvalidCountOfPrefixes(instruction_bytes, cur_byte_index + 1)'
  BY DEF Accepted
<1>1. CASE Extend \/ UNCHANGED searchVars
  BY <1>1 DEF Extend, searchVars, Accepted
<1>2. CASE Increment
  BY <1>2 DEF Increment, SearchInv, BytesKept
<1>3. CASE BeginSelect \/ Carry \/ Finish \/ EndCarry \/ Overflow
  BY <1>3 DEF BeginSelect, Carry, Finish, EndCarry, Overflow
<1> QED
  BY <1>1, <1>2, <1>3 DEF SearchNext, Select

(* count_prefixes stays inside instruction_bytes, in every mode: the array *)
(* has room for MAX_PREFIXES prefixes and four bytes more.                 *)
THEOREM PrefixScanStaysInside ==
  ASSUME MAX_PREFIXES + 4 <= MaxInstructionLength
  PROVE  SearchSpec => []PrefixScanInBounds
<1>1. SearchInv /\ Accepted => PrefixScanInBounds
  BY AcceptedInBounds
<1> QED
  BY <1>1, InitAccepted, NextAccepted, SearchInvariant, PTL DEF SearchSpec
=============================================================================
