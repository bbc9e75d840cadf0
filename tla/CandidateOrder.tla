--------------------------- MODULE CandidateOrder ---------------------------
(***************************************************************************)
(* What the search promises, one step per instruction: the candidates come *)
(* in increasing order, each the first one that the filter accepts among   *)
(* those the tunnelling rule still wants, and the search ends only when    *)
(* none is left.  There is no loop, no carry and no goto here.             *)
(***************************************************************************)
EXTENDS Integers

CONSTANTS
  Byte,                   \* the values of a byte
  MaxInstructionLength,   \* how many bytes an instruction has at most
  Invalid(_, _),          \* does the filter reject the instruction of this length?
  CountsAsPrefix(_, _, _) \* is this byte of the instruction one of its prefixes?

VARIABLES
  candidate,   \* the instruction given to the CPU, 0 after its last byte
  length,      \* how many of its bytes the CPU has been given
  position,    \* the byte that was incremented last
  lastLength,  \* the length at the last jump to an instruction's last byte
  finished

Index == 0 .. MaxInstructionLength - 1

orderVars == <<candidate, length, position, lastLength, finished>>

OrderInit ==
  /\ candidate = [i \in Index |-> 0]
  /\ length = 1
  /\ position = 0
  /\ lastLength = 0
  /\ finished = FALSE

(* The CPU wants a longer instruction.                                     *)
Lengthen ==
  /\ ~finished
  /\ length < MaxInstructionLength
  /\ length' = length + 1
  /\ UNCHANGED <<candidate, position, lastLength, finished>>

(* Byte k set to v and every byte after it 0.                              *)
Cut(c, k, v) == [j \in Index |-> IF j < k THEN c[j] ELSE IF j = k THEN v ELSE 0]

Accepts(c, k, v) == ~Invalid(Cut(c, k, v), k + 1)

(* The tunnelling rule.  A byte whose increment left the length as it was  *)
(* is given up with all bytes after it, unless it is a prefix: a prefix    *)
(* changes what the bytes after it mean, so they are tried again.          *)
GivesUp ==
  /\ length = lastLength
  /\ ~CountsAsPrefix(candidate, length, position)

(* The last byte still to be incremented.                                  *)
Frontier == IF GivesUp THEN position ELSE length - 1

Advance ==
  /\ ~finished
  /\ \E k \in 0 .. Frontier, v \in Byte :
       /\ v > candidate[k]
       /\ Accepts(candidate, k, v)
       /\ \A w \in Byte : candidate[k] < w /\ w < v => ~Accepts(candidate, k, w)
       /\ \A j \in k + 1 .. Frontier, w \in Byte :
            w > candidate[j] => ~Accepts(candidate, j, w)
       /\ candidate' = Cut(candidate, k, v)
       /\ length' = k + 1
       /\ position' = k
  /\ lastLength' = IF GivesUp THEN lastLength ELSE length
  /\ UNCHANGED finished

(* Nothing acceptable is left at any byte.                                 *)
Exhaust ==
  /\ ~finished
  /\ \A k \in 0 .. Frontier, w \in Byte :
       w > candidate[k] => ~Accepts(candidate, k, w)
  /\ finished' = TRUE
  /\ UNCHANGED <<candidate, length, position, lastLength>>

OrderNext == Lengthen \/ Advance \/ Exhaust

OrderSpec == OrderInit /\ [][OrderNext]_orderVars
=============================================================================
