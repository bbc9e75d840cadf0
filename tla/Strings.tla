------------------------------ MODULE Strings ------------------------------
(***************************************************************************)
(* string.c: the functions XED's library and the compiler call.  Memory is *)
(* as the pointers see it: a string ends at the first 0, and what lies     *)
(* behind a buffer is other data of the program.  Each loop is a recursive *)
(* function of the position; a call with all of them is one step.          *)
(***************************************************************************)
EXTENDS Integers

CONSTANTS
  Cells,      \* how much of the memory is looked at
  Character   \* the bytes looked at, 0 among them

ASSUME MemoryAssumption == Cells \in Nat /\ Character \subseteq 0 .. 255

Position == 0 .. Cells - 1
Memory == [Position -> Character]

(* Nothing is looked at behind the memory; StringsInit's strings end       *)
(* before.                                                                 *)
LastCell(k) == k = Cells - 1

VARIABLES
  dst, src,   \* the strings or buffers of a call of each function
  size,       \* memcmp's n and strncat's size
  dest_size,  \* strcat_s's
  results     \* what each function makes of them; empty before the call

stringVars == <<dst, src, size, dest_size, results>>

strlen(s) ==
  LET from[k \in Position] == IF s[k] = 0 \/ LastCell(k) THEN k ELSE from[k + 1]
  IN  from[0]

StringsInit ==
  /\ dst \in {s \in Memory : \E k \in Position : s[k] = 0}
  /\ src \in {s \in Memory : \E k \in Position : s[k] = 0}
  /\ strlen(dst) + strlen(src) < Cells
  /\ size \in Position /\ dest_size \in Position
  /\ results = <<>>

----------------------------------------------------------------------------
(* (int) of a plain char, which is signed for the Makefile's target.       *)
Signed(byte) == IF byte < 128 THEN byte ELSE byte - 256

strcmp ==
  LET from[k \in Position] ==
        IF dst[k] # 0 /\ dst[k] = src[k] /\ ~LastCell(k) THEN from[k + 1]
        ELSE Signed(dst[k]) - Signed(src[k])
  IN  from[0]

(* It reads unsigned char, and when all the bytes are equal it compares    *)
(* the ones behind them.                                                   *)
memcmp ==
  LET from[k \in Position] ==
        IF k < size /\ dst[k] = src[k] THEN from[k + 1] ELSE dst[k] - src[k]
  IN  IF size = 0 THEN 0 ELSE from[0]

(* How many characters of src a loop copies that is limited to that many.  *)
Copied(limit) ==
  LET from[k \in Position] == IF k < limit /\ src[k] # 0 THEN from[k + 1] ELSE k
  IN  from[0]

(* They go behind dst's string.                                            *)
Behind(count) ==
  [k \in Position |-> IF k \in strlen(dst) .. strlen(dst) + count - 1
                      THEN src[k - strlen(dst)] ELSE dst[k]]

Ended(count) == [Behind(count) EXCEPT ![strlen(dst) + count] = 0]

strncat == Ended(Copied(size))

(* Faulty strcat_s: what does not fit is cut off.                          *)
strcat_sCuts ==
  LET room == dest_size - strlen(dst) IN
  IF room <= 0 THEN [dst |-> dst, returns |-> "halt"]
  ELSE [dst |-> Ended(Copied(room)), returns |-> "0"]

strcat_s ==
  LET room == dest_size - strlen(dst)
      count == Copied(room)
  IN  CASE room <= 0 -> [dst |-> dst, returns |-> "halt"]
        [] room > 0 /\ count = room /\ src[count] # 0 ->
             [dst |-> [Behind(count) EXCEPT ![0] = 0], returns |-> "1"]
        [] OTHER -> [dst |-> Ended(count), returns |-> "0"]

Call ==
  /\ results = <<>>
  /\ results' = <<[strlen |-> strlen(dst), strcmp |-> strcmp, memcmp |-> memcmp,
                   strncat |-> strncat, strcat_s |-> strcat_s]>>
  /\ UNCHANGED <<dst, src, size, dest_size>>

StringsSpec == StringsInit /\ [][Call]_stringVars

----------------------------------------------------------------------------
Sign(n) == IF n < 0 THEN -1 ELSE IF n > 0 THEN 1 ELSE 0

IsString(s, n) == s[n] = 0 /\ \A k \in 0 .. n - 1 : s[k] # 0

FirstDifference(k) == dst[k] # src[k] /\ \A j \in 0 .. k - 1 : dst[j] = src[j]

(* now holds dst's string followed by the first n characters of src.       *)
Concatenated(now, n) ==
  /\ IsString(now, strlen(dst) + n)
  /\ \A k \in 0 .. strlen(dst) - 1 : now[k] = dst[k]
  /\ \A k \in 0 .. n - 1 : now[strlen(dst) + k] = src[k]

SameHalf(k) == dst[k] < 128 <=> src[k] < 128

(* The string functions return what their names promise: memcmp and strcmp *)
(* tell buffers and strings that differ apart, in C's order, and strcmp    *)
(* finds the equal ones; strcat_s never lets a string that is cut pass for *)
(* the whole one.  What C promises and the code breaks is left to the      *)
(* three statements below: strcmp's order of bytes in different halves of  *)
(* 0 .. 255, memcmp of equal buffers, and the one 0 that strcat_s puts     *)
(* behind its buffer, which it does only when the strings just fill it.    *)
StringResults ==
  results # <<>> =>
    LET result == results[1]
        full == strlen(dst) + strlen(src)
        cat == result.strcat_s
    IN  /\ IsString(dst, result.strlen)
        /\ \A k \in Position :
             FirstDifference(k) =>
               /\ k < size => Sign(result.memcmp) = Sign(dst[k] - src[k])
               /\ k <= strlen(dst) =>
                    /\ result.strcmp # 0
                    /\ SameHalf(k) => Sign(result.strcmp) = Sign(dst[k] - src[k])
        /\ (\A k \in 0 .. strlen(dst) : dst[k] = src[k]) => result.strcmp = 0
        /\ Concatenated(result.strncat, IF size < strlen(src) THEN size ELSE strlen(src))
        /\ cat.returns = "0" => full <= dest_size /\ Concatenated(cat.dst, strlen(src))
        /\ cat.returns = "1" => full > dest_size /\ IsString(cat.dst, 0)
        /\ \A k \in dest_size .. Cells - 1 :
             cat.dst[k] # dst[k] => k = dest_size /\ full = dest_size /\ cat.dst[k] = 0

(* C's strcmp, which string.h declares, compares unsigned characters: the  *)
(* first that differ decide, for every byte.                               *)
StrcmpIsC ==
  \A k \in 0 .. strlen(dst) :
    FirstDifference(k) => Sign(results[1].strcmp) = Sign(dst[k] - src[k])

(* C's memcmp, which string.h declares, finds two buffers of size equal    *)
(* bytes equal, whatever follows them.                                     *)
MemcmpIsC ==
  (\A k \in 0 .. size - 1 : dst[k] = src[k]) => results[1].memcmp = 0

(* strcat_s, which halts or returns 1 so that its buffer is not overflowed *)
(* ("BUFFER OVERFLOW PREVENTED!!!"), leaves what lies behind the buffer as *)
(* it was.                                                                 *)
StrcatStaysInside ==
  \A k \in dest_size .. Cells - 1 : results[1].strcat_s.dst[k] = dst[k]

(* Each of the three should hold of every call.  The code breaks each:     *)
(* strcmp subtracts plain characters, so 0x80 and above come before all    *)
(* others; memcmp compares what follows equal buffers; strcat_s ends       *)
(* strings that just fill the buffer behind it.  The property asks for one *)
(* of them only, so a counterexample shows all three broken.               *)
OneStringFunctionIsC ==
  results # <<>> => StrcmpIsC \/ MemcmpIsC \/ StrcatStaysInside
=============================================================================
