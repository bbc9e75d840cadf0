-------------------------- MODULE SaveFileDecoder --------------------------
(***************************************************************************)
(* What a reader of the save file can recover from it.  The repository has *)
(* no decoder yet; this one reads the fields in the order                  *)
(* save_instruction_data writes them and stops at the first record that is *)
(* not complete.                                                           *)
(***************************************************************************)
EXTENDS SaveFile

(* What is read from s at a position: a value and the position after it,   *)
(* or nothing, when s ends before the value does.                          *)
Incomplete == [ok |-> FALSE]
Read(value, next) == [ok |-> TRUE, value |-> value, next |-> next]

(* What Rest makes of a field, if it is there.                             *)
Then(field, Rest(_)) ==
  CHOOSE r \in {IF f.ok THEN Rest(f) ELSE Incomplete : f \in {field}} : TRUE

(* A number, from its first byte and, if that has the top bit, the number  *)
(* at the next; one that would not fit is not a field of this file.        *)
Groups(low, k, rest) ==
  IF low < 128 THEN Read(low, k + 1)
  ELSE Then(rest, LAMBDA high :
         IF high.value > MaxValue \div 128 THEN Incomplete
         ELSE Read(low - 128 + 128 * high.value, high.next))

(* The number at each position of s.                                       *)
Numbers(s) ==
  LET at[k \in 1 .. Len(s) + 1] ==
        IF k > Len(s) THEN Incomplete ELSE Groups(s[k], k, at[k + 1])
  IN  at

(* One more counter.                                                       *)
AddCounter(s, before) ==
  Then(before, LAMBDA counters : Then(Numbers(s)[counters.next], LAMBDA one :
    Read(Append(counters.value, one.value), one.next)))

ReadCounters(s, k) ==
  LET first[n \in 0 .. Len(Reference)] ==
        IF n = 0 THEN Read(<<>>, k) ELSE AddCounter(s, first[n - 1])
  IN  first[Len(Reference)]

(* A value that is in the file only if it is present.                      *)
ReadOptional(s, k, present) == IF present THEN Numbers(s)[k] ELSE Read(NoData, k)

(* The length, the type and the bytes of the instruction.                  *)
ReadInstruction(s, k) ==
  IF k <= Len(s) /\ k + (s[k] % 16) <= Len(s)
  THEN Read([type |-> s[k] \div 16, bytes |-> SubSeq(s, k + 1, k + (s[k] % 16))],
            k + (s[k] % 16) + 1)
  ELSE Incomplete

(* One record; withErrorCodes: the reader expects the error code after the *)
(* number of an exception that has one.                                    *)
ReadRecord(s, k, withErrorCodes) ==
  IF k > Len(s) THEN Incomplete
  ELSE
    Then(ReadOptional(s, k + 1, withErrorCodes /\ s[k] % 128 \in ErrorCodeVectors),
      LAMBDA code : Then(ReadOptional(s, code.next, s[k] >= 128),
        LAMBDA extra : Then(ReadCounters(s, extra.next),
          LAMBDA counters : Then(ReadInstruction(s, counters.next),
            LAMBDA instruction :
              Read([exception |-> s[k] % 128, error_code |-> code.value,
                    extra |-> extra.value, counters |-> counters.value,
                    type |-> instruction.value.type,
                    bytes |-> instruction.value.bytes],
                   instruction.next)))))

(* One more record, and no more where none is complete.                    *)
AddRecord(s, withErrorCodes, before) ==
  Then(before, LAMBDA records :
    CHOOSE after \in
      {IF one.ok THEN Read(Append(records.value, one.value), one.next) ELSE records :
         one \in {ReadRecord(s, records.next, withErrorCodes)}} : TRUE)

(* The reference and the records after it.  A record has a byte at least,  *)
(* so there are no more of them than bytes.                                *)
Decode(s, withErrorCodes) ==
  LET first[n \in 0 .. Len(s)] ==
        IF n = 0
        THEN Then(ReadCounters(s, 1), LAMBDA reference :
               Read(<<reference.value>>, reference.next))
        ELSE AddRecord(s, withErrorCodes, first[n - 1])
  IN  IF ReadCounters(s, 1).ok THEN first[Len(s)].value ELSE <<>>

----------------------------------------------------------------------------
(* What the format can give back of a record.                              *)
Recoverable(i) ==
  IF i = 1 THEN saved[1] ELSE [saved[i] EXCEPT !.error_code = NoData]

RecoverableUpTo(n) == [i \in 1 .. n |-> Recoverable(i)]

(* While the program runs, and after it closed the file, the file decodes  *)
(* to exactly what was saved: nothing of an earlier run shows through, and *)
(* no part of a record that failed, or is still being written, is taken    *)
(* for a record.                                                           *)
FileDecodes ==
  status \in {"ready", "saving", "closed"} =>
    Decode(file, FALSE) = RecoverableUpTo(Len(saved))

(* After a power cut, wherever it came, the file decodes to the records    *)
(* saved first, and those the last flush covered are among them.           *)
SurvivesPowerCut ==
  status = "off" /\ saved # <<>> =>
    \E n \in kept .. Len(saved) : Decode(file, FALSE) = RecoverableUpTo(n)

(* The bytes implement the record log: a reader of the file, at any moment *)
(* and after any failure or power cut, sees whole records that are added   *)
(* one at a time, and never loses one the last flush covered.              *)
Log == INSTANCE RecordLog WITH
  log     <- Decode(file, FALSE),
  flushed <- Len(Decode(SubSeq(file, 1, durable), FALSE)),
  open    <- status \in {"ready", "saving"}

ImplementsLog == Log!LogSpec

(* save_instruction_data has a branch that writes "exception error code"   *)
(* for the exceptions that have one: a reader who expects it finds it.     *)
ErrorCodesAreSaved ==
  status \in {"ready", "closed"} /\ Len(saved) > 1 /\ pending = <<>> =>
    LET found == Decode(file, TRUE)
    IN  \A i \in 2 .. Len(saved) :
          saved[i].exception \in ErrorCodeVectors
            => i <= Len(found) /\ found[i].error_code = saved[i].error_code
=============================================================================
