------------------------------ MODULE SaveFile ------------------------------
(***************************************************************************)
(* The save file: open_save_file, the writes of save_uint64_array and      *)
(* save_instruction_data, flush_save_file and close_save_file.             *)
(*                                                                         *)
(* A record is not written at once.  save_instruction_data makes one Write *)
(* call per field and returns at the first that fails; between two of them *)
(* the file holds part of a record.  Each Write is a step here, and the    *)
(* power may go off between any two.                                       *)
(*                                                                         *)
(* The firmware's file is external: a Write puts bytes at the position, a  *)
(* failed one may have put some of them; what Flush has not covered may be *)
(* lost from the end when the power goes off; Close covers everything.     *)
(***************************************************************************)
EXTENDS Integers, Sequences

CONSTANTS
  Record,        \* the instructions the loop may save
  Reference,     \* the counters of UD2, saved first
  OldContents,   \* what earlier runs may have left in the file
  NoData,        \* extra_data when extra_data_present is false
  MaxValue,      \* bound: the largest value of a field saved as a uint64
  MaxRecords     \* bound: how many records a run saves

Byte == 0 .. 255
Value == 0 .. MaxValue

ASSUME SaveAssumption ==
  /\ MaxValue \in Nat /\ MaxRecords \in Nat /\ NoData \notin Value
  /\ Reference \in Seq(Value) /\ Reference # <<>>
  /\ \A contents \in OldContents : contents \in Seq(Byte)
  /\ \A r \in Record :
       /\ r \in [exception : 0 .. 31, error_code : Value, extra : Value \cup {NoData},
                 counters : Seq(Value), type : 1 .. 7, bytes : Seq(Byte)]
       /\ Len(r.counters) = Len(Reference) /\ Len(r.bytes) \in 1 .. 15

VARIABLES
  file,      \* the bytes of the file
  position,  \* where the next Write goes
  durable,   \* how many bytes of the file are on the disk for certain
  pending,   \* the Write calls the current save has still to make
  current,   \* what is being saved, <<>> or <<a record or the reference>>
  saved,     \* auxiliary: what has been saved completely
  kept,      \* auxiliary: how much of it was flushed
  status     \* "off", "ready", "saving", "closed", "no file" (halted) or
             \* "not emptied" (not followed further)

vars == <<file, position, durable, pending, current, saved, kept, status>>

----------------------------------------------------------------------------
(* save_uint64: seven bits to a byte, the lowest first, the top bit set on *)
(* every byte but the last.                                                *)
Varint[value \in Value] ==
  IF value < 128 THEN <<value>>
  ELSE <<(value % 128) + 128>> \o Varint[value \div 128]

ErrorCodeVectors == {8, 10, 11, 12, 13, 14, 17, 21}

(* exception_number & EXCEPTIONS_WITH_ERROR_CODE_MASK, for the byte that   *)
(* was just written: the mask has the bits of the vectors.                 *)
IsMasked(byte) == \E bit \in ErrorCodeVectors : (byte \div 2^bit) % 2 = 1

(* Faulty ExceptionByte: a flag outside the byte.                          *)
ExceptionByteShifted(r) == r.exception + (IF r.extra # NoData THEN 256 ELSE 0)

(* The exception number, with the top bit for extra_data_present.          *)
ExceptionByte(r) == r.exception + (IF r.extra # NoData THEN 128 ELSE 0)

CounterWrites(counters) == [i \in 1 .. Len(counters) |-> Varint[counters[i]]]

(* The Write calls of save_instruction_data.                               *)
RecordWrites(r) ==
  <<<<ExceptionByte(r)>>>>
    \o (IF IsMasked(ExceptionByte(r)) THEN <<Varint[r.error_code]>> ELSE <<>>)
    \o (IF r.extra # NoData THEN <<Varint[r.extra]>> ELSE <<>>)
    \o CounterWrites(r.counters)
    \o <<<<Len(r.bytes) + 16 * r.type>>, r.bytes>>

----------------------------------------------------------------------------
Init ==
  /\ file \in OldContents
  /\ position = 0
  /\ durable = Len(file)
  /\ pending = <<>>
  /\ current = <<>>
  /\ saved = <<>>
  /\ kept = 0
  /\ status = "off"

(* Faulty OpenSaveFile: what an earlier run left stays.                    *)
OpenWithoutReset ==
  /\ status = "off"
  /\ \/ status' = "ready"
     \/ status' = "no file"
  /\ UNCHANGED <<file, durable>>
  /\ position' = 0 /\ pending' = <<>> /\ current' = <<>>
  /\ saved' = <<>> /\ kept' = 0

(* open_save_file: what an earlier run left is cut off, on the disk too.   *)
(* A failure leaves the file as it is, and the caller halts.  When GetInfo *)
(* answers EFI_SUCCESS without a buffer the file is used as it is; module  *)
(* OpenSaveFile shows that, and what is then written over the old records  *)
(* is not followed here.                                                   *)
OpenSaveFile ==
  /\ status = "off"
  /\ \/ file' = <<>> /\ durable' = 0 /\ status' = "ready"
     \/ status' \in {"no file", "not emptied"} /\ UNCHANGED <<file, durable>>
  /\ position' = 0 /\ pending' = <<>> /\ current' = <<>>
  /\ saved' = <<>> /\ kept' = 0

(* save_uint64_array of the reference values, before anything else.        *)
SaveReference ==
  /\ status = "ready" /\ saved = <<>>
  /\ pending' = CounterWrites(Reference)
  /\ current' = <<Reference>>
  /\ status' = "saving"
  /\ UNCHANGED <<file, position, durable, saved, kept>>

SaveInstructionData(r) ==
  /\ status = "ready" /\ saved # <<>> /\ Len(saved) <= MaxRecords
  /\ pending' = RecordWrites(r)
  /\ current' = <<r>>
  /\ status' = "saving"
  /\ UNCHANGED <<file, position, durable, saved, kept>>

(* The file with these bytes at the position.                              *)
Put(bytes) ==
  SubSeq(file, 1, position) \o bytes
    \o SubSeq(file, position + Len(bytes) + 1, Len(file))

(* save_data succeeds; with the last field the record is saved.            *)
Write ==
  /\ status = "saving"
  /\ file' = Put(Head(pending))
  /\ position' = position + Len(Head(pending))
  /\ pending' = Tail(pending)
  /\ IF pending' = <<>>
     THEN saved' = saved \o current /\ current' = <<>> /\ status' = "ready"
     ELSE UNCHANGED <<saved, current, status>>
  /\ UNCHANGED <<durable, kept>>

(* close_save_file, from Done or because UD2 did not raise #UD; halt()     *)
(* follows.                                                                *)
CloseSaveFile ==
  /\ status = "ready"
  /\ status' = "closed" /\ durable' = Len(file) /\ kept' = Len(saved)
  /\ UNCHANGED <<file, position, pending, current, saved>>

(* Faulty WriteFails: the error is not passed on, the next record follows. *)
WriteFailsGoesOn ==
  /\ status = "saving"
  /\ \E n \in 0 .. Len(Head(pending)) - 1 :
       /\ file' = Put(SubSeq(Head(pending), 1, n))
       /\ position' = position + n
  /\ pending' = <<>> /\ current' = <<>>
  /\ status' = "ready"
  /\ UNCHANGED <<durable, saved, kept>>

(* save_data fails, having written some of the bytes; the callers return   *)
(* at once, close the file and halt.                                       *)
WriteFails ==
  /\ status = "saving"
  /\ \E n \in 0 .. Len(Head(pending)) - 1 :
       /\ file' = Put(SubSeq(Head(pending), 1, n))
       /\ position' = position + n
  /\ durable' = Len(file') /\ kept' = Len(saved)
  /\ pending' = <<>> /\ current' = <<>>
  /\ status' = "closed"
  /\ UNCHANGED saved

(* Faulty FlushSaveFile: only the records are counted as flushed.          *)
FlushDoesNothing ==
  /\ status = "ready" /\ durable < Len(file)
  /\ kept' = Len(saved)
  /\ UNCHANGED <<file, position, durable, pending, current, saved, status>>

(* flush_save_file, between two records.                                   *)
FlushSaveFile ==
  /\ status = "ready" /\ durable < Len(file)
  /\ durable' = Len(file) /\ kept' = Len(saved)
  /\ UNCHANGED <<file, position, pending, current, saved, status>>

(* The power goes off: bytes after the durable ones may be lost.           *)
PowerCut ==
  /\ status \in {"ready", "saving", "closed"}
  /\ \E n \in durable .. Len(file) : file' = SubSeq(file, 1, n)
  /\ durable' = Len(file')
  /\ status' = "off"
  /\ pending' = <<>> /\ current' = <<>>
  /\ UNCHANGED <<position, saved, kept>>

Next ==
  \/ OpenSaveFile \/ SaveReference \/ (\E r \in Record : SaveInstructionData(r))
  \/ Write \/ WriteFails \/ FlushSaveFile \/ CloseSaveFile \/ PowerCut

Spec == Init /\ [][Next]_vars

----------------------------------------------------------------------------
(* Types; a save in progress always has a Write left to make.              *)
SaveTypeOK ==
  /\ file \in Seq(Byte) /\ durable \in 0 .. Len(file)
  /\ position \in Nat
  /\ kept \in 0 .. Len(saved)
  /\ status \in {"off", "ready", "saving", "closed", "no file", "not emptied"}
  /\ status = "saving" <=> pending # <<>>
=============================================================================
