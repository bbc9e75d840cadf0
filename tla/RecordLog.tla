----------------------------- MODULE RecordLog -----------------------------
(***************************************************************************)
(* What a session promises about its records, with nothing said of         *)
(* exceptions, fields or bytes: a log that grows by whole records, of      *)
(* which a first part is safe from a power cut.  The main loop implements  *)
(* it with its list of records, the save file with the records a reader    *)
(* finds in its bytes.                                                     *)
(***************************************************************************)
EXTENDS Naturals, Sequences

VARIABLES
  log,      \* the records, in the order they were saved
  flushed,  \* how many of them a power cut cannot take away
  open      \* is a session running?

logVars == <<log, flushed, open>>

(* What an earlier session left, or the empty log of one that has begun.   *)
LogInit ==
  /\ flushed = Len(log)
  /\ open => log = <<>>

(* One more record at the end; it may be flushed in the same step.         *)
AddRecord ==
  /\ open /\ UNCHANGED open
  /\ Len(log') = Len(log) + 1
  /\ SubSeq(log', 1, Len(log)) = log
  /\ flushed' \in {flushed, Len(log')}

FlushLog ==
  /\ open
  /\ flushed' = Len(log)
  /\ UNCHANGED <<log, open>>

(* The session ends, on purpose or after a failed write.                   *)
CloseLog ==
  /\ open /\ ~open'
  /\ flushed' = Len(log)
  /\ UNCHANGED log

(* Records are lost from the end, flushed ones never.                      *)
LosePower ==
  /\ ~open'
  /\ \E n \in flushed .. Len(log) :
       log' = SubSeq(log, 1, n) /\ flushed' = n

(* The next session starts a log of its own.                               *)
StartSession ==
  /\ ~open /\ open'
  /\ log' = <<>> /\ flushed' = 0

LogNext == AddRecord \/ FlushLog \/ CloseLog \/ LosePower \/ StartSession

LogSpec == LogInit /\ [][LogNext]_logVars
=============================================================================
