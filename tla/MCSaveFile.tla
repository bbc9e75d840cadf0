----------------------------- MODULE MCSaveFile -----------------------------
(***************************************************************************)
(* Records for TLC: with and without extra data, with and without an error *)
(* code, counters of one and of two bytes, and bytes that look like fields *)
(* of a record when they are read from the wrong place.                    *)
(***************************************************************************)
EXTENDS SaveFileDecoder

TwoCounters == <<3, 300>>

SampleRecords ==
  {[exception |-> 6, error_code |-> 0, extra |-> NoData, counters |-> <<5, 200>>,
    type |-> 4, bytes |-> <<15, 255>>],
   [exception |-> 14, error_code |-> 5, extra |-> 129, counters |-> <<0, 7>>,
    type |-> 2, bytes |-> <<6>>],
   [exception |-> 18, error_code |-> 0, extra |-> 0, counters |-> <<128, 1>>,
    type |-> 3, bytes |-> <<128, 6, 1>>],
   [exception |-> 13, error_code |-> 24, extra |-> NoData, counters |-> <<1, 1>>,
    type |-> 7, bytes |-> <<6, 3, 3, 65, 0>>]}

(* An empty file, and one left by an earlier run: the reference and some   *)
(* records of one-byte instructions.                                       *)
SampleContents ==
  {<<>>, <<3, 3, 6, 1, 1, 65, 0, 6, 1, 1, 65, 1, 6, 1, 1, 65, 2, 6, 1, 1, 65, 3>>}
=============================================================================
