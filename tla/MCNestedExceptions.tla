------------------------- MODULE MCNestedExceptions -------------------------
(***************************************************************************)
(* A few bytes for TLC, and the tables' addresses.                         *)
(***************************************************************************)
EXTENDS NestedExceptions

(* LOCK, which is a prefix, and the byte that is carried.                  *)
SampleBytes == {0, \hf0, LastByte}

SampleTss == <<\h4320, \hf765, 1, 0>>

SampleHandlers == [v \in 1 .. 22 |-> <<\h1000 + 16 * v, \hf7ab, 1, 0>>]
=============================================================================
