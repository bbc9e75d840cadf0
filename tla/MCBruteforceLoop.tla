------------------------- MODULE MCBruteforceLoop -------------------------
(***************************************************************************)
(* The values of the loop's constants for TLC.  Two results of a run are   *)
(* enough to repeat and to differ; the bytes are those of the shortest     *)
(* search in which an instruction is extended, cut and carried.            *)
(***************************************************************************)
EXTENDS BruteforceLoop

FirstAndLastByte == {0, LastByte}

OnlyMachineCheck == {"#MC"}

=============================================================================
