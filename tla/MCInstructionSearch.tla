------------------------ MODULE MCInstructionSearch ------------------------
(***************************************************************************)
(* Samples of the bytes for TLC.  Each holds 0, 0xff and, for its mode,    *)
(* the bytes that lead the filter and the prefix count through different   *)
(* cases.                                                                  *)
(***************************************************************************)
EXTENDS InstructionSearch

(* 64-bit: EVEX with an acceptable payload (0xf0 0x00 0x08), the two-byte  *)
(* VEX, LOCK, operand size and REX.                                        *)
Bytes64 == {0, 8, \h40, \h62, \h66, \hc5, \hf0, LastByte}

(* 16/32-bit: 0x62 and 0xc4 are BOUND and LES before a byte below 0xc0,    *)
(* EVEX and VEX before one above.                                          *)
Bytes32 == {0, \h62, \hc4, \hf0, LastByte}

(* LOCK and VEX.                                                           *)
BytesLockVex == {0, \hc5, \hf0, LastByte}
=============================================================================
