---------------------------- MODULE CpuDetection ----------------------------
(***************************************************************************)
(* uarch_config.c: the CPU's family and model from CPUID, and the look-up  *)
(* of its performance counters.                                            *)
(***************************************************************************)
EXTENDS Integers

(* skylake_cpu_models: the only table of intel_uarch_configs.              *)
SkylakeModels == {\h4e, \h5e, \h8e, \h9e, \ha5, \ha6}

(* EAX of CPUID.01H: stepping, model, family, type, extended model and     *)
(* extended family, four bits each but the last.                           *)
Model(eax) ==
  LET family == (eax \div 2^8) % 16
  IN  ((eax \div 2^4) % 16)
        + (IF family \in {6, 15} THEN 16 * ((eax \div 2^16) % 16) ELSE 0)

Family(eax) ==
  LET family == (eax \div 2^8) % 16
  IN  family + (IF family = 15 THEN (eax \div 2^20) % 256 ELSE 0)

(* get_uarch_config_for_cpu # NULL                                         *)
HasUarchConfig(cpu) ==
  /\ cpu.vendor = "GenuineIntel"
  /\ Family(cpu.eax) = 6 /\ Model(cpu.eax) \in SkylakeModels

(* Extended model, family and model, where CPUID has them; the stepping,   *)
(* the type and the extended family, which only family 15 uses, left out.  *)
Signature(eax) == 2^4 * ((eax \div 2^4) % 2^8) + 2^16 * ((eax \div 2^16) % 16)

(* The CPUs Intel's documents call Skylake client and its successors on    *)
(* the same core, by the signature they report.                            *)
SkylakeSignature ==
  {\h406e0, \h506e0, \h806e0, \h906e0, \ha0650, \ha0660}
=============================================================================
