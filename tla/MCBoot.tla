------------------------------- MODULE MCBoot -------------------------------
(***************************************************************************)
(* A small machine for TLC: tables of two entries, so sixteen pages, four  *)
(* regions of a PDPT entry each.                                           *)
(***************************************************************************)
EXTENDS Boot

R(w, u, x) == [writable |-> w, user |-> u, nx |-> ~x]

Plain == R(TRUE, FALSE, TRUE)
Data == R(TRUE, FALSE, FALSE)
ReadOnly == R(FALSE, FALSE, TRUE)
ReadOnlyData == R(FALSE, FALSE, FALSE)
Open == R(TRUE, TRUE, TRUE)     \* as the table of a page that was split

All(l) == [r \in 0 .. 3 |-> l]
Alternate(even, odd) == [r \in 0 .. 3 |-> IF r % 2 = 0 THEN even ELSE odd]

Firm(granularity, upper, leaf, with_la57, with_nxe) ==
  [granularity |-> granularity, upper |-> upper, leaf |-> leaf,
   la57 |-> with_la57, nxe |-> with_nxe]

(* Every granularity and a change of it between two regions; every kind of *)
(* rights; without no-execute bits and with.                               *)
SampleFirmwares ==
  {Firm(All(PDPT), Plain, Plain, FALSE, FALSE),
   Firm(All(PD), Open, Data, TRUE, TRUE),
   Firm(All(PT), ReadOnlyData, Plain, FALSE, TRUE),
   Firm(Alternate(PT, PDPT), Open, ReadOnly, TRUE, FALSE),
   Firm(Alternate(PDPT, PD), ReadOnlyData, Data, FALSE, TRUE),
   Firm(Alternate(PD, PT), ReadOnly, Plain, FALSE, FALSE),
   Firm(All(PD), Plain, Plain, FALSE, TRUE),
   Firm(All(PDPT), ReadOnlyData, ReadOnlyData, TRUE, TRUE),
   Firm(Alternate(PT, PD), Plain, ReadOnly, TRUE, FALSE)}

C(v, e, n, with_mce, with_mca, b) ==
  [vendor |-> v, eax |-> e, counters |-> n, mce |-> with_mce, mca |-> with_mca,
   banks |-> b]

(* Three of the Skylake family, one of which shares its counters with a    *)
(* second thread; Alder Lake, Broadwell, a Pentium 4, and another vendor.  *)
SampleCpu ==
  {C("GenuineIntel", \h506e3, 4, TRUE, TRUE, 20),
   C("GenuineIntel", \ha0660, 8, FALSE, FALSE, 0),
   C("GenuineIntel", \h906ed, 2, TRUE, FALSE, 0),
   C("GenuineIntel", \h90672, 8, TRUE, TRUE, 10),
   C("GenuineIntel", \h406f1, 4, TRUE, TRUE, 22),
   C("GenuineIntel", \h00f4a, 4, TRUE, TRUE, 4),
   C("AuthenticAMD", \h506e3, 6, TRUE, TRUE, 20)}

SampleStack == {10}

(* Both pages in one page table, and in two that are one, two and three    *)
(* levels apart; and the last pages but one.                               *)
SampleUser == {2, 1, 3, 7, 13}

SampleTss == <<\h4320, \hf765, 1, 0>>

SampleHandlers == [v \in 1 .. 22 |-> <<\h1000 + 16 * v, \hf7ab, 1, 0>>]
=============================================================================
