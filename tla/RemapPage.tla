----------------------------- MODULE RemapPage -----------------------------
(***************************************************************************)
(* remap_page: the walk through the page tables, the split of a large      *)
(* page, the rights of the upper levels, the entry of the page itself, and *)
(* the CPU state around them (CR0.WP and the TLB).                         *)
(*                                                                         *)
(* The firmware's tables map memory one to one, and each table is reached  *)
(* by one path, so a table is named by the part of the address that leads  *)
(* to it: slot <<l, i>> is the entry of level l for the pages whose number *)
(* divided by Span(l) is i.  A table that is being filled is not linked    *)
(* and nothing can see it; filling and linking it are one step.            *)
(*                                                                         *)
(* The TLB is external.  The CPU may walk the tables at any moment, so     *)
(* cached holds every translation it may have kept since the last write to *)
(* CR3, none of them global.                                               *)
(***************************************************************************)
EXTENDS Integers, Sequences

CONSTANTS
  Fanout,        \* entries of a table, 0x200 in the code
  Firmwares,     \* how the firmware may have set up the tables: the level that
                 \* maps each region of a PDPT entry, the rights of entries that
                 \* point to tables (upper) and map memory (leaf), CR4.LA57, and
                 \* EFER.NXE, without which no entry has the no-execute bit
  NoRequest, Unmapped

(* enum page_table_levels                                                  *)
PML5 == 0
PML4 == 1
PDPT == 2
PD   == 3
PT   == 4
Level == PML5 .. PT

(* How many pages an entry of level l covers.                              *)
Span(l) == <<Fanout * Fanout * Fanout * Fanout, Fanout * Fanout * Fanout,
             Fanout * Fanout, Fanout, 1>>[l + 1]

Page == 0 .. Span(PML5) - 1   \* those of PML5 index 0, with CR4.LA57

PtIndex(page, l) == page \div Span(l)

Slot == {<<l, PtIndex(p, l)>> : l \in Level, p \in Page}

Rights == [writable : BOOLEAN, user : BOOLEAN, nx : BOOLEAN]

ASSUME RemapAssumption ==
  /\ Fanout \in Nat \ {0, 1}
  /\ \A f \in Firmwares :
       /\ f.granularity \in [{PtIndex(p, PDPT) : p \in Page} -> {PDPT, PD, PT}]
       /\ f.upper \in Rights /\ f.leaf \in Rights
       /\ f.la57 \in BOOLEAN /\ f.nxe \in BOOLEAN
       /\ ~f.leaf.user /\ (f.upper.user => ~f.upper.nx)
       /\ ~f.nxe => ~f.upper.nx /\ ~f.leaf.nx

Entry == [present : BOOLEAN, size : BOOLEAN, frame : Page,
          writable : BOOLEAN, user : BOOLEAN, nx : BOOLEAN]

Absent == [present |-> FALSE, size |-> FALSE, frame |-> 0,
           writable |-> FALSE, user |-> FALSE, nx |-> FALSE]

(* A request: prot as the set of its bits.                                 *)
Prot == {"PROT_READ", "PROT_WRITE", "PROT_EXEC", "PROT_USER"}
Request == [page : Page, frame : Page, prot : SUBSET Prot]

(* What the CPU makes of a page's address.                                 *)
Translation == [frame : Nat, writable : BOOLEAN, user : BOOLEAN, executable : BOOLEAN]

ASSUME AbsenceAssumption ==
  /\ NoRequest \notin Request \cup [page : Page, target : Translation]
  /\ Unmapped \notin Translation

VARIABLES
  entry,     \* the page tables
  la57,      \* CR4.LA57
  cached,    \* page -> the translations the TLB may hold
  cr0_wp, orig_cr0_wp,
  request,   \* the arguments of remap_page, or NoRequest
  i,         \* the level of the walk
  remap_pc,  \* "idle", "walk", "mapped" (line 117 done) or "flushed"
  status     \* what the last call returned: "none", "EFI_SUCCESS" or "error"

remapVars == <<entry, la57, cached, cr0_wp, orig_cr0_wp, request, i, remap_pc, status>>

----------------------------------------------------------------------------
(* The CPU's walk: the levels it passes for a page, down to the entry that *)
(* maps it.                                                                *)
Root == IF la57 THEN PML5 ELSE PML4

EntryOf(page, l) == entry[<<l, PtIndex(page, l)>>]

Path(page) ==
  {l \in Root .. PT : \A above \in Root .. l - 1 : ~EntryOf(page, above).size}

Leaf(page) == CHOOSE l \in Path(page) : \A m \in Path(page) : m <= l

Translate(page) ==
  IF \E l \in Path(page) : ~EntryOf(page, l).present THEN Unmapped
  ELSE [frame      |-> EntryOf(page, Leaf(page)).frame + (page % Span(Leaf(page))),
        writable   |-> \A l \in Path(page) : EntryOf(page, l).writable,
        user       |-> \A l \in Path(page) : EntryOf(page, l).user,
        executable |-> \A l \in Path(page) : ~EntryOf(page, l).nx]

(* After a write to the tables both translations may be cached.            *)
MayCache == cached' = [p \in Page |-> cached[p] \cup ({Translate(p)'} \ {Unmapped})]

----------------------------------------------------------------------------
(* The firmware's tables, with the same rights on each kind of entry.      *)
FirmwareTables(f) ==
  [s \in Slot |->
     LET l == s[1]
         region == IF l < PDPT THEN 0 ELSE (s[2] * Span(l)) \div Span(PDPT)
         last == f.granularity[region]
     IN  IF l < PDPT \/ l < last
         THEN [present |-> TRUE, size |-> FALSE, frame |-> 0,
               writable |-> f.upper.writable, user |-> f.upper.user, nx |-> f.upper.nx]
         ELSE IF l = last
         THEN [present |-> TRUE, size |-> l # PT, frame |-> s[2] * Span(l),
               writable |-> f.leaf.writable, user |-> f.leaf.user, nx |-> f.leaf.nx]
         ELSE Absent]

RemapInit(firmware) ==
  /\ la57 = firmware.la57
  /\ entry = FirmwareTables(firmware)
  /\ cached = [p \in Page |-> {Translate(p)} \ {Unmapped}]
  /\ cr0_wp = TRUE /\ orig_cr0_wp = TRUE
  /\ request = NoRequest /\ i = PML4
  /\ remap_pc = "idle" /\ status = "none"

(* The call, down to the loop.                                             *)
RemapBegin(page, frame, prot) ==
  /\ remap_pc = "idle"
  /\ request' = [page |-> page, frame |-> frame, prot |-> prot]
  /\ orig_cr0_wp' = cr0_wp /\ cr0_wp' = FALSE
  /\ i' = Root
  /\ remap_pc' = "walk" /\ status' = "none"
  /\ UNCHANGED <<entry, la57, cached>>

(* pte_prot                                                                *)
PteProt ==
  [writable |-> "PROT_WRITE" \in request.prot,
   user     |-> "PROT_USER" \in request.prot,
   nx       |-> "PROT_EXEC" \notin request.prot]

CurPte == EntryOf(request.page, i)

NeedsTable == ~CurPte.present \/ CurPte.size

(* allocate_zeroed_page fails: the function returns from inside the loop.  *)
AllocationFails ==
  /\ remap_pc = "walk" /\ i < PT /\ NeedsTable
  /\ remap_pc' = "idle" /\ status' = "error" /\ request' = NoRequest
  /\ UNCHANGED <<entry, la57, cached, cr0_wp, orig_cr0_wp, i>>

(* Faulty ChildEntry: the size of the entry, not of its child, is added;   *)
(* the size bit stays set in a page table.                                 *)
ChildEntryTooFar(pte, j) ==
  IF ~pte.size THEN Absent
  ELSE [pte EXCEPT !.frame = @ + Span(i) * j, !.size = (i # PD)]

(* new_page_table[j]: the large page's entry, further by the span of the   *)
(* next level, and without the size bit when that is the last level.       *)
ChildEntry(pte, j) ==
  IF ~pte.size THEN Absent
  ELSE [pte EXCEPT !.frame = @ + Span(i + 1) * j, !.size = (i # PD)]

(* A table of 0x200 entries takes the place of the large page, or of       *)
(* nothing, and its entry gets every right.                                *)
LinkTable ==
  /\ remap_pc = "walk" /\ i < PT /\ NeedsTable
  /\ entry' = [s \in Slot |->
       IF s = <<i, PtIndex(request.page, i)>>
       THEN [present |-> TRUE, size |-> FALSE, frame |-> 0,
             writable |-> TRUE, user |-> TRUE, nx |-> FALSE]
       ELSE IF s[1] = i + 1 /\ s[2] \div Fanout = PtIndex(request.page, i)
       THEN ChildEntry(CurPte, s[2] % Fanout)
       ELSE entry[s]]
  /\ UNCHANGED <<la57, cr0_wp, orig_cr0_wp, request, i, remap_pc, status>>
  /\ MayCache

(* Faulty WidenedPte: the no-execute bit goes into the upper level too.    *)
WidenedPteWithNx(pte) ==
  IF \/ PteProt.writable /\ ~pte.writable
     \/ PteProt.user /\ ~pte.user
  THEN [pte EXCEPT !.writable = @ \/ PteProt.writable,
                   !.user = @ \/ PteProt.user, !.nx = @ \/ PteProt.nx]
  ELSE pte

(* Faulty WidenedPte: the rights of the entry are those asked for.         *)
WidenedPteReplaced(pte) == [pte EXCEPT !.writable = PteProt.writable,
                                       !.user = PteProt.user, !.nx = FALSE]

(* The entry of an upper level after lines 106-109: if it lacks a right    *)
(* that is asked for, or is no-execute where that is asked for, it gets    *)
(* what is asked for and is executable.                                    *)
WidenedPte(pte) ==
  IF \/ PteProt.writable /\ ~pte.writable
     \/ PteProt.user /\ ~pte.user
     \/ PteProt.nx /\ pte.nx
  THEN [pte EXCEPT !.writable = @ \/ PteProt.writable,
                   !.user = @ \/ PteProt.user, !.nx = FALSE]
  ELSE pte

Descend ==
  /\ remap_pc = "walk" /\ i < PT /\ ~NeedsTable
  /\ entry' = [entry EXCEPT ![<<i, PtIndex(request.page, i)>>] = WidenedPte(@)]
  /\ i' = i + 1
  /\ UNCHANGED <<la57, cr0_wp, orig_cr0_wp, request, remap_pc, status>>
  /\ MayCache

(* The page's own entry.                                                   *)
MapPage ==
  /\ remap_pc = "walk" /\ i = PT
  /\ entry' = [entry EXCEPT ![<<PT, request.page>>] =
       [present |-> TRUE, size |-> FALSE, frame |-> request.frame,
        writable |-> PteProt.writable, user |-> PteProt.user, nx |-> PteProt.nx]]
  /\ remap_pc' = "mapped"
  /\ UNCHANGED <<la57, cr0_wp, orig_cr0_wp, request, i, status>>
  /\ MayCache

(* Faulty FlushTlb: CR3 is only read.                                      *)
FlushNothing ==
  /\ remap_pc = "mapped"
  /\ remap_pc' = "flushed"
  /\ UNCHANGED <<entry, la57, cached, cr0_wp, orig_cr0_wp, request, i, status>>

(* write_cr3(read_cr3())                                                   *)
FlushTlb ==
  /\ remap_pc = "mapped"
  /\ cached' = [p \in Page |-> {Translate(p)} \ {Unmapped}]
  /\ remap_pc' = "flushed"
  /\ UNCHANGED <<entry, la57, cr0_wp, orig_cr0_wp, request, i, status>>

(* Faulty RemapReturns: CR0 is not written back.                           *)
RemapReturnsKeepsCr0 ==
  /\ remap_pc = "flushed"
  /\ remap_pc' = "idle" /\ status' = "EFI_SUCCESS" /\ request' = NoRequest
  /\ UNCHANGED <<entry, la57, cached, cr0_wp, orig_cr0_wp, i>>

(* write_cr0(orig_cr0), and the return.                                    *)
RemapReturns ==
  /\ remap_pc = "flushed"
  /\ cr0_wp' = orig_cr0_wp
  /\ remap_pc' = "idle" /\ status' = "EFI_SUCCESS" /\ request' = NoRequest
  /\ UNCHANGED <<entry, la57, cached, orig_cr0_wp, i>>

RemapStep ==
  LinkTable \/ Descend \/ MapPage \/ FlushTlb \/ RemapReturns \/ AllocationFails

----------------------------------------------------------------------------
(* Types.                                                                  *)
RemapTypeOK ==
  /\ entry \in [Slot -> Entry]
  /\ la57 \in BOOLEAN /\ cr0_wp \in BOOLEAN /\ orig_cr0_wp \in BOOLEAN
  /\ i \in Level
  /\ remap_pc \in {"idle", "walk", "mapped", "flushed"}
  /\ status \in {"none", "EFI_SUCCESS", "error"}
  /\ request \in Request \cup {NoRequest}
  /\ request = NoRequest <=> remap_pc = "idle"

(* Remapping implements the abstract address space: through splits, wider  *)
(* upper levels and failures no other page changes its frame or loses a    *)
(* right, and the page itself changes once, to exactly what was asked for. *)
Space == INSTANCE AddressSpace WITH
  translation <- [p \in Page |-> Translate(p)],
  wanted <- IF request = NoRequest THEN NoRequest
            ELSE [page |-> request.page,
                  target |-> [frame |-> request.frame, writable |-> PteProt.writable,
                              user |-> PteProt.user, executable |-> ~PteProt.nx]]

ImplementsAddressSpace == Space!SpaceSpec

(* After a call that returns success the CPU can only use translations     *)
(* that the tables hold: every change, those of upper levels included, is  *)
(* covered by the flush.                                                   *)
NoStaleTranslation ==
  status # "error" /\ remap_pc = "idle" =>
    \A p \in Page : cached[p] \subseteq {Translate(p)}
=============================================================================
