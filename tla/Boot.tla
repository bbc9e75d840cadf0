-------------------------------- MODULE Boot --------------------------------
(***************************************************************************)
(* efi_main, from the firmware's call to the first entry into user mode.   *)
(* It composes RemapPage and OpenSaveFile; their steps run while pc says   *)
(* that efi_main is inside them.                                           *)
(*                                                                         *)
(* A call to the firmware may fail, and may leave interrupts enabled: the  *)
(* firmware's locks raise and restore its task priority, which enables     *)
(* them whatever they were before.                                         *)
(***************************************************************************)
EXTENDS RemapPage, OpenSaveFile, DescriptorTables, CpuDetection

CONSTANTS
  Cpu,         \* CPUs it may be started on: what CPUID and IA32_MCG_CAP say
  StackPage,   \* where the firmware may allocate the kernel stack's pages
  UserPage     \* and the pages of user code

PERF_EVENTS_COUNT == 3
KERNEL_STACK_PAGES == 2

NoPage == -1

ASSUME BootAssumption ==
  /\ \A c \in Cpu :
       /\ c.vendor \in STRING /\ c.eax \in Nat
       /\ c.counters \in 0 .. 255 /\ c.banks \in 0 .. 255
       /\ c.mce \in BOOLEAN /\ c.mca \in BOOLEAN
  /\ StackPage \subseteq Page
  /\ \A p \in UserPage : p \in Page /\ p + 1 \in Page

VARIABLES
  pc, cpu,
  pmu,                  \* are the event selectors programmed?
  allocated,            \* what efi_main has allocated and not freed
  kernel_stack_pages, user_code_page_rw, tss_rsp0,
  cr4,                  \* bits efi_main has set
  mc_banks,             \* banks whose errors are reported: 0 .. mc_banks - 1
  interrupts, cr8_masks, \* RFLAGS.IF; CR8 = 0xf
  gdtr, idtr, task,     \* "firmware" or "own"
  efer_nxe

bootVars == <<pc, cpu, pmu, allocated, kernel_stack_pages,
              user_code_page_rw, tss_rsp0, cr4, mc_banks, interrupts, cr8_masks,
              gdtr, idtr, task, efer_nxe>>
vars == <<bootVars, remapVars, openVars>>

user_code_page_for_exec == user_code_page_rw + 1

Ends == {"returned", "halted", "undefined", "user"}

Init ==
  /\ \E firmware \in Firmwares : RemapInit(firmware) /\ efer_nxe = firmware.nxe
  /\ OpenInit
  /\ pc = "detect"
  /\ cpu \in Cpu
  /\ pmu = FALSE /\ allocated = {}
  /\ kernel_stack_pages = NoPage /\ user_code_page_rw = NoPage /\ tss_rsp0 = NoPage
  /\ cr4 = {} /\ mc_banks = 0
  /\ interrupts = TRUE /\ cr8_masks = FALSE
  /\ gdtr = "firmware" /\ idtr = "firmware" /\ task = "firmware"

----------------------------------------------------------------------------
CallsFirmware == interrupts' \in {interrupts, TRUE}

Halt == pc' = "halted"

(* get_uarch_config_for_cpu, and disasm_init of the chip it names.         *)
DetectCpu ==
  /\ pc = "detect"
  /\ pc' = IF HasUarchConfig(cpu) THEN "perf counters" ELSE "returned"
  /\ CallsFirmware
  /\ UNCHANGED <<remapVars, openVars, cpu, pmu, allocated, kernel_stack_pages,
                 user_code_page_rw, tss_rsp0, cr4, mc_banks, cr8_masks, gdtr,
                 idtr, task, efer_nxe>>

(* init_perf_counters, and dump_bruteforce_config.                         *)
InitPerfCounters ==
  /\ pc = "perf counters"
  /\ IF PERF_EVENTS_COUNT > cpu.counters
     THEN pc' = "returned" /\ UNCHANGED pmu
     ELSE pc' = "stack" /\ pmu' = TRUE
  /\ CallsFirmware
  /\ UNCHANGED <<remapVars, openVars, cpu, allocated, kernel_stack_pages,
                 user_code_page_rw, tss_rsp0, cr4, mc_banks, cr8_masks, gdtr,
                 idtr, task, efer_nxe>>

(* The kernel stack, and set_tss_rsp0 of its end.                          *)
AllocateKernelStack ==
  /\ pc = "stack"
  /\ \/ /\ \E page \in StackPage :
             /\ kernel_stack_pages' = page
             /\ tss_rsp0' = page + KERNEL_STACK_PAGES
        /\ allocated' = allocated \cup {"kernel stack"}
        /\ pc' = "user pages"
     \/ /\ pc' = "returned"
        /\ UNCHANGED <<allocated, kernel_stack_pages, tss_rsp0>>
  /\ CallsFirmware
  /\ UNCHANGED <<remapVars, openVars, cpu, pmu, user_code_page_rw, cr4,
                 mc_banks, cr8_masks, gdtr, idtr, task, efer_nxe>>

(* Faulty AllocateUserPages: the stack is not freed on failure.            *)
AllocateUserPagesLeaks ==
  /\ pc = "user pages"
  /\ \/ /\ user_code_page_rw' \in UserPage
        /\ allocated' = allocated \cup {"user pages"}
        /\ pc' = "features"
     \/ /\ pc' = "returned" /\ UNCHANGED <<user_code_page_rw, allocated>>
  /\ CallsFirmware
  /\ UNCHANGED <<remapVars, openVars, cpu, pmu, tss_rsp0, kernel_stack_pages,
                 cr4, mc_banks, cr8_masks, gdtr, idtr, task, efer_nxe>>

(* Two pages of user code, zeroed.                                         *)
AllocateUserPages ==
  /\ pc = "user pages"
  /\ \/ /\ user_code_page_rw' \in UserPage
        /\ allocated' = allocated \cup {"user pages"}
        /\ pc' = "features"
     \/ /\ pc' = "returned"
        /\ allocated' = allocated \ {"kernel stack"}
        /\ UNCHANGED user_code_page_rw
  /\ CallsFirmware
  /\ UNCHANGED <<remapVars, openVars, cpu, pmu, tss_rsp0, kernel_stack_pages,
                 cr4, mc_banks, cr8_masks, gdtr, idtr, task, efer_nxe>>

(* CR4, the machine check banks, XCR0.                                     *)
EnableCpuFeatures ==
  /\ pc = "features"
  /\ cr4' = {"CR4_OSXSAVE", "CR4_OSXMMEXCPT", "CR4_OSFXSR"}
              \cup (IF cpu.mce THEN {"CR4_MCE"} ELSE {})
  /\ mc_banks' = IF cpu.mce /\ cpu.mca THEN cpu.banks % 16 ELSE 0
  /\ pc' = "xsave area"
  /\ UNCHANGED <<remapVars, openVars, cpu, pmu, allocated, kernel_stack_pages,
                 user_code_page_rw, tss_rsp0, interrupts, cr8_masks, gdtr,
                 idtr, task, efer_nxe>>

(* The XSAVE area and xrstor of its zeroes; then open_save_file is called. *)
AllocateXsaveArea ==
  /\ pc = "xsave area"
  /\ \/ /\ allocated' = allocated \cup {"xsave area"}
        /\ pc' = "save file" /\ OpenBegin
     \/ Halt /\ UNCHANGED <<allocated, openVars>>
  /\ CallsFirmware
  /\ UNCHANGED <<remapVars, cpu, pmu, kernel_stack_pages, user_code_page_rw,
                 tss_rsp0, cr4, mc_banks, cr8_masks, gdtr, idtr, task,
                 efer_nxe>>

(* open_save_file runs, and efi_main halts unless it succeeds.             *)
OpenTheSaveFile ==
  /\ pc = "save file"
  /\ OpenStep
  /\ pc' = CASE open_pc' = "undefined" -> "undefined"
             [] open_status' = "EFI_SUCCESS" -> "mask"
             [] open_status' = "error" -> "halted"
             [] OTHER -> pc
  /\ CallsFirmware
  /\ UNCHANGED <<remapVars, cpu, pmu, allocated, kernel_stack_pages,
                 user_code_page_rw, tss_rsp0, cr4, mc_banks, cr8_masks, gdtr,
                 idtr, task, efer_nxe>>

(* Faulty MaskInterrupts: only cli.                                        *)
MaskWithCliOnly ==
  /\ pc = "mask"
  /\ interrupts' = FALSE /\ UNCHANGED cr8_masks
  /\ pc' = "remap rw"
  /\ UNCHANGED <<remapVars, openVars, cpu, pmu, allocated, kernel_stack_pages,
                 user_code_page_rw, tss_rsp0, cr4, mc_banks, gdtr, idtr, task,
                 efer_nxe>>

(* cli, and CR8 = 0xf.                                                     *)
MaskInterrupts ==
  /\ pc = "mask"
  /\ interrupts' = FALSE /\ cr8_masks' = TRUE
  /\ pc' = "remap rw"
  /\ UNCHANGED <<remapVars, openVars, cpu, pmu, allocated, kernel_stack_pages,
                 user_code_page_rw, tss_rsp0, cr4, mc_banks, gdtr, idtr, task,
                 efer_nxe>>

(* The two calls of remap_page: the page itself for writing, and the next  *)
(* page as its alias for execution.                                        *)
RemapUserPages ==
  /\ \/ /\ pc = "remap rw" /\ pc' = "remapping rw"
        /\ RemapBegin(user_code_page_rw, user_code_page_rw,
                      {"PROT_READ", "PROT_WRITE"})
     \/ /\ pc = "remap exec" /\ pc' = "remapping exec"
        /\ RemapBegin(user_code_page_for_exec, user_code_page_rw,
                      {"PROT_READ", "PROT_EXEC", "PROT_USER"})
  /\ CallsFirmware
  /\ UNCHANGED <<openVars, cpu, pmu, allocated, kernel_stack_pages,
                 user_code_page_rw, tss_rsp0, cr4, mc_banks, cr8_masks, gdtr,
                 idtr, task, efer_nxe>>

(* remap_page runs, and efi_main halts unless it succeeds.  The walk       *)
(* allocates pages and, with TRACE_REMAP, prints.                          *)
RemapRuns ==
  /\ pc \in {"remapping rw", "remapping exec"}
  /\ RemapStep
  /\ pc' = CASE status' = "error" -> "halted"
             [] status' = "none" -> pc
             [] OTHER -> IF pc = "remapping rw" THEN "remap exec" ELSE "gdt"
  /\ IF remap_pc = "walk" THEN CallsFirmware ELSE UNCHANGED interrupts
  /\ UNCHANGED <<openVars, cpu, pmu, allocated, kernel_stack_pages,
                 user_code_page_rw, tss_rsp0, cr4, mc_banks, cr8_masks, gdtr,
                 idtr, task, efer_nxe>>

(* setup_gdt, load_segments and setup_idt.                                 *)
LoadTables ==
  /\ \/ pc = "gdt" /\ gdtr' = "own" /\ pc' = "segments" /\ UNCHANGED <<task, idtr>>
     \/ pc = "segments" /\ task' = "own" /\ pc' = "idt" /\ UNCHANGED <<gdtr, idtr>>
     \/ pc = "idt" /\ idtr' = "own" /\ pc' = "nxe" /\ UNCHANGED <<gdtr, task>>
  /\ UNCHANGED <<remapVars, openVars, cpu, pmu, allocated, kernel_stack_pages,
                 user_code_page_rw, tss_rsp0, cr4, mc_banks, interrupts,
                 cr8_masks, efer_nxe>>

(* EFER.NXE, and execute_ud: the first copy into the page and iretq.       *)
EnterUser ==
  /\ \/ pc = "nxe" /\ efer_nxe' = TRUE /\ pc' = "execute ud"
     \/ pc = "execute ud" /\ pc' = "user" /\ UNCHANGED efer_nxe
  /\ UNCHANGED <<remapVars, openVars, cpu, pmu, allocated, kernel_stack_pages,
                 user_code_page_rw, tss_rsp0, cr4, mc_banks, interrupts,
                 cr8_masks, gdtr, idtr, task>>

Next ==
  \/ DetectCpu \/ InitPerfCounters \/ AllocateKernelStack \/ AllocateUserPages
  \/ EnableCpuFeatures \/ AllocateXsaveArea \/ OpenTheSaveFile \/ MaskInterrupts
  \/ RemapUserPages \/ RemapRuns \/ LoadTables \/ EnterUser

Spec == Init /\ [][Next]_vars

----------------------------------------------------------------------------
(* Types.                                                                  *)
BootTypeOK ==
  /\ RemapTypeOK /\ OpenTypeOK
  /\ pc \in Ends \cup {"detect", "perf counters", "stack", "user pages", "features",
                       "xsave area", "save file", "mask", "remap rw",
                       "remapping rw", "remap exec", "remapping exec", "gdt",
                       "segments", "idt", "nxe", "execute ud"}
  /\ kernel_stack_pages \in StackPage \cup {NoPage}
  /\ user_code_page_rw \in UserPage \cup {NoPage}
  /\ \A b \in {pmu, interrupts, cr8_masks, efer_nxe} : b \in BOOLEAN
  /\ mc_banks \in 0 .. 15

(* What the loop relies on when it enters user mode for the first time:    *)
(* the code page can be written through one address, executed by user code *)
(* through the next and written through neither by it, no other page is    *)
(* open to user code, so that a fetch past the code page faults; and the   *)
(* no-execute bits are not reserved bits.                                  *)
UserPagesReady ==
  pc \in {"execute ud", "user"} =>
    /\ Translate(user_code_page_rw) =
         [frame |-> user_code_page_rw, writable |-> TRUE, user |-> FALSE,
          executable |-> FALSE]
    /\ Translate(user_code_page_for_exec) =
         [frame |-> user_code_page_rw, writable |-> FALSE, user |-> TRUE,
          executable |-> TRUE]
    /\ \A p \in Page \ {user_code_page_for_exec} :
         Translate(p) # Unmapped => ~Translate(p).user
    /\ efer_nxe

(* Until EFER.NXE is set a no-execute bit is a reserved one, and a page    *)
(* with it cannot be touched: only the page nobody touches before the      *)
(* first copy has it, and no table above another page.                     *)
NoReservedBits ==
  ~efer_nxe =>
    \A p \in Page : p # user_code_page_rw =>
      \A l \in Path(p) : ~EntryOf(p, l).nx

(* CR0.WP is clear only while remap_page runs, or in a program that has    *)
(* halted because it failed.                                               *)
WriteProtection == ~cr0_wp => remap_pc # "idle" \/ pc = "halted"

(* From the moment the firmware's tables are gone no interrupt that can be *)
(* masked may arrive, although the firmware's own services, called after   *)
(* cli, may have enabled interrupts again.                                 *)
TablesWithoutInterrupts ==
  gdtr = "own" \/ request # NoRequest => ~interrupts \/ cr8_masks

(* An exception of the first user instruction is handled: each gate leads  *)
(* to its handler, the task segment to the TSS, whose stack is the end of  *)
(* the pages allocated for it, and the counters count the events of this   *)
(* CPU, which is a Skylake.                                                *)
ReadyForExceptions ==
  pc = "user" =>
    /\ gdtr = "own" /\ task = "own" /\ idtr = "own"
    /\ GatesReachHandlers
    /\ TaskFound(\h28) /\ UserSegments(\h1b, \h23)
    /\ tss_rsp0 = kernel_stack_pages + KERNEL_STACK_PAGES
    /\ pmu /\ cpu.counters >= PERF_EVENTS_COUNT
    /\ cpu.vendor = "GenuineIntel" /\ Signature(cpu.eax) \in SkylakeSignature

(* efi_main gives a CPU it does not know, or that lacks counters, back to  *)
(* the firmware as it was: nothing allocated, nothing opened, interrupts   *)
(* on, no register but the switched-off counters changed.                  *)
ReturnsCleanly ==
  pc = "returned" =>
    /\ allocated = {} /\ held = {}
    /\ interrupts /\ cr4 = {} /\ gdtr = "firmware"
=============================================================================
