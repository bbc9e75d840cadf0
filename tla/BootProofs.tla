----------------------------- MODULE BootProofs -----------------------------
(***************************************************************************)
(* Theorems about the boot sequence, for every firmware, whatever page     *)
(* tables it has set up and whichever of its calls fail, for every number  *)
(* of entries in a table, and for every address of the handlers and the    *)
(* TSS.                                                                    *)
(***************************************************************************)
EXTENDS Boot, TLAPS

(* The phases of efi_main: until open_save_file is called, until cli, and  *)
(* where it ends without having got further.                               *)
BeforeFeatures == {"detect", "perf counters", "stack", "user pages", "features"}
BeforeOpen == BeforeFeatures \cup {"xsave area"}
BeforeMask == BeforeOpen \cup {"save file", "mask"}

(* Interrupts cannot arrive, or nothing of the program's own is loaded.    *)
MaskInv ==
  \/ cr8_masks
  \/ /\ pc \in BeforeMask \cup {"returned", "halted", "undefined"}
     /\ gdtr = "firmware" /\ request = NoRequest

LEMMA NextMaskInv == MaskInv /\ [Next]_vars => MaskInv'
<1> SUFFICES ASSUME MaskInv, [Next]_vars PROVE MaskInv'
  OBVIOUS
<1> USE DEF MaskInv, BeforeMask, BeforeOpen, BeforeFeatures
<1>1. CASE cr8_masks
  BY <1>1 DEF Next, DetectCpu, InitPerfCounters, AllocateKernelStack, AllocateUserPages,
     EnableCpuFeatures, AllocateXsaveArea, OpenTheSaveFile, MaskInterrupts,
     RemapUserPages, RemapRuns, LoadTables, EnterUser, vars, bootVars
<1>2. CASE ~cr8_masks
  <2>1. CASE MaskInterrupts
    BY <2>1 DEF MaskInterrupts
  <2>2. CASE DetectCpu \/ InitPerfCounters \/ AllocateKernelStack \/ AllocateUserPages
             \/ EnableCpuFeatures \/ AllocateXsaveArea \/ OpenTheSaveFile
    <3>1. pc \in BeforeMask /\ pc' \in BeforeMask \cup {"returned", "halted", "undefined"}
      BY <2>2 DEF DetectCpu, InitPerfCounters, AllocateKernelStack, AllocateUserPages,
         EnableCpuFeatures, AllocateXsaveArea, OpenTheSaveFile, Halt
    <3>2. UNCHANGED <<gdtr, remapVars>>
      BY <2>2 DEF DetectCpu, InitPerfCounters, AllocateKernelStack, AllocateUserPages,
         EnableCpuFeatures, AllocateXsaveArea, OpenTheSaveFile
    <3> QED
      BY <1>2, <3>1, <3>2 DEF remapVars
  <2>3. CASE RemapUserPages \/ RemapRuns \/ LoadTables \/ EnterUser
    BY <1>2, <2>3 DEF RemapUserPages, RemapRuns, LoadTables, EnterUser
  <2>4. CASE UNCHANGED vars
    BY <1>2, <2>4 DEF vars, bootVars, remapVars
  <2> QED
    BY <2>1, <2>2, <2>3, <2>4 DEF Next
<1> QED
  BY <1>1, <1>2

(* From the moment the firmware's tables are gone, no interrupt can come,  *)
(* whatever a firmware service does to RFLAGS.IF.                          *)
THEOREM NoInterruptInTables == Spec => []TablesWithoutInterrupts
<1>1. Init => MaskInv
  BY DEF Init, RemapInit, MaskInv, BeforeMask, BeforeOpen, BeforeFeatures
<1>2. MaskInv => TablesWithoutInterrupts
  BY DEF MaskInv, TablesWithoutInterrupts
<1> QED
  BY <1>1, <1>2, NextMaskInv, PTL DEF Spec

----------------------------------------------------------------------------
(* What a step of the boot sequence is for remap_page.                     *)
LEMMA RemapSteps ==
  ASSUME [Next]_vars
  PROVE  \/ /\ UNCHANGED remapVars
            /\ pc = "halted" => pc' = "halted"
         \/ /\ \E page, frame, prot : RemapBegin(page, frame, prot)
            /\ pc # "halted"
         \/ /\ RemapStep
            /\ pc # "halted" /\ (status' = "error" => pc' = "halted")
<1>1. CASE RemapUserPages
  BY <1>1 DEF RemapUserPages
<1>2. CASE RemapRuns
  BY <1>2 DEF RemapRuns
<1>3. CASE DetectCpu \/ InitPerfCounters \/ AllocateKernelStack \/ AllocateUserPages
           \/ EnableCpuFeatures \/ AllocateXsaveArea \/ OpenTheSaveFile
           \/ MaskInterrupts \/ LoadTables \/ EnterUser
  <2>1. UNCHANGED remapVars
    BY <1>3 DEF DetectCpu, InitPerfCounters, AllocateKernelStack, AllocateUserPages,
       EnableCpuFeatures, AllocateXsaveArea, OpenTheSaveFile, MaskInterrupts, LoadTables,
       EnterUser
  <2>2. pc # "halted"
    BY <1>3 DEF DetectCpu, InitPerfCounters, AllocateKernelStack, AllocateUserPages,
       EnableCpuFeatures, AllocateXsaveArea, OpenTheSaveFile, MaskInterrupts, LoadTables,
       EnterUser
  <2> QED
    BY <2>1, <2>2
<1>4. CASE UNCHANGED vars
  BY <1>4 DEF vars, bootVars
<1> QED
  BY <1>1, <1>2, <1>3, <1>4 DEF Next

(* CR0.WP is set outside remap_page, and inside the value it had is kept.  *)
WpInv ==
  /\ remap_pc = "idle" /\ pc # "halted" => cr0_wp
  /\ remap_pc # "idle" => orig_cr0_wp

(* CR0.WP is clear only in remap_page or after its failure.                *)
THEOREM WriteProtectionRestored == Spec => []WriteProtection
<1>1. Init => WpInv
  BY DEF Init, RemapInit, WpInv
<1>2. WpInv /\ [Next]_vars => WpInv'
  <2> SUFFICES ASSUME WpInv, [Next]_vars PROVE WpInv'
    OBVIOUS
  <2>1. CASE UNCHANGED remapVars /\ (pc = "halted" => pc' = "halted")
    BY <2>1 DEF remapVars, WpInv
  <2>2. ASSUME NEW page, NEW frame, NEW prot, RemapBegin(page, frame, prot),
               pc # "halted"
        PROVE  WpInv'
    BY <2>2 DEF RemapBegin, WpInv
  <2>3. CASE RemapStep /\ (status' = "error" => pc' = "halted")
    BY <2>3 DEF RemapStep, LinkTable, Descend, MapPage, FlushTlb, RemapReturns,
                AllocationFails, WpInv
  <2> QED
    BY <2>1, <2>2, <2>3, RemapSteps
<1>3. WpInv => WriteProtection
  BY DEF WpInv, WriteProtection
<1> QED
  BY <1>1, <1>2, <1>3, PTL DEF Spec

(* The walk depends on the tables and CR4.LA57 alone.                      *)
LEMMA TranslateKept ==
  ASSUME UNCHANGED <<entry, la57>>, NEW p
  PROVE  Translate(p)' = Translate(p)
<1>1. Root' = Root
  BY DEF Root
<1>2. \A l : EntryOf(p, l)' = EntryOf(p, l)
  BY DEF EntryOf
<1>3. Path(p)' = Path(p)
  BY <1>1, <1>2 DEF Path, EntryOf
<1>4. Leaf(p)' = Leaf(p)
  BY <1>3, Zenon DEF Leaf
<1> QED
  BY <1>2, <1>3, <1>4, Zenon DEF Translate

(* What the TLB may hold is what the tables say, outside the walk.         *)
TlbInv ==
  remap_pc = "flushed" \/ (remap_pc = "idle" /\ status # "error") =>
    \A p \in Page : cached[p] \subseteq {Translate(p)}

(* After a call that returns success no stale translation is left.         *)
THEOREM NothingStale == Spec => []NoStaleTranslation
<1>1. Init => TlbInv
  BY DEF Init, RemapInit, TlbInv
<1>2. TlbInv /\ [Next]_vars => TlbInv'
  <2> SUFFICES ASSUME TlbInv, [Next]_vars PROVE TlbInv'
    OBVIOUS
  <2>1. CASE UNCHANGED remapVars
    BY <2>1, TranslateKept DEF remapVars, TlbInv
  <2>2. ASSUME NEW page, NEW frame, NEW prot, RemapBegin(page, frame, prot)
        PROVE  TlbInv'
    BY <2>2 DEF RemapBegin, TlbInv
  <2>3. CASE LinkTable \/ Descend \/ MapPage \/ AllocationFails
    BY <2>3 DEF LinkTable, Descend, MapPage, AllocationFails, TlbInv
  <2>4. CASE FlushTlb
    <3>1. UNCHANGED <<entry, la57>>
          /\ cached' = [p \in Page |-> {Translate(p)} \ {Unmapped}]
      BY <2>4 DEF FlushTlb
    <3>2. \A p \in Page : Translate(p)' = Translate(p)
      BY <3>1, TranslateKept
    <3> QED
      BY <3>1, <3>2 DEF TlbInv
  <2>5. CASE RemapReturns
    <3>1. UNCHANGED <<entry, la57, cached>> /\ remap_pc = "flushed"
      BY <2>5 DEF RemapReturns
    <3>2. \A p \in Page : Translate(p)' = Translate(p)
      BY <3>1, TranslateKept
    <3> QED
      BY <3>1, <3>2 DEF TlbInv
  <2> QED
    BY <2>1, <2>2, <2>3, <2>4, <2>5, RemapSteps DEF RemapStep
<1>3. TlbInv => NoStaleTranslation
  BY DEF TlbInv, NoStaleTranslation
<1> QED
  BY <1>1, <1>2, <1>3, PTL DEF Spec

----------------------------------------------------------------------------
(* What open_save_file holds before each of its calls.                     *)
HeldInv ==
  /\ open_pc \in {"open image", "open fs"} => held = {}
  /\ open_pc = "close image" => held = {"loaded_image"}
  /\ open_pc = "open volume" => held = {"simple_fs"}
  /\ open_pc = "open file" => held = {"root_dir"}
  /\ open_pc \in {"get size", "allocate"} => held = {"output_file"}
  /\ open_pc \in {"get info", "set info", "free", "free with error"} =>
       held = {"output_file", "file_info"}
  /\ open_pc = "free" => ~old_data
  /\ open_pc # "idle" => open_status = "none"

(* efi_main has nothing and has called nothing before it opens the file.   *)
CleanInv ==
  /\ pc \in BeforeOpen => open_pc = "idle" /\ open_status = "none" /\ held = {}
                          /\ interrupts /\ gdtr = "firmware"
  /\ pc \in BeforeFeatures => cr4 = {}
  /\ pc \in {"detect", "perf counters", "stack"} => allocated = {}
  /\ pc = "user pages" => allocated = {"kernel stack"}

OpenInv == HeldInv /\ OpenResult

LEMMA OpenBeginKeeps ==
  ASSUME OpenBegin, held = {}, open_status = "none" PROVE OpenInv'
  BY DEF OpenBegin, GoesOn, OpenInv, HeldInv, OpenResult

LEMMA OpenStepKeeps ==
  ASSUME OpenInv, OpenStep PROVE OpenInv'
<1> USE DEF OpenInv, HeldInv, OpenResult, GoesOn, OpenReturns
<1>1. CASE OpenLoadedImage
  BY <1>1 DEF OpenLoadedImage
<1>2. CASE CloseLoadedImage
  BY <1>2 DEF CloseLoadedImage
<1>3. CASE OpenFileSystem
  BY <1>3 DEF OpenFileSystem
<1>4. CASE OpenVolume
  BY <1>4 DEF OpenVolume
<1>5. CASE OpenFile
  BY <1>5 DEF OpenFile
<1>6. CASE GetInfoSize
  BY <1>6 DEF GetInfoSize
<1>7. CASE AllocateInfo
  BY <1>7 DEF AllocateInfo
<1>8. CASE GetInfo
  BY <1>8 DEF GetInfo
<1>9. CASE SetInfo
  BY <1>9 DEF SetInfo
<1>10. CASE FreeInfo
  BY <1>10 DEF FreeInfo
<1> QED
  BY <1>1, <1>2, <1>3, <1>4, <1>5, <1>6, <1>7, <1>8, <1>9, <1>10 DEF OpenStep

LEMMA NextOpenInv == OpenInv /\ CleanInv /\ [Next]_vars => OpenInv'
<1> SUFFICES ASSUME OpenInv, CleanInv, [Next]_vars PROVE OpenInv'
  OBVIOUS
<1>1. CASE UNCHANGED openVars
  BY <1>1 DEF openVars, OpenInv, HeldInv, OpenResult
<1>2. CASE OpenTheSaveFile
  BY <1>2, OpenStepKeeps DEF OpenTheSaveFile
<1>3. CASE AllocateXsaveArea
  <2>1. held = {} /\ open_status = "none"
    BY <1>3 DEF AllocateXsaveArea, CleanInv, BeforeOpen
  <2>2. UNCHANGED openVars \/ OpenBegin
    BY <1>3 DEF AllocateXsaveArea, openVars
  <2> QED
    BY <1>1, <2>1, <2>2, OpenBeginKeeps
<1>4. CASE DetectCpu \/ InitPerfCounters \/ AllocateKernelStack \/ AllocateUserPages
           \/ EnableCpuFeatures \/ MaskInterrupts \/ RemapUserPages \/ RemapRuns
           \/ LoadTables \/ EnterUser
  BY <1>1, <1>4 DEF DetectCpu, InitPerfCounters, AllocateKernelStack, AllocateUserPages,
     EnableCpuFeatures, MaskInterrupts, RemapUserPages, RemapRuns, LoadTables, EnterUser
<1>5. CASE UNCHANGED vars
  BY <1>1, <1>5 DEF vars
<1> QED
  BY <1>2, <1>3, <1>4, <1>5 DEF Next

ReturnInv == CleanInv /\ ReturnsCleanly

LEMMA InterruptsStayOn ==
  ASSUME CallsFirmware, interrupts PROVE interrupts'
  BY Zenon DEF CallsFirmware

LEMMA NextReturnInv == ReturnInv /\ [Next]_vars => ReturnInv'
<1> SUFFICES ASSUME ReturnInv, [Next]_vars PROVE ReturnInv'
  OBVIOUS
<1> USE DEF ReturnInv, CleanInv, ReturnsCleanly, BeforeOpen, BeforeFeatures
<1>1. CASE DetectCpu
  BY <1>1, InterruptsStayOn DEF DetectCpu, openVars
<1>2. CASE InitPerfCounters
  BY <1>2, InterruptsStayOn DEF InitPerfCounters, openVars
<1>3. CASE AllocateKernelStack
  BY <1>3, InterruptsStayOn DEF AllocateKernelStack, openVars
<1>4. CASE AllocateUserPages
  BY <1>4, InterruptsStayOn DEF AllocateUserPages, openVars
<1>5. CASE EnableCpuFeatures
  BY <1>5 DEF EnableCpuFeatures, openVars
<1>6. CASE AllocateXsaveArea \/ OpenTheSaveFile \/ MaskInterrupts \/ RemapUserPages
           \/ RemapRuns \/ LoadTables \/ EnterUser
  <2>1. pc' \notin BeforeOpen \cup {"returned"}
    BY <1>6 DEF AllocateXsaveArea, OpenTheSaveFile, MaskInterrupts, RemapUserPages,
                RemapRuns, LoadTables, EnterUser, Halt
  <2> QED
    BY <2>1
<1>7. CASE UNCHANGED vars
  BY <1>7 DEF vars, bootVars, openVars
<1> QED
  BY <1>1, <1>2, <1>3, <1>4, <1>5, <1>6, <1>7 DEF Next

LEMMA OpenInvariant == Spec => [](OpenInv /\ ReturnInv)
<1>1. Init => OpenInv
  BY DEF Init, OpenInit, OpenInv, HeldInv, OpenResult
<1>2. Init => ReturnInv
  BY DEF Init, OpenInit, ReturnInv, CleanInv, ReturnsCleanly
<1>3. ReturnInv => CleanInv
  BY DEF ReturnInv
<1> QED
  BY <1>1, <1>2, <1>3, NextOpenInv, NextReturnInv, PTL DEF Spec

(* Whichever call fails, open_save_file gives back what it can, succeeds   *)
(* only with an open file, and has emptied it if the firmware asked for a  *)
(* buffer when GetInfo was called without one.                             *)
THEOREM FileOpenedOrClosed == Spec => []OpenResult
<1>1. OpenInv => OpenResult
  BY DEF OpenInv
<1> QED
  BY <1>1, OpenInvariant, PTL

(* A CPU that is not supported is given back as it was.                    *)
THEOREM UnsupportedReturnsCleanly == Spec => []ReturnsCleanly
<1>1. ReturnInv => ReturnsCleanly
  BY DEF ReturnInv
<1> QED
  BY <1>1, OpenInvariant, PTL

----------------------------------------------------------------------------
(* The fields of a segment, from the four words of its entry.              *)
LEMMA SegmentFields ==
  ASSUME NEW s, NEW e, e = Gdt[s \div 8 + 1]
  PROVE  /\ Segment(s).present <=> Bit(e[3], 15)
         /\ Segment(s).system <=> ~Bit(e[3], 12)
         /\ Segment(s).long <=> Bit(e[4], 5)
         /\ Segment(s).default32 <=> Bit(e[4], 6)
         /\ Segment(s).pages <=> Bit(e[4], 7)
         /\ Segment(s).dpl = Dpl(e[3]) /\ Segment(s).type = (e[3] \div 2^8) % 16
         /\ Segment(s).base = <<e[2], (e[3] % 256) + 256 * (e[4] \div 256)>>
         /\ Segment(s).limit = e[1] + 2^16 * (e[4] % 16)
  BY Zenon DEF Segment

(* The word of a segment's flags, and the one of its limit and mode.       *)
LEMMA KernelCodeSegment ==
  /\ Gdt[2] = <<65535, 0, 39680, 175>>
  /\ Segment(KernelCode).present /\ Segment(KernelCode).dpl = 0
  /\ ~Segment(KernelCode).system /\ Segment(KernelCode).type = 11
  /\ Segment(KernelCode).long /\ ~Segment(KernelCode).default32
<1>1. Gdt[2] = <<65535, 0, 39680, 175>>
  BY DEF Gdt, Flat, Execute, L_BIT, GDT_PRESENT, GDT_CODE_OR_DATA_SEGMENT, LimitHigh,
         GDT_GRANULARITY
<1>2. KernelCode \div 8 + 1 = 2
  BY DEF KernelCode
<1>3. /\ (39680 \div 2^15) % 2 = 1 /\ (39680 \div 2^13) % 4 = 0
      /\ (39680 \div 2^12) % 2 = 1 /\ (39680 \div 2^8) % 16 = 11
      /\ (175 \div 2^5) % 2 = 1 /\ (175 \div 2^6) % 2 # 1
  OBVIOUS
<1>4. Gdt[2][3] = 39680 /\ Gdt[2][4] = 175
  BY <1>1
<1>5. /\ Bit(39680, 15) /\ Dpl(39680) = 0 /\ Bit(39680, 12)
      /\ Bit(175, 5) /\ ~Bit(175, 6)
  BY <1>3 DEF Bit, Dpl
<1> QED
  BY <1>1, <1>2, <1>3, <1>4, <1>5, SegmentFields

(* Every gate leads to its own handler in the kernel's code segment, and   *)
(* only the breakpoint's can be called by user code, wherever the handlers *)
(* are.                                                                    *)
THEOREM GatesLeadToHandlers == GatesReachHandlers
<1> SUFFICES ASSUME NEW v \in DOMAIN Idt
             PROVE  /\ GateOffset(Idt[v]) = Handlers[v + 1]
                    /\ Bit(Idt[v].flags, 15) /\ (Idt[v].flags \div 2^8) % 16 \in {14, 15}
                    /\ Dpl(Idt[v].flags) = (IF v = 3 THEN 3 ELSE 0)
                    /\ Idt[v].segment_selector = KernelCode
  BY KernelCodeSegment DEF GatesReachHandlers
<1>1. v \in 0 .. Len(Handlers) - 1 /\ Idt[v] = Gate(v)
  BY DEF Idt
<1>2. Handlers[v + 1] \in Address
  BY <1>1, DescriptorAssumption
<1>3. GateOffset(Idt[v]) = Handlers[v + 1]
  BY <1>1, <1>2 DEF GateOffset, Gate, Address
<1>4. Idt[v].flags = (IF v = 3 THEN 61184 ELSE 36608)
      /\ Idt[v].segment_selector = KernelCode
  BY <1>1 DEF Gate, GDT_PRESENT, IDT_TRAP_GATE, GDT_DPL_3
<1>5. /\ (61184 \div 2^15) % 2 = 1 /\ (61184 \div 2^8) % 16 = 15 /\ (61184 \div 2^13) % 4 = 3
      /\ (36608 \div 2^15) % 2 = 1 /\ (36608 \div 2^8) % 16 = 15 /\ (36608 \div 2^13) % 4 = 0
  OBVIOUS
<1> QED
  BY <1>1, <1>3, <1>4, <1>5 DEF Bit, Dpl

(* The task register's selector leads to the TSS, wherever it is: the four *)
(* pieces its address is cut into come together again.                     *)
THEOREM TssIsFound == TaskFound(\h28)
<1>1. /\ TssBase[1] \in Word /\ TssBase[2] \in Word
      /\ TssBase[3] \in Word /\ TssBase[4] \in Word
      /\ TssBase = <<TssBase[1], TssBase[2], TssBase[3], TssBase[4]>>
  BY DescriptorAssumption DEF Address
<1> DEFINE low == TssBase[2] % 256
           high == TssBase[2] \div 256
<1>2. /\ low \in 0 .. 255 /\ high \in 0 .. 255 /\ low + 256 * high = TssBase[2]
  BY <1>1 DEF Word
<1>3. /\ Gdt[6] = <<103, TssBase[1], 35072 + low, 256 * high>>
      /\ Gdt[7] = <<TssBase[3], TssBase[4], 0, 0>>
  BY DEF Gdt, TssDescriptor, TssSize, GDT_PRESENT, GDT_TSS_AVAILABLE
<1> HIDE DEF low, high
<1>4. /\ ((35072 + low) \div 2^15) % 2 = 1 /\ ((35072 + low) \div 2^12) % 2 # 1
      /\ ((35072 + low) \div 2^8) % 16 = 9 /\ (35072 + low) % 256 = low
  BY <1>2
<1>5. /\ (256 * high) \div 256 = high /\ ((256 * high) \div 2^7) % 2 # 1
      /\ (256 * high) % 16 = 0
  BY <1>2
<1>6. 40 \div 8 + 1 = 6 /\ 40 \div 8 + 2 = 7
  OBVIOUS
<1> DEFINE segment == Segment(40)
<1>7. /\ segment.present /\ segment.system /\ segment.type = 9 /\ ~segment.pages
      /\ segment.base = <<TssBase[1], TssBase[2]>> /\ segment.limit = 103
  <2>1. /\ Gdt[6][1] = 103 /\ Gdt[6][2] = TssBase[1]
        /\ Gdt[6][3] = 35072 + low /\ Gdt[6][4] = 256 * high
    BY <1>3
  <2>2. /\ Bit(35072 + low, 15) /\ ~Bit(35072 + low, 12) /\ ~Bit(256 * high, 7)
    BY <1>4, <1>5 DEF Bit
  <2>3. /\ segment.present /\ segment.system /\ ~segment.pages
    BY <1>6, <2>1, <2>2, SegmentFields
  <2>4. segment.type = 9
    BY <1>4, <1>6, <2>1, SegmentFields
  <2>5. segment.base = <<TssBase[1], TssBase[2]>>
    BY <1>2, <1>4, <1>5, <1>6, <2>1, SegmentFields
  <2>6. segment.limit = 103
    BY <1>5, <1>6, <2>1, SegmentFields
  <2> QED
    BY <2>3, <2>4, <2>5, <2>6
<1>8. DOMAIN segment = {"present", "dpl", "system", "type", "long", "default32", "base",
                        "limit", "pages"}
  BY DEF Segment
<1> HIDE DEF segment
<1>9. TaskSegment(40) = [segment EXCEPT !.base = @ \o <<TssBase[3], TssBase[4]>>]
  <2>1. TaskSegment(40) =
          [Segment(40) EXCEPT
             !.base = @ \o <<Gdt[40 \div 8 + 2][1], Gdt[40 \div 8 + 2][2]>>]
    BY Zenon DEF TaskSegment
  <2>2. Gdt[40 \div 8 + 2][1] = TssBase[3] /\ Gdt[40 \div 8 + 2][2] = TssBase[4]
    BY <1>3, <1>6
  <2> QED
    BY <2>1, <2>2, Zenon DEF segment
<1>10. segment.base \o <<TssBase[3], TssBase[4]>> = TssBase
  <2>1. segment.base = <<TssBase[1], TssBase[2]>>
    BY <1>7
  <2>2. <<TssBase[1], TssBase[2]>> \o <<TssBase[3], TssBase[4]>> = TssBase
    BY <1>1
  <2> QED
    BY <2>1, <2>2, Zenon
<1>11. /\ TaskSegment(40).present /\ TaskSegment(40).system /\ TaskSegment(40).type = 9
       /\ ~TaskSegment(40).pages /\ TaskSegment(40).limit = 103
       /\ TaskSegment(40).base = TssBase
  BY <1>7, <1>8, <1>9, <1>10
<1> QED
  BY <1>11 DEF TaskFound, TssSize

----------------------------------------------------------------------------
(* The look-up of uarch_config.c finds a table for the Skylake cores only: *)
(* model and family as it puts them together give the signature back.      *)
LEMMA OnlySkylakes ==
  ASSUME HasUarchConfig(cpu), cpu.eax \in Nat
  PROVE  cpu.vendor = "GenuineIntel" /\ Signature(cpu.eax) \in SkylakeSignature
<1> DEFINE model == (cpu.eax \div 2^4) % 16
           family == (cpu.eax \div 2^8) % 16
           extended == (cpu.eax \div 2^16) % 16
           extendedFamily == (cpu.eax \div 2^20) % 256
<1>1. /\ family + (IF family = 15 THEN extendedFamily ELSE 0) = 6
      /\ model + (IF family \in {6, 15} THEN 16 * extended ELSE 0)
           \in {78, 94, 142, 158, 165, 166}
  BY DEF HasUarchConfig, Family, Model, SkylakeModels
<1>2. /\ model \in 0 .. 15 /\ family \in 0 .. 15 /\ extended \in 0 .. 15
      /\ extendedFamily \in Nat
  OBVIOUS
<1>3. (cpu.eax \div 2^4) % 2^8 = model + 16 * family
  OBVIOUS
<1>4. Signature(cpu.eax) = 16 * (model + 16 * family) + 65536 * extended
  BY <1>3 DEF Signature
<1> HIDE DEF model, family, extended, extendedFamily
<1>5. family = 6
  BY <1>1, <1>2
<1>6. model + 16 * extended \in {78, 94, 142, 158, 165, 166}
  BY <1>1, <1>5
<1>7. \/ model = 14 /\ extended \in {4, 5, 8, 9}
      \/ model \in {5, 6} /\ extended = 10
  BY <1>2, <1>6
<1>8. Signature(cpu.eax) \in SkylakeSignature
  BY <1>4, <1>5, <1>7 DEF SkylakeSignature
<1> QED
  BY <1>8 DEF HasUarchConfig

(* The segments enter_user asks for, in each of the three modes.           *)
LEMMA UserSegmentsFound == UserSegments(27, 35)
<1>1. /\ Gdt[4][3] = 64256 /\ Gdt[4][4] = 143 + UserCodeMode
      /\ Gdt[5][3] = 62208 /\ Gdt[5][4] = 143
  BY DEF Gdt, Flat, Execute, ReadWrite, GDT_PRESENT, GDT_CODE_OR_DATA_SEGMENT, LimitHigh,
         GDT_GRANULARITY, GDT_DPL_3, UserCodeMode, L_BIT, D_BIT
<1>2. /\ 27 \div 8 + 1 = 4 /\ 35 \div 8 + 1 = 5 /\ 27 % 4 = 3 /\ 35 % 4 = 3
  OBVIOUS
<1>3. /\ (64256 \div 2^15) % 2 = 1 /\ (64256 \div 2^13) % 4 = 3
      /\ (64256 \div 2^12) % 2 = 1 /\ (64256 \div 2^8) % 16 = 11
      /\ (62208 \div 2^15) % 2 = 1 /\ (62208 \div 2^13) % 4 = 3
      /\ (62208 \div 2^12) % 2 = 1 /\ (62208 \div 2^8) % 16 = 3
  OBVIOUS
<1>4. /\ Bit(64256, 15) /\ Dpl(64256) = 3 /\ Bit(64256, 12)
      /\ Bit(62208, 15) /\ Dpl(62208) = 3 /\ Bit(62208, 12)
  BY <1>3 DEF Bit, Dpl
<1>5. /\ ((143 + UserCodeMode) \div 2^5) % 2 = (IF CPU_MODE = 64 THEN 1 ELSE 0)
      /\ ((143 + UserCodeMode) \div 2^6) % 2 = (IF CPU_MODE = 32 THEN 1 ELSE 0)
  BY DescriptorAssumption DEF UserCodeMode, L_BIT, D_BIT
<1>6. /\ Bit(143 + UserCodeMode, 5) <=> CPU_MODE = 64
      /\ Bit(143 + UserCodeMode, 6) <=> CPU_MODE = 32
  BY <1>5 DEF Bit
<1>7. /\ Segment(27).present /\ Segment(27).dpl = 3 /\ ~Segment(27).system
      /\ Segment(27).type = 11
  BY <1>1, <1>2, <1>3, <1>4, SegmentFields
<1>8. Segment(27).long = (CPU_MODE = 64) /\ Segment(27).default32 = (CPU_MODE = 32)
  <2>1. /\ Segment(27).long = Bit(143 + UserCodeMode, 5)
        /\ Segment(27).default32 = Bit(143 + UserCodeMode, 6)
    <3>1. /\ Segment(27).long = Bit(Gdt[27 \div 8 + 1][4], 5)
          /\ Segment(27).default32 = Bit(Gdt[27 \div 8 + 1][4], 6)
      BY Zenon DEF Segment
    <3>2. Gdt[27 \div 8 + 1][4] = 143 + UserCodeMode
      BY <1>1, <1>2
    <3> QED
      BY <3>1, <3>2, Zenon
  <2>2. /\ Bit(143 + UserCodeMode, 5) = (CPU_MODE = 64)
        /\ Bit(143 + UserCodeMode, 6) = (CPU_MODE = 32)
    BY <1>6 DEF Bit
  <2> QED
    BY <2>1, <2>2
<1>9. /\ Segment(35).present /\ Segment(35).dpl = 3 /\ ~Segment(35).system
      /\ Segment(35).type = 3
  BY <1>1, <1>2, <1>3, <1>4, SegmentFields
<1>10. UserSegments(27, 35) <=>
         /\ 27 % 4 = 3 /\ 35 % 4 = 3
         /\ Segment(27).present /\ Segment(27).dpl = 3 /\ ~Segment(27).system
         /\ Segment(27).type \in 8 .. 15
         /\ Segment(27).long = (CPU_MODE = 64) /\ Segment(27).default32 = (CPU_MODE = 32)
         /\ Segment(35).present /\ Segment(35).dpl = 3 /\ ~Segment(35).system
         /\ Segment(35).type \in {2, 3}
  BY Zenon DEF UserSegments
<1>11. 11 \in 8 .. 15 /\ 3 \in {2, 3}
  OBVIOUS
<1> QED
  BY <1>2, <1>7, <1>8, <1>9, <1>10, <1>11, Zenon

(* What efi_main has done by the time it gets to each of its phases.       *)
Done(phases) == pc \notin phases \cup {"returned"}

PhaseInv ==
  /\ cpu \in Cpu
  /\ Done({"detect"}) => HasUarchConfig(cpu)
  /\ Done({"detect", "perf counters"}) => pmu /\ cpu.counters >= PERF_EVENTS_COUNT
  /\ Done({"detect", "perf counters", "stack"}) =>
       tss_rsp0 = kernel_stack_pages + KERNEL_STACK_PAGES
  /\ pc \in {"segments", "idt", "nxe", "execute ud", "user"} => gdtr = "own"
  /\ pc \in {"idt", "nxe", "execute ud", "user"} => task = "own"
  /\ pc \in {"nxe", "execute ud", "user"} => idtr = "own"

LEMMA EnoughCounters ==
  \A n \in 0 .. 255 : ~(PERF_EVENTS_COUNT > n) => n >= PERF_EVENTS_COUNT
  BY DEF PERF_EVENTS_COUNT

LEMMA NextPhaseInv == PhaseInv /\ [Next]_vars => PhaseInv'
<1> SUFFICES ASSUME PhaseInv, [Next]_vars PROVE PhaseInv'
  OBVIOUS
<1> USE DEF PhaseInv, Done
<1>1. CASE DetectCpu
  BY <1>1 DEF DetectCpu
<1>2. CASE InitPerfCounters
  <2>1. cpu.counters \in 0 .. 255
    BY BootAssumption
  <2>2. CASE PERF_EVENTS_COUNT > cpu.counters
    BY <1>2, <2>2 DEF InitPerfCounters
  <2>3. CASE ~(PERF_EVENTS_COUNT > cpu.counters)
    <3>1. cpu.counters >= PERF_EVENTS_COUNT
      BY <2>1, <2>3, EnoughCounters
    <3>2. /\ pc = "perf counters" /\ pc' = "stack" /\ pmu'
          /\ UNCHANGED <<cpu, gdtr, task, idtr>>
      BY <1>2, <2>3 DEF InitPerfCounters
    <3> QED
      BY <3>1, <3>2
  <2> QED
    BY <2>2, <2>3
<1>3. CASE AllocateKernelStack
  BY <1>3 DEF AllocateKernelStack
<1>4. CASE AllocateUserPages
  BY <1>4 DEF AllocateUserPages
<1>5. CASE EnableCpuFeatures \/ AllocateXsaveArea \/ OpenTheSaveFile \/ MaskInterrupts
  BY <1>5 DEF EnableCpuFeatures, AllocateXsaveArea, OpenTheSaveFile, MaskInterrupts, Halt
<1>6. CASE RemapUserPages \/ RemapRuns
  BY <1>6 DEF RemapUserPages, RemapRuns
<1>7. CASE LoadTables
  BY <1>7 DEF LoadTables
<1>8. CASE EnterUser
  BY <1>8 DEF EnterUser
<1>9. CASE UNCHANGED vars
  BY <1>9 DEF vars, bootVars
<1> QED
  BY <1>1, <1>2, <1>3, <1>4, <1>5, <1>6, <1>7, <1>8, <1>9 DEF Next

(* An exception of the first user instruction finds its gate, its handler, *)
(* the task segment and the stack, and the counters count a known core's   *)
(* events: for every CPU, mode, and address of the handlers and the TSS.   *)
THEOREM FirstExceptionIsHandled == Spec => []ReadyForExceptions
<1>1. Init => PhaseInv
  BY DEF Init, PhaseInv, Done
<1>2. PhaseInv => ReadyForExceptions
  <2> SUFFICES ASSUME PhaseInv, pc = "user" PROVE ReadyForExceptions
    BY DEF ReadyForExceptions
  <2>1. HasUarchConfig(cpu) /\ cpu.eax \in Nat
    BY BootAssumption DEF PhaseInv, Done
  <2> QED
    BY <2>1, OnlySkylakes, UserSegmentsFound, GatesLeadToHandlers, TssIsFound
       DEF PhaseInv, Done, ReadyForExceptions
<1> QED
  BY <1>1, <1>2, NextPhaseInv, PTL DEF Spec
=============================================================================
