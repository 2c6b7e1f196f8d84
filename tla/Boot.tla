-------------------------------- MODULE Boot --------------------------------
(***************************************************************************)
(* From the boot loader to the first process: entry.S with the page        *)
(* directory of entrypgdir.c, then main of kernel.c, init_page (pmap.c),   *)
(* init_segment (kvm.c) and the other initialisations in their order; then *)
(* module Traps.  Addresses are page numbers, as the processor translates  *)
(* them.                                                                   *)
(***************************************************************************)
EXTENDS Traps

CONSTANTS
  ENTRIES,     \* entries of a page table or directory (1024)
  KERNBASE,    \* first page of the kernel's addresses (0xc0000)
  PHY,         \* pages of memory (32768)
  BASE,        \* first page that page_init puts on the free list (0x400)
  TEXT,        \* the page the kernel is loaded at (0x100)
  STATICS,     \* pages of its variables but PCBPool, the boot stack too
  POOL,        \* pages of PCBPool
  VMEM         \* pages of the video memory

ASSUME BootAssumption ==
  /\ ENTRIES \in Nat \ {0} /\ {KERNBASE, PHY, BASE} \subseteq Nat
  /\ KERNBASE % ENTRIES = 0 /\ PHY % ENTRIES = 0 /\ BASE + 3 < PHY /\ PHY <= KERNBASE
  /\ STATICS \cup {TEXT} \subseteq 0 .. ENTRIES - 1     \* the kernel's first 4 MB
  /\ POOL \cup VMEM \subseteq 0 .. PHY - 1

VARIABLES
  step,    \* what is done next
  pgdir,   \* the page directory in cr3: "off" (no paging), "entry" or "kern"
  inits    \* the initialisations that are done

bootVars == <<step, pgdir, inits>>
machineVars == <<vars, bootVars>>

-----------------------------------------------------------------------------
(* Translation (mmu.h): an entry is a set with the frame in it, or empty.  *)
PDX(la) == la \div ENTRIES
PTX(la) == la % ENTRIES

(* entrypgdir.c: one table for addresses 0 and KERNBASE.                   *)
entry_pgtable[i \in 0 .. ENTRIES - 1] == i
Entry(la) == IF PDX(la) \in {0, PDX(KERNBASE)} THEN {entry_pgtable[PTX(la)]} ELSE {}

(* init_kern_pgdir fills kpgtable from its last entry down, and page_init  *)
(* maps the video memory where it is.                                      *)
kpgtable_Past(i) == PHY - 1 - (PHY - i)   \* mutant: without pgtable--
kpgtable(i) == PHY - 1 - (PHY - 1 - i)
KernTables == PDX(KERNBASE) .. PDX(KERNBASE) + (PHY \div ENTRIES) - 1
Kern(la) ==
  IF PDX(la) \in KernTables THEN {kpgtable((PDX(la) - PDX(KERNBASE)) * ENTRIES + PTX(la))}
  ELSE IF la \in VMEM /\ "video" \in inits THEN {la} ELSE {}

Translate(la) == CASE pgdir = "off" -> {la} [] pgdir = "entry" -> Entry(la) [] OTHER -> Kern(la)

-----------------------------------------------------------------------------
(* The steps, and the pages of memory each works on through the kernel's   *)
(* addresses; before the jump the instructions are at their low address.   *)
BootOrder_NoIntr ==      \* mutant: the vectors of the controller are left as they were
  <<"entry", "paging", "relocated", "init_kern_pgdir", "lcr3", "page_init", "boot_map_region",
    "init_segment", "init_serial", "init_timer", "init_idt", "init_fs", "init_pcb_pool">>
BootOrder ==
  <<"entry", "paging", "relocated", "init_kern_pgdir", "lcr3", "page_init", "boot_map_region",
    "init_segment", "init_serial", "init_timer", "init_idt", "init_intr", "init_fs", "init_pcb_pool">>

Low(s)  == s \in {"entry", "paging"}
Touched(s) ==
  {TEXT} \cup (IF Low(s) THEN {} ELSE STATICS)
         \cup (IF s = "boot_map_region" THEN BASE .. BASE + 3 ELSE {})  \* memset of doublewords
         \cup (IF s = "init_pcb_pool" THEN POOL ELSE {})

Now == BootOrder[step]
Booting == step <= Len(BootOrder)

BootInit == Init /\ step = 1 /\ pgdir = "off" /\ inits = {}

BootStep ==
  /\ Booting
  /\ step' = step + 1
  /\ pgdir' = CASE Now = "entry" -> "entry" [] Now = "lcr3" -> "kern" [] OTHER -> pgdir
  /\ inits' = inits \cup {IF Now = "boot_map_region" THEN "video" ELSE Now}
  /\ UNCHANGED vars

Machine ==
  \/ BootStep
  \/ ~Booting /\ Next /\ UNCHANGED bootVars

MachineSpec == BootInit /\ [][Machine]_machineVars

-----------------------------------------------------------------------------
(* Every page that a step of the boot works on is mapped, and to the page  *)
(* of memory that is meant: the few instructions before the jump at the    *)
(* low addresses, later all at the kernel's, the first pages of the free   *)
(* list and all of PCBPool too, which lie beyond what entry_pgdir maps     *)
(* (entry.S, init_kern_pgdir, page_init, boot_map_region).                 *)
BootMapped ==
  Booting => \A f \in Touched(Now) : Translate(IF Low(Now) THEN f ELSE KERNBASE + f) = {f}

(* Interrupts are off until their handlers, the segments for them, the     *)
(* controller's vectors and a process to be interrupted exist, and the     *)
(* video memory is mapped from then on (main, switch_proc).                *)
ReadyForInterrupts ==
  cpu.if => /\ {"init_segment", "init_timer", "init_idt", "init_intr", "init_pcb_pool"} \subseteq inits
            /\ current \in used
            /\ \A f \in VMEM : Translate(f) = {f}
=============================================================================
