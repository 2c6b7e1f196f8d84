-------------------------------- MODULE Video --------------------------------
(***************************************************************************)
(* The picture (kernel/src/video.c): programs draw into VCACHE, a flush    *)
(* copies the rows drawn since the last initVCache to the screen and wipes *)
(* rows that carry an older picture.  Which rows those are is kept in      *)
(* VCDIRTY, which clearVRAM empties every STAMPS calls.                    *)
(*                                                                         *)
(* All programs share the one cache, so their calls come in any order.     *)
(* refreshVCache and forceClearVRAM are never called.                      *)
(***************************************************************************)
EXTENDS Integers, FiniteSets

CONSTANTS
  VHEIGHT,   \* rows
  VWIDTH,    \* pixels of a row
  Colors,    \* bound: colours drawn, 0 is black
  STAMPS     \* 30: calls of clearVRAM between two resets of VCDIRTY

ASSUME VideoAssumption ==
  /\ VHEIGHT \in Nat \ {0} /\ VWIDTH \in Nat \ {0} /\ STAMPS \in Nat \ {0}
  /\ 0 \in Colors

RowNo  == 0 .. VHEIGHT - 1
ColNo  == 0 .. VWIDTH - 1
VEMPTY == [y \in ColNo |-> 0]

VARIABLES
  VRAM,      \* the rows on the screen
  VCACHE,    \* the rows of the cache
  VDIRTY,    \* rows drawn since initVCache
  VCDIRTY,   \* rows drawn since the last reset
  stamp,     \* calls of clearVRAM since the last reset
  spared     \* history: rows that were drawn when VCDIRTY was reset, and
             \* have not been drawn since

videoVars == <<VRAM, VCACHE, VDIRTY, VCDIRTY, stamp, spared>>

VideoInit ==
  /\ VRAM = [x \in RowNo |-> VEMPTY] /\ VCACHE = VRAM
  /\ VDIRTY = {} /\ VCDIRTY = {} /\ stamp = 0 /\ spared = {}

-----------------------------------------------------------------------------
(* Mutant: the rows are no longer dirty, but their pixels stay.            *)
initVCache_KeepsPixels ==
  /\ VDIRTY' = {}
  /\ UNCHANGED <<VRAM, VCACHE, VCDIRTY, stamp, spared>>

initVCache ==
  /\ VCACHE' = [x \in RowNo |-> VEMPTY] /\ VDIRTY' = {}
  /\ UNCHANGED <<VRAM, VCDIRTY, stamp, spared>>

setPixelAt(x, y, color) ==
  /\ IF x \in RowNo /\ y \in ColNo
     THEN /\ VDIRTY' = VDIRTY \cup {x} /\ VCDIRTY' = VCDIRTY \cup {x}
          /\ VCACHE' = [VCACHE EXCEPT ![x][y] = color]
          /\ spared' = spared \ {x}
     ELSE UNCHANGED <<VDIRTY, VCDIRTY, VCACHE, spared>>
  /\ UNCHANGED <<VRAM, stamp>>

(* clearVRAM: the screen it leaves, and the reset of VCDIRTY.              *)
Wiped == [x \in RowNo |-> IF x \in VCDIRTY \ VDIRTY THEN VEMPTY ELSE VRAM[x]]

Restamp ==
  /\ stamp' = (stamp + 1) % STAMPS
  /\ VCDIRTY' = IF stamp' = 0 THEN {} ELSE VCDIRTY
  /\ spared' = IF stamp' = 0 THEN spared \cup VDIRTY ELSE spared

clearVRAM == VRAM' = Wiped /\ Restamp /\ UNCHANGED <<VCACHE, VDIRTY>>

(* Mutant: old rows are not wiped.                                         *)
Flushed_NoWipe == [x \in RowNo |-> IF x \in VDIRTY THEN VCACHE[x] ELSE VRAM[x]]

(* SYS_FLUSH_VCACHE calls clearVRAM and then flushVCache.                  *)
Flushed == [x \in RowNo |-> IF x \in VDIRTY THEN VCACHE[x] ELSE Wiped[x]]
SysFlushVcache == VRAM' = Flushed /\ Restamp /\ UNCHANGED <<VCACHE, VDIRTY>>

VideoNext ==
  \/ initVCache \/ clearVRAM \/ SysFlushVcache
  \/ \E x \in -1 .. VHEIGHT, y \in -1 .. VWIDTH, color \in Colors : setPixelAt(x, y, color)

VideoSpec == VideoInit /\ [][VideoNext]_videoVars

-----------------------------------------------------------------------------
(* Every variable has its type.                                            *)
VideoTypeOK ==
  /\ VRAM \in [RowNo -> [ColNo -> Colors]] /\ VCACHE \in [RowNo -> [ColNo -> Colors]]
  /\ VDIRTY \subseteq RowNo /\ VCDIRTY \subseteq RowNo /\ spared \subseteq RowNo
  /\ stamp \in 0 .. STAMPS - 1

(* A row with anything on the screen is marked in VCDIRTY, so that it will *)
(* be wiped when it is no longer drawn; the exceptions are rows that were  *)
(* being drawn at the moment VCDIRTY was emptied (clearVRAM).              *)
OldRowsAreMarked ==
  \A x \in RowNo : VRAM[x] # VEMPTY => x \in VCDIRTY \cup spared

(* The inductive invariant: besides, a row not drawn is blank in the cache *)
(* and a row drawn is marked.                                              *)
VideoInv ==
  /\ VideoTypeOK
  /\ OldRowsAreMarked
  /\ \A x \in RowNo \ VDIRTY : VCACHE[x] = VEMPTY
  /\ VDIRTY \subseteq VCDIRTY \cup spared

(* A flush puts the whole picture of the cache on the screen, with nothing *)
(* left of earlier pictures, except in the rows just described             *)
(* (SYS_FLUSH_VCACHE).                                                     *)
FlushShowsCache ==
  [][SysFlushVcache => \A x \in RowNo \ spared : VRAM'[x] = VCACHE[x]]_videoVars
=============================================================================
