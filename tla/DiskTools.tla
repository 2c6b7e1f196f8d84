----------------------------- MODULE DiskTools -----------------------------
(***************************************************************************)
(* The life of a disk: formatter.c clears it, copy2myfs.c copies files to  *)
(* it (the kernel first, see the Makefile), the boot loader reads the      *)
(* kernel from it by sector number, the kernel's file system works on it   *)
(* (module FileSystem), and the power may go at any moment, also between   *)
(* two sectors of one system call or of one run of copy2myfs.              *)
(***************************************************************************)
EXTENDS FileSystem

CONSTANTS
  KERNEL,      \* the name of the first file copied
  SC_BITMAP,   \* sectors of the bitmap (256)
  SC_DIR,      \* sectors of the directory (256)
  KSIZE,       \* bound: its size
  Sizes        \* bound: sizes of the files copied after it

ASSUME ToolsAssumption ==
  /\ KERNEL \in Names /\ SC_BITMAP \in Nat /\ SC_DIR \in Nat
  /\ Sizes \cup {KSIZE} \subseteq 1 .. MAXOFF

VARIABLES
  phase,   \* "blank", "off" (the tools may run) or "on" (the kernel runs)
  image    \* history: k is in it when the k-th block of the kernel lies in
           \* data block k and no other file has been written over it

toolVars == <<phase, image>>
allVars == <<vars, toolVars>>

-----------------------------------------------------------------------------
(* Sectors.                                                                *)
LOC_DATA(i) == 1 + SC_BITMAP + SC_DIR + SC_INODE + i

(* readseg: the sectors read for count bytes at an offset of the disk past *)
(* the boot sector.                                                        *)
readseg_Short(count, offset) ==   \* mutant: pa is not moved to the sector's start
  LET first == offset \div BLOCK_SIZE + 1 IN first .. first + BLOCKS(count) - 1
readseg(count, offset) ==
  LET first == offset \div BLOCK_SIZE + 1
  IN  first .. first + BLOCKS(count + (offset % BLOCK_SIZE)) - 1

(* bootmain: the start of the kernel, whatever the directory says.         *)
KERNEL_OFFSET == (SC_BITMAP + SC_DIR + SC_INODE) * BLOCK_SIZE

-----------------------------------------------------------------------------
(* formatter.c; nothing of the kernel is running.                          *)
Powerless ==
  /\ fs'  = [i \in Stream |-> [Opened(0, 0, 0) EXCEPT !.used = FALSE]]
  /\ fcb' = [p \in Procs |-> [d \in Fd |-> -1]]
  /\ live' = {}

ToolsInit ==
  /\ dir = [e \in Entry |-> NewEntry("", -1)]
  /\ inodes = [n \in Inode |-> [b \in Block |-> 0]]
  /\ imap = {} /\ dmap = {}
  /\ fs = [i \in Stream |-> [Opened(0, 0, 0) EXCEPT !.used = FALSE]]
  /\ fcb = [p \in Procs |-> [d \in Fd |-> -1]]
  /\ live = {} /\ fault = "none"
  /\ phase = "blank" /\ image = {}

(* copy2myfs.c.  The entry is the first that has the name or is free; a    *)
(* copy over an old file takes a new inode and new blocks.  Blocks beyond  *)
(* those the inode can name are written all the same.  The inode, the      *)
(* bitmap and the directory are saved in this order; `saved' says how many *)
(* of them were before the program was stopped.                            *)
CopyEntry(name) == FirstOrNone({e \in Entry : dir[e].name = name \/ dir[e].inode = -1})
SaveOrder_DirFirst == [inode |-> 2, bitmap |-> 3, dir |-> 1]  \* mutant
SaveOrder == [inode |-> 1, bitmap |-> 2, dir |-> 3]

CopyFile(name, size, saved) ==
  LET e   == CopyEntry(name)
      n   == INodeAlloc
      m   == Allocated([marked |-> dmap, blocks |-> [b \in 0 .. BLOCKS(size) - 1 |-> -1]],
                       0, BLOCKS(size) - 1)
      got == {m.blocks[b] : b \in 0 .. BLOCKS(size) - 1}
  IN  /\ fault = "none" /\ phase' = "off"
      /\ IF e = -1 \/ n = -1 \/ -1 \in got
         THEN /\ fault' = IF e = -1 \/ n = -1 THEN "dir" ELSE "stray"
              /\ UNCHANGED <<diskVars, image>>
         ELSE /\ inodes' = IF saved < SaveOrder.inode THEN inodes
                           ELSE [inodes EXCEPT ![n] = [b \in Block |-> IF b < BLOCKS(size) THEN m.blocks[b] ELSE -1]]
              /\ imap' = IF saved < SaveOrder.bitmap THEN imap ELSE Marked(imap, n)
              /\ dmap' = IF saved < SaveOrder.bitmap THEN dmap ELSE m.marked
              /\ dir'  = IF saved < SaveOrder.dir THEN dir
                         ELSE [dir EXCEPT ![e] = [NewEntry(name, n) EXCEPT !.size = size]]
              /\ image' = IF phase = "blank" THEN {k \in DOMAIN m.blocks : m.blocks[k] = k}
                          ELSE image \ got
              /\ UNCHANGED fault
      /\ UNCHANGED <<fs, fcb, live>>

(* The boot loader and main(): the shell is the first process.             *)
PowerOn ==
  /\ phase = "off" /\ fault = "none"
  /\ phase' = "on" /\ live' = {CHOOSE p \in Procs : TRUE}
  /\ UNCHANGED <<diskVars, fs, fcb, fault, image>>

-----------------------------------------------------------------------------
(* The calls that change the disk, and lseek; module Shell has the others. *)
On(Call) == phase = "on" /\ Call /\ UNCHANGED phase

WriteCall(p, d, len) ==
  /\ On(Write(p, d, len))
  /\ LET f == fs[Of(p, d)]
     IN  image' = IF dir[f.entry].name = KERNEL THEN image
                  ELSE image \ {inodes'[f.inode][b] : b \in Touched(f.offset, len)}

OtherCall(p) ==
  \/ \E name \in Names, flags \in {FS_RW, FS_RWC, FS_RWD} : Open(p, name, flags)
  \/ \E d \in Fd : \/ \E offset \in Seeks, whence \in 0 .. 2 : Lseek(p, d, offset, whence)
                   \/ Close(p, d)

(* The machine is switched off, there being no other way to stop it.       *)
PowerOff ==
  /\ phase = "on" /\ fault = "none"
  /\ phase' = "off" /\ Powerless
  /\ UNCHANGED <<diskVars, fault, image>>

(* It is switched off between two sectors of fs_write_kr: each allocation  *)
(* saves the bitmap, a first block's inode comes next, then the blocks of  *)
(* the loop, marked one by one from the lowest, their inode and at last    *)
(* the directory.                                                          *)
MarkedSoFar(w) ==
  {M \in SUBSET w.m2.marked :
     w.m1.marked \subseteq M /\ \A i \in M \ w.m1.marked, j \in w.m2.marked \ M : i < j}

SavedParts_SizeFirst(w) ==   \* mutant: the directory is saved first
  {<<w.m0.marked, w.m0, w.size>>, <<w.m1.marked, w.m0, w.size>>, <<w.m1.marked, w.m1, w.size>>}
SavedParts(w) ==
  {<<w.m1.marked, w.m0, w.old>>, <<w.m2.marked, w.m2, w.old>>}
    \cup {<<M, w.m1, w.old>> : M \in MarkedSoFar(w)}

LossInWrite(p, d, len) ==
  LET f == fs[Of(p, d)]
      w == WritePlan(f, len)
  IN  /\ phase = "on" /\ Holds(p, d) /\ w.end <= MAXOFF /\ ~w.over
      /\ \E s \in SavedParts(w) :
           /\ dmap' = s[1]
           /\ inodes' = [inodes EXCEPT ![f.inode] = s[2].blocks]
           /\ dir' = [dir EXCEPT ![f.entry].size = s[3]]
      /\ phase' = "off" /\ Powerless
      /\ UNCHANGED <<imap, fault, image>>

(* Or of fs_create_kr: the bitmap, then the directory, then the inode.     *)
LossInCreate(p, name) ==
  /\ phase = "on" /\ Runs(p) /\ ~CanOpen(name) /\ FreeEntry # -1 /\ INodeAlloc # -1
  /\ imap' = Marked(imap, INodeAlloc)
  /\ dir' \in {dir, [dir EXCEPT ![FreeEntry] = NewEntry(name, INodeAlloc)]}
  /\ phase' = "off" /\ Powerless
  /\ UNCHANGED <<inodes, dmap, fault, image>>

Broken == fault # "none" /\ UNCHANGED allVars

ToolsNext ==
  \/ phase = "blank" /\ CopyFile(KERNEL, KSIZE, 3)
  \/ phase = "off" /\ \E name \in Names, size \in Sizes, saved \in 0 .. 3 : CopyFile(name, size, saved)
  \/ PowerOn \/ PowerOff
  \/ \E p \in Procs : On(OtherCall(p)) /\ UNCHANGED image
  \/ \E p \in Procs, d \in Fd, len \in Lens : WriteCall(p, d, len) \/ LossInWrite(p, d, len)
  \/ \E p \in Procs, name \in Names : LossInCreate(p, name)
  \/ Broken

ToolsSpec == ToolsInit /\ [][ToolsNext]_allVars

-----------------------------------------------------------------------------
(* Whatever files are copied, created and written besides, and whenever    *)
(* the power goes, the boot loader finds the kernel: for any segment of it *)
(* bootmain reads the sectors of all its bytes, and each holds its part of *)
(* the kernel still, although the inode does not name all blocks of a      *)
(* large kernel (bootmain, readseg, copy2myfs, dataAlloc).                 *)
Segments == {g \in (0 .. KSIZE - 1) \X (1 .. KSIZE) : g[1] + g[2] <= KSIZE}
Got(off, filesz) == {s - LOC_DATA(0) : s \in readseg(filesz, KERNEL_OFFSET + off)}
GotSuffices ==
  \A g \in Segments : \A byte \in g[1] .. g[1] + g[2] - 1 : byte \div BLOCK_SIZE \in Got(g[1], g[2])
AllGot == UNION {Got(g[1], g[2]) : g \in Segments}
KernelStaysBootable ==
  fault = "none" /\ phase # "blank" => GotSuffices /\ AllGot \subseteq image

(* A file has a block for all of its size, as far as an inode reaches:     *)
(* read_myfs.c stops at the first -1, and fs_read_kr would read a sector   *)
(* of the inodes.  It holds after a loss of power too, as the size is      *)
(* saved after the blocks, until all blocks are marked.                    *)
read_myfs(e) == {b \in Block : \A c \in 0 .. b : inodes[dir[e].inode][c] # -1}
FilesReadBack ==
  fault = "none" /\ dmap # Data => \A e \in Files : InFile(e) \subseteq read_myfs(e)
=============================================================================
