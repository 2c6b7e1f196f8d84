----------------------------- MODULE FileSystem -----------------------------
(***************************************************************************)
(* The file system (kernel/src/fs/file.c) and the descriptors of processes *)
(* (fcb of process.h, copied by fork).                                     *)
(*                                                                         *)
(* A system call runs with interrupts off, so it is one step.  The disk is *)
(* kept as directory entries, inodes and the bits of the bitmap; what the  *)
(* blocks contain is left out, only which block a byte is written to.  An  *)
(* index of -1 (no free inode, no free block, never assigned) is used by   *)
(* the code like any other: LOC_DATA(-1) is the sector of the last inode   *)
(* and LOC_INODE(-1) the last sector of the directory.                     *)
(***************************************************************************)
EXTENDS Integers, Sequences, FiniteSets, SequencesExt

CONSTANTS
  Names,           \* bound: file names, without the empty one of a free entry
  Procs,           \* bound: processes
  NR_ENTRIES,      \* directory entries (256 sectors of 16)
  SC_INODE,        \* inodes (256)
  SC_DATA,         \* data blocks (32768)
  NR_BLOCKS,       \* blocks of an inode (128)
  BLOCK_SIZE,      \* bytes of a block (512)
  NR_FILE_STREAM,  \* streams (256)
  FCBMAX,          \* descriptors of a process
  Lens,            \* bound: lengths of reads and writes
  Seeks,           \* bound: offsets passed to lseek
  MAXOFF           \* bound: largest offset

Entry  == 0 .. NR_ENTRIES - 1
Inode  == 0 .. SC_INODE - 1
Data   == 0 .. SC_DATA - 1
Block  == 0 .. NR_BLOCKS - 1
Stream == 0 .. NR_FILE_STREAM - 1
Fd     == 0 .. FCBMAX - 1
FS_RW  == 0
FS_RWC == 1
FS_RWD == 2

ASSUME FileAssumption ==
  /\ {NR_ENTRIES, SC_INODE, SC_DATA, NR_BLOCKS, BLOCK_SIZE, NR_FILE_STREAM, FCBMAX}
       \subseteq Nat \ {0}
  /\ Lens \cup Seeks \subseteq Nat /\ Names # {} /\ "" \notin Names
  /\ Procs # {} /\ MAXOFF \in Nat

VARIABLES
  dir,     \* dir[e]: name, size and inode of entry e; inode -1 when e is free
  inodes,  \* inodes[n][b]: the data block of block b, or -1
  imap,    \* the inodes whose bit is set in the bitmap
  dmap,    \* the data blocks whose bit is set
  fs,      \* the streams: used, entry, inode, file_size, offset
  fcb,     \* fcb[p][d]: the stream of descriptor d of process p, or -1
  live,    \* the processes that exist
  fault    \* "none", or what went wrong: "stray" file data was written to the
           \* sector of an inode, to a block of another file or to one the file
           \* was never given, "dir" an inode to a sector of the directory or
           \* the reverse, "fs", "inode", "fcb" memory beside that array was
           \* used, "negative" a negative number of bytes was copied

diskVars == <<dir, inodes, imap, dmap>>
vars == <<diskVars, fs, fcb, live, fault>>

Lowest(S) == CHOOSE x \in S : \A y \in S : x <= y
FirstOrNone(S) == IF S = {} THEN -1 ELSE Lowest(S)

-----------------------------------------------------------------------------
(* The bitmap.  Both allocators return the first unmarked index, or -1.    *)
INodeAlloc == FirstOrNone(Inode \ imap)
dataAlloc(marked) == FirstOrNone(Data \ marked)

Marked_Unsaved(marked, i) == marked  \* mutant: saveBitmap is forgotten
Marked(marked, i) == IF i = -1 THEN marked ELSE marked \cup {i}

-----------------------------------------------------------------------------
(* Streams.                                                                *)
FreeStream == FirstOrNone({i \in Stream : ~fs[i].used})
Opened(e, n, size) ==
  [used |-> TRUE, entry |-> e, inode |-> n, file_size |-> size, offset |-> 0]

(* fs_open_kr: the entry found by name, -1 if there is none or no stream   *)
(* is left to open it.                                                     *)
Named(name) == FirstOrNone({e \in Entry : dir[e].name = name})
CanOpen(name) == Named(name) # -1 /\ FreeStream # -1

FreeEntry == FirstOrNone({e \in Entry : dir[e].inode = -1})

(* fs_open_port: the first free descriptor is made to name stream i.       *)
FreeFd(p) == FirstOrNone({d \in Fd : fcb[p][d] = -1})
Attach(p, i) ==
  IF FreeFd(p) = -1 THEN fault' = "fcb" /\ UNCHANGED fcb
  ELSE fcb' = [fcb EXCEPT ![p][FreeFd(p)] = i] /\ UNCHANGED fault

Runs(p) == fault = "none" /\ p \in live

(* fs_open_md and fs_open_port, the file being found.  FS_RWD sets the     *)
(* size in the stream to 0, not the one in the directory.                  *)
OpenFound(p, name, flags) ==
  /\ Runs(p) /\ CanOpen(name)
  /\ LET e == Named(name)
         size == IF flags = FS_RWD THEN 0 ELSE dir[e].size
     IN  fs' = [fs EXCEPT ![FreeStream] = Opened(e, dir[e].inode, size)]
  /\ Attach(p, FreeStream)
  /\ UNCHANGED <<diskVars, live>>

OpenFails(p, name) ==
  /\ Runs(p) /\ ~CanOpen(name)
  /\ UNCHANGED vars

(* fs_create_kr.  It is also reached for a file that exists, when there is *)
(* no stream left; the new entry is then kept although -1 is returned.     *)
NewEntry(name, n) == [name |-> name, size |-> 0, inode |-> n]

OpenCreates(p, name, flags) ==
  /\ Runs(p) /\ ~CanOpen(name) /\ flags \in {FS_RWC, FS_RWD}
  /\ FreeEntry # -1 /\ INodeAlloc # -1
  /\ dir'    = [dir EXCEPT ![FreeEntry] = NewEntry(name, INodeAlloc)]
  /\ imap'   = Marked(imap, INodeAlloc)
  /\ inodes' = [inodes EXCEPT ![INodeAlloc] = [b \in Block |-> -1]]
  /\ IF FreeStream # -1
     THEN /\ fs' = [fs EXCEPT ![FreeStream] = Opened(FreeEntry, INodeAlloc, 0)]
          /\ Attach(p, FreeStream)
     ELSE /\ fault' = IF flags = FS_RWD THEN "fs" ELSE fault
          /\ UNCHANGED <<fs, fcb>>
  /\ UNCHANGED <<dmap, live>>

(* The directory is full (fs[-1].file_size = 0 follows for FS_RWD), or     *)
(* there is no inode left and the sector of inode -1 is overwritten.       *)
OpenCannotCreate(p, name, flags) ==
  /\ Runs(p) /\ ~CanOpen(name) /\ flags \in {FS_RWC, FS_RWD}
  /\ FreeEntry = -1 \/ INodeAlloc = -1
  /\ fault' = IF FreeEntry # -1 THEN "dir" ELSE IF flags = FS_RWD THEN "fs" ELSE fault
  /\ UNCHANGED <<diskVars, fs, fcb, live>>

Open(p, name, flags) ==
  \/ OpenFound(p, name, flags)
  \/ flags = FS_RW /\ OpenFails(p, name)
  \/ OpenCreates(p, name, flags)
  \/ OpenCannotCreate(p, name, flags)

-----------------------------------------------------------------------------
(* read, write, lseek, close on a descriptor that names a stream.  A call  *)
(* on one that is closed, where the code goes on with fs[-1], is an error  *)
(* of the program and has no action; neither have negative offsets and     *)
(* lengths.                                                                *)
Holds(p, d) == Runs(p) /\ fcb[p][d] # -1
Of(p, d) == fcb[p][d]

Read_FullStep(p, d, len) ==   \* mutant: the offset moves by what was asked for
  LET f    == fs[fcb[p][d]]
      left == IF f.offset + len >= f.file_size THEN f.file_size - f.offset ELSE len
  IN  /\ Holds(p, d)
      /\ fs' = [fs EXCEPT ![fcb[p][d]].offset = IF left < 0 THEN @ ELSE @ + len]
      /\ fault' = IF left < 0 THEN "negative" ELSE fault
      /\ UNCHANGED <<diskVars, fcb, live>>

(* fs_read_kr shortens len to what is left of the file, which is negative  *)
(* after a seek past the end.  copy2myfs makes files that are larger than  *)
(* the inode can tell.                                                     *)
Read(p, d, len) ==
  LET f    == fs[Of(p, d)]
      left == IF f.offset + len >= f.file_size THEN f.file_size - f.offset ELSE len
  IN  /\ Holds(p, d)
      /\ fs' = [fs EXCEPT ![Of(p, d)].offset = IF left < 0 THEN @ ELSE @ + left]
      /\ fault' = IF left < 0 THEN "negative"
                  ELSE IF left > 0 /\ f.offset + left > NR_BLOCKS * BLOCK_SIZE THEN "inode" ELSE fault
      /\ UNCHANGED <<diskVars, fcb, live>>

(* Blocks b \in from .. to of an inode get new data blocks, whether they   *)
(* had one or not.                                                         *)
Allocated(m, from, to) ==
  FoldLeft(LAMBDA s, b : LET i == dataAlloc(s.marked)
                         IN  [marked |-> Marked(s.marked, i), blocks |-> [s.blocks EXCEPT ![b] = i]],
           m, [k \in 1 .. to - from + 1 |-> from + k - 1])

(* The blocks fs_write_base_kr changes.                                    *)
Touched(offset, len) == {b \in Block : b * BLOCK_SIZE < offset + len /\ offset < (b + 1) * BLOCK_SIZE}

(* What fs_write_kr does to the disk before it writes data: the first      *)
(* block when the stream's size is 0, further ones when the write goes     *)
(* beyond it, then the size.                                               *)
WritePlan(f, len) ==
  LET end  == f.offset + len
      m0   == [marked |-> dmap, blocks |-> inodes[f.inode]]
      m1   == IF f.file_size = 0 THEN Allocated(m0, 0, 0) ELSE m0
      size == IF f.file_size # 0 THEN f.file_size
              ELSE IF len > BLOCK_SIZE THEN BLOCK_SIZE ELSE len
      last == end \div BLOCK_SIZE
      over == (end > size /\ last >= NR_BLOCKS) \/ end > NR_BLOCKS * BLOCK_SIZE
  IN  [end |-> end, over |-> over, old |-> dir[f.entry].size, m0 |-> m0, m1 |-> m1,
       m2   |-> IF end > size /\ ~over THEN Allocated(m1, f.offset \div BLOCK_SIZE + 1, last) ELSE m1,
       size |-> IF end > size THEN end ELSE size]

(* A block that is not marked (-1 above all) or belongs to another file,   *)
(* or that the inode still names from its last use, as it lies beyond the  *)
(* file and the write has not given it to the file.                        *)
BLOCKS(size) == (size + BLOCK_SIZE - 1) \div BLOCK_SIZE
Blocks(e) == {inodes[dir[e].inode][b] : b \in {c \in Block : c < BLOCKS(dir[e].size)}}
Foreign(i, n, marked) ==
  \/ i \notin marked
  \/ \E e \in Entry : dir[e].inode \notin {-1, n} /\ i \in Blocks(e)
Stray(f, w, b) ==
  \/ Foreign(w.m2.blocks[b], f.inode, w.m2.marked)
  \/ b >= BLOCKS(f.file_size) /\ b >= BLOCKS(w.old) /\ w.m2.blocks[b] = w.m0.blocks[b]

Write(p, d, len) ==
  LET f == fs[Of(p, d)]
      w == WritePlan(f, len)
  IN  /\ Holds(p, d) /\ w.end <= MAXOFF
      /\ IF w.over
         THEN fault' = "inode" /\ UNCHANGED <<diskVars, fs>>
         ELSE /\ inodes' = [inodes EXCEPT ![f.inode] = w.m2.blocks]
              /\ dmap'   = w.m2.marked
              /\ dir'    = [dir EXCEPT ![f.entry].size = w.size]
              /\ fs'     = [fs EXCEPT ![Of(p, d)].file_size = w.size,
                                      ![Of(p, d)].offset = w.end]
              /\ fault'  = IF \E b \in Touched(f.offset, len) : Stray(f, w, b) THEN "stray" ELSE fault
              /\ UNCHANGED imap
      /\ UNCHANGED <<fcb, live>>

Lseek(p, d, offset, whence) ==
  LET f     == fs[Of(p, d)]
      index == offset + (CASE whence = 0 -> 0 [] whence = 1 -> f.offset [] whence = 2 -> f.file_size)
  IN  /\ Holds(p, d) /\ index \in 0 .. MAXOFF
      /\ fs' = [fs EXCEPT ![Of(p, d)].offset = index]
      /\ UNCHANGED <<diskVars, fcb, live, fault>>

Detached_Kept(p, d) == fcb  \* mutant: the descriptor still names the stream
Detached(p, d) == [fcb EXCEPT ![p][d] = -1]

Close(p, d) ==
  /\ Holds(p, d)
  /\ fs' = [fs EXCEPT ![Of(p, d)].used = FALSE]
  /\ fcb' = Detached(p, d)
  /\ UNCHANGED <<diskVars, live, fault>>

-----------------------------------------------------------------------------
(* Processes.  A son has the parent's descriptors; exit closes nothing;    *)
(* exec opens the program in loader_file and never closes it.              *)
Fork(p, q) ==
  /\ Runs(p) /\ q \notin live
  /\ live' = live \cup {q}
  /\ fcb' = [fcb EXCEPT ![q] = fcb[p]]
  /\ UNCHANGED <<diskVars, fs, fault>>

Exit(p) ==
  /\ Runs(p)
  /\ live' = live \ {p}
  /\ UNCHANGED <<diskVars, fs, fcb, fault>>

Exec(p, name) ==
  /\ Runs(p) /\ CanOpen(name)
  /\ fs' = [fs EXCEPT ![FreeStream] = Opened(Named(name), dir[Named(name)].inode, dir[Named(name)].size)]
  /\ UNCHANGED <<diskVars, fcb, live, fault>>

(* formatter.c clears the disk; copy2myfs.c then writes a file, with as    *)
(* many blocks as its size needs.  The shell is the first process.         *)
Init ==
  \E size \in 0 .. NR_BLOCKS * BLOCK_SIZE :
    /\ size <= MAXOFF /\ BLOCKS(size) <= SC_DATA
    /\ dir    = [e \in Entry |-> IF e = 0 THEN [NewEntry(CHOOSE n \in Names : TRUE, 0) EXCEPT !.size = size]
                                ELSE NewEntry("", -1)]
    /\ inodes = [n \in Inode |-> [b \in Block |-> IF n # 0 THEN 0 ELSE IF b < BLOCKS(size) THEN b ELSE -1]]
    /\ imap = {0} /\ dmap = 0 .. BLOCKS(size) - 1
    /\ fs   = [i \in Stream |-> [Opened(0, 0, 0) EXCEPT !.used = FALSE]]
    /\ fcb  = [p \in Procs |-> [d \in Fd |-> -1]]
    /\ live = {CHOOSE p \in Procs : TRUE}
    /\ fault = "none"

Stopped == (fault # "none" \/ live = {}) /\ UNCHANGED vars

Next ==
  \/ \E p \in Procs, name \in Names : \/ \E flags \in {FS_RW, FS_RWC, FS_RWD} : Open(p, name, flags)
                                      \/ Exec(p, name)
  \/ \E p \in Procs, d \in Fd : \/ \E len \in Lens : Read(p, d, len) \/ Write(p, d, len)
                                \/ \E offset \in Seeks, whence \in 0 .. 2 : Lseek(p, d, offset, whence)
                                \/ Close(p, d)
  \/ \E p, q \in Procs : Fork(p, q)
  \/ \E p \in Procs : Exit(p)
  \/ Stopped

Spec == Init /\ [][Next]_vars

-----------------------------------------------------------------------------
(* Every variable has its type (kernel/include/file.h, process.h).         *)
FileTypeOK ==
  /\ dir \in [Entry -> [name : Names \cup {""}, size : 0 .. MAXOFF, inode : Inode \cup {-1}]]
  /\ inodes \in [Inode -> [Block -> Data \cup {-1}]]
  /\ imap \subseteq Inode /\ dmap \subseteq Data
  /\ fs \in [Stream -> [used : BOOLEAN, entry : Entry, inode : Inode,
                        file_size : 0 .. MAXOFF, offset : 0 .. MAXOFF]]
  /\ fcb \in [Procs -> [Fd -> Stream \cup {-1}]]
  /\ live \subseteq Procs
  /\ fault \in {"none", "stray", "dir", "fs", "inode", "fcb", "negative"}

(* A data block belongs to one place of one file and is marked in the      *)
(* bitmap, however often blocks are allocated anew, streams are opened     *)
(* twice on a file, and files are created (dataAlloc, fs_write_kr).        *)
Files == {e \in Entry : dir[e].inode # -1}
InFile(e) == {b \in Block : b < BLOCKS(dir[e].size)}
BlocksPrivate ==
  fault = "none" =>
    \A e, g \in Files : \A a \in InFile(e), b \in InFile(g) :
      LET i == inodes[dir[e].inode][a] IN
      i # -1 => /\ i \in dmap
                /\ i = inodes[dir[g].inode][b] => e = g /\ a = b

(* A file has an inode of its own and every open stream works on the inode *)
(* of its directory entry, though streams, descriptors and entries are     *)
(* reused and the stream keeps a copy (fs_create_kr, fs_open_kr).          *)
StreamsMatchDirectory ==
  /\ \A e \in Entry : dir[e].inode # -1 =>
       /\ dir[e].inode \in imap
       /\ \A g \in Entry : dir[g].inode = dir[e].inode => g = e
  /\ \A i \in Stream : fs[i].used => fs[i].inode = dir[fs[i].entry].inode

(* What every call, every copy and every loss of power leaves: values in   *)
(* their ranges (no index of a block or inode beyond its table, no stream  *)
(* beyond fs) and streams, entries and inodes that belong together.        *)
FileInv == FileTypeOK /\ StreamsMatchDirectory

(* A stream named by one descriptor only stays open, and on the same file, *)
(* until that descriptor is closed: whatever other processes open, close,  *)
(* inherit or exec (fs_close_port, fs_open_port, copy_pcb).                *)
Holders(i) == {h \in live \X Fd : fcb[h[1]][h[2]] = i}
SoleDescriptorKeepsFile ==
  [][\A h \in live \X Fd :
       LET i == fcb[h[1]][h[2]] IN
       (i # -1 /\ Holders(i) = {h} /\ fs[i].used /\ h[1] \in live' /\ fcb'[h[1]][h[2]] = i)
         => fs'[i].used /\ fs'[i].entry = fs[i].entry]_vars

(* The layout in kernel/include/file.h puts the inodes before the data: a  *)
(* write to a file goes to data blocks of the file.                        *)
WritesGoToData == fault # "stray"
=============================================================================
