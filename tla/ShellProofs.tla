----------------------------- MODULE ShellProofs -----------------------------
(***************************************************************************)
(* Proofs about module Shell, for every disk, every set of programs and    *)
(* processes, and every length of a text: what echo and cat leave behind.  *)
(* The lemmas about single system calls are those of FileProofs.           *)
(***************************************************************************)
EXTENDS Shell, FileProofs, FiniteSetTheorems

-----------------------------------------------------------------------------
(* The inductive invariant.                                                *)

(* The descriptors of a process name different streams that are in use.    *)
Desc(p) == {d \in Fd : fcb[p][d] # -1}
Apart(p) ==
  \A d \in Desc(p) : /\ fs[fcb[p][d]].used
                     /\ \A c \in Desc(p) : fcb[p][c] = fcb[p][d] => c = d

(* Where the shell is and what its locals are there.                       *)
Pcs == {"prompt", "open_in", "open_out", "seek", "read", "write", "close_out", "close_in",
        "fork", "exec", "program"}
Commands == [op : {"none", "echo", "cat", "run"}, file : Names \cup {"none"}, to : Names \cup {"none"},
             mode : {"none", ">", ">>"}]
ShellTypes ==
  /\ pc \in Pcs /\ me \in live /\ kid \in Procs /\ cmd \in Commands
  /\ fd \in Fd \cup {-1} /\ out \in Fd \cup {-1} /\ l \in Nat \cup {-1}
  /\ leaks \in Nat /\ goal \in Int

PcFollowsCommand ==
  /\ pc = "prompt" => cmd.op = "none" /\ fd = -1 /\ out = -1 /\ l = 0
  /\ pc = "open_in" => fd = -1 /\ out = -1
  /\ pc = "open_out" => out = -1
  /\ pc = "seek" => cmd.mode = ">>"
  /\ pc \in {"open_out", "seek", "write", "close_out"} => cmd.op \in {"echo", "cat"} /\ cmd.mode # "none"
  /\ pc \in {"open_in", "read", "close_in"} => cmd.op = "cat"
  /\ pc \in {"fork", "exec", "program"} => cmd.op = "run" /\ cmd.file \in Names /\ out = -1
  /\ pc \in {"exec", "program"} => kid \in live /\ kid # me
  /\ cmd.op = "none" => pc = "prompt"
  /\ cmd.op = "run" => pc \in {"fork", "exec", "program"}
  /\ cmd.op = "echo" => fd = -1
  /\ cmd.op = "cat" => cmd.file \in Names /\ l # -1
  /\ cmd.mode # "none" => cmd.to \in Names
  /\ cmd.mode = "none" => out = -1

(* The descriptors that a command has opened and not yet closed; the rest  *)
(* are those of programs.                                                  *)
InFds  == IF fd # -1 /\ cmd.op = "cat" THEN {fd} ELSE {}
OutFds == IF out # -1 /\ pc # "close_in" THEN {out} ELSE {}
FdsCounted ==
  /\ InFds \cup OutFds \subseteq Desc(me) /\ InFds \cap OutFds = {}
  /\ Cardinality(Desc(me) \ (InFds \cup OutFds)) = leaks
  /\ Apart(me)
  /\ pc = "exec" => fcb[kid] = fcb[me]
  /\ pc \in {"exec", "program"} => Apart(kid)

(* The stream cat reads, and how far it has got.  While the command knows  *)
(* a target, the file of the stream is the one it was asked for.           *)
In == fs[fcb[me][fd]]
Asked == pc = "open_out" \/ OutFds # {}
InOK ==
  InFds # {} =>
    /\ In.offset <= In.file_size
    /\ Asked => In.entry = Named(cmd.file) /\ (SizeOf(cmd.file) > 0 => In.file_size > 0)
    /\ pc = "open_out" => In.offset = 0 /\ In.file_size = SizeOf(cmd.file)
    /\ pc = "close_out" => In.offset = In.file_size

(* The stream it writes: behind the last byte written, and as large as the *)
(* target once anything is written.                                        *)
Out == fs[fcb[me][out]]
ToCome ==    \* what is still to be written
  IF cmd.op = "echo" THEN l
  ELSE IF fd = -1 THEN 0
  ELSE In.file_size - In.offset + (IF pc = "write" THEN l ELSE 0)
Begun == InFds # {} /\ In.offset > (IF pc = "write" THEN l ELSE 0)
OutOK ==
  OutFds # {} =>
    /\ Out.entry = Named(cmd.to)
    /\ pc = "seek" => Out.file_size = SizeOf(cmd.to) /\ (InFds # {} => In.offset = 0)
    /\ pc \in {"read", "write"} => Out.offset = Out.file_size
    /\ pc \in {"seek", "read", "write"} => goal = Out.file_size + ToCome
    /\ pc = "write" /\ cmd.op = "cat" => InFds # {} /\ l > 0 /\ l <= In.offset
    /\ pc \in {"read", "write"} /\ Begun => SizeOf(cmd.to) = Out.file_size
    /\ pc = "close_out" => RedirectSize

Working == ShellTypes /\ PcFollowsCommand /\ FdsCounted /\ InOK /\ OutOK
ShellIInv == ShellFaults /\ (fault = "none" => Working)

-----------------------------------------------------------------------------
(* Numbers and tables.                                                     *)

LEMMA ShellNumbers ==
  /\ CHUNK \in Nat \ {0} /\ BLOCK_SIZE \in Nat \ {0} /\ MAXOFF \in Nat
  /\ NR_FILE_STREAM \in Nat \ {0} /\ FCBMAX = NR_FILE_STREAM
  /\ IsFiniteSet(Fd) /\ Cardinality(Fd) = NR_FILE_STREAM
  /\ IsFiniteSet(Stream) /\ Cardinality(Stream) = NR_FILE_STREAM
<1>1. BLOCK_SIZE \in Nat \ {0} /\ MAXOFF \in Nat /\ NR_FILE_STREAM \in Nat \ {0}
  BY FileAssumption
<1>2. CHUNK \in Nat \ {0} /\ FCBMAX = NR_FILE_STREAM
  BY <1>1, ShellAssumption
<1>3. IsFiniteSet(0 .. NR_FILE_STREAM - 1) /\ Cardinality(0 .. NR_FILE_STREAM - 1) = NR_FILE_STREAM
  BY <1>1, FS_Interval
<1>4. QED
  BY <1>1, <1>2, <1>3 DEF Fd, Stream

LEMMA FileTypes ==
  ASSUME FileIInv
  PROVE  /\ FileTypeOK /\ fs \in [Stream -> StreamType] /\ fcb \in [Procs -> [Fd -> Stream \cup {-1}]]
         /\ live \subseteq Procs
         /\ dir \in [Entry -> EntryType]
         /\ FreeEntriesNameless
BY FileParts DEF FileTypeOK, StreamType, EntryType

(* fs_open_port finds a descriptor whenever fs_open_kr found a stream.     *)
LEMMA FreeFdExists ==
  ASSUME FileIInv, NEW p \in Procs, Apart(p), FreeStream # -1
  PROVE  FreeFd(p) # -1
<1>. SUFFICES ASSUME FreeFd(p) = -1 PROVE FALSE
  OBVIOUS
<1>1. FreeStream \in Stream /\ ~fs[FreeStream].used
  BY FileTypes, Searches
<1>2. PICK k \in Stream : k = FreeStream /\ ~fs[k].used
  BY <1>1
<1>3. {d \in Fd : fcb[p][d] = -1} = {}
  <2>1. {d \in Fd : fcb[p][d] = -1} \in SUBSET Nat
    BY RangesAreNat
  <2>2. QED
    BY <2>1, FirstOrNoneIsMember DEF FreeFd
<1>4. \A d \in Fd : d \in Desc(p)
  BY <1>3 DEF Desc
<1>5. fcb[p] \in [Fd -> Stream \cup {-1}]
  BY FileTypes
<1>6. PICK g : g = fcb[p]
  OBVIOUS
<1>7. g \in [Fd -> Stream \ {k}]
  BY <1>2, <1>4, <1>5, <1>6 DEF Apart, Desc
<1>8. \A c, d \in Fd : g[c] = g[d] => c = d
  BY <1>4, <1>6 DEF Apart
<1>9. IsFiniteSet(Stream \ {k}) /\ Cardinality(Stream \ {k}) = NR_FILE_STREAM - 1
  BY <1>2, ShellNumbers, FS_RemoveElement
<1>10. Cardinality(Stream \ {k}) < Cardinality(Fd)
  BY <1>9, ShellNumbers
<1>11. \E c, d \in Fd : c # d /\ g[c] = g[d]
  BY <1>7, <1>9, <1>10, ShellNumbers, FS_PigeonHole
<1>12. QED
  BY <1>8, <1>11

-----------------------------------------------------------------------------
(* What the system calls do, as far as the shell depends on it.            *)

(* The directory as the shell sees it.                                     *)
LEMMA SameNames ==
  ASSUME NEW nm, \A e \in Entry : dir'[e].name = dir[e].name
  PROVE  Named(nm)' = Named(nm)
<1>1. {e \in Entry : dir'[e].name = nm} = {e \in Entry : dir[e].name = nm}
  OBVIOUS
<1>2. QED
  BY <1>1 DEF Named

LEMMA NamedIsEntry ==
  ASSUME FileIInv, NEW nm \in Names, Named(nm) # -1
  PROVE  Named(nm) \in Entry /\ dir[Named(nm)].inode \in Inode /\ dir[Named(nm)].size \in 0 .. MAXOFF
<1>1. Named(nm) \in Entry /\ dir[Named(nm)].name = nm
  BY FileTypes, Searches
<1>2. QED
  BY <1>1, FileTypes, FileAssumption DEF FreeEntriesNameless, EntryType

LEMMA SizesAre ==
  ASSUME FileIInv, NEW nm \in Names
  PROVE  SizeOf(nm) \in 0 .. MAXOFF
<1>1. CASE Named(nm) = -1
  BY <1>1, ZeroIsOffset DEF SizeOf
<1>2. CASE Named(nm) # -1
  BY <1>2, NamedIsEntry DEF SizeOf
<1>3. QED
  BY <1>1, <1>2

(* open has a result.                                                      *)
Opens(name, flags) ==
  \/ CanOpen(name)
  \/ flags # FS_RW /\ FreeEntry # -1 /\ INodeAlloc # -1 /\ FreeStream # -1

(* It then is a free descriptor of the process, which names a stream that  *)
(* was free, on the entry the name has, at its beginning.  Nothing changes *)
(* for files that were there.                                              *)
OpenedAs(p, name, flags, k, c, e, n, size) ==
  /\ k \in Stream /\ ~fs[k].used /\ c = FreeFd(p) /\ c \in Fd /\ fcb[p][c] = -1
  /\ fs' = [fs EXCEPT ![k] = Opened(e, n, size)] /\ fcb' = [fcb EXCEPT ![p][c] = k]
  /\ fault' = "none" /\ e \in Entry /\ e = Named(name)'
  /\ size = IF flags = FS_RWD THEN 0 ELSE SizeOf(name)
  /\ \A nm \in Names : /\ SizeOf(nm)' = SizeOf(nm)
                       /\ Named(nm) # -1 => Named(nm)' = Named(nm)
  /\ flags = FS_RW => dir' = dir

LEMMA AttachEffect ==
  ASSUME FileIInv, NEW p \in Procs, Apart(p), FreeStream # -1, fault = "none", Attach(p, FreeStream)
  PROVE  /\ fcb' = [fcb EXCEPT ![p][FreeFd(p)] = FreeStream] /\ fault' = "none"
         /\ FreeStream \in Stream /\ ~fs[FreeStream].used /\ FreeFd(p) \in Fd /\ fcb[p][FreeFd(p)] = -1
<1>1. FreeFd(p) # -1
  BY FreeFdExists
<1>2. QED
  BY <1>1, FileTypes, Searches DEF Attach

LEMMA FoundEffect ==
  ASSUME FileIInv, NEW p \in Procs, Apart(p), NEW name \in Names, NEW flags,
         OpenFound(p, name, flags)
  PROVE  \E k, c, e, n, size : OpenedAs(p, name, flags, k, c, e, n, size)
<1>. DEFINE size == IF flags = FS_RWD THEN 0 ELSE dir[Named(name)].size
<1>1. /\ FreeStream # -1 /\ Named(name) # -1 /\ fault = "none" /\ Attach(p, FreeStream) /\ dir' = dir
      /\ fs' = [fs EXCEPT ![FreeStream] = Opened(Named(name), dir[Named(name)].inode, size)]
  BY DEF OpenFound, CanOpen, Runs, diskVars
<1>2. \A nm : Named(nm)' = Named(nm)
  BY <1>1, SameNames
<1>3. \A nm \in Names : SizeOf(nm)' = SizeOf(nm)
  BY <1>1, <1>2 DEF SizeOf
<1>4. size = IF flags = FS_RWD THEN 0 ELSE SizeOf(name)
  BY <1>1 DEF SizeOf
<1>. HIDE DEF size
<1>5. Named(name) \in Entry
  BY <1>1, NamedIsEntry
<1>6. OpenedAs(p, name, flags, FreeStream, FreeFd(p), Named(name), dir[Named(name)].inode, size)
  BY <1>1, <1>2, <1>3, <1>4, <1>5, AttachEffect DEF OpenedAs
<1>7. QED
  BY <1>6

LEMMA CreateEffect ==
  ASSUME FileIInv, NEW p \in Procs, Apart(p), NEW name \in Names, NEW flags,
         OpenCreates(p, name, flags), FreeStream # -1
  PROVE  \E k, c, e, n, size : OpenedAs(p, name, flags, k, c, e, n, size)
<1>. DEFINE e == FreeEntry
            n == INodeAlloc
<1>1. /\ e # -1 /\ n # -1 /\ fault = "none" /\ Attach(p, FreeStream)
      /\ dir' = [dir EXCEPT ![e] = NewEntry(name, n)]
      /\ fs' = [fs EXCEPT ![FreeStream] = Opened(e, n, 0)]
      /\ flags # FS_RW
  BY DEF OpenCreates, Runs, FS_RW, FS_RWC, FS_RWD
<1>2. Named(name) = -1
  BY DEF OpenCreates, CanOpen
<1>3. e \in Entry /\ dir[e].inode = -1 /\ dir[e].name = ""
  BY <1>1, FileTypes, Searches DEF FreeEntriesNameless
<1>. HIDE DEF e, n
<1>4. dir'[e].name = name /\ dir'[e].size = 0 /\ \A g \in Entry : g # e => dir'[g] = dir[g]
  BY <1>1, <1>3, FileTypes DEF NewEntry
<1>5. ASSUME NEW nm \in Names, nm # name PROVE Named(nm)' = Named(nm) /\ SizeOf(nm)' = SizeOf(nm)
  <2>1. nm # ""
    BY FileAssumption
  <2>2. \A g \in Entry : dir'[g].name = nm <=> dir[g].name = nm
    BY <1>3, <1>4, <1>5, <2>1
  <2>3. {g \in Entry : dir'[g].name = nm} = {g \in Entry : dir[g].name = nm}
    BY <2>2
  <2>4. Named(nm)' = Named(nm)
    BY <2>3 DEF Named
  <2>5. Named(nm) # -1 => Named(nm) \in Entry /\ Named(nm) # e
    <3>. SUFFICES ASSUME Named(nm) # -1 PROVE Named(nm) \in Entry /\ Named(nm) # e
      OBVIOUS
    <3>1. Named(nm) \in Entry /\ dir[Named(nm)].name = nm
      BY FileTypes, Searches
    <3>2. QED
      BY <1>3, <2>1, <3>1
  <2>6. QED
    BY <1>4, <2>4, <2>5 DEF SizeOf
<1>6. Named(name)' = e
  <2>1. {g \in Entry : dir[g].name = name} = {}
    <3>1. {g \in Entry : dir[g].name = name} \in SUBSET Nat
      BY RangesAreNat
    <3>2. QED
      BY <1>2, <3>1, FirstOrNoneIsMember DEF Named
  <2>2. {g \in Entry : dir'[g].name = name} = {e}
    BY <1>3, <1>4, <2>1
  <2>3. {e} \in SUBSET Nat
    BY <1>3, RangesAreNat
  <2>4. FirstOrNone({e}) \in {e}
    BY <2>3, FirstOrNoneIsMember
  <2>5. QED
    BY <2>2, <2>4 DEF Named
<1>7. SizeOf(name)' = 0 /\ SizeOf(name) = 0
  <2>1. e # -1
    BY <1>3, RangesAreNat
  <2>2. SizeOf(name)' = dir'[e].size
    BY <1>6, <2>1 DEF SizeOf
  <2>3. QED
    BY <1>2, <1>4, <2>2 DEF SizeOf
<1>8. OpenedAs(p, name, flags, FreeStream, FreeFd(p), e, n, 0)
  BY <1>1, <1>2, <1>3, <1>5, <1>6, <1>7, AttachEffect DEF OpenedAs
<1>9. QED
  BY <1>8

LEMMA OpenEffect ==
  ASSUME FileIInv, NEW p \in Procs, Apart(p), NEW name \in Names, NEW flags,
         Open(p, name, flags)
  PROVE  /\ fault = "none" /\ fault' \notin {"fcb", "negative"} /\ live' = live
         /\ Opens(name, flags) => \E k, c, e, n, size : OpenedAs(p, name, flags, k, c, e, n, size)
         /\ ~Opens(name, flags) => fs' = fs /\ fcb' = fcb
<1>1. CASE OpenFound(p, name, flags)
  <2>1. \E k, c, e, n, size : OpenedAs(p, name, flags, k, c, e, n, size)
    BY <1>1, FoundEffect
  <2>2. fault = "none" /\ live' = live /\ Opens(name, flags)
    BY <1>1 DEF OpenFound, Runs, Opens
  <2>3. QED
    BY <2>1, <2>2 DEF OpenedAs
<1>2. CASE flags = FS_RW /\ OpenFails(p, name)
  BY <1>2 DEF OpenFails, Runs, vars, Opens
<1>3. CASE OpenCreates(p, name, flags)
  <2>1. fault = "none" /\ live' = live /\ ~CanOpen(name) /\ flags # FS_RW
        /\ (FreeStream # -1 => Opens(name, flags))
    BY <1>3 DEF OpenCreates, Runs, Opens, FS_RW, FS_RWC, FS_RWD
  <2>2. CASE FreeStream # -1
    <3>1. \E k, c, e, n, size : OpenedAs(p, name, flags, k, c, e, n, size)
      BY <1>3, <2>2, CreateEffect
    <3>2. QED
      BY <2>1, <2>2, <3>1 DEF OpenedAs
  <2>3. CASE FreeStream = -1
    <3>1. fault' \in {"fs", fault} /\ fs' = fs /\ fcb' = fcb
      BY <1>3, <2>3 DEF OpenCreates
    <3>2. ~Opens(name, flags)
      BY <2>1, <2>3 DEF Opens
    <3>3. QED
      BY <2>1, <3>1, <3>2
  <2>4. QED
    BY <2>2, <2>3
<1>4. CASE OpenCannotCreate(p, name, flags)
  BY <1>4 DEF OpenCannotCreate, Runs, Opens
<1>5. QED
  BY <1>1, <1>2, <1>3, <1>4 DEF Open

(* The descriptors after an open.                                          *)
LEMMA OpenedDesc ==
  ASSUME FileIInv, NEW p \in Procs, NEW name, NEW flags, NEW k, NEW c, NEW e, NEW n, NEW size,
         OpenedAs(p, name, flags, k, c, e, n, size)
  PROVE  /\ fs'[k].used /\ fs'[k].entry = e /\ fs'[k].file_size = size /\ fs'[k].offset = 0
         /\ \A j \in Stream : j # k => fs'[j] = fs[j]
         /\ fcb'[p][c] = k /\ \A d \in Fd : d # c => fcb'[p][d] = fcb[p][d]
         /\ \A q \in Procs : q # p => fcb'[q] = fcb[q]
         /\ c \notin Desc(p) /\ Desc(p)' = Desc(p) \cup {c}
<1>1. /\ k \in Stream /\ c \in Fd /\ fcb[p][c] = -1
      /\ fs' = [fs EXCEPT ![k] = Opened(e, n, size)] /\ fcb' = [fcb EXCEPT ![p][c] = k]
  BY DEF OpenedAs
<1>2. fs \in [Stream -> StreamType] /\ fcb \in [Procs -> [Fd -> Stream \cup {-1}]]
  BY FileTypes
<1>3. fs'[k] = Opened(e, n, size) /\ \A j \in Stream : j # k => fs'[j] = fs[j]
  BY <1>1, <1>2
<1>4. fs'[k].used /\ fs'[k].entry = e /\ fs'[k].file_size = size /\ fs'[k].offset = 0
  BY <1>3 DEF Opened
<1>5. /\ fcb'[p][c] = k /\ \A d \in Fd : d # c => fcb'[p][d] = fcb[p][d]
      /\ \A q \in Procs : q # p => fcb'[q] = fcb[q]
  BY <1>1, <1>2
<1>6. k # -1
  BY <1>1, RangesAreNat
<1>7. c \notin Desc(p) /\ Desc(p)' = Desc(p) \cup {c}
  BY <1>1, <1>5, <1>6 DEF Desc
<1>8. QED
  BY <1>3, <1>4, <1>5, <1>7

(* A descriptor names a stream.                                            *)
LEMMA DescStream ==
  ASSUME FileIInv, NEW p \in Procs, NEW d \in Desc(p)
  PROVE  d \in Fd /\ fcb[p][d] \in Stream /\ fs[fcb[p][d]] \in StreamType
<1>1. d \in Fd /\ fcb[p][d] # -1
  BY DEF Desc
<1>2. fcb[p][d] \in Stream
  BY <1>1, FileTypes
<1>3. QED
  BY <1>1, <1>2, FileTypes

LEMMA OpenedApart ==
  ASSUME FileIInv, NEW p \in Procs, NEW name, NEW flags, NEW k, NEW c, NEW e, NEW n, NEW size,
         OpenedAs(p, name, flags, k, c, e, n, size),
         NEW q \in Procs, Apart(q)
  PROVE  Apart(q)'
<1>1. /\ fs'[k].used /\ \A j \in Stream : j # k => fs'[j] = fs[j]
      /\ fcb'[p][c] = k /\ \A d \in Fd : d # c => fcb'[p][d] = fcb[p][d]
      /\ \A r \in Procs : r # p => fcb'[r] = fcb[r]
      /\ c \notin Desc(p) /\ Desc(p)' = Desc(p) \cup {c}
  BY OpenedDesc
<1>2. ~fs[k].used
  BY DEF OpenedAs
<1>3. ASSUME NEW d \in Desc(q)
      PROVE  fs[fcb[q][d]].used /\ fcb[q][d] # k /\ fs'[fcb[q][d]].used
  <2>1. fcb[q][d] \in Stream
    BY DescStream
  <2>2. fs[fcb[q][d]].used
    BY DEF Apart
  <2>3. fcb[q][d] # k
    BY <1>2, <2>2
  <2>4. QED
    BY <1>1, <2>1, <2>2, <2>3
<1>4. CASE q # p
  <2>1. fcb'[q] = fcb[q] /\ Desc(q)' = Desc(q)
    BY <1>1, <1>4 DEF Desc
  <2>2. QED
    BY <1>3, <2>1 DEF Apart
<1>5. CASE q = p
  <2>1. \A d \in Desc(p) : fcb'[p][d] = fcb[p][d] /\ d # c
    BY <1>1 DEF Desc
  <2>2. ASSUME NEW d \in Desc(p)' PROVE fs'[fcb'[p][d]].used
    BY <1>1, <1>3, <1>5, <2>1
  <2>3. ASSUME NEW d \in Desc(p)', NEW b \in Desc(p)', fcb'[p][b] = fcb'[p][d] PROVE b = d
    <3>1. CASE b \in Desc(p) /\ d \in Desc(p)
      BY <1>5, <2>1, <2>3, <3>1 DEF Apart
    <3>2. CASE b = c \/ d = c
      BY <1>1, <1>3, <1>5, <2>1, <2>3, <3>2
    <3>3. QED
      BY <1>1, <3>1, <3>2
  <2>4. QED
    BY <1>5, <2>2, <2>3 DEF Apart
<1>6. QED
  BY <1>4, <1>5

(* Calls that change no descriptor and free no stream.                     *)
LEMMA SameApart ==
  ASSUME NEW q, fcb' = fcb, \A j \in Stream : fs[j].used => fs'[j].used,
         FileIInv, q \in Procs, Apart(q)
  PROVE  Apart(q)' /\ Desc(q)' = Desc(q)
<1>1. Desc(q)' = Desc(q)
  BY DEF Desc
<1>2. \A d \in Desc(q) : fcb[q][d] \in Stream
  BY DescStream
<1>3. QED
  BY <1>1, <1>2 DEF Apart

(* Fields of one stream are set.                                           *)
LEMMA StreamSet ==
  ASSUME FileIInv, NEW i \in Stream, NEW size, NEW offset,
         fs' = [fs EXCEPT ![i].file_size = size, ![i].offset = offset]
  PROVE  /\ fs'[i].file_size = size /\ fs'[i].offset = offset
         /\ \A j \in Stream : /\ fs'[j].used = fs[j].used /\ fs'[j].entry = fs[j].entry
                              /\ j # i => fs'[j] = fs[j]
<1>1. fs \in [Stream -> StreamType]
  BY FileTypes
<1>2. QED
  BY <1>1 DEF StreamType

LEMMA OffsetSet ==
  ASSUME FileIInv, NEW i \in Stream, NEW offset, fs' = [fs EXCEPT ![i].offset = offset]
  PROVE  /\ fs'[i].file_size = fs[i].file_size /\ fs'[i].offset = offset
         /\ \A j \in Stream : /\ fs'[j].used = fs[j].used /\ fs'[j].entry = fs[j].entry
                              /\ j # i => fs'[j] = fs[j]
<1>1. fs \in [Stream -> StreamType]
  BY FileTypes
<1>2. QED
  BY <1>1 DEF StreamType

(* read, within the file: it moves by what is left, at most len.           *)
LEMMA ReadEffect ==
  ASSUME FileIInv, NEW p \in Procs, NEW d \in Desc(p), NEW len \in Nat \ {0}, Read(p, d, len),
         NEW i, i = fcb[p][d], fs[i].offset <= fs[i].file_size,
         NEW n, n = IF fs[i].offset + len >= fs[i].file_size THEN fs[i].file_size - fs[i].offset ELSE len
  PROVE  /\ fault = "none" /\ fault' \notin {"fcb", "negative"} /\ UNCHANGED <<dir, fcb, live>>
         /\ n \in Nat /\ (n = 0 => fs[i].offset = fs[i].file_size)
         /\ fs'[i].file_size = fs[i].file_size /\ fs'[i].offset = fs[i].offset + n
         /\ fs[i].offset + n <= fs[i].file_size
         /\ \A j \in Stream : /\ fs'[j].used = fs[j].used /\ fs'[j].entry = fs[j].entry
                              /\ j # i => fs'[j] = fs[j]
<1>1. i \in Stream /\ fs[i] \in StreamType
  BY DescStream
<1>2. fs[i].offset \in 0 .. MAXOFF /\ fs[i].file_size \in 0 .. MAXOFF /\ MAXOFF \in Nat
  BY <1>1, ShellNumbers DEF StreamType
<1>3. n \in Nat /\ (n = 0 => fs[i].offset = fs[i].file_size) /\ fs[i].offset + n <= fs[i].file_size
  BY <1>2
<1>4. ~(n < 0)
  BY <1>3
<1>5. fs' = [fs EXCEPT ![i].offset = IF n < 0 THEN @ ELSE @ + n]
  BY DEF Read, Of
<1>6. fs' = [fs EXCEPT ![i].offset = fs[i].offset + n]
  <2>1. fs \in [Stream -> StreamType]
    BY FileTypes
  <2>2. QED
    BY <1>1, <1>4, <1>5, <2>1 DEF StreamType
<1>7. fault = "none" /\ fault' \in {"inode", fault} /\ UNCHANGED <<dir, fcb, live>>
  BY <1>4 DEF Read, Of, Holds, Runs, diskVars
<1>8. /\ fs'[i].file_size = fs[i].file_size /\ fs'[i].offset = fs[i].offset + n
      /\ \A j \in Stream : /\ fs'[j].used = fs[j].used /\ fs'[j].entry = fs[j].entry
                           /\ j # i => fs'[j] = fs[j]
  <2>. DEFINE offset == fs[i].offset + n
  <2>1. fs' = [fs EXCEPT ![i].offset = offset]
    BY <1>6
  <2>. HIDE DEF offset
  <2>2. /\ fs'[i].file_size = fs[i].file_size /\ fs'[i].offset = offset
        /\ \A j \in Stream : /\ fs'[j].used = fs[j].used /\ fs'[j].entry = fs[j].entry
                             /\ j # i => fs'[j] = fs[j]
    BY <1>1, <2>1, OffsetSet
  <2>3. QED
    BY <2>2 DEF offset
<1>9. fault' \notin {"fcb", "negative"}
  BY <1>7
<1>10. QED
  BY <1>3, <1>7, <1>8, <1>9

(* lseek to the end.                                                       *)
LEMMA SeekEndEffect ==
  ASSUME FileIInv, NEW p \in Procs, NEW d \in Desc(p), Lseek(p, d, 0, 2),
         NEW i, i = fcb[p][d]
  PROVE  /\ fault = "none" /\ UNCHANGED <<dir, fcb, live, fault>>
         /\ fs'[i].file_size = fs[i].file_size /\ fs'[i].offset = fs[i].file_size
         /\ \A j \in Stream : /\ fs'[j].used = fs[j].used /\ fs'[j].entry = fs[j].entry
                              /\ j # i => fs'[j] = fs[j]
<1>1. i \in Stream /\ fs[i] \in StreamType
  BY DescStream
<1>2. fs[i].file_size \in Int
  BY <1>1, ShellNumbers DEF StreamType
<1>3. PICK size : size = fs[i].file_size
  OBVIOUS
<1>4. fs' = [fs EXCEPT ![i].offset = 0 + fs[i].file_size]
  BY DEF Lseek, Of
<1>5. fs' = [fs EXCEPT ![i].offset = size]
  <2>1. 0 + fs[i].file_size = size
    BY <1>2, <1>3
  <2>2. QED
    BY <1>3, <1>4, <2>1
<1>6. /\ fs'[i].file_size = fs[i].file_size /\ fs'[i].offset = size
      /\ \A j \in Stream : /\ fs'[j].used = fs[j].used /\ fs'[j].entry = fs[j].entry
                           /\ j # i => fs'[j] = fs[j]
  BY <1>1, <1>5, OffsetSet
<1>7. fault = "none" /\ UNCHANGED <<dir, fcb, live, fault>>
  BY DEF Lseek, Holds, Runs, diskVars
<1>8. QED
  BY <1>3, <1>6, <1>7

(* write at the end of the stream: the stream's size and that of the file  *)
(* become the old size of the stream and len, whatever the file had.       *)
LEMMA WriteEffect ==
  ASSUME FileIInv, NEW p \in Procs, NEW d \in Desc(p), NEW len \in Nat, Write(p, d, len),
         NEW i, i = fcb[p][d], fs[i].offset = fs[i].file_size
  PROVE  /\ fault = "none" /\ fault' \notin {"fcb", "negative"} /\ UNCHANGED <<fcb, live>>
         /\ fault' = "none" =>
              /\ fs'[i].file_size = fs[i].file_size + len /\ fs'[i].offset = fs[i].file_size + len
              /\ \A j \in Stream : /\ fs'[j].used = fs[j].used /\ fs'[j].entry = fs[j].entry
                                   /\ j # i => fs'[j] = fs[j]
              /\ \A nm \in Names :
                   /\ Named(nm)' = Named(nm)
                   /\ SizeOf(nm)' = IF Named(nm) = fs[i].entry THEN fs[i].file_size + len ELSE SizeOf(nm)
<1>. DEFINE f == fs[i]
            w == WritePlan(f, len)
            new == f.file_size + len
<1>1. i \in Stream /\ f \in StreamType
  BY DescStream
<1>2. f.offset \in Nat /\ f.file_size \in Nat /\ BLOCK_SIZE \in Nat /\ f.entry \in Entry
  BY <1>1, ShellNumbers DEF StreamType
<1>3. Holds(p, d) /\ w.end <= MAXOFF /\ UNCHANGED <<fcb, live>>
  BY DEF Write, Of
<1>4. FileTypeOK
  BY FileTypes
<1>5. w.end = f.offset + len /\ w.size = IF w.end > SizeGiven(f, len) THEN w.end ELSE SizeGiven(f, len)
  BY <1>1, <1>3, <1>4, WritePlanParts
<1>6. w.end = new /\ w.size = new
  <2>. HIDE DEF w, f
  <2>1. f.offset = f.file_size
    BY DEF f
  <2>2. QED
    BY <1>2, <1>5, <2>1 DEF SizeGiven
<1>7. fault = "none"
  BY <1>3 DEF Holds, Runs
<1>8. CASE fault' = "inode"
  BY <1>3, <1>7, <1>8
<1>9. CASE /\ dir' = [dir EXCEPT ![f.entry].size = w.size]
           /\ fs'  = [fs EXCEPT ![i].file_size = w.size, ![i].offset = w.end]
           /\ fault' \in {"stray", fault}
  <2>. HIDE DEF w, new
  <2>1. dir' = [dir EXCEPT ![f.entry].size = new]
    BY <1>6, <1>9
  <2>2. fs' = [fs EXCEPT ![i].file_size = new, ![i].offset = new]
    BY <1>6, <1>9
  <2>3. /\ fs'[i].file_size = new /\ fs'[i].offset = new
        /\ \A j \in Stream : /\ fs'[j].used = fs[j].used /\ fs'[j].entry = fs[j].entry
                             /\ j # i => fs'[j] = fs[j]
    BY <1>1, <2>2, StreamSet
  <2>. HIDE DEF f
  <2>4. dir \in [Entry -> EntryType]
    BY FileTypes
  <2>5. /\ dir'[f.entry].size = new
        /\ \A g \in Entry : dir'[g].name = dir[g].name /\ (g # f.entry => dir'[g] = dir[g])
    BY <1>2, <2>1, <2>4 DEF EntryType
  <2>6. ASSUME NEW nm \in Names
        PROVE  /\ Named(nm)' = Named(nm)
               /\ SizeOf(nm)' = IF Named(nm) = f.entry THEN new ELSE SizeOf(nm)
    <3>1. Named(nm)' = Named(nm)
      BY <2>5, SameNames
    <3>2. Named(nm) # -1 => Named(nm) \in Entry
      BY NamedIsEntry
    <3>3. f.entry # -1
      BY <1>2, RangesAreNat
    <3>4. QED
      BY <2>5, <3>1, <3>2, <3>3 DEF SizeOf
  <2>7. fault' \notin {"fcb", "negative"}
    BY <1>7, <1>9
  <2>8. QED
    BY <1>3, <1>7, <2>3, <2>6, <2>7 DEF f, new
<1>10. QED
  BY <1>8, <1>9 DEF Write, Of

(* close frees the stream, which no other descriptor of the process names. *)
LEMMA CloseEffect ==
  ASSUME FileIInv, NEW p \in Procs, NEW d \in Desc(p), Apart(p), Close(p, d)
  PROVE  /\ fault = "none" /\ UNCHANGED <<dir, live, fault>>
         /\ Desc(p)' = Desc(p) \ {d} /\ Apart(p)'
         /\ \A c \in Desc(p) : c # d => fcb'[p][c] = fcb[p][c] /\ fs'[fcb[p][c]] = fs[fcb[p][c]]
<1>. DEFINE i == fcb[p][d]
<1>1. d \in Fd /\ i \in Stream
  BY DescStream
<1>2. fs' = [fs EXCEPT ![i].used = FALSE] /\ fcb' = [fcb EXCEPT ![p][d] = -1]
      /\ fault = "none" /\ UNCHANGED <<dir, live, fault>>
  BY DEF Close, Detached, diskVars, Holds, Runs, Of
<1>3. fs \in [Stream -> StreamType] /\ fcb \in [Procs -> [Fd -> Stream \cup {-1}]]
  BY FileTypes
<1>4. \A c \in Desc(p) : c # d => fcb[p][c] \in Stream /\ fcb[p][c] # i
  BY DescStream DEF Apart
<1>. HIDE DEF i
<1>5. \A j \in Stream : j # i => fs'[j] = fs[j]
  BY <1>1, <1>2, <1>3
<1>6. fcb'[p][d] = -1 /\ \A c \in Fd : c # d => fcb'[p][c] = fcb[p][c]
  BY <1>1, <1>2, <1>3
<1>7. Desc(p)' = Desc(p) \ {d}
  BY <1>6 DEF Desc
<1>8. \A c \in Desc(p) : c # d => fcb'[p][c] = fcb[p][c] /\ fs'[fcb[p][c]] = fs[fcb[p][c]]
  BY <1>4, <1>5, <1>6 DEF Desc
<1>9. Apart(p)'
  BY <1>7, <1>8 DEF Apart
<1>10. QED
  BY <1>2, <1>7, <1>8, <1>9

-----------------------------------------------------------------------------
(* The steps of the shell.                                                 *)

LEMMA ShellProcs ==
  ASSUME FileIInv, ShellTypes
  PROVE  me \in Procs /\ kid \in Procs
BY FileTypes DEF ShellTypes

(* Without files of a command nothing is to be said of them.               *)
LEMMA NoFiles ==
  ASSUME InFds' = {}, OutFds' = {}
  PROVE  InOK' /\ OutOK'
BY DEF InOK, OutOK

(* The descriptors are the same ones.                                      *)
LEMMA CountedSame ==
  ASSUME FileIInv, ShellTypes, FdsCounted, fcb' = fcb,
         \A j \in Stream : fs[j].used => fs'[j].used,
         me' = me, leaks' = leaks, InFds' = InFds, OutFds' = OutFds, pc' \notin {"exec", "program"}
  PROVE  FdsCounted'
<1>1. me \in Procs /\ Apart(me)
  BY ShellProcs DEF FdsCounted
<1>2. Apart(me)' /\ Desc(me)' = Desc(me)
  <2>1. PICK q \in Procs : q = me /\ Apart(q)
    BY <1>1
  <2>2. Apart(q)' /\ Desc(q)' = Desc(q)
    BY <2>1, SameApart
  <2>3. q' = me'
    BY <2>1
  <2>4. QED
    BY <2>1, <2>2, <2>3 DEF Apart, Desc
<1>3. QED
  BY <1>2 DEF FdsCounted

(* No call is made.                                                        *)
LEMMA VarsSame ==
  ASSUME UNCHANGED vars
  PROVE  /\ fcb' = fcb /\ fs' = fs /\ dir' = dir /\ live' = live /\ fault' = fault
         /\ \A nm : Named(nm)' = Named(nm) /\ SizeOf(nm)' = SizeOf(nm)
BY DEF vars, diskVars, Named, SizeOf

LEMMA EchoCommandStep ==
  ASSUME FileIInv, fault = "none", Working,
         NEW g \in Names, NEW mode \in {">", ">>"}, NEW len \in Nat \cup {-1}, EchoCommand(g, mode, len)
  PROVE  ShellFaults' /\ Working'
<1>1. /\ pc = "prompt" /\ cmd' = [op |-> "echo", file |-> "none", to |-> g, mode |-> mode]
      /\ l' = len /\ pc' = "open_out" /\ fd' = -1 /\ UNCHANGED <<vars, me, kid, out, leaks, goal>>
  BY DEF EchoCommand
<1>2. ShellTypes /\ PcFollowsCommand /\ FdsCounted
  BY DEF Working
<1>3. fcb' = fcb /\ fs' = fs /\ live' = live /\ fault' = fault
  BY <1>1, VarsSame
<1>4. cmd'.op = "echo" /\ cmd'.to = g /\ cmd'.mode = mode /\ cmd' \in Commands
  BY <1>1 DEF Commands
<1>5. ShellTypes'
  BY <1>1, <1>2, <1>3, <1>4 DEF ShellTypes, Pcs
<1>6. PcFollowsCommand'
  BY <1>1, <1>2, <1>4 DEF PcFollowsCommand
<1>7. InFds = {} /\ OutFds = {} /\ InFds' = {} /\ OutFds' = {}
  BY <1>1, <1>2, <1>4 DEF PcFollowsCommand, InFds, OutFds
<1>8. FdsCounted'
  BY <1>1, <1>2, <1>3, <1>7, CountedSame
<1>9. InOK' /\ OutOK'
  BY <1>7, NoFiles
<1>10. QED
  BY <1>3, <1>5, <1>6, <1>8, <1>9 DEF Working, ShellFaults, FcbSuffices, NegativeOnlyFromEcho

LEMMA CatCommandStep ==
  ASSUME FileIInv, fault = "none", Working,
         NEW f \in Names, NEW g \in Names, NEW mode \in {"none", ">", ">>"}, CatCommand(f, g, mode)
  PROVE  ShellFaults' /\ Working'
<1>1. /\ pc = "prompt" /\ cmd' = [op |-> "cat", file |-> f, to |-> g, mode |-> mode]
      /\ pc' = "open_in" /\ UNCHANGED <<vars, me, kid, fd, out, l, leaks, goal>>
  BY DEF CatCommand
<1>2. ShellTypes /\ PcFollowsCommand /\ FdsCounted
  BY DEF Working
<1>3. fcb' = fcb /\ fs' = fs /\ live' = live /\ fault' = fault
  BY <1>1, VarsSame
<1>4. cmd'.op = "cat" /\ cmd'.file = f /\ cmd'.to = g /\ cmd'.mode = mode /\ cmd' \in Commands
  BY <1>1 DEF Commands
<1>5. ShellTypes'
  BY <1>1, <1>2, <1>3, <1>4 DEF ShellTypes, Pcs
<1>6. PcFollowsCommand'
  <2>1. fd' = -1 /\ out' = -1 /\ l' = 0 /\ l' # -1
    BY <1>1, <1>2 DEF PcFollowsCommand
  <2>2. QED
    BY <1>1, <1>4, <2>1 DEF PcFollowsCommand
<1>7. InFds = {} /\ OutFds = {} /\ InFds' = {} /\ OutFds' = {}
  BY <1>1, <1>2, <1>4 DEF PcFollowsCommand, InFds, OutFds
<1>8. FdsCounted'
  BY <1>1, <1>2, <1>3, <1>7, CountedSame
<1>9. InOK' /\ OutOK'
  BY <1>7, NoFiles
<1>10. QED
  BY <1>3, <1>5, <1>6, <1>8, <1>9 DEF Working, ShellFaults, FcbSuffices, NegativeOnlyFromEcho

(* The files of the command: descriptors of the shell, on two streams.     *)
LEMMA HeldFiles ==
  ASSUME FileIInv, ShellTypes, FdsCounted
  PROVE  /\ me \in Procs /\ Apart(me)
         /\ InFds # {} =>
              /\ InFds = {fd} /\ fd # -1 /\ cmd.op = "cat" /\ fd \in Desc(me)
              /\ fcb[me][fd] \in Stream /\ fs[fcb[me][fd]].used
              /\ In.offset \in Nat /\ In.file_size \in Nat /\ In.entry \in Entry
         /\ OutFds # {} =>
              /\ OutFds = {out} /\ out # -1 /\ pc # "close_in" /\ out \in Desc(me)
              /\ fcb[me][out] \in Stream
              /\ Out.offset \in Nat /\ Out.file_size \in Nat /\ Out.entry \in Entry
         /\ InFds # {} /\ OutFds # {} => fcb[me][fd] # fcb[me][out]
<1>1. me \in Procs /\ Apart(me)
  BY ShellProcs DEF FdsCounted
<1>2. ASSUME NEW d \in Desc(me)
      PROVE  /\ fcb[me][d] \in Stream /\ fs[fcb[me][d]].used
             /\ fs[fcb[me][d]].offset \in Nat /\ fs[fcb[me][d]].file_size \in Nat
             /\ fs[fcb[me][d]].entry \in Entry
  <2>1. PICK f : f = fs[fcb[me][d]]
    OBVIOUS
  <2>2. fcb[me][d] \in Stream /\ f \in StreamType
    BY <1>1, <2>1, DescStream
  <2>3. f.offset \in Nat /\ f.file_size \in Nat /\ f.entry \in Entry
    BY <2>2, ShellNumbers DEF StreamType
  <2>4. QED
    BY <1>1, <2>1, <2>2, <2>3 DEF Apart
<1>3. InFds # {} => InFds = {fd} /\ fd # -1 /\ cmd.op = "cat" /\ fd \in Desc(me)
  BY DEF InFds, FdsCounted
<1>4. OutFds # {} => OutFds = {out} /\ out # -1 /\ pc # "close_in" /\ out \in Desc(me)
  BY DEF OutFds, FdsCounted
<1>5. InFds # {} /\ OutFds # {} => fcb[me][fd] # fcb[me][out]
  <2>. SUFFICES ASSUME InFds # {}, OutFds # {} PROVE fcb[me][fd] # fcb[me][out]
    OBVIOUS
  <2>1. fd # out
    BY <1>3, <1>4 DEF FdsCounted
  <2>2. QED
    BY <1>1, <1>3, <1>4, <2>1 DEF Apart
<1>6. InFds # {} => /\ fcb[me][fd] \in Stream /\ fs[fcb[me][fd]].used
                    /\ In.offset \in Nat /\ In.file_size \in Nat /\ In.entry \in Entry
  BY <1>2, <1>3 DEF In
<1>7. OutFds # {} => /\ fcb[me][out] \in Stream
                     /\ Out.offset \in Nat /\ Out.file_size \in Nat /\ Out.entry \in Entry
  BY <1>2, <1>4 DEF Out
<1>8. QED
  BY <1>1, <1>3, <1>4, <1>5, <1>6, <1>7

(* No system call, no fault; and none of the two that the shell must not   *)
(* cause.                                                                  *)
LEMMA NoShellFault ==
  ASSUME fault' \notin {"fcb", "negative"}
  PROVE  ShellFaults'
BY DEF ShellFaults, FcbSuffices, NegativeOnlyFromEcho

LEMMA ResultOfOpen ==
  ASSUME NEW name, NEW flags
  PROVE  OpenResult(name, flags) = IF Opens(name, flags) THEN FreeFd(me) ELSE -1
BY DEF OpenResult, Opens

(* The names and descriptors in the next state.                            *)
LEMMA NextNames ==
  ASSUME NEW nm
  PROVE  /\ nm = cmd'.file => Named(cmd.file)' = Named(nm)' /\ SizeOf(cmd.file)' = SizeOf(nm)'
         /\ nm = cmd'.to => Named(cmd.to)' = Named(nm)' /\ SizeOf(cmd.to)' = SizeOf(nm)'
BY DEF Named, SizeOf

LEMMA NextDescs ==
  ASSUME NEW p, p = me'
  PROVE  Desc(me)' = Desc(p)' /\ (Apart(p)' => Apart(me)')
BY DEF Apart, Desc

LEMMA OpenInStep ==
  ASSUME FileIInv, fault = "none", Working, OpenIn
  PROVE  ShellFaults' /\ (fault' = "none" => Working')
<1>1. /\ pc = "open_in" /\ Open(me, cmd.file, FS_RW) /\ fd' = OpenResult(cmd.file, FS_RW)
      /\ pc' = IF cmd.mode = "none" THEN "read" ELSE "open_out"
      /\ UNCHANGED <<me, kid, cmd, out, l, leaks, goal>>
  BY DEF OpenIn
<1>2. ShellTypes /\ PcFollowsCommand /\ FdsCounted
  BY DEF Working
<1>3. me \in Procs /\ Apart(me)
  BY <1>2, HeldFiles
<1>4. cmd.op = "cat" /\ cmd.file \in Names /\ fd = -1 /\ out = -1
  BY <1>1, <1>2 DEF PcFollowsCommand
<1>5. PICK p \in Procs, nm \in Names : p = me /\ nm = cmd.file
  BY <1>3, <1>4
<1>6. Apart(p) /\ Open(p, nm, FS_RW) /\ fd' = IF Opens(nm, FS_RW) THEN FreeFd(p) ELSE -1
  BY <1>1, <1>3, <1>5, ResultOfOpen
<1>7. /\ fault' \notin {"fcb", "negative"} /\ live' = live
      /\ Opens(nm, FS_RW) => \E k, c, e, n, size : OpenedAs(p, nm, FS_RW, k, c, e, n, size)
      /\ ~Opens(nm, FS_RW) => fs' = fs /\ fcb' = fcb
  BY <1>6, OpenEffect
<1>8. InFds = {} /\ OutFds = {} /\ OutFds' = {} /\ pc' \notin {"exec", "program", "close_out"}
  BY <1>1, <1>4 DEF InFds, OutFds
<1>9. PcFollowsCommand'
  BY <1>1, <1>2, <1>4 DEF PcFollowsCommand
<1>10. CASE ~Opens(nm, FS_RW)
  <2>1. fd' = -1 /\ fs' = fs /\ fcb' = fcb
    BY <1>6, <1>7, <1>10
  <2>2. ShellTypes'
    BY <1>1, <1>2, <1>7, <2>1 DEF ShellTypes, Pcs
  <2>3. InFds' = {}
    BY <2>1 DEF InFds
  <2>4. FdsCounted'
    BY <1>1, <1>2, <1>8, <2>1, <2>3, CountedSame
  <2>5. QED
    BY <1>7, <1>8, <1>9, <2>2, <2>3, <2>4, NoFiles, NoShellFault DEF Working
<1>11. CASE Opens(nm, FS_RW)
  <2>1. PICK k, c, e, n, size : OpenedAs(p, nm, FS_RW, k, c, e, n, size)
    BY <1>7, <1>11
  <2>2. /\ c \in Fd /\ fd' = c /\ e = Named(nm)' /\ size = SizeOf(nm) /\ SizeOf(nm)' = SizeOf(nm)
    BY <1>6, <1>11, <2>1 DEF OpenedAs, FS_RW, FS_RWD
  <2>3. /\ fs'[k].entry = e /\ fs'[k].file_size = size /\ fs'[k].offset = 0
        /\ fcb'[p][c] = k /\ c \notin Desc(p) /\ Desc(p)' = Desc(p) \cup {c}
    BY <2>1, OpenedDesc
  <2>4. Apart(p)'
    BY <1>6, <2>1, OpenedApart
  <2>5. Desc(me)' = Desc(me) \cup {c} /\ Apart(me)' /\ c \notin Desc(me)
    BY <1>1, <1>5, <2>3, <2>4, NextDescs
  <2>6. ShellTypes'
    BY <1>1, <1>2, <1>7, <2>2 DEF ShellTypes, Pcs
  <2>7. InFds' = {c}
    <3>1. c # -1
      BY <2>2, RangesAreNat
    <3>2. QED
      BY <1>1, <1>4, <2>2, <3>1 DEF InFds
  <2>8. FdsCounted'
    <3>1. Desc(me)' \ (InFds \cup OutFds)' = Desc(me) \ (InFds \cup OutFds)
      BY <1>8, <2>5, <2>7
    <3>2. QED
      BY <1>1, <1>2, <1>8, <2>5, <2>7, <3>1 DEF FdsCounted
  <2>9. InOK'
    <3>1. In' = fs'[k]
      BY <1>1, <1>5, <2>2, <2>3 DEF In
    <3>2. size \in Nat
      BY <2>2, SizesAre, ShellNumbers
    <3>3. In'.offset <= In'.file_size
      BY <2>3, <3>1, <3>2
    <3>4. Named(cmd.file)' = Named(nm)' /\ SizeOf(cmd.file)' = SizeOf(nm)'
      BY <1>1, <1>5, NextNames
    <3>5. In'.entry = Named(cmd.file)' /\ In'.file_size = SizeOf(cmd.file)' /\ In'.offset = 0
      BY <2>2, <2>3, <3>1, <3>4
    <3>6. QED
      BY <1>8, <3>3, <3>5 DEF InOK
  <2>10. OutOK'
    BY <1>8 DEF OutOK
  <2>11. QED
    BY <1>7, <1>9, <2>6, <2>8, <2>9, <2>10, NoShellFault DEF Working
<1>12. QED
  BY <1>10, <1>11

(* The stream that is read does not change when another one does.          *)
LEMMA InSame ==
  ASSUME FileIInv, ShellTypes, FdsCounted, InFds # {},
         UNCHANGED <<me, fd, cmd>>, fcb'[me][fd] = fcb[me][fd],
         NEW k, k # fcb[me][fd], \A j \in Stream : j # k => fs'[j] = fs[j]
  PROVE  InFds' = InFds /\ In' = In
<1>1. InFds = {fd} /\ fcb[me][fd] \in Stream
  BY HeldFiles
<1>2. InFds' = InFds
  BY DEF InFds
<1>3. In' = In
  BY <1>1 DEF In
<1>4. QED
  BY <1>2, <1>3

LEMMA OpenOutStep ==
  ASSUME FileIInv, fault = "none", Working, OpenOut
  PROVE  ShellFaults' /\ (fault' = "none" => Working')
<1>. DEFINE old == IF cmd.mode = ">" THEN 0 ELSE SizeOf(cmd.to)
            more == IF cmd.op = "echo" THEN l ELSE IF fd = -1 THEN 0 ELSE SizeOf(cmd.file)
<1>1. PICK flags \in {FS_RWC, FS_RWD} :
         /\ flags = IF cmd.mode = ">" THEN FS_RWD ELSE FS_RWC
         /\ pc = "open_out" /\ Open(me, cmd.to, flags) /\ out' = OpenResult(cmd.to, flags)
         /\ goal' = old + more
         /\ pc' = IF cmd.mode = ">>" THEN "seek" ELSE IF cmd.op = "echo" THEN "write" ELSE "read"
         /\ UNCHANGED <<me, kid, cmd, fd, l, leaks>>
  BY DEF OpenOut
<1>2. ShellTypes /\ PcFollowsCommand /\ FdsCounted /\ InOK
  BY DEF Working
<1>3. me \in Procs /\ Apart(me)
  BY <1>2, HeldFiles
<1>4. /\ cmd.op \in {"echo", "cat"} /\ cmd.to \in Names /\ out = -1 /\ cmd.mode # "none"
      /\ cmd.op = "cat" => cmd.file \in Names
      /\ cmd.op = "echo" => fd = -1
  BY <1>1, <1>2 DEF PcFollowsCommand
<1>5. PICK p \in Procs, nm \in Names : p = me /\ nm = cmd.to
  BY <1>3, <1>4
<1>6. Apart(p) /\ Open(p, nm, flags) /\ out' = IF Opens(nm, flags) THEN FreeFd(p) ELSE -1
  BY <1>1, <1>3, <1>5, ResultOfOpen
<1>7. /\ fault' \notin {"fcb", "negative"} /\ live' = live
      /\ Opens(nm, flags) => \E k, c, e, n, size : OpenedAs(p, nm, flags, k, c, e, n, size)
      /\ ~Opens(nm, flags) => fs' = fs /\ fcb' = fcb
  BY <1>6, OpenEffect
<1>8. OutFds = {} /\ pc' \notin {"prompt", "open_in", "open_out", "exec", "program", "close_out", "close_in"}
  BY <1>1, <1>4 DEF OutFds
<1>9. InFds' = InFds
  BY <1>1 DEF InFds
<1>10. PcFollowsCommand'
  BY <1>1, <1>2, <1>4 DEF PcFollowsCommand
<1>11. old \in Int /\ more \in Int /\ goal' \in Int
  <2>1. old \in Int
    BY <1>4, SizesAre, ShellNumbers
  <2>2. l \in Int
    BY <1>2 DEF ShellTypes
  <2>3. more \in Int
    BY <1>4, <2>2, SizesAre, ShellNumbers
  <2>4. QED
    BY <1>1, <2>1, <2>3
<1>. HIDE DEF old, more
<1>12. CASE ~Opens(nm, flags)
  <2>1. out' = -1 /\ fs' = fs /\ fcb' = fcb
    BY <1>6, <1>7, <1>12
  <2>2. ShellTypes'
    BY <1>1, <1>2, <1>7, <1>11, <2>1 DEF ShellTypes, Pcs
  <2>3. OutFds' = {}
    BY <2>1 DEF OutFds
  <2>4. FdsCounted'
    BY <1>1, <1>2, <1>8, <1>9, <2>1, <2>3, CountedSame
  <2>5. InOK'
    <3>1. In' = In
      BY <1>1, <2>1 DEF In
    <3>2. ~Asked'
      BY <1>8, <2>3 DEF Asked
    <3>3. QED
      BY <1>2, <1>8, <1>9, <3>1, <3>2 DEF InOK
  <2>6. OutOK'
    BY <2>3 DEF OutOK
  <2>7. QED
    BY <1>7, <1>10, <2>2, <2>4, <2>5, <2>6, NoShellFault DEF Working
<1>13. CASE Opens(nm, flags)
  <2>1. PICK k, c, e, n, size : OpenedAs(p, nm, flags, k, c, e, n, size)
    BY <1>7, <1>13
  <2>2. /\ c \in Fd /\ out' = c /\ e = Named(nm)' /\ ~fs[k].used
        /\ size = (IF flags = FS_RWD THEN 0 ELSE SizeOf(nm)) /\ SizeOf(nm)' = SizeOf(nm)
        /\ \A m \in Names : SizeOf(m)' = SizeOf(m) /\ (Named(m) # -1 => Named(m)' = Named(m))
    BY <1>6, <1>13, <2>1 DEF OpenedAs
  <2>3. /\ fs'[k].entry = e /\ fs'[k].file_size = size /\ fs'[k].offset = 0
        /\ fcb'[p][c] = k /\ c \notin Desc(p) /\ Desc(p)' = Desc(p) \cup {c}
        /\ \A j \in Stream : j # k => fs'[j] = fs[j]
        /\ \A d \in Fd : d # c => fcb'[p][d] = fcb[p][d]
    BY <2>1, OpenedDesc
  <2>4. Apart(p)'
    BY <1>6, <2>1, OpenedApart
  <2>5. Desc(me)' = Desc(me) \cup {c} /\ Apart(me)' /\ c \notin Desc(me)
    BY <1>1, <1>5, <2>3, <2>4, NextDescs
  <2>6. ShellTypes'
    BY <1>1, <1>2, <1>7, <1>11, <2>2 DEF ShellTypes, Pcs
  <2>7. OutFds' = {c}
    <3>1. c # -1
      BY <2>2, RangesAreNat
    <3>2. QED
      BY <1>8, <2>2, <3>1 DEF OutFds
  <2>8. FdsCounted'
    <3>1. InFds \subseteq Desc(me) /\ c \notin InFds
      BY <1>2, <2>5 DEF FdsCounted
    <3>2. Desc(me)' \ (InFds \cup OutFds)' = Desc(me) \ (InFds \cup OutFds)
      BY <1>8, <1>9, <2>5, <2>7, <3>1
    <3>3. QED
      BY <1>1, <1>2, <1>8, <1>9, <2>5, <2>7, <3>1, <3>2 DEF FdsCounted
  <2>9. InFds # {} => /\ In' = In /\ In.offset = 0 /\ In.file_size = SizeOf(cmd.file)
                      /\ In.entry = Named(cmd.file) /\ In.entry # -1 /\ In.file_size \in Nat
                      /\ cmd.op = "cat" /\ fd # -1
    <3>. SUFFICES ASSUME InFds # {}
                  PROVE  /\ In' = In /\ In.offset = 0 /\ In.file_size = SizeOf(cmd.file)
                         /\ In.entry = Named(cmd.file) /\ In.entry # -1 /\ In.file_size \in Nat
                         /\ cmd.op = "cat" /\ fd # -1
      OBVIOUS
    <3>1. /\ fd \in Desc(me) /\ fs[fcb[me][fd]].used /\ In.file_size \in Nat /\ In.entry \in Entry
          /\ cmd.op = "cat" /\ fd # -1
      BY <1>2, HeldFiles
    <3>2. fcb[me][fd] # k /\ fcb'[me][fd] = fcb[me][fd]
      BY <1>5, <2>2, <2>3, <3>1 DEF Desc
    <3>3. In' = In
      BY <1>1, <1>2, <2>3, <3>2, InSame
    <3>4. In.offset = 0 /\ In.file_size = SizeOf(cmd.file) /\ In.entry = Named(cmd.file)
      BY <1>1, <1>2 DEF InOK, Asked
    <3>5. In.entry # -1
      BY <3>1, RangesAreNat
    <3>6. QED
      BY <3>1, <3>3, <3>4, <3>5
  <2>10. InFds # {} => Named(cmd.file)' = Named(cmd.file) /\ SizeOf(cmd.file)' = SizeOf(cmd.file)
    <3>. SUFFICES ASSUME InFds # {}
                  PROVE  Named(cmd.file)' = Named(cmd.file) /\ SizeOf(cmd.file)' = SizeOf(cmd.file)
      OBVIOUS
    <3>1. PICK m \in Names : m = cmd.file
      BY <1>4, <2>9
    <3>2. Named(m)' = Named(m) /\ SizeOf(m)' = SizeOf(m)
      BY <2>2, <2>9, <3>1
    <3>3. Named(cmd.file)' = Named(m)' /\ SizeOf(cmd.file)' = SizeOf(m)'
      BY <1>1, <3>1, NextNames
    <3>4. QED
      BY <3>1, <3>2, <3>3
  <2>11. InOK'
    BY <1>8, <1>9, <2>9, <2>10 DEF InOK
  <2>12. Out' = fs'[k]
    BY <1>1, <1>5, <2>2, <2>3 DEF Out
  <2>13. Named(cmd.to)' = e /\ SizeOf(cmd.to)' = SizeOf(nm)
    BY <1>1, <1>5, <2>2, NextNames
  <2>14. /\ size = old /\ (cmd.mode = ">>" => size = SizeOf(nm)) /\ (cmd.mode = ">" => size = 0)
    BY <1>1, <1>4, <1>5, <2>2 DEF old, FS_RWC, FS_RWD
  <2>15. ToCome' = more
    <3>1. CASE cmd.op = "echo"
      BY <1>1, <3>1 DEF ToCome, more
    <3>2. CASE cmd.op = "cat" /\ fd = -1
      BY <1>1, <3>2 DEF ToCome, more
    <3>3. CASE cmd.op = "cat" /\ fd # -1
      <4>1. InFds # {}
        BY <3>3 DEF InFds
      <4>2. pc' # "write"
        BY <1>1, <3>3
      <4>3. ToCome' = In'.file_size - In'.offset + 0
        BY <1>1, <3>3, <4>2 DEF ToCome
      <4>4. QED
        BY <2>9, <3>3, <4>1, <4>3 DEF more
    <3>4. QED
      BY <1>4, <3>1, <3>2, <3>3
  <2>16. pc' \in {"read", "write"} => ~Begun'
    <3>. SUFFICES ASSUME pc' \in {"read", "write"}, InFds # {} PROVE ~Begun'
      BY <1>9 DEF Begun
    <3>1. pc' = "read" /\ In'.offset = 0
      BY <1>1, <2>9
    <3>2. QED
      BY <3>1 DEF Begun
  <2>17. OutOK'
    <3>1. Out'.entry = Named(cmd.to)'
      BY <2>3, <2>12, <2>13
    <3>2. pc' = "seek" => Out'.file_size = SizeOf(cmd.to)' /\ (InFds' # {} => In'.offset = 0)
      BY <1>1, <1>9, <2>3, <2>9, <2>12, <2>13, <2>14
    <3>3. pc' \in {"read", "write"} => Out'.offset = Out'.file_size
      <4>1. pc' \in {"read", "write"} => cmd.mode = ">"
        BY <1>1, <1>2, <1>4 DEF ShellTypes, Commands
      <4>2. QED
        BY <2>3, <2>12, <2>14, <4>1
    <3>4. goal' = Out'.file_size + ToCome'
      BY <1>1, <2>3, <2>12, <2>14, <2>15
    <3>5. ~(pc' = "write" /\ cmd'.op = "cat")
      BY <1>1
    <3>6. QED
      BY <1>8, <2>16, <3>1, <3>2, <3>3, <3>4, <3>5 DEF OutOK
  <2>18. QED
    BY <1>7, <1>10, <2>6, <2>8, <2>11, <2>17, NoShellFault DEF Working
<1>14. QED
  BY <1>12, <1>13

LEMMA SeekEndStep ==
  ASSUME FileIInv, fault = "none", Working, SeekEnd
  PROVE  ShellFaults' /\ (fault' = "none" => Working')
<1>1. /\ pc = "seek" /\ OnFd(out, Lseek(me, out, 0, 2))
      /\ pc' = IF cmd.op = "echo" THEN "write" ELSE "read"
      /\ UNCHANGED <<me, kid, cmd, fd, out, l, leaks, goal>>
  BY DEF SeekEnd
<1>2. ShellTypes /\ PcFollowsCommand /\ FdsCounted /\ InOK /\ OutOK
  BY DEF Working
<1>3. me \in Procs /\ Apart(me)
  BY <1>2, HeldFiles
<1>4. cmd.op \in {"echo", "cat"} /\ cmd.mode # "none" /\ (cmd.op = "echo" => fd = -1)
  BY <1>1, <1>2 DEF PcFollowsCommand
<1>5. InFds' = InFds /\ OutFds' = OutFds /\ pc' \in {"write", "read"}
  BY <1>1 DEF InFds, OutFds
<1>6. PcFollowsCommand'
  BY <1>1, <1>2, <1>4 DEF PcFollowsCommand
<1>7. CASE out = -1
  <2>1. fcb' = fcb /\ fs' = fs /\ live' = live /\ fault' = fault
    BY <1>1, <1>7, VarsSame DEF OnFd
  <2>2. ShellTypes'
    BY <1>1, <1>2, <2>1 DEF ShellTypes, Pcs
  <2>3. FdsCounted'
    BY <1>1, <1>2, <1>5, <2>1, CountedSame
  <2>4. OutFds' = {}
    BY <1>1, <1>7 DEF OutFds
  <2>5. InOK'
    <3>1. In' = In
      BY <1>1, <2>1 DEF In
    <3>2. ~Asked'
      BY <1>5, <2>4 DEF Asked
    <3>3. QED
      BY <1>2, <1>5, <3>1, <3>2 DEF InOK
  <2>6. OutOK'
    BY <2>4 DEF OutOK
  <2>7. QED
    BY <1>6, <2>1, <2>2, <2>3, <2>5, <2>6, NoShellFault DEF Working
<1>8. CASE out # -1
  <2>1. OutFds = {out}
    BY <1>1, <1>8 DEF OutFds
  <2>2. out \in Desc(me) /\ Out.file_size \in Nat
    BY <1>2, <2>1, HeldFiles
  <2>3. PICK p \in Procs, d \in Fd, k \in Stream : d \in Desc(p) /\ p = me /\ d = out /\ k = fcb[p][d]
    BY <1>2, <1>3, <2>1, <2>2, HeldFiles DEF Desc
  <2>4. Lseek(p, d, 0, 2)
    BY <1>1, <1>8, <2>3 DEF OnFd
  <2>5. /\ UNCHANGED <<dir, fcb, live, fault>>
        /\ fs'[k].file_size = fs[k].file_size /\ fs'[k].offset = fs[k].file_size
        /\ \A j \in Stream : /\ fs'[j].used = fs[j].used /\ fs'[j].entry = fs[j].entry
                             /\ j # k => fs'[j] = fs[j]
    BY <2>3, <2>4, SeekEndEffect
  <2>6. ShellTypes'
    BY <1>1, <1>2, <2>5 DEF ShellTypes, Pcs
  <2>7. FdsCounted'
    BY <1>1, <1>2, <1>5, <2>5, CountedSame
  <2>8. Out' = fs'[k] /\ Out = fs[k] /\ k \in Stream
    BY <1>1, <2>3, <2>5, DescStream DEF Out
  <2>9. InFds # {} => In' = In /\ In.offset = 0
    <3>. SUFFICES ASSUME InFds # {} PROVE In' = In /\ In.offset = 0
      OBVIOUS
    <3>1. fcb[me][fd] # k
      BY <1>2, <2>1, <2>3, HeldFiles
    <3>2. In' = In
      BY <1>1, <1>2, <2>5, <3>1, InSame
    <3>3. QED
      BY <1>1, <1>2, <2>1, <3>2 DEF OutOK
  <2>10. /\ Named(cmd.file)' = Named(cmd.file) /\ SizeOf(cmd.file)' = SizeOf(cmd.file)
         /\ Named(cmd.to)' = Named(cmd.to) /\ SizeOf(cmd.to)' = SizeOf(cmd.to)
    BY <1>1, <2>5 DEF Named, SizeOf
  <2>11. InOK'
    <3>1. Asked
      BY <2>1 DEF Asked
    <3>2. QED
      BY <1>2, <1>5, <2>9, <2>10, <3>1 DEF InOK
  <2>12. Out'.entry = Out.entry /\ Out'.file_size = Out.file_size /\ Out'.offset = Out'.file_size
    BY <2>5, <2>8
  <2>13. ToCome' = ToCome
    <3>1. cmd.op = "cat" /\ fd # -1 => InFds # {} /\ pc' # "write"
      BY <1>1 DEF InFds
    <3>2. QED
      BY <1>1, <1>4, <2>9, <3>1 DEF ToCome
  <2>14. ~Begun'
    <3>. SUFFICES ASSUME InFds # {} PROVE ~Begun'
      BY <1>5 DEF Begun
    <3>1. cmd.op = "cat"
      BY <1>2, HeldFiles
    <3>2. pc' = "read" /\ In'.offset = 0
      BY <1>1, <2>9, <3>1
    <3>3. QED
      BY <3>2 DEF Begun
  <2>15. OutOK'
    <3>1. Out'.entry = Named(cmd.to)'
      BY <1>2, <2>1, <2>10, <2>12 DEF OutOK
    <3>2. goal' = Out'.file_size + ToCome'
      BY <1>1, <1>2, <2>1, <2>12, <2>13 DEF OutOK
    <3>3. ~(pc' = "write" /\ cmd'.op = "cat") /\ pc' \notin {"seek", "close_out"}
      BY <1>1
    <3>4. QED
      BY <2>12, <2>14, <3>1, <3>2, <3>3 DEF OutOK
  <2>16. QED
    BY <1>6, <2>5, <2>6, <2>7, <2>11, <2>15, NoShellFault DEF Working
<1>9. QED
  BY <1>7, <1>8

(* cat reads on until nothing is left.                                     *)
LEMMA ReadInStep ==
  ASSUME FileIInv, fault = "none", Working, ReadIn
  PROVE  ShellFaults' /\ (fault' = "none" => Working')
<1>1. PICK n : /\ n = IF fd = -1 THEN 0 ELSE Left(fd)
               /\ pc = "read" /\ OnFd(fd, Read(me, fd, CHUNK)) /\ l' = n
               /\ pc' = IF n # 0 THEN (IF cmd.mode = "none" THEN "read" ELSE "write")
                        ELSE IF cmd.mode = "none" THEN "close_in" ELSE "close_out"
               /\ UNCHANGED <<me, kid, cmd, fd, out, leaks, goal>>
  BY DEF ReadIn
<1>2. ShellTypes /\ PcFollowsCommand /\ FdsCounted /\ InOK /\ OutOK
  BY DEF Working
<1>3. me \in Procs /\ Apart(me)
  BY <1>2, HeldFiles
<1>4. cmd.op = "cat" /\ cmd.file \in Names /\ (cmd.mode = "none" => out = -1)
  BY <1>1, <1>2 DEF PcFollowsCommand
<1>5. /\ InFds' = InFds /\ OutFds' = OutFds
      /\ pc' \in {"read", "write", "close_in", "close_out"}
      /\ OutFds # {} => pc' \in {"write", "close_out"}
  BY <1>1, <1>4 DEF InFds, OutFds
<1>6. n \in Nat => PcFollowsCommand'
  BY <1>1, <1>2, <1>4 DEF PcFollowsCommand
<1>7. CASE fd = -1
  <2>1. fcb' = fcb /\ fs' = fs /\ live' = live /\ fault' = fault /\ dir' = dir
    BY <1>1, <1>7, VarsSame DEF OnFd
  <2>2. n = 0 /\ n \in Nat
    BY <1>1, <1>7
  <2>3. ShellTypes'
    BY <1>1, <1>2, <2>1, <2>2 DEF ShellTypes, Pcs
  <2>4. FdsCounted'
    BY <1>1, <1>2, <1>5, <2>1, CountedSame
  <2>5. InFds = {}
    BY <1>7 DEF InFds
  <2>6. InOK'
    BY <1>5, <2>5 DEF InOK
  <2>7. OutOK'
    <3>. SUFFICES ASSUME OutFds # {} PROVE OutOK'
      BY <1>5 DEF OutOK
    <3>1. pc' = "close_out"
      BY <1>1, <1>5, <2>2
    <3>2. Out'.entry = Named(cmd.to)'
      <4>1. Out' = Out /\ Named(cmd.to)' = Named(cmd.to)
        BY <1>1, <2>1 DEF Out, Named
      <4>2. QED
        BY <1>2, <4>1 DEF OutOK
    <3>3. RedirectSize'
      BY <1>1, <1>4, <1>7 DEF RedirectSize
    <3>4. QED
      BY <3>1, <3>2, <3>3 DEF OutOK
  <2>8. QED
    BY <1>6, <2>1, <2>2, <2>3, <2>4, <2>6, <2>7, NoShellFault DEF Working
<1>8. CASE fd # -1
  <2>1. InFds = {fd} /\ InFds # {}
    BY <1>4, <1>8 DEF InFds
  <2>2. fd \in Desc(me) /\ In.offset \in Nat /\ In.file_size \in Nat /\ In.offset <= In.file_size
    BY <1>2, <2>1, HeldFiles DEF InOK
  <2>3. PICK p \in Procs, d \in Fd, k \in Stream : d \in Desc(p) /\ p = me /\ d = fd /\ k = fcb[p][d]
    BY <1>2, <1>3, <2>1, <2>2, HeldFiles DEF Desc
  <2>4. In = fs[k] /\ k \in Stream
    BY <2>3, DescStream DEF In
  <2>5. Read(p, d, CHUNK) /\ CHUNK \in Nat \ {0}
    BY <1>1, <1>8, <2>3, ShellNumbers DEF OnFd
  <2>6. n = IF fs[k].offset + CHUNK >= fs[k].file_size THEN fs[k].file_size - fs[k].offset ELSE CHUNK
    BY <1>1, <1>8, <2>3 DEF Left
  <2>7. /\ fault' \notin {"fcb", "negative"} /\ UNCHANGED <<dir, fcb, live>>
        /\ n \in Nat /\ (n = 0 => fs[k].offset = fs[k].file_size)
        /\ fs'[k].file_size = fs[k].file_size /\ fs'[k].offset = fs[k].offset + n
        /\ fs[k].offset + n <= fs[k].file_size
        /\ \A j \in Stream : /\ fs'[j].used = fs[j].used /\ fs'[j].entry = fs[j].entry
                             /\ j # k => fs'[j] = fs[j]
    BY <2>2, <2>3, <2>4, <2>5, <2>6, ReadEffect
  <2>8. ShellTypes'
    BY <1>1, <1>2, <2>7 DEF ShellTypes, Pcs
  <2>9. FdsCounted'
    BY <1>1, <1>2, <1>5, <2>7, CountedSame
  <2>10. In' = fs'[k]
    BY <1>1, <2>3, <2>7 DEF In
  <2>11. /\ In'.entry = In.entry /\ In'.file_size = In.file_size /\ In'.offset = In.offset + n
         /\ In'.offset <= In'.file_size /\ (n = 0 => In.offset = In.file_size)
    BY <2>4, <2>7, <2>10
  <2>12. /\ Named(cmd.file)' = Named(cmd.file) /\ SizeOf(cmd.file)' = SizeOf(cmd.file)
         /\ Named(cmd.to)' = Named(cmd.to) /\ SizeOf(cmd.to)' = SizeOf(cmd.to)
    BY <1>1, <2>7 DEF Named, SizeOf
  <2>13. InOK'
    <3>1. Asked' => Asked
      BY <1>5 DEF Asked
    <3>2. pc' # "open_out" /\ (pc' = "close_out" => n = 0)
      BY <1>1
    <3>3. n = 0 => In'.offset = In'.file_size
      BY <2>2, <2>11
    <3>4. QED
      BY <1>2, <2>1, <2>11, <2>12, <3>1, <3>2, <3>3 DEF InOK
  <2>14. OutOK'
    <3>. SUFFICES ASSUME OutFds # {} PROVE OutOK'
      BY <1>5 DEF OutOK
    <3>1. /\ Out.entry = Named(cmd.to) /\ Out.offset = Out.file_size /\ goal = Out.file_size + ToCome
          /\ Begun => SizeOf(cmd.to) = Out.file_size
      BY <1>1, <1>2 DEF OutOK
    <3>2. Out' = Out /\ Out.file_size \in Nat
      <4>1. fcb[me][out] # k /\ fcb[me][out] \in Stream /\ Out.file_size \in Nat
        BY <1>2, <2>1, <2>3, HeldFiles
      <4>2. QED
        BY <1>1, <2>7, <4>1 DEF Out
    <3>3. ToCome = In.file_size - In.offset
      <4>1. ToCome = In.file_size - In.offset + 0
        BY <1>1, <1>4, <1>8 DEF ToCome
      <4>2. QED
        BY <2>2, <4>1
    <3>4. Begun <=> In.offset > 0
      BY <1>1, <2>1 DEF Begun
    <3>5. CASE n # 0
      <4>1. pc' = "write" /\ l' = n /\ n > 0
        BY <1>1, <1>5, <2>7, <3>5
      <4>2. ToCome' = In'.file_size - In'.offset + n
        BY <1>1, <1>4, <1>8, <4>1 DEF ToCome
      <4>3. goal' = Out'.file_size + ToCome'
        BY <1>1, <2>2, <2>7, <2>11, <3>1, <3>2, <3>3, <4>2
      <4>4. Begun' => Begun
        <5>1. Begun' => In'.offset > n
          BY <4>1 DEF Begun
        <5>2. QED
          BY <2>2, <2>7, <2>11, <3>4, <5>1
      <4>5. InFds' # {} /\ l' > 0 /\ l' <= In'.offset
        BY <1>5, <2>1, <2>2, <2>7, <2>11, <4>1
      <4>6. QED
        BY <2>12, <3>1, <3>2, <4>1, <4>3, <4>4, <4>5 DEF OutOK
    <3>6. CASE n = 0
      <4>1. pc' = "close_out"
        BY <1>1, <1>5, <3>6
      <4>2. goal' = Out.file_size
        BY <1>1, <2>2, <2>11, <3>1, <3>2, <3>3, <3>6
      <4>3. SizeOf(cmd.file) > 0 => SizeOf(cmd.to) = Out.file_size
        <5>1. SizeOf(cmd.file) > 0 => In.file_size > 0
          BY <1>2, <2>1 DEF InOK, Asked
        <5>2. SizeOf(cmd.file) > 0 => In.offset > 0
          BY <2>11, <3>6, <5>1
        <5>3. QED
          BY <3>1, <3>4, <5>2
      <4>4. RedirectSize'
        BY <1>1, <1>4, <2>12, <4>2, <4>3 DEF RedirectSize
      <4>5. QED
        BY <2>12, <3>1, <3>2, <4>1, <4>4 DEF OutOK
    <3>7. QED
      BY <3>5, <3>6
  <2>15. QED
    BY <1>6, <2>7, <2>8, <2>9, <2>13, <2>14, NoShellFault DEF Working
<1>9. QED
  BY <1>7, <1>8

LEMMA WriteOutStep ==
  ASSUME FileIInv, fault = "none", Working, WriteOut
  PROVE  ShellFaults' /\ (fault' = "none" => Working')
<1>1. /\ pc = "write"
      /\ OnFd(out, IF l = -1 THEN Runs(me) /\ fault' = "negative" /\ UNCHANGED <<diskVars, fs, fcb, live>>
                   ELSE Write(me, out, l))
      /\ pc' = IF cmd.op = "echo" THEN "close_out" ELSE "read"
      /\ UNCHANGED <<me, kid, cmd, fd, out, l, leaks, goal>>
  BY DEF WriteOut
<1>2. ShellTypes /\ PcFollowsCommand /\ FdsCounted /\ InOK /\ OutOK
  BY DEF Working
<1>3. me \in Procs /\ Apart(me)
  BY <1>2, HeldFiles
<1>4. /\ cmd.op \in {"echo", "cat"} /\ cmd.mode # "none" /\ cmd.to \in Names
      /\ cmd.op = "cat" => cmd.file \in Names /\ l # -1
      /\ cmd.op = "echo" => fd = -1
  BY <1>1, <1>2 DEF PcFollowsCommand
<1>5. InFds' = InFds /\ OutFds' = OutFds /\ pc' \in {"read", "close_out"}
  BY <1>1 DEF InFds, OutFds
<1>6. PcFollowsCommand'
  BY <1>1, <1>2, <1>4 DEF PcFollowsCommand
<1>7. InFds # {} => cmd.op = "cat" /\ pc' = "read"
  BY <1>1, <1>2, HeldFiles
<1>8. CASE out = -1
  <2>1. fcb' = fcb /\ fs' = fs /\ live' = live /\ fault' = fault
    BY <1>1, <1>8, VarsSame DEF OnFd
  <2>2. ShellTypes'
    BY <1>1, <1>2, <2>1 DEF ShellTypes, Pcs
  <2>3. FdsCounted'
    BY <1>1, <1>2, <1>5, <2>1, CountedSame
  <2>4. OutFds' = {}
    BY <1>1, <1>8 DEF OutFds
  <2>5. InOK'
    <3>1. In' = In
      BY <1>1, <2>1 DEF In
    <3>2. ~Asked'
      BY <1>5, <2>4 DEF Asked
    <3>3. QED
      BY <1>2, <1>5, <1>7, <3>1, <3>2 DEF InOK
  <2>6. OutOK'
    BY <2>4 DEF OutOK
  <2>7. QED
    BY <1>6, <2>1, <2>2, <2>3, <2>5, <2>6, NoShellFault DEF Working
<1>9. CASE out # -1 /\ l = -1
  <2>1. fault' = "negative" /\ cmd'.op = "echo" /\ l' = -1
    BY <1>1, <1>4, <1>9 DEF OnFd
  <2>2. QED
    BY <2>1 DEF ShellFaults, FcbSuffices, NegativeOnlyFromEcho
<1>10. CASE out # -1 /\ l # -1
  <2>1. OutFds = {out} /\ OutFds # {}
    BY <1>1, <1>10 DEF OutFds
  <2>2. out \in Desc(me) /\ Out.file_size \in Nat /\ l \in Nat /\ Out.entry \in Entry
    <3>1. l \in Nat
      BY <1>2, <1>10 DEF ShellTypes
    <3>2. QED
      BY <1>2, <2>1, <3>1, HeldFiles
  <2>3. PICK p \in Procs, d \in Fd, k \in Stream : d \in Desc(p) /\ p = me /\ d = out /\ k = fcb[p][d]
    BY <1>2, <1>3, <2>1, <2>2, HeldFiles DEF Desc
  <2>4. PICK len \in Nat : len = l /\ Write(p, d, len)
    BY <1>1, <1>10, <2>2, <2>3 DEF OnFd
  <2>5. Out = fs[k]
    BY <2>3 DEF Out
  <2>6. /\ Out.entry = Named(cmd.to) /\ Out.offset = Out.file_size /\ goal = Out.file_size + ToCome
        /\ cmd.op = "cat" => InFds # {} /\ l > 0 /\ l <= In.offset
    BY <1>1, <1>2, <2>1 DEF OutOK
  <2>7. fs[k].offset = fs[k].file_size
    BY <2>5, <2>6
  <2>8. /\ fault' \notin {"fcb", "negative"} /\ UNCHANGED <<fcb, live>>
        /\ fault' = "none" =>
              /\ fs'[k].file_size = fs[k].file_size + len /\ fs'[k].offset = fs[k].file_size + len
              /\ \A j \in Stream : /\ fs'[j].used = fs[j].used /\ fs'[j].entry = fs[j].entry
                                   /\ j # k => fs'[j] = fs[j]
              /\ \A nm \in Names :
                   /\ Named(nm)' = Named(nm)
                   /\ SizeOf(nm)' = IF Named(nm) = fs[k].entry THEN fs[k].file_size + len ELSE SizeOf(nm)
    BY <2>3, <2>4, <2>7, WriteEffect
  <2>. SUFFICES ASSUME fault' = "none" PROVE Working'
    BY <2>8, NoShellFault
  <2>9. /\ fs'[k].file_size = fs[k].file_size + len /\ fs'[k].offset = fs[k].file_size + len
        /\ \A j \in Stream : /\ fs'[j].used = fs[j].used /\ fs'[j].entry = fs[j].entry
                             /\ j # k => fs'[j] = fs[j]
        /\ \A nm \in Names :
             /\ Named(nm)' = Named(nm)
             /\ SizeOf(nm)' = IF Named(nm) = fs[k].entry THEN fs[k].file_size + len ELSE SizeOf(nm)
    BY <2>8
  <2>10. ShellTypes'
    BY <1>1, <1>2, <2>8 DEF ShellTypes, Pcs
  <2>11. FdsCounted'
    BY <1>1, <1>2, <1>5, <2>8, <2>9, CountedSame
  <2>12. Out' = fs'[k]
    BY <1>1, <2>3, <2>8 DEF Out
  <2>13. /\ Out'.entry = Out.entry /\ Out'.file_size = Out.file_size + l
         /\ Out'.offset = Out'.file_size
    BY <2>4, <2>5, <2>9, <2>12
  <2>14. Named(cmd.to)' = Named(cmd.to) /\ SizeOf(cmd.to)' = Out'.file_size
    <3>1. PICK nm \in Names : nm = cmd.to
      BY <1>4
    <3>2. Named(nm)' = Named(nm) /\ SizeOf(nm)' = Out.file_size + l
      BY <2>4, <2>5, <2>6, <2>9, <3>1
    <3>3. Named(cmd.to)' = Named(nm)' /\ SizeOf(cmd.to)' = SizeOf(nm)'
      BY <1>1, <3>1, NextNames
    <3>4. QED
      BY <2>13, <3>1, <3>2, <3>3
  <2>15. InFds # {} => In' = In /\ In.offset \in Nat /\ In.file_size \in Nat /\ In.offset <= In.file_size
    <3>. SUFFICES ASSUME InFds # {}
                  PROVE  In' = In /\ In.offset \in Nat /\ In.file_size \in Nat /\ In.offset <= In.file_size
      OBVIOUS
    <3>1. fcb[me][fd] # k
      BY <1>2, <2>1, <2>3, HeldFiles
    <3>2. In' = In
      BY <1>1, <1>2, <2>8, <2>9, <3>1, InSame
    <3>3. QED
      BY <1>2, <3>2, HeldFiles DEF InOK
  <2>16. InOK'
    <3>. SUFFICES ASSUME InFds # {} PROVE InOK'
      BY <1>5 DEF InOK
    <3>1. Named(cmd.file)' = Named(cmd.file)
      <4>1. PICK nm \in Names : nm = cmd.file
        BY <1>4, <1>7
      <4>2. Named(nm)' = Named(nm)
        BY <2>9
      <4>3. Named(cmd.file)' = Named(nm)'
        BY <1>1, <4>1, NextNames
      <4>4. QED
        BY <4>1, <4>2, <4>3
    <3>2. In.entry = Named(cmd.file)
      BY <1>2, <2>1 DEF InOK, Asked
    <3>3. In.file_size > 0
      BY <1>7, <2>2, <2>6, <2>15
    <3>4. pc' = "read"
      BY <1>7
    <3>5. QED
      BY <2>15, <3>1, <3>2, <3>3, <3>4 DEF InOK
  <2>17. CASE cmd.op = "echo"
    <3>1. pc' = "close_out" /\ cmd'.op = "echo" /\ goal' = goal
      BY <1>1, <2>17
    <3>2. goal = Out.file_size + l
      BY <2>6, <2>17 DEF ToCome
    <3>3. RedirectSize'
      BY <2>13, <2>14, <3>1, <3>2 DEF RedirectSize
    <3>4. OutOK'
      BY <2>6, <2>13, <2>14, <3>1, <3>3 DEF OutOK
    <3>5. QED
      BY <1>6, <2>10, <2>11, <2>16, <3>4 DEF Working
  <2>18. CASE cmd.op = "cat"
    <3>1. pc' = "read" /\ cmd' = cmd /\ goal' = goal /\ fd' = fd
      BY <1>1, <2>18
    <3>2. InFds # {} /\ fd # -1
      BY <1>2, <2>6, <2>18, HeldFiles
    <3>3. ToCome = In.file_size - In.offset + l
      BY <1>1, <2>18, <3>2 DEF ToCome
    <3>4. ToCome' = In.file_size - In.offset + 0
      BY <2>15, <2>18, <3>1, <3>2 DEF ToCome
    <3>5. goal' = Out'.file_size + ToCome'
      BY <2>2, <2>6, <2>13, <2>15, <3>1, <3>2, <3>3, <3>4
    <3>6. OutOK'
      BY <2>6, <2>13, <2>14, <3>1, <3>5 DEF OutOK
    <3>7. QED
      BY <1>6, <2>10, <2>11, <2>16, <3>6 DEF Working
  <2>19. QED
    BY <1>4, <2>17, <2>18
<1>11. QED
  BY <1>8, <1>9, <1>10

(* Back at the prompt, with the descriptors of programs only.              *)
LEMMA PromptStep ==
  ASSUME NEW p \in Procs, Prompt(p), p \in live', leaks' \in Nat,
         Cardinality(Desc(p)') = leaks', Apart(p)'
  PROVE  Working'
<1>1. /\ pc' = "prompt" /\ me' = p /\ kid' = p /\ cmd' = NoCmd
      /\ fd' = -1 /\ out' = -1 /\ l' = 0 /\ goal' = 0
  BY DEF Prompt
<1>2. cmd' \in Commands /\ cmd'.op = "none" /\ cmd'.mode = "none"
  BY <1>1 DEF NoCmd, Commands
<1>3. ShellTypes'
  BY <1>1, <1>2 DEF ShellTypes, Pcs
<1>4. PcFollowsCommand'
  BY <1>1, <1>2 DEF PcFollowsCommand
<1>5. InFds' = {} /\ OutFds' = {}
  BY <1>1 DEF InFds, OutFds
<1>6. Desc(me)' = Desc(p)' /\ Apart(me)'
  BY <1>1, NextDescs
<1>7. FdsCounted'
  <2>1. Desc(me)' \ (InFds \cup OutFds)' = Desc(p)'
    BY <1>5, <1>6
  <2>2. QED
    BY <1>1, <1>5, <1>6, <2>1 DEF FdsCounted
<1>8. QED
  BY <1>3, <1>4, <1>5, <1>7, NoFiles DEF Working

LEMMA CloseOutStep ==
  ASSUME FileIInv, fault = "none", Working, CloseOut
  PROVE  ShellFaults' /\ (fault' = "none" => Working')
<1>1. /\ pc = "close_out" /\ OnFd(out, Close(me, out)) /\ leaks' = leaks
      /\ cmd.op = "echo" => Prompt(me)
      /\ cmd.op # "echo" => pc' = "close_in" /\ UNCHANGED <<me, kid, cmd, fd, out, l, goal>>
  BY DEF CloseOut
<1>2. ShellTypes /\ PcFollowsCommand /\ FdsCounted /\ InOK
  BY DEF Working
<1>3. me \in Procs /\ Apart(me) /\ leaks \in Nat
  BY <1>2, HeldFiles DEF ShellTypes
<1>4. cmd.op \in {"echo", "cat"} /\ (cmd.op = "echo" => fd = -1)
  BY <1>1, <1>2 DEF PcFollowsCommand
<1>5. PICK p \in Procs : p = me /\ p \in live
  BY <1>2, <1>3 DEF ShellTypes
<1>6. /\ live' = live /\ fault' = fault /\ Apart(p)' /\ Desc(p)' = Desc(p) \ OutFds
      /\ \A c \in Desc(p) \ OutFds : fcb'[p][c] = fcb[p][c] /\ fs'[fcb[p][c]] = fs[fcb[p][c]]
  <2>1. CASE out = -1
    <3>1. UNCHANGED vars /\ OutFds = {}
      BY <1>1, <2>1 DEF OnFd, OutFds
    <3>2. fcb' = fcb /\ fs' = fs /\ live' = live /\ fault' = fault
      BY <3>1, VarsSame
    <3>3. Apart(p)' /\ Desc(p)' = Desc(p)
      BY <1>3, <1>5, <3>2, SameApart
    <3>4. QED
      BY <3>1, <3>2, <3>3
  <2>2. CASE out # -1
    <3>1. OutFds = {out}
      BY <1>1, <2>2 DEF OutFds
    <3>2. PICK d \in Desc(p) : d = out /\ Close(p, d)
      BY <1>1, <1>2, <1>5, <2>2, <3>1, HeldFiles DEF OnFd
    <3>3. /\ UNCHANGED <<dir, live, fault>> /\ Desc(p)' = Desc(p) \ {d} /\ Apart(p)'
          /\ \A c \in Desc(p) : c # d => fcb'[p][c] = fcb[p][c] /\ fs'[fcb[p][c]] = fs[fcb[p][c]]
      BY <1>3, <1>5, <3>2, CloseEffect
    <3>4. QED
      BY <3>1, <3>2, <3>3
  <2>3. QED
    BY <2>1, <2>2
<1>7. Cardinality(Desc(p)' \ InFds) = leaks
  <2>1. Desc(p)' \ InFds = Desc(me) \ (InFds \cup OutFds)
    BY <1>5, <1>6
  <2>2. QED
    BY <1>2, <2>1 DEF FdsCounted
<1>8. CASE cmd.op = "echo"
  <2>1. InFds = {} /\ Prompt(p)
    BY <1>1, <1>5, <1>8 DEF InFds
  <2>2. Cardinality(Desc(p)') = leaks'
    <3>1. Desc(p)' \ InFds = Desc(p)'
      BY <2>1
    <3>2. QED
      BY <1>1, <1>7, <3>1
  <2>3. Working'
    BY <1>1, <1>3, <1>5, <1>6, <2>1, <2>2, PromptStep
  <2>4. QED
    BY <1>6, <2>3, NoShellFault
<1>9. CASE cmd.op = "cat"
  <2>1. pc' = "close_in" /\ UNCHANGED <<me, kid, cmd, fd, out, l, goal>>
    BY <1>1, <1>9
  <2>2. ShellTypes'
    BY <1>1, <1>2, <1>6, <2>1 DEF ShellTypes, Pcs
  <2>3. PcFollowsCommand'
    BY <1>1, <1>2, <1>9, <2>1 DEF PcFollowsCommand
  <2>4. InFds' = InFds /\ OutFds' = {}
    BY <2>1 DEF InFds, OutFds
  <2>5. Desc(me)' = Desc(p)' /\ Apart(me)'
    BY <1>5, <1>6, <2>1, NextDescs
  <2>6. InFds \subseteq Desc(p) \ OutFds
    BY <1>2, <1>5 DEF FdsCounted
  <2>7. FdsCounted'
    <3>1. Desc(me)' \ (InFds \cup OutFds)' = Desc(p)' \ InFds
      BY <2>4, <2>5
    <3>2. (InFds \cup OutFds)' \subseteq Desc(me)'
      BY <1>6, <2>4, <2>5, <2>6
    <3>3. QED
      BY <1>1, <1>7, <2>1, <2>4, <2>5, <3>1, <3>2 DEF FdsCounted
  <2>8. InOK'
    <3>. SUFFICES ASSUME InFds # {} PROVE InOK'
      BY <2>4 DEF InOK
    <3>1. fd \in Desc(p) \ OutFds
      BY <1>2, <2>6, HeldFiles
    <3>2. In' = In
      BY <1>5, <1>6, <2>1, <3>1 DEF In
    <3>3. ~Asked'
      BY <2>1, <2>4 DEF Asked
    <3>4. QED
      BY <1>2, <2>1, <3>2, <3>3 DEF InOK
  <2>9. OutOK'
    BY <2>4 DEF OutOK
  <2>10. QED
    BY <1>6, <2>2, <2>3, <2>7, <2>8, <2>9, NoShellFault DEF Working
<1>10. QED
  BY <1>4, <1>8, <1>9

LEMMA CloseInStep ==
  ASSUME FileIInv, fault = "none", Working, CloseIn
  PROVE  ShellFaults' /\ (fault' = "none" => Working')
<1>1. pc = "close_in" /\ OnFd(fd, Close(me, fd)) /\ Prompt(me) /\ leaks' = leaks
  BY DEF CloseIn
<1>2. ShellTypes /\ PcFollowsCommand /\ FdsCounted
  BY DEF Working
<1>3. me \in Procs /\ Apart(me) /\ leaks \in Nat /\ cmd.op = "cat" /\ OutFds = {}
  BY <1>1, <1>2, HeldFiles DEF ShellTypes, PcFollowsCommand, OutFds
<1>4. PICK p \in Procs : p = me /\ p \in live
  BY <1>2, <1>3 DEF ShellTypes
<1>5. live' = live /\ fault' = fault /\ Apart(p)' /\ Desc(p)' = Desc(p) \ InFds
  <2>1. CASE fd = -1
    <3>1. UNCHANGED vars /\ InFds = {}
      BY <1>1, <2>1 DEF OnFd, InFds
    <3>2. fcb' = fcb /\ fs' = fs /\ live' = live /\ fault' = fault
      BY <3>1, VarsSame
    <3>3. Apart(p)' /\ Desc(p)' = Desc(p)
      BY <1>3, <1>4, <3>2, SameApart
    <3>4. QED
      BY <3>1, <3>2, <3>3
  <2>2. CASE fd # -1
    <3>1. InFds = {fd}
      BY <1>3, <2>2 DEF InFds
    <3>2. PICK d \in Desc(p) : d = fd /\ Close(p, d)
      BY <1>1, <1>2, <1>4, <2>2, <3>1, HeldFiles DEF OnFd
    <3>3. UNCHANGED <<dir, live, fault>> /\ Desc(p)' = Desc(p) \ {d} /\ Apart(p)'
      BY <1>3, <1>4, <3>2, CloseEffect
    <3>4. QED
      BY <3>1, <3>2, <3>3
  <2>3. QED
    BY <2>1, <2>2
<1>6. Cardinality(Desc(p)') = leaks'
  <2>1. Desc(p)' = Desc(me) \ (InFds \cup OutFds)
    BY <1>3, <1>4, <1>5
  <2>2. QED
    BY <1>1, <1>2, <2>1 DEF FdsCounted
<1>7. Prompt(p)
  BY <1>1, <1>4
<1>8. Working'
  BY <1>1, <1>3, <1>4, <1>5, <1>6, <1>7, PromptStep
<1>9. QED
  BY <1>5, <1>8, NoShellFault

(* The descriptors of a shell that runs a program are all those of         *)
(* programs.                                                               *)
LEMMA RunCounted ==
  ASSUME FileIInv, Working, cmd.op \in {"none", "run"}
  PROVE  /\ InFds = {} /\ OutFds = {} /\ out = -1
         /\ Cardinality(Desc(me)) = leaks /\ Apart(me) /\ IsFiniteSet(Desc(me))
<1>1. PcFollowsCommand /\ FdsCounted
  BY DEF Working
<1>2. out = -1
  BY <1>1 DEF PcFollowsCommand
<1>3. InFds = {} /\ OutFds = {}
  BY <1>2 DEF InFds, OutFds
<1>4. Desc(me) \ (InFds \cup OutFds) = Desc(me)
  BY <1>3
<1>5. IsFiniteSet(Desc(me))
  <2>1. Desc(me) \subseteq Fd
    BY DEF Desc
  <2>2. QED
    BY <2>1, ShellNumbers, FS_Subset
<1>6. QED
  BY <1>1, <1>2, <1>3, <1>4, <1>5 DEF FdsCounted

LEMMA RunProgramStep ==
  ASSUME FileIInv, fault = "none", Working, NEW name \in Names, RunProgram(name)
  PROVE  ShellFaults' /\ (fault' = "none" => Working')
<1>1. /\ pc = "prompt" /\ Open(me, name, FS_RW)
      /\ OpenResult(name, FS_RW) = -1 => Prompt(me) /\ leaks' = leaks
      /\ OpenResult(name, FS_RW) # -1 =>
           /\ fd' = OpenResult(name, FS_RW) /\ pc' = "fork" /\ leaks' = leaks + 1
           /\ cmd' = [NoCmd EXCEPT !.op = "run", !.file = name]
           /\ UNCHANGED <<me, kid, out, l, goal>>
  BY DEF RunProgram
<1>2. ShellTypes /\ PcFollowsCommand /\ FdsCounted
  BY DEF Working
<1>3. me \in Procs /\ leaks \in Nat /\ cmd.op = "none"
  BY <1>1, <1>2, HeldFiles DEF ShellTypes, PcFollowsCommand
<1>4. out = -1 /\ Cardinality(Desc(me)) = leaks /\ Apart(me) /\ IsFiniteSet(Desc(me))
  BY <1>3, RunCounted
<1>5. PICK p \in Procs : p = me /\ p \in live
  BY <1>2, <1>3 DEF ShellTypes
<1>6. OpenResult(name, FS_RW) = IF Opens(name, FS_RW) THEN FreeFd(p) ELSE -1
  BY <1>5, ResultOfOpen
<1>7. Apart(p) /\ Open(p, name, FS_RW)
  BY <1>1, <1>4, <1>5
<1>8. /\ fault' \notin {"fcb", "negative"} /\ live' = live
      /\ Opens(name, FS_RW) => \E k, c, e, n, size : OpenedAs(p, name, FS_RW, k, c, e, n, size)
      /\ ~Opens(name, FS_RW) => fs' = fs /\ fcb' = fcb
  BY <1>7, OpenEffect
<1>9. CASE ~Opens(name, FS_RW)
  <2>1. Prompt(p) /\ leaks' = leaks /\ fs' = fs /\ fcb' = fcb
    BY <1>1, <1>5, <1>6, <1>8, <1>9
  <2>2. Apart(p)' /\ Desc(p)' = Desc(p)
    BY <1>7, <2>1, SameApart
  <2>3. Cardinality(Desc(p)') = leaks'
    BY <1>4, <1>5, <2>1, <2>2
  <2>4. Working'
    BY <1>3, <1>5, <1>8, <2>1, <2>2, <2>3, PromptStep
  <2>5. QED
    BY <1>8, <2>4, NoShellFault
<1>10. CASE Opens(name, FS_RW)
  <2>1. PICK k, c, e, n, size : OpenedAs(p, name, FS_RW, k, c, e, n, size)
    BY <1>8, <1>10
  <2>2. c \in Fd /\ c = FreeFd(p) /\ c # -1
    BY <2>1, RangesAreNat DEF OpenedAs
  <2>3. /\ fd' = c /\ pc' = "fork" /\ leaks' = leaks + 1
        /\ cmd' = [NoCmd EXCEPT !.op = "run", !.file = name] /\ UNCHANGED <<me, kid, out, l, goal>>
    BY <1>1, <1>6, <1>10, <2>2
  <2>4. c \notin Desc(p) /\ Desc(p)' = Desc(p) \cup {c}
    BY <2>1, OpenedDesc
  <2>5. Apart(p)'
    BY <1>7, <2>1, OpenedApart
  <2>6. Desc(me)' = Desc(me) \cup {c} /\ Apart(me)' /\ c \notin Desc(me)
    BY <1>5, <2>3, <2>4, <2>5, NextDescs
  <2>7. Cardinality(Desc(me) \cup {c}) = leaks + 1
    BY <1>4, <2>6, FS_AddElement
  <2>8. cmd'.op = "run" /\ cmd'.file = name /\ cmd'.mode = "none" /\ cmd' \in Commands
    BY <2>3 DEF NoCmd, Commands
  <2>9. ShellTypes'
    BY <1>2, <1>3, <1>8, <2>2, <2>3, <2>8 DEF ShellTypes, Pcs
  <2>10. PcFollowsCommand'
    BY <1>4, <2>3, <2>8 DEF PcFollowsCommand
  <2>11. InFds' = {} /\ OutFds' = {}
    BY <1>4, <2>3, <2>8 DEF InFds, OutFds
  <2>12. FdsCounted'
    <3>1. Desc(me)' \ (InFds \cup OutFds)' = Desc(me) \cup {c}
      BY <2>6, <2>11
    <3>2. QED
      BY <2>3, <2>6, <2>7, <2>11, <3>1 DEF FdsCounted
  <2>13. QED
    BY <1>8, <2>9, <2>10, <2>11, <2>12, NoFiles, NoShellFault DEF Working
<1>11. QED
  BY <1>9, <1>10

LEMMA ForkProgramStep ==
  ASSUME FileIInv, fault = "none", Working, NEW q \in Procs, ForkProgram(q)
  PROVE  ShellFaults' /\ Working'
<1>1. /\ pc = "fork" /\ Fork(me, q) /\ kid' = q /\ pc' = "exec"
      /\ UNCHANGED <<me, cmd, fd, out, l, leaks, goal>>
  BY DEF ForkProgram
<1>2. ShellTypes /\ PcFollowsCommand /\ FdsCounted
  BY DEF Working
<1>3. me \in Procs /\ me \in live /\ cmd.op = "run"
  BY <1>1, <1>2, HeldFiles DEF ShellTypes, PcFollowsCommand
<1>4. out = -1 /\ Cardinality(Desc(me)) = leaks /\ Apart(me)
  BY <1>3, RunCounted
<1>5. PICK p \in Procs : p = me /\ p \in live
  BY <1>3
<1>6. /\ q \notin live /\ live' = live \cup {q} /\ fcb' = [fcb EXCEPT ![q] = fcb[p]]
      /\ fs' = fs /\ fault' = fault
  BY <1>1, <1>5 DEF Fork
<1>7. fcb'[q] = fcb[p] /\ fcb'[p] = fcb[p] /\ q # p
  BY <1>5, <1>6, FileTypes
<1>8. Desc(p)' = Desc(p) /\ Apart(p)' /\ Apart(q)'
  BY <1>4, <1>5, <1>6, <1>7 DEF Desc, Apart
<1>9. Desc(me)' = Desc(me) /\ Apart(me)' /\ Apart(kid)' /\ (fcb[kid] = fcb[me])'
  <2>1. Desc(me)' = Desc(me) /\ Apart(me)'
    BY <1>1, <1>5, <1>8, NextDescs
  <2>2. Apart(kid)'
    BY <1>1, <1>8 DEF Apart, Desc
  <2>3. QED
    BY <1>1, <1>5, <1>7, <2>1, <2>2
<1>10. ShellTypes'
  BY <1>1, <1>2, <1>6 DEF ShellTypes, Pcs
<1>11. PcFollowsCommand'
  BY <1>1, <1>2, <1>3, <1>5, <1>6, <1>7 DEF PcFollowsCommand
<1>12. InFds' = {} /\ OutFds' = {}
  BY <1>1, <1>3, <1>4 DEF InFds, OutFds
<1>13. FdsCounted'
  <2>1. Desc(me)' \ (InFds \cup OutFds)' = Desc(me)
    BY <1>9, <1>12
  <2>2. QED
    BY <1>1, <1>4, <1>9, <1>12, <2>1 DEF FdsCounted
<1>14. fault' \notin {"fcb", "negative"}
  BY <1>6
<1>15. QED
  BY <1>10, <1>11, <1>12, <1>13, <1>14, NoFiles, NoShellFault DEF Working

LEMMA ExecProgramStep ==
  ASSUME FileIInv, fault = "none", Working, NEW ok \in BOOLEAN, ExecProgram(ok)
  PROVE  ShellFaults' /\ (fault' = "none" => Working')
<1>1. /\ pc = "exec" /\ leaks' = leaks
      /\ CanOpen(cmd.file) => Exec(kid, cmd.file)
      /\ ~CanOpen(cmd.file) => fault' = "fs"
      /\ ok => pc' = "program" /\ UNCHANGED <<me, kid, cmd, fd, out, l, goal>>
      /\ ~ok => Prompt(kid)
  BY DEF ExecProgram
<1>2. ShellTypes /\ PcFollowsCommand /\ FdsCounted
  BY DEF Working
<1>3. /\ me \in Procs /\ me \in live /\ kid \in Procs /\ kid \in live /\ kid # me
      /\ cmd.op = "run" /\ leaks \in Nat
  BY <1>1, <1>2, ShellProcs DEF ShellTypes, PcFollowsCommand
<1>4. out = -1 /\ Cardinality(Desc(me)) = leaks /\ Apart(me)
  BY <1>3, RunCounted
<1>5. Apart(kid) /\ fcb[kid] = fcb[me]
  BY <1>1, <1>2 DEF FdsCounted
<1>6. CASE ~CanOpen(cmd.file)
  <2>1. fault' = "fs"
    BY <1>1, <1>6
  <2>2. QED
    BY <2>1, NoShellFault
<1>7. CASE CanOpen(cmd.file)
  <2>1. PICK k, f : /\ k = FreeStream /\ k # -1 /\ f.used /\ fs' = [fs EXCEPT ![k] = f]
                    /\ fcb' = fcb /\ live' = live /\ fault' = fault
    <3>. DEFINE n == Named(cmd.file)
                f == Opened(n, dir[n].inode, dir[n].size)
    <3>1. /\ FreeStream # -1 /\ fs' = [fs EXCEPT ![FreeStream] = f]
          /\ fcb' = fcb /\ live' = live /\ fault' = fault
      BY <1>1, <1>7 DEF Exec, CanOpen
    <3>2. f.used
      BY DEF Opened
    <3>3. QED
      BY <3>1, <3>2
  <2>2. k \in Stream /\ fs \in [Stream -> StreamType]
    BY <2>1, FileTypes, Searches
  <2>3. \A j \in Stream : fs[j].used => fs'[j].used
    BY <2>1, <2>2
  <2>4. PICK p \in Procs, q \in Procs : p = me /\ q = kid
    BY <1>3
  <2>5. Apart(p)' /\ Desc(p)' = Desc(p)
    BY <1>4, <2>1, <2>3, <2>4, SameApart
  <2>6. Apart(q)' /\ Desc(q)' = Desc(q)
    BY <1>5, <2>1, <2>3, <2>4, SameApart
  <2>7. Desc(q) = Desc(p)
    BY <1>5, <2>4 DEF Desc
  <2>8. fault' \notin {"fcb", "negative"}
    BY <2>1
  <2>9. CASE ~ok
    <3>1. Prompt(q) /\ q \in live' /\ Cardinality(Desc(q)') = leaks'
      BY <1>1, <1>3, <1>4, <2>1, <2>4, <2>6, <2>7, <2>9
    <3>2. Working'
      BY <1>1, <1>3, <2>6, <3>1, PromptStep
    <3>3. QED
      BY <2>8, <3>2, NoShellFault
  <2>10. CASE ok
    <3>1. pc' = "program" /\ UNCHANGED <<me, kid, cmd, fd, out, l, goal>>
      BY <1>1, <2>10
    <3>2. ShellTypes'
      BY <1>1, <1>2, <2>1, <3>1 DEF ShellTypes, Pcs
    <3>3. PcFollowsCommand'
      BY <1>1, <1>2, <1>3, <2>1, <3>1 DEF PcFollowsCommand
    <3>4. InFds' = {} /\ OutFds' = {}
      BY <1>3, <1>4, <3>1 DEF InFds, OutFds
    <3>5. Desc(me)' = Desc(me) /\ Apart(me)'
      BY <2>4, <2>5, <3>1, NextDescs
    <3>6. Apart(kid)'
      BY <2>4, <2>6, <3>1 DEF Apart, Desc
    <3>7. FdsCounted'
      <4>1. Desc(me)' \ (InFds \cup OutFds)' = Desc(me)
        BY <3>4, <3>5
      <4>2. QED
        BY <1>1, <1>4, <3>1, <3>4, <3>5, <3>6, <4>1 DEF FdsCounted
    <3>8. QED
      BY <2>8, <3>2, <3>3, <3>4, <3>7, NoFiles, NoShellFault DEF Working
  <2>11. QED
    BY <2>9, <2>10
<1>8. QED
  BY <1>6, <1>7

LEMMA ProgramOpensStep ==
  ASSUME FileIInv, fault = "none", Working, NEW name \in Names, ProgramOpens(name)
  PROVE  ShellFaults' /\ (fault' = "none" => Working')
<1>1. /\ pc = "program" /\ Open(kid, name, FS_RWC)
      /\ UNCHANGED <<pc, me, kid, cmd, fd, out, l, leaks, goal>>
  BY DEF ProgramOpens, shellVars
<1>2. ShellTypes /\ PcFollowsCommand /\ FdsCounted
  BY DEF Working
<1>3. me \in Procs /\ me \in live /\ kid \in Procs /\ kid \in live /\ kid # me /\ cmd.op = "run"
  BY <1>1, <1>2, ShellProcs DEF ShellTypes, PcFollowsCommand
<1>4. out = -1 /\ Cardinality(Desc(me)) = leaks /\ Apart(me)
  BY <1>3, RunCounted
<1>5. PICK p \in Procs, q \in Procs : p = me /\ q = kid /\ q # p
  BY <1>3
<1>6. Apart(p) /\ Apart(q) /\ Open(q, name, FS_RWC)
  BY <1>1, <1>2, <1>4, <1>5 DEF FdsCounted
<1>7. /\ fault' \notin {"fcb", "negative"} /\ live' = live
      /\ Opens(name, FS_RWC) => \E k, c, e, n, size : OpenedAs(q, name, FS_RWC, k, c, e, n, size)
      /\ ~Opens(name, FS_RWC) => fs' = fs /\ fcb' = fcb
  BY <1>6, OpenEffect
<1>8. Apart(p)' /\ Desc(p)' = Desc(p) /\ Apart(q)'
  <2>1. CASE ~Opens(name, FS_RWC)
    <3>1. fs' = fs /\ fcb' = fcb
      BY <1>7, <2>1
    <3>2. Apart(p)' /\ Desc(p)' = Desc(p)
      BY <1>6, <3>1, SameApart
    <3>3. Apart(q)'
      BY <1>6, <3>1, SameApart
    <3>4. QED
      BY <3>2, <3>3
  <2>2. CASE Opens(name, FS_RWC)
    <3>1. PICK k, c, e, n, size : OpenedAs(q, name, FS_RWC, k, c, e, n, size)
      BY <1>7, <2>2
    <3>2. fcb'[p] = fcb[p]
      BY <1>5, <3>1, OpenedDesc
    <3>3. Desc(p)' = Desc(p)
      BY <3>2 DEF Desc
    <3>4. Apart(p)'
      BY <1>6, <3>1, OpenedApart
    <3>5. Apart(q)'
      BY <1>6, <3>1, OpenedApart
    <3>6. QED
      BY <3>3, <3>4, <3>5
  <2>3. QED
    BY <2>1, <2>2
<1>9. Desc(me)' = Desc(me) /\ Apart(me)' /\ Apart(kid)'
  <2>1. Desc(me)' = Desc(me) /\ Apart(me)'
    BY <1>1, <1>5, <1>8, NextDescs
  <2>2. Apart(kid)'
    BY <1>1, <1>5, <1>8 DEF Apart, Desc
  <2>3. QED
    BY <2>1, <2>2
<1>10. ShellTypes'
  BY <1>1, <1>2, <1>7 DEF ShellTypes
<1>11. PcFollowsCommand'
  BY <1>1, <1>2, <1>3, <1>7 DEF PcFollowsCommand
<1>12. InFds' = {} /\ OutFds' = {}
  BY <1>1, <1>3, <1>4 DEF InFds, OutFds
<1>13. FdsCounted'
  <2>1. Desc(me)' \ (InFds \cup OutFds)' = Desc(me)
    BY <1>9, <1>12
  <2>2. QED
    BY <1>1, <1>4, <1>9, <1>12, <2>1 DEF FdsCounted
<1>14. QED
  BY <1>7, <1>10, <1>11, <1>12, <1>13, NoFiles, NoShellFault DEF Working

LEMMA ProgramExitsStep ==
  ASSUME FileIInv, fault = "none", Working, ProgramExits
  PROVE  ShellFaults' /\ Working'
<1>1. pc = "program" /\ Exit(kid) /\ Prompt(me) /\ leaks' = leaks
  BY DEF ProgramExits
<1>2. ShellTypes /\ PcFollowsCommand
  BY DEF Working
<1>3. me \in Procs /\ me \in live /\ kid # me /\ cmd.op = "run" /\ leaks \in Nat
  BY <1>1, <1>2, ShellProcs DEF ShellTypes, PcFollowsCommand
<1>4. Cardinality(Desc(me)) = leaks /\ Apart(me)
  BY <1>3, RunCounted
<1>5. fs' = fs /\ fcb' = fcb /\ fault' = fault /\ live' = live \ {kid}
  BY <1>1 DEF Exit
<1>6. PICK p \in Procs : p = me /\ p \in live'
  BY <1>3, <1>5
<1>7. Apart(p)' /\ Desc(p)' = Desc(p)
  BY <1>4, <1>5, <1>6, SameApart
<1>8. Prompt(p) /\ Cardinality(Desc(p)') = leaks'
  BY <1>1, <1>4, <1>6, <1>7
<1>9. Working'
  BY <1>1, <1>3, <1>6, <1>7, <1>8, PromptStep
<1>10. QED
  BY <1>5, <1>9, NoShellFault

-----------------------------------------------------------------------------
(* The file system under the shell: every step of the shell is at most one *)
(* system call of the file system, with lengths of its own.                *)
FaultOnly == fault' \in {"negative", "fs"} /\ UNCHANGED <<diskVars, fs, fcb, live>>
FileCall ==
  \/ \E p \in Procs, name \in Names : \/ \E flags \in {FS_RW, FS_RWC, FS_RWD} : Open(p, name, flags)
                                      \/ Exec(p, name)
  \/ \E p \in Procs, d \in Fd : \/ \E len \in Nat : Read(p, d, len) \/ Write(p, d, len)
                                \/ \E offset \in Nat, whence \in 0 .. 2 : Lseek(p, d, offset, whence)
                                \/ Close(p, d)
  \/ \E p, q \in Procs : Fork(p, q)
  \/ \E p \in Procs : Exit(p)
  \/ FaultOnly
  \/ UNCHANGED vars

LEMMA FaultOnlyKeeps == FileIInv /\ FaultOnly => FileIInv'
<1>. SUFFICES ASSUME FileIInv, FaultOnly PROVE FileIInv'
  OBVIOUS
<1>1. UNCHANGED <<dir, inodes, imap, dmap, fs, fcb, live>> /\ fault' \in {"negative", "fs"}
  BY DEF FaultOnly, diskVars
<1>2. FileTypeOK'
  BY <1>1, FileParts DEF FileTypeOK
<1>3. StreamsStayMatched'
  BY <1>1, FileParts DEF StreamsStayMatched, InUse
<1>4. QED
  BY <1>1, <1>2, <1>3, SameEntries, FilePartsNext

LEMMA FileCallKeeps == FileIInv /\ FileCall => FileIInv'
BY OpenKeeps, ExecKeeps, ReadKeeps, WriteKeeps, LseekKeeps, CloseKeeps, ProcessKeeps, StutterKeeps,
   FaultOnlyKeeps DEF FileCall

LEMMA BuiltinCalls ==
  ASSUME FileIInv, fault = "none", Working, Builtin
  PROVE  FileCall
<1>1. ShellTypes /\ PcFollowsCommand
  BY DEF Working
<1>2. me \in Procs /\ CHUNK \in Nat
  BY <1>1, ShellProcs, ShellNumbers
<1>3. CASE OpenIn
  <2>1. cmd.file \in Names /\ Open(me, cmd.file, FS_RW)
    BY <1>1, <1>3 DEF OpenIn, PcFollowsCommand
  <2>2. QED
    BY <1>2, <2>1 DEF FileCall
<1>4. CASE OpenOut
  <2>1. PICK flags \in {FS_RWC, FS_RWD} : Open(me, cmd.to, flags) /\ pc = "open_out"
    BY <1>4 DEF OpenOut
  <2>2. cmd.to \in Names
    BY <1>1, <2>1 DEF PcFollowsCommand
  <2>3. QED
    BY <1>2, <2>1, <2>2 DEF FileCall
<1>5. CASE SeekEnd
  <2>1. \/ UNCHANGED vars
        \/ out \in Fd /\ Lseek(me, out, 0, 2)
    <3>1. OnFd(out, Lseek(me, out, 0, 2)) /\ out \in Fd \cup {-1}
      BY <1>1, <1>5 DEF SeekEnd, ShellTypes
    <3>2. QED
      BY <3>1 DEF OnFd
  <2>2. 0 \in Nat /\ 2 \in 0 .. 2
    OBVIOUS
  <2>3. QED
    BY <1>2, <2>1, <2>2 DEF FileCall
<1>6. CASE ReadIn
  <2>1. \/ UNCHANGED vars
        \/ fd \in Fd /\ Read(me, fd, CHUNK)
    <3>1. OnFd(fd, Read(me, fd, CHUNK)) /\ fd \in Fd \cup {-1}
      BY <1>1, <1>6 DEF ReadIn, ShellTypes
    <3>2. QED
      BY <3>1 DEF OnFd
  <2>2. QED
    BY <1>2, <2>1 DEF FileCall
<1>7. CASE WriteOut
  <2>1. \/ out = -1 /\ UNCHANGED vars
        \/ FaultOnly
        \/ out \in Fd /\ l \in Nat /\ Write(me, out, l)
    BY <1>1, <1>7 DEF WriteOut, OnFd, ShellTypes, FaultOnly
  <2>2. QED
    BY <1>2, <2>1 DEF FileCall
<1>8. CASE CloseOut \/ CloseIn
  <2>1. \/ UNCHANGED vars
        \/ out \in Fd /\ Close(me, out)
        \/ fd \in Fd /\ Close(me, fd)
    BY <1>1, <1>8 DEF CloseOut, CloseIn, OnFd, ShellTypes
  <2>2. QED
    BY <1>2, <2>1 DEF FileCall
<1>9. QED
  BY <1>3, <1>4, <1>5, <1>6, <1>7, <1>8 DEF Builtin

(* After a fault nothing moves.                                            *)
LEMMA FaultStops ==
  ASSUME fault # "none", [ShellNext]_systemVars
  PROVE  UNCHANGED systemVars
<1>. SUFFICES ASSUME ShellNext PROVE UNCHANGED systemVars
  OBVIOUS
<1>1. \A p, name, flags : ~Open(p, name, flags) /\ ~Exec(p, name)
  BY DEF Open, OpenFound, OpenFails, OpenCreates, OpenCannotCreate, Exec, Runs
<1>2. \A p, d, len, whence : ~Read(p, d, len) /\ ~Write(p, d, len) /\ ~Lseek(p, d, len, whence) /\ ~Close(p, d)
  BY DEF Read, Write, Lseek, Close, Holds, Runs
<1>3. \A p, q : ~Fork(p, q) /\ ~Exit(p) /\ ~Runs(p)
  BY DEF Fork, Exit, Runs
<1>4. ~OpenIn /\ ~OpenOut
  BY <1>1 DEF OpenIn, OpenOut
<1>5. ~SeekEnd /\ ~ReadIn /\ ~WriteOut
  BY <1>2, <1>3 DEF SeekEnd, ReadIn, WriteOut, OnFd
<1>6. ~CloseOut /\ ~CloseIn
  BY <1>2 DEF CloseOut, CloseIn, OnFd
<1>7. \A name, q : ~RunProgram(name) /\ ~ProgramOpens(name) /\ ~ForkProgram(q)
  BY <1>1, <1>3 DEF RunProgram, ProgramOpens, ForkProgram
<1>8. \A ok \in BOOLEAN : ~ExecProgram(ok)
  BY <1>1, <1>3 DEF ExecProgram
<1>9. ~ProgramExits
  BY <1>3 DEF ProgramExits
<1>10. \A f, g, mode, len : ~EchoCommand(g, mode, len) /\ ~CatCommand(f, g, mode)
  BY DEF EchoCommand, CatCommand
<1>11. Halted
  BY <1>4, <1>5, <1>6, <1>7, <1>8, <1>9, <1>10 DEF ShellNext, Builtin
<1>12. QED
  BY <1>11 DEF Halted

LEMMA ShellCalls ==
  ASSUME FileIInv, ShellIInv, [ShellNext]_systemVars
  PROVE  FileCall
<1>1. CASE fault # "none"
  <2>1. UNCHANGED systemVars
    BY <1>1, FaultStops
  <2>2. QED
    BY <2>1 DEF systemVars, FileCall
<1>2. CASE fault = "none"
  <2>1. Working /\ ShellTypes /\ PcFollowsCommand
    BY <1>2 DEF ShellIInv, Working
  <2>2. me \in Procs /\ kid \in Procs
    BY <2>1, ShellProcs
  <2>3. ASSUME NEW f, NEW g, NEW mode, NEW len, EchoCommand(g, mode, len) \/ CatCommand(f, g, mode)
        PROVE  FileCall
    BY <2>3 DEF EchoCommand, CatCommand, FileCall
  <2>4. CASE Builtin
    BY <1>2, <2>1, <2>4, BuiltinCalls
  <2>5. ASSUME NEW name \in Names, RunProgram(name) \/ ProgramOpens(name) PROVE FileCall
    <3>1. Open(me, name, FS_RW) \/ Open(kid, name, FS_RWC)
      BY <2>5 DEF RunProgram, ProgramOpens
    <3>2. QED
      BY <2>2, <3>1 DEF FileCall
  <2>6. ASSUME NEW q \in Procs, ForkProgram(q) PROVE FileCall
    BY <2>2, <2>6 DEF ForkProgram, FileCall
  <2>7. ASSUME NEW ok \in BOOLEAN, ExecProgram(ok) PROVE FileCall
    <3>1. cmd.file \in Names
      BY <2>1, <2>7 DEF ExecProgram, PcFollowsCommand
    <3>2. Exec(kid, cmd.file) \/ FaultOnly
      BY <2>7 DEF ExecProgram, FaultOnly
    <3>3. QED
      BY <2>2, <3>1, <3>2 DEF FileCall
  <2>8. CASE ProgramExits
    BY <2>2, <2>8 DEF ProgramExits, FileCall
  <2>9. CASE UNCHANGED systemVars
    BY <2>9 DEF systemVars, FileCall
  <2>10. QED
    BY <2>3, <2>4, <2>5, <2>6, <2>7, <2>8, <2>9 DEF ShellNext, Halted
<1>3. QED
  BY <1>1, <1>2

-----------------------------------------------------------------------------
(* The theorems.                                                           *)

LEMMA ShellInitInv == ShellInit => FileIInv /\ ShellIInv
<1>. SUFFICES ASSUME ShellInit PROVE FileIInv /\ ShellIInv
  OBVIOUS
<1>1. Init /\ pc = "prompt" /\ me = (CHOOSE p \in live : TRUE) /\ kid = me /\ cmd = NoCmd
      /\ fd = -1 /\ out = -1 /\ l = 0 /\ leaks = 0 /\ goal = 0
  BY DEF ShellInit
<1>2. FileIInv
  BY <1>1, FileInitInv
<1>3. /\ fcb = [p \in Procs |-> [d \in Fd |-> -1]] /\ fault = "none"
      /\ live = {CHOOSE p \in Procs : TRUE}
  BY <1>1 DEF Init
<1>4. me \in live
  BY <1>1, <1>3
<1>5. me \in Procs
  BY <1>2, <1>4, FileTypes
<1>6. Desc(me) = {}
  BY <1>3, <1>5 DEF Desc
<1>7. cmd \in Commands /\ cmd.op = "none" /\ cmd.mode = "none"
  BY <1>1 DEF NoCmd, Commands
<1>8. ShellTypes
  BY <1>1, <1>4, <1>5, <1>7 DEF ShellTypes, Pcs
<1>9. PcFollowsCommand
  BY <1>1, <1>7 DEF PcFollowsCommand
<1>10. InFds = {} /\ OutFds = {}
  BY <1>1 DEF InFds, OutFds
<1>11. FdsCounted
  <2>1. Desc(me) \ (InFds \cup OutFds) = {} /\ Cardinality({}) = 0
    BY <1>6, FS_EmptySet
  <2>2. Apart(me)
    BY <1>6 DEF Apart
  <2>3. QED
    BY <1>1, <1>6, <1>10, <2>1, <2>2 DEF FdsCounted
<1>12. InOK /\ OutOK
  BY <1>10 DEF InOK, OutOK
<1>13. QED
  BY <1>2, <1>3, <1>8, <1>9, <1>11, <1>12
     DEF ShellIInv, Working, ShellFaults, FcbSuffices, NegativeOnlyFromEcho

LEMMA ShellSame ==
  ASSUME ShellIInv, UNCHANGED systemVars
  PROVE  ShellIInv'
<1>1. UNCHANGED <<dir, fs, fcb, live, fault, pc, me, kid, cmd, fd, out, l, leaks, goal>>
  BY DEF systemVars, vars, diskVars, shellVars
<1>2. ShellFaults'
  BY <1>1 DEF ShellIInv, ShellFaults, FcbSuffices, NegativeOnlyFromEcho
<1>. SUFFICES ASSUME Working PROVE Working'
  BY <1>1, <1>2 DEF ShellIInv
<1>3. ShellTypes' /\ PcFollowsCommand'
  BY <1>1 DEF Working, ShellTypes, PcFollowsCommand
<1>4. InFds' = InFds /\ OutFds' = OutFds /\ In' = In /\ Out' = Out
  BY <1>1 DEF InFds, OutFds, In, Out
<1>5. FdsCounted'
  <2>1. Desc(me)' = Desc(me) /\ (Apart(me)' <=> Apart(me)) /\ (Apart(kid)' <=> Apart(kid))
    BY <1>1 DEF Desc, Apart
  <2>2. QED
    BY <1>1, <1>4, <2>1 DEF Working, FdsCounted
<1>6. /\ Named(cmd.file)' = Named(cmd.file) /\ SizeOf(cmd.file)' = SizeOf(cmd.file)
      /\ Named(cmd.to)' = Named(cmd.to) /\ SizeOf(cmd.to)' = SizeOf(cmd.to)
  BY <1>1 DEF Named, SizeOf
<1>7. InOK'
  <2>1. Asked' <=> Asked
    BY <1>1, <1>4 DEF Asked
  <2>2. QED
    BY <1>1, <1>4, <1>6, <2>1 DEF Working, InOK
<1>8. OutOK'
  <2>1. ToCome' = ToCome /\ (Begun' <=> Begun) /\ (RedirectSize' <=> RedirectSize)
    BY <1>1, <1>4, <1>6 DEF ToCome, Begun, RedirectSize
  <2>2. QED
    BY <1>1, <1>4, <1>6, <2>1 DEF Working, OutOK
<1>9. QED
  BY <1>3, <1>5, <1>7, <1>8 DEF Working

LEMMA ShellNextInv ==
  ASSUME FileIInv, ShellIInv, [ShellNext]_systemVars
  PROVE  ShellIInv'
<1>1. CASE fault # "none"
  BY <1>1, FaultStops, ShellSame
<1>2. CASE fault = "none"
  <2>1. Working
    BY <1>2 DEF ShellIInv
  <2>2. ASSUME NEW g \in Names, NEW mode \in {">", ">>"}, NEW len \in Lens \cup {-1},
               EchoCommand(g, mode, len)
        PROVE  ShellIInv'
    <3>1. len \in Nat \cup {-1}
      BY LengthsAreNat
    <3>2. QED
      BY <1>2, <2>1, <2>2, <3>1, EchoCommandStep DEF ShellIInv
  <2>3. ASSUME NEW f \in Names, NEW g \in Names, NEW mode \in {"none", ">", ">>"},
               CatCommand(f, g, mode)
        PROVE  ShellIInv'
    BY <1>2, <2>1, <2>3, CatCommandStep DEF ShellIInv
  <2>4. CASE Builtin
    BY <1>2, <2>1, <2>4, OpenInStep, OpenOutStep, SeekEndStep, ReadInStep, WriteOutStep,
       CloseOutStep, CloseInStep DEF Builtin, ShellIInv
  <2>5. ASSUME NEW name \in Names, RunProgram(name) \/ ProgramOpens(name) PROVE ShellIInv'
    BY <1>2, <2>1, <2>5, RunProgramStep, ProgramOpensStep DEF ShellIInv
  <2>6. ASSUME NEW q \in Procs, ForkProgram(q) PROVE ShellIInv'
    BY <1>2, <2>1, <2>6, ForkProgramStep DEF ShellIInv
  <2>7. ASSUME NEW ok \in BOOLEAN, ExecProgram(ok) PROVE ShellIInv'
    BY <1>2, <2>1, <2>7, ExecProgramStep DEF ShellIInv
  <2>8. CASE ProgramExits
    BY <1>2, <2>1, <2>8, ProgramExitsStep DEF ShellIInv
  <2>9. CASE UNCHANGED systemVars
    BY <2>9, ShellSame
  <2>10. CASE \E f \in Names : CatCommand(f, f, "none")
    BY <2>3, <2>10
  <2>11. CASE \E f, g \in Names, mode \in {">", ">>"} : CatCommand(f, g, mode)
    BY <2>3, <2>11
  <2>12. QED
    BY <2>2, <2>4, <2>5, <2>6, <2>7, <2>8, <2>9, <2>10, <2>11 DEF ShellNext, Halted
<1>3. QED
  BY <1>1, <1>2

(* The file system keeps what it promises to every process also under the  *)
(* calls of the shell.                                                     *)
LEMMA ShellInvariant == ShellSpec => [](FileIInv /\ ShellIInv)
<1>1. FileIInv /\ ShellIInv /\ [ShellNext]_systemVars => FileIInv' /\ ShellIInv'
  BY ShellCalls, FileCallKeeps, ShellNextInv
<1>2. QED
  BY <1>1, ShellInitInv, PTL DEF ShellSpec

(* echo and cat leave no descriptor behind, whatever exists, is opened, is *)
(* full or fails to be a program (cshell/src/main.c).                      *)
THEOREM ShellBuiltinsClose == ShellSpec => []BuiltinsClose
<1>1. FileIInv /\ ShellIInv => BuiltinsClose
  <2>. SUFFICES ASSUME FileIInv, ShellIInv, pc = "prompt", fault = "none"
                PROVE  me \in live /\ Cardinality({d \in Fd : fcb[me][d] # -1}) = leaks
    BY DEF BuiltinsClose
  <2>1. Working /\ ShellTypes /\ PcFollowsCommand
    BY DEF ShellIInv, Working
  <2>2. cmd.op = "none" /\ me \in live
    BY <2>1 DEF PcFollowsCommand, ShellTypes
  <2>3. Cardinality(Desc(me)) = leaks
    BY <2>1, <2>2, RunCounted
  <2>4. QED
    BY <2>2, <2>3 DEF Desc
<1>2. QED
  BY <1>1, ShellInvariant, PTL

(* fs_open_port always finds a descriptor when there is a stream, and cat  *)
(* never asks the kernel to copy a negative number of bytes.               *)
THEOREM ShellCausesFaults == ShellSpec => []ShellFaults
<1>1. ShellIInv => ShellFaults
  BY DEF ShellIInv
<1>2. QED
  BY <1>1, ShellInvariant, PTL

(* A redirection leaves its target with the size it should have (echo and  *)
(* cat, fs_open_kr, fs_write_kr).                                          *)
THEOREM RedirectLeavesSize == ShellSpec => []RedirectSize
<1>1. FileIInv /\ ShellIInv => RedirectSize
  <2>. SUFFICES ASSUME ShellIInv, pc = "close_out", fault = "none", out # -1 PROVE RedirectSize
    BY DEF RedirectSize
  <2>1. OutFds # {}
    BY DEF OutFds
  <2>2. QED
    BY <2>1 DEF ShellIInv, Working, OutOK
<1>2. QED
  BY <1>1, ShellInvariant, PTL

(* The system calls of the shell and of its programs keep streams that one *)
(* descriptor names, as those of any process do (fs_open_kr, fs_close_port,*)
(* loader_file).                                                           *)
THEOREM ShellKeepsSoleDescriptors == ShellSpec => SoleDescriptorKeepsFile
<1>. DEFINE Keeps(h) ==
       LET i == fcb[h[1]][h[2]] IN
       (i # -1 /\ Holders(i) = {h} /\ fs[i].used /\ h[1] \in live' /\ fcb'[h[1]][h[2]] = i)
         => fs'[i].used /\ fs'[i].entry = fs[i].entry
<1>1. ASSUME FileIInv, ShellIInv, [ShellNext]_systemVars
      PROVE  [\A h \in live \X Fd : Keeps(h)]_vars
  <2>. SUFFICES ASSUME NEW h \in live \X Fd, NEW i, i = fcb[h[1]][h[2]],
                       i # -1, Holders(i) = {h}, fs[i].used, fcb'[h[1]][h[2]] = i
                PROVE  KeepsFile(i)
    BY DEF KeepsFile
  <2>1. FileTypeOK /\ i \in Stream
    <3>1. fcb \in [Procs -> [Fd -> Stream \cup {-1}]] /\ h[1] \in Procs /\ h[2] \in Fd
      BY <1>1, FileTypes
    <3>2. QED
      BY <1>1, <3>1, FileTypes
  <2>2. FileCall
    BY <1>1, ShellCalls
  <2>3. ASSUME NEW p \in Procs, NEW name \in Names,
               Exec(p, name) \/ \E flags \in {FS_RW, FS_RWC, FS_RWD} : Open(p, name, flags)
        PROVE  KeepsFile(i)
    BY <2>1, <2>3, OpenLeavesOthers
  <2>4. ASSUME NEW p \in Procs, NEW d \in Fd,
               \/ \E len \in Nat : Read(p, d, len) \/ Write(p, d, len)
               \/ \E offset \in Nat, whence \in 0 .. 2 : Lseek(p, d, offset, whence)
        PROVE  KeepsFile(i)
    BY <1>1, <2>1, <2>4, CallKeepsFile
  <2>5. ASSUME NEW p \in Procs, NEW d \in Fd, Close(p, d) PROVE KeepsFile(i)
    BY <1>1, <2>1, <2>5, CloseFreesOwn
  <2>6. CASE fs' = fs
    BY <2>6 DEF KeepsFile
  <2>7. QED
    BY <2>2, <2>3, <2>4, <2>5, <2>6 DEF FileCall, FaultOnly, Fork, Exit, vars
<1>2. QED
  BY <1>1, ShellInvariant, PTL DEF ShellSpec, SoleDescriptorKeepsFile

=============================================================================
