----------------------------- MODULE FileProofs -----------------------------
(***************************************************************************)
(* Proofs about the file system (module FileSystem) and the life of a disk *)
(* (module DiskTools), for every size of the disk and of the tables, every *)
(* set of processes and names, and all lengths and offsets.                *)
(***************************************************************************)
EXTENDS DiskTools, TLAPS

Ref == Data \cup {-1}

-----------------------------------------------------------------------------
(* The loop of fs_write_kr and copy2myfs over the blocks it allocates.     *)

(* One turn: block b of s gets the first free data block.                  *)
AllocTurn(par, s, b) ==
  LET i == dataAlloc(s.marked)
  IN  [marked |-> Marked(s.marked, i), blocks |-> [s.blocks EXCEPT ![b] = i]]

(* Blocks B over dom, M being marked, have become those of s: the ones in  *)
(* G each got a block of its own that was not marked, or none because all  *)
(* are marked by now, and the others are as they were.                     *)
Gives(dom, M, B, G, s) ==
  /\ s = [marked |-> s.marked, blocks |-> s.blocks]
  /\ s.marked \in SUBSET Data /\ M \subseteq s.marked
  /\ s.blocks \in [dom -> Ref]
  /\ \A b \in dom : b \notin G => s.blocks[b] = B[b]
  /\ \A b \in dom : b \in G => \/ s.blocks[b] \in s.marked \ M
                               \/ s.blocks[b] = -1 /\ s.marked = Data
  /\ \A a, b \in dom : a \in G /\ b \in G /\ s.blocks[a] # -1 /\ s.blocks[a] = s.blocks[b] => a = b

(* par is <<dom, marked, blocks, from>> before the loop.                   *)
AllocInv(par, k, s) == Gives(par[1], par[2], par[3], par[4] .. par[4] + k - 1, s)

Alloc == INSTANCE FoldTheorems WITH op <- AllocTurn, Inv <- AllocInv

(* The allocators return the first index that is not marked, or -1.        *)
LEMMA LowestIsMember ==
  ASSUME NEW S \in SUBSET Nat, S # {}
  PROVE  Lowest(S) \in S /\ \A x \in S : Lowest(S) <= x
<1>1. \E x \in S : \A y \in S : x <= y
  BY Alloc!LeastNat
<1>2. QED
  BY <1>1 DEF Lowest

LEMMA FirstOrNoneIsMember ==
  ASSUME NEW S \in SUBSET Nat
  PROVE  /\ S = {} => FirstOrNone(S) = -1
         /\ S # {} => FirstOrNone(S) \in S /\ FirstOrNone(S) # -1
<1>1. CASE S = {}
  BY <1>1 DEF FirstOrNone
<1>2. CASE S # {}
  <2>1. FirstOrNone(S) = Lowest(S) /\ Lowest(S) \in S
    BY <1>2, LowestIsMember DEF FirstOrNone
  <2>2. Lowest(S) \in Nat
    BY <2>1
  <2>3. Lowest(S) # -1
    BY <2>2
  <2>4. QED
    BY <1>2, <2>1, <2>3
<1>3. QED
  BY <1>1, <1>2

LEMMA RangesAreNat ==
  /\ Entry \subseteq Nat /\ Inode \subseteq Nat /\ Data \subseteq Nat
  /\ Block \subseteq Nat /\ Stream \subseteq Nat /\ Fd \subseteq Nat
  /\ -1 \notin Nat
<1>1. \A n : \A x \in 0 .. n - 1 : n \in Nat => x \in Nat
  OBVIOUS
<1>2. /\ NR_ENTRIES \in Nat /\ SC_INODE \in Nat /\ SC_DATA \in Nat /\ NR_BLOCKS \in Nat
      /\ NR_FILE_STREAM \in Nat /\ FCBMAX \in Nat
  BY FileAssumption
<1>3. -1 \notin Nat
  OBVIOUS
<1>4. QED
  BY <1>1, <1>2, <1>3 DEF Entry, Inode, Data, Block, Stream, Fd

LEMMA ZeroIsOffset == MAXOFF \in Nat /\ 0 \in 0 .. MAXOFF
<1>1. MAXOFF \in Nat
  BY FileAssumption
<1>2. QED
  BY <1>1

LEMMA AllocTurnKeeps ==
  ASSUME NEW par, NEW k \in Nat, NEW s, par[4] \in Int, AllocInv(par, k, s)
  PROVE  AllocInv(par, k + 1, AllocTurn(par, s, par[4] + k))
<1>. DEFINE i == dataAlloc(s.marked)
            b == par[4] + k
            t == AllocTurn(par, s, b)
            G == par[4] .. par[4] + k - 1
            H == par[4] .. par[4] + (k + 1) - 1
<1>1. (i = -1 /\ s.marked = Data) \/ i \in Data \ s.marked
  <2>1. Data \ s.marked \in SUBSET Nat
    BY RangesAreNat
  <2>2. s.marked \in SUBSET Data
    BY DEF AllocInv, Gives
  <2>3. QED
    BY <2>1, <2>2, FirstOrNoneIsMember DEF dataAlloc
<1>2. -1 \notin Data
  BY RangesAreNat
<1>3. t.marked = Marked(s.marked, i) /\ t.blocks = [s.blocks EXCEPT ![b] = i]
      /\ t = [marked |-> t.marked, blocks |-> t.blocks]
  BY DEF AllocTurn
<1>4. b \notin G /\ \A x : x \in H <=> x \in G \/ x = b
  OBVIOUS
<1>5. /\ s.marked \in SUBSET Data /\ par[2] \subseteq s.marked /\ s.blocks \in [par[1] -> Ref]
      /\ \A a \in par[1] : a \notin G => s.blocks[a] = par[3][a]
      /\ \A a \in par[1] : a \in G => \/ s.blocks[a] \in s.marked \ par[2]
                                      \/ s.blocks[a] = -1 /\ s.marked = Data
      /\ \A a, c \in par[1] : a \in G /\ c \in G /\ s.blocks[a] # -1 /\ s.blocks[a] = s.blocks[c] => a = c
  BY DEF AllocInv, Gives
<1>. HIDE DEF i, t, G, H, b
<1>6. t.marked \in SUBSET Data /\ s.marked \subseteq t.marked
      /\ (i # -1 => i \in t.marked /\ i \notin s.marked) /\ (i = -1 => t.marked = Data)
  BY <1>1, <1>2, <1>3, <1>5 DEF Marked
<1>7. t.blocks \in [par[1] -> Ref] /\ par[2] \subseteq t.marked
  <2>1. i \in Ref
    BY <1>1 DEF Ref
  <2>2. t.blocks \in [par[1] -> Ref]
    <3>1. PICK B : B = s.blocks
      OBVIOUS
    <3>2. B \in [par[1] -> Ref] /\ t.blocks = [B EXCEPT ![b] = i]
      BY <1>3, <1>5, <3>1
    <3>3. QED
      BY <2>1, <3>2
  <2>3. QED
    BY <1>5, <1>6, <2>2
<1>8. \A a \in par[1] : t.blocks[a] = IF a = b THEN i ELSE s.blocks[a]
  BY <1>3, <1>5
<1>9. /\ \A a \in par[1] : a \notin H => t.blocks[a] = par[3][a]
      /\ \A a \in par[1] : a \in H => \/ t.blocks[a] \in t.marked \ par[2]
                                      \/ t.blocks[a] = -1 /\ t.marked = Data
  BY <1>4, <1>5, <1>6, <1>8
<1>10. ASSUME NEW a \in par[1], NEW c \in par[1], a \in H, c \in H,
              t.blocks[a] # -1, t.blocks[a] = t.blocks[c]
       PROVE  a = c
  <2>1. CASE a # b /\ c # b
    BY <1>4, <1>5, <1>8, <1>10, <2>1
  <2>2. CASE a = b \/ c = b
    <3>1. \A x \in par[1] : x \in G => s.blocks[x] # i \/ i = -1
      BY <1>5, <1>6
    <3>2. QED
      BY <1>4, <1>8, <1>10, <2>2, <3>1
  <2>3. QED
    BY <2>1, <2>2
<1>11. Gives(par[1], par[2], par[3], H, t)
  BY <1>3, <1>6, <1>7, <1>9, <1>10 DEF Gives
<1>12. QED
  BY <1>11 DEF t, b, H, AllocInv

(* What fs_write_kr and copy2myfs get from the loop.                       *)
LEMMA AllocatedBlocks ==
  ASSUME NEW dom, NEW M \in SUBSET Data, NEW B \in [dom -> Ref],
         NEW from \in Int, NEW to \in Int
  PROVE  Gives(dom, M, B, from .. to, Allocated([marked |-> M, blocks |-> B], from, to))
<1>. DEFINE par == <<dom, M, B, from>>
            base == [marked |-> M, blocks |-> B]
            seq == [k \in 1 .. to - from + 1 |-> from + k - 1]
<1>1. seq \in Seq(Int) /\ from .. to = from .. from + Len(seq) - 1
  <2>1. CASE to - from + 1 \in Nat
    <3>1. seq \in Seq(Int) /\ Len(seq) = to - from + 1
      BY <2>1
    <3>. HIDE DEF seq
    <3>2. QED
      BY <3>1
  <2>2. CASE to - from + 1 \notin Nat
    <3>1. 1 .. to - from + 1 = {}
      BY <2>2
    <3>2. seq = << >>
      BY <3>1
    <3>3. << >> \in Seq(Int) /\ Len(<< >>) = 0
      OBVIOUS
    <3>. HIDE DEF seq
    <3>4. QED
      BY <2>2, <3>2, <3>3
  <2>3. QED
    BY <2>1, <2>2
<1>2. AllocInv(par, 0, base)
  <2>1. from .. from + 0 - 1 = {}
    OBVIOUS
  <2>2. Gives(dom, M, B, {}, base)
    BY DEF Gives
  <2>3. QED
    BY <2>1, <2>2 DEF AllocInv
<1>3. \A i \in 1 .. Len(seq) : \A r : AllocInv(par, i - 1, r) => AllocInv(par, i, AllocTurn(par, r, seq[i]))
  <2>. TAKE i \in 1 .. Len(seq)
  <2>. TAKE r
  <2>. HAVE AllocInv(par, i - 1, r)
  <2>1. i - 1 \in Nat /\ i = (i - 1) + 1 /\ seq[i] = from + (i - 1)
    <3>1. Len(seq) \in Nat /\ DOMAIN seq = 1 .. Len(seq)
      <4>. HIDE DEF seq
      <4>1. QED
        BY <1>1
    <3>2. i \in Nat /\ i >= 1 /\ i \in DOMAIN seq
      <4>. HIDE DEF seq
      <4>1. QED
        BY <3>1
    <3>3. QED
      BY <3>2
  <2>2. par[4] = from
    OBVIOUS
  <2>. HIDE DEF seq, par
  <2>3. AllocInv(par, (i - 1) + 1, AllocTurn(par, r, par[4] + (i - 1)))
    BY <2>1, <2>2, AllocTurnKeeps
  <2>4. QED
    BY <2>1, <2>2, <2>3
<1>4. AllocInv(par, Len(seq), Alloc!Folded(par, base, seq))
  <2>. HIDE DEF seq, par, base
  <2>1. QED
    BY <1>1, <1>2, <1>3, Alloc!FoldInvariant
<1>5. Allocated(base, from, to) = Alloc!Folded(par, base, seq)
  BY DEF Allocated, AllocTurn, FoldLeft, MapThenFoldSet, Alloc!Folded, Alloc!Step, Alloc!Highest, Max
<1>6. QED
  <2>. HIDE DEF seq
  <2>1. QED
    BY <1>1, <1>4, <1>5 DEF AllocInv

(* The loop twice, as fs_write_kr runs it: for the first block and for the *)
(* further ones.                                                           *)
LEMMA GivesTwice ==
  ASSUME NEW D, NEW M, NEW B, NEW s, NEW t, NEW G, NEW H,
         Gives(D, M, B, G, s), Gives(D, s.marked, s.blocks, H, t)
  PROVE  Gives(D, M, B, G \cup H, t)
<1>1. /\ s.marked \in SUBSET Data /\ M \subseteq s.marked
      /\ \A b \in D : b \notin G => s.blocks[b] = B[b]
      /\ \A b \in D : b \in G => \/ s.blocks[b] \in s.marked \ M
                                 \/ s.blocks[b] = -1 /\ s.marked = Data
      /\ \A a, b \in D : a \in G /\ b \in G /\ s.blocks[a] # -1 /\ s.blocks[a] = s.blocks[b] => a = b
  BY DEF Gives
<1>2. /\ t = [marked |-> t.marked, blocks |-> t.blocks]
      /\ t.marked \in SUBSET Data /\ s.marked \subseteq t.marked /\ t.blocks \in [D -> Ref]
      /\ \A b \in D : b \notin H => t.blocks[b] = s.blocks[b]
      /\ \A b \in D : b \in H => \/ t.blocks[b] \in t.marked \ s.marked
                                 \/ t.blocks[b] = -1 /\ t.marked = Data
      /\ \A a, b \in D : a \in H /\ b \in H /\ t.blocks[a] # -1 /\ t.blocks[a] = t.blocks[b] => a = b
  BY DEF Gives
<1>3. ASSUME NEW a \in D, NEW b \in D, a \in G \cup H, b \in G \cup H,
             t.blocks[a] # -1, t.blocks[a] = t.blocks[b]
      PROVE  a = b
  <2>1. CASE a \in H /\ b \in H
    BY <1>2, <1>3, <2>1
  <2>2. CASE a \notin H /\ b \notin H
    BY <1>1, <1>2, <1>3, <2>2
  <2>3. CASE a \in H <=> b \notin H
    BY <1>1, <1>2, <1>3, <2>3
  <2>4. QED
    BY <2>1, <2>2, <2>3
<1>4. \A b \in D : b \notin G \cup H => t.blocks[b] = B[b]
  BY <1>1, <1>2
<1>5. \A b \in D : b \in G \cup H => \/ t.blocks[b] \in t.marked \ M
                                     \/ t.blocks[b] = -1 /\ t.marked = Data
  BY <1>1, <1>2
<1>6. M \subseteq t.marked
  BY <1>1, <1>2
<1>7. QED
  BY <1>2, <1>3, <1>4, <1>5, <1>6 DEF Gives

-----------------------------------------------------------------------------
(* The invariant.                                                          *)

(* A stream that a descriptor of any process names is not left alone: it   *)
(* may have been closed through another descriptor, and may still be       *)
(* written to.                                                             *)
InUse(i) == fs[i].used \/ \E p \in Procs, d \in Fd : fcb[p][d] = i
StreamsStayMatched == \A i \in Stream : InUse(i) => fs[i].inode = dir[fs[i].entry].inode

(* No name finds a free entry.                                             *)
FreeEntriesNameless == \A e \in Entry : dir[e].inode = -1 => dir[e].name = ""

FileIInv == FileInv /\ StreamsStayMatched /\ FreeEntriesNameless

(* Without regard to the size of a file, no block of its inode is another  *)
(* file's or unmarked.                                                     *)
OwnBlocks ==
  \A e, g \in Files : \A a, b \in Block :
    inodes[dir[e].inode][a] # -1 =>
      /\ inodes[dir[e].inode][a] \in dmap
      /\ inodes[dir[e].inode][a] = inodes[dir[g].inode][b] => e = g /\ a = b

(* What the searches return.                                               *)
LEMMA Searches ==
  ASSUME FileTypeOK
  PROVE  /\ FreeStream # -1 => FreeStream \in Stream /\ ~fs[FreeStream].used
         /\ FreeEntry # -1 => FreeEntry \in Entry /\ dir[FreeEntry].inode = -1
         /\ INodeAlloc # -1 => INodeAlloc \in Inode /\ INodeAlloc \notin imap
         /\ \A name \in Names : Named(name) # -1 =>
              Named(name) \in Entry /\ dir[Named(name)].name = name
         /\ \A p \in Procs : FreeFd(p) # -1 => FreeFd(p) \in Fd /\ fcb[p][FreeFd(p)] = -1
<1>1. FreeStream # -1 => FreeStream \in Stream /\ ~fs[FreeStream].used
  <2>1. {i \in Stream : ~fs[i].used} \in SUBSET Nat
    BY RangesAreNat
  <2>2. QED
    BY <2>1, FirstOrNoneIsMember DEF FreeStream
<1>2. FreeEntry # -1 => FreeEntry \in Entry /\ dir[FreeEntry].inode = -1
  <2>1. {e \in Entry : dir[e].inode = -1} \in SUBSET Nat
    BY RangesAreNat
  <2>2. QED
    BY <2>1, FirstOrNoneIsMember DEF FreeEntry
<1>3. INodeAlloc # -1 => INodeAlloc \in Inode /\ INodeAlloc \notin imap
  <2>1. Inode \ imap \in SUBSET Nat
    BY RangesAreNat
  <2>2. QED
    BY <2>1, FirstOrNoneIsMember DEF INodeAlloc
<1>4. ASSUME NEW name \in Names, Named(name) # -1
      PROVE  Named(name) \in Entry /\ dir[Named(name)].name = name
  <2>1. {e \in Entry : dir[e].name = name} \in SUBSET Nat
    BY RangesAreNat
  <2>2. QED
    BY <1>4, <2>1, FirstOrNoneIsMember DEF Named
<1>5. ASSUME NEW p \in Procs, FreeFd(p) # -1
      PROVE  FreeFd(p) \in Fd /\ fcb[p][FreeFd(p)] = -1
  <2>1. {d \in Fd : fcb[p][d] = -1} \in SUBSET Nat
    BY RangesAreNat
  <2>2. QED
    BY <1>5, <2>1, FirstOrNoneIsMember DEF FreeFd
<1>6. QED
  BY <1>1, <1>2, <1>3, <1>4, <1>5

(* The blocks a write gives to a file: the first one, when the stream's    *)
(* size is 0, and those behind the place it starts at, when it goes beyond *)
(* the size.                                                               *)
FirstGiven(f) == IF f.file_size = 0 THEN 0 .. 0 ELSE {}
SizeGiven(f, len) ==
  IF f.file_size # 0 THEN f.file_size ELSE IF len > BLOCK_SIZE THEN BLOCK_SIZE ELSE len
Given(f, len) ==
  FirstGiven(f) \cup IF f.offset + len > SizeGiven(f, len)
                     THEN f.offset \div BLOCK_SIZE + 1 .. (f.offset + len) \div BLOCK_SIZE ELSE {}

(* The plan of a write: its blocks as above, its size within the bound.    *)
LEMMA WritePlanParts ==
  ASSUME FileTypeOK, NEW i \in Stream, NEW len \in Nat, WritePlan(fs[i], len).end <= MAXOFF
  PROVE  LET f == fs[i]
             w == WritePlan(f, len)
         IN  /\ w.end \in 0 .. MAXOFF /\ w.size \in 0 .. MAXOFF /\ w.end = f.offset + len
             /\ w.size = IF w.end > SizeGiven(f, len) THEN w.end ELSE SizeGiven(f, len)
             /\ w.m0 = [marked |-> dmap, blocks |-> inodes[f.inode]]
             /\ w.old = dir[f.entry].size
             /\ Gives(Block, dmap, inodes[f.inode], {}, w.m0)
             /\ Gives(Block, dmap, inodes[f.inode], FirstGiven(f), w.m1)
             /\ \E G : Gives(Block, dmap, inodes[f.inode], G, w.m2)
             /\ ~w.over => Gives(Block, dmap, inodes[f.inode], Given(f, len), w.m2)
             /\ ~w.over => w.end <= NR_BLOCKS * BLOCK_SIZE
             /\ w.m1.marked \subseteq w.m2.marked
<1>. DEFINE f == fs[i]
            w == WritePlan(f, len)
            B == inodes[f.inode]
            end == f.offset + len
            m0 == [marked |-> dmap, blocks |-> B]
            m1 == IF f.file_size = 0 THEN Allocated(m0, 0, 0) ELSE m0
            size == SizeGiven(f, len)
            from == f.offset \div BLOCK_SIZE + 1
            last == end \div BLOCK_SIZE
            over == (end > size /\ last >= NR_BLOCKS) \/ end > NR_BLOCKS * BLOCK_SIZE
            m2 == IF end > size /\ ~over THEN Allocated(m1, from, last) ELSE m1
            more == IF end > size /\ ~over THEN from .. last ELSE {}
<1>1. /\ w.end = end /\ w.m0 = m0 /\ w.m1 = m1 /\ w.m2 = m2 /\ w.old = dir[f.entry].size
      /\ w.size = IF end > size THEN end ELSE size
  BY DEF WritePlan, SizeGiven
<1>a. w.over = over
  BY DEF WritePlan, SizeGiven
<1>2. /\ f.inode \in Inode /\ f.file_size \in 0 .. MAXOFF /\ f.offset \in 0 .. MAXOFF
      /\ dmap \in SUBSET Data /\ B \in [Block -> Ref]
  BY DEF FileTypeOK, Ref
<1>3. BLOCK_SIZE \in Nat \ {0} /\ MAXOFF \in Nat
  BY FileAssumption
<1>4. end \in Nat /\ end <= MAXOFF /\ last \in Int /\ from \in Int
  <2>1. end \in Nat /\ end <= MAXOFF
    BY <1>1, <1>2, <1>3
  <2>2. \A x \in Nat : x \div BLOCK_SIZE \in Int
    BY <1>3
  <2>3. QED
    BY <1>2, <1>3, <2>1, <2>2
<1>5. size \in 0 .. MAXOFF \/ (size <= end /\ size \in Nat)
  BY <1>2, <1>3 DEF SizeGiven
<1>6. Gives(Block, dmap, B, {}, m0)
  BY <1>2 DEF Gives
<1>. HIDE DEF B, f
<1>7. Gives(Block, dmap, B, FirstGiven(f), m1)
  <2>1. \A a, c \in Int : Gives(Block, dmap, B, a .. c, Allocated(m0, a, c))
    BY <1>2, AllocatedBlocks
  <2>2. Gives(Block, dmap, B, 0 .. 0, Allocated(m0, 0, 0))
    <3>1. 0 \in Int
      OBVIOUS
    <3>2. QED
      BY <2>1, <3>1, Zenon
  <2>3. QED
    BY <1>6, <2>2 DEF FirstGiven
<1>. HIDE DEF m1
<1>8. /\ Gives(Block, dmap, B, FirstGiven(f) \cup (from .. last), Allocated(m1, from, last))
      /\ m1.marked \subseteq Allocated(m1, from, last).marked
  <2>. HIDE DEF from, last
  <2>1. m1 = [marked |-> m1.marked, blocks |-> m1.blocks] /\ m1.marked \in SUBSET Data
        /\ m1.blocks \in [Block -> Ref]
    BY <1>7 DEF Gives
  <2>2. Gives(Block, m1.marked, m1.blocks, from .. last, Allocated(m1, from, last))
    BY <1>4, <2>1, AllocatedBlocks
  <2>3. QED
    <3>1. m1.marked \subseteq Allocated(m1, from, last).marked
      BY <2>2 DEF Gives
    <3>2. QED
      BY <1>7, <2>2, <3>1, GivesTwice
<1>9. Gives(Block, dmap, B, FirstGiven(f) \cup more, m2)
  <2>. HIDE DEF from, last, over, size, end
  <2>1. CASE end > size /\ ~over
    BY <1>8, <2>1
  <2>2. CASE ~(end > size /\ ~over)
    <3>1. FirstGiven(f) \cup more = FirstGiven(f) /\ m2 = m1
      BY <2>2
    <3>2. QED
      BY <1>7, <3>1
  <2>3. QED
    BY <2>1, <2>2
<1>b. m1.marked \subseteq m2.marked
  <2>. HIDE DEF from, last, over, size, end
  <2>4. QED
    BY <1>8
<1>10. ~over => Given(f, len) = FirstGiven(f) \cup more
  BY DEF Given
<1>. HIDE DEF w, m2, more, m0
<1>11. ~w.over => Gives(Block, dmap, B, Given(f, len), w.m2)
  <2>. HIDE DEF over
  <2>1. QED
    BY <1>a, <1>1, <1>9, <1>10
<1>12. ~w.over => w.end <= NR_BLOCKS * BLOCK_SIZE
  <2>1. NR_BLOCKS \in Nat
    BY FileAssumption
  <2>2. NR_BLOCKS * BLOCK_SIZE \in Int
    BY <1>3, <2>1
  <2>3. ~over => end <= NR_BLOCKS * BLOCK_SIZE
    BY <1>4, <2>2
  <2>. HIDE DEF over
  <2>4. QED
    BY <1>1, <1>a, <2>3
<1>13. w.size \in 0 .. MAXOFF
  <2>. HIDE DEF size, end
  <2>1. QED
    BY <1>1, <1>3, <1>4, <1>5
<1>14. w.end \in 0 .. MAXOFF /\ w.end = f.offset + len
  <2>1. end \in 0 .. MAXOFF
    BY <1>3, <1>4
  <2>2. QED
    BY <1>1, <2>1
<1>15. w.size = IF w.end > SizeGiven(f, len) THEN w.end ELSE SizeGiven(f, len)
  BY <1>1
<1>16. QED
  <2>. HIDE DEF size, end
  <2>1. QED
    BY <1>1, <1>b, <1>6, <1>7, <1>9, <1>11, <1>12, <1>13, <1>14, <1>15 DEF f, B, w, m0

-----------------------------------------------------------------------------
(* The actions of the file system keep FileIInv.                           *)

StreamType == [used : BOOLEAN, entry : Entry, inode : Inode, file_size : 0 .. MAXOFF, offset : 0 .. MAXOFF]
FaultType == {"none", "stray", "dir", "fs", "inode", "fcb", "negative"}

(* One place of a table of tables is set.                                  *)
LEMMA TableSet ==
  ASSUME NEW P, NEW D, NEW V, NEW f \in [P -> [D -> V]], NEW p \in P, NEW d \in D, NEW v \in V
  PROVE  /\ [f EXCEPT ![p][d] = v] \in [P -> [D -> V]]
         /\ \A q \in P, c \in D : [f EXCEPT ![p][d] = v][q][c] = f[q][c] \/ [f EXCEPT ![p][d] = v][q][c] = v
OBVIOUS

(* A stream is opened on entry e (fs_open_kr, fs_create_kr), with or       *)
(* without a descriptor for it.                                            *)
LEMMA OpensStream ==
  ASSUME FileIInv, NEW p \in Procs, NEW e \in Entry, NEW n \in Inode, NEW size \in 0 .. MAXOFF,
         FreeStream # -1, fs' = [fs EXCEPT ![FreeStream] = Opened(e, n, size)],
         Attach(p, FreeStream) \/ UNCHANGED <<fcb, fault>>,
         dir'[e].inode = n,
         \A g \in Entry : dir[g].inode # -1 => dir'[g].inode = dir[g].inode
  PROVE  /\ fs' \in [Stream -> StreamType] /\ fcb' \in [Procs -> [Fd -> Stream \cup {-1}]]
         /\ fault' \in FaultType
         /\ StreamsStayMatched'
<1>. DEFINE k == FreeStream
<1>1. FileTypeOK
  BY DEF FileIInv, FileInv
<1>2. k \in Stream /\ (FreeFd(p) # -1 => FreeFd(p) \in Fd)
  BY <1>1, Searches
<1>. HIDE DEF k
<1>3. Opened(e, n, size) \in StreamType
  <2>1. 0 \in 0 .. MAXOFF
    BY ZeroIsOffset
  <2>2. QED
    BY <2>1 DEF Opened, StreamType
<1>4. fs' \in [Stream -> StreamType]
  BY <1>1, <1>2, <1>3 DEF FileTypeOK, StreamType, k
<1>5. \/ fcb' = fcb
      \/ FreeFd(p) \in Fd /\ fcb' = [fcb EXCEPT ![p][FreeFd(p)] = k]
  BY <1>2 DEF Attach, k
<1>6. /\ fcb' \in [Procs -> [Fd -> Stream \cup {-1}]]
      /\ \A q \in Procs, d \in Fd : fcb'[q][d] = fcb[q][d] \/ fcb'[q][d] = k
  <2>1. fcb \in [Procs -> [Fd -> Stream \cup {-1}]]
    BY <1>1 DEF FileTypeOK
  <2>2. CASE fcb' = fcb
    BY <2>1, <2>2
  <2>3. CASE FreeFd(p) \in Fd /\ fcb' = [fcb EXCEPT ![p][FreeFd(p)] = k]
    <3>1. PICK c \in Fd : c = FreeFd(p)
      BY <2>3
    <3>2. fcb' = [fcb EXCEPT ![p][c] = k]
      BY <2>3, <3>1
    <3>3. k \in Stream \cup {-1}
      BY <1>2
    <3>4. QED
      BY <2>1, <3>2, <3>3, TableSet
  <2>4. QED
    BY <1>5, <2>2, <2>3
<1>7. fault' \in FaultType
  BY <1>1 DEF FileTypeOK, FaultType, Attach
<1>8. ASSUME NEW i \in Stream, InUse(i)' PROVE fs'[i].inode = dir'[fs'[i].entry].inode
  <2>1. CASE i = k
    BY <1>1, <1>2, <2>1 DEF k, Opened, FileTypeOK
  <2>2. CASE i # k
    <3>1. fs'[i] = fs[i]
      BY <1>1, <1>2, <2>2 DEF k, FileTypeOK
    <3>2. \A q \in Procs, d \in Fd : fcb'[q][d] = i => fcb[q][d] = i
      BY <1>6, <2>2
    <3>3. InUse(i)
      BY <1>8, <3>1, <3>2 DEF InUse
    <3>4. fs[i].inode = dir[fs[i].entry].inode /\ fs[i].entry \in Entry /\ fs[i].inode \in Inode
      BY <1>1, <3>3 DEF FileIInv, StreamsStayMatched, FileTypeOK
    <3>5. QED
      BY <3>1, <3>4, RangesAreNat
  <2>3. QED
    BY <2>1, <2>2
<1>9. QED
  BY <1>4, <1>6, <1>7, <1>8 DEF StreamsStayMatched

(* What the four parts give together.                                      *)
LEMMA FileParts ==
  FileIInv <=> /\ FileTypeOK /\ StreamsStayMatched /\ FreeEntriesNameless
               /\ \A e \in Entry : dir[e].inode # -1 =>
                    /\ dir[e].inode \in imap
                    /\ \A g \in Entry : dir[g].inode = dir[e].inode => g = e
BY DEF FileIInv, FileInv, StreamsMatchDirectory, StreamsStayMatched, InUse

LEMMA FilePartsNext ==
  ASSUME FileTypeOK', StreamsStayMatched', FreeEntriesNameless',
         \A e \in Entry : dir'[e].inode # -1 =>
            /\ dir'[e].inode \in imap'
            /\ \A g \in Entry : dir'[g].inode = dir'[e].inode => g = e
  PROVE  FileIInv'
BY DEF FileIInv, FileInv, StreamsMatchDirectory, StreamsStayMatched, InUse

(* No call but the creation of a file changes the directory's inodes, so   *)
(* the entries stay as they are.                                           *)
LEMMA SameEntries ==
  ASSUME FileIInv, imap' = imap, \A e \in Entry : dir'[e].inode = dir[e].inode /\ dir'[e].name = dir[e].name
  PROVE  /\ FreeEntriesNameless'
         /\ \A e \in Entry : dir'[e].inode # -1 =>
              /\ dir'[e].inode \in imap'
              /\ \A g \in Entry : dir'[g].inode = dir'[e].inode => g = e
<1>1. FreeEntriesNameless /\ \A e \in Entry : dir[e].inode # -1 =>
                               /\ dir[e].inode \in imap
                               /\ \A g \in Entry : dir[g].inode = dir[e].inode => g = e
  BY FileParts
<1>2. FreeEntriesNameless'
  BY <1>1 DEF FreeEntriesNameless
<1>3. QED
  BY <1>1, <1>2

LEMMA OpenFoundKeeps ==
  ASSUME FileIInv, NEW p \in Procs, NEW name \in Names, CanOpen(name),
         UNCHANGED <<dir, inodes, imap, dmap>>, live' \subseteq Procs, NEW size \in 0 .. MAXOFF,
         fs' = [fs EXCEPT ![FreeStream] = Opened(Named(name), dir[Named(name)].inode, size)],
         Attach(p, FreeStream) \/ UNCHANGED <<fcb, fault>>
  PROVE  FileIInv'
<1>1. FileTypeOK /\ FreeEntriesNameless
  BY FileParts
<1>2. Named(name) \in Entry /\ dir[Named(name)].name = name /\ FreeStream # -1
  BY <1>1, Searches DEF CanOpen
<1>3. dir[Named(name)].inode \in Inode
  BY <1>1, <1>2, FileAssumption DEF FileTypeOK, FreeEntriesNameless
<1>4. /\ fs' \in [Stream -> StreamType] /\ fcb' \in [Procs -> [Fd -> Stream \cup {-1}]]
      /\ fault' \in FaultType
      /\ StreamsStayMatched'
  BY <1>2, <1>3, OpensStream
<1>5. FileTypeOK'
  BY <1>1, <1>4 DEF FileTypeOK, StreamType, FaultType
<1>6. QED
  BY <1>4, <1>5, SameEntries, FilePartsNext

LEMMA OpenCreatesKeeps ==
  ASSUME FileIInv, NEW p \in Procs, NEW name \in Names, NEW flags \in {FS_RW, FS_RWC, FS_RWD},
         OpenCreates(p, name, flags)
  PROVE  FileIInv'
<1>. DEFINE e == FreeEntry
            n == INodeAlloc
<1>1. /\ FileTypeOK /\ FreeEntriesNameless /\ StreamsStayMatched
      /\ \A x \in Entry : dir[x].inode # -1 =>
           /\ dir[x].inode \in imap
           /\ \A g \in Entry : dir[g].inode = dir[x].inode => g = x
  BY FileParts
<1>2. e \in Entry /\ dir[e].inode = -1 /\ n \in Inode /\ n \notin imap /\ n # -1
  BY <1>1, Searches DEF OpenCreates
<1>3. /\ dir' = [dir EXCEPT ![e] = NewEntry(name, n)]
      /\ imap' = imap \cup {n}
      /\ inodes' = [inodes EXCEPT ![n] = [b \in Block |-> -1]]
      /\ dmap' = dmap /\ live' = live
  BY <1>2 DEF OpenCreates, Marked
<1>4. \/ /\ FreeStream # -1 /\ fs' = [fs EXCEPT ![FreeStream] = Opened(e, n, 0)]
         /\ Attach(p, FreeStream)
      \/ fault' \in {"fs", fault} /\ fs' = fs /\ fcb' = fcb
  BY DEF OpenCreates
<1>. HIDE DEF e, n
<1>5. \A g \in Entry : /\ g # e => dir'[g] = dir[g]
                       /\ dir'[e] = NewEntry(name, n)
  BY <1>1, <1>2, <1>3 DEF FileTypeOK
<1>6. dir'[e].inode = n /\ dir'[e].name = name
  BY <1>2, <1>5 DEF NewEntry
<1>7. \A g \in Entry : dir[g].inode # -1 => dir'[g].inode = dir[g].inode
  BY <1>2, <1>5
<1>8. /\ fs' \in [Stream -> StreamType] /\ fcb' \in [Procs -> [Fd -> Stream \cup {-1}]]
      /\ fault' \in FaultType
      /\ StreamsStayMatched'
  <2>1. CASE FreeStream # -1 /\ fs' = [fs EXCEPT ![FreeStream] = Opened(e, n, 0)]
             /\ Attach(p, FreeStream)
    <3>1. 0 \in 0 .. MAXOFF
      BY ZeroIsOffset
    <3>2. QED
      BY <1>2, <1>6, <1>7, <2>1, <3>1, OpensStream
  <2>2. CASE fault' \in {"fs", fault} /\ fs' = fs /\ fcb' = fcb
    <3>1. StreamsStayMatched'
      <4>. SUFFICES ASSUME NEW i \in Stream, InUse(i)'
                    PROVE  fs'[i].inode = dir'[fs'[i].entry].inode
        BY DEF StreamsStayMatched
      <4>1. fs[i].inode = dir[fs[i].entry].inode /\ fs[i].entry \in Entry /\ fs[i].inode \in Inode
        BY <1>1, <2>2 DEF InUse, StreamsStayMatched, FileTypeOK
      <4>2. QED
        BY <1>7, <2>2, <4>1, RangesAreNat
    <3>2. QED
      BY <1>1, <2>2, <3>1 DEF FileTypeOK, StreamType, FaultType
  <2>3. QED
    BY <1>4, <2>1, <2>2
<1>9. FileTypeOK'
  <2>1. NewEntry(name, n) \in [name : Names \cup {""}, size : 0 .. MAXOFF, inode : Inode \cup {-1}]
    <3>1. 0 \in 0 .. MAXOFF
      BY ZeroIsOffset
    <3>2. QED
      BY <1>2, <3>1 DEF NewEntry
  <2>2. dir' \in [Entry -> [name : Names \cup {""}, size : 0 .. MAXOFF, inode : Inode \cup {-1}]]
    BY <1>1, <1>2, <1>3, <2>1 DEF FileTypeOK
  <2>3. inodes' \in [Inode -> [Block -> Data \cup {-1}]]
    BY <1>1, <1>2, <1>3 DEF FileTypeOK
  <2>4. imap' \subseteq Inode /\ dmap' \subseteq Data /\ live' \subseteq Procs
    BY <1>1, <1>2, <1>3 DEF FileTypeOK
  <2>5. QED
    BY <1>8, <2>2, <2>3, <2>4 DEF FileTypeOK, StreamType, FaultType
<1>10. FreeEntriesNameless'
  BY <1>1, <1>2, <1>5, <1>6 DEF FreeEntriesNameless
<1>11. ASSUME NEW x \in Entry, dir'[x].inode # -1
       PROVE  /\ dir'[x].inode \in imap'
              /\ \A g \in Entry : dir'[g].inode = dir'[x].inode => g = x
  BY <1>1, <1>2, <1>3, <1>5, <1>6, <1>11
<1>12. QED
  BY <1>8, <1>9, <1>10, <1>11, FilePartsNext

(* Calls that leave the disk and the descriptors alone and keep the file   *)
(* of every stream: read, lseek.                                           *)
LEMMA SameFilesKeeps ==
  ASSUME FileIInv, UNCHANGED <<dir, inodes, imap, dmap, fcb, live>>,
         NEW i \in Stream, NEW size \in 0 .. MAXOFF, NEW offset \in 0 .. MAXOFF,
         fs' = [fs EXCEPT ![i].file_size = size, ![i].offset = offset], fault' \in FaultType
  PROVE  FileIInv'
<1>1. FileTypeOK /\ StreamsStayMatched
  BY FileParts
<1>2. fs \in [Stream -> StreamType]
  BY <1>1 DEF FileTypeOK, StreamType
<1>3. /\ fs' \in [Stream -> StreamType]
      /\ \A k \in Stream : /\ fs'[k].used = fs[k].used /\ fs'[k].entry = fs[k].entry
                            /\ fs'[k].inode = fs[k].inode
  BY <1>2 DEF StreamType
<1>4. FileTypeOK'
  BY <1>1, <1>3 DEF FileTypeOK, StreamType, FaultType
<1>5. StreamsStayMatched'
  BY <1>1, <1>3 DEF StreamsStayMatched, InUse
<1>6. QED
  BY <1>4, <1>5, SameEntries, FilePartsNext

(* A descriptor that is held names a stream in use.                        *)
LEMMA HeldStream ==
  ASSUME FileIInv, NEW p \in Procs, NEW d \in Fd, Holds(p, d)
  PROVE  /\ Of(p, d) \in Stream /\ fs[Of(p, d)] \in StreamType /\ InUse(Of(p, d))
         /\ fs[Of(p, d)].inode = dir[fs[Of(p, d)].entry].inode
<1>1. FileTypeOK /\ StreamsStayMatched
  BY FileParts
<1>2. Of(p, d) \in Stream
  <2>1. fcb \in [Procs -> [Fd -> Stream \cup {-1}]]
    BY <1>1 DEF FileTypeOK
  <2>2. QED
    BY <2>1 DEF Holds, Of
<1>3. InUse(Of(p, d))
  BY DEF InUse, Of
<1>4. QED
  BY <1>1, <1>2, <1>3 DEF StreamsStayMatched, FileTypeOK, StreamType

LEMMA ReadKeeps ==
  ASSUME FileIInv, NEW p \in Procs, NEW d \in Fd, NEW len \in Nat, Read(p, d, len)
  PROVE  FileIInv'
<1>. DEFINE i == Of(p, d)
            f == fs[i]
            left == IF f.offset + len >= f.file_size THEN f.file_size - f.offset ELSE len
            new == IF left < 0 THEN f.offset ELSE f.offset + left
<1>1. Holds(p, d)
  BY DEF Read
<1>2. i \in Stream /\ f \in StreamType
  BY <1>1, HeldStream
<1>3. f.offset \in 0 .. MAXOFF /\ f.file_size \in 0 .. MAXOFF /\ len \in Nat /\ MAXOFF \in Nat
  BY <1>2, FileAssumption DEF StreamType
<1>4. new \in 0 .. MAXOFF
  BY <1>3
<1>5. FileTypeOK
  BY FileParts
<1>6. fs' = [fs EXCEPT ![i].file_size = f.file_size, ![i].offset = new]
  <2>1. fs' = [fs EXCEPT ![i].offset = new]
    BY DEF Read
  <2>. HIDE DEF new
  <2>2. fs \in [Stream -> StreamType]
    BY <1>5 DEF FileTypeOK, StreamType
  <2>3. QED
    BY <1>2, <2>1, <2>2 DEF StreamType
<1>7. fault' \in FaultType
  BY <1>5 DEF Read, FileTypeOK, FaultType
<1>8. UNCHANGED <<dir, inodes, imap, dmap, fcb, live>>
  BY DEF Read, diskVars
<1>. HIDE DEF new, f, i
<1>9. QED
  BY <1>2, <1>3, <1>4, <1>6, <1>7, <1>8, SameFilesKeeps

LEMMA LseekKeeps ==
  ASSUME FileIInv, NEW p \in Procs, NEW d \in Fd, NEW offset \in Nat, NEW whence \in 0 .. 2,
         Lseek(p, d, offset, whence)
  PROVE  FileIInv'
<1>. DEFINE i == Of(p, d)
            f == fs[i]
<1>1. Holds(p, d)
  BY DEF Lseek
<1>2. i \in Stream /\ f \in StreamType
  BY <1>1, HeldStream
<1>3. PICK index \in 0 .. MAXOFF : fs' = [fs EXCEPT ![i].offset = index]
  BY DEF Lseek
<1>4. FileTypeOK
  BY FileParts
<1>5. fs' = [fs EXCEPT ![i].file_size = f.file_size, ![i].offset = index]
  <2>1. fs \in [Stream -> StreamType]
    BY <1>4 DEF FileTypeOK, StreamType
  <2>2. QED
    BY <1>2, <1>3, <2>1 DEF StreamType
<1>6. fault' \in FaultType
  BY <1>4 DEF Lseek, FileTypeOK, FaultType
<1>7. UNCHANGED <<dir, inodes, imap, dmap, fcb, live>>
  BY DEF Lseek, diskVars
<1>8. f.file_size \in 0 .. MAXOFF
  BY <1>2 DEF StreamType
<1>. HIDE DEF f, i
<1>9. QED
  BY <1>2, <1>5, <1>6, <1>7, <1>8, SameFilesKeeps

(* fs_write_kr, and what a loss of power leaves of it, change the blocks   *)
(* of one inode, the bitmap and one size.                                  *)
LEMMA WriteTypes ==
  ASSUME FileIInv, NEW n \in Inode, NEW e \in Entry, NEW size \in 0 .. MAXOFF,
         NEW m, \E G : Gives(Block, dmap, inodes[n], G, m),
         NEW k, \E G : Gives(Block, dmap, inodes[n], G, k),
         inodes' = [inodes EXCEPT ![n] = k.blocks], dmap' \subseteq m.marked,
         dir' = [dir EXCEPT ![e].size = size], imap' = imap
  PROVE  /\ dir' \in [Entry -> [name : Names \cup {""}, size : 0 .. MAXOFF, inode : Inode \cup {-1}]]
         /\ inodes' \in [Inode -> [Block -> Data \cup {-1}]]
         /\ dmap' \subseteq Data
         /\ \A g \in Entry : dir'[g].inode = dir[g].inode /\ dir'[g].name = dir[g].name
<1>1. FileTypeOK
  BY FileParts
<1>2. dir \in [Entry -> [name : Names \cup {""}, size : 0 .. MAXOFF, inode : Inode \cup {-1}]]
  BY <1>1 DEF FileTypeOK
<1>3. /\ dir' \in [Entry -> [name : Names \cup {""}, size : 0 .. MAXOFF, inode : Inode \cup {-1}]]
      /\ \A g \in Entry : dir'[g].inode = dir[g].inode /\ dir'[g].name = dir[g].name
  BY <1>2
<1>4. k.blocks \in [Block -> Ref] /\ m.marked \in SUBSET Data
  BY DEF Gives
<1>5. inodes' \in [Inode -> [Block -> Data \cup {-1}]] /\ dmap' \subseteq Data
  BY <1>1, <1>4 DEF FileTypeOK, Ref
<1>6. QED
  BY <1>3, <1>5

LEMMA WriteKeeps ==
  ASSUME FileIInv, NEW p \in Procs, NEW d \in Fd, NEW len \in Nat, Write(p, d, len)
  PROVE  FileIInv'
<1>. DEFINE i == Of(p, d)
            f == fs[i]
            w == WritePlan(f, len)
<1>1. Holds(p, d) /\ w.end <= MAXOFF /\ UNCHANGED <<fcb, live>>
  BY DEF Write
<1>2. i \in Stream /\ f \in StreamType /\ len \in Nat
  BY <1>1, HeldStream, FileAssumption
<1>3. FileTypeOK /\ StreamsStayMatched
  BY FileParts
<1>4. /\ w.end \in 0 .. MAXOFF /\ w.size \in 0 .. MAXOFF
      /\ \E G : Gives(Block, dmap, inodes[f.inode], G, w.m2)
  BY <1>1, <1>2, <1>3, WritePlanParts
<1>5. CASE fault' = "inode" /\ UNCHANGED <<diskVars, fs>>
  <2>1. FileTypeOK'
    BY <1>1, <1>3, <1>5 DEF FileTypeOK, diskVars
  <2>2. StreamsStayMatched'
    BY <1>1, <1>3, <1>5 DEF StreamsStayMatched, InUse, diskVars
  <2>3. QED
    BY <1>5, <2>1, <2>2, SameEntries, FilePartsNext DEF diskVars
<1>6. CASE /\ inodes' = [inodes EXCEPT ![f.inode] = w.m2.blocks]
           /\ dmap'   = w.m2.marked
           /\ dir'    = [dir EXCEPT ![f.entry].size = w.size]
           /\ fs'     = [fs EXCEPT ![i].file_size = w.size, ![i].offset = w.end]
           /\ fault' \in {"stray", fault}
           /\ UNCHANGED imap
  <2>. HIDE DEF w, f, i
  <2>1. f.inode \in Inode /\ f.entry \in Entry
    BY <1>2 DEF StreamType
  <2>2. /\ dir' \in [Entry -> [name : Names \cup {""}, size : 0 .. MAXOFF, inode : Inode \cup {-1}]]
        /\ inodes' \in [Inode -> [Block -> Data \cup {-1}]]
        /\ dmap' \subseteq Data
        /\ \A g \in Entry : dir'[g].inode = dir[g].inode /\ dir'[g].name = dir[g].name
    BY <1>4, <1>6, <2>1, WriteTypes
  <2>3. fs \in [Stream -> StreamType]
    BY <1>3 DEF FileTypeOK, StreamType
  <2>4. /\ fs' \in [Stream -> StreamType]
        /\ \A k \in Stream : /\ fs'[k].used = fs[k].used /\ fs'[k].entry = fs[k].entry
                              /\ fs'[k].inode = fs[k].inode
    BY <1>2, <1>4, <1>6, <2>3 DEF StreamType
  <2>5. FileTypeOK'
    BY <1>1, <1>3, <1>6, <2>2, <2>4 DEF FileTypeOK, StreamType
  <2>6. StreamsStayMatched'
    <3>. SUFFICES ASSUME NEW k \in Stream, InUse(k)'
                  PROVE  fs'[k].inode = dir'[fs'[k].entry].inode
      BY DEF StreamsStayMatched
    <3>1. InUse(k)
      BY <1>1, <2>4 DEF InUse
    <3>2. fs[k].inode = dir[fs[k].entry].inode /\ fs[k].entry \in Entry
      BY <1>3, <2>3, <3>1 DEF StreamsStayMatched, StreamType
    <3>3. QED
      BY <2>2, <2>4, <3>2
  <2>7. QED
    BY <1>6, <2>2, <2>5, <2>6, SameEntries, FilePartsNext
<1>7. QED
  BY <1>5, <1>6 DEF Write

(* close frees the stream and the descriptor; another descriptor may keep  *)
(* naming the stream.                                                      *)
LEMMA CloseKeeps ==
  ASSUME FileIInv, NEW p \in Procs, NEW d \in Fd, Close(p, d)
  PROVE  FileIInv'
<1>. DEFINE i == Of(p, d)
<1>1. Holds(p, d) /\ fs' = [fs EXCEPT ![i].used = FALSE] /\ fcb' = [fcb EXCEPT ![p][d] = -1]
      /\ UNCHANGED <<dir, inodes, imap, dmap, live, fault>>
  BY DEF Close, Detached, diskVars
<1>2. i \in Stream
  BY <1>1, HeldStream
<1>. HIDE DEF i
<1>3. FileTypeOK /\ StreamsStayMatched
  BY FileParts
<1>4. fs \in [Stream -> StreamType] /\ fcb \in [Procs -> [Fd -> Stream \cup {-1}]]
  BY <1>3 DEF FileTypeOK, StreamType
<1>5. /\ fs' \in [Stream -> StreamType]
      /\ \A k \in Stream : /\ fs'[k].used => fs[k].used
                            /\ fs'[k].entry = fs[k].entry /\ fs'[k].inode = fs[k].inode
  BY <1>1, <1>2, <1>4 DEF StreamType
<1>6. /\ fcb' \in [Procs -> [Fd -> Stream \cup {-1}]]
      /\ \A q \in Procs, c \in Fd : fcb'[q][c] = fcb[q][c] \/ fcb'[q][c] = -1
  BY <1>1, <1>4
<1>7. FileTypeOK'
  BY <1>1, <1>3, <1>5, <1>6 DEF FileTypeOK, StreamType
<1>8. StreamsStayMatched'
  <2>. SUFFICES ASSUME NEW k \in Stream, InUse(k)'
                PROVE  fs'[k].inode = dir'[fs'[k].entry].inode
    BY DEF StreamsStayMatched
  <2>1. fs'[k].used \/ \E q \in Procs, c \in Fd : fcb'[q][c] = k
    BY DEF InUse
  <2>2. k # -1
    BY RangesAreNat
  <2>3. InUse(k)
    BY <1>5, <1>6, <2>1, <2>2 DEF InUse
  <2>4. fs[k].inode = dir[fs[k].entry].inode
    BY <1>3, <2>3 DEF StreamsStayMatched
  <2>5. QED
    BY <1>1, <1>5, <2>4
<1>9. QED
  BY <1>1, <1>7, <1>8, SameEntries, FilePartsNext

(* A son inherits descriptors, an exit leaves them as they are.            *)
LEMMA ProcessKeeps ==
  ASSUME FileIInv, \/ \E p, q \in Procs : Fork(p, q)
                   \/ \E p \in Procs : Exit(p)
  PROVE  FileIInv'
<1>1. UNCHANGED <<dir, inodes, imap, dmap, fs, fault>>
  BY DEF Fork, Exit, diskVars
<1>2. FileTypeOK /\ StreamsStayMatched
  BY FileParts
<1>3. fcb \in [Procs -> [Fd -> Stream \cup {-1}]] /\ live \subseteq Procs
  BY <1>2 DEF FileTypeOK
<1>4. /\ fcb' \in [Procs -> [Fd -> Stream \cup {-1}]] /\ live' \subseteq Procs
      /\ \A q \in Procs, c \in Fd : \E r \in Procs : fcb'[q][c] = fcb[r][c]
  <2>1. CASE \E p, q \in Procs : Fork(p, q)
    BY <1>3, <2>1 DEF Fork
  <2>2. CASE \E p \in Procs : Exit(p)
    BY <1>3, <2>2 DEF Exit
  <2>3. QED
    BY <2>1, <2>2
<1>5. FileTypeOK'
  BY <1>1, <1>2, <1>4 DEF FileTypeOK
<1>6. StreamsStayMatched'
  <2>. SUFFICES ASSUME NEW k \in Stream, InUse(k)'
                PROVE  fs'[k].inode = dir'[fs'[k].entry].inode
    BY DEF StreamsStayMatched
  <2>1. fs[k].used \/ \E q \in Procs, c \in Fd : fcb'[q][c] = k
    BY <1>1 DEF InUse
  <2>2. ASSUME NEW q \in Procs, NEW c \in Fd, fcb'[q][c] = k PROVE \E r \in Procs : fcb[r][c] = k
    <3>1. PICK r \in Procs : fcb'[q][c] = fcb[r][c]
      BY <1>4, <2>2
    <3>2. QED
      BY <2>2, <3>1
  <2>3. fs[k].used \/ \E r \in Procs, c \in Fd : fcb[r][c] = k
    BY <2>1, <2>2
  <2>4. InUse(k)
    BY <2>3 DEF InUse
  <2>5. QED
    BY <1>1, <1>2, <2>4 DEF StreamsStayMatched
<1>7. QED
  BY <1>1, <1>5, <1>6, SameEntries, FilePartsNext

LEMMA StutterKeeps == FileIInv /\ UNCHANGED vars => FileIInv'
<1>. SUFFICES ASSUME FileIInv, UNCHANGED vars PROVE FileIInv'
  OBVIOUS
<1>1. UNCHANGED <<dir, inodes, imap, dmap, fs, fcb, live, fault>>
  BY DEF vars, diskVars
<1>2. FileTypeOK /\ StreamsStayMatched
  BY FileParts
<1>3. FileTypeOK'
  BY <1>1, <1>2 DEF FileTypeOK
<1>4. StreamsStayMatched'
  BY <1>1, <1>2 DEF StreamsStayMatched, InUse
<1>5. QED
  BY <1>1, <1>3, <1>4, SameEntries, FilePartsNext

LEMMA OpenKeeps ==
  ASSUME FileIInv, NEW p \in Procs, NEW name \in Names, NEW flags \in {FS_RW, FS_RWC, FS_RWD},
         Open(p, name, flags)
  PROVE  FileIInv'
<1>1. FileTypeOK
  BY FileParts
<1>2. CASE OpenFound(p, name, flags)
  <2>. DEFINE e == Named(name)
              size == IF flags = FS_RWD THEN 0 ELSE dir[e].size
  <2>1. /\ CanOpen(name) /\ UNCHANGED <<dir, inodes, imap, dmap, live>>
        /\ fs' = [fs EXCEPT ![FreeStream] = Opened(e, dir[e].inode, size)]
        /\ Attach(p, FreeStream)
    BY <1>2 DEF OpenFound, diskVars
  <2>2. e \in Entry
    BY <1>1, <2>1, Searches DEF CanOpen
  <2>3. size \in 0 .. MAXOFF /\ live' \subseteq Procs
    BY <1>1, <2>1, <2>2, ZeroIsOffset DEF FileTypeOK
  <2>. HIDE DEF size
  <2>4. QED
    BY <2>1, <2>3, OpenFoundKeeps
<1>3. CASE OpenFails(p, name)
  <2>1. UNCHANGED vars
    BY <1>3 DEF OpenFails
  <2>2. QED
    BY <2>1, StutterKeeps
<1>4. CASE OpenCannotCreate(p, name, flags)
  <2>1. UNCHANGED <<dir, inodes, imap, dmap, fs, fcb, live>> /\ fault' \in {"dir", "fs", fault}
    BY <1>4 DEF OpenCannotCreate, diskVars
  <2>2. FileTypeOK'
    BY <1>1, <2>1 DEF FileTypeOK
  <2>3. StreamsStayMatched'
    BY <2>1, FileParts DEF StreamsStayMatched, InUse
  <2>4. QED
    BY <2>1, <2>2, <2>3, SameEntries, FilePartsNext
<1>5. QED
  BY <1>2, <1>3, <1>4, OpenCreatesKeeps DEF Open

LEMMA ExecKeeps ==
  ASSUME FileIInv, NEW p \in Procs, NEW name \in Names, Exec(p, name)
  PROVE  FileIInv'
<1>1. FileTypeOK
  BY FileParts
<1>2. /\ CanOpen(name) /\ UNCHANGED <<dir, inodes, imap, dmap, live, fcb, fault>>
      /\ fs' = [fs EXCEPT ![FreeStream] = Opened(Named(name), dir[Named(name)].inode, dir[Named(name)].size)]
  BY DEF Exec, diskVars
<1>3. Named(name) \in Entry
  BY <1>1, <1>2, Searches DEF CanOpen
<1>4. dir[Named(name)].size \in 0 .. MAXOFF /\ live' \subseteq Procs
  BY <1>1, <1>2, <1>3 DEF FileTypeOK
<1>5. QED
  BY <1>2, <1>4, OpenFoundKeeps

LEMMA LengthsAreNat == \A n \in Lens \cup Seeks : n \in Nat
BY FileAssumption

LEMMA FileNextInv == FileIInv /\ [Next]_vars => FileIInv'
<1>. SUFFICES ASSUME FileIInv, [Next]_vars PROVE FileIInv'
  OBVIOUS
<1>1. CASE Stopped
  BY <1>1, StutterKeeps DEF Stopped
<1>2. QED
  BY <1>1, OpenKeeps, ExecKeeps, ReadKeeps, WriteKeeps, LseekKeeps, CloseKeeps, ProcessKeeps,
     StutterKeeps, LengthsAreNat DEF Next

-----------------------------------------------------------------------------
(* Blocks, while the kernel runs.                                          *)

(* The blocks of a file that fits.                                         *)
LEMMA BlocksOfSize ==
  ASSUME NEW size \in Nat
  PROVE  /\ BLOCKS(size) \in Int
         /\ BLOCKS(size) <= SC_DATA => 0 .. BLOCKS(size) - 1 \subseteq Data
         /\ \A b \in Block : b < BLOCKS(size) => b \in 0 .. BLOCKS(size) - 1
<1>1. BLOCK_SIZE \in Nat \ {0} /\ SC_DATA \in Nat
  BY FileAssumption
<1>2. BLOCKS(size) \in Int
  <2>1. \A x \in Nat : x \div BLOCK_SIZE \in Int
    BY <1>1
  <2>2. size + BLOCK_SIZE - 1 \in Nat
    BY <1>1
  <2>3. QED
    BY <2>1, <2>2 DEF BLOCKS
<1>3. BLOCKS(size) <= SC_DATA => 0 .. BLOCKS(size) - 1 \subseteq Data
  BY <1>1, <1>2 DEF Data
<1>4. \A b \in Nat, k \in Int : b < k => b \in 0 .. k - 1
  OBVIOUS
<1>5. QED
  BY <1>2, <1>3, <1>4, RangesAreNat

(* The disk as formatter.c and copy2myfs.c leave it, with one file.        *)
Fresh(nm, size) ==
  /\ dir    = [e \in Entry |-> IF e = 0 THEN [NewEntry(nm, 0) EXCEPT !.size = size]
                              ELSE NewEntry("", -1)]
  /\ inodes = [n \in Inode |-> [b \in Block |-> IF n # 0 THEN 0 ELSE IF b < BLOCKS(size) THEN b ELSE -1]]
  /\ imap = {0} /\ dmap = 0 .. BLOCKS(size) - 1
  /\ fs   = [i \in Stream |-> [Opened(0, 0, 0) EXCEPT !.used = FALSE]]
  /\ fcb  = [p \in Procs |-> [d \in Fd |-> -1]]
  /\ live \subseteq Procs /\ fault = "none"

LEMMA FreshDisk ==
  ASSUME NEW nm \in Names, NEW size \in 0 .. MAXOFF, BLOCKS(size) <= SC_DATA, Fresh(nm, size)
  PROVE  FileIInv /\ OwnBlocks
<1>1. 0 \in Entry /\ 0 \in Inode /\ 0 \in Data
  <2>1. NR_ENTRIES \in Nat \ {0} /\ SC_INODE \in Nat \ {0} /\ SC_DATA \in Nat \ {0}
    BY FileAssumption
  <2>2. QED
    BY <2>1 DEF Entry, Inode, Data
<1>2. 0 .. BLOCKS(size) - 1 \subseteq Data /\ \A b \in Block : b < BLOCKS(size) => b \in 0 .. BLOCKS(size) - 1
  <2>1. size \in Nat
    OBVIOUS
  <2>2. QED
    BY <2>1, BlocksOfSize
<1>3. dir = [e \in Entry |-> IF e = 0 THEN [NewEntry(nm, 0) EXCEPT !.size = size] ELSE NewEntry("", -1)]
  BY DEF Fresh
<1>4. /\ inodes = [n \in Inode |-> [b \in Block |-> IF n # 0 THEN 0 ELSE IF b < BLOCKS(size) THEN b ELSE -1]]
      /\ dmap = 0 .. BLOCKS(size) - 1
  BY DEF Fresh
<1>5. fs = [i \in Stream |-> [Opened(0, 0, 0) EXCEPT !.used = FALSE]]
  BY DEF Fresh
<1>6. imap = {0} /\ fcb = [p \in Procs |-> [d \in Fd |-> -1]] /\ live \subseteq Procs /\ fault = "none"
  BY DEF Fresh
<1>7. /\ dir \in [Entry -> [name : Names \cup {""}, size : 0 .. MAXOFF, inode : Inode \cup {-1}]]
      /\ dir[0].inode = 0
      /\ \A e \in Entry : e # 0 => dir[e].inode = -1 /\ dir[e].name = ""
  <2>1. NewEntry("", -1) \in [name : Names \cup {""}, size : 0 .. MAXOFF, inode : Inode \cup {-1}]
    BY ZeroIsOffset DEF NewEntry
  <2>2. [NewEntry(nm, 0) EXCEPT !.size = size] \in [name : Names \cup {""}, size : 0 .. MAXOFF, inode : Inode \cup {-1}]
    BY <1>1 DEF NewEntry
  <2>3. dir[0] = [NewEntry(nm, 0) EXCEPT !.size = size]
    BY <1>1, <1>3
  <2>4. \A e \in Entry : e # 0 => dir[e] = NewEntry("", -1)
    BY <1>3
  <2>5. NewEntry("", -1).inode = -1 /\ NewEntry("", -1).name = "" /\ [NewEntry(nm, 0) EXCEPT !.size = size].inode = 0
    BY DEF NewEntry
  <2>6. QED
    BY <1>3, <2>1, <2>2, <2>3, <2>4, <2>5
<1>8. \A b \in Block : b < BLOCKS(size) => b \in Data
  BY <1>2
<1>9. inodes \in [Inode -> [Block -> Data \cup {-1}]]
  BY <1>1, <1>4, <1>8
<1>10. /\ fs \in [Stream -> StreamType]
       /\ \A i \in Stream : fs[i].entry = 0 /\ fs[i].inode = 0 /\ ~fs[i].used
  BY <1>1, <1>5, ZeroIsOffset DEF Opened, StreamType
<1>11. FileTypeOK
  <2>1. imap \subseteq Inode /\ dmap \subseteq Data
    BY <1>1, <1>2, <1>4, <1>6
  <2>2. fcb \in [Procs -> [Fd -> Stream \cup {-1}]]
    BY <1>6
  <2>3. QED
    BY <1>6, <1>7, <1>9, <1>10, <2>1, <2>2 DEF FileTypeOK, StreamType
<1>12. StreamsStayMatched /\ FreeEntriesNameless
  BY <1>1, <1>7, <1>10, RangesAreNat DEF StreamsStayMatched, FreeEntriesNameless
<1>13. \A e \in Entry : dir[e].inode # -1 => e = 0 /\ dir[e].inode = 0
  BY <1>7
<1>14. FileIInv
  BY <1>6, <1>10, <1>11, <1>12, <1>13 DEF FileIInv, FileInv, StreamsMatchDirectory
<1>15. \A b \in Block : inodes[0][b] # -1 => inodes[0][b] = b /\ b \in dmap
  BY <1>1, <1>2, <1>4
<1>16. OwnBlocks
  BY <1>13, <1>15 DEF OwnBlocks, Files
<1>17. QED
  BY <1>14, <1>16

LEMMA FileInitInv == Init => FileIInv /\ OwnBlocks
<1>. SUFFICES ASSUME Init PROVE FileIInv /\ OwnBlocks
  OBVIOUS
<1>. DEFINE nm == CHOOSE n \in Names : TRUE
<1>1. NR_BLOCKS \in Nat /\ BLOCK_SIZE \in Nat /\ MAXOFF \in Nat
  BY FileAssumption
<1>2. NR_BLOCKS * BLOCK_SIZE \in Int /\ MAXOFF \in Nat
  BY <1>1
<1>3. nm \in Names /\ (CHOOSE p \in Procs : TRUE) \in Procs
  BY FileAssumption
<1>4. \E size \in 0 .. NR_BLOCKS * BLOCK_SIZE :
        size <= MAXOFF /\ BLOCKS(size) <= SC_DATA /\ Fresh(nm, size)
  BY <1>3 DEF Init, Fresh
<1>. HIDE DEF nm
<1>5. ASSUME NEW bound \in Int, \E size \in 0 .. bound : size <= MAXOFF /\ BLOCKS(size) <= SC_DATA /\ Fresh(nm, size)
      PROVE  FileIInv /\ OwnBlocks
  <2>1. PICK size \in 0 .. bound : size <= MAXOFF /\ BLOCKS(size) <= SC_DATA /\ Fresh(nm, size)
    BY <1>5
  <2>2. size \in 0 .. MAXOFF
    BY <1>2, <2>1
  <2>3. QED
    BY <1>3, <2>1, <2>2, FreshDisk
<1>6. QED
  BY <1>2, <1>4, <1>5

(* fs_write_kr: what a file gets was not marked, so it was nobody's.       *)
LEMMA WriteOwnBlocks ==
  ASSUME FileIInv, OwnBlocks, NEW e0 \in Files, NEW m,
         \E G : Gives(Block, dmap, inodes[dir[e0].inode], G, m),
         inodes' = [inodes EXCEPT ![dir[e0].inode] = m.blocks], dmap' = m.marked,
         \A g \in Entry : dir'[g].inode = dir[g].inode
  PROVE  OwnBlocks'
<1>. DEFINE n == dir[e0].inode
            B == inodes[n]
<1>1. /\ FileTypeOK
      /\ \A e \in Entry : dir[e].inode # -1 => \A g \in Entry : dir[g].inode = dir[e].inode => g = e
  BY FileParts
<1>2. n \in Inode /\ n # -1 /\ e0 \in Entry
  BY <1>1 DEF Files, FileTypeOK
<1>3. Files' = Files
  BY DEF Files
<1>4. \A g \in Files : inodes'[dir'[g].inode] = IF g = e0 THEN m.blocks ELSE inodes[dir[g].inode]
  <2>. SUFFICES ASSUME NEW g \in Files
                PROVE  inodes'[dir'[g].inode] = IF g = e0 THEN m.blocks ELSE inodes[dir[g].inode]
    OBVIOUS
  <2>1. g \in Entry /\ dir[g].inode \in Inode /\ dir'[g].inode = dir[g].inode
    BY <1>1 DEF Files, FileTypeOK
  <2>2. g # e0 => dir[g].inode # n
    BY <1>1, <1>2, <2>1
  <2>3. inodes \in [Inode -> [Block -> Data \cup {-1}]]
    BY <1>1 DEF FileTypeOK
  <2>4. QED
    BY <1>2, <2>1, <2>2, <2>3
<1>5. \A b \in Block : B[b] \in dmap \cup {-1}
  BY DEF OwnBlocks
<1>6. /\ dmap \subseteq m.marked
      /\ \A b \in Block : m.blocks[b] = B[b] \/ m.blocks[b] = -1 \/ m.blocks[b] \in m.marked \ dmap
      /\ \A a, b \in Block : m.blocks[a] \notin dmap \cup {-1} /\ m.blocks[a] = m.blocks[b] => a = b
  BY <1>5 DEF Gives
<1>. HIDE DEF n, B
<1>7. \A b \in Block : m.blocks[b] \in dmap => m.blocks[b] = B[b] \/ m.blocks[b] = -1
  BY <1>6
<1>8. ASSUME NEW e \in Files, NEW g \in Files, NEW a \in Block, NEW b \in Block,
             inodes'[dir'[e].inode][a] # -1
      PROVE  /\ inodes'[dir'[e].inode][a] \in dmap'
             /\ inodes'[dir'[e].inode][a] = inodes'[dir'[g].inode][b] => e = g /\ a = b
  <2>1. CASE e = e0 /\ g = e0
    <3>1. B[a] # -1 /\ B[a] = B[b] => a = b
      BY DEF OwnBlocks, B, n
    <3>2. m.blocks[a] # -1
      BY <1>4, <1>8, <2>1
    <3>3. m.blocks[a] \in m.marked /\ (m.blocks[a] = m.blocks[b] => a = b)
      BY <1>5, <1>6, <1>7, <3>1, <3>2
    <3>4. QED
      BY <1>4, <2>1, <3>3
  <2>2. CASE e = e0 /\ g # e0
    <3>1. inodes[dir[g].inode][b] \in dmap \cup {-1}
      BY DEF OwnBlocks
    <3>2. B[a] # -1 => B[a] # inodes[dir[g].inode][b]
      BY <2>2 DEF OwnBlocks, B, n
    <3>3. QED
      BY <1>4, <1>5, <1>6, <1>7, <1>8, <2>2, <3>1, <3>2
  <2>3. CASE e # e0 /\ g = e0
    <3>1. inodes[dir[e].inode][a] \in dmap
      BY <1>4, <1>8, <2>3 DEF OwnBlocks
    <3>2. inodes[dir[e].inode][a] # B[b]
      BY <1>4, <1>8, <2>3 DEF OwnBlocks, B, n
    <3>3. QED
      BY <1>4, <1>6, <1>7, <1>8, <2>3, <3>1, <3>2
  <2>4. CASE e # e0 /\ g # e0
    <3>1. inodes[dir[e].inode][a] \in dmap
          /\ (inodes[dir[e].inode][a] = inodes[dir[g].inode][b] => e = g /\ a = b)
      BY <1>4, <1>8, <2>4 DEF OwnBlocks
    <3>2. QED
      BY <1>4, <1>6, <2>4, <3>1
  <2>5. QED
    BY <2>1, <2>2, <2>3, <2>4
<1>9. QED
  BY <1>3, <1>8 DEF OwnBlocks

(* No other call changes the blocks of a file: the inode of a new file     *)
(* names none, and nobody had that inode.                                  *)
LEMMA CreateOwnBlocks ==
  ASSUME FileIInv, OwnBlocks, NEW p \in Procs, NEW name \in Names, NEW flags, OpenCreates(p, name, flags)
  PROVE  OwnBlocks'
<1>. DEFINE e0 == FreeEntry
            n == INodeAlloc
<1>1. /\ FileTypeOK
      /\ \A e \in Entry : dir[e].inode # -1 => dir[e].inode \in imap
  BY FileParts
<1>2. e0 \in Entry /\ dir[e0].inode = -1 /\ n \in Inode /\ n \notin imap /\ n # -1
  BY <1>1, Searches DEF OpenCreates
<1>3. /\ dir' = [dir EXCEPT ![e0] = NewEntry(name, n)]
      /\ inodes' = [inodes EXCEPT ![n] = [b \in Block |-> -1]]
      /\ dmap' = dmap
  BY DEF OpenCreates
<1>. HIDE DEF e0, n
<1>4. dir'[e0].inode = n /\ \A g \in Entry : g # e0 => dir'[g] = dir[g]
  BY <1>1, <1>2, <1>3 DEF FileTypeOK, NewEntry
<1>5. \A b \in Block : inodes'[n][b] = -1
  BY <1>1, <1>2, <1>3 DEF FileTypeOK
<1>6. ASSUME NEW e \in Files', e # e0
      PROVE  e \in Files /\ inodes'[dir'[e].inode] = inodes[dir[e].inode]
  <2>1. e \in Entry /\ dir'[e].inode = dir[e].inode /\ dir[e].inode # -1
    BY <1>4, <1>6 DEF Files
  <2>2. dir[e].inode # n
    BY <1>1, <1>2, <2>1
  <2>3. inodes \in [Inode -> [Block -> Data \cup {-1}]]
    BY <1>1 DEF FileTypeOK
  <2>4. dir[e].inode \in Inode
    BY <1>1, <2>1 DEF FileTypeOK
  <2>5. QED
    BY <1>3, <2>1, <2>2, <2>3, <2>4 DEF Files
<1>7. QED
  BY <1>3, <1>4, <1>5, <1>6 DEF OwnBlocks

LEMMA SameBlocks ==
  ASSUME OwnBlocks, UNCHANGED <<dir, inodes, dmap>>
  PROVE  OwnBlocks'
BY DEF OwnBlocks, Files

LEMMA WriteCallOwnBlocks ==
  ASSUME FileIInv, OwnBlocks, NEW p \in Procs, NEW d \in Fd, NEW len \in Lens, Write(p, d, len)
  PROVE  OwnBlocks'
<1>. DEFINE i == Of(p, d)
            f == fs[i]
            w == WritePlan(f, len)
<1>1. Holds(p, d) /\ w.end <= MAXOFF
  BY DEF Write
<1>2. i \in Stream /\ f \in StreamType /\ len \in Nat /\ f.inode = dir[f.entry].inode
  BY <1>1, HeldStream, FileAssumption
<1>3. FileTypeOK
  BY FileParts
<1>4. /\ w.size \in 0 .. MAXOFF
      /\ \E G : Gives(Block, dmap, inodes[f.inode], G, w.m2)
  BY <1>1, <1>2, <1>3, WritePlanParts
<1>5. CASE UNCHANGED diskVars
  BY <1>5, SameBlocks DEF diskVars
<1>6. CASE /\ inodes' = [inodes EXCEPT ![f.inode] = w.m2.blocks]
           /\ dmap'   = w.m2.marked
           /\ dir'    = [dir EXCEPT ![f.entry].size = w.size]
           /\ UNCHANGED imap
  <2>. HIDE DEF w, f, i
  <2>1. f.inode \in Inode /\ f.entry \in Entry
    BY <1>2 DEF StreamType
  <2>2. f.entry \in Files
    BY <1>2, <2>1, RangesAreNat DEF Files
  <2>3. \A g \in Entry : dir'[g].inode = dir[g].inode
    BY <1>4, <1>6, <2>1, WriteTypes
  <2>4. QED
    BY <1>2, <1>4, <1>6, <2>2, <2>3, WriteOwnBlocks
<1>7. QED
  BY <1>5, <1>6 DEF Write

LEMMA OpenOwnBlocks ==
  ASSUME FileIInv, OwnBlocks, NEW p \in Procs, NEW name \in Names, NEW flags \in {FS_RW, FS_RWC, FS_RWD},
         Open(p, name, flags)
  PROVE  OwnBlocks'
<1>1. OpenCreates(p, name, flags) \/ UNCHANGED <<dir, inodes, dmap>>
  BY DEF Open, OpenFound, OpenFails, OpenCannotCreate, vars, diskVars
<1>2. QED
  BY <1>1, CreateOwnBlocks, SameBlocks

LEMMA OwnBlocksNext == FileIInv /\ OwnBlocks /\ [Next]_vars => OwnBlocks'
<1>. SUFFICES ASSUME FileIInv, OwnBlocks, [Next]_vars PROVE OwnBlocks'
  OBVIOUS
<1>1. ASSUME NEW p \in Procs, NEW name \in Names, Exec(p, name) PROVE OwnBlocks'
  BY <1>1, SameBlocks DEF Exec, diskVars
<1>2. ASSUME NEW p \in Procs, NEW d \in Fd,
             \/ \E len \in Lens : Read(p, d, len)
             \/ \E offset \in Seeks, whence \in 0 .. 2 : Lseek(p, d, offset, whence)
             \/ Close(p, d)
      PROVE  OwnBlocks'
  <2>1. UNCHANGED <<dir, inodes, dmap>>
    BY <1>2 DEF Read, Lseek, Close, diskVars
  <2>2. QED
    BY <2>1, SameBlocks
<1>3. ASSUME NEW p \in Procs, Exit(p) \/ \E q \in Procs : Fork(p, q) PROVE OwnBlocks'
  BY <1>3, SameBlocks DEF Exit, Fork, diskVars
<1>4. CASE Stopped \/ UNCHANGED vars
  BY <1>4, SameBlocks DEF Stopped, vars, diskVars
<1>5. QED
  BY <1>1, <1>2, <1>3, <1>4, OpenOwnBlocks, WriteCallOwnBlocks DEF Next

(* For every number of processes, entries, inodes, blocks and streams, and *)
(* whatever is opened, created, read, written, sought, closed, inherited   *)
(* and executed (file.c), every index on the disk and in fs stays within   *)
(* its table, a file has an inode of its own, and a stream that is open    *)
(* works on the inode of its directory entry.                              *)
THEOREM FilesMatchDirectory == Spec => []FileInv
<1>1. FileIInv => FileInv
  BY DEF FileIInv
<1>2. QED
  BY <1>1, FileInitInv, FileNextInv, PTL DEF Spec

(* dataAlloc and fs_write_kr give no data block to two places, and mark    *)
(* every block they give, though they allocate blocks a file has already,  *)
(* run out of blocks and go on, and write through stale streams.           *)
THEOREM BlocksArePrivate == Spec => []BlocksPrivate
<1>1. OwnBlocks => BlocksPrivate
  BY DEF OwnBlocks, BlocksPrivate, InFile
<1>2. QED
  BY <1>1, FileInitInv, FileNextInv, OwnBlocksNext, PTL DEF Spec

-----------------------------------------------------------------------------
(* Descriptors.                                                            *)

KeepsFile(i) == fs'[i].used /\ fs'[i].entry = fs[i].entry

(* A stream is opened where none is in use.                                *)
LEMMA OpenLeavesOthers ==
  ASSUME FileTypeOK, NEW p \in Procs, NEW name \in Names, NEW flags,
         Open(p, name, flags) \/ Exec(p, name), NEW i \in Stream, fs[i].used
  PROVE  KeepsFile(i)
<1>1. \/ fs' = fs
      \/ FreeStream # -1 /\ \E v : fs' = [fs EXCEPT ![FreeStream] = v]
  <2>1. CASE OpenFound(p, name, flags) \/ Exec(p, name)
    BY <2>1 DEF OpenFound, Exec, CanOpen
  <2>2. CASE OpenCreates(p, name, flags)
    BY <2>2 DEF OpenCreates
  <2>3. CASE OpenFails(p, name) \/ OpenCannotCreate(p, name, flags)
    BY <2>3 DEF OpenFails, OpenCannotCreate, vars
  <2>4. QED
    BY <2>1, <2>2, <2>3 DEF Open
<1>2. FreeStream # -1 => i # FreeStream
  BY Searches
<1>3. fs'[i] = fs[i]
  <2>1. fs \in [Stream -> StreamType]
    BY DEF FileTypeOK, StreamType
  <2>. HIDE DEF StreamType
  <2>2. QED
    BY <1>1, <1>2, <2>1
<1>4. QED
  BY <1>3 DEF KeepsFile

LEMMA CallKeepsFile ==
  ASSUME FileIInv, NEW p \in Procs, NEW d \in Fd,
         \/ \E len \in Nat : Read(p, d, len) \/ Write(p, d, len)
         \/ \E offset \in Nat, whence \in 0 .. 2 : Lseek(p, d, offset, whence),
         NEW i \in Stream, fs[i].used
  PROVE  KeepsFile(i)
<1>1. fs \in [Stream -> StreamType] /\ Of(p, d) \in Stream
  <2>1. Holds(p, d)
    BY DEF Read, Write, Lseek
  <2>2. FileTypeOK
    BY FileParts
  <2>3. QED
    BY <2>1, <2>2, HeldStream DEF FileTypeOK, StreamType
<1>2. \/ fs' = fs
      \/ \E o : fs' = [fs EXCEPT ![Of(p, d)].offset = o]
      \/ \E o, z : fs' = [fs EXCEPT ![Of(p, d)].file_size = z, ![Of(p, d)].offset = o]
  <2>1. ASSUME NEW len \in Nat, Read(p, d, len)
        PROVE  \E o : fs' = [fs EXCEPT ![Of(p, d)].offset = o]
    BY <1>1, <2>1 DEF Read
  <2>2. ASSUME NEW len \in Nat, Write(p, d, len)
        PROVE  \/ fs' = fs
               \/ \E o, z : fs' = [fs EXCEPT ![Of(p, d)].file_size = z, ![Of(p, d)].offset = o]
    BY <2>2 DEF Write
  <2>3. ASSUME NEW offset \in Nat, NEW whence \in 0 .. 2, Lseek(p, d, offset, whence)
        PROVE  \E o : fs' = [fs EXCEPT ![Of(p, d)].offset = o]
    BY <2>3, Zenon DEF Lseek
  <2>4. QED
    BY <2>1, <2>2, <2>3
<1>3. QED
  <2>1. ASSUME NEW o, fs' = [fs EXCEPT ![Of(p, d)].offset = o] PROVE KeepsFile(i)
    BY <1>1, <2>1 DEF StreamType, KeepsFile
  <2>2. ASSUME NEW o, NEW z, fs' = [fs EXCEPT ![Of(p, d)].file_size = z, ![Of(p, d)].offset = o]
        PROVE  KeepsFile(i)
    BY <1>1, <2>2 DEF StreamType, KeepsFile
  <2>3. QED
    BY <1>2, <2>1, <2>2 DEF KeepsFile

(* The step of close that frees a stream is the one that detaches the      *)
(* descriptor it was called with.                                          *)
LEMMA CloseFreesOwn ==
  ASSUME FileIInv, NEW p \in Procs, NEW d \in Fd, Close(p, d),
         NEW h \in live \X Fd, NEW i \in Stream,
         Holders(i) = {h}, fs[i].used, fcb'[h[1]][h[2]] = i
  PROVE  KeepsFile(i)
<1>1. /\ fs \in [Stream -> StreamType] /\ fcb \in [Procs -> [Fd -> Stream \cup {-1}]]
      /\ Of(p, d) \in Stream /\ p \in live
  <2>1. Holds(p, d)
    BY DEF Close
  <2>2. FileTypeOK
    BY FileParts
  <2>3. QED
    BY <2>1, <2>2, HeldStream DEF FileTypeOK, StreamType, Holds, Runs
<1>2. fs' = [fs EXCEPT ![Of(p, d)].used = FALSE] /\ fcb' = [fcb EXCEPT ![p][d] = -1]
  BY DEF Close, Detached
<1>3. Of(p, d) # i
  <2>. SUFFICES ASSUME Of(p, d) = i PROVE FALSE
    OBVIOUS
  <2>1. <<p, d>> \in live \X Fd /\ fcb[<<p, d>>[1]][<<p, d>>[2]] = i
    BY <1>1 DEF Of
  <2>2. h = <<p, d>>
    BY <2>1 DEF Holders
  <2>3. fcb'[p][d] = -1
    BY <1>1, <1>2
  <2>4. QED
    BY <2>2, <2>3, RangesAreNat
<1>4. QED
  BY <1>1, <1>2, <1>3 DEF StreamType, KeepsFile

(* A program that has the only descriptor of a stream keeps the file it    *)
(* opened until it closes it, whatever else processes do: in particular    *)
(* fs_open_kr reuses no stream that is in use.                             *)
THEOREM SoleDescriptorKeeps == Spec => SoleDescriptorKeepsFile
<1>. DEFINE Keeps(h) ==
       LET i == fcb[h[1]][h[2]] IN
       (i # -1 /\ Holders(i) = {h} /\ fs[i].used /\ h[1] \in live' /\ fcb'[h[1]][h[2]] = i)
         => fs'[i].used /\ fs'[i].entry = fs[i].entry
<1>1. ASSUME FileIInv, [Next]_vars PROVE [\A h \in live \X Fd : Keeps(h)]_vars
  <2>. SUFFICES ASSUME Next, NEW h \in live \X Fd, NEW i, i = fcb[h[1]][h[2]],
                       i # -1, Holders(i) = {h}, fs[i].used, fcb'[h[1]][h[2]] = i
                PROVE  KeepsFile(i)
    BY <1>1 DEF KeepsFile
  <2>1. FileTypeOK
    BY <1>1, FileParts
  <2>2. i \in Stream
    <3>1. fcb \in [Procs -> [Fd -> Stream \cup {-1}]] /\ h[1] \in Procs /\ h[2] \in Fd
      BY <2>1 DEF FileTypeOK
    <3>2. QED
      BY <3>1
  <2>3. ASSUME NEW p \in Procs, NEW name \in Names,
               Exec(p, name) \/ \E flags \in {FS_RW, FS_RWC, FS_RWD} : Open(p, name, flags)
        PROVE  KeepsFile(i)
    BY <2>1, <2>2, <2>3, OpenLeavesOthers
  <2>4. ASSUME NEW p \in Procs, NEW d \in Fd,
               \/ \E len \in Lens : Read(p, d, len) \/ Write(p, d, len)
               \/ \E offset \in Seeks, whence \in 0 .. 2 : Lseek(p, d, offset, whence)
        PROVE  KeepsFile(i)
    <3>1. \/ \E len \in Nat : Read(p, d, len) \/ Write(p, d, len)
          \/ \E offset \in Nat, whence \in 0 .. 2 : Lseek(p, d, offset, whence)
      BY <2>4, LengthsAreNat
    <3>2. QED
      BY <1>1, <2>2, <3>1, CallKeepsFile
  <2>5. ASSUME NEW p \in Procs, NEW d \in Fd, Close(p, d) PROVE KeepsFile(i)
    BY <1>1, <2>2, <2>5, CloseFreesOwn
  <2>6. ASSUME NEW p \in Procs, Exit(p) \/ \E q \in Procs : Fork(p, q) PROVE KeepsFile(i)
    BY <2>6 DEF Exit, Fork, KeepsFile
  <2>7. CASE Stopped
    BY <2>7 DEF Stopped, vars, KeepsFile
  <2>8. QED
    BY <2>3, <2>4, <2>5, <2>6, <2>7 DEF Next
<1>2. QED
  BY <1>1, FileInitInv, FileNextInv, PTL DEF Spec, SoleDescriptorKeepsFile

-----------------------------------------------------------------------------
(* The life of a disk: what copy2myfs, the kernel and any loss of power    *)
(* between two sectors leave.                                              *)

(* Streams, entries and inodes.                                            *)

(* Nothing is open while the kernel does not run.                          *)
PowerInv ==
  /\ phase \in {"blank", "off", "on"}
  /\ phase # "on" => \A i \in Stream : ~InUse(i)

ToolsFileInv == FileIInv /\ PowerInv

EntryType == [name : Names \cup {""}, size : 0 .. MAXOFF, inode : Inode \cup {-1}]

LEMMA ZeroIndex == 0 \in Entry /\ 0 \in Inode
<1>1. NR_ENTRIES \in Nat \ {0} /\ SC_INODE \in Nat \ {0}
  BY FileAssumption
<1>2. QED
  BY <1>1 DEF Entry, Inode

(* The memory of the kernel is gone with the power.                        *)
LEMMA PowerlessStreams ==
  ASSUME Powerless
  PROVE  /\ fs' \in [Stream -> StreamType] /\ fcb' \in [Procs -> [Fd -> Stream \cup {-1}]]
         /\ live' \subseteq Procs
         /\ \A i \in Stream : ~InUse(i)'
<1>1. [Opened(0, 0, 0) EXCEPT !.used = FALSE] \in StreamType
  BY ZeroIndex, ZeroIsOffset DEF Opened, StreamType
<1>2. [Opened(0, 0, 0) EXCEPT !.used = FALSE].used = FALSE
  BY DEF Opened
<1>3. fs' \in [Stream -> StreamType] /\ \A i \in Stream : fs'[i].used = FALSE
  BY <1>1, <1>2 DEF Powerless
<1>4. fcb' \in [Procs -> [Fd -> Stream \cup {-1}]] /\ \A p \in Procs, d \in Fd : fcb'[p][d] = -1
  BY DEF Powerless
<1>5. \A i \in Stream : i # -1
  BY RangesAreNat
<1>6. QED
  BY <1>3, <1>4, <1>5 DEF Powerless, InUse

(* A step that only switches the power on or off.                          *)
LEMMA PowerKeeps ==
  ASSUME FileIInv, UNCHANGED diskVars, fault' = fault, live' \subseteq Procs,
         Powerless \/ UNCHANGED <<fs, fcb>>
  PROVE  FileIInv'
<1>1. FileTypeOK /\ StreamsStayMatched
  BY FileParts
<1>2. UNCHANGED <<dir, inodes, imap, dmap>>
  BY DEF diskVars
<1>3. FileTypeOK'
  <2>1. fs' \in [Stream -> StreamType] /\ fcb' \in [Procs -> [Fd -> Stream \cup {-1}]]
    BY <1>1, PowerlessStreams DEF FileTypeOK, StreamType
  <2>2. QED
    BY <1>1, <1>2, <2>1 DEF FileTypeOK, StreamType
<1>4. StreamsStayMatched'
  BY <1>1, <1>2, PowerlessStreams DEF StreamsStayMatched, InUse
<1>5. QED
  BY <1>2, <1>3, <1>4, SameEntries, FilePartsNext

(* One entry of the directory gets a new name and an inode that was free;  *)
(* nothing is open before and after.                                       *)
LEMMA NewFileKeeps ==
  ASSUME FileIInv, NEW e \in Entry, NEW n \in Inode, n \notin imap, n # -1,
         NEW v \in EntryType, v.inode = n,
         dir' = [dir EXCEPT ![e] = v], imap' = imap \cup {n},
         inodes' \in [Inode -> [Block -> Data \cup {-1}]], dmap' \subseteq Data,
         fs' \in [Stream -> StreamType], fcb' \in [Procs -> [Fd -> Stream \cup {-1}]],
         live' \subseteq Procs, fault' = fault, \A i \in Stream : ~InUse(i)'
  PROVE  FileIInv'
<1>1. /\ FileTypeOK /\ FreeEntriesNameless
      /\ \A x \in Entry : dir[x].inode # -1 =>
           /\ dir[x].inode \in imap
           /\ \A g \in Entry : dir[g].inode = dir[x].inode => g = x
  BY FileParts
<1>2. dir \in [Entry -> EntryType]
  BY <1>1 DEF FileTypeOK, EntryType
<1>3. dir' \in [Entry -> EntryType] /\ dir'[e] = v /\ \A g \in Entry : g # e => dir'[g] = dir[g]
  BY <1>2
<1>4. FileTypeOK'
  BY <1>1, <1>3 DEF FileTypeOK, EntryType, StreamType
<1>5. FreeEntriesNameless'
  BY <1>1, <1>3 DEF FreeEntriesNameless
<1>6. ASSUME NEW x \in Entry, dir'[x].inode # -1
      PROVE  /\ dir'[x].inode \in imap'
             /\ \A g \in Entry : dir'[g].inode = dir'[x].inode => g = x
  BY <1>1, <1>3, <1>6
<1>7. StreamsStayMatched'
  BY DEF StreamsStayMatched
<1>8. QED
  BY <1>4, <1>5, <1>6, <1>7, FilePartsNext

(* Nothing but inodes nobody has, the bitmap and memory changes.           *)
LEMMA SameDirKeeps ==
  ASSUME FileIInv, dir' = dir, imap \subseteq imap', imap' \subseteq Inode,
         inodes' \in [Inode -> [Block -> Data \cup {-1}]], dmap' \subseteq Data,
         fs' \in [Stream -> StreamType], fcb' \in [Procs -> [Fd -> Stream \cup {-1}]],
         live' \subseteq Procs, fault' = fault, \A i \in Stream : ~InUse(i)'
  PROVE  FileIInv'
<1>1. /\ FileTypeOK /\ FreeEntriesNameless
      /\ \A x \in Entry : dir[x].inode # -1 =>
           /\ dir[x].inode \in imap
           /\ \A g \in Entry : dir[g].inode = dir[x].inode => g = x
  BY FileParts
<1>2. FileTypeOK'
  BY <1>1 DEF FileTypeOK, StreamType
<1>3. StreamsStayMatched' /\ FreeEntriesNameless'
  BY <1>1 DEF StreamsStayMatched, FreeEntriesNameless
<1>4. QED
  BY <1>1, <1>2, <1>3, FilePartsNext

(* What copy2myfs gets: an entry, a free inode and a block of its own for  *)
(* every block of the file; and what it has saved of that.                 *)
BlocksOf(size) == 0 .. BLOCKS(size) - 1
Copied(name, size, saved, e, n, m) ==
  /\ e \in Entry /\ n \in Inode /\ n \notin imap /\ n # -1
  /\ dir[e].name = name \/ dir[e].inode = -1
  /\ Gives(BlocksOf(size), dmap, [b \in BlocksOf(size) |-> -1], BlocksOf(size), m)
  /\ \A b \in BlocksOf(size) : m.blocks[b] # -1
  /\ inodes' = IF saved < 1 THEN inodes
               ELSE [inodes EXCEPT ![n] = [b \in Block |-> IF b < BLOCKS(size) THEN m.blocks[b] ELSE -1]]
  /\ imap' = IF saved < 2 THEN imap ELSE imap \cup {n}
  /\ dmap' = IF saved < 2 THEN dmap ELSE m.marked
  /\ dir' = IF saved < 3 THEN dir ELSE [dir EXCEPT ![e] = [name |-> name, size |-> size, inode |-> n]]
  /\ image' = IF phase = "blank" THEN {k \in DOMAIN m.blocks : m.blocks[k] = k}
              ELSE image \ {m.blocks[b] : b \in BlocksOf(size)}
  /\ fault' = fault

CopyLoop(size) ==
  Allocated([marked |-> dmap, blocks |-> [b \in BlocksOf(size) |-> -1]], 0, BLOCKS(size) - 1)

LEMMA CopyParts ==
  ASSUME FileIInv, NEW name \in Names, NEW size \in 1 .. MAXOFF, NEW saved \in 0 .. 3,
         CopyFile(name, size, saved)
  PROVE  /\ phase' = "off" /\ fs' = fs /\ fcb' = fcb /\ live' = live
         /\ \/ UNCHANGED <<diskVars, image>> /\ fault' \in {"dir", "stray"}
            \/ Copied(name, size, saved, CopyEntry(name), INodeAlloc, CopyLoop(size))
<1>. DEFINE e == CopyEntry(name)
            n == INodeAlloc
            m == CopyLoop(size)
            got == {m.blocks[b] : b \in BlocksOf(size)}
<1>1. FileTypeOK
  BY FileParts
<1>2. size \in Nat /\ BLOCKS(size) - 1 \in Int /\ 0 \in Int
  <2>1. MAXOFF \in Nat
    BY FileAssumption
  <2>2. size \in Nat
    BY <2>1
  <2>3. BLOCKS(size) \in Int
    BY <2>2, BlocksOfSize
  <2>4. QED
    BY <2>2, <2>3
<1>3. Gives(BlocksOf(size), dmap, [b \in BlocksOf(size) |-> -1], BlocksOf(size), m)
  <2>. DEFINE dom == BlocksOf(size)
              B == [b \in dom |-> -1]
  <2>1. dmap \in SUBSET Data /\ B \in [dom -> Ref]
    BY <1>1 DEF FileTypeOK, Ref
  <2>. HIDE DEF B, dom
  <2>2. \A a, c \in Int : Gives(dom, dmap, B, a .. c, Allocated([marked |-> dmap, blocks |-> B], a, c))
    BY <2>1, AllocatedBlocks
  <2>3. Gives(dom, dmap, B, 0 .. BLOCKS(size) - 1, Allocated([marked |-> dmap, blocks |-> B], 0, BLOCKS(size) - 1))
    BY <1>2, <2>2, Zenon
  <2>4. QED
    BY <2>3 DEF dom, B, BlocksOf, CopyLoop
<1>4. e # -1 => e \in Entry /\ (dir[e].name = name \/ dir[e].inode = -1)
  <2>1. {x \in Entry : dir[x].name = name \/ dir[x].inode = -1} \in SUBSET Nat
    BY RangesAreNat
  <2>2. QED
    BY <2>1, FirstOrNoneIsMember DEF CopyEntry
<1>5. n # -1 => n \in Inode /\ n \notin imap
  BY <1>1, Searches
<1>6. SaveOrder.inode = 1 /\ SaveOrder.bitmap = 2 /\ SaveOrder.dir = 3
  BY DEF SaveOrder
<1>7. [NewEntry(name, n) EXCEPT !.size = size] = [name |-> name, size |-> size, inode |-> n]
  BY DEF NewEntry
<1>8. /\ phase' = "off" /\ fs' = fs /\ fcb' = fcb /\ live' = live
  BY DEF CopyFile
<1>9. CASE e = -1 \/ n = -1 \/ -1 \in got
  BY <1>8, <1>9 DEF CopyFile, CopyLoop, BlocksOf
<1>10. CASE ~(e = -1 \/ n = -1 \/ -1 \in got)
  <2>1. /\ inodes' = IF saved < SaveOrder.inode THEN inodes
                     ELSE [inodes EXCEPT ![n] = [b \in Block |-> IF b < BLOCKS(size) THEN m.blocks[b] ELSE -1]]
        /\ imap' = IF saved < SaveOrder.bitmap THEN imap ELSE Marked(imap, n)
        /\ dmap' = IF saved < SaveOrder.bitmap THEN dmap ELSE m.marked
        /\ dir'  = IF saved < SaveOrder.dir THEN dir
                   ELSE [dir EXCEPT ![e] = [NewEntry(name, n) EXCEPT !.size = size]]
        /\ image' = IF phase = "blank" THEN {k \in DOMAIN m.blocks : m.blocks[k] = k} ELSE image \ got
        /\ fault' = fault
    BY <1>10, Zenon DEF CopyFile, CopyLoop, BlocksOf
  <2>2. \A b \in BlocksOf(size) : m.blocks[b] # -1
    BY <1>10
  <2>3. Marked(imap, n) = imap \cup {n}
    BY <1>10 DEF Marked
  <2>. HIDE DEF e, n, m
  <2>4. Copied(name, size, saved, e, n, m)
    BY <1>3, <1>4, <1>5, <1>6, <1>7, <1>10, <2>1, <2>2, <2>3 DEF Copied
  <2>5. QED
    BY <1>8, <2>4 DEF e, n, m
<1>11. QED
  BY <1>9, <1>10

LEMMA CopyKeeps ==
  ASSUME FileIInv, \A i \in Stream : ~InUse(i),
         NEW name \in Names, NEW size \in 1 .. MAXOFF, NEW saved \in 0 .. 3, CopyFile(name, size, saved)
  PROVE  FileIInv' /\ phase' = "off" /\ \A i \in Stream : ~InUse(i)'
<1>1. FileTypeOK
  BY FileParts
<1>2. phase' = "off" /\ fs' = fs /\ fcb' = fcb /\ live' = live
  BY CopyParts
<1>3. \A i \in Stream : ~InUse(i)'
  BY <1>2 DEF InUse
<1>4. fs' \in [Stream -> StreamType] /\ fcb' \in [Procs -> [Fd -> Stream \cup {-1}]] /\ live' \subseteq Procs
  BY <1>1, <1>2 DEF FileTypeOK, StreamType
<1>5. CASE UNCHANGED <<diskVars, image>> /\ fault' \in {"dir", "stray"}
  <2>1. UNCHANGED <<dir, inodes, imap, dmap>>
    BY <1>5 DEF diskVars
  <2>2. FileTypeOK'
    BY <1>1, <1>2, <1>5, <2>1 DEF FileTypeOK
  <2>3. StreamsStayMatched'
    BY <1>3 DEF StreamsStayMatched
  <2>4. QED
    BY <1>2, <1>3, <2>1, <2>2, <2>3, SameEntries, FilePartsNext
<1>6. ASSUME NEW e, NEW n, NEW m, Copied(name, size, saved, e, n, m) PROVE FileIInv'
  <2>1. e \in Entry /\ n \in Inode /\ n \notin imap /\ n # -1 /\ fault' = fault
    BY <1>6 DEF Copied
  <2>2. inodes' \in [Inode -> [Block -> Data \cup {-1}]] /\ dmap' \subseteq Data
    <3>1. m.blocks \in [BlocksOf(size) -> Ref] /\ m.marked \subseteq Data
      BY <1>6 DEF Copied, Gives
    <3>2. \A b \in Block : b < BLOCKS(size) => b \in BlocksOf(size)
      <4>1. MAXOFF \in Nat
        BY FileAssumption
      <4>2. size \in Nat
        BY <4>1
      <4>3. QED
        BY <4>2, BlocksOfSize DEF BlocksOf
    <3>3. [b \in Block |-> IF b < BLOCKS(size) THEN m.blocks[b] ELSE -1] \in [Block -> Ref]
      BY <3>1, <3>2 DEF Ref
    <3>4. inodes \in [Inode -> [Block -> Ref]] /\ dmap \subseteq Data
      BY <1>1 DEF FileTypeOK, Ref
    <3>5. inodes' \in [Inode -> [Block -> Ref]] /\ dmap' \subseteq Data
      BY <1>6, <3>1, <3>3, <3>4 DEF Copied
    <3>6. QED
      BY <3>5 DEF Ref
  <2>3. CASE saved < 3
    <3>1. dir' = dir /\ imap \subseteq imap' /\ imap' \subseteq Inode
      BY <1>1, <1>6, <2>1, <2>3 DEF Copied, FileTypeOK
    <3>2. QED
      BY <1>3, <1>4, <2>1, <2>2, <3>1, SameDirKeeps
  <2>4. CASE ~(saved < 3)
    <3>1. saved = 3
      BY <2>4
    <3>2. dir' = [dir EXCEPT ![e] = [name |-> name, size |-> size, inode |-> n]] /\ imap' = imap \cup {n}
      BY <1>6, <3>1 DEF Copied
    <3>3. [name |-> name, size |-> size, inode |-> n] \in EntryType
          /\ [name |-> name, size |-> size, inode |-> n].inode = n
      <4>1. size \in 0 .. MAXOFF
        OBVIOUS
      <4>2. QED
        BY <2>1, <4>1 DEF EntryType
    <3>4. QED
      BY <1>3, <1>4, <2>1, <2>2, <3>2, <3>3, NewFileKeeps
  <2>5. QED
    BY <2>3, <2>4
<1>7. FileIInv'
  BY <1>5, <1>6, CopyParts
<1>8. QED
  BY <1>2, <1>3, <1>7

(* A loss of power in fs_create_kr, after the bitmap and perhaps the       *)
(* directory, and in fs_write_kr.                                          *)
LEMMA LossInCreateKeeps ==
  ASSUME FileIInv, NEW p \in Procs, NEW name \in Names, LossInCreate(p, name)
  PROVE  FileIInv' /\ phase' = "off" /\ \A i \in Stream : ~InUse(i)'
<1>. DEFINE e == FreeEntry
            n == INodeAlloc
<1>1. FileTypeOK
  BY FileParts
<1>2. e \in Entry /\ n \in Inode /\ n \notin imap /\ n # -1
  BY <1>1, Searches DEF LossInCreate
<1>3. /\ imap' = imap \cup {n} /\ dir' \in {dir, [dir EXCEPT ![e] = NewEntry(name, n)]}
      /\ phase' = "off" /\ Powerless /\ inodes' = inodes /\ dmap' = dmap /\ fault' = fault
  BY <1>2 DEF LossInCreate, Marked
<1>. HIDE DEF e, n
<1>4. inodes' \in [Inode -> [Block -> Data \cup {-1}]] /\ dmap' \subseteq Data
      /\ imap \subseteq imap' /\ imap' \subseteq Inode
  BY <1>1, <1>2, <1>3 DEF FileTypeOK
<1>5. NewEntry(name, n) \in EntryType /\ NewEntry(name, n).inode = n
  BY <1>2, ZeroIsOffset DEF NewEntry, EntryType
<1>6. CASE dir' = dir
  BY <1>3, <1>4, <1>6, PowerlessStreams, SameDirKeeps
<1>7. CASE dir' = [dir EXCEPT ![e] = NewEntry(name, n)]
  BY <1>2, <1>3, <1>4, <1>5, <1>7, PowerlessStreams, NewFileKeeps
<1>8. QED
  BY <1>3, <1>6, <1>7, PowerlessStreams

LEMMA LossInWriteKeeps ==
  ASSUME FileIInv, NEW p \in Procs, NEW d \in Fd, NEW len \in Lens, LossInWrite(p, d, len)
  PROVE  FileIInv' /\ phase' = "off" /\ \A i \in Stream : ~InUse(i)'
<1>. DEFINE i == Of(p, d)
            f == fs[i]
            w == WritePlan(f, len)
<1>1. /\ Holds(p, d) /\ w.end <= MAXOFF /\ phase' = "off" /\ Powerless /\ UNCHANGED <<imap, fault>>
      /\ \E s \in SavedParts(w) :
           /\ dmap' = s[1]
           /\ inodes' = [inodes EXCEPT ![f.inode] = s[2].blocks]
           /\ dir' = [dir EXCEPT ![f.entry].size = s[3]]
  BY DEF LossInWrite
<1>2. i \in Stream /\ f \in StreamType /\ len \in Nat
  BY <1>1, HeldStream, FileAssumption
<1>3. FileTypeOK
  BY FileParts
<1>4. /\ w.old = dir[f.entry].size
      /\ \A m \in {w.m0, w.m1, w.m2} : \E G : Gives(Block, dmap, inodes[f.inode], G, m)
  <2>1. /\ w.old = dir[f.entry].size
        /\ Gives(Block, dmap, inodes[f.inode], {}, w.m0)
        /\ Gives(Block, dmap, inodes[f.inode], FirstGiven(f), w.m1)
        /\ \E G : Gives(Block, dmap, inodes[f.inode], G, w.m2)
    BY <1>1, <1>2, <1>3, WritePlanParts
  <2>. HIDE DEF i, f, w
  <2>2. QED
    BY <2>1
<1>. HIDE DEF i, f, w
<1>5. f.inode \in Inode /\ f.entry \in Entry
  BY <1>2 DEF StreamType
<1>6. PICK s \in SavedParts(w) :
        /\ dmap' = s[1]
        /\ inodes' = [inodes EXCEPT ![f.inode] = s[2].blocks]
        /\ dir' = [dir EXCEPT ![f.entry].size = s[3]]
  BY <1>1
<1>7. /\ s[2] \in {w.m0, w.m1, w.m2} /\ s[3] = w.old
      /\ s[1] \subseteq w.m1.marked \/ s[1] \subseteq w.m2.marked
  BY DEF SavedParts, MarkedSoFar
<1>8. s[3] \in 0 .. MAXOFF
  BY <1>3, <1>4, <1>5, <1>7 DEF FileTypeOK
<1>9. /\ dir' \in [Entry -> [name : Names \cup {""}, size : 0 .. MAXOFF, inode : Inode \cup {-1}]]
      /\ inodes' \in [Inode -> [Block -> Data \cup {-1}]]
      /\ dmap' \subseteq Data
      /\ \A g \in Entry : dir'[g].inode = dir[g].inode /\ dir'[g].name = dir[g].name
  <2>1. PICK m \in {w.m1, w.m2} : dmap' \subseteq m.marked
    BY <1>6, <1>7
  <2>2. (\E G : Gives(Block, dmap, inodes[f.inode], G, m)) /\ (\E G : Gives(Block, dmap, inodes[f.inode], G, s[2]))
    BY <1>4, <1>7
  <2>3. imap' = imap
    BY <1>1
  <2>4. QED
    BY <1>5, <1>6, <1>8, <2>1, <2>2, <2>3, WriteTypes
<1>10. FileTypeOK'
  BY <1>1, <1>3, <1>9, PowerlessStreams DEF FileTypeOK, StreamType
<1>11. StreamsStayMatched'
  BY <1>1, PowerlessStreams DEF StreamsStayMatched
<1>12. QED
  BY <1>1, <1>9, <1>10, <1>11, PowerlessStreams, SameEntries, FilePartsNext

LEMMA ToolsFileInit == ToolsInit => ToolsFileInv
<1>. SUFFICES ASSUME ToolsInit PROVE ToolsFileInv
  OBVIOUS
<1>1. fs = [i \in Stream |-> [Opened(0, 0, 0) EXCEPT !.used = FALSE]]
      /\ fcb = [p \in Procs |-> [d \in Fd |-> -1]]
  BY DEF ToolsInit
<1>2. [Opened(0, 0, 0) EXCEPT !.used = FALSE] \in StreamType /\ [Opened(0, 0, 0) EXCEPT !.used = FALSE].used = FALSE
  BY ZeroIndex, ZeroIsOffset DEF Opened, StreamType
<1>3. fs \in [Stream -> StreamType] /\ \A i \in Stream : fs[i].used = FALSE
  BY <1>1, <1>2
<1>4. fcb \in [Procs -> [Fd -> Stream \cup {-1}]] /\ \A p \in Procs, d \in Fd : fcb[p][d] = -1
  BY <1>1
<1>5. \A i \in Stream : ~InUse(i)
  BY <1>3, <1>4, RangesAreNat DEF InUse
<1>6. dir = [e \in Entry |-> NewEntry("", -1)]
  BY DEF ToolsInit
<1>7. NewEntry("", -1) \in EntryType /\ NewEntry("", -1).inode = -1 /\ NewEntry("", -1).name = ""
  BY ZeroIsOffset DEF NewEntry, EntryType
<1>8. dir \in [Entry -> EntryType] /\ \A e \in Entry : dir[e].inode = -1 /\ dir[e].name = ""
  BY <1>6, <1>7
<1>9. inodes \in [Inode -> [Block -> Data \cup {-1}]]
  <2>1. SC_DATA \in Nat \ {0}
    BY FileAssumption
  <2>2. 0 \in Data
    BY <2>1 DEF Data
  <2>3. QED
    BY <2>2 DEF ToolsInit
<1>10. FileTypeOK
  BY <1>3, <1>4, <1>8, <1>9 DEF ToolsInit, FileTypeOK, EntryType, StreamType
<1>11. StreamsStayMatched /\ FreeEntriesNameless
  BY <1>5, <1>8 DEF StreamsStayMatched, FreeEntriesNameless
<1>12. FileIInv
  BY <1>8, <1>10, <1>11, FileParts
<1>13. QED
  BY <1>5, <1>12 DEF ToolsInit, ToolsFileInv, PowerInv

(* The steps of ToolsNext.                                                 *)
Copies == \E name \in Names, size \in Sizes \cup {KSIZE}, saved \in 0 .. 3 : phase # "on" /\ CopyFile(name, size, saved)
Calls == phase = "on" /\ phase' = "on" /\ \E p \in Procs : OtherCall(p) \/ \E d \in Fd, len \in Lens : Write(p, d, len)
Losses ==
  /\ phase = "on"
  /\ \E p \in Procs : \/ \E d \in Fd, len \in Lens : LossInWrite(p, d, len)
                      \/ \E name \in Names : LossInCreate(p, name)

LEMMA ToolsSteps ==
  [ToolsNext]_allVars => Copies \/ PowerOn \/ PowerOff \/ Calls \/ Losses \/ UNCHANGED allVars
<1>. SUFFICES ASSUME [ToolsNext]_allVars
              PROVE  Copies \/ PowerOn \/ PowerOff \/ Calls \/ Losses \/ UNCHANGED allVars
  OBVIOUS
<1>1. 3 \in 0 .. 3
  OBVIOUS
<1>2. phase = "blank" /\ CopyFile(KERNEL, KSIZE, 3) => Copies
  BY <1>1, ToolsAssumption, Zenon DEF Copies
<1>3. ASSUME NEW name \in Names, NEW size \in Sizes, NEW saved \in 0 .. 3, phase = "off", CopyFile(name, size, saved)
      PROVE  Copies
  BY <1>3, Zenon DEF Copies
<1>4. ASSUME NEW p \in Procs, On(OtherCall(p)) PROVE Calls
  BY <1>4 DEF On, Calls
<1>5. ASSUME NEW p \in Procs, NEW d \in Fd, NEW len \in Lens, WriteCall(p, d, len) PROVE Calls
  BY <1>5 DEF WriteCall, On, Calls
<1>6. ASSUME NEW p \in Procs, NEW d \in Fd, NEW len \in Lens, LossInWrite(p, d, len) PROVE Losses
  <2>1. phase = "on"
    BY <1>6 DEF LossInWrite
  <2>2. QED
    BY <1>6, <2>1 DEF Losses
<1>7. ASSUME NEW p \in Procs, NEW name \in Names, LossInCreate(p, name) PROVE Losses
  <2>1. phase = "on"
    BY <1>7 DEF LossInCreate
  <2>2. QED
    BY <1>7, <2>1 DEF Losses
<1>8. Broken => UNCHANGED allVars
  BY DEF Broken
<1>9. QED
  BY <1>2, <1>3, <1>4, <1>5, <1>6, <1>7, <1>8 DEF ToolsNext

LEMMA ToolsFileNext == ToolsFileInv /\ [ToolsNext]_allVars => ToolsFileInv'
<1>. SUFFICES ASSUME ToolsFileInv, [ToolsNext]_allVars PROVE ToolsFileInv'
  OBVIOUS
<1>1. FileIInv /\ PowerInv
  BY DEF ToolsFileInv
<1>2. CASE Copies
  <2>1. PICK name \in Names, size \in Sizes \cup {KSIZE}, saved \in 0 .. 3 : phase # "on" /\ CopyFile(name, size, saved)
    BY <1>2 DEF Copies
  <2>2. size \in 1 .. MAXOFF
    BY ToolsAssumption
  <2>3. \A i \in Stream : ~InUse(i)
    BY <1>1, <2>1 DEF PowerInv
  <2>4. FileIInv' /\ phase' = "off" /\ \A i \in Stream : ~InUse(i)'
    BY <1>1, <2>1, <2>2, <2>3, CopyKeeps
  <2>5. QED
    BY <2>4 DEF ToolsFileInv, PowerInv
<1>3. CASE PowerOn
  <2>1. UNCHANGED diskVars /\ fault' = fault /\ UNCHANGED <<fs, fcb>> /\ phase' = "on"
    BY <1>3 DEF PowerOn
  <2>2. live' \subseteq Procs
    BY <1>3, FileAssumption DEF PowerOn
  <2>3. QED
    BY <1>1, <2>1, <2>2, PowerKeeps DEF ToolsFileInv, PowerInv
<1>4. CASE PowerOff
  <2>1. UNCHANGED diskVars /\ fault' = fault /\ Powerless /\ phase' = "off"
    BY <1>4 DEF PowerOff
  <2>2. QED
    BY <1>1, <2>1, PowerlessStreams, PowerKeeps DEF ToolsFileInv, PowerInv
<1>5. CASE Calls
  <2>1. FileIInv'
    BY <1>1, <1>5, OpenKeeps, LseekKeeps, CloseKeeps, WriteKeeps, LengthsAreNat DEF Calls, OtherCall
  <2>2. QED
    BY <1>5, <2>1 DEF Calls, ToolsFileInv, PowerInv
<1>6. CASE Losses
  <2>1. FileIInv' /\ phase' = "off" /\ \A i \in Stream : ~InUse(i)'
    BY <1>1, <1>6, LossInWriteKeeps, LossInCreateKeeps DEF Losses
  <2>2. QED
    BY <2>1 DEF ToolsFileInv, PowerInv
<1>7. CASE UNCHANGED allVars
  <2>1. UNCHANGED vars /\ phase' = phase
    BY <1>7 DEF allVars, toolVars
  <2>2. FileIInv'
    BY <1>1, <2>1, StutterKeeps
  <2>3. \A i \in Stream : InUse(i)' => InUse(i)
    BY <2>1 DEF vars, InUse
  <2>4. QED
    BY <1>1, <2>1, <2>2, <2>3 DEF ToolsFileInv, PowerInv
<1>8. QED
  BY <1>2, <1>3, <1>4, <1>5, <1>6, <1>7, ToolsSteps

(* Whatever is copied to a disk and done to its files, and wherever the    *)
(* power goes between two sectors, the tables agree: no two entries share  *)
(* an inode, every inode in the directory is marked, and a stream works on *)
(* the inode of its entry (fs_create_kr, copy2myfs.c, fs_write_kr).        *)
THEOREM DiskMatchesDirectory == ToolsSpec => []FileInv
<1>1. ToolsFileInv => FileInv
  BY DEF ToolsFileInv, FileIInv
<1>2. QED
  BY <1>1, ToolsFileInit, ToolsFileNext, PTL DEF ToolsSpec

-----------------------------------------------------------------------------
(* Sectors: bootmain reads a segment of the kernel by its offset.          *)

LEMMA Multiples ==
  ASSUME NEW a \in Int, NEW b \in Int, NEW d \in Nat, a >= b
  PROVE  a * d >= b * d
<1>1. (a - b) * d >= 0
  OBVIOUS
<1>2. (a - b) * d = a * d - b * d
  OBVIOUS
<1>3. QED
  BY <1>1, <1>2

LEMMA Quotient ==
  ASSUME NEW x \in Nat, NEW d \in Nat \ {0}
  PROVE  x \div d \in Nat /\ (x \div d) * d <= x /\ x < (x \div d) * d + d
OBVIOUS

LEMMA BelowQuotient ==
  ASSUME NEW x \in Nat, NEW d \in Nat \ {0}, NEW b \in Int
  PROVE  b <= x \div d <=> b * d <= x
<1>1. PICK q \in Nat : q = x \div d /\ q * d <= x /\ x < q * d + d
  BY Quotient
<1>2. ASSUME b <= q PROVE b * d <= x
  <2>1. b * d <= q * d
    BY <1>2, Multiples
  <2>2. QED
    BY <1>1, <2>1
<1>3. ASSUME b >= q + 1 PROVE b * d > x
  <2>1. b * d >= (q + 1) * d
    BY <1>3, Multiples
  <2>2. (q + 1) * d = q * d + d
    OBVIOUS
  <2>3. QED
    BY <1>1, <2>1, <2>2
<1>4. QED
  BY <1>1, <1>2, <1>3

LEMMA BlockSize == BLOCK_SIZE \in Nat \ {0} /\ MAXOFF \in Nat /\ NR_BLOCKS \in Nat
BY FileAssumption

(* A block is one of a file of x bytes if it starts before the end.        *)
LEMMA WithinBlocks ==
  ASSUME NEW x \in Nat, NEW b \in Int
  PROVE  BLOCKS(x) \in Nat /\ (b < BLOCKS(x) <=> b * BLOCK_SIZE < x)
<1>1. x + BLOCK_SIZE - 1 \in Nat
  BY BlockSize
<1>2. b + 1 <= (x + BLOCK_SIZE - 1) \div BLOCK_SIZE <=> (b + 1) * BLOCK_SIZE <= x + BLOCK_SIZE - 1
  <2>1. b + 1 \in Int
    OBVIOUS
  <2>2. QED
    BY <1>1, <2>1, BelowQuotient, BlockSize
<1>3. (b + 1) * BLOCK_SIZE = b * BLOCK_SIZE + BLOCK_SIZE /\ b * BLOCK_SIZE \in Int
  BY BlockSize
<1>4. BLOCKS(x) \in Nat
  BY <1>1, Quotient, BlockSize DEF BLOCKS
<1>5. QED
  BY <1>2, <1>3, <1>4, BlockSize DEF BLOCKS

LEMMA QuotientIs ==
  ASSUME NEW x \in Nat, NEW d \in Nat \ {0}, NEW q \in Int, q * d <= x, x < q * d + d
  PROVE  x \div d = q
<1>1. x \div d \in Nat
  BY Quotient
<1>2. q <= x \div d
  BY BelowQuotient
<1>3. (q + 1) * d = q * d + d /\ q * d \in Int
  OBVIOUS
<1>4. ~(q + 1 <= x \div d)
  <2>1. q + 1 \in Int
    OBVIOUS
  <2>2. QED
    BY <1>3, <2>1, BelowQuotient
<1>5. QED
  BY <1>1, <1>2, <1>4

(* The blocks of the kernel bootmain gets for count bytes at offset off of *)
(* it: from the one off lies in to the one the last byte lies in.          *)
LEMMA GotBlocks ==
  ASSUME NEW off \in Nat, NEW count \in Nat, NEW k \in Int
  PROVE  k \in Got(off, count) <=> off \div BLOCK_SIZE <= k /\ k * BLOCK_SIZE < off + count
<1>. DEFINE d == BLOCK_SIZE
            S == SC_BITMAP + SC_DIR + SC_INODE
            x == S * d + off
            q == off \div d
            r == off % d
            n == BLOCKS(count + r)
<1>1. SC_BITMAP \in Nat /\ SC_DIR \in Nat /\ SC_INODE \in Nat
  BY ToolsAssumption, FileAssumption
<1>2. d \in Nat \ {0} /\ S \in Nat
  BY <1>1, BlockSize
<1>. HIDE DEF d, S
<1>3. q \in Nat /\ q * d <= off /\ off < q * d + d /\ q * d \in Int
  BY <1>2, Quotient
<1>4. r \in Nat /\ off = q * d + r
  BY <1>2
<1>. HIDE DEF q, r
<1>5. x \in Nat /\ (S + q) * d = S * d + q * d
  BY <1>2, <1>3
<1>6. x \div d = S + q
  <2>1. S + q \in Int
    BY <1>2, <1>3
  <2>2. S * d \in Nat
    BY <1>2
  <2>3. (S + q) * d <= x /\ x < (S + q) * d + d
    BY <1>2, <1>3, <1>5, <2>2
  <2>. HIDE DEF x
  <2>4. QED
    BY <1>2, <1>5, <2>1, <2>3, QuotientIs
<1>7. x % d = r
  <2>1. x = d * (x \div d) + (x % d) /\ x % d \in Int
    BY <1>2, <1>5
  <2>2. d * (S + q) = S * d + q * d /\ S * d \in Int
    BY <1>2, <1>3
  <2>3. QED
    BY <1>2, <1>3, <1>4, <1>6, <2>1, <2>2
<1>8. n \in Nat /\ (k - q < n <=> (k - q) * d < count + r)
  <2>1. count + r \in Nat /\ k - q \in Int
    BY <1>3, <1>4
  <2>2. QED
    BY <2>1, WithinBlocks DEF d
<1>9. (k - q) * d = k * d - q * d /\ k * d \in Int
  BY <1>2, <1>3
<1>10. k - q < n <=> k * d < off + count
  BY <1>3, <1>4, <1>8, <1>9
<1>11. readseg(count, KERNEL_OFFSET + off) = S + q + 1 .. (S + q + 1) + n - 1
  BY <1>6, <1>7 DEF readseg, KERNEL_OFFSET, d, S, x, n
<1>12. LOC_DATA(0) = 1 + S
  BY <1>1 DEF LOC_DATA, S
<1>. HIDE DEF n
<1>13. k \in Got(off, count) <=> \E s \in (S + q + 1) .. ((S + q + 1) + n - 1) : k = s - (1 + S)
  BY <1>11, <1>12 DEF Got
<1>14. (\E s \in (S + q + 1) .. ((S + q + 1) + n - 1) : k = s - (1 + S)) <=> q <= k /\ k - q < n
  <2>1. ASSUME NEW s \in (S + q + 1) .. ((S + q + 1) + n - 1), k = s - (1 + S) PROVE q <= k /\ k - q < n
    BY <1>2, <1>3, <1>8, <2>1
  <2>2. ASSUME q <= k, k - q < n PROVE k + 1 + S \in (S + q + 1) .. ((S + q + 1) + n - 1) /\ k = (k + 1 + S) - (1 + S)
    BY <1>2, <1>3, <1>8, <2>2
  <2>3. QED
    BY <2>1, <2>2
<1>15. QED
  BY <1>10, <1>13, <1>14 DEF q, d

(* readseg reads the sectors of all bytes of any segment, and none beyond  *)
(* the blocks of the kernel.                                               *)
LEMMA SegmentsRead == GotSuffices /\ AllGot \subseteq BlocksOf(KSIZE)
<1>1. KSIZE \in Nat
  <2>1. KSIZE \in 1 .. MAXOFF
    BY ToolsAssumption
  <2>2. QED
    BY <2>1, BlockSize
<1>2. ASSUME NEW g \in Segments PROVE g[1] \in Nat /\ g[2] \in Nat /\ g[1] + g[2] <= KSIZE
  BY <1>1 DEF Segments
<1>3. ASSUME NEW g \in Segments, NEW byte \in g[1] .. g[1] + g[2] - 1
      PROVE  byte \div BLOCK_SIZE \in Got(g[1], g[2])
  <2>1. byte \in Nat /\ g[1] <= byte /\ byte < g[1] + g[2]
    BY <1>2
  <2>2. PICK k \in Nat : k = byte \div BLOCK_SIZE /\ k * BLOCK_SIZE <= byte
    BY <2>1, Quotient, BlockSize
  <2>3. g[1] \div BLOCK_SIZE <= k
    <3>1. PICK j \in Nat : j = g[1] \div BLOCK_SIZE /\ j * BLOCK_SIZE <= g[1]
      BY <1>2, Quotient, BlockSize
    <3>2. j * BLOCK_SIZE <= byte
      BY <1>2, <2>1, <3>1, BlockSize
    <3>3. QED
      BY <2>1, <2>2, <3>1, <3>2, BelowQuotient, BlockSize
  <2>4. k * BLOCK_SIZE < g[1] + g[2]
    <3>1. k * BLOCK_SIZE \in Int
      BY <2>2, BlockSize
    <3>2. QED
      BY <1>2, <2>1, <2>2, <3>1
  <2>5. QED
    BY <1>2, <2>2, <2>3, <2>4, GotBlocks
<1>4. ASSUME NEW g \in Segments, NEW k \in Got(g[1], g[2]) PROVE k \in BlocksOf(KSIZE)
  <2>1. k \in Int
    <3>1. LOC_DATA(0) \in Int
      <4>1. SC_INODE \in Nat
        BY FileAssumption
      <4>2. QED
        BY <4>1, ToolsAssumption DEF LOC_DATA
    <3>2. \A s \in readseg(g[2], KERNEL_OFFSET + g[1]) : s \in Int
      BY DEF readseg
    <3>3. QED
      BY <3>1, <3>2 DEF Got
  <2>2. g[1] \div BLOCK_SIZE <= k /\ k * BLOCK_SIZE < g[1] + g[2]
    BY <1>2, <2>1, GotBlocks
  <2>3. k >= 0
    BY <1>2, <2>1, <2>2, Quotient, BlockSize
  <2>4. k * BLOCK_SIZE < KSIZE
    <3>1. k * BLOCK_SIZE \in Int
      BY <2>1, BlockSize
    <3>2. QED
      BY <1>1, <1>2, <2>2, <3>1
  <2>5. k < BLOCKS(KSIZE) /\ BLOCKS(KSIZE) \in Nat
    BY <1>1, <2>1, <2>4, WithinBlocks
  <2>6. QED
    BY <2>1, <2>3, <2>5 DEF BlocksOf
<1>5. GotSuffices
  BY <1>3 DEF GotSuffices
<1>6. QED
  BY <1>4, <1>5 DEF AllGot

-----------------------------------------------------------------------------
(* Blocks of files, whatever is switched off and on again.                 *)

(* The inode of a file whose creation was cut off still names the blocks   *)
(* of its last user, so only those count that lie within the size the      *)
(* directory or a stream has for the file.                                 *)
Reach(e) == {b \in Block : \/ b < BLOCKS(dir[e].size)
                           \/ \E i \in Stream : InUse(i) /\ fs[i].entry = e /\ b < BLOCKS(fs[i].file_size)}
At(e, b) == inodes[dir[e].inode][b]

ReachOwn ==
  \A e, g \in Files : \A a \in Reach(e), b \in Reach(g) :
    At(e, a) # -1 => /\ At(e, a) \in dmap
                     /\ At(e, a) = At(g, b) => e = g /\ a = b

ReachFull == dmap # Data => \A e \in Files : \A b \in Reach(e) : At(e, b) # -1

(* The blocks the kernel was copied to are nobody's else.                  *)
Others == \A e \in Files : dir[e].name # KERNEL => \A b \in Reach(e) : At(e, b) \notin BlocksOf(KSIZE)
KernelKept == BlocksOf(KSIZE) \subseteq image \cap dmap /\ Others

BlankDisk == phase = "blank" => Files = {} /\ imap = {} /\ dmap = {}

DiskIInv ==
  /\ ToolsFileInv /\ BlankDisk
  /\ fault = "none" => ReachOwn /\ ReachFull /\ (phase # "blank" => KernelKept)

(* A step leaves each place of a file as it was, or puts a block there     *)
(* that was not marked, each in one place.                                 *)
OldAt(e, b) == e \in Files /\ b \in Reach(e) /\ At(e, b)' = At(e, b) /\ dir'[e].name = dir[e].name
NewAt(e, b) == At(e, b)' \in dmap' \ dmap \/ (At(e, b)' = -1 /\ dmap' = Data)
Renews ==
  /\ dmap \subseteq dmap' /\ dmap' \subseteq Data
  /\ \A e \in Files' : \A b \in Reach(e)' : OldAt(e, b) \/ NewAt(e, b)
  /\ \A e, g \in Files' : \A a \in Reach(e)', b \in Reach(g)' :
       NewAt(e, a) /\ NewAt(g, b) /\ At(e, a)' # -1 /\ At(e, a)' = At(g, b)' => e = g /\ a = b

LEMMA RenewsKeeps ==
  ASSUME ReachOwn, ReachFull, Renews
  PROVE  /\ ReachOwn' /\ ReachFull'
         /\ Others /\ BlocksOf(KSIZE) \subseteq dmap => Others'
<1>1. /\ dmap \subseteq dmap' /\ dmap' \subseteq Data
      /\ \A e \in Files' : \A b \in Reach(e)' : OldAt(e, b) \/ NewAt(e, b)
  BY DEF Renews
<1>2. ASSUME NEW e \in Files', NEW g \in Files', NEW a \in Reach(e)', NEW b \in Reach(g)', At(e, a)' # -1
      PROVE  /\ At(e, a)' \in dmap'
             /\ At(e, a)' = At(g, b)' => e = g /\ a = b
  <2>1. (OldAt(e, a) \/ NewAt(e, a)) /\ (OldAt(g, b) \/ NewAt(g, b))
    BY <1>1
  <2>2. OldAt(e, a) => At(e, a)' \in dmap
    BY <1>2 DEF OldAt, ReachOwn
  <2>3. OldAt(g, b) => At(g, b)' \in dmap \cup {-1}
    BY DEF OldAt, ReachOwn
  <2>4. NewAt(e, a) => At(e, a)' \in dmap' \ dmap
    BY <1>2 DEF NewAt
  <2>5. NewAt(g, b) => At(g, b)' \in (dmap' \ dmap) \cup {-1}
    BY DEF NewAt
  <2>6. CASE OldAt(e, a) /\ OldAt(g, b)
    <3>1. At(e, a) # -1 /\ e \in Files /\ g \in Files /\ a \in Reach(e) /\ b \in Reach(g)
          /\ At(e, a)' = At(e, a) /\ At(g, b)' = At(g, b)
      BY <1>2, <2>6 DEF OldAt
    <3>2. At(e, a) \in dmap /\ (At(e, a) = At(g, b) => e = g /\ a = b)
      BY <3>1 DEF ReachOwn
    <3>3. QED
      BY <1>1, <3>1, <3>2
  <2>7. CASE NewAt(e, a) /\ NewAt(g, b)
    BY <1>2, <2>4, <2>7 DEF Renews
  <2>8. CASE OldAt(e, a) /\ NewAt(g, b)
    BY <1>1, <1>2, <2>2, <2>5, <2>8
  <2>9. CASE NewAt(e, a) /\ OldAt(g, b)
    BY <1>2, <2>3, <2>4, <2>9
  <2>10. QED
    BY <2>1, <2>6, <2>7, <2>8, <2>9
<1>3. ReachOwn'
  BY <1>2 DEF ReachOwn
<1>4. ReachFull'
  <2>. SUFFICES ASSUME dmap' # Data, NEW e \in Files', NEW b \in Reach(e)' PROVE At(e, b)' # -1
    BY DEF ReachFull
  <2>1. OldAt(e, b) \/ NewAt(e, b)
    BY <1>1
  <2>2. NewAt(e, b) => At(e, b)' \in dmap'
    BY DEF NewAt
  <2>3. OldAt(e, b) => At(e, b)' # -1
    BY <1>1 DEF OldAt, ReachFull
  <2>4. -1 \notin dmap'
    BY <1>1, RangesAreNat
  <2>5. QED
    BY <2>1, <2>2, <2>3, <2>4
<1>5. ASSUME Others, BlocksOf(KSIZE) \subseteq dmap PROVE Others'
  <2>. SUFFICES ASSUME NEW e \in Files', dir'[e].name # KERNEL, NEW b \in Reach(e)'
                PROVE  At(e, b)' \notin BlocksOf(KSIZE)
    BY DEF Others
  <2>1. OldAt(e, b) \/ NewAt(e, b)
    BY <1>1
  <2>2. OldAt(e, b) => At(e, b)' \notin BlocksOf(KSIZE)
    BY <1>5 DEF OldAt, Others
  <2>3. dmap \subseteq Data
    BY <1>1
  <2>4. NewAt(e, b) => At(e, b)' \notin dmap
    BY <2>3, RangesAreNat DEF NewAt
  <2>5. QED
    BY <1>5, <2>1, <2>2, <2>4
<1>6. QED
  BY <1>3, <1>4, <1>5

LEMMA NoBlocks == \A b \in Block : b \in Nat /\ ~(b < BLOCKS(0))
<1>1. 0 \in Nat /\ \A b \in Block : b \in Nat
  BY RangesAreNat
<1>2. \A b \in Nat : b \in Int /\ ~(b * BLOCK_SIZE < 0)
  BY BlockSize
<1>3. QED
  BY <1>1, <1>2, WithinBlocks

(* Steps that leave the disk alone and open no file with a larger size     *)
(* than the directory has.                                                 *)
LEMMA SameDiskRenews ==
  ASSUME FileIInv, UNCHANGED <<dir, inodes, dmap>>,
         \A i \in Stream : InUse(i)' =>
            \/ InUse(i) /\ fs'[i].entry = fs[i].entry /\ fs'[i].file_size = fs[i].file_size
            \/ fs'[i].file_size \in {0, dir[fs'[i].entry].size}
  PROVE  Renews
<1>1. dmap \subseteq Data
  BY FileParts DEF FileTypeOK
<1>2. ASSUME NEW e, NEW b \in Reach(e)' PROVE b \in Reach(e)
  BY NoBlocks DEF Reach
<1>3. \A e \in Files' : \A b \in Reach(e)' : OldAt(e, b)
  BY <1>2 DEF OldAt, At, Files
<1>4. \A e, b : NewAt(e, b) => At(e, b)' = -1
  BY DEF NewAt
<1>5. QED
  BY <1>1, <1>3, <1>4 DEF Renews

(* A new entry has no blocks yet, and no stream is left from its last use; *)
(* its inode was nobody's.                                                 *)
LEMMA CreateRenews ==
  ASSUME FileIInv, NEW e0 \in Entry, dir[e0].inode = -1, NEW n \in Inode, n \notin imap, n # -1,
         NEW name, dir' = [dir EXCEPT ![e0] = NewEntry(name, n)],
         \A x \in Inode : x # n => inodes'[x] = inodes[x], dmap' = dmap,
         \A i \in Stream : InUse(i)' =>
            \/ InUse(i) /\ fs'[i].entry = fs[i].entry /\ fs'[i].file_size = fs[i].file_size
            \/ fs'[i].file_size = 0
  PROVE  Renews
<1>1. /\ FileTypeOK /\ StreamsStayMatched
      /\ \A x \in Entry : dir[x].inode # -1 => dir[x].inode \in imap
  BY FileParts
<1>2. dir'[e0] = NewEntry(name, n) /\ dir'[e0].size = 0 /\ \A g \in Entry : g # e0 => dir'[g] = dir[g]
  BY <1>1 DEF FileTypeOK, NewEntry
<1>3. \A i \in Stream : InUse(i) => fs[i].entry # e0
  <2>. SUFFICES ASSUME NEW i \in Stream, InUse(i), fs[i].entry = e0 PROVE FALSE
    OBVIOUS
  <2>1. fs[i].inode = -1
    BY <1>1 DEF StreamsStayMatched
  <2>2. fs[i].inode \in Inode
    BY <1>1 DEF FileTypeOK
  <2>3. QED
    BY <2>1, <2>2, RangesAreNat
<1>4. Reach(e0)' = {}
  BY <1>2, <1>3, NoBlocks DEF Reach
<1>5. ASSUME NEW e \in Files', NEW b \in Reach(e)' PROVE OldAt(e, b)
  <2>1. e # e0 /\ e \in Entry
    BY <1>4 DEF Files
  <2>2. dir'[e] = dir[e] /\ e \in Files
    BY <1>2, <2>1 DEF Files
  <2>3. dir[e].inode \in Inode /\ dir[e].inode # n
    BY <1>1, <2>1, <2>2 DEF Files, FileTypeOK
  <2>4. b \in Reach(e)
    BY <2>2, NoBlocks DEF Reach
  <2>5. QED
    BY <2>2, <2>3, <2>4 DEF OldAt, At
<1>6. \A e, b : NewAt(e, b) => At(e, b)' = -1
  BY DEF NewAt
<1>7. QED
  BY <1>1, <1>5, <1>6 DEF Renews, FileTypeOK

(* The descriptors of a process name the streams they named, or the one    *)
(* that is opened.                                                         *)
LEMMA AttachUses ==
  ASSUME FileTypeOK, NEW p \in Procs, NEW k \in Stream, Attach(p, k),
         NEW v, fs' = [fs EXCEPT ![k] = v]
  PROVE  \A i \in Stream : i # k => fs'[i] = fs[i] /\ (InUse(i)' => InUse(i))
<1>1. fcb \in [Procs -> [Fd -> Stream \cup {-1}]]
  BY DEF FileTypeOK
<1>2. \A q \in Procs, d \in Fd : fcb'[q][d] = fcb[q][d] \/ fcb'[q][d] = k
  <2>1. FreeFd(p) # -1 => FreeFd(p) \in Fd
    BY Searches
  <2>2. fcb' = fcb \/ fcb' = [fcb EXCEPT ![p][FreeFd(p)] = k]
    BY DEF Attach
  <2>3. fcb' # fcb => FreeFd(p) \in Fd
    BY <2>1 DEF Attach
  <2>4. QED
    BY <1>1, <2>2, <2>3
<1>3. \A i \in Stream : i # k => fs'[i] = fs[i]
  BY DEF FileTypeOK
<1>4. QED
  BY <1>2, <1>3 DEF InUse

LEMMA OpenRenews ==
  ASSUME FileIInv, NEW p \in Procs, NEW name \in Names, NEW flags \in {FS_RW, FS_RWC, FS_RWD},
         Open(p, name, flags)
  PROVE  Renews
<1>1. FileTypeOK
  BY FileParts
<1>2. CASE OpenFound(p, name, flags)
  <2>. DEFINE e == Named(name)
              k == FreeStream
              size == IF flags = FS_RWD THEN 0 ELSE dir[e].size
  <2>1. /\ k # -1 /\ fs' = [fs EXCEPT ![k] = Opened(e, dir[e].inode, size)] /\ Attach(p, k)
        /\ UNCHANGED <<dir, inodes, dmap>>
    BY <1>2 DEF OpenFound, CanOpen, diskVars
  <2>2. k \in Stream
    BY <1>1, <2>1, Searches
  <2>3. fs'[k].entry = e /\ fs'[k].file_size \in {0, dir[e].size}
    <3>1. fs'[k] = Opened(e, dir[e].inode, size)
      BY <1>1, <2>1, <2>2 DEF FileTypeOK
    <3>2. QED
      BY <3>1 DEF Opened
  <2>. HIDE DEF e, k, size
  <2>4. \A i \in Stream : i # k => fs'[i] = fs[i] /\ (InUse(i)' => InUse(i))
    BY <1>1, <2>1, <2>2, AttachUses
  <2>5. QED
    BY <2>1, <2>3, <2>4, SameDiskRenews
<1>3. CASE OpenFails(p, name) \/ OpenCannotCreate(p, name, flags)
  <2>1. UNCHANGED <<dir, inodes, dmap, fs, fcb>>
    BY <1>3 DEF OpenFails, OpenCannotCreate, vars, diskVars
  <2>2. \A i \in Stream : InUse(i)' => InUse(i)
    BY <2>1 DEF InUse
  <2>3. QED
    BY <2>1, <2>2, SameDiskRenews
<1>4. CASE OpenCreates(p, name, flags)
  <2>. DEFINE e == FreeEntry
              n == INodeAlloc
              k == FreeStream
  <2>1. e \in Entry /\ dir[e].inode = -1 /\ n \in Inode /\ n \notin imap /\ n # -1
    BY <1>1, <1>4, Searches DEF OpenCreates
  <2>2. /\ dir' = [dir EXCEPT ![e] = NewEntry(name, n)]
        /\ inodes' = [inodes EXCEPT ![n] = [b \in Block |-> -1]]
        /\ dmap' = dmap
    BY <1>4 DEF OpenCreates
  <2>3. \/ k # -1 /\ fs' = [fs EXCEPT ![k] = Opened(e, n, 0)] /\ Attach(p, k)
        \/ fs' = fs /\ fcb' = fcb
    BY <1>4 DEF OpenCreates
  <2>4. k # -1 => k \in Stream
    BY <1>1, Searches
  <2>. HIDE DEF e, n, k
  <2>5. \A x \in Inode : x # n => inodes'[x] = inodes[x]
    BY <1>1, <2>2 DEF FileTypeOK
  <2>6. CASE k # -1 /\ fs' = [fs EXCEPT ![k] = Opened(e, n, 0)] /\ Attach(p, k)
    <3>1. fs'[k] = Opened(e, n, 0)
      BY <1>1, <2>4, <2>6 DEF FileTypeOK
    <3>2. fs'[k].file_size = 0
      BY <3>1 DEF Opened
    <3>3. \A i \in Stream : i # k => fs'[i] = fs[i] /\ (InUse(i)' => InUse(i))
      BY <1>1, <2>4, <2>6, AttachUses
    <3>4. \A i \in Stream : InUse(i)' =>
            \/ InUse(i) /\ fs'[i].entry = fs[i].entry /\ fs'[i].file_size = fs[i].file_size
            \/ fs'[i].file_size = 0
      BY <3>2, <3>3
    <3>5. QED
      BY <2>1, <2>2, <2>5, <3>4, CreateRenews
  <2>7. CASE fs' = fs /\ fcb' = fcb
    <3>1. \A i \in Stream : InUse(i)' => InUse(i)
      BY <2>7 DEF InUse
    <3>2. QED
      BY <2>1, <2>2, <2>5, <2>7, <3>1, CreateRenews
  <2>8. QED
    BY <2>3, <2>6, <2>7
<1>5. QED
  BY <1>2, <1>3, <1>4 DEF Open

LEMMA LseekCloseRenews ==
  ASSUME FileIInv, NEW p \in Procs, NEW d \in Fd,
         Close(p, d) \/ \E offset \in Seeks, whence \in 0 .. 2 : Lseek(p, d, offset, whence)
  PROVE  Renews
<1>1. /\ fs \in [Stream -> StreamType] /\ Of(p, d) \in Stream
      /\ fcb \in [Procs -> [Fd -> Stream \cup {-1}]]
  <2>1. Holds(p, d)
    BY DEF Lseek, Close
  <2>2. FileTypeOK
    BY FileParts
  <2>3. QED
    BY <2>1, <2>2, HeldStream DEF FileTypeOK, StreamType
<1>2. UNCHANGED <<dir, inodes, dmap>>
  BY DEF Lseek, Close, diskVars
<1>3. \A i \in Stream : InUse(i)' => InUse(i) /\ fs'[i].entry = fs[i].entry /\ fs'[i].file_size = fs[i].file_size
  <2>1. CASE Close(p, d)
    <3>1. fs' = [fs EXCEPT ![Of(p, d)].used = FALSE] /\ fcb' = [fcb EXCEPT ![p][d] = -1]
      BY <2>1 DEF Close, Detached
    <3>2. \A i \in Stream : /\ fs'[i].used => fs[i].used
                            /\ fs'[i].entry = fs[i].entry /\ fs'[i].file_size = fs[i].file_size
      BY <1>1, <3>1 DEF StreamType
    <3>3. \A q \in Procs, c \in Fd : fcb'[q][c] = fcb[q][c] \/ fcb'[q][c] = -1
      BY <1>1, <3>1
    <3>4. QED
      BY <3>2, <3>3, RangesAreNat DEF InUse
  <2>2. ASSUME NEW offset \in Seeks, NEW whence \in 0 .. 2, Lseek(p, d, offset, whence)
        PROVE  \A i \in Stream : InUse(i)' => InUse(i) /\ fs'[i].entry = fs[i].entry /\ fs'[i].file_size = fs[i].file_size
    <3>1. fcb' = fcb /\ \E o : fs' = [fs EXCEPT ![Of(p, d)].offset = o]
      BY <2>2, Zenon DEF Lseek
    <3>2. \A i \in Stream : /\ fs'[i].used = fs[i].used
                            /\ fs'[i].entry = fs[i].entry /\ fs'[i].file_size = fs[i].file_size
      BY <1>1, <3>1 DEF StreamType
    <3>3. QED
      BY <3>1, <3>2 DEF InUse
  <2>3. QED
    BY <2>1, <2>2
<1>4. QED
  BY <1>2, <1>3, SameDiskRenews

(* The inode of a file gets the blocks of m, some of them new.             *)
LEMMA GivesRenews ==
  ASSUME FileIInv, ReachOwn, NEW e0 \in Files, NEW m, NEW G,
         Gives(Block, dmap, inodes[dir[e0].inode], G, m),
         inodes' = [inodes EXCEPT ![dir[e0].inode] = m.blocks],
         m.marked \subseteq dmap', dmap' \subseteq Data,
         \A g \in Entry : dir'[g].inode = dir[g].inode /\ dir'[g].name = dir[g].name,
         \A e \in Files : \A b \in Reach(e)' : b \in Reach(e) \/ (e = e0 /\ b \in G)
  PROVE  Renews
<1>. DEFINE n == dir[e0].inode
            B == inodes[n]
<1>1. /\ FileTypeOK
      /\ \A e \in Entry : dir[e].inode # -1 => \A g \in Entry : dir[g].inode = dir[e].inode => g = e
  BY FileParts
<1>2. n \in Inode /\ n # -1 /\ e0 \in Entry
  BY <1>1 DEF Files, FileTypeOK
<1>3. Files' = Files /\ \A e \in Files : e \in Entry
  BY DEF Files
<1>4. \A g \in Files : inodes'[dir'[g].inode] = IF g = e0 THEN m.blocks ELSE inodes[dir[g].inode]
  <2>. SUFFICES ASSUME NEW g \in Files
                PROVE  inodes'[dir'[g].inode] = IF g = e0 THEN m.blocks ELSE inodes[dir[g].inode]
    OBVIOUS
  <2>1. g \in Entry /\ dir[g].inode \in Inode /\ dir'[g].inode = dir[g].inode
    BY <1>1 DEF Files, FileTypeOK
  <2>2. g # e0 => dir[g].inode # n
    BY <1>1, <1>2, <2>1
  <2>3. inodes \in [Inode -> [Block -> Data \cup {-1}]]
    BY <1>1 DEF FileTypeOK
  <2>4. QED
    BY <1>2, <2>1, <2>2, <2>3
<1>5. /\ dmap \subseteq m.marked /\ m.marked \subseteq Data
      /\ \A b \in Block : b \notin G => m.blocks[b] = B[b]
      /\ \A b \in Block : b \in G => \/ m.blocks[b] \in m.marked \ dmap
                                     \/ m.blocks[b] = -1 /\ m.marked = Data
      /\ \A a, b \in Block : a \in G /\ b \in G /\ m.blocks[a] # -1 /\ m.blocks[a] = m.blocks[b] => a = b
  BY DEF Gives
<1>6. \A e \in Files : \A b : At(e, b)' = (IF e = e0 THEN m.blocks[b] ELSE At(e, b)) /\ At(e0, b) = B[b]
  BY <1>4 DEF At
<1>. HIDE DEF n, B
<1>7. ASSUME NEW e \in Files, NEW b \in Reach(e)'
      PROVE  /\ b \in Block
             /\ ~(e = e0 /\ b \in G) => OldAt(e, b) /\ At(e, b)' \in dmap \cup {-1}
             /\ e = e0 /\ b \in G => NewAt(e, b)
  <2>1. b \in Block
    BY DEF Reach
  <2>2. ASSUME ~(e = e0 /\ b \in G) PROVE OldAt(e, b) /\ At(e, b)' \in dmap \cup {-1}
    <3>1. b \in Reach(e)
      BY <2>2
    <3>2. At(e, b)' = At(e, b)
      BY <1>5, <1>6, <2>1, <2>2
    <3>3. At(e, b) \in dmap \cup {-1}
      BY <3>1 DEF ReachOwn
    <3>4. dir'[e].name = dir[e].name
      BY <1>3
    <3>5. QED
      BY <3>1, <3>2, <3>3, <3>4 DEF OldAt
  <2>3. ASSUME e = e0, b \in G PROVE NewAt(e, b)
    <3>1. At(e, b)' = m.blocks[b]
      BY <1>6, <2>3
    <3>2. m.blocks[b] \in m.marked \ dmap \/ (m.blocks[b] = -1 /\ m.marked = Data)
      BY <1>5, <2>1, <2>3
    <3>3. QED
      BY <3>1, <3>2 DEF NewAt
  <2>4. QED
    BY <2>1, <2>2, <2>3
<1>8. \A e \in Files' : \A b \in Reach(e)' : OldAt(e, b) \/ NewAt(e, b)
  BY <1>3, <1>7
<1>9. ASSUME NEW e \in Files', NEW g \in Files', NEW a \in Reach(e)', NEW b \in Reach(g)',
             NewAt(e, a), NewAt(g, b), At(e, a)' # -1, At(e, a)' = At(g, b)'
      PROVE  e = g /\ a = b
  <2>1. At(e, a)' \notin dmap \cup {-1}
    BY <1>9 DEF NewAt
  <2>2. e = e0 /\ a \in G /\ g = e0 /\ b \in G
    BY <1>3, <1>7, <1>9, <2>1
  <2>3. a \in Block /\ b \in Block
    BY <1>3, <1>7
  <2>4. QED
    BY <1>3, <1>5, <1>6, <1>9, <2>2, <2>3
<1>10. QED
  BY <1>5, <1>8, <1>9 DEF Renews

(* A file that copy2myfs has saved, or not yet: no stream is in use.       *)
LEMMA CopyRenews ==
  ASSUME FileIInv, ReachOwn, \A i \in Stream : ~InUse(i)', NEW name, NEW size \in 1 .. MAXOFF, NEW saved \in 0 .. 3,
         NEW e0, NEW n, NEW m, Copied(name, size, saved, e0, n, m)
  PROVE  Renews
<1>1. /\ FileTypeOK
      /\ \A x \in Entry : dir[x].inode # -1 => dir[x].inode \in imap
  BY FileParts
<1>2. /\ e0 \in Entry /\ n \in Inode /\ n \notin imap /\ n # -1
      /\ \A b \in BlocksOf(size) : m.blocks[b] # -1
  BY DEF Copied
<1>3. /\ dmap \subseteq m.marked /\ m.marked \subseteq Data
      /\ \A b \in BlocksOf(size) : m.blocks[b] \in m.marked \ dmap
      /\ \A a, b \in BlocksOf(size) : m.blocks[a] = m.blocks[b] => a = b
  BY <1>2 DEF Copied, Gives
<1>4. dmap \subseteq dmap' /\ dmap' \subseteq Data
  BY <1>1, <1>3 DEF Copied, FileTypeOK
<1>5. \A x \in Inode : x # n => inodes'[x] = inodes[x]
  BY <1>1 DEF Copied, FileTypeOK
<1>6. ASSUME NEW e \in Files', NEW b \in Reach(e)', dir'[e] = dir[e] PROVE OldAt(e, b)
  <2>1. e \in Files /\ e \in Entry
    BY <1>6 DEF Files
  <2>2. b \in Reach(e)
    BY <1>6 DEF Reach
  <2>3. dir[e].inode \in Inode /\ dir[e].inode # n
    BY <1>1, <1>2, <2>1 DEF Files, FileTypeOK
  <2>4. QED
    BY <1>5, <1>6, <2>1, <2>2, <2>3 DEF OldAt, At
<1>7. ASSUME NEW e \in Files', NEW b \in Reach(e)', OldAt(e, b) PROVE At(e, b)' = -1 \/ At(e, b)' \in dmap
  BY <1>7 DEF OldAt, ReachOwn
<1>8. CASE saved < 3
  <2>1. dir' = dir
    BY <1>8 DEF Copied
  <2>2. \A e \in Files' : \A b \in Reach(e)' : OldAt(e, b)
    BY <1>6, <2>1
  <2>3. \A e \in Files' : \A b \in Reach(e)' : NewAt(e, b) => At(e, b)' = -1
    BY <1>7, <2>2 DEF NewAt
  <2>4. QED
    BY <1>4, <2>2, <2>3 DEF Renews
<1>9. CASE ~(saved < 3)
  <2>1. saved = 3
    BY <1>9
  <2>2. /\ dir' = [dir EXCEPT ![e0] = [name |-> name, size |-> size, inode |-> n]]
        /\ inodes' = [inodes EXCEPT ![n] = [b \in Block |-> IF b < BLOCKS(size) THEN m.blocks[b] ELSE -1]]
        /\ dmap' = m.marked
    BY <2>1 DEF Copied
  <2>3. /\ dir'[e0].size = size /\ dir'[e0].inode = n
        /\ \A g \in Entry : g # e0 => dir'[g] = dir[g]
    BY <1>1, <1>2, <2>2 DEF FileTypeOK
  <2>4. ASSUME NEW b \in Reach(e0)' PROVE b \in BlocksOf(size) /\ At(e0, b)' = m.blocks[b]
    <3>1. b \in Block /\ b < BLOCKS(size)
      BY <2>3 DEF Reach
    <3>2. b \in BlocksOf(size)
      <4>1. size \in Nat
        BY BlockSize
      <4>2. QED
        BY <3>1, <4>1, BlocksOfSize DEF BlocksOf
    <3>3. inodes'[n][b] = m.blocks[b]
      BY <1>1, <1>2, <2>2, <3>1 DEF FileTypeOK
    <3>4. QED
      BY <2>3, <3>2, <3>3 DEF At
  <2>5. \A e \in Files' : \A b \in Reach(e)' : e # e0 => OldAt(e, b)
    <3>1. \A e \in Files' : e \in Entry
      BY DEF Files
    <3>2. QED
      BY <1>6, <2>3, <3>1
  <2>6. \A b \in Reach(e0)' : NewAt(e0, b)
    BY <1>3, <2>2, <2>4 DEF NewAt
  <2>7. ASSUME NEW e \in Files', NEW g \in Files', NEW a \in Reach(e)', NEW b \in Reach(g)',
               NewAt(e, a), NewAt(g, b), At(e, a)' # -1, At(e, a)' = At(g, b)'
        PROVE  e = g /\ a = b
    <3>1. At(e, a)' \notin dmap /\ At(g, b)' \notin dmap
      BY <2>7 DEF NewAt
    <3>2. e = e0 /\ g = e0
      BY <1>7, <2>5, <2>7, <3>1
    <3>3. QED
      BY <1>3, <2>4, <2>7, <3>2
  <2>8. QED
    BY <1>4, <2>5, <2>6, <2>7 DEF Renews
<1>10. QED
  BY <1>8, <1>9

LEMMA LossInCreateRenews ==
  ASSUME FileIInv, NEW p \in Procs, NEW name \in Names, LossInCreate(p, name)
  PROVE  Renews
<1>. DEFINE e == FreeEntry
            n == INodeAlloc
<1>1. FileTypeOK
  BY FileParts
<1>2. e \in Entry /\ dir[e].inode = -1 /\ n \in Inode /\ n \notin imap /\ n # -1
  BY <1>1, Searches DEF LossInCreate
<1>3. /\ dir' \in {dir, [dir EXCEPT ![e] = NewEntry(name, n)]}
      /\ Powerless /\ inodes' = inodes /\ dmap' = dmap
  BY DEF LossInCreate
<1>. HIDE DEF e, n
<1>4. \A i \in Stream : ~InUse(i)'
  BY <1>3, PowerlessStreams
<1>5. CASE dir' = dir
  BY <1>3, <1>4, <1>5, SameDiskRenews
<1>6. CASE dir' = [dir EXCEPT ![e] = NewEntry(name, n)]
  BY <1>2, <1>3, <1>4, <1>6, CreateRenews
<1>7. QED
  BY <1>3, <1>5, <1>6

LEMMA LossInWriteRenews ==
  ASSUME FileIInv, ReachOwn, NEW p \in Procs, NEW d \in Fd, NEW len \in Lens, LossInWrite(p, d, len)
  PROVE  Renews
<1>. DEFINE i == Of(p, d)
            f == fs[i]
            w == WritePlan(f, len)
<1>1. /\ Holds(p, d) /\ w.end <= MAXOFF /\ ~w.over /\ Powerless /\ imap' = imap
      /\ \E s \in SavedParts(w) :
           /\ dmap' = s[1]
           /\ inodes' = [inodes EXCEPT ![f.inode] = s[2].blocks]
           /\ dir' = [dir EXCEPT ![f.entry].size = s[3]]
  BY DEF LossInWrite
<1>2. i \in Stream /\ f \in StreamType /\ len \in Nat /\ f.inode = dir[f.entry].inode
  BY <1>1, HeldStream, FileAssumption
<1>3. FileTypeOK
  BY FileParts
<1>4. /\ w.old = dir[f.entry].size /\ w.m1.marked \subseteq w.m2.marked
      /\ Gives(Block, dmap, inodes[f.inode], {}, w.m0)
      /\ Gives(Block, dmap, inodes[f.inode], FirstGiven(f), w.m1)
      /\ \E G : Gives(Block, dmap, inodes[f.inode], G, w.m2)
      /\ w.m0 = [marked |-> dmap, blocks |-> inodes[f.inode]]
  BY <1>1, <1>2, <1>3, WritePlanParts
<1>. HIDE DEF i, f, w
<1>5. f.inode \in Inode /\ f.entry \in Entry /\ f.entry \in Files
  BY <1>2, RangesAreNat DEF StreamType, Files
<1>6. PICK s \in SavedParts(w) :
        /\ dmap' = s[1]
        /\ inodes' = [inodes EXCEPT ![f.inode] = s[2].blocks]
        /\ dir' = [dir EXCEPT ![f.entry].size = s[3]]
  BY <1>1
<1>7. s \in {<<w.m1.marked, w.m0, w.old>>, <<w.m2.marked, w.m2, w.old>>}
        \/ \E M \in MarkedSoFar(w) : s = <<M, w.m1, w.old>>
  BY DEF SavedParts
<1>8. s[3] = w.old /\ s[2] \in {w.m0, w.m1, w.m2}
  BY <1>7
<1>9. w.m0.marked \subseteq w.m1.marked /\ w.m2.marked \subseteq Data
  BY <1>4 DEF Gives
<1>10. s[2].marked \subseteq s[1] /\ s[1] \subseteq w.m2.marked
  BY <1>4, <1>7, <1>9 DEF MarkedSoFar
<1>11. dmap' \subseteq Data /\ \E G : Gives(Block, dmap, inodes[f.inode], G, s[2])
  BY <1>4, <1>6, <1>8, <1>9, <1>10
<1>12. /\ dir[f.entry].size \in 0 .. MAXOFF
       /\ dir \in [Entry -> EntryType]
  BY <1>3, <1>5 DEF FileTypeOK, EntryType
<1>13. \A g \in Entry : dir'[g].inode = dir[g].inode /\ dir'[g].name = dir[g].name /\ dir'[g].size = dir[g].size
  BY <1>4, <1>5, <1>6, <1>8, <1>12 DEF EntryType
<1>14. \A e \in Files : \A b \in Reach(e)' : b \in Reach(e)
  <2>1. \A j \in Stream : ~InUse(j)'
    BY <1>1, PowerlessStreams
  <2>2. QED
    BY <1>13, <2>1 DEF Reach, Files
<1>15. QED
  BY <1>2, <1>5, <1>6, <1>10, <1>11, <1>13, <1>14, GivesRenews

-----------------------------------------------------------------------------
(* The first copy, to the empty disk.                                      *)

(* After k turns the first k data blocks are marked, as far as there are   *)
(* any, and block b of the file is data block b.                           *)
FirstInv(par, k, s) ==
  /\ s.marked = {x \in Data : x < k}
  /\ s.blocks \in [par -> Ref]
  /\ \A b \in par : b < k => s.blocks[b] \in {b, -1}

First == INSTANCE FoldTheorems WITH op <- AllocTurn, Inv <- FirstInv

LEMMA FirstTurn ==
  ASSUME NEW dom \in SUBSET Nat, NEW k \in Nat, NEW s, FirstInv(dom, k, s)
  PROVE  FirstInv(dom, k + 1, AllocTurn(dom, s, k))
<1>. DEFINE i == dataAlloc(s.marked)
            t == AllocTurn(dom, s, k)
<1>1. s.marked = {x \in Data : x < k} /\ s.blocks \in [dom -> Ref]
      /\ \A b \in dom : b < k => s.blocks[b] \in {b, -1}
  BY DEF FirstInv
<1>2. t.marked = Marked(s.marked, i) /\ t.blocks = [s.blocks EXCEPT ![k] = i]
  BY DEF AllocTurn
<1>3. SC_DATA \in Nat
  BY FileAssumption
<1>4. \/ i = -1 /\ Data \ s.marked = {}
      \/ i = k /\ k \in Data
  <2>1. Data \ s.marked \in SUBSET Nat
    BY RangesAreNat
  <2>2. CASE Data \ s.marked = {}
    BY <2>1, <2>2, FirstOrNoneIsMember DEF dataAlloc
  <2>3. CASE Data \ s.marked # {}
    <3>1. i \in Data \ s.marked /\ \A x \in Data \ s.marked : i <= x
      BY <2>1, <2>3, LowestIsMember DEF dataAlloc, FirstOrNone
    <3>. HIDE DEF i
    <3>2. i \in Nat /\ i \in Data /\ ~(i < k)
      BY <1>1, <3>1, RangesAreNat
    <3>3. k \in Data /\ k \notin s.marked
      BY <1>1, <1>3, <3>2 DEF Data
    <3>4. i <= k
      BY <3>1, <3>3
    <3>5. QED
      BY <3>2, <3>3, <3>4
  <2>4. QED
    BY <2>2, <2>3
<1>. HIDE DEF i, t
<1>5. t.marked = {x \in Data : x < k + 1}
  <2>1. \A x \in Data : x \in Nat /\ (x < k + 1 <=> x < k \/ x = k)
    BY RangesAreNat
  <2>2. -1 \notin Data
    BY RangesAreNat
  <2>3. CASE i = -1 /\ Data \ s.marked = {}
    <3>1. t.marked = s.marked
      BY <1>2, <2>3 DEF Marked
    <3>2. QED
      BY <1>1, <2>1, <2>3, <3>1
  <2>4. CASE i = k /\ k \in Data
    <3>1. t.marked = s.marked \cup {k}
      BY <1>2, <2>2, <2>4 DEF Marked
    <3>2. QED
      BY <1>1, <2>1, <2>4, <3>1
  <2>5. QED
    BY <1>4, <2>3, <2>4
<1>6. i \in Ref /\ i \in {k, -1}
  BY <1>4 DEF Ref
<1>7. t.blocks \in [dom -> Ref] /\ \A b \in dom : t.blocks[b] = IF b = k THEN i ELSE s.blocks[b]
  BY <1>1, <1>2, <1>6
<1>8. \A b \in dom : b < k + 1 => t.blocks[b] \in {b, -1}
  <2>1. \A b \in dom : b < k + 1 <=> b < k \/ b = k
    OBVIOUS
  <2>2. QED
    BY <1>1, <1>6, <1>7, <2>1
<1>9. QED
  BY <1>5, <1>7, <1>8 DEF FirstInv, t

(* So the kernel lies where the boot loader looks for it.                  *)
LEMMA FirstCopy ==
  ASSUME dmap = {}, NEW size \in Nat
  PROVE  \A b \in BlocksOf(size) : CopyLoop(size).blocks[b] \in {b, -1}
<1>. DEFINE dom == BlocksOf(size)
            to == BLOCKS(size) - 1
            base == [marked |-> dmap, blocks |-> [b \in dom |-> -1]]
            seq == [k \in 1 .. to - 0 + 1 |-> 0 + k - 1]
<1>1. dom \in SUBSET Nat /\ BLOCKS(size) \in Nat
  <2>1. BLOCKS(size) \in Nat
    <3>1. 0 \in Int
      OBVIOUS
    <3>2. QED
      BY <3>1, WithinBlocks
  <2>2. QED
    BY <2>1 DEF BlocksOf
<1>2. seq \in Seq(Int) /\ Len(seq) = BLOCKS(size)
  BY <1>1
<1>3. FirstInv(dom, 0, base)
  <2>1. \A x \in Data : x \in Nat /\ ~(x < 0)
    BY RangesAreNat
  <2>2. {x \in Data : x < 0} = {}
    BY <2>1
  <2>3. \A b \in dom : ~(b < 0)
    BY <1>1
  <2>4. base.blocks \in [dom -> Ref]
    BY DEF Ref
  <2>. HIDE DEF dom
  <2>5. QED
    BY <2>2, <2>3, <2>4 DEF FirstInv
<1>4. \A i \in 1 .. Len(seq) : \A r : FirstInv(dom, i - 1, r) => FirstInv(dom, i, AllocTurn(dom, r, seq[i]))
  <2>. TAKE i \in 1 .. Len(seq)
  <2>. TAKE r
  <2>. HAVE FirstInv(dom, i - 1, r)
  <2>1. i - 1 \in Nat /\ i = (i - 1) + 1 /\ seq[i] = i - 1
    BY <1>1, <1>2
  <2>. HIDE DEF seq, dom
  <2>2. FirstInv(dom, (i - 1) + 1, AllocTurn(dom, r, i - 1))
    BY <1>1, <2>1, FirstTurn
  <2>3. QED
    BY <2>1, <2>2
<1>5. FirstInv(dom, Len(seq), First!Folded(dom, base, seq))
  <2>. HIDE DEF seq, dom, base
  <2>1. QED
    BY <1>2, <1>3, <1>4, First!FoldInvariant
<1>6. Allocated(base, 0, to) = First!Folded(dom, base, seq)
  BY DEF Allocated, AllocTurn, FoldLeft, MapThenFoldSet, First!Folded, First!Step, First!Highest, Max
<1>7. CopyLoop(size) = Allocated(base, 0, to)
  BY DEF CopyLoop
<1>8. \A b \in dom : b < BLOCKS(size)
  BY <1>1 DEF BlocksOf
<1>9. QED
  <2>. HIDE DEF seq, base, to
  <2>1. QED
    BY <1>2, <1>5, <1>6, <1>7, <1>8 DEF FirstInv

-----------------------------------------------------------------------------
(* fs_write_kr.                                                            *)

(* The block the write starts in is one of those it changes.               *)
LEMMA FirstTouched ==
  ASSUME NEW o \in Nat, NEW len \in Nat \ {0}, o + len <= NR_BLOCKS * BLOCK_SIZE
  PROVE  o \div BLOCK_SIZE \in Touched(o, len)
<1>1. PICK q \in Nat : q = o \div BLOCK_SIZE /\ q * BLOCK_SIZE <= o /\ o < q * BLOCK_SIZE + BLOCK_SIZE
  BY Quotient, BlockSize
<1>2. (q + 1) * BLOCK_SIZE = q * BLOCK_SIZE + BLOCK_SIZE /\ q * BLOCK_SIZE \in Nat /\ NR_BLOCKS * BLOCK_SIZE \in Nat
  BY BlockSize
<1>3. q < NR_BLOCKS
  <2>1. SUFFICES ASSUME q >= NR_BLOCKS PROVE FALSE
    BY BlockSize
  <2>2. q * BLOCK_SIZE >= NR_BLOCKS * BLOCK_SIZE
    BY <2>1, Multiples, BlockSize
  <2>3. QED
    BY <1>1, <1>2, <2>2
<1>4. q \in Block
  BY <1>3, BlockSize DEF Block
<1>5. QED
  BY <1>1, <1>2, <1>4 DEF Touched

(* Unless the write starts beyond the file, every block within the new     *)
(* size was within the old one, in the stream or in the directory, or is   *)
(* given to the file.                                                      *)
LEMMA WritePlaces ==
  ASSUME NEW f, f.file_size \in Nat, f.offset \in Nat, NEW len \in Nat \ {0}, NEW old \in Nat, NEW size,
         size = IF f.offset + len > SizeGiven(f, len) THEN f.offset + len ELSE SizeGiven(f, len),
         LET b0 == f.offset \div BLOCK_SIZE
         IN  b0 < BLOCKS(f.file_size) \/ b0 < BLOCKS(old) \/ b0 \in Given(f, len)
  PROVE  /\ size \in Nat /\ f.offset + len <= size
         /\ \A b \in Block : b < BLOCKS(size) => b < BLOCKS(f.file_size) \/ b < BLOCKS(old) \/ b \in Given(f, len)
<1>. DEFINE o == f.offset
            F == f.file_size
            end == o + len
            S == SizeGiven(f, len)
            b0 == o \div BLOCK_SIZE
<1>1. S \in Nat /\ end \in Nat /\ BLOCK_SIZE \in Nat \ {0}
  BY BlockSize DEF SizeGiven
<1>2. b0 \in Nat
  BY Quotient, BlockSize
<1>3. Given(f, len) = FirstGiven(f) \cup (IF end > S THEN b0 + 1 .. end \div BLOCK_SIZE ELSE {})
  BY DEF Given
<1>4. BLOCKS(F) \in Nat /\ BLOCKS(old) \in Nat
  <2>1. 0 \in Int
    OBVIOUS
  <2>2. QED
    BY <2>1, WithinBlocks
<1>5. end \div BLOCK_SIZE \in Nat
  BY <1>1, Quotient
<1>6. \A b \in Block : b \in Nat /\ b \in Int
  BY RangesAreNat
<1>7. \A b \in Block : b < BLOCKS(end) => b <= end \div BLOCK_SIZE
  <2>. TAKE b \in Block
  <2>1. b < BLOCKS(end) => b * BLOCK_SIZE < end /\ b * BLOCK_SIZE \in Int
    BY <1>1, <1>6, WithinBlocks
  <2>2. b * BLOCK_SIZE <= end => b <= end \div BLOCK_SIZE
    BY <1>1, <1>6, BelowQuotient
  <2>. HIDE DEF end
  <2>3. QED
    BY <1>1, <2>1, <2>2
<1>8. size \in Nat /\ end <= size /\ (end > S => size = end) /\ (~(end > S) => size = S)
  BY <1>1
<1>9. ASSUME NEW b \in Block, b < BLOCKS(size), end > S
      PROVE  b < BLOCKS(F) \/ b < BLOCKS(old) \/ b \in Given(f, len)
  <2>1. b <= end \div BLOCK_SIZE /\ b \in Nat
    BY <1>6, <1>7, <1>8, <1>9
  <2>2. CASE b > b0
    <3>1. b \in b0 + 1 .. end \div BLOCK_SIZE
      <4>. HIDE DEF b0, end
      <4>1. QED
        BY <1>2, <1>5, <2>1, <2>2
    <3>2. QED
      BY <1>3, <1>9, <3>1
  <2>3. CASE b <= b0
    <3>1. b0 \in Given(f, len) => b \in Given(f, len)
      <4>1. b0 \notin b0 + 1 .. end \div BLOCK_SIZE
        <5>. HIDE DEF b0
        <5>1. QED
          BY <1>2, <1>5
      <4>2. b0 \in Given(f, len) => b0 \in FirstGiven(f)
        BY <1>3, <4>1
      <4>3. b0 \in FirstGiven(f) => b0 = 0
        <5>. HIDE DEF b0
        <5>1. QED
          BY <1>2 DEF FirstGiven
      <4>. HIDE DEF b0
      <4>4. QED
        BY <1>2, <2>1, <2>3, <4>2, <4>3
    <3>. HIDE DEF b0
    <3>2. b0 < BLOCKS(F) => b < BLOCKS(F)
      BY <1>2, <1>4, <2>1, <2>3
    <3>3. b0 < BLOCKS(old) => b < BLOCKS(old)
      BY <1>2, <1>4, <2>1, <2>3
    <3>4. QED
      BY <3>1, <3>2, <3>3 DEF b0
  <2>4. QED
    <3>. HIDE DEF b0
    <3>1. QED
      BY <1>2, <2>1, <2>2, <2>3
<1>10. ASSUME NEW b \in Block, b < BLOCKS(size), ~(end > S)
       PROVE  b < BLOCKS(F) \/ b \in Given(f, len)
  <2>1. size = S
    BY <1>8, <1>10
  <2>2. CASE F # 0
    BY <1>10, <2>1, <2>2 DEF SizeGiven
  <2>3. CASE F = 0
    <3>1. size <= BLOCK_SIZE
      BY <1>1, <2>1, <2>3 DEF SizeGiven
    <3>2. b * BLOCK_SIZE < size
      BY <1>6, <1>8, <1>10, WithinBlocks
    <3>3. b \in Nat
      BY <1>6
    <3>4. b = 0
      <4>1. SUFFICES ASSUME b >= 1 PROVE FALSE
        BY <3>3
      <4>2. b * BLOCK_SIZE >= 1 * BLOCK_SIZE
        BY <1>1, <3>3, <4>1, Multiples
      <4>3. b * BLOCK_SIZE \in Nat
        BY <1>1, <3>3
      <4>. HIDE DEF S, end
      <4>4. QED
        BY <1>1, <1>8, <3>1, <3>2, <4>2, <4>3
    <3>5. 0 \in FirstGiven(f)
      BY <2>3 DEF FirstGiven
    <3>6. QED
      BY <1>3, <3>4, <3>5
  <2>4. QED
    BY <2>2, <2>3
<1>11. QED
  BY <1>8, <1>9, <1>10

(* A write that has not gone astray renews the file, and all the blocks it *)
(* changes are within the file.  A write of nothing could raise the size   *)
(* over a hole: no byte is written then, so no fault is met.               *)
LEMMA WriteRenews ==
  ASSUME FileIInv, ReachOwn, NEW p \in Procs, NEW d \in Fd, NEW len \in Lens, len # 0,
         Write(p, d, len), fault' = "none", NEW e, e = fs[Of(p, d)].entry
  PROVE  LET f == fs[Of(p, d)]
         IN  /\ Renews
             /\ e \in Files' /\ dir'[e].name = dir[e].name
             /\ \A b \in Touched(f.offset, len) :
                  b \in Reach(e)' /\ inodes'[f.inode][b] = At(e, b)'
<1>. DEFINE i == Of(p, d)
            f == fs[i]
            w == WritePlan(f, len)
            G == Given(f, len)
<1>1. e = f.entry
  OBVIOUS
<1>2. Holds(p, d) /\ w.end <= MAXOFF /\ UNCHANGED <<fcb, live>>
  BY DEF Write
<1>3. /\ i \in Stream /\ f \in StreamType /\ InUse(i) /\ len \in Nat \ {0}
      /\ f.inode = dir[e].inode
  BY <1>1, <1>2, HeldStream, FileAssumption
<1>4. FileTypeOK
  BY FileParts
<1>5. /\ ~w.over
      /\ inodes' = [inodes EXCEPT ![f.inode] = w.m2.blocks]
      /\ dmap'   = w.m2.marked
      /\ dir'    = [dir EXCEPT ![e].size = w.size]
      /\ fs'     = [fs EXCEPT ![i].file_size = w.size, ![i].offset = w.end]
      /\ UNCHANGED imap
  BY <1>1 DEF Write
<1>6. \A b \in Touched(f.offset, len) : ~Stray(f, w, b)
  <2>1. fault' = IF \E b \in Touched(f.offset, len) : Stray(f, w, b) THEN "stray" ELSE fault
    BY <1>5 DEF Write
  <2>2. QED
    BY <2>1
<1>7. /\ w.end \in 0 .. MAXOFF /\ w.size \in 0 .. MAXOFF /\ w.end = f.offset + len
      /\ w.size = IF w.end > SizeGiven(f, len) THEN w.end ELSE SizeGiven(f, len)
      /\ w.m0 = [marked |-> dmap, blocks |-> inodes[f.inode]]
      /\ w.old = dir[e].size
      /\ Gives(Block, dmap, inodes[f.inode], G, w.m2)
      /\ w.end <= NR_BLOCKS * BLOCK_SIZE
  BY <1>1, <1>2, <1>3, <1>4, <1>5, WritePlanParts
<1>. HIDE DEF i, f, w, G
<1>8. /\ f.inode \in Inode /\ e \in Entry /\ e \in Files
      /\ f.offset \in Nat /\ f.file_size \in Nat /\ f.offset \in 0 .. MAXOFF
  BY <1>1, <1>3, BlockSize, RangesAreNat DEF StreamType, Files
<1>9. dir \in [Entry -> EntryType] /\ fs \in [Stream -> StreamType] /\ w.old \in Nat
  <2>1. dir \in [Entry -> EntryType] /\ fs \in [Stream -> StreamType]
    BY <1>4 DEF FileTypeOK, EntryType, StreamType
  <2>2. dir[e].size \in 0 .. MAXOFF
    BY <1>8, <2>1 DEF EntryType
  <2>3. QED
    BY <1>7, <2>1, <2>2, BlockSize
<1>10. LET b0 == f.offset \div BLOCK_SIZE
      IN  b0 < BLOCKS(f.file_size) \/ b0 < BLOCKS(w.old) \/ b0 \in G
  <2>. DEFINE b0 == f.offset \div BLOCK_SIZE
  <2>1. b0 \in Touched(f.offset, len)
    BY <1>3, <1>7, <1>8, FirstTouched
  <2>2. ~Stray(f, w, b0)
    BY <1>6, <2>1
  <2>3. b0 \in Block
    BY <2>1 DEF Touched
  <2>. HIDE DEF b0
  <2>4. b0 \notin G => w.m2.blocks[b0] = w.m0.blocks[b0]
    <3>1. \A b \in Block : b \notin G => w.m2.blocks[b] = inodes[f.inode][b]
      BY <1>7 DEF Gives
    <3>2. w.m0.blocks = inodes[f.inode]
      BY <1>7
    <3>3. QED
      BY <2>3, <3>1, <3>2
  <2>5. ~(b0 >= BLOCKS(f.file_size) /\ b0 >= BLOCKS(w.old) /\ w.m2.blocks[b0] = w.m0.blocks[b0])
    BY <2>2 DEF Stray
  <2>6. BLOCKS(f.file_size) \in Int /\ BLOCKS(w.old) \in Int /\ b0 \in Int
    BY <1>8, <1>9, <2>3, BlocksOfSize, RangesAreNat
  <2>7. QED
    BY <2>4, <2>5, <2>6 DEF b0
<1>11. /\ w.size \in Nat /\ f.offset + len <= w.size
       /\ \A b \in Block : b < BLOCKS(w.size) => b < BLOCKS(f.file_size) \/ b < BLOCKS(w.old) \/ b \in G
  BY <1>3, <1>7, <1>8, <1>9, <1>10, WritePlaces DEF G
<1>12. \A g \in Entry : /\ dir'[g].inode = dir[g].inode /\ dir'[g].name = dir[g].name
                        /\ dir'[g].size = IF g = e THEN w.size ELSE dir[g].size
  BY <1>5, <1>8, <1>9 DEF EntryType
<1>13. \A j \in Stream : /\ fs'[j].used = fs[j].used /\ fs'[j].entry = fs[j].entry
                         /\ fs'[j].file_size = IF j = i THEN w.size ELSE fs[j].file_size
  BY <1>3, <1>5, <1>9 DEF StreamType
<1>14. \A j \in Stream : InUse(j)' <=> InUse(j)
  BY <1>2, <1>13 DEF InUse
<1>15. \A b \in Block : b < BLOCKS(w.size) => b \in Reach(e) \/ b \in G
  <2>1. \A b \in Block : b < BLOCKS(f.file_size) \/ b < BLOCKS(w.old) => b \in Reach(e)
    BY <1>1, <1>3, <1>7 DEF Reach, f
  <2>2. QED
    BY <1>11, <2>1
<1>16. \A g \in Files : \A b \in Reach(g)' : b \in Reach(g) \/ (g = e /\ b \in G)
  <2>. SUFFICES ASSUME NEW g \in Files, NEW b \in Reach(g)' PROVE b \in Reach(g) \/ (g = e /\ b \in G)
    OBVIOUS
  <2>1. b \in Block /\ g \in Entry
    BY DEF Reach, Files
  <2>2. CASE b < BLOCKS(dir'[g].size)
    <3>1. CASE g = e
      BY <1>12, <1>15, <2>1, <2>2, <3>1
    <3>2. CASE g # e
      <4>1. b < BLOCKS(dir[g].size)
        BY <1>12, <2>1, <2>2, <3>2
      <4>2. QED
        BY <2>1, <4>1 DEF Reach
    <3>3. QED
      BY <3>1, <3>2
  <2>3. ASSUME NEW j \in Stream, InUse(j)', fs'[j].entry = g, b < BLOCKS(fs'[j].file_size)
        PROVE  b \in Reach(g) \/ (g = e /\ b \in G)
    <3>1. InUse(j) /\ fs[j].entry = g
      BY <1>13, <1>14, <2>3
    <3>2. CASE j = i
      <4>1. g = e /\ b < BLOCKS(w.size)
        BY <1>1, <1>13, <2>3, <3>1, <3>2 DEF f
      <4>2. QED
        BY <1>15, <2>1, <4>1
    <3>3. CASE j # i
      <4>1. b < BLOCKS(fs[j].file_size)
        BY <1>13, <2>3, <3>3
      <4>2. QED
        BY <2>1, <3>1, <4>1 DEF Reach
    <3>4. QED
      BY <3>2, <3>3
  <2>4. QED
    BY <2>2, <2>3 DEF Reach
<1>17. Renews
  <2>1. w.m2.marked \subseteq dmap' /\ dmap' \subseteq Data
    BY <1>5, <1>7 DEF Gives
  <2>2. inodes' = [inodes EXCEPT ![dir[e].inode] = w.m2.blocks] /\ Gives(Block, dmap, inodes[dir[e].inode], G, w.m2)
    BY <1>3, <1>5, <1>7
  <2>3. \A g \in Entry : dir'[g].inode = dir[g].inode /\ dir'[g].name = dir[g].name
    BY <1>12
  <2>4. QED
    BY <1>8, <1>16, <2>1, <2>2, <2>3, GivesRenews
<1>18. e \in Files' /\ dir'[e].name = dir[e].name /\ dir'[e].inode = f.inode /\ dir'[e].size = w.size
  BY <1>3, <1>8, <1>12 DEF Files
<1>19. \A b \in Touched(f.offset, len) : b \in Reach(e)' /\ inodes'[f.inode][b] = At(e, b)'
  <2>. TAKE b \in Touched(f.offset, len)
  <2>1. b \in Block /\ b * BLOCK_SIZE < f.offset + len
    BY DEF Touched
  <2>2. b \in Int /\ b * BLOCK_SIZE \in Int
    BY <2>1, RangesAreNat, BlockSize
  <2>3. b * BLOCK_SIZE < w.size
    <3>1. f.offset + len \in Int
      BY <1>3, <1>8
    <3>2. QED
      BY <1>11, <2>1, <2>2, <3>1
  <2>4. b < BLOCKS(w.size)
    BY <1>11, <2>2, <2>3, WithinBlocks
  <2>5. QED
    BY <1>18, <2>1, <2>4 DEF Reach, At
<1>20. QED
  BY <1>17, <1>18, <1>19 DEF f, i

-----------------------------------------------------------------------------
(* The invariant of the disk.                                              *)

DiskKept == ReachOwn /\ ReachFull /\ KernelKept

LEMMA RenewsDisk ==
  ASSUME DiskKept, Renews, BlocksOf(KSIZE) \subseteq image'
  PROVE  DiskKept'
<1>1. ReachOwn /\ ReachFull /\ Others /\ BlocksOf(KSIZE) \subseteq dmap
  BY DEF DiskKept, KernelKept
<1>2. ReachOwn' /\ ReachFull' /\ Others'
  BY <1>1, RenewsKeeps
<1>3. BlocksOf(KSIZE) \subseteq dmap'
  BY <1>1 DEF Renews
<1>4. QED
  BY <1>2, <1>3 DEF DiskKept, KernelKept

LEMMA KernelSize == KSIZE \in 1 .. MAXOFF /\ KSIZE \in Nat /\ KERNEL \in Names /\ 3 \in 0 .. 3
<1>1. KSIZE \in 1 .. MAXOFF /\ KERNEL \in Names
  BY ToolsAssumption
<1>2. QED
  BY <1>1, BlockSize

(* The kernel is copied to the empty disk.                                 *)
LEMMA KernelCopied ==
  ASSUME DiskIInv, phase = "blank", CopyFile(KERNEL, KSIZE, 3), fault' = "none"
  PROVE  DiskKept'
<1>. DEFINE e == CopyEntry(KERNEL)
            n == INodeAlloc
            m == CopyLoop(KSIZE)
<1>1. FileIInv /\ Files = {} /\ dmap = {} /\ \A i \in Stream : ~InUse(i)
  BY DEF DiskIInv, ToolsFileInv, PowerInv, BlankDisk
<1>2. ReachOwn /\ ReachFull
  BY <1>1 DEF ReachOwn, ReachFull
<1>3. Copied(KERNEL, KSIZE, 3, e, n, m)
  <2>1. \/ UNCHANGED <<diskVars, image>> /\ fault' \in {"dir", "stray"}
        \/ Copied(KERNEL, KSIZE, 3, CopyEntry(KERNEL), INodeAlloc, CopyLoop(KSIZE))
    BY <1>1, KernelSize, CopyParts
  <2>2. QED
    BY <2>1
<1>4. \A i \in Stream : ~InUse(i)'
  BY <1>1, KernelSize, CopyKeeps
<1>5. \A b \in BlocksOf(KSIZE) : m.blocks[b] \in {b, -1}
  BY <1>1, KernelSize, FirstCopy
<1>. HIDE DEF e, n, m
<1>6. Renews
  BY <1>1, <1>2, <1>3, <1>4, KernelSize, CopyRenews
<1>7. /\ \A b \in BlocksOf(KSIZE) : m.blocks[b] # -1
      /\ dmap' = m.marked /\ image' = {k \in DOMAIN m.blocks : m.blocks[k] = k}
      /\ dir' = [dir EXCEPT ![e] = [name |-> KERNEL, size |-> KSIZE, inode |-> n]]
      /\ DOMAIN m.blocks = BlocksOf(KSIZE)
      /\ \A b \in BlocksOf(KSIZE) : m.blocks[b] # -1 => m.blocks[b] \in m.marked
  BY <1>3 DEF Copied, Gives
<1>8. \A b \in BlocksOf(KSIZE) : m.blocks[b] = b
  BY <1>5, <1>7
<1>9. BlocksOf(KSIZE) \subseteq image' \cap dmap'
  BY <1>7, <1>8
<1>10. \A g \in Files' : dir'[g].name = KERNEL
  <2>1. FileTypeOK
    BY <1>1, FileParts
  <2>2. \A g \in Entry : dir'[g] = dir[g] \/ dir'[g].name = KERNEL
    BY <1>7, <2>1 DEF FileTypeOK
  <2>3. \A g \in Entry : dir[g].inode = -1
    BY <1>1 DEF Files
  <2>4. QED
    BY <2>2, <2>3 DEF Files
<1>11. ReachOwn' /\ ReachFull'
  BY <1>2, <1>6, RenewsKeeps
<1>12. QED
  BY <1>9, <1>10, <1>11 DEF DiskKept, KernelKept, Others

(* Another file is copied: it gets blocks that were not marked.            *)
LEMMA FileCopied ==
  ASSUME FileIInv, DiskKept, \A i \in Stream : ~InUse(i), phase = "off",
         NEW name \in Names, NEW size \in 1 .. MAXOFF, NEW saved \in 0 .. 3,
         CopyFile(name, size, saved), fault' = "none"
  PROVE  DiskKept'
<1>. DEFINE e == CopyEntry(name)
            n == INodeAlloc
            m == CopyLoop(size)
<1>1. Copied(name, size, saved, e, n, m)
  <2>1. \/ UNCHANGED <<diskVars, image>> /\ fault' \in {"dir", "stray"}
        \/ Copied(name, size, saved, CopyEntry(name), INodeAlloc, CopyLoop(size))
    BY CopyParts
  <2>2. QED
    BY <2>1
<1>2. \A i \in Stream : ~InUse(i)'
  BY CopyKeeps
<1>. HIDE DEF e, n, m
<1>3. ReachOwn /\ BlocksOf(KSIZE) \subseteq image \cap dmap
  BY DEF DiskKept, KernelKept
<1>4. Renews
  BY <1>1, <1>2, <1>3, CopyRenews
<1>5. /\ image' = image \ {m.blocks[b] : b \in BlocksOf(size)}
      /\ \A b \in BlocksOf(size) : m.blocks[b] \notin dmap
  BY <1>1 DEF Copied, Gives
<1>6. QED
  BY <1>3, <1>4, <1>5, RenewsDisk

(* A file is written: the blocks of other files are not the kernel's.      *)
LEMMA FileWritten ==
  ASSUME FileIInv, DiskKept, NEW p \in Procs, NEW d \in Fd, NEW len \in Lens, len # 0,
         WriteCall(p, d, len), fault' = "none"
  PROVE  DiskKept'
<1>. DEFINE f == fs[Of(p, d)]
<1>1. PICK e : e = f.entry
  OBVIOUS
<1>2. Write(p, d, len) /\ image' = IF dir[e].name = KERNEL THEN image
                                   ELSE image \ {inodes'[f.inode][b] : b \in Touched(f.offset, len)}
  BY <1>1 DEF WriteCall, On
<1>3. ReachOwn /\ ReachFull /\ Others /\ BlocksOf(KSIZE) \subseteq dmap /\ BlocksOf(KSIZE) \subseteq image
  BY DEF DiskKept, KernelKept
<1>4. /\ Renews
      /\ e \in Files' /\ dir'[e].name = dir[e].name
      /\ \A b \in Touched(f.offset, len) : b \in Reach(e)' /\ inodes'[f.inode][b] = At(e, b)'
  BY <1>1, <1>2, <1>3, WriteRenews
<1>. HIDE DEF f
<1>5. Others'
  BY <1>3, <1>4, RenewsKeeps
<1>6. dir[e].name # KERNEL => \A b \in Touched(f.offset, len) : inodes'[f.inode][b] \notin BlocksOf(KSIZE)
  BY <1>4, <1>5 DEF Others
<1>7. BlocksOf(KSIZE) \subseteq image'
  BY <1>2, <1>3, <1>6
<1>8. QED
  BY <1>4, <1>7, RenewsDisk

(* The other calls and the power leave the kernel alone.                   *)
LEMMA OtherRenews ==
  ASSUME FileIInv, DiskKept,
         \/ PowerOn \/ PowerOff
         \/ \E p \in Procs : On(OtherCall(p)) /\ UNCHANGED image
         \/ \E p \in Procs, d \in Fd, len \in Lens : LossInWrite(p, d, len)
         \/ \E p \in Procs, name \in Names : LossInCreate(p, name)
  PROVE  DiskKept'
<1>1. ReachOwn /\ BlocksOf(KSIZE) \subseteq image
  BY DEF DiskKept, KernelKept
<1>2. CASE PowerOn
  <2>1. UNCHANGED <<dir, inodes, dmap, fs, fcb, image>>
    BY <1>2 DEF PowerOn, diskVars
  <2>2. \A i \in Stream : InUse(i)' => InUse(i)
    BY <2>1 DEF InUse
  <2>3. Renews
    BY <2>1, <2>2, SameDiskRenews
  <2>4. QED
    BY <1>1, <2>1, <2>3, RenewsDisk
<1>3. CASE PowerOff
  <2>1. UNCHANGED <<dir, inodes, dmap, image>> /\ Powerless
    BY <1>3 DEF PowerOff, diskVars
  <2>2. \A i \in Stream : ~InUse(i)'
    BY <2>1, PowerlessStreams
  <2>3. Renews
    BY <2>1, <2>2, SameDiskRenews
  <2>4. QED
    BY <1>1, <2>1, <2>3, RenewsDisk
<1>4. ASSUME NEW p \in Procs, On(OtherCall(p)), UNCHANGED image PROVE DiskKept'
  <2>1. Renews
    BY <1>4, OpenRenews, LseekCloseRenews DEF On, OtherCall
  <2>2. QED
    BY <1>1, <1>4, <2>1, RenewsDisk
<1>5. ASSUME NEW p \in Procs, NEW d \in Fd, NEW len \in Lens, LossInWrite(p, d, len) PROVE DiskKept'
  <2>1. image' = image
    BY <1>5 DEF LossInWrite
  <2>2. QED
    BY <1>1, <1>5, <2>1, LossInWriteRenews, RenewsDisk
<1>6. ASSUME NEW p \in Procs, NEW name \in Names, LossInCreate(p, name) PROVE DiskKept'
  <2>1. image' = image
    BY <1>6 DEF LossInCreate
  <2>2. QED
    BY <1>1, <1>6, <2>1, LossInCreateRenews, RenewsDisk
<1>7. QED
  BY <1>2, <1>3, <1>4, <1>5, <1>6

LEMMA DiskInit == ToolsInit => DiskIInv
<1>. SUFFICES ASSUME ToolsInit PROVE DiskIInv
  OBVIOUS
<1>1. ToolsFileInv
  BY ToolsFileInit
<1>2. dir = [e \in Entry |-> NewEntry("", -1)] /\ phase = "blank" /\ imap = {} /\ dmap = {}
  BY DEF ToolsInit
<1>3. Files = {}
  BY <1>2 DEF Files, NewEntry
<1>4. QED
  BY <1>1, <1>2, <1>3 DEF DiskIInv, BlankDisk, ReachOwn, ReachFull

LEMMA DiskStutter == DiskIInv /\ ToolsFileInv' /\ UNCHANGED allVars => DiskIInv'
<1>. SUFFICES ASSUME DiskIInv, ToolsFileInv', UNCHANGED allVars PROVE DiskIInv'
  OBVIOUS
<1>1. UNCHANGED <<dir, inodes, imap, dmap, fs, fcb, fault, phase, image>>
  BY DEF allVars, vars, diskVars, toolVars
<1>2. BlankDisk'
  BY <1>1 DEF DiskIInv, BlankDisk, Files
<1>3. Files' = Files /\ \A e : Reach(e)' = Reach(e)
  BY <1>1 DEF Files, Reach, InUse
<1>4. \A e, b : At(e, b)' = At(e, b)
  BY <1>1 DEF At
<1>5. (ReachOwn' <=> ReachOwn) /\ (ReachFull' <=> ReachFull) /\ (Others' <=> Others)
  BY <1>1, <1>3, <1>4 DEF ReachOwn, ReachFull, Others
<1>6. KernelKept' <=> KernelKept
  BY <1>1, <1>5 DEF KernelKept
<1>7. QED
  BY <1>1, <1>2, <1>5, <1>6 DEF DiskIInv

LEMMA DiskNext ==
  ASSUME 0 \notin Lens
  PROVE  DiskIInv /\ [ToolsNext]_allVars => DiskIInv'
<1>. SUFFICES ASSUME DiskIInv, [ToolsNext]_allVars PROVE DiskIInv'
  OBVIOUS
<1>1. ToolsFileInv'
  BY ToolsFileNext DEF DiskIInv
<1>2. FileIInv /\ PowerInv
  BY DEF DiskIInv, ToolsFileInv
<1>3. CASE UNCHANGED allVars
  BY <1>1, <1>3, DiskStutter
<1>4. ASSUME phase' # "blank", fault' = "none" => DiskKept' PROVE DiskIInv'
  BY <1>1, <1>4 DEF DiskIInv, DiskKept, BlankDisk
<1>5. ASSUME phase = "blank", CopyFile(KERNEL, KSIZE, 3) PROVE DiskIInv'
  <2>1. phase' = "off"
    BY <1>5 DEF CopyFile
  <2>2. QED
    BY <1>4, <1>5, <2>1, KernelCopied
<1>6. fault = "none" /\ phase # "blank" => DiskKept
  BY DEF DiskIInv, DiskKept
<1>7. ASSUME phase = "off", NEW name \in Names, NEW size \in Sizes, NEW saved \in 0 .. 3, CopyFile(name, size, saved)
      PROVE  DiskIInv'
  <2>1. phase' = "off" /\ fault = "none"
    BY <1>7 DEF CopyFile
  <2>2. size \in 1 .. MAXOFF
    BY ToolsAssumption
  <2>3. \A i \in Stream : ~InUse(i)
    BY <1>2, <1>7 DEF PowerInv
  <2>4. fault' = "none" => DiskKept'
    BY <1>2, <1>6, <1>7, <2>1, <2>2, <2>3, FileCopied
  <2>5. QED
    BY <1>4, <2>1, <2>4
<1>8. ASSUME NEW p \in Procs, NEW d \in Fd, NEW len \in Lens, WriteCall(p, d, len) PROVE DiskIInv'
  <2>1. phase = "on" /\ phase' = "on" /\ fault = "none"
    BY <1>8 DEF WriteCall, On, Write, Holds, Runs
  <2>2. fault' = "none" => DiskKept'
    BY <1>2, <1>6, <1>8, <2>1, FileWritten
  <2>3. QED
    BY <1>4, <2>1, <2>2
<1>9. CASE \/ PowerOn \/ PowerOff
           \/ \E p \in Procs : On(OtherCall(p)) /\ UNCHANGED image
           \/ \E p \in Procs, d \in Fd, len \in Lens : LossInWrite(p, d, len)
           \/ \E p \in Procs, name \in Names : LossInCreate(p, name)
  <2>1. PowerOn \/ PowerOff => phase # "blank" /\ fault = "none" /\ phase' # "blank"
    BY DEF PowerOn, PowerOff
  <2>2. ASSUME NEW p \in Procs, On(OtherCall(p)) PROVE phase = "on" /\ fault = "none" /\ phase' = "on"
    BY <2>2 DEF On, OtherCall, Open, OpenFound, OpenFails, OpenCreates, OpenCannotCreate,
                Lseek, Close, Holds, Runs
  <2>3. ASSUME NEW p \in Procs, NEW d \in Fd, NEW len \in Lens, LossInWrite(p, d, len)
        PROVE  phase = "on" /\ fault = "none" /\ phase' = "off"
    BY <2>3 DEF LossInWrite, Holds, Runs
  <2>4. ASSUME NEW p \in Procs, NEW name \in Names, LossInCreate(p, name)
        PROVE  phase = "on" /\ fault = "none" /\ phase' = "off"
    BY <2>4 DEF LossInCreate, Runs
  <2>5. phase # "blank" /\ fault = "none" /\ phase' # "blank"
    BY <1>9, <2>1, <2>2, <2>3, <2>4
  <2>6. DiskKept'
    BY <1>2, <1>6, <1>9, <2>5, OtherRenews
  <2>7. QED
    BY <1>4, <2>5, <2>6
<1>10. Broken => UNCHANGED allVars
  BY DEF Broken
<1>11. QED
  BY <1>3, <1>5, <1>7, <1>8, <1>9, <1>10 DEF ToolsNext

(* The boot loader finds every byte of the kernel in the sectors it reads, *)
(* whatever files are copied, created and written besides the kernel and   *)
(* wherever the power goes: dataAlloc never hands out a marked block, and  *)
(* copy2myfs and fs_write_kr save the bitmap before the inode or directory *)
(* that names the block (bootmain, readseg, copy2myfs.c, fs_write_kr).     *)
THEOREM KernelStays ==
  ASSUME 0 \notin Lens
  PROVE  ToolsSpec => []KernelStaysBootable
<1>1. DiskIInv => KernelStaysBootable
  BY SegmentsRead DEF DiskIInv, KernelKept, KernelStaysBootable
<1>2. QED
  BY <1>1, DiskInit, DiskNext, PTL DEF ToolsSpec

(* A file has a block for all of its size as long as not every block is    *)
(* marked, also when the power went in the middle of the call or the copy: *)
(* the size is saved after the blocks (fs_write_kr, copy2myfs.c).          *)
THEOREM FilesRead ==
  ASSUME 0 \notin Lens
  PROVE  ToolsSpec => []FilesReadBack
<1>1. DiskIInv => FilesReadBack
  <2>. SUFFICES ASSUME DiskIInv, fault = "none", dmap # Data, NEW e \in Files, NEW b \in InFile(e)
                PROVE  b \in read_myfs(e)
    BY DEF FilesReadBack
  <2>1. b \in Block /\ b < BLOCKS(dir[e].size)
    BY DEF InFile
  <2>2. ReachFull
    BY DEF DiskIInv
  <2>3. BLOCKS(dir[e].size) \in Int
    <3>1. FileTypeOK
      BY FileParts DEF DiskIInv, ToolsFileInv
    <3>2. dir[e].size \in 0 .. MAXOFF
      BY <3>1 DEF FileTypeOK, Files
    <3>3. QED
      BY <3>2, BlockSize, BlocksOfSize
  <2>4. \A c \in 0 .. b : c \in Block /\ c < BLOCKS(dir[e].size)
    <3>1. b \in Nat /\ b < NR_BLOCKS
      BY <2>1, BlockSize DEF Block
    <3>2. QED
      BY <2>1, <2>3, <3>1, BlockSize DEF Block
  <2>5. \A c \in 0 .. b : inodes[dir[e].inode][c] # -1
    BY <2>2, <2>4 DEF ReachFull, Reach, At
  <2>6. QED
    BY <2>1, <2>5 DEF read_myfs
<1>2. QED
  BY <1>1, DiskInit, DiskNext, PTL DEF ToolsSpec

(* A data block belongs to one place of one file and is marked, also when  *)
(* the power goes between the sectors of a call and an inode that names    *)
(* the blocks of its last user is used again (dataAlloc, fs_create_kr).    *)
THEOREM DiskBlocksArePrivate ==
  ASSUME 0 \notin Lens
  PROVE  ToolsSpec => []BlocksPrivate
<1>1. DiskIInv => BlocksPrivate
  <2>. SUFFICES ASSUME DiskIInv, fault = "none", NEW e \in Files, NEW g \in Files,
                       NEW a \in InFile(e), NEW b \in InFile(g), At(e, a) # -1
                PROVE  At(e, a) \in dmap /\ (At(e, a) = At(g, b) => e = g /\ a = b)
    BY DEF BlocksPrivate, At
  <2>1. a \in Reach(e) /\ b \in Reach(g)
    BY DEF InFile, Reach
  <2>2. QED
    BY <2>1 DEF DiskIInv, ReachOwn
<1>2. QED
  BY <1>1, DiskInit, DiskNext, PTL DEF ToolsSpec
=============================================================================
