---------------------------- MODULE MemoryProofs ----------------------------
(***************************************************************************)
(* Proofs, for every number of pages, processes and calls and every size   *)
(* of a program image, of the invariant of module Memory.                  *)
(*                                                                         *)
(* Every page is given a kind: the argument follows how each call of       *)
(* pmap.c moves one page from one kind to another.                         *)
(***************************************************************************)
EXTENDS Memory, SequenceTheorems, TLAPS

-----------------------------------------------------------------------------
(* The inductive invariant.                                                *)
FREE == 0       \* on page_free_list
HAND == 1       \* returned by page_alloc and not yet put anywhere
DIRECTORY == 2  \* the page directory of a live process
TABLE == 3      \* a page table of a live process, but the one at 0
USER == 4       \* mapped by such a table
HEADER == 5     \* the last ELF header read, mapped at 0
LOWEST == 6     \* the page table at 0, which all share
GONE == 7       \* lost
Kind == 0 .. 7

Entries == [Page -> [Index -> Page \cup {0}]]

(* The parts of a memory, each against the kinds k of its pages.           *)
ListIsFree(free, k) ==
  /\ \A i \in 1 .. Len(free) : k[free[i]] = FREE
  /\ \A i, j \in 1 .. Len(free) : free[i] = free[j] => i = j
  /\ \A p \in Page : k[p] = FREE => \E i \in 1 .. Len(free) : free[i] = p

DirectoriesApart(ent, dir, live, k) ==
  /\ \A q \in live : /\ dir[q] \in Page /\ k[dir[q]] = DIRECTORY
                     /\ ent[dir[q]][LOW] = LOWTABLE
                     /\ \A x \in UserPDX : ent[dir[q]][x] # 0 => k[ent[dir[q]][x]] = TABLE
  /\ \A q, r \in live : dir[q] = dir[r] => q = r

TablesApart(ent, k) ==
  /\ \A t \in Page : k[t] = TABLE => \A i \in Index : ent[t][i] # 0 => k[ent[t][i]] = USER
  /\ \A t, u \in Page : k[t] = TABLE /\ k[u] = TABLE =>
       \A i, j \in Index : ent[t][i] = ent[u][j] /\ ent[t][i] # 0 => t = u /\ i = j

LowestKept(ent, k) ==
  /\ \A p \in Page : k[p] = LOWEST <=> p = LOWTABLE
  /\ \A p \in Page : k[p] = HEADER <=> p = ent[LOWTABLE][0]

Counted(ref, k) ==
  \A p \in Page : /\ k[p] \in {FREE, HAND} => ref[p] = 0
                  /\ k[p] \in {USER, HEADER} => ref[p] = 1

(* A page of any of these kinds lies in a memory.                          *)
Laid(free, ref, ent, dir, live, k) ==
  /\ k \in [Page -> Kind]
  /\ ListIsFree(free, k) /\ DirectoriesApart(ent, dir, live, k)
  /\ TablesApart(ent, k) /\ LowestKept(ent, k) /\ Counted(ref, k)

(* And all of them are where they are needed, or lost in a known way.      *)
DirectoriesUsed(dir, live, k) ==
  \A p \in Page : k[p] = DIRECTORY => \E q \in live : dir[q] = p
TablesUsed(ent, dir, live, k) ==
  \A t \in Page : k[t] = TABLE => \E q \in live, x \in UserPDX : ent[dir[q]][x] = t
UserUsed(ent, k) ==
  \A p \in Page : k[p] = USER => \E t \in Page, i \in Index : k[t] = TABLE /\ ent[t][i] = p
GoneKnown(k, L) == \A p \in Page : k[p] = GONE => p \in L

NoneLost(ent, dir, live, k, L) ==
  /\ DirectoriesUsed(dir, live, k) /\ TablesUsed(ent, dir, live, k) /\ UserUsed(ent, k)
  /\ GoneKnown(k, L)

Mem == [free : Seq(Page), ref : [Page -> 0 .. 1], ent : Entries, dir : [Proc -> Page \cup {0}],
        used : SUBSET Proc, fault : {"none", "oom", "overwritten"}, page : Page \cup {0}]
Fine(m) == m.fault = "none"

Sorted(m, k, L) ==
  Laid(m.free, m.ref, m.ent, m.dir, m.used, k) /\ NoneLost(m.ent, m.dir, m.used, k, L)

(* No page is in hand between two calls.                                   *)
Settled(m, L) ==
  /\ \E k : Sorted(m, k, L) /\ \A p \in Page : k[p] # HAND
  /\ m.ent[LOWTABLE][0] # 0 /\ IDLE \in m.used

MemoryIInv == MemoryTypeOK /\ lost \subseteq Page /\ (fault = "none" => Settled(Now, lost))

-----------------------------------------------------------------------------
(* One page changes its kind.                                              *)
LEMMA Constants ==
  /\ NPAGES \in Nat /\ LOWTABLE \in Page /\ 0 \notin Page /\ 0 \in Index /\ 1 \in Index
  /\ PDX \subseteq Index /\ LOW \in Index /\ IMAGE \in Index /\ STACK \in Index /\ TSTACK \in Index
  /\ LOW \notin UserPDX /\ PDX = UserPDX \cup {LOW}
  /\ LOW = 0 /\ IMAGE = 1 /\ STACK = 2 /\ TSTACK = 3
  /\ Index = 0 .. IMAGEMAX + 1 /\ IMAGEMAX \in Nat /\ IMAGEMAX >= 2
BY MemoryAssumption DEF Page, LOWTABLE, Index, PDX, UserPDX, LOW, IMAGE, STACK, TSTACK

LEMMA Kinds ==
  /\ \A c \in {DIRECTORY, TABLE, USER, HEADER} : c \in Kind /\ c # FREE /\ c # HAND
  /\ HAND # FREE /\ HAND \in Kind /\ FREE \in Kind
BY DEF Kind, FREE, HAND, DIRECTORY, TABLE, USER, HEADER

(* page_alloc takes the first free page.                                   *)
LEMMA TakePage ==
  ASSUME NEW free \in Seq(Page), NEW k \in [Page -> Kind], free # << >>, ListIsFree(free, k),
         NEW p, p = Head(free)
  PROVE  p \in Page /\ k[p] = FREE /\ ListIsFree(Tail(free), [k EXCEPT ![p] = HAND])
<1>1. PICK n \in Nat : n = Len(free) /\ n >= 1 /\ p = free[1]
  OBVIOUS
<1>2. p \in Page /\ k[p] = FREE
  BY <1>1 DEF ListIsFree
<1>3. PICK rest, k2 : rest = Tail(free) /\ k2 = [k EXCEPT ![p] = HAND]
  OBVIOUS
<1>4. rest \in Seq(Page) /\ Len(rest) = n - 1 /\ \A i \in 1 .. n - 1 : rest[i] = free[i + 1]
  BY <1>1, <1>3
<1>5. k2[p] = HAND /\ \A u \in Page : u # p => k2[u] = k[u]
  BY <1>2, <1>3
<1>6. \A i \in 1 .. n - 1 : k2[rest[i]] = FREE
  <2> TAKE i \in 1 .. n - 1
  <2>1. i + 1 \in 1 .. n /\ 1 \in 1 .. n /\ i + 1 # 1
    BY <1>1
  <2>2. free[i + 1] # p /\ k[free[i + 1]] = FREE /\ free[i + 1] \in Page
    BY <1>1, <2>1 DEF ListIsFree
  <2> QED
    BY <1>4, <1>5, <2>2
<1>7. \A i, j \in 1 .. n - 1 : rest[i] = rest[j] => i = j
  <2> TAKE i, j \in 1 .. n - 1
  <2>1. i + 1 \in 1 .. n /\ j + 1 \in 1 .. n
    BY <1>1
  <2>2. free[i + 1] = free[j + 1] => i + 1 = j + 1
    BY <1>1, <2>1 DEF ListIsFree
  <2> QED
    BY <1>4, <2>2
<1>8. \A u \in Page : k2[u] = FREE => \E i \in 1 .. n - 1 : rest[i] = u
  <2> SUFFICES ASSUME NEW u \in Page, k2[u] = FREE PROVE \E i \in 1 .. n - 1 : rest[i] = u
    OBVIOUS
  <2>1. u # p
    BY <1>5 DEF FREE, HAND
  <2>2. PICK j \in 1 .. n : free[j] = u
    BY <1>1, <1>5, <2>1 DEF ListIsFree
  <2>3. j - 1 \in 1 .. n - 1 /\ (j - 1) + 1 = j
    BY <1>1, <2>1, <2>2
  <2> QED
    BY <1>4, <2>2, <2>3
<1> QED
  BY <1>2, <1>3, <1>4, <1>6, <1>7, <1>8 DEF ListIsFree

(* page_free puts a page in front.                                         *)
LEMMA FreePage ==
  ASSUME NEW free \in Seq(Page), NEW k \in [Page -> Kind], ListIsFree(free, k),
         NEW p \in Page, k[p] # FREE
  PROVE  ListIsFree(<<p>> \o free, [k EXCEPT ![p] = FREE]) /\ <<p>> \o free \in Seq(Page)
<1>1. PICK n \in Nat : n = Len(free)
  OBVIOUS
<1>2. PICK more, k2 : more = <<p>> \o free /\ k2 = [k EXCEPT ![p] = FREE]
  OBVIOUS
<1>3. more \in Seq(Page) /\ Len(more) = n + 1 /\ more[1] = p /\ \A i \in 2 .. n + 1 : more[i] = free[i - 1]
  BY <1>1, <1>2
<1>4. k2[p] = FREE /\ \A u \in Page : u # p => k2[u] = k[u]
  BY <1>2 DEF Kind, FREE
<1>5. ASSUME NEW i \in 1 .. n + 1, i # 1
      PROVE  i - 1 \in 1 .. n /\ more[i] = free[i - 1] /\ more[i] \in Page /\ k[more[i]] = FREE /\ more[i] # p
  BY <1>1, <1>3, <1>5 DEF ListIsFree
<1>6. \A i \in 1 .. n + 1 : k2[more[i]] = FREE
  BY <1>3, <1>4, <1>5
<1>7. \A i, j \in 1 .. n + 1 : more[i] = more[j] => i = j
  <2> SUFFICES ASSUME NEW i \in 1 .. n + 1, NEW j \in 1 .. n + 1, more[i] = more[j], i # j PROVE FALSE
    OBVIOUS
  <2>1. CASE i # 1 /\ j # 1
    <3>1. i - 1 \in 1 .. n /\ j - 1 \in 1 .. n /\ free[i - 1] = free[j - 1] /\ i - 1 # j - 1
      BY <1>5, <2>1
    <3> QED
      BY <1>1, <3>1 DEF ListIsFree
  <2> QED
    BY <1>3, <1>5, <2>1
<1>8. \A u \in Page : k2[u] = FREE => \E i \in 1 .. n + 1 : more[i] = u
  <2> SUFFICES ASSUME NEW u \in Page, k2[u] = FREE PROVE \E i \in 1 .. n + 1 : more[i] = u
    OBVIOUS
  <2>1. CASE u = p
    BY <1>3, <2>1
  <2>2. CASE u # p
    <3>1. PICK j \in 1 .. n : free[j] = u
      BY <1>1, <1>4, <2>2 DEF ListIsFree
    <3>2. j + 1 \in 2 .. n + 1 /\ (j + 1) - 1 = j
      BY <3>1
    <3> QED
      BY <1>3, <3>1, <3>2
  <2> QED
    BY <2>1, <2>2
<1> QED
  BY <1>2, <1>3, <1>6, <1>7, <1>8 DEF ListIsFree

(* The list does not see a page move between two other kinds.              *)
LEMMA OtherKinds ==
  ASSUME NEW free \in Seq(Page), NEW k \in [Page -> Kind], ListIsFree(free, k),
         NEW p \in Page, k[p] # FREE, NEW c \in Kind, c # FREE
  PROVE  ListIsFree(free, [k EXCEPT ![p] = c])
<1>1. PICK n \in Nat : n = Len(free)
  OBVIOUS
<1>2. PICK k2 : k2 = [k EXCEPT ![p] = c]
  OBVIOUS
<1>3. k2[p] = c /\ \A u \in Page : u # p => k2[u] = k[u]
  BY <1>2
<1>4. \A i \in 1 .. n : free[i] \in Page /\ k[free[i]] = FREE /\ free[i] # p
  BY <1>1 DEF ListIsFree
<1> QED
  BY <1>1, <1>2, <1>3, <1>4 DEF ListIsFree
-----------------------------------------------------------------------------
(* What the entries say after a page was filled, or one entry set.         *)
RowSet(ent, ent2, p) ==
  ent2 \in Entries /\ \A u \in Page : u # p => \A j \in Index : ent2[u][j] = ent[u][j]
EntrySet(ent, ent2, t, i, v) ==
  /\ ent2 \in Entries /\ ent2[t][i] = v
  /\ \A u \in Page, j \in Index : u # t \/ j # i => ent2[u][j] = ent[u][j]

LEMMA SetEntry ==
  ASSUME NEW ent \in Entries, NEW t \in Page, NEW i \in Index, NEW v \in Page \cup {0}
  PROVE  EntrySet(ent, [ent EXCEPT ![t][i] = v], t, i, v)
BY DEF EntrySet, Entries

LEMMA SetRow ==
  ASSUME NEW ent \in Entries, NEW p \in Page, NEW row \in [Index -> Page \cup {0}]
  PROVE  RowSet(ent, [ent EXCEPT ![p] = row], p) /\ [ent EXCEPT ![p] = row][p] = row
BY DEF RowSet, Entries

(* The count of a page in hand becomes 1, that of a mapped page 0.         *)
LEMMA CountUp ==
  ASSUME NEW ref \in [Page -> 0 .. 1], NEW k \in [Page -> Kind], Counted(ref, k),
         NEW p \in Page, k[p] = HAND, NEW c \in Kind, c # FREE, c # HAND
  PROVE  /\ [ref EXCEPT ![p] = @ + 1] \in [Page -> 0 .. 1]
         /\ Counted([ref EXCEPT ![p] = @ + 1], [k EXCEPT ![p] = c])
<1>1. ref[p] = 0
  BY DEF Counted
<1>2. PICK r2, k2 : r2 = [ref EXCEPT ![p] = @ + 1] /\ k2 = [k EXCEPT ![p] = c]
  OBVIOUS
<1>3. r2 \in [Page -> 0 .. 1] /\ r2[p] = 1 /\ \A u \in Page : u # p => r2[u] = ref[u]
  BY <1>1, <1>2
<1>4. k2[p] = c /\ \A u \in Page : u # p => k2[u] = k[u]
  BY <1>2
<1> QED
  BY <1>2, <1>3, <1>4 DEF Counted

LEMMA CountDown ==
  ASSUME NEW ref \in [Page -> 0 .. 1], NEW k \in [Page -> Kind], Counted(ref, k),
         NEW p \in Page, k[p] \in {USER, HEADER}
  PROVE  /\ [ref EXCEPT ![p] = @ - 1] \in [Page -> 0 .. 1] /\ [ref EXCEPT ![p] = @ - 1][p] = 0
         /\ Counted([ref EXCEPT ![p] = @ - 1], [k EXCEPT ![p] = FREE])
<1>1. ref[p] = 1
  BY DEF Counted
<1>2. PICK r2, k2 : r2 = [ref EXCEPT ![p] = @ - 1] /\ k2 = [k EXCEPT ![p] = FREE]
  OBVIOUS
<1>3. r2 \in [Page -> 0 .. 1] /\ r2[p] = 0 /\ \A u \in Page : u # p => r2[u] = ref[u]
  BY <1>1, <1>2
<1>4. k2[p] = FREE /\ \A u \in Page : u # p => k2[u] = k[u]
  BY <1>2
<1> QED
  BY <1>2, <1>3, <1>4 DEF Counted, FREE, HAND, USER, HEADER

-----------------------------------------------------------------------------
(* The moves.  Each leaves every other page where it is.                   *)
Laying(free, ref, ent, dir, live, k, L) ==
  /\ free \in Seq(Page) /\ ref \in [Page -> 0 .. 1] /\ ent \in Entries
  /\ dir \in [Proc -> Page \cup {0}] /\ live \subseteq Proc
  /\ Laid(free, ref, ent, dir, live, k) /\ NoneLost(ent, dir, live, k, L)

(* From the free list to the hand.                                         *)
LEMMA MoveTake ==
  ASSUME NEW free, NEW ref, NEW ent, NEW dir, NEW live, NEW k, NEW L,
         Laying(free, ref, ent, dir, live, k, L), free # << >>,
         NEW p, p = Head(free), NEW ent2, RowSet(ent, ent2, p) \/ ent2 = ent
  PROVE  p \in Page /\ k[p] = FREE /\ Laying(Tail(free), ref, ent2, dir, live, [k EXCEPT ![p] = HAND], L)
<1>1. PICK k2 : k2 = [k EXCEPT ![p] = HAND]
  OBVIOUS
<1>2. k \in [Page -> Kind] /\ free \in Seq(Page) /\ Tail(free) \in Seq(Page)
  BY DEF Laying, Laid
<1>3. p \in Page /\ k[p] = FREE /\ ListIsFree(Tail(free), k2)
  BY <1>1, <1>2, TakePage DEF Laying, Laid
<1>4. /\ k2 \in [Page -> Kind] /\ k2[p] = HAND
      /\ \A u \in Page : u # p => k2[u] = k[u]
  BY <1>1, <1>2, <1>3 DEF Kind, HAND
<1>5. ent2 \in Entries /\ \A u \in Page : u # p => \A j \in Index : ent2[u][j] = ent[u][j]
  BY DEF RowSet, Laying
<1>6. \A u \in Page, j \in Index : ent[u][j] \in Page \cup {0}
  BY DEF Laying, Entries
<1>7. p # LOWTABLE /\ ent[LOWTABLE][0] # p
  BY <1>3, Constants DEF Laying, Laid, LowestKept, FREE, LOWEST, HEADER
<1>8. DirectoriesApart(ent2, dir, live, k2)
  <2>1. DirectoriesApart(ent, dir, live, k)
    BY DEF Laying, Laid
  <2>2. \A q \in live : dir[q] \in Page /\ dir[q] # p
    BY <1>3, <2>1 DEF DirectoriesApart, DIRECTORY, FREE
  <2>3. \A q \in live : \A x \in UserPDX : ent[dir[q]][x] # 0 => ent[dir[q]][x] \in Page /\ ent[dir[q]][x] # p
    <3> SUFFICES ASSUME NEW q \in live, NEW x \in UserPDX, ent[dir[q]][x] # 0
                 PROVE ent[dir[q]][x] \in Page /\ ent[dir[q]][x] # p
      OBVIOUS
    <3>1. x \in Index
      BY Constants DEF UserPDX
    <3>2. k[ent[dir[q]][x]] = TABLE
      BY <2>1 DEF DirectoriesApart
    <3> QED
      BY <1>3, <1>6, <2>2, <3>1, <3>2 DEF TABLE, FREE
  <2>4. \A q \in live : \A j \in Index : ent2[dir[q]][j] = ent[dir[q]][j]
    BY <1>5, <2>2
  <2>5. UserPDX \subseteq Index /\ LOW \in Index
    BY Constants DEF UserPDX
  <2> QED
    BY <1>4, <2>1, <2>2, <2>3, <2>4, <2>5 DEF DirectoriesApart
<1>9. TablesApart(ent2, k2)
  <2>1. \A t \in Page : k2[t] = TABLE => t # p /\ k[t] = TABLE /\ \A j \in Index : ent2[t][j] = ent[t][j]
    BY <1>4, <1>5 DEF HAND, TABLE
  <2>2. TablesApart(ent, k)
    BY DEF Laying, Laid
  <2>3. \A t \in Page : k[t] = TABLE => \A j \in Index : ent[t][j] # 0 => ent[t][j] \in Page /\ ent[t][j] # p
    BY <1>3, <1>6, <2>2 DEF TablesApart, USER, FREE
  <2> QED
    BY <1>4, <2>1, <2>2, <2>3 DEF TablesApart
<1>10. LowestKept(ent2, k2)
  <2>1. ent2[LOWTABLE][0] = ent[LOWTABLE][0]
    BY <1>5, <1>7, Constants
  <2> QED
    BY <1>4, <1>7, <2>1 DEF Laying, Laid, LowestKept, HAND, LOWEST, HEADER
<1>11. Counted(ref, k2)
  BY <1>3, <1>4 DEF Laying, Laid, Counted, FREE, HAND, USER, HEADER
<1>12. NoneLost(ent2, dir, live, k2, L)
  <2>1. NoneLost(ent, dir, live, k, L) /\ DirectoriesApart(ent, dir, live, k)
    BY DEF Laying, Laid
  <2>2. DirectoriesUsed(dir, live, k2)
    BY <1>4, <2>1 DEF NoneLost, DirectoriesUsed, HAND, DIRECTORY
  <2>3. TablesUsed(ent2, dir, live, k2)
    <3> SUFFICES ASSUME NEW t \in Page, k2[t] = TABLE
                 PROVE  \E q \in live, x \in UserPDX : ent2[dir[q]][x] = t
      BY DEF TablesUsed
    <3>1. k[t] = TABLE
      BY <1>4 DEF HAND, TABLE
    <3>2. PICK q \in live, x \in UserPDX : ent[dir[q]][x] = t
      BY <2>1, <3>1 DEF NoneLost, TablesUsed
    <3>3. dir[q] \in Page /\ dir[q] # p /\ x \in Index
      BY <1>3, <2>1, Constants DEF DirectoriesApart, UserPDX, FREE, DIRECTORY
    <3> QED
      BY <1>5, <3>2, <3>3
  <2>4. UserUsed(ent2, k2)
    <3> SUFFICES ASSUME NEW u \in Page, k2[u] = USER
                 PROVE  \E t \in Page, j \in Index : k2[t] = TABLE /\ ent2[t][j] = u
      BY DEF UserUsed
    <3>1. k[u] = USER
      BY <1>4 DEF HAND, USER
    <3>2. PICK t \in Page, j \in Index : k[t] = TABLE /\ ent[t][j] = u
      BY <2>1, <3>1 DEF NoneLost, UserUsed
    <3>3. t # p
      BY <1>3, <3>2 DEF TABLE, FREE
    <3> QED
      BY <1>4, <1>5, <3>2, <3>3
  <2>5. GoneKnown(k2, L)
    BY <1>4, <2>1 DEF NoneLost, GoneKnown, HAND, GONE
  <2> QED
    BY <2>2, <2>3, <2>4, <2>5 DEF NoneLost
<1> QED
  BY <1>1, <1>2, <1>3, <1>4, <1>5, <1>8, <1>9, <1>10, <1>11, <1>12 DEF Laying, Laid

(* From the hand to a directory: pcb_create.                               *)
LEMMA MoveDirectory ==
  ASSUME NEW free, NEW ref, NEW ent, NEW dir, NEW live, NEW k, NEW L,
         Laying(free, ref, ent, dir, live, k, L),
         NEW p \in Page, k[p] = HAND, NEW q \in Proc, q \notin live,
         NEW ent2, RowSet(ent, ent2, p),
         ent2[p][LOW] = LOWTABLE, \A x \in UserPDX : ent2[p][x] = 0
  PROVE  Laying(free, [ref EXCEPT ![p] = @ + 1], ent2, [dir EXCEPT ![q] = p], live \cup {q},
                [k EXCEPT ![p] = DIRECTORY], L)
<1>1. PICK k2, ref2, dir2, used2 :
        /\ k2 = [k EXCEPT ![p] = DIRECTORY] /\ ref2 = [ref EXCEPT ![p] = @ + 1]
        /\ dir2 = [dir EXCEPT ![q] = p] /\ used2 = live \cup {q}
  OBVIOUS
<1>2. /\ k \in [Page -> Kind] /\ k2 \in [Page -> Kind] /\ k2[p] = DIRECTORY
      /\ \A u \in Page : u # p => k2[u] = k[u]
  BY <1>1 DEF Laying, Laid, Kind, DIRECTORY
<1>3. ent2 \in Entries /\ \A u \in Page : u # p => \A j \in Index : ent2[u][j] = ent[u][j]
  BY DEF RowSet
<1>4. \A u \in Page, j \in Index : ent[u][j] \in Page \cup {0}
  BY DEF Laying, Entries
<1>5. /\ dir2 \in [Proc -> Page \cup {0}] /\ used2 \subseteq Proc
      /\ dir2[q] = p /\ \A r \in live : dir2[r] = dir[r]
  BY <1>1 DEF Laying
<1>6. UserPDX \subseteq Index /\ LOW \in Index /\ 0 \in Index /\ LOWTABLE \in Page /\ 0 \notin Page
  BY Constants DEF UserPDX
<1>7. DirectoriesApart(ent, dir, live, k) /\ NoneLost(ent, dir, live, k, L)
  BY DEF Laying, Laid
<1>8. \A r \in live : dir[r] \in Page /\ dir[r] # p
  BY <1>7 DEF DirectoriesApart, DIRECTORY, HAND
<1>9. p # LOWTABLE
  BY <1>6 DEF Laying, Laid, LowestKept, HAND, LOWEST
<1>10. ListIsFree(free, k2) /\ free \in Seq(Page)
  <2>1. free \in Seq(Page) /\ ListIsFree(free, k) /\ k[p] # FREE
    BY Kinds DEF Laying, Laid
  <2> QED
    BY <1>1, <1>2, <2>1, Kinds, OtherKinds
<1>11. ref2 \in [Page -> 0 .. 1] /\ Counted(ref2, k2)
  <2>1. ref \in [Page -> 0 .. 1] /\ Counted(ref, k)
    BY DEF Laying, Laid
  <2> QED
    BY <1>1, <1>2, <2>1, Kinds, CountUp
<1>12. DirectoriesApart(ent2, dir2, used2, k2)
  <2>1. ASSUME NEW r \in live
        PROVE  /\ dir2[r] \in Page /\ k2[dir2[r]] = DIRECTORY
               /\ ent2[dir2[r]][LOW] = LOWTABLE
               /\ \A x \in UserPDX : ent2[dir2[r]][x] # 0 => k2[ent2[dir2[r]][x]] = TABLE
    <3>1. dir2[r] = dir[r] /\ dir[r] \in Page /\ dir[r] # p
      BY <1>5, <1>8
    <3>2. k2[dir[r]] = DIRECTORY /\ ent2[dir[r]][LOW] = LOWTABLE
      BY <1>2, <1>3, <1>6, <1>7, <3>1 DEF DirectoriesApart
    <3>3. ASSUME NEW x \in UserPDX, ent[dir[r]][x] # 0 PROVE k2[ent[dir[r]][x]] = TABLE
      <4>1. k[ent[dir[r]][x]] = TABLE /\ ent[dir[r]][x] \in Page
        BY <1>4, <1>6, <1>7, <3>1, <3>3 DEF DirectoriesApart
      <4> QED
        BY <1>2, <4>1 DEF TABLE, HAND
    <3> QED
      BY <1>3, <1>6, <3>1, <3>2, <3>3
  <2>2. /\ dir2[q] \in Page /\ k2[dir2[q]] = DIRECTORY /\ ent2[dir2[q]][LOW] = LOWTABLE
        /\ \A x \in UserPDX : ent2[dir2[q]][x] = 0
    BY <1>2, <1>5
  <2>3. \A r, o \in used2 : dir2[r] = dir2[o] => r = o
    BY <1>1, <1>5, <1>7, <1>8 DEF DirectoriesApart
  <2> QED
    BY <1>1, <2>1, <2>2, <2>3 DEF DirectoriesApart
<1>13. TablesApart(ent2, k2)
  <2>1. \A t \in Page : k2[t] = TABLE => t # p /\ k[t] = TABLE /\ \A j \in Index : ent2[t][j] = ent[t][j]
    BY <1>2, <1>3 DEF DIRECTORY, TABLE
  <2>2. TablesApart(ent, k)
    BY DEF Laying, Laid
  <2>3. \A t \in Page : k[t] = TABLE => \A j \in Index : ent[t][j] # 0 => ent[t][j] \in Page /\ ent[t][j] # p
    BY <1>4, <2>2 DEF TablesApart, USER, HAND
  <2> QED
    BY <1>2, <2>1, <2>2, <2>3 DEF TablesApart
<1>14. LowestKept(ent2, k2)
  <2>1. ent2[LOWTABLE][0] = ent[LOWTABLE][0]
    BY <1>3, <1>6, <1>9
  <2> QED
    BY <1>2, <1>9, <2>1 DEF Laying, Laid, LowestKept, DIRECTORY, HAND, LOWEST, HEADER
<1>15. NoneLost(ent2, dir2, used2, k2, L)
  <2>1. DirectoriesUsed(dir2, used2, k2)
    BY <1>1, <1>2, <1>5, <1>7 DEF NoneLost, DirectoriesUsed
  <2>2. TablesUsed(ent2, dir2, used2, k2)
    <3> SUFFICES ASSUME NEW t \in Page, k2[t] = TABLE
                 PROVE  \E r \in used2, x \in UserPDX : ent2[dir2[r]][x] = t
      BY DEF TablesUsed
    <3>1. k[t] = TABLE
      BY <1>2 DEF DIRECTORY, TABLE
    <3>2. PICK r \in live, x \in UserPDX : ent[dir[r]][x] = t
      BY <1>7, <3>1 DEF NoneLost, TablesUsed
    <3> QED
      BY <1>1, <1>3, <1>5, <1>6, <1>8, <3>2
  <2>3. UserUsed(ent2, k2)
    <3> SUFFICES ASSUME NEW u \in Page, k2[u] = USER
                 PROVE  \E t \in Page, j \in Index : k2[t] = TABLE /\ ent2[t][j] = u
      BY DEF UserUsed
    <3>1. k[u] = USER
      BY <1>2 DEF DIRECTORY, USER
    <3>2. PICK t \in Page, j \in Index : k[t] = TABLE /\ ent[t][j] = u
      BY <1>7, <3>1 DEF NoneLost, UserUsed
    <3>3. t # p
      BY <3>2 DEF TABLE, HAND
    <3> QED
      BY <1>2, <1>3, <3>2, <3>3
  <2>4. GoneKnown(k2, L)
    BY <1>2, <1>7 DEF NoneLost, GoneKnown, DIRECTORY, GONE
  <2> QED
    BY <2>1, <2>2, <2>3, <2>4 DEF NoneLost
<1> QED
  BY <1>1, <1>2, <1>3, <1>5, <1>10, <1>11, <1>12, <1>13, <1>14, <1>15 DEF Laying, Laid

(* From the hand to a table: pgdir_walk and copy_pgdir.                    *)
LEMMA MoveTable ==
  ASSUME NEW free, NEW ref, NEW ent, NEW dir, NEW live, NEW k, NEW L,
         Laying(free, ref, ent, dir, live, k, L),
         NEW p \in Page, k[p] = HAND, \A j \in Index : ent[p][j] = 0,
         NEW q \in live, NEW x \in UserPDX, ent[dir[q]][x] = 0,
         NEW ent2, EntrySet(ent, ent2, dir[q], x, p)
  PROVE  Laying(free, [ref EXCEPT ![p] = @ + 1], ent2, dir, live, [k EXCEPT ![p] = TABLE], L)
<1>1. PICK k2, ref2, d : k2 = [k EXCEPT ![p] = TABLE] /\ ref2 = [ref EXCEPT ![p] = @ + 1] /\ d = dir[q]
  OBVIOUS
<1>2. /\ k \in [Page -> Kind] /\ k2 \in [Page -> Kind] /\ k2[p] = TABLE
      /\ \A u \in Page : u # p => k2[u] = k[u]
  BY <1>1 DEF Laying, Laid, Kind, TABLE
<1>3. /\ ent2 \in Entries /\ ent2[d][x] = p
      /\ \A u \in Page, j \in Index : u # d \/ j # x => ent2[u][j] = ent[u][j]
  BY <1>1 DEF EntrySet
<1>4. \A u \in Page, j \in Index : ent[u][j] \in Page \cup {0}
  BY DEF Laying, Entries
<1>5. UserPDX \subseteq Index /\ LOW \in Index /\ 0 \in Index /\ LOWTABLE \in Page /\ 0 \notin Page
      /\ x # LOW
  BY Constants DEF UserPDX
<1>6. DirectoriesApart(ent, dir, live, k) /\ NoneLost(ent, dir, live, k, L)
  BY DEF Laying, Laid
<1>7. d \in Page /\ k[d] = DIRECTORY /\ d # p /\ d # LOWTABLE /\ p # LOWTABLE
  BY <1>1, <1>5, <1>6 DEF DirectoriesApart, Laying, Laid, LowestKept, DIRECTORY, HAND, LOWEST
<1>8. \A r \in live : dir[r] \in Page /\ dir[r] # p /\ (r # q => dir[r] # d)
  BY <1>1, <1>6 DEF DirectoriesApart, DIRECTORY, HAND
<1>9. ListIsFree(free, k2)
  <2>1. free \in Seq(Page) /\ ListIsFree(free, k) /\ k[p] # FREE
    BY Kinds DEF Laying, Laid
  <2> QED
    BY <1>1, <1>2, <2>1, Kinds, OtherKinds
<1>10. ref2 \in [Page -> 0 .. 1] /\ Counted(ref2, k2)
  <2>1. ref \in [Page -> 0 .. 1] /\ Counted(ref, k)
    BY DEF Laying, Laid
  <2> QED
    BY <1>1, <1>2, <2>1, Kinds, CountUp
<1>11. DirectoriesApart(ent2, dir, live, k2)
  <2>1. ASSUME NEW r \in live
        PROVE  /\ dir[r] \in Page /\ k2[dir[r]] = DIRECTORY
               /\ ent2[dir[r]][LOW] = LOWTABLE
               /\ \A y \in UserPDX : ent2[dir[r]][y] # 0 => k2[ent2[dir[r]][y]] = TABLE
    <3>1. k2[dir[r]] = DIRECTORY /\ ent2[dir[r]][LOW] = LOWTABLE
      BY <1>2, <1>3, <1>5, <1>6, <1>8 DEF DirectoriesApart
    <3>2. ASSUME NEW y \in UserPDX, ent2[dir[r]][y] # 0 PROVE k2[ent2[dir[r]][y]] = TABLE
      <4>1. CASE dir[r] = d /\ y = x
        BY <1>2, <1>3, <4>1
      <4>2. CASE ~(dir[r] = d /\ y = x)
        <5>1. ent2[dir[r]][y] = ent[dir[r]][y]
          BY <1>3, <1>5, <1>8, <4>2
        <5>2. k[ent[dir[r]][y]] = TABLE /\ ent[dir[r]][y] \in Page
          BY <1>4, <1>5, <1>6, <1>8, <3>2, <5>1 DEF DirectoriesApart
        <5> QED
          BY <1>2, <5>1, <5>2
      <4> QED
        BY <4>1, <4>2
    <3> QED
      BY <1>8, <3>1, <3>2
  <2> QED
    BY <1>6, <2>1 DEF DirectoriesApart
<1>12. TablesApart(ent2, k2)
  <2>1. ASSUME NEW t \in Page, k2[t] = TABLE, NEW j \in Index, ent2[t][j] # 0
        PROVE  k[t] = TABLE /\ ent2[t][j] = ent[t][j]
    <3>1. t # d
      BY <1>2, <1>7, <2>1 DEF TABLE, DIRECTORY
    <3>2. ent2[t][j] = ent[t][j]
      BY <1>3, <3>1
    <3>3. t # p
      BY <2>1, <3>2
    <3> QED
      BY <1>2, <2>1, <3>2, <3>3
  <2>2. TablesApart(ent, k)
    BY DEF Laying, Laid
  <2>3. \A t \in Page : k[t] = TABLE => \A j \in Index : ent[t][j] # 0 =>
          ent[t][j] \in Page /\ ent[t][j] # p /\ k[ent[t][j]] = USER
    BY <1>4, <2>2 DEF TablesApart, USER, HAND
  <2>4. \A t \in Page : k2[t] = TABLE => \A j \in Index : ent2[t][j] # 0 => k2[ent2[t][j]] = USER
    BY <1>2, <2>1, <2>3
  <2>5. \A t, u \in Page : k2[t] = TABLE /\ k2[u] = TABLE =>
          \A j, l \in Index : ent2[t][j] = ent2[u][l] /\ ent2[t][j] # 0 => t = u /\ j = l
    BY <2>1, <2>2 DEF TablesApart
  <2> QED
    BY <2>4, <2>5 DEF TablesApart
<1>13. LowestKept(ent2, k2)
  <2>1. ent2[LOWTABLE][0] = ent[LOWTABLE][0]
    BY <1>3, <1>5, <1>7
  <2> QED
    BY <1>2, <1>7, <2>1 DEF Laying, Laid, LowestKept, TABLE, HAND, LOWEST, HEADER
<1>14. NoneLost(ent2, dir, live, k2, L)
  <2>1. DirectoriesUsed(dir, live, k2)
    BY <1>2, <1>6 DEF NoneLost, DirectoriesUsed, TABLE, DIRECTORY
  <2>2. TablesUsed(ent2, dir, live, k2)
    <3> SUFFICES ASSUME NEW t \in Page, k2[t] = TABLE
                 PROVE  \E r \in live, y \in UserPDX : ent2[dir[r]][y] = t
      BY DEF TablesUsed
    <3>1. CASE t = p
      BY <1>1, <1>3, <3>1
    <3>2. CASE t # p
      <4>1. PICK r \in live, y \in UserPDX : ent[dir[r]][y] = t
        BY <1>2, <1>6, <3>2 DEF NoneLost, TablesUsed
      <4>2. ~(dir[r] = d /\ y = x)
        BY <1>1, <1>5, <4>1
      <4> QED
        BY <1>3, <1>5, <1>8, <4>1, <4>2
    <3> QED
      BY <3>1, <3>2
  <2>3. UserUsed(ent2, k2)
    <3> SUFFICES ASSUME NEW u \in Page, k2[u] = USER
                 PROVE  \E t \in Page, j \in Index : k2[t] = TABLE /\ ent2[t][j] = u
      BY DEF UserUsed
    <3>1. k[u] = USER
      BY <1>2 DEF TABLE, USER
    <3>2. PICK t \in Page, j \in Index : k[t] = TABLE /\ ent[t][j] = u
      BY <1>6, <3>1 DEF NoneLost, UserUsed
    <3>3. t # d /\ t # p
      BY <1>7, <3>2 DEF TABLE, DIRECTORY, HAND
    <3> QED
      BY <1>2, <1>3, <3>2, <3>3
  <2>4. GoneKnown(k2, L)
    BY <1>2, <1>6 DEF NoneLost, GoneKnown, TABLE, GONE
  <2> QED
    BY <2>1, <2>2, <2>3, <2>4 DEF NoneLost
<1> QED
  BY <1>1, <1>2, <1>3, <1>9, <1>10, <1>11, <1>12, <1>13, <1>14 DEF Laying, Laid

(* An entry that maps a page, and the kind of the page it may map.         *)
Slot(k, t, i, c) ==
  \/ k[t] = TABLE /\ c = USER
  \/ t = LOWTABLE /\ i = 0 /\ c = HEADER

(* From the hand to an empty entry: page_insert and copy_page.             *)
LEMMA MoveIn ==
  ASSUME NEW free, NEW ref, NEW ent, NEW dir, NEW live, NEW k, NEW L,
         Laying(free, ref, ent, dir, live, k, L),
         NEW p \in Page, k[p] = HAND,
         NEW t \in Page, NEW i \in Index, NEW c, Slot(k, t, i, c), ent[t][i] = 0,
         NEW ent2, EntrySet(ent, ent2, t, i, p)
  PROVE  Laying(free, [ref EXCEPT ![p] = @ + 1], ent2, dir, live, [k EXCEPT ![p] = c], L)
<1>1. PICK k2, ref2 : k2 = [k EXCEPT ![p] = c] /\ ref2 = [ref EXCEPT ![p] = @ + 1]
  OBVIOUS
<1>0. c \in {USER, HEADER} /\ c \in Kind
  BY DEF Slot, USER, HEADER, Kind
<1>2. /\ k \in [Page -> Kind] /\ k2 \in [Page -> Kind] /\ k2[p] = c
      /\ \A u \in Page : u # p => k2[u] = k[u]
  BY <1>0, <1>1 DEF Laying, Laid
<1>3. /\ ent2 \in Entries /\ ent2[t][i] = p
      /\ \A u \in Page, j \in Index : u # t \/ j # i => ent2[u][j] = ent[u][j]
  BY DEF EntrySet
<1>4. \A u \in Page, j \in Index : ent[u][j] \in Page \cup {0}
  BY DEF Laying, Entries
<1>5. UserPDX \subseteq Index /\ LOW \in Index /\ 0 \in Index /\ LOWTABLE \in Page /\ 0 \notin Page
  BY Constants DEF UserPDX
<1>6. DirectoriesApart(ent, dir, live, k) /\ NoneLost(ent, dir, live, k, L)
  BY DEF Laying, Laid
<1>7. \A u \in Page : k[u] = LOWEST <=> u = LOWTABLE
  BY DEF Laying, Laid, LowestKept
<1>8. t # p /\ p # LOWTABLE /\ \A r \in live : dir[r] \in Page /\ dir[r] # p /\ dir[r] # t
  BY <1>5, <1>6, <1>7 DEF Slot, DirectoriesApart, DIRECTORY, HAND, LOWEST, TABLE
<1>9. ListIsFree(free, k2)
  <2>1. free \in Seq(Page) /\ ListIsFree(free, k) /\ k[p] # FREE
    BY Kinds DEF Laying, Laid
  <2> QED
    BY <1>0, <1>1, <1>2, <2>1, Kinds, OtherKinds
<1>10. ref2 \in [Page -> 0 .. 1] /\ Counted(ref2, k2)
  <2>1. ref \in [Page -> 0 .. 1] /\ Counted(ref, k)
    BY DEF Laying, Laid
  <2> QED
    BY <1>0, <1>1, <1>2, <2>1, Kinds, CountUp
<1>11. DirectoriesApart(ent2, dir, live, k2)
  <2>1. ASSUME NEW r \in live
        PROVE  /\ dir[r] \in Page /\ k2[dir[r]] = DIRECTORY
               /\ ent2[dir[r]][LOW] = LOWTABLE
               /\ \A y \in UserPDX : ent2[dir[r]][y] # 0 => k2[ent2[dir[r]][y]] = TABLE
    <3>1. k2[dir[r]] = DIRECTORY /\ ent2[dir[r]][LOW] = LOWTABLE
      BY <1>2, <1>3, <1>5, <1>6, <1>8 DEF DirectoriesApart
    <3>2. ASSUME NEW y \in UserPDX, ent2[dir[r]][y] # 0 PROVE k2[ent2[dir[r]][y]] = TABLE
      <4>1. ent2[dir[r]][y] = ent[dir[r]][y]
        BY <1>3, <1>5, <1>8
      <4>2. k[ent[dir[r]][y]] = TABLE /\ ent[dir[r]][y] \in Page
        BY <1>4, <1>5, <1>6, <1>8, <3>2, <4>1 DEF DirectoriesApart
      <4> QED
        BY <1>2, <4>1, <4>2 DEF TABLE, HAND
    <3> QED
      BY <1>8, <3>1, <3>2
  <2> QED
    BY <1>6, <2>1 DEF DirectoriesApart
<1>12. \A u \in Page : k2[u] = TABLE <=> k[u] = TABLE
  BY <1>0, <1>2 DEF TABLE, HAND, USER, HEADER
<1>13. TablesApart(ent2, k2)
  <2>1. TablesApart(ent, k)
    BY DEF Laying, Laid
  <2>2. \A u \in Page : k[u] = TABLE => \A j \in Index : ent[u][j] # 0 =>
          ent[u][j] \in Page /\ ent[u][j] # p /\ k[ent[u][j]] = USER
    BY <1>4, <2>1 DEF TablesApart, USER, HAND
  <2>3. ASSUME NEW u \in Page, k[u] = TABLE, NEW j \in Index, ent2[u][j] # 0
        PROVE  /\ u = t /\ j = i => ent2[u][j] = p /\ c = USER
               /\ ~(u = t /\ j = i) => ent2[u][j] = ent[u][j] /\ ent[u][j] # p /\ ent[u][j] \in Page
                                       /\ k[ent[u][j]] = USER
    BY <1>3, <1>5, <1>7, <2>2, <2>3 DEF Slot, LOWEST, TABLE
  <2>4. \A u \in Page : k2[u] = TABLE => \A j \in Index : ent2[u][j] # 0 => k2[ent2[u][j]] = USER
    BY <1>2, <1>12, <2>3
  <2>5. \A u, v \in Page : k2[u] = TABLE /\ k2[v] = TABLE =>
          \A j, l \in Index : ent2[u][j] = ent2[v][l] /\ ent2[u][j] # 0 => u = v /\ j = l
    <3> SUFFICES ASSUME NEW u \in Page, NEW v \in Page, k[u] = TABLE, k[v] = TABLE,
                        NEW j \in Index, NEW l \in Index, ent2[u][j] = ent2[v][l], ent2[u][j] # 0
                 PROVE  u = v /\ j = l
      BY <1>12
    <3>1. CASE (u = t /\ j = i) \/ (v = t /\ l = i)
      BY <2>3, <3>1
    <3>2. CASE ~(u = t /\ j = i) /\ ~(v = t /\ l = i)
      <4>1. ent[u][j] = ent[v][l] /\ ent[u][j] # 0
        BY <1>5, <2>3, <3>2
      <4> QED
        BY <2>1, <4>1 DEF TablesApart
    <3> QED
      BY <3>1, <3>2
  <2> QED
    BY <2>4, <2>5 DEF TablesApart
<1>14. LowestKept(ent2, k2)
  <2>1. LowestKept(ent, k)
    BY DEF Laying, Laid
  <2>2. \A u \in Page : k2[u] = LOWEST <=> u = LOWTABLE
    BY <1>0, <1>2, <1>7, <1>8 DEF USER, HEADER, LOWEST
  <2>3. CASE c = HEADER
    <3>1. t = LOWTABLE /\ i = 0
      BY <2>3 DEF Slot, USER, HEADER
    <3>2. \A u \in Page : k[u] # HEADER
      BY <1>5, <2>1, <3>1 DEF LowestKept
    <3> QED
      BY <1>2, <1>3, <2>2, <2>3, <3>1, <3>2 DEF LowestKept
  <2>4. CASE c = USER
    <3>1. t # LOWTABLE
      BY <1>5, <1>7, <2>4 DEF Slot, USER, HEADER, TABLE, LOWEST
    <3>2. ent2[LOWTABLE][0] = ent[LOWTABLE][0] /\ ent[LOWTABLE][0] # p
      BY <1>3, <1>5, <2>1, <3>1 DEF LowestKept, HEADER, HAND
    <3> QED
      BY <1>2, <2>1, <2>2, <2>4, <3>2 DEF LowestKept, USER, HEADER, HAND
  <2> QED
    BY <1>0, <2>3, <2>4
<1>15. NoneLost(ent2, dir, live, k2, L)
  <2>1. DirectoriesUsed(dir, live, k2)
    BY <1>0, <1>2, <1>6 DEF NoneLost, DirectoriesUsed, DIRECTORY, USER, HEADER
  <2>2. TablesUsed(ent2, dir, live, k2)
    BY <1>3, <1>5, <1>6, <1>8, <1>12 DEF NoneLost, TablesUsed
  <2>3. UserUsed(ent2, k2)
    <3> SUFFICES ASSUME NEW u \in Page, k2[u] = USER
                 PROVE  \E v \in Page, j \in Index : k[v] = TABLE /\ ent2[v][j] = u
      BY <1>12 DEF UserUsed
    <3>1. CASE u = p
      <4>1. k[t] = TABLE
        BY <1>2, <3>1 DEF Slot, USER, HEADER
      <4> QED
        BY <1>3, <3>1, <4>1
    <3>2. CASE u # p
      <4>1. PICK v \in Page, j \in Index : k[v] = TABLE /\ ent[v][j] = u
        BY <1>2, <1>6, <3>2 DEF NoneLost, UserUsed
      <4>2. ~(v = t /\ j = i)
        BY <1>5, <4>1
      <4> QED
        BY <1>3, <4>1, <4>2
    <3> QED
      BY <3>1, <3>2
  <2>4. GoneKnown(k2, L)
    BY <1>0, <1>2, <1>6 DEF NoneLost, GoneKnown, USER, HEADER, GONE
  <2> QED
    BY <2>1, <2>2, <2>3, <2>4 DEF NoneLost
<1> QED
  BY <1>1, <1>2, <1>3, <1>9, <1>10, <1>11, <1>13, <1>14, <1>15 DEF Laying, Laid

(* From an entry back to the free list: page_remove.                       *)
LEMMA MoveOut ==
  ASSUME NEW free, NEW ref, NEW ent, NEW dir, NEW live, NEW k, NEW L,
         Laying(free, ref, ent, dir, live, k, L),
         NEW t \in Page, NEW i \in Index, NEW c, Slot(k, t, i, c), ent[t][i] # 0,
         NEW p, p = ent[t][i], NEW ent2, EntrySet(ent, ent2, t, i, 0)
  PROVE  /\ p \in Page /\ k[p] = c /\ [ref EXCEPT ![p] = @ - 1][p] = 0
         /\ Laying(<<p>> \o free, [ref EXCEPT ![p] = @ - 1], ent2, dir, live, [k EXCEPT ![p] = FREE], L)
<1>0. c \in {USER, HEADER} /\ c \in Kind
  BY DEF Slot, USER, HEADER, Kind
<1>1. PICK k2, ref2 : k2 = [k EXCEPT ![p] = FREE] /\ ref2 = [ref EXCEPT ![p] = @ - 1]
  OBVIOUS
<1>4. \A u \in Page, j \in Index : ent[u][j] \in Page \cup {0}
  BY DEF Laying, Entries
<1>5. UserPDX \subseteq Index /\ LOW \in Index /\ 0 \in Index /\ LOWTABLE \in Page /\ 0 \notin Page
  BY Constants DEF UserPDX
<1>6. DirectoriesApart(ent, dir, live, k) /\ NoneLost(ent, dir, live, k, L)
  BY DEF Laying, Laid
<1>7. TablesApart(ent, k) /\ LowestKept(ent, k)
  BY DEF Laying, Laid
<1>16. p \in Page /\ k[p] = c
  BY <1>4, <1>7 DEF Slot, TablesApart, LowestKept
<1>2. /\ k \in [Page -> Kind] /\ k2 \in [Page -> Kind] /\ k2[p] = FREE
      /\ \A u \in Page : u # p => k2[u] = k[u]
  BY <1>1, <1>16 DEF Laying, Laid, FREE, Kind
<1>3. /\ ent2 \in Entries /\ ent2[t][i] = 0
      /\ \A u \in Page, j \in Index : u # t \/ j # i => ent2[u][j] = ent[u][j]
  BY DEF EntrySet
<1>8. t # p /\ p # LOWTABLE /\ \A r \in live : dir[r] \in Page /\ dir[r] # p /\ dir[r] # t
  BY <1>0, <1>5, <1>6, <1>7, <1>16
     DEF Slot, DirectoriesApart, LowestKept, DIRECTORY, USER, HEADER, LOWEST, TABLE
<1>9. ListIsFree(<<p>> \o free, k2) /\ <<p>> \o free \in Seq(Page)
  <2>1. free \in Seq(Page) /\ ListIsFree(free, k) /\ k[p] # FREE
    BY <1>0, <1>16, Kinds DEF Laying, Laid
  <2> QED
    BY <1>0, <1>1, <1>2, <1>16, <2>1, FreePage
<1>10. ref2 \in [Page -> 0 .. 1] /\ ref2[p] = 0 /\ Counted(ref2, k2)
  BY <1>0, <1>1, <1>2, <1>16, CountDown DEF Laying, Laid
<1>11. DirectoriesApart(ent2, dir, live, k2)
  <2>1. ASSUME NEW r \in live
        PROVE  /\ dir[r] \in Page /\ k2[dir[r]] = DIRECTORY
               /\ ent2[dir[r]][LOW] = LOWTABLE
               /\ \A y \in UserPDX : ent2[dir[r]][y] # 0 => k2[ent2[dir[r]][y]] = TABLE
    <3>1. k2[dir[r]] = DIRECTORY /\ ent2[dir[r]][LOW] = LOWTABLE
      BY <1>2, <1>3, <1>5, <1>6, <1>8 DEF DirectoriesApart
    <3>2. ASSUME NEW y \in UserPDX, ent2[dir[r]][y] # 0 PROVE k2[ent2[dir[r]][y]] = TABLE
      <4>1. ent2[dir[r]][y] = ent[dir[r]][y]
        BY <1>3, <1>5, <1>8
      <4>2. k[ent[dir[r]][y]] = TABLE /\ ent[dir[r]][y] \in Page
        BY <1>4, <1>5, <1>6, <1>8, <3>2, <4>1 DEF DirectoriesApart
      <4> QED
        BY <1>0, <1>2, <1>16, <4>1, <4>2 DEF TABLE, USER, HEADER
    <3> QED
      BY <1>8, <3>1, <3>2
  <2> QED
    BY <1>6, <2>1 DEF DirectoriesApart
<1>12. \A u \in Page : k2[u] = TABLE <=> k[u] = TABLE
  BY <1>0, <1>2, <1>16 DEF TABLE, FREE, USER, HEADER
<1>13. TablesApart(ent2, k2)
  <2>1. ASSUME NEW u \in Page, k[u] = TABLE, NEW j \in Index, ent2[u][j] # 0
        PROVE  ent2[u][j] = ent[u][j] /\ ent[u][j] # p /\ ent[u][j] \in Page /\ k[ent[u][j]] = USER
    <3>1. ~(u = t /\ j = i) /\ ent2[u][j] = ent[u][j]
      BY <1>3, <2>1
    <3>2. k[ent[u][j]] = USER /\ ent[u][j] \in Page
      BY <1>4, <1>7, <2>1, <3>1 DEF TablesApart
    <3>3. ent[u][j] # p
      BY <1>7, <1>16, <2>1, <3>1, <3>2 DEF Slot, TablesApart, USER, HEADER
    <3> QED
      BY <3>1, <3>2, <3>3
  <2>2. \A u \in Page : k2[u] = TABLE => \A j \in Index : ent2[u][j] # 0 => k2[ent2[u][j]] = USER
    BY <1>2, <1>12, <2>1
  <2>3. \A u, v \in Page : k2[u] = TABLE /\ k2[v] = TABLE =>
          \A j, l \in Index : ent2[u][j] = ent2[v][l] /\ ent2[u][j] # 0 => u = v /\ j = l
    BY <1>7, <1>12, <2>1 DEF TablesApart
  <2> QED
    BY <2>2, <2>3 DEF TablesApart
<1>14. LowestKept(ent2, k2)
  <2>1. \A u \in Page : k2[u] = LOWEST <=> u = LOWTABLE
    BY <1>2, <1>7, <1>8 DEF LowestKept, FREE, LOWEST
  <2>2. CASE c = HEADER
    <3>1. t = LOWTABLE /\ i = 0
      BY <2>2 DEF Slot, USER, HEADER
    <3>2. \A u \in Page : k2[u] # HEADER
      BY <1>2, <1>7, <3>1 DEF LowestKept, FREE, HEADER
    <3> QED
      BY <1>3, <1>5, <2>1, <3>1, <3>2 DEF LowestKept
  <2>3. CASE c = USER
    <3>1. t # LOWTABLE
      BY <1>5, <1>7, <2>3 DEF Slot, LowestKept, USER, HEADER, TABLE, LOWEST
    <3>2. ent2[LOWTABLE][0] = ent[LOWTABLE][0] /\ ent[LOWTABLE][0] # p
      BY <1>3, <1>5, <1>7, <1>16, <2>3, <3>1 DEF LowestKept, HEADER, USER
    <3> QED
      BY <1>2, <1>7, <2>1, <3>2 DEF LowestKept, FREE, HEADER
  <2> QED
    BY <1>0, <2>2, <2>3
<1>15. NoneLost(ent2, dir, live, k2, L)
  <2>1. DirectoriesUsed(dir, live, k2)
    BY <1>2, <1>6 DEF NoneLost, DirectoriesUsed, DIRECTORY, FREE
  <2>2. TablesUsed(ent2, dir, live, k2)
    BY <1>3, <1>5, <1>6, <1>8, <1>12 DEF NoneLost, TablesUsed
  <2>3. UserUsed(ent2, k2)
    <3> SUFFICES ASSUME NEW u \in Page, k2[u] = USER
                 PROVE  \E v \in Page, j \in Index : k[v] = TABLE /\ ent2[v][j] = u
      BY <1>12 DEF UserUsed
    <3>1. u # p /\ k[u] = USER
      BY <1>2 DEF FREE, USER
    <3>2. PICK v \in Page, j \in Index : k[v] = TABLE /\ ent[v][j] = u
      BY <1>6, <3>1 DEF NoneLost, UserUsed
    <3>3. ~(v = t /\ j = i)
      BY <3>1, <3>2
    <3> QED
      BY <1>3, <3>2, <3>3
  <2>4. GoneKnown(k2, L)
    BY <1>2, <1>6 DEF NoneLost, GoneKnown, FREE, GONE
  <2> QED
    BY <2>1, <2>2, <2>3, <2>4 DEF NoneLost
<1> QED
  BY <1>1, <1>2, <1>3, <1>9, <1>10, <1>11, <1>13, <1>14, <1>15, <1>16 DEF Laying, Laid

(* The pages that some live process keeps.                                 *)
KeptTable(ent, dir, live, t) == \E q \in live, x \in UserPDX : ent[dir[q]][x] = t
KeptUser(ent, dir, live, p) == \E t \in Page, i \in Index : KeptTable(ent, dir, live, t) /\ ent[t][i] = p
Kept(ent, dir, live, p) ==
  \/ \E q \in live : dir[q] = p
  \/ KeptTable(ent, dir, live, p)
  \/ KeptUser(ent, dir, live, p)

LossKnown(ent, dir, live, k, L) ==
  \A p \in Page : k[p] \in {DIRECTORY, TABLE, USER} /\ ~Kept(ent, dir, live, p) => p \in L

(* Pages that no one keeps any longer are lost: free_pcb, thread_current.  *)
Dropped(free, ref, ent, dir, live, k, L) ==
  /\ free \in Seq(Page) /\ ref \in [Page -> 0 .. 1] /\ ent \in Entries
  /\ dir \in [Proc -> Page \cup {0}] /\ live \subseteq Proc
  /\ Laid(free, ref, ent, dir, live, k) /\ GoneKnown(k, L) /\ LossKnown(ent, dir, live, k, L)
NoNewHand(k, k2) == \A p \in Page : k2[p] = HAND => k[p] = HAND

LEMMA MoveLost ==
  ASSUME NEW free, NEW ref, NEW ent, NEW dir, NEW live, NEW k, NEW L,
         Dropped(free, ref, ent, dir, live, k, L)
  PROVE  \E k2 : Laying(free, ref, ent, dir, live, k2, L) /\ NoNewHand(k, k2)
<1>0. /\ free \in Seq(Page) /\ ref \in [Page -> 0 .. 1] /\ ent \in Entries
      /\ dir \in [Proc -> Page \cup {0}] /\ live \subseteq Proc
      /\ Laid(free, ref, ent, dir, live, k) /\ GoneKnown(k, L)
  BY DEF Dropped
<1>1. PICK k2 : k2 = [p \in Page |-> IF k[p] \in {DIRECTORY, TABLE, USER} /\ ~Kept(ent, dir, live, p)
                                     THEN GONE ELSE k[p]]
  OBVIOUS
<1>2. k \in [Page -> Kind] /\ k2 \in [Page -> Kind]
  BY <1>0, <1>1 DEF Laid, Kind, GONE
<1>3. \A p \in Page : \/ k2[p] = k[p]
                      \/ k2[p] = GONE /\ k[p] \in {DIRECTORY, TABLE, USER} /\ ~Kept(ent, dir, live, p)
  BY <1>1
<1>4. \A p \in Page : Kept(ent, dir, live, p) => k2[p] = k[p]
  BY <1>1
<1>5. \A u \in Page, j \in Index : ent[u][j] \in Page \cup {0}
  BY <1>0 DEF Entries
<1>6. UserPDX \subseteq Index /\ 0 \in Index /\ LOWTABLE \in Page /\ 0 \notin Page
  BY Constants DEF UserPDX
<1>7. DirectoriesApart(ent, dir, live, k) /\ TablesApart(ent, k)
  BY <1>0 DEF Laid
<1>8. ListIsFree(free, k2)
  <2>1. \A p \in Page : k2[p] = FREE <=> k[p] = FREE
    BY <1>3 DEF FREE, GONE, DIRECTORY, TABLE, USER
  <2>2. \A j \in 1 .. Len(free) : free[j] \in Page
    BY <1>0
  <2> QED
    BY <1>0, <2>1, <2>2 DEF Laid, ListIsFree
<1>9. DirectoriesApart(ent, dir, live, k2)
  <2>1. ASSUME NEW q \in live PROVE dir[q] \in Page /\ k2[dir[q]] = DIRECTORY
    BY <1>4, <1>7 DEF DirectoriesApart, Kept
  <2>2. ASSUME NEW q \in live, NEW x \in UserPDX, ent[dir[q]][x] # 0 PROVE k2[ent[dir[q]][x]] = TABLE
    <3>1. ent[dir[q]][x] \in Page /\ k[ent[dir[q]][x]] = TABLE
      BY <1>5, <1>6, <1>7, <2>2 DEF DirectoriesApart
    <3>2. Kept(ent, dir, live, ent[dir[q]][x])
      BY DEF Kept, KeptTable
    <3> QED
      BY <1>4, <3>1, <3>2
  <2> QED
    BY <1>7, <2>1, <2>2 DEF DirectoriesApart
<1>10. \A t \in Page : k2[t] = TABLE => k[t] = TABLE /\ KeptTable(ent, dir, live, t)
  <2> SUFFICES ASSUME NEW t \in Page, k2[t] = TABLE PROVE k[t] = TABLE /\ KeptTable(ent, dir, live, t)
    OBVIOUS
  <2>1. k[t] = TABLE /\ Kept(ent, dir, live, t)
    BY <1>1, <1>3 DEF GONE, TABLE
  <2>2. ~ \E q \in live : dir[q] = t
    BY <1>7, <2>1 DEF DirectoriesApart, TABLE, DIRECTORY
  <2>3. ~KeptUser(ent, dir, live, t)
    <3> SUFFICES ASSUME NEW u \in Page, NEW j \in Index, NEW q \in live, NEW x \in UserPDX,
                        ent[dir[q]][x] = u, ent[u][j] = t
                 PROVE  FALSE
      BY DEF KeptUser, KeptTable
    <3>1. k[u] = TABLE
      BY <1>6, <1>7 DEF DirectoriesApart
    <3>2. k[t] = USER
      BY <1>6, <1>7, <3>1 DEF TablesApart
    <3> QED
      BY <2>1, <3>2 DEF TABLE, USER
  <2> QED
    BY <2>1, <2>2, <2>3 DEF Kept
<1>11. \A t \in Page : KeptTable(ent, dir, live, t) => k2[t] = TABLE
  BY <1>6, <1>9 DEF KeptTable, DirectoriesApart
<1>12. TablesApart(ent, k2)
  <2>1. ASSUME NEW t \in Page, k2[t] = TABLE, NEW j \in Index, ent[t][j] # 0 PROVE k2[ent[t][j]] = USER
    <3>1. k[t] = TABLE /\ KeptTable(ent, dir, live, t)
      BY <1>10, <2>1
    <3>2. ent[t][j] \in Page /\ k[ent[t][j]] = USER
      BY <1>5, <1>7, <2>1, <3>1 DEF TablesApart
    <3>3. Kept(ent, dir, live, ent[t][j])
      BY <3>1 DEF Kept, KeptUser
    <3> QED
      BY <1>4, <3>2, <3>3
  <2> QED
    BY <1>7, <1>10, <2>1 DEF TablesApart
<1>13. LowestKept(ent, k2)
  BY <1>0, <1>3 DEF Laid, LowestKept, GONE, DIRECTORY, TABLE, USER, LOWEST, HEADER
<1>14. Counted(ref, k2)
  BY <1>0, <1>3 DEF Laid, Counted, GONE, FREE, HAND, USER, HEADER
<1>15. NoneLost(ent, dir, live, k2, L)
  <2>1. DirectoriesUsed(dir, live, k2)
    <3> SUFFICES ASSUME NEW p \in Page, k2[p] = DIRECTORY PROVE \E q \in live : dir[q] = p
      BY DEF DirectoriesUsed
    <3>1. k[p] = DIRECTORY /\ Kept(ent, dir, live, p)
      BY <1>1, <1>3 DEF GONE, DIRECTORY
    <3>2. ~KeptTable(ent, dir, live, p)
      BY <1>6, <1>7, <3>1 DEF DirectoriesApart, KeptTable, TABLE, DIRECTORY
    <3>3. ~KeptUser(ent, dir, live, p)
      <4> SUFFICES ASSUME NEW u \in Page, NEW j \in Index, KeptTable(ent, dir, live, u), ent[u][j] = p
                   PROVE  FALSE
        BY DEF KeptUser
      <4>1. k[u] = TABLE
        BY <1>10, <1>11
      <4>2. k[p] = USER
        BY <1>6, <1>7, <4>1 DEF TablesApart
      <4> QED
        BY <3>1, <4>2 DEF DIRECTORY, USER
    <3> QED
      BY <3>1, <3>2, <3>3 DEF Kept
  <2>2. TablesUsed(ent, dir, live, k2)
    BY <1>10 DEF TablesUsed, KeptTable
  <2>3. UserUsed(ent, k2)
    <3> SUFFICES ASSUME NEW p \in Page, k2[p] = USER
                 PROVE  \E t \in Page, j \in Index : k2[t] = TABLE /\ ent[t][j] = p
      BY DEF UserUsed
    <3>1. k[p] = USER /\ Kept(ent, dir, live, p)
      BY <1>1, <1>3 DEF GONE, USER
    <3>2. ~KeptTable(ent, dir, live, p) /\ ~ \E q \in live : dir[q] = p
      BY <1>6, <1>7, <3>1 DEF DirectoriesApart, KeptTable, TABLE, USER, DIRECTORY
    <3>3. KeptUser(ent, dir, live, p)
      BY <3>1, <3>2 DEF Kept
    <3> QED
      BY <1>11, <3>3 DEF KeptUser
  <2>4. GoneKnown(k2, L)
    BY <1>0, <1>3 DEF GoneKnown, LossKnown, Dropped
  <2> QED
    BY <2>1, <2>2, <2>3, <2>4 DEF NoneLost
<1>16. NoNewHand(k, k2)
  BY <1>3 DEF NoNewHand, GONE, HAND
<1> QED
  BY <1>0, <1>2, <1>8, <1>9, <1>12, <1>13, <1>14, <1>15, <1>16 DEF Laying, Laid

(* Needed, kind by kind.                                                   *)
LEMMA NeededIsKept ==
  ASSUME NEW m \in Mem, NEW k, DirectoriesApart(m.ent, m.dir, m.used, k)
  PROVE  /\ \A p \in Page : Kept(m.ent, m.dir, m.used, p) => p \in Needed(m)
         /\ \A p \in Needed(m) : p \in Page /\ (p = LOWTABLE \/ Kept(m.ent, m.dir, m.used, p))
         /\ m.used # {} => LOWTABLE \in Needed(m)
<1>1. PICK ent \in Entries, dir \in [Proc -> Page \cup {0}], live \in SUBSET Proc :
        ent = m.ent /\ dir = m.dir /\ live = m.used
  BY DEF Mem
<1>2. UserPDX \subseteq Index /\ 0 \notin Page /\ LOWTABLE \in Page /\ LOW \in PDX /\ PDX = UserPDX \cup {LOW}
  BY Constants DEF UserPDX, PDX
<1>3. DirectoriesApart(ent, dir, live, k) /\ \A u \in Page, j \in Index : ent[u][j] \in Page \cup {0}
  BY <1>1 DEF Entries
<1>4. Needed(m) = UNION {{dir[q]} \cup Tables(m, q) \cup Mapped(m, q) : q \in live}
  BY <1>1 DEF Needed
<1>5. \A q \in live : Tables(m, q) = {ent[dir[q]][x] : x \in PDX} \ {0}
  BY <1>1 DEF Tables
<1>6. \A q \in live : UserTables(m, q) = {ent[dir[q]][x] : x \in UserPDX} \ {0}
  BY <1>1 DEF UserTables, UserPDX
<1>7. \A q \in live : Mapped(m, q) = (UNION {{ent[t][j] : j \in Index} : t \in UserTables(m, q)}) \ {0}
  BY <1>1 DEF Mapped
<1>8. ASSUME NEW p \in Page, Kept(ent, dir, live, p) PROVE p \in Needed(m)
  <2>1. CASE \E q \in live : dir[q] = p
    BY <1>4, <2>1
  <2>2. CASE KeptTable(ent, dir, live, p)
    <3>1. PICK q \in live, x \in UserPDX : ent[dir[q]][x] = p
      BY <2>2 DEF KeptTable
    <3>2. p \in Tables(m, q)
      BY <1>2, <1>5, <3>1
    <3> QED
      BY <1>4, <3>2
  <2>3. CASE KeptUser(ent, dir, live, p)
    <3>1. PICK t \in Page, j \in Index, q \in live, x \in UserPDX : ent[dir[q]][x] = t /\ ent[t][j] = p
      BY <2>3 DEF KeptUser, KeptTable
    <3>2. t \in UserTables(m, q)
      BY <1>2, <1>6, <3>1
    <3>3. p \in Mapped(m, q)
      BY <1>2, <1>7, <3>1, <3>2
    <3> QED
      BY <1>4, <3>3
  <2> QED
    BY <1>8, <2>1, <2>2, <2>3 DEF Kept
<1>9. ASSUME NEW p \in Needed(m) PROVE p \in Page /\ (p = LOWTABLE \/ Kept(ent, dir, live, p))
  <2>1. PICK q \in live : p \in {dir[q]} \cup Tables(m, q) \cup Mapped(m, q)
    BY <1>4, <1>9
  <2>2. dir[q] \in Page /\ ent[dir[q]][LOW] = LOWTABLE
    BY <1>3 DEF DirectoriesApart
  <2>3. CASE p = dir[q]
    BY <2>2, <2>3 DEF Kept
  <2>4. CASE p \in Tables(m, q)
    <3>1. PICK x \in PDX : p = ent[dir[q]][x] /\ p # 0
      BY <1>5, <2>4
    <3>2. CASE x = LOW
      BY <1>2, <2>2, <3>1, <3>2
    <3>3. CASE x \in UserPDX
      <4>1. p \in Page
        BY <1>2, <1>3, <2>2, <3>1, <3>3
      <4> QED
        BY <3>1, <3>3, <4>1 DEF Kept, KeptTable
    <3> QED
      BY <1>2, <3>2, <3>3
  <2>5. CASE p \in Mapped(m, q)
    <3>1. PICK t \in UserTables(m, q), j \in Index : p = ent[t][j] /\ p # 0
      BY <1>7, <2>5
    <3>2. PICK x \in UserPDX : t = ent[dir[q]][x] /\ t # 0
      BY <1>6, <3>1
    <3>3. t \in Page /\ p \in Page
      BY <1>2, <1>3, <2>2, <3>1, <3>2
    <3> QED
      BY <3>1, <3>2, <3>3 DEF Kept, KeptUser, KeptTable
  <2> QED
    BY <2>1, <2>3, <2>4, <2>5
<1>10. ASSUME NEW q \in live PROVE LOWTABLE \in Needed(m)
  <2>1. ent[dir[q]][LOW] = LOWTABLE
    BY <1>3 DEF DirectoriesApart
  <2>2. LOWTABLE \in Tables(m, q)
    BY <1>2, <1>5, <2>1
  <2> QED
    BY <1>4, <2>2
<1> QED
  BY <1>1, <1>8, <1>9, <1>10

-----------------------------------------------------------------------------
(* The operators of pmap.c.                                                *)
Good(m, k, L) == Laying(m.free, m.ref, m.ent, m.dir, m.used, k, L)

(* Memory m is well laid out, and the pages of H are in hand.              *)
Held(m, H, L) ==
  m \in Mem /\ (Fine(m) => \E k : Good(m, k, L) /\ \A p \in Page : k[p] = HAND <=> p \in H)

(* Two processes that share a table in r shared it in m.                   *)
TableOf(m, q, x) == m.ent[m.dir[q]][x]
Apart(m, r) ==
  \A q, o \in r.used, x, y \in UserPDX :
    q # o /\ TableOf(r, q, x) = TableOf(r, o, y) /\ TableOf(r, q, x) # 0 =>
      /\ q \in m.used /\ o \in m.used
      /\ TableOf(m, q, x) = TableOf(m, o, y) /\ TableOf(m, q, x) # 0

(* What the calls leave as it was.                                         *)
Same(m, r) ==
  Fine(r) => /\ Fine(m) /\ r.dir = m.dir /\ r.used = m.used
             /\ m.ent[LOWTABLE][0] # 0 => r.ent[LOWTABLE][0] # 0
             /\ Apart(m, r)

LEMMA TablesKept ==
  ASSUME NEW m, NEW r, r.used = m.used,
         \A q \in r.used, x \in UserPDX : r.ent[r.dir[q]][x] = m.ent[m.dir[q]][x]
  PROVE  Apart(m, r)
BY DEF Apart, TableOf

LEMMA ApartAgain ==
  ASSUME NEW m, NEW r, NEW s, Apart(m, r), Apart(r, s) PROVE Apart(m, s)
BY DEF Apart

LEMMA SameAgain ==
  ASSUME NEW m, NEW r, NEW s, Same(m, r), Same(r, s) PROVE Same(m, s)
BY ApartAgain DEF Same

LEMMA SameSelf == ASSUME NEW m PROVE Same(m, m)
BY TablesKept DEF Same

LEMMA FillOutcome ==
  ASSUME NEW m \in Mem, NEW p
  PROVE  Fill(m, p) \in Mem /\ (Fine(Fill(m, p)) => Fill(m, p) = m)
<1>1. Fill(m, p) = m \/ Fill(m, p) = [m EXCEPT !.fault = "overwritten"]
  BY DEF Fill
<1>2. [m EXCEPT !.fault = "overwritten"] \in Mem /\ ~Fine([m EXCEPT !.fault = "overwritten"])
  BY DEF Mem, Fine
<1> QED
  BY <1>1, <1>2

LEMMA EmptyIsRow == Empty \in [Index -> Page \cup {0}] /\ \A j \in Index : Empty[j] = 0
BY DEF Empty

Took(m, a) ==
  /\ Fine(m) /\ m.free # << >> /\ a.page = Head(m.free) /\ a.free = Tail(m.free)
  /\ a.ref = m.ref /\ a.dir = m.dir /\ a.used = m.used

LEMMA AllocTakes ==
  ASSUME NEW m \in Mem
  PROVE  LET a == page_alloc(m, FALSE)
         IN  a \in Mem /\ (Fine(a) => Took(m, a) /\ a.ent = m.ent)
<1>1. PICK a : a = page_alloc(m, FALSE)
  OBVIOUS
<1>2. CASE m.fault # "none"
  BY <1>1, <1>2 DEF page_alloc, Fine
<1>3. CASE m.fault = "none" /\ m.free = << >>
  <2>1. a = [m EXCEPT !.fault = "oom"]
    BY <1>1, <1>3 DEF page_alloc
  <2> QED
    BY <1>1, <2>1 DEF Mem, Fine
<1>4. CASE m.fault = "none" /\ m.free # << >>
  <2>1. a = [m EXCEPT !.free = Tail(@), !.page = Head(m.free)]
    BY <1>1, <1>4 DEF page_alloc
  <2>2. m.free \in Seq(Page)
    BY DEF Mem
  <2>3. Tail(m.free) \in Seq(Page) /\ Head(m.free) \in Page
    BY <1>4, <2>2
  <2>4. a \in Mem /\ Took(m, a) /\ a.ent = m.ent
    BY <1>4, <2>1, <2>3 DEF Mem, Took, Fine
  <2> QED
    BY <1>1, <2>4
<1> QED
  BY <1>2, <1>3, <1>4

LEMMA AllocZeroTakes ==
  ASSUME NEW m \in Mem
  PROVE  LET a == page_alloc(m, TRUE)
         IN  a \in Mem /\ (Fine(a) => Took(m, a) /\ a.ent = [m.ent EXCEPT ![a.page] = Empty])
<1>1. PICK a : a = page_alloc(m, TRUE)
  OBVIOUS
<1>2. CASE m.fault # "none"
  BY <1>1, <1>2 DEF page_alloc, Fine
<1>3. CASE m.fault = "none" /\ m.free = << >>
  <2>1. a = [m EXCEPT !.fault = "oom"]
    BY <1>1, <1>3 DEF page_alloc
  <2> QED
    BY <1>1, <2>1 DEF Mem, Fine
<1>4. CASE m.fault = "none" /\ m.free # << >>
  <2>1. PICK p, b, c : /\ p = Head(m.free) /\ b = [m EXCEPT !.free = Tail(@), !.page = p]
                       /\ c = [b EXCEPT !.ent[p] = Empty]
    OBVIOUS
  <2>2. a = Fill(c, p)
    BY <1>1, <1>4, <2>1 DEF page_alloc
  <2>3. m.free \in Seq(Page)
    BY DEF Mem
  <2>4. Tail(m.free) \in Seq(Page) /\ p \in Page
    BY <1>4, <2>1, <2>3
  <2>5. b \in Mem /\ Took(m, b) /\ b.ent = m.ent /\ b.page = p
    BY <1>4, <2>1, <2>4 DEF Mem, Took, Fine
  <2>6. c.ent = [m.ent EXCEPT ![p] = Empty] /\ c \in Mem
    BY <2>1, <2>4, <2>5, EmptyIsRow DEF Mem, Entries
  <2>7. Took(m, c) /\ c.page = p
    BY <2>1, <2>5 DEF Took, Mem
  <2>8. a \in Mem /\ (Fine(a) => a = c)
    BY <2>2, <2>6, FillOutcome
  <2>9. Fine(a) => Took(m, a) /\ a.ent = [m.ent EXCEPT ![a.page] = Empty]
    BY <2>6, <2>7, <2>8
  <2> QED
    BY <1>1, <2>8, <2>9
<1> QED
  BY <1>2, <1>3, <1>4

(* page_alloc puts one more page into the hand.                            *)
InHand(m, a, p, k, L) ==
  /\ p \in Page /\ k[p] = FREE /\ p = a.page /\ p # LOWTABLE
  /\ Good(a, [k EXCEPT ![p] = HAND], L)
  /\ Fine(m) /\ a.dir = m.dir /\ a.used = m.used

LEMMA AllocInHand ==
  ASSUME NEW m \in Mem, NEW k, NEW L, Good(m, k, L), NEW a,
         Took(m, a), a.ent = m.ent
  PROVE  InHand(m, a, a.page, k, L)
<1>1. PICK p : p = a.page
  OBVIOUS
<1>2. /\ p \in Page /\ k[p] = FREE
      /\ Laying(Tail(m.free), m.ref, a.ent, m.dir, m.used, [k EXCEPT ![p] = HAND], L)
  BY <1>1, MoveTake DEF Good, Took
<1>3. Good(a, [k EXCEPT ![p] = HAND], L)
  BY <1>2 DEF Good, Took
<1>4. p # LOWTABLE
  BY <1>2 DEF Good, Laying, Laid, LowestKept, FREE, LOWEST
<1> QED
  BY <1>1, <1>2, <1>3, <1>4 DEF InHand, Took

LEMMA AllocZeroInHand ==
  ASSUME NEW m \in Mem, NEW k, NEW L, Good(m, k, L), NEW a,
         Took(m, a), a.ent = [m.ent EXCEPT ![a.page] = Empty]
  PROVE  /\ InHand(m, a, a.page, k, L)
         /\ RowSet(m.ent, a.ent, a.page) /\ \A j \in Index : a.ent[a.page][j] = 0
<1>1. PICK p, f : p = a.page /\ f = m.free
  OBVIOUS
<1>0. p \in Page
  <2>1. f \in Seq(Page) /\ f # << >> /\ p = Head(f)
    BY <1>1 DEF Took, Mem
  <2> QED
    BY <2>1
<1>5. RowSet(m.ent, a.ent, p) /\ a.ent[p] = Empty
  <2>1. m.ent \in Entries
    BY DEF Mem
  <2> QED
    BY <1>0, <1>1, <2>1, SetRow, EmptyIsRow
<1>2. /\ p \in Page /\ k[p] = FREE
      /\ Laying(Tail(m.free), m.ref, a.ent, m.dir, m.used, [k EXCEPT ![p] = HAND], L)
  BY <1>1, <1>5, MoveTake DEF Good, Took
<1>3. Good(a, [k EXCEPT ![p] = HAND], L)
  BY <1>2 DEF Good, Took
<1>4. p # LOWTABLE
  BY <1>2 DEF Good, Laying, Laid, LowestKept, FREE, LOWEST
<1> QED
  BY <1>1, <1>2, <1>3, <1>4, <1>5, EmptyIsRow DEF InHand, Took

(* The fields after an entry d, x was made to point to page p.             *)
PointedTo(a, r, d, x, p) ==
  /\ r.free = a.free /\ r.dir = a.dir /\ r.used = a.used /\ (Fine(r) <=> Fine(a))
  /\ r.ref = [a.ref EXCEPT ![p] = @ + 1] /\ r.ent = [a.ent EXCEPT ![d][x] = p]
  /\ r.ref \in [Page -> 0 .. 1] /\ r.ent \in Entries => r \in Mem

LEMMA PointFields ==
  ASSUME NEW a \in Mem, NEW d, NEW x, NEW p
  PROVE  /\ PointedTo(a, [a EXCEPT !.ref[p] = @ + 1, !.ent[d][x] = p], d, x, p)
         /\ PointedTo(a, [a EXCEPT !.ent[d][x] = p, !.ref[p] = @ + 1], d, x, p)
<1>1. PICK ref2, ent2 : ref2 = [a.ref EXCEPT ![p] = @ + 1] /\ ent2 = [a.ent EXCEPT ![d][x] = p]
  OBVIOUS
<1>2. PICK r : r = [a EXCEPT !.ref = ref2, !.ent = ent2]
  OBVIOUS
<1>3. /\ [a EXCEPT !.ref[p] = @ + 1, !.ent[d][x] = p] = r
      /\ [a EXCEPT !.ent[d][x] = p, !.ref[p] = @ + 1] = r
  BY <1>1, <1>2 DEF Mem
<1>4. /\ r.free = a.free /\ r.dir = a.dir /\ r.used = a.used /\ r.fault = a.fault
      /\ r.ref = ref2 /\ r.ent = ent2
      /\ ref2 \in [Page -> 0 .. 1] /\ ent2 \in Entries => r \in Mem
  BY <1>2 DEF Mem
<1> QED
  BY <1>1, <1>3, <1>4 DEF PointedTo, Fine

(* pgdir_walk: the table is there afterwards, empty if it is new.          *)
NewIsEmpty(m, w, q, x) ==
  Fine(w) /\ TableOf(m, q, x) = 0 =>
    /\ TableOf(w, q, x) \in Page /\ x \in UserPDX
    /\ \A j \in Index : w.ent[TableOf(w, q, x)][j] = 0

LEMMA WalkMakesTable ==
  ASSUME NEW H, NEW L, NEW m, Held(m, H, L), NEW q, NEW x \in PDX, Fine(m) => q \in m.used
  PROVE  LET w == pgdir_walk(m, q, x)
         IN  /\ Held(w, H, L) /\ Same(m, w) /\ (Fine(w) => w.ent[w.dir[q]][x] # 0)
             /\ NewIsEmpty(m, w, q, x)
<1>1. PICK w : w = pgdir_walk(m, q, x)
  OBVIOUS
<1> SUFFICES /\ Held(w, H, L) /\ Same(m, w) /\ (Fine(w) => w.ent[w.dir[q]][x] # 0)
             /\ NewIsEmpty(m, w, q, x)
  BY <1>1
<1>2. CASE ~Fine(m) \/ m.ent[m.dir[q]][x] # 0
  BY <1>1, <1>2, SameSelf DEF pgdir_walk, Fine, NewIsEmpty, TableOf
<1>3. CASE Fine(m) /\ m.ent[m.dir[q]][x] = 0
  <2>1. PICK a : a = page_alloc(m, TRUE)
    OBVIOUS
  <2>2. m \in Mem /\ a \in Mem /\ (Fine(a) => Took(m, a) /\ a.ent = [m.ent EXCEPT ![a.page] = Empty])
    BY <2>1, AllocZeroTakes DEF Held
  <2>3. CASE ~Fine(a)
    <3>1. w = a
      BY <1>1, <1>3, <2>1, <2>3 DEF pgdir_walk, Fine
    <3> QED
      BY <2>2, <2>3, <3>1 DEF Held, Same, NewIsEmpty
  <2>4. CASE Fine(a)
    <3>1. PICK k : Good(m, k, L) /\ \A p \in Page : k[p] = HAND <=> p \in H
      BY <1>3 DEF Held
    <3>2. PICK p, d, kh : p = a.page /\ d = a.dir[q] /\ kh = [k EXCEPT ![p] = HAND]
      OBVIOUS
    <3>3. /\ p \in Page /\ k[p] = FREE /\ p # LOWTABLE /\ Good(a, kh, L)
          /\ a.dir = m.dir /\ a.used = m.used /\ q \in a.used
          /\ RowSet(m.ent, a.ent, p) /\ \A j \in Index : a.ent[p][j] = 0
      <4>1. /\ InHand(m, a, a.page, k, L) /\ RowSet(m.ent, a.ent, a.page)
            /\ \A j \in Index : a.ent[a.page][j] = 0
        BY <2>2, <2>4, <3>1, AllocZeroInHand
      <4>2. q \in m.used
        BY <1>3
      <4> QED
        BY <3>2, <4>1, <4>2 DEF InHand
    <3>4. kh[p] = HAND /\ kh \in [Page -> Kind] /\ k \in [Page -> Kind]
      BY <3>1, <3>2, <3>3 DEF Good, Laying, Laid, HAND, Kind
    <3>5. d \in Page /\ d # p /\ d = m.dir[q] /\ kh[d] = DIRECTORY /\ d # LOWTABLE
      <4>1. d \in Page /\ kh[d] = DIRECTORY
        BY <3>2, <3>3 DEF Good, Laying, Laid, DirectoriesApart
      <4>2. d # LOWTABLE
        BY <3>3, <4>1 DEF Good, Laying, Laid, LowestKept, DIRECTORY, LOWEST
      <4> QED
        BY <3>2, <3>3, <3>4, <4>1, <4>2 DEF DIRECTORY, HAND
    <3>6. x \in Index /\ a.ent[d][x] = 0 /\ x \in UserPDX
      <4>1. x \in Index /\ (x \in UserPDX \/ x = LOW)
        BY Constants
      <4>2. a.ent[d][x] = m.ent[d][x]
        BY <3>3, <3>5, <4>1 DEF RowSet
      <4>3. a.ent[d][LOW] = LOWTABLE
        BY <3>2, <3>3 DEF Good, Laying, Laid, DirectoriesApart
      <4> QED
        BY <1>3, <3>5, <4>1, <4>2, <4>3, Constants
    <3>7. w = [a EXCEPT !.ref[p] = @ + 1, !.ent[d][x] = p]
      BY <1>1, <1>3, <2>1, <2>4, <3>2 DEF pgdir_walk, Fine
    <3>8. PointedTo(a, w, d, x, p)
      BY <2>2, <3>7, PointFields
    <3>9. EntrySet(a.ent, w.ent, d, x, p)
      BY <2>2, <3>3, <3>5, <3>6, <3>8, SetEntry DEF PointedTo, Mem
    <3>10. Laying(a.free, [a.ref EXCEPT ![p] = @ + 1], w.ent, a.dir, a.used, [kh EXCEPT ![p] = TABLE], L)
      BY <3>2, <3>3, <3>4, <3>6, <3>9, MoveTable DEF Good
    <3>11. Good(w, [kh EXCEPT ![p] = TABLE], L)
      BY <3>8, <3>10 DEF Good, PointedTo
    <3>12. w \in Mem
      BY <3>8, <3>11 DEF Good, Laying, PointedTo
    <3>13. \A u \in Page : [kh EXCEPT ![p] = TABLE][u] = HAND <=> u \in H
      BY <3>1, <3>2, <3>3, <3>4 DEF TABLE, HAND, FREE
    <3>14. w.ent[LOWTABLE][0] = m.ent[LOWTABLE][0] /\ w.ent[d][x] # 0
      <4>1. LOWTABLE \in Page /\ 0 \in Index /\ 0 \notin Page
        BY Constants
      <4> QED
        BY <3>3, <3>5, <3>9, <4>1 DEF EntrySet, RowSet
    <3>15. w.dir = m.dir /\ w.used = m.used /\ d = w.dir[q]
      BY <3>2, <3>3, <3>8 DEF PointedTo
    <3>16. Held(w, H, L)
      BY <3>11, <3>12, <3>13 DEF Held
    <3>17. Apart(m, w)
      <4>1. ASSUME NEW o \in w.used, NEW y \in UserPDX, ~(o = q /\ y = x)
            PROVE  TableOf(w, o, y) = TableOf(m, o, y) /\ TableOf(m, o, y) # p
        <5>1. DirectoriesApart(m.ent, m.dir, m.used, k) /\ o \in m.used /\ q \in m.used /\ y \in Index
          BY <3>1, <3>3, <3>15, Constants DEF Good, Laying, Laid
        <5>2. m.dir[o] \in Page /\ m.dir[o] # p /\ ~(m.dir[o] = d /\ y = x)
          BY <3>3, <3>5, <4>1, <5>1 DEF DirectoriesApart, DIRECTORY, FREE
        <5>3. w.ent[m.dir[o]][y] = m.ent[m.dir[o]][y]
          BY <3>3, <3>9, <5>1, <5>2 DEF EntrySet, RowSet
        <5>4. m.ent[m.dir[o]][y] # p
          BY <3>3, <5>1, Constants DEF DirectoriesApart, TABLE, FREE
        <5> QED
          BY <3>15, <5>3, <5>4 DEF TableOf
      <4>2. TableOf(w, q, x) = p
        BY <3>9, <3>15 DEF EntrySet, TableOf
      <4> QED
        BY <3>15, <4>1, <4>2 DEF Apart
    <3>18. NewIsEmpty(m, w, q, x)
      <4>1. TableOf(w, q, x) = p
        BY <3>9, <3>15 DEF EntrySet, TableOf
      <4>2. \A j \in Index : w.ent[p][j] = 0
        BY <3>3, <3>5, <3>9 DEF EntrySet
      <4> QED
        BY <3>3, <3>6, <4>1, <4>2 DEF NewIsEmpty
    <3> QED
      BY <1>3, <3>14, <3>15, <3>16, <3>17, <3>18 DEF Same
  <2> QED
    BY <2>3, <2>4
<1> QED
  BY <1>2, <1>3

(* page_remove: the old page goes back to the list.                        *)
Removed(w, r, t, j, c, k, L) ==
  /\ r \in Mem /\ r.dir = w.dir /\ r.used = w.used /\ (Fine(r) <=> Fine(w))
  /\ EntrySet(w.ent, r.ent, t, j, 0)
  /\ w.ent[t][j] \in Page /\ k[w.ent[t][j]] = c
  /\ Good(r, [k EXCEPT ![w.ent[t][j]] = FREE], L)

LEMMA RemoveFrees ==
  ASSUME NEW w \in Mem, NEW k, NEW L, Good(w, k, L), NEW t \in Page, NEW j \in Index, NEW c,
         Slot(k, t, j, c), w.ent[t][j] # 0
  PROVE  Removed(w, page_remove(w, t, j), t, j, c, k, L)
<1>1. PICK r, p, ent2, ref2 :
        /\ r = page_remove(w, t, j) /\ p = w.ent[t][j]
        /\ ent2 = [w.ent EXCEPT ![t][j] = 0] /\ ref2 = [w.ref EXCEPT ![p] = @ - 1]
  OBVIOUS
<1>2. EntrySet(w.ent, ent2, t, j, 0) /\ ent2 \in Entries
  <2>1. w.ent \in Entries
    BY DEF Mem
  <2>2. EntrySet(w.ent, ent2, t, j, 0)
    BY <1>1, <2>1, SetEntry
  <2> QED
    BY <2>2 DEF EntrySet
<1>3. /\ p \in Page /\ k[p] = c /\ ref2[p] = 0
      /\ Laying(<<p>> \o w.free, ref2, ent2, w.dir, w.used, [k EXCEPT ![p] = FREE], L)
  BY <1>1, <1>2, MoveOut DEF Good
<1>4. PICK free2 : free2 = <<p>> \o w.free
  OBVIOUS
<1>5. [[w EXCEPT !.ent[t][j] = 0] EXCEPT !.ref[p] = @ - 1] = [w EXCEPT !.ent = ent2, !.ref = ref2]
  BY <1>1 DEF Mem
<1>6. [w EXCEPT !.ent = ent2, !.ref = ref2].ref[p] = 0
  BY <1>3 DEF Mem
<1>7. r = page_free([w EXCEPT !.ent = ent2, !.ref = ref2], p)
  BY <1>1, <1>5, <1>6 DEF page_remove, page_decref
<1>8. r = [w EXCEPT !.ent = ent2, !.ref = ref2, !.free = free2]
  BY <1>4, <1>7 DEF page_free, Mem
<1>9. /\ r.free = free2 /\ r.ref = ref2 /\ r.ent = ent2 /\ r.dir = w.dir /\ r.used = w.used
      /\ r.fault = w.fault
      /\ free2 \in Seq(Page) /\ ref2 \in [Page -> 0 .. 1] => r \in Mem
  BY <1>2, <1>8 DEF Mem
<1>10. r \in Mem /\ Good(r, [k EXCEPT ![p] = FREE], L)
  BY <1>3, <1>4, <1>9 DEF Laying, Good
<1>11. Fine(r) <=> Fine(w)
  BY <1>9 DEF Fine
<1> QED
  BY <1>1, <1>2, <1>3, <1>9, <1>10, <1>11 DEF Removed

(* The addresses that are ever mapped.                                     *)
Address == (UserPDX \X Index) \cup {ELFADDR}

(* page_insert maps the page in hand, at whatever was there before.        *)
LEMMA InsertMaps ==
  ASSUME NEW m, NEW p \in Page, NEW L, Held(m, {p}, L), NEW q, Fine(m) => q \in m.used,
         NEW va \in Address
  PROVE  LET r == page_insert(m, q, p, va)
         IN  Held(r, {}, L) /\ Same(m, r) /\ (Fine(r) /\ va = ELFADDR => r.ent[LOWTABLE][0] # 0)
<1>1. PICK w, r, x, i : w = pgdir_walk(m, q, x) /\ r = page_insert(m, q, p, va) /\ x = va[1] /\ i = va[2]
  OBVIOUS
<1> SUFFICES Held(r, {}, L) /\ Same(m, r) /\ (Fine(r) /\ va = ELFADDR => r.ent[LOWTABLE][0] # 0)
  BY <1>1
<1>2. x \in PDX /\ i \in Index /\ (x \in UserPDX \/ (x = LOW /\ i = 0)) /\ (va = ELFADDR => x = LOW /\ i = 0)
  BY <1>1, Constants DEF Address, ELFADDR
<1>3. Held(w, {p}, L) /\ Same(m, w) /\ (Fine(w) => w.ent[w.dir[q]][x] # 0)
  BY <1>1, <1>2, WalkMakesTable
<1>4. CASE ~Fine(w)
  <2>1. r = w
    BY <1>1, <1>4 DEF page_insert, Fine
  <2> QED
    BY <1>3, <1>4, <2>1 DEF Held
<1>5. CASE Fine(w)
  <2>1. PICK k : Good(w, k, L) /\ \A u \in Page : k[u] = HAND <=> u = p
    BY <1>3, <1>5 DEF Held
  <2>2. PICK d, t, old : d = w.dir[q] /\ t = w.ent[d][x] /\ old = w.ent[t][i]
    OBVIOUS
  <2>3. w \in Mem /\ q \in w.used /\ t # 0 /\ k \in [Page -> Kind]
    BY <1>3, <1>5, <2>1, <2>2 DEF Held, Same, Good, Laying, Laid
  <2>4. PICK c : c \in {USER, HEADER} /\ t \in Page /\ Slot(k, t, i, c)
    <3>1. DirectoriesApart(w.ent, w.dir, w.used, k)
      BY <2>1 DEF Good, Laying, Laid
    <3>2. CASE x \in UserPDX
      <4>1. d \in Page /\ k[t] = TABLE
        BY <2>2, <2>3, <3>1, <3>2 DEF DirectoriesApart
      <4>2. t \in Page
        BY <1>2, <2>2, <2>3, <3>2, <4>1, Constants DEF Mem, Entries
      <4> QED
        BY <4>1, <4>2 DEF Slot
    <3>3. CASE x = LOW /\ i = 0
      <4>1. t = LOWTABLE
        BY <2>2, <2>3, <3>1, <3>3 DEF DirectoriesApart
      <4> QED
        BY <3>3, <4>1, Constants DEF Slot
    <3> QED
      BY <1>2, <3>2, <3>3
  <2>5. PICK b : b = IF old \notin {0, p} THEN page_remove(w, t, i) ELSE w
    OBVIOUS
  <2>6. r = [b EXCEPT !.ent[t][i] = p, !.ref[p] = @ + 1]
    BY <1>1, <1>5, <2>2, <2>5 DEF page_insert, Fine
  <2>7. old # 0 => old \in Page /\ k[old] = c /\ old # p /\ old # t
    <3> SUFFICES ASSUME old # 0 PROVE old \in Page /\ k[old] = c /\ old # p /\ old # t
      OBVIOUS
    <3>1. old \in Page
      BY <1>2, <2>2, <2>3, <2>4 DEF Mem, Entries
    <3>2. k[old] = c
      <4>1. TablesApart(w.ent, k) /\ LowestKept(w.ent, k)
        BY <2>1 DEF Good, Laying, Laid
      <4> QED
        BY <1>2, <2>2, <2>4, <3>1, <4>1 DEF Slot, TablesApart, LowestKept
    <3>3. c # HAND /\ k[t] # c
      <4>1. LowestKept(w.ent, k)
        BY <2>1 DEF Good, Laying, Laid
      <4> QED
        BY <2>4, <4>1 DEF Slot, LowestKept, USER, HEADER, HAND, TABLE, LOWEST
    <3> QED
      BY <2>1, <3>1, <3>2, <3>3
  <2>8. PICK kb : /\ b \in Mem /\ Good(b, kb, L) /\ Fine(b) /\ b.dir = w.dir /\ b.used = w.used
                  /\ b.ent[t][i] = 0 /\ Slot(kb, t, i, c)
                  /\ \A u \in Page : kb[u] = HAND <=> u = p
                  /\ \A u \in Page, j \in Index : u # t \/ j # i => b.ent[u][j] = w.ent[u][j]
    <3>1. CASE old = 0
      <4>1. b = w
        BY <2>5, <3>1
      <4> QED
        BY <1>5, <2>1, <2>2, <2>3, <2>4, <3>1, <4>1
    <3>2. CASE old # 0
      <4>1. b = page_remove(w, t, i)
        BY <2>5, <2>7, <3>2
      <4>2. PICK kb : kb = [k EXCEPT ![old] = FREE]
        OBVIOUS
      <4>3. /\ b \in Mem /\ b.dir = w.dir /\ b.used = w.used /\ Fine(b)
            /\ EntrySet(w.ent, b.ent, t, i, 0) /\ Good(b, kb, L)
        <5>1. w.ent[t][i] # 0 /\ w.ent[t][i] = old /\ i \in Index /\ t \in Page /\ Slot(k, t, i, c)
          BY <1>2, <2>2, <2>4, <3>2
        <5>2. Removed(w, b, t, i, c, k, L)
          BY <2>1, <2>3, <4>1, <5>1, RemoveFrees
        <5> QED
          BY <1>5, <4>2, <5>1, <5>2 DEF Removed
      <4>4. kb[old] = FREE /\ \A u \in Page : u # old => kb[u] = k[u]
        BY <2>3, <2>7, <3>2, <4>2
      <4>5. \A u \in Page : kb[u] = HAND <=> u = p
        BY <2>1, <2>7, <3>2, <4>4 DEF FREE, HAND
      <4>6. Slot(kb, t, i, c)
        BY <2>4, <2>7, <3>2, <4>4 DEF Slot
      <4> QED
        BY <4>3, <4>5, <4>6 DEF EntrySet
    <3> QED
      BY <3>1, <3>2
  <2>9. PointedTo(b, r, t, i, p)
    BY <2>6, <2>8, PointFields
  <2>10. EntrySet(b.ent, r.ent, t, i, p)
    BY <1>2, <2>4, <2>8, <2>9, SetEntry DEF PointedTo, Mem
  <2>11. Good(r, [kb EXCEPT ![p] = c], L)
    <3>1. Laying(b.free, [b.ref EXCEPT ![p] = @ + 1], r.ent, b.dir, b.used, [kb EXCEPT ![p] = c], L)
      BY <1>2, <2>4, <2>8, <2>10, MoveIn DEF Good
    <3> QED
      BY <2>9, <3>1 DEF PointedTo, Good
  <2>12. r \in Mem
    BY <2>9, <2>11 DEF Good, Laying, PointedTo
  <2>13. \A u \in Page : [kb EXCEPT ![p] = c][u] # HAND
    <3>1. kb \in [Page -> Kind] /\ c # HAND
      BY <2>4, <2>8 DEF Good, Laying, Laid, USER, HEADER, HAND
    <3> QED
      BY <2>8, <3>1
  <2>14. Held(r, {}, L)
    BY <2>11, <2>12, <2>13 DEF Held
  <2>15. /\ w.ent[LOWTABLE][0] # 0 => r.ent[LOWTABLE][0] # 0
         /\ x = LOW /\ i = 0 => r.ent[LOWTABLE][0] # 0
    <3>1. LOWTABLE \in Page /\ 0 \in Index /\ 0 \notin Page
      BY Constants
    <3>2. x = LOW => t = LOWTABLE
      BY <2>1, <2>2, <2>3 DEF Good, Laying, Laid, DirectoriesApart
    <3>3. r.ent[t][i] = p /\ \A u \in Page, j \in Index : u # t \/ j # i => r.ent[u][j] = b.ent[u][j]
      BY <2>10 DEF EntrySet
    <3>4. CASE t = LOWTABLE /\ i = 0
      BY <3>1, <3>3, <3>4
    <3>5. CASE ~(t = LOWTABLE /\ i = 0)
      BY <2>8, <3>1, <3>2, <3>3, <3>5
    <3> QED
      BY <3>4, <3>5
  <2>16. Fine(r) /\ r.dir = w.dir /\ r.used = w.used
    BY <2>8, <2>9 DEF PointedTo
  <2>17. Apart(w, r)
    <3>1. \A u \in Page, j \in Index : u # t \/ j # i => r.ent[u][j] = w.ent[u][j]
      BY <2>8, <2>10 DEF EntrySet
    <3>2. ASSUME NEW o \in w.used PROVE w.dir[o] \in Page /\ w.dir[o] # t
      BY <2>1, <2>4 DEF Good, Laying, Laid, DirectoriesApart, LowestKept, Slot, DIRECTORY, TABLE, LOWEST
    <3>3. UserPDX \subseteq Index
      BY Constants
    <3> QED
      BY <2>16, <3>1, <3>2, <3>3, TablesKept
  <2>18. Same(w, r)
    BY <1>5, <2>15, <2>16, <2>17 DEF Same
  <2>19. Same(m, r)
    BY <1>3, <2>18, SameAgain
  <2> QED
    BY <1>2, <2>14, <2>15, <2>19
<1> QED
  BY <1>4, <1>5

-----------------------------------------------------------------------------
(* The loop of mm_alloc.                                                   *)
MapTurn(par, s, va) ==
  LET a == page_alloc(s, FALSE)
  IN  IF a.fault # "none" THEN a ELSE page_insert(a, par.q, a.page, va)
MapInv(par, n, s) ==
  /\ Held(s, {}, par.lost) /\ Same(par.m, s)
  /\ Fine(s) /\ n >= 1 /\ par.elf => s.ent[LOWTABLE][0] # 0
Mapping == INSTANCE FoldTheorems WITH op <- MapTurn, Inv <- MapInv

LEMMA MapTurnKeeps ==
  ASSUME NEW s, NEW L, Held(s, {}, L), NEW q, Fine(s) => q \in s.used, NEW va \in Address,
         NEW par, par.q = q
  PROVE  /\ Held(MapTurn(par, s, va), {}, L) /\ Same(s, MapTurn(par, s, va))
         /\ Fine(MapTurn(par, s, va)) /\ va = ELFADDR => MapTurn(par, s, va).ent[LOWTABLE][0] # 0
<1>1. PICK a, r : a = page_alloc(s, FALSE) /\ r = MapTurn(par, s, va)
  OBVIOUS
<1>2. s \in Mem /\ a \in Mem /\ (Fine(a) => Took(s, a) /\ a.ent = s.ent)
  BY <1>1, AllocTakes DEF Held
<1>3. CASE ~Fine(a)
  <2>1. r = a
    BY <1>1, <1>3 DEF MapTurn, Fine
  <2> QED
    BY <1>1, <1>2, <1>3, <2>1 DEF Held, Same
<1>4. CASE Fine(a)
  <2>1. PICK k : Good(s, k, L) /\ \A u \in Page : k[u] # HAND
    BY <1>2, <1>4 DEF Held, Took
  <2>2. PICK p, kh : p = a.page /\ kh = [k EXCEPT ![p] = HAND]
    OBVIOUS
  <2>3. p \in Page /\ Good(a, kh, L) /\ Fine(s) /\ a.dir = s.dir /\ a.used = s.used
    BY <1>2, <1>4, <2>1, <2>2, AllocInHand DEF InHand
  <2>4. \A u \in Page : kh[u] = HAND <=> u \in {p}
    <3>1. k \in [Page -> Kind]
      BY <2>1 DEF Good, Laying, Laid
    <3> QED
      BY <2>1, <2>2, <2>3, <3>1
  <2>5. Held(a, {p}, L) /\ q \in a.used
    BY <1>2, <2>3, <2>4 DEF Held
  <2>6. r = page_insert(a, q, p, va)
    BY <1>1, <1>4, <2>2 DEF MapTurn, Fine
  <2>7. Held(r, {}, L) /\ Same(a, r) /\ (Fine(r) /\ va = ELFADDR => r.ent[LOWTABLE][0] # 0)
    BY <2>3, <2>5, <2>6, InsertMaps
  <2>8. Same(s, a)
    BY <1>2, <1>4, <2>3, TablesKept DEF Same
  <2>9. Same(s, r)
    BY <2>7, <2>8, SameAgain
  <2> QED
    BY <1>1, <2>7, <2>9
<1> QED
  BY <1>3, <1>4

(* mm_alloc maps a new page at every address it is given.                  *)
LEMMA MmAllocMaps ==
  ASSUME NEW m, NEW L, Held(m, {}, L), NEW q, Fine(m) => q \in m.used, NEW vas \in Seq(Address),
         NEW elf \in BOOLEAN, elf => Len(vas) >= 1 /\ vas[1] = ELFADDR
  PROVE  LET r == mm_alloc(m, q, vas)
         IN  Held(r, {}, L) /\ Same(m, r) /\ (Fine(r) /\ elf => r.ent[LOWTABLE][0] # 0)
<1> DEFINE par == [q |-> q, m |-> m, lost |-> L, elf |-> elf]
<1>1. par.q = q /\ par.m = m /\ par.lost = L /\ par.elf = elf
  OBVIOUS
<1>2. mm_alloc(m, q, vas) = Mapping!Folded(par, m, vas)
  BY DEF mm_alloc, MapTurn, FoldLeft, MapThenFoldSet, Mapping!Folded, Mapping!Step, Mapping!Highest, Max
<1> HIDE DEF par
<1>3. MapInv(par, 0, m)
  BY <1>1, SameSelf DEF MapInv
<1>4. \A i \in 1 .. Len(vas) : \A s : MapInv(par, i - 1, s) => MapInv(par, i, MapTurn(par, s, vas[i]))
  <2> SUFFICES ASSUME NEW i \in 1 .. Len(vas), NEW s, MapInv(par, i - 1, s)
               PROVE  MapInv(par, i, MapTurn(par, s, vas[i]))
    OBVIOUS
  <2>0. PICK va \in Address : va = vas[i]
    OBVIOUS
  <2>1. PICK r : r = MapTurn(par, s, va) /\ va = vas[i]
    BY <2>0
  <2>2. Held(s, {}, L) /\ Same(m, s) /\ (Fine(s) /\ i - 1 >= 1 /\ elf => s.ent[LOWTABLE][0] # 0)
    BY <1>1 DEF MapInv
  <2>3. Fine(s) => q \in s.used
    BY <2>2 DEF Same
  <2>4. /\ Held(r, {}, L) /\ Same(s, r)
        /\ Fine(r) /\ va = ELFADDR => r.ent[LOWTABLE][0] # 0
    BY <1>1, <2>1, <2>2, <2>3, MapTurnKeeps
  <2>5. Same(m, r)
    BY <2>2, <2>4, SameAgain
  <2>6. Fine(r) /\ elf => r.ent[LOWTABLE][0] # 0
    <3>1. CASE i = 1
      BY <2>1, <2>4, <3>1
    <3>2. CASE i # 1
      <4>1. i - 1 >= 1
        BY <3>2
      <4> QED
        BY <2>2, <2>4, <4>1 DEF Same
    <3> QED
      BY <3>1, <3>2
  <2> QED
    BY <1>1, <2>1, <2>4, <2>5, <2>6 DEF MapInv
<1>5. MapInv(par, Len(vas), Mapping!Folded(par, m, vas))
  BY <1>3, <1>4, Mapping!FoldInvariant
<1> QED
  BY <1>1, <1>2, <1>5 DEF MapInv

(* loader_file maps the ELF header, the image and the stack.               *)
LEMMA LoaderMaps ==
  ASSUME NEW m, NEW L, Held(m, {}, L), NEW q, Fine(m) => q \in m.used, NEW n \in 1 .. IMAGEMAX
  PROVE  LET r == loader_file(m, q, n)
         IN  Held(r, {}, L) /\ Same(m, r) /\ (Fine(r) => r.ent[LOWTABLE][0] # 0)
<1>1. PICK a, b, r : a = mm_alloc(m, q, <<ELFADDR>>) /\ b = mm_alloc(a, q, Image(n))
                     /\ r = mm_alloc(b, q, UserStack)
  OBVIOUS
<1>2. <<ELFADDR>> \in Seq(Address) /\ Len(<<ELFADDR>>) >= 1 /\ <<ELFADDR>>[1] = ELFADDR
  BY DEF Address
<1>3. Image(n) \in Seq(Address)
  <2>1. n \in Nat /\ \A k \in 1 .. n : k - 1 \in Index
    BY Constants
  <2>2. \A k \in 1 .. n : <<IMAGE, k - 1>> \in Address
    BY <2>1 DEF Address, UserPDX
  <2> QED
    BY <2>1, <2>2 DEF Image
<1>4. UserStack \in Seq(Address)
  <2>1. <<STACK, 0>> \in Address /\ <<STACK, 1>> \in Address
    BY Constants DEF Address, UserPDX
  <2> QED
    BY <2>1 DEF UserStack
<1>5. Held(a, {}, L) /\ Same(m, a) /\ (Fine(a) => a.ent[LOWTABLE][0] # 0)
  BY <1>1, <1>2, MmAllocMaps
<1>6. Held(b, {}, L) /\ Same(a, b)
  <2>1. Fine(a) => q \in a.used
    BY <1>5 DEF Same
  <2> QED
    BY <1>1, <1>3, <1>5, <2>1, MmAllocMaps
<1>7. Held(r, {}, L) /\ Same(b, r)
  <2>1. Fine(b) => q \in b.used
    BY <1>5, <1>6 DEF Same
  <2> QED
    BY <1>1, <1>4, <1>6, <2>1, MmAllocMaps
<1>8. Same(a, r) /\ Same(m, r)
  BY <1>5, <1>6, <1>7, SameAgain
<1>9. Fine(r) => r.ent[LOWTABLE][0] # 0
  BY <1>5, <1>8 DEF Same
<1>10. r = loader_file(m, q, n)
  BY <1>1 DEF loader_file
<1> QED
  BY <1>7, <1>8, <1>9, <1>10

-----------------------------------------------------------------------------
(* pcb_create gives a PCB a directory of its own, without tables.          *)
Created(m, r, q) ==
  /\ Fine(m) /\ r.used = m.used \cup {q} /\ \A o \in m.used : r.dir[o] = m.dir[o]
  /\ r.ent[LOWTABLE][0] = m.ent[LOWTABLE][0]
  /\ \A x \in UserPDX : TableOf(r, q, x) = 0
  /\ Apart(m, r)

LEMMA PcbCreates ==
  ASSUME NEW m, NEW L, Held(m, {}, L), NEW q \in Proc, Fine(m) => q \notin m.used
  PROVE  Held(pcb_create(m, q), {}, L) /\ (Fine(pcb_create(m, q)) => Created(m, pcb_create(m, q), q))
<1>1. PICK a, r : a = page_alloc(m, TRUE) /\ r = pcb_create(m, q)
  OBVIOUS
<1>2. m \in Mem /\ a \in Mem /\ (Fine(a) => Took(m, a) /\ a.ent = [m.ent EXCEPT ![a.page] = Empty])
  BY <1>1, AllocZeroTakes DEF Held
<1>3. CASE ~Fine(a)
  <2>1. r = [a EXCEPT !.used = @ \cup {q}]
    BY <1>1, <1>3 DEF pcb_create, Fine
  <2>2. r \in Mem /\ r.fault = a.fault
    BY <1>2, <2>1 DEF Mem
  <2> QED
    BY <1>1, <1>3, <2>2 DEF Held, Fine
<1>4. CASE Fine(a)
  <2>1. PICK k : Good(m, k, L) /\ \A u \in Page : k[u] # HAND
    BY <1>2, <1>4 DEF Held, Took
  <2>2. PICK p, kh, b, row : /\ p = a.page /\ kh = [k EXCEPT ![p] = HAND] /\ row = kern_pgdir
                             /\ b = [a EXCEPT !.used = @ \cup {q}, !.dir[q] = a.page,
                                              !.ref[a.page] = @ + 1, !.ent[a.page] = kern_pgdir]
    OBVIOUS
  <2>3. r = Fill(b, p)
    BY <1>1, <1>4, <2>2 DEF pcb_create, Fine
  <2>4. /\ p \in Page /\ k[p] = FREE /\ p # LOWTABLE /\ Good(a, kh, L) /\ Fine(m)
        /\ a.dir = m.dir /\ a.used = m.used /\ RowSet(m.ent, a.ent, p)
    <3>1. InHand(m, a, a.page, k, L) /\ RowSet(m.ent, a.ent, a.page)
      BY <1>2, <1>4, <2>1, AllocZeroInHand
    <3> QED
      BY <2>2, <3>1 DEF InHand
  <2>5. /\ row \in [Index -> Page \cup {0}] /\ row[LOW] = LOWTABLE
        /\ \A x \in UserPDX : row[x] = 0
    BY <2>2, EmptyIsRow, Constants DEF kern_pgdir, UserPDX
  <2>6. PICK ref2, dir2, ent2, used2 :
          /\ ref2 = [a.ref EXCEPT ![p] = @ + 1] /\ dir2 = [a.dir EXCEPT ![q] = p]
          /\ ent2 = [a.ent EXCEPT ![p] = row] /\ used2 = a.used \cup {q}
    OBVIOUS
  <2>7. /\ b.free = a.free /\ b.ref = ref2 /\ b.ent = ent2 /\ b.dir = dir2 /\ b.used = used2
        /\ b.fault = a.fault
        /\ ref2 \in [Page -> 0 .. 1] /\ ent2 \in Entries /\ dir2 \in [Proc -> Page \cup {0}]
             /\ used2 \in SUBSET Proc => b \in Mem
    BY <1>2, <2>2, <2>6 DEF Mem
  <2>8. RowSet(a.ent, ent2, p) /\ ent2[p] = row
    <3>1. a.ent \in Entries
      BY <1>2 DEF Mem
    <3> QED
      BY <2>4, <2>5, <2>6, <3>1, SetRow
  <2>9. k \in [Page -> Kind] /\ kh[p] = HAND /\ \A u \in Page : u # p => kh[u] = k[u]
    BY <2>1, <2>2, <2>4 DEF Good, Laying, Laid
  <2>10. q \notin a.used
    BY <2>4
  <2>11. Laying(a.free, ref2, ent2, dir2, used2, [kh EXCEPT ![p] = DIRECTORY], L)
    <3>1. Laying(a.free, a.ref, a.ent, a.dir, a.used, kh, L)
      BY <2>4 DEF Good
    <3>2. p \in Page /\ kh[p] = HAND /\ q \in Proc /\ q \notin a.used
      BY <2>4, <2>9, <2>10
    <3>3. RowSet(a.ent, ent2, p) /\ ent2[p][LOW] = LOWTABLE /\ \A x \in UserPDX : ent2[p][x] = 0
      BY <2>5, <2>8
    <3>4. Laying(a.free, [a.ref EXCEPT ![p] = @ + 1], ent2, [a.dir EXCEPT ![q] = p], a.used \cup {q},
                 [kh EXCEPT ![p] = DIRECTORY], L)
      BY <3>1, <3>2, <3>3, MoveDirectory
    <3> QED
      BY <2>6, <3>4
  <2>12. b \in Mem /\ Good(b, [kh EXCEPT ![p] = DIRECTORY], L)
    BY <2>7, <2>11 DEF Good, Laying
  <2>13. \A u \in Page : [kh EXCEPT ![p] = DIRECTORY][u] # HAND
    <3>1. kh \in [Page -> Kind]
      BY <2>4 DEF Good, Laying, Laid
    <3> QED
      BY <2>1, <2>9, <3>1 DEF DIRECTORY, HAND
  <2>14. Held(b, {}, L)
    BY <2>12, <2>13 DEF Held
  <2>15. r \in Mem /\ (Fine(r) => r = b)
    BY <2>3, <2>12, FillOutcome
  <2>16. Held(r, {}, L)
    BY <2>14, <2>15 DEF Held
  <2>17. DirectoriesApart(m.ent, m.dir, m.used, k)
    BY <2>1 DEF Good, Laying, Laid
  <2>18. ASSUME NEW o \in m.used
         PROVE  /\ b.dir[o] = m.dir[o]
                /\ \A y \in UserPDX : TableOf(b, o, y) = TableOf(m, o, y)
    <3>1. o # q /\ b.dir[o] = m.dir[o]
      BY <1>2, <2>4, <2>6, <2>7, <2>10 DEF Mem
    <3>2. m.dir[o] \in Page /\ m.dir[o] # p
      BY <2>4, <2>17 DEF DirectoriesApart, DIRECTORY, FREE
    <3> QED
      BY <2>4, <2>7, <2>8, <3>1, <3>2, Constants DEF RowSet, TableOf
  <2>19. \A x \in UserPDX : TableOf(b, q, x) = 0
    BY <1>2, <2>5, <2>6, <2>7, <2>8 DEF TableOf, Mem
  <2>20. b.ent[LOWTABLE][0] = m.ent[LOWTABLE][0]
    BY <2>4, <2>7, <2>8, Constants DEF RowSet
  <2>21. b.used = m.used \cup {q}
    BY <2>4, <2>6, <2>7
  <2>22. Apart(m, b)
    BY <2>18, <2>19, <2>21 DEF Apart
  <2>23. Created(m, b, q)
    BY <2>4, <2>18, <2>19, <2>20, <2>21, <2>22 DEF Created
  <2> QED
    BY <1>1, <2>15, <2>16, <2>23
<1> QED
  BY <1>3, <1>4

(* copy_page fills an empty entry of a new table.                          *)
SameTables(m, r) ==
  Fine(r) => \A o \in r.used, y \in UserPDX : TableOf(r, o, y) = TableOf(m, o, y)

LEMMA CopyPageFills ==
  ASSUME NEW m, NEW L, Held(m, {}, L), NEW t \in Page, NEW i \in Index, NEW src, NEW o, NEW x \in UserPDX,
         Fine(m) => o \in m.used /\ TableOf(m, o, x) = t /\ m.ent[t][i] = 0
  PROVE  LET r == copy_page(m, t, i, src)
         IN  /\ Held(r, {}, L) /\ Same(m, r) /\ SameTables(m, r)
             /\ Fine(r) => \A j \in Index : j # i => r.ent[t][j] = m.ent[t][j]
<1>1. PICK a, r : a = page_alloc(m, FALSE) /\ r = copy_page(m, t, i, src)
  OBVIOUS
<1> SUFFICES /\ Held(r, {}, L) /\ Same(m, r) /\ SameTables(m, r)
             /\ Fine(r) => \A j \in Index : j # i => r.ent[t][j] = m.ent[t][j]
  BY <1>1
<1>2. m \in Mem /\ a \in Mem /\ (Fine(a) => Took(m, a) /\ a.ent = m.ent)
  BY <1>1, AllocTakes DEF Held
<1>3. CASE ~Fine(m) \/ m.ent[src][i] = 0
  <2>1. r = m
    BY <1>1, <1>3 DEF copy_page, Fine
  <2> QED
    BY <2>1, SameSelf DEF SameTables
<1>4. CASE Fine(m) /\ m.ent[src][i] # 0 /\ ~Fine(a)
  <2>1. r = a
    BY <1>1, <1>4 DEF copy_page, Fine
  <2> QED
    BY <1>2, <1>4, <2>1 DEF Held, Same, SameTables
<1>5. CASE Fine(m) /\ m.ent[src][i] # 0 /\ Fine(a)
  <2>1. PICK k : Good(m, k, L) /\ \A u \in Page : k[u] # HAND
    BY <1>5 DEF Held
  <2>2. PICK p, kh, b : /\ p = a.page /\ kh = [k EXCEPT ![p] = HAND]
                        /\ b = [a EXCEPT !.ref[a.page] = @ + 1, !.ent[t][i] = a.page]
    OBVIOUS
  <2>3. r = Fill(b, p)
    BY <1>1, <1>5, <2>2 DEF copy_page, Fine
  <2>4. /\ p \in Page /\ k[p] = FREE /\ p # LOWTABLE /\ Good(a, kh, L)
        /\ a.dir = m.dir /\ a.used = m.used /\ a.ent = m.ent
    <3>1. InHand(m, a, a.page, k, L)
      BY <1>2, <1>5, <2>1, AllocInHand
    <3> QED
      BY <1>2, <1>5, <2>2, <3>1 DEF InHand
  <2>5. k \in [Page -> Kind] /\ kh \in [Page -> Kind] /\ kh[p] = HAND /\ \A u \in Page : u # p => kh[u] = k[u]
    BY <2>1, <2>2, <2>4 DEF Good, Laying, Laid
  <2>6. kh[t] = TABLE
    <3>1. t # 0 /\ o \in a.used /\ a.ent[a.dir[o]][x] = t
      BY <1>5, <2>4, Constants DEF TableOf
    <3> QED
      BY <2>4, <3>1 DEF Good, Laying, Laid, DirectoriesApart
  <2>7. PointedTo(a, b, t, i, p)
    BY <1>2, <2>2, PointFields
  <2>8. EntrySet(a.ent, b.ent, t, i, p)
    BY <1>2, <2>4, <2>7, SetEntry DEF PointedTo, Mem
  <2>9. Laying(a.free, [a.ref EXCEPT ![p] = @ + 1], b.ent, a.dir, a.used, [kh EXCEPT ![p] = USER], L)
    <3>1. Slot(kh, t, i, USER) /\ a.ent[t][i] = 0
      BY <1>5, <2>4, <2>6 DEF Slot
    <3> QED
      BY <2>4, <2>5, <2>8, <3>1, MoveIn DEF Good
  <2>10. Good(b, [kh EXCEPT ![p] = USER], L)
    BY <2>7, <2>9 DEF PointedTo, Good
  <2>11. b \in Mem
    BY <2>7, <2>10 DEF Good, Laying, PointedTo
  <2>12. \A u \in Page : [kh EXCEPT ![p] = USER][u] # HAND
    BY <2>1, <2>5 DEF USER, HAND
  <2>13. Held(b, {}, L)
    BY <2>10, <2>11, <2>12 DEF Held
  <2>14. r \in Mem /\ (Fine(r) => r = b)
    BY <2>3, <2>11, FillOutcome
  <2>15. Held(r, {}, L)
    BY <2>13, <2>14 DEF Held
  <2>16. \A u \in Page, j \in Index : u # t \/ j # i => b.ent[u][j] = m.ent[u][j]
    BY <2>4, <2>8 DEF EntrySet
  <2>17. b.dir = m.dir /\ b.used = m.used
    BY <2>4, <2>7 DEF PointedTo
  <2>18. \A u \in m.used : m.dir[u] \in Page /\ m.dir[u] # t
    <3>1. DirectoriesApart(a.ent, m.dir, m.used, kh)
      BY <2>4 DEF Good, Laying, Laid
    <3> QED
      BY <2>6, <3>1 DEF DirectoriesApart, DIRECTORY, TABLE
  <2>19. \A u \in b.used, y \in UserPDX : b.ent[b.dir[u]][y] = m.ent[m.dir[u]][y]
    BY <2>16, <2>17, <2>18, Constants
  <2>20. SameTables(m, r) /\ (Fine(r) => \A j \in Index : j # i => r.ent[t][j] = m.ent[t][j])
    BY <2>14, <2>16, <2>19 DEF SameTables, TableOf
  <2>21. t # LOWTABLE
    BY <2>4, <2>6 DEF Good, Laying, Laid, LowestKept, LOWEST, TABLE
  <2>22. Same(m, b)
    <3>1. b.ent[LOWTABLE][0] = m.ent[LOWTABLE][0]
      BY <2>16, <2>21, Constants
    <3>2. Apart(m, b)
      BY <2>17, <2>19, TablesKept
    <3> QED
      BY <1>5, <2>17, <3>1, <3>2 DEF Same
  <2>23. Same(m, r)
    BY <2>14, <2>22 DEF Same
  <2> QED
    BY <2>15, <2>20, <2>23
<1> QED
  BY <1>3, <1>4, <1>5

(* The loops of copy_pgdir.                                                *)
PageTurn(par, u, j) == copy_page(u, par.t, j, par.src)
PageInv(par, n, u) ==
  /\ Held(u, {}, par.lost) /\ Same(par.m, u) /\ SameTables(par.m, u)
  /\ Fine(u) => \A j \in Index : j >= n => u.ent[par.t][j] = 0
Pages == INSTANCE FoldTheorems WITH op <- PageTurn, Inv <- PageInv

LEMMA CopyTableFills ==
  ASSUME NEW m, NEW L, Held(m, {}, L), NEW t \in Page, NEW src, NEW o, NEW x \in UserPDX,
         Fine(m) => /\ o \in m.used /\ TableOf(m, o, x) = t
                    /\ \A j \in Index : m.ent[t][j] = 0
  PROVE  Held(copy_table(m, t, src), {}, L) /\ Same(m, copy_table(m, t, src))
<1> DEFINE par == [t |-> t, src |-> src, m |-> m, lost |-> L]
           seq == [k \in 1 .. IMAGEMAX + 2 |-> k - 1]
<1>1. par.t = t /\ par.src = src /\ par.m = m /\ par.lost = L
  OBVIOUS
<1>2. seq \in Seq(Index) /\ Len(seq) = IMAGEMAX + 2 /\ \A k \in 1 .. IMAGEMAX + 2 : seq[k] = k - 1
  <2>1. IMAGEMAX + 2 \in Nat /\ \A k \in 1 .. IMAGEMAX + 2 : k - 1 \in Index
    BY Constants
  <2> QED
    BY <2>1
<1>3. copy_table(m, t, src) = Pages!Folded(par, m, seq)
  BY DEF copy_table, PageTurn, FoldLeft, MapThenFoldSet, Pages!Folded, Pages!Step, Pages!Highest, Max
<1> HIDE DEF par, seq
<1>4. PageInv(par, 0, m)
  BY <1>1, SameSelf DEF PageInv, SameTables
<1>5. \A i \in 1 .. Len(seq) : \A u : PageInv(par, i - 1, u) => PageInv(par, i, PageTurn(par, u, seq[i]))
  <2> SUFFICES ASSUME NEW i \in 1 .. Len(seq), NEW u, PageInv(par, i - 1, u)
               PROVE  PageInv(par, i, PageTurn(par, u, seq[i]))
    OBVIOUS
  <2>1. PICK j \in Index : j = seq[i] /\ j = i - 1
    BY <1>2, Constants
  <2>2. /\ Held(u, {}, L) /\ Same(m, u) /\ SameTables(m, u)
        /\ Fine(u) => \A l \in Index : l >= j => u.ent[t][l] = 0
    BY <1>1, <2>1 DEF PageInv
  <2>3. PICK r : r = copy_page(u, t, j, src)
    OBVIOUS
  <2>4. Fine(u) => o \in u.used /\ TableOf(u, o, x) = t /\ u.ent[t][j] = 0
    BY <2>2, Constants DEF Same, SameTables
  <2>5. /\ Held(r, {}, L) /\ Same(u, r) /\ SameTables(u, r)
        /\ Fine(r) => \A l \in Index : l # j => r.ent[t][l] = u.ent[t][l]
    <3>1. \A y : y = r => /\ Held(y, {}, L) /\ Same(u, y) /\ SameTables(u, y)
                          /\ Fine(y) => \A l \in Index : l # j => y.ent[t][l] = u.ent[t][l]
      BY <2>2, <2>3, <2>4, CopyPageFills
    <3> QED
      BY <3>1
  <2>6. Same(m, r) /\ SameTables(m, r)
    BY <2>2, <2>5, SameAgain DEF Same, SameTables
  <2>7. Fine(r) => \A l \in Index : l >= i => r.ent[t][l] = 0
    <3> SUFFICES ASSUME Fine(r), NEW l \in Index, l >= i PROVE r.ent[t][l] = 0
      OBVIOUS
    <3>1. l # j /\ l >= j
      BY <1>2, <2>1, Constants
    <3> QED
      BY <2>2, <2>5, <3>1 DEF Same
  <2>8. r = PageTurn(par, u, seq[i])
    BY <1>1, <2>1, <2>3 DEF PageTurn
  <2> QED
    BY <1>1, <2>5, <2>6, <2>7, <2>8 DEF PageInv
<1>6. PageInv(par, Len(seq), Pages!Folded(par, m, seq))
  BY <1>2, <1>4, <1>5, Pages!FoldInvariant
<1> QED
  BY <1>1, <1>3, <1>6 DEF PageInv

TableTurn(par, s, x) == copy_entry(s, x, par.dst, par.src)
TableInv(par, n, s) == Held(s, {}, par.lost) /\ Same(par.m, s)
Copying == INSTANCE FoldTheorems WITH op <- TableTurn, Inv <- TableInv

(* copy_pgdir gives a son copies of all the pages of its parent.           *)
LEMMA CopyKeeps ==
  ASSUME NEW m, NEW L, Held(m, {}, L), NEW dst, NEW src, Fine(m) => dst \in m.used
  PROVE  Held(copy_pgdir(m, dst, src), {}, L) /\ Same(m, copy_pgdir(m, dst, src))
<1> DEFINE par == [dst |-> dst, src |-> src, m |-> m, lost |-> L]
           seq == <<LOW, IMAGE, STACK, TSTACK>>
<1>1. par.dst = dst /\ par.src = src /\ par.m = m /\ par.lost = L
  OBVIOUS
<1>2. seq \in Seq(PDX)
  BY DEF PDX
<1>3. copy_pgdir(m, dst, src) = Copying!Folded(par, m, seq)
  BY DEF copy_pgdir, TableTurn, FoldLeft, MapThenFoldSet, Copying!Folded, Copying!Step, Copying!Highest, Max
<1> HIDE DEF par, seq
<1>4. TableInv(par, 0, m)
  BY <1>1, SameSelf DEF TableInv
<1>5. \A i \in 1 .. Len(seq) : \A s : TableInv(par, i - 1, s) => TableInv(par, i, TableTurn(par, s, seq[i]))
  <2> SUFFICES ASSUME NEW i \in 1 .. Len(seq), NEW s, TableInv(par, i - 1, s)
               PROVE  TableInv(par, i, TableTurn(par, s, seq[i]))
    OBVIOUS
  <2>0. PICK x \in PDX : x = seq[i]
    BY <1>2
  <2>1. PICK r, w, from : /\ x = seq[i] /\ r = TableTurn(par, s, x)
                          /\ w = pgdir_walk(s, dst, x) /\ from = s.ent[s.dir[src]][x]
    BY <2>0
  <2>2. Held(s, {}, L) /\ Same(m, s) /\ (Fine(s) => dst \in s.used)
    BY <1>1 DEF TableInv, Same
  <2>3. CASE ~Fine(s) \/ from = 0 \/ s.ent[s.dir[dst]][x] # 0
    <3>1. r = s
      BY <1>1, <2>1, <2>3 DEF TableTurn, copy_entry, Fine
    <3> QED
      BY <1>1, <2>1, <2>2, <3>1 DEF TableInv
  <2>4. CASE Fine(s) /\ from # 0 /\ s.ent[s.dir[dst]][x] = 0
    <3>1. PICK a : a = page_alloc(s, TRUE)
      OBVIOUS
    <3>2. Held(w, {}, L) /\ Same(s, w) /\ NewIsEmpty(s, w, dst, x)
      BY <2>1, <2>2, WalkMakesTable
    <3>3. CASE ~Fine(a)
      <4>1. w = a /\ r = a
        BY <1>1, <2>1, <2>4, <3>1, <3>3 DEF pgdir_walk, TableTurn, copy_entry, Fine
      <4>2. Same(m, r)
        BY <2>2, <3>2, <4>1, SameAgain
      <4> QED
        BY <1>1, <2>1, <3>2, <4>1, <4>2 DEF TableInv
    <3>4. CASE Fine(a)
      <4>1. PICK p : p = a.page
        OBVIOUS
      <4>2. w = [a EXCEPT !.ref[p] = @ + 1, !.ent[a.dir[dst]][x] = p] /\ r = copy_table(w, p, from)
        BY <1>1, <2>1, <2>4, <3>1, <3>4, <4>1 DEF pgdir_walk, TableTurn, copy_entry, Fine
      <4>3. a \in Mem /\ p \in Page /\ a.dir = s.dir
        <5>1. s \in Mem
          BY <2>2 DEF Held
        <5>2. a \in Mem /\ Took(s, a)
          BY <3>1, <3>4, <5>1, AllocZeroTakes
        <5>3. PICK f \in Seq(Page) : f = s.free /\ f # << >>
          BY <5>1, <5>2 DEF Mem, Took
        <5> QED
          BY <4>1, <5>2, <5>3 DEF Took
      <4>4. PointedTo(a, w, a.dir[dst], x, p)
        BY <4>2, <4>3, PointFields
      <4>5. Fine(w) /\ w.dir = a.dir /\ w.ent = [a.ent EXCEPT ![a.dir[dst]][x] = p]
        BY <3>4, <4>4 DEF PointedTo
      <4>6. TableOf(s, dst, x) = 0 /\ TableOf(w, dst, x) # 0 /\ x \in UserPDX
        <5>1. TableOf(s, dst, x) = 0
          BY <2>4 DEF TableOf
        <5>2. TableOf(w, dst, x) \in Page /\ x \in UserPDX
          BY <3>2, <4>5, <5>1 DEF NewIsEmpty
        <5> QED
          BY <5>1, <5>2, Constants
      <4>7. TableOf(w, dst, x) = p
        <5>1. PICK d : d = a.dir[dst]
          OBVIOUS
        <5>2. d \in Page
          <6>1. PICK k : Good(s, k, L)
            BY <2>2, <2>4 DEF Held
          <6> QED
            BY <2>2, <2>4, <4>3, <5>1, <6>1 DEF Good, Laying, Laid, DirectoriesApart
        <5>3. a.ent \in Entries /\ x \in Index
          BY <4>3, Constants DEF Mem
        <5> QED
          BY <4>5, <5>1, <5>2, <5>3 DEF TableOf, Entries
      <4>8. Fine(w) => dst \in w.used /\ \A j \in Index : w.ent[p][j] = 0
        BY <2>2, <3>2, <4>6, <4>7 DEF NewIsEmpty, Same
      <4>9. Held(r, {}, L) /\ Same(w, r)
        <5>1. Fine(w) => /\ dst \in w.used /\ TableOf(w, dst, x) = p
                         /\ \A j \in Index : w.ent[p][j] = 0
          BY <4>7, <4>8
        <5>2. p \in Page /\ x \in UserPDX /\ Held(w, {}, L)
          BY <3>2, <4>3, <4>6
        <5>3. Held(copy_table(w, p, from), {}, L) /\ Same(w, copy_table(w, p, from))
          BY <5>1, <5>2, CopyTableFills
        <5>4. r = copy_table(w, p, from)
          BY <4>2
        <5> QED
          BY <5>3, <5>4
      <4>10. Same(m, r)
        BY <2>2, <3>2, <4>9, SameAgain
      <4> QED
        BY <1>1, <2>1, <4>9, <4>10 DEF TableInv
    <3> QED
      BY <3>3, <3>4
  <2> QED
    BY <2>3, <2>4
<1>6. TableInv(par, Len(seq), Copying!Folded(par, m, seq))
  BY <1>2, <1>4, <1>5, Copying!FoldInvariant
<1> QED
  BY <1>1, <1>3, <1>6 DEF TableInv

-----------------------------------------------------------------------------
(* The system calls.                                                       *)

(* What is known of a memory that nobody works on.                         *)
LEMMA NowIsHeld ==
  ASSUME MemoryIInv
  PROVE  /\ Now \in Mem /\ Held(Now, {}, lost) /\ (Fine(Now) <=> fault = "none")
         /\ Now.used = used
         /\ fault = "none" => Now.ent[LOWTABLE][0] # 0 /\ IDLE \in used
<1>1. Now \in Mem
  <2>1. 0 \in Page \cup {0}
    OBVIOUS
  <2> QED
    BY <2>1 DEF Now, Mem, MemoryIInv, MemoryTypeOK, Entries
<1>2. Now.used = used /\ Now.fault = fault
  BY DEF Now
<1>3. PICK m : m = Now
  OBVIOUS
<1>4. ASSUME fault = "none"
      PROVE  /\ \E k : Good(m, k, lost) /\ \A p \in Page : k[p] = HAND <=> p \in {}
             /\ m.ent[LOWTABLE][0] # 0 /\ IDLE \in m.used
  <2>1. PICK k : Sorted(m, k, lost) /\ \A p \in Page : k[p] # HAND
    BY <1>3, <1>4 DEF MemoryIInv, Settled
  <2>2. Good(m, k, lost)
    BY <1>1, <1>3, <2>1 DEF Good, Laying, Sorted, Mem
  <2> QED
    BY <1>3, <1>4, <2>1, <2>2 DEF MemoryIInv, Settled
<1>5. Fine(m) <=> fault = "none"
  BY <1>2, <1>3 DEF Fine
<1>6. Held(m, {}, lost)
  BY <1>1, <1>3, <1>4, <1>5 DEF Held
<1> QED
  BY <1>1, <1>2, <1>3, <1>4, <1>5, <1>6

(* A memory that a call left well laid out settles.                        *)
LEMMA Settles ==
  ASSUME NEW m, NEW L, Held(m, {}, L), Fine(m), m.ent[LOWTABLE][0] # 0, IDLE \in m.used,
         NEW n, n.free = m.free, n.ref = m.ref, n.ent = m.ent, n.dir = m.dir, n.used = m.used
  PROVE  Settled(n, L)
<1>1. PICK k : Good(m, k, L) /\ \A p \in Page : k[p] # HAND
  BY DEF Held
<1>2. Sorted(n, k, L)
  BY <1>1 DEF Good, Laying, Sorted
<1> QED
  BY <1>1, <1>2 DEF Settled

LEMMA BecomesSettled ==
  ASSUME NEW m, NEW L, Held(m, {}, L), Becomes(m), lost' = L, L \subseteq Page,
         Fine(m) => m.ent[LOWTABLE][0] # 0 /\ IDLE \in m.used,
         calls' \in 0 .. MAXCALLS, last' \in {"boot", "fork", "thread", "exec", "exit"} \X Proc
  PROVE  MemoryIInv'
<1>1. m \in Mem
  BY DEF Held
<1>2. /\ m.free \in Seq(Page) /\ m.ref \in [Page -> 0 .. 1] /\ m.ent \in Entries
      /\ m.dir \in [Proc -> Page \cup {0}] /\ m.used \in SUBSET Proc
      /\ m.fault \in {"none", "oom", "overwritten"}
  BY <1>1 DEF Mem
<1>3. MemoryTypeOK'
  BY <1>2 DEF Becomes, MemoryTypeOK, Entries
<1>4. ASSUME fault' = "none" PROVE Settled(Now, lost)'
  <2>1. Fine(m)
    BY <1>4 DEF Becomes, Fine
  <2>2. PICK n : n = Now'
    OBVIOUS
  <2>3. n.free = m.free /\ n.ref = m.ref /\ n.ent = m.ent /\ n.dir = m.dir /\ n.used = m.used
    BY <2>2 DEF Now, Becomes
  <2>4. Settled(n, L)
    BY <2>1, <2>3, Settles
  <2> QED
    BY <2>2, <2>4
<1> QED
  BY <1>3, <1>4 DEF MemoryIInv

LEMMA SonIsUnused ==
  ASSUME MemoryIInv, Unused # {}
  PROVE  FirstUnused \in Proc /\ FirstUnused \notin used
<1>1. Unused \in SUBSET Nat
  BY MemoryAssumption DEF Unused, Proc
<1>2. PICK x \in Unused : \A y \in Unused : x <= y
  BY <1>1, Mapping!LeastNat
<1>3. FirstUnused \in Unused
  BY <1>2 DEF FirstUnused
<1> QED
  BY <1>3 DEF Unused

(* The copy that fork_current and thread_current begin with.               *)
LEMMA CopyForSon ==
  ASSUME MemoryIInv, NEW q \in Proc, Runs(q), NEW son, son = FirstUnused, Unused # {},
         NEW c, c = copy_pgdir(pcb_create(Now, son), son, q)
  PROVE  /\ Held(c, {}, lost)
         /\ Fine(c) => /\ c.used = used \cup {son} /\ c.ent[LOWTABLE][0] # 0 /\ IDLE \in c.used
                       /\ q \in c.used /\ son \in c.used /\ son # q /\ Apart(Now, c)
<1>1. PICK m, b : m = Now /\ b = pcb_create(m, son)
  OBVIOUS
<1>2. son \in Proc /\ son \notin used /\ q \in used
  BY SonIsUnused DEF Runs
<1>3. /\ Held(m, {}, lost) /\ m.used = used
      /\ Fine(m) => m.ent[LOWTABLE][0] # 0 /\ IDLE \in used
  BY <1>1, NowIsHeld
<1>4. Held(b, {}, lost) /\ (Fine(b) => Created(m, b, son))
  BY <1>1, <1>2, <1>3, PcbCreates
<1>5. Fine(b) => son \in b.used
  BY <1>4 DEF Created
<1>6. Held(c, {}, lost) /\ Same(b, c)
  BY <1>1, <1>4, <1>5, CopyKeeps
<1>7. ASSUME Fine(c)
      PROVE  c.used = used \cup {son} /\ c.ent[LOWTABLE][0] # 0 /\ IDLE \in c.used /\ Apart(m, c)
  BY <1>3, <1>4, <1>6, <1>7, ApartAgain DEF Same, Created
<1> QED
  BY <1>1, <1>2, <1>6, <1>7

LEMMA ForkKeeps == ASSUME MemoryIInv, NEW q \in Proc, Fork(q) PROVE MemoryIInv'
<1>1. PICK son, c : son = FirstUnused /\ c = copy_pgdir(pcb_create(Now, son), son, q)
  OBVIOUS
<1>2. Runs(q) /\ Unused # {} /\ Becomes(c) /\ lost' = lost
  BY <1>1 DEF Fork, Calls
<1>3. Held(c, {}, lost) /\ (Fine(c) => c.ent[LOWTABLE][0] # 0 /\ IDLE \in c.used)
  BY <1>1, <1>2, CopyForSon
<1>4. calls' \in 0 .. MAXCALLS /\ last' \in {"boot", "fork", "thread", "exec", "exit"} \X Proc
  BY MemoryAssumption DEF Fork, Calls, MemoryIInv, MemoryTypeOK
<1> QED
  BY <1>2, <1>3, <1>4, BecomesSettled DEF MemoryIInv

LEMMA ExecKeepsTables ==
  ASSUME MemoryIInv, NEW q \in Proc, ExecFails(q) \/ \E n \in 1 .. IMAGEMAX : Exec(q, n)
  PROVE  \E r : Becomes(r) /\ Held(r, {}, lost) /\ Same(Now, r)
<1>1. PICK m : m = Now
  OBVIOUS
<1>2. q \in used
  BY DEF ExecFails, Exec, Calls, Runs
<1>3. Held(m, {}, lost) /\ q \in m.used
  BY <1>1, <1>2, NowIsHeld
<1>4. CASE ExecFails(q)
  <2>1. <<ELFADDR>> \in Seq(Address)
    BY DEF Address
  <2>2. Held(mm_alloc(m, q, <<ELFADDR>>), {}, lost) /\ Same(m, mm_alloc(m, q, <<ELFADDR>>))
    BY <1>3, <2>1, MmAllocMaps
  <2> QED
    BY <1>1, <1>4, <2>2 DEF ExecFails
<1>5. CASE \E n \in 1 .. IMAGEMAX : Exec(q, n)
  <2>1. PICK n \in 1 .. IMAGEMAX : Exec(q, n)
    BY <1>5
  <2>2. Held(loader_file(m, q, n), {}, lost) /\ Same(m, loader_file(m, q, n))
    BY <1>3, LoaderMaps
  <2> QED
    BY <1>1, <2>1, <2>2 DEF Exec
<1> QED
  BY <1>4, <1>5

LEMMA ExecKeeps ==
  ASSUME MemoryIInv, NEW q \in Proc, ExecFails(q) \/ \E n \in 1 .. IMAGEMAX : Exec(q, n)
  PROVE  MemoryIInv'
<1>1. PICK m, r : m = Now /\ Becomes(r) /\ Held(r, {}, lost) /\ Same(m, r)
  BY ExecKeepsTables
<1>2. lost' = lost
  BY DEF ExecFails, Exec
<1>3. m.used = used /\ (Fine(m) => m.ent[LOWTABLE][0] # 0 /\ IDLE \in m.used)
  BY <1>1, NowIsHeld
<1>4. Fine(r) => r.ent[LOWTABLE][0] # 0 /\ IDLE \in r.used
  BY <1>1, <1>3 DEF Same
<1>5. calls' \in 0 .. MAXCALLS /\ last' \in {"boot", "fork", "thread", "exec", "exit"} \X Proc
  BY MemoryAssumption DEF Exec, ExecFails, Calls, MemoryIInv, MemoryTypeOK
<1> QED
  BY <1>1, <1>2, <1>4, <1>5, BecomesSettled DEF MemoryIInv

(* thread_current replaces the directory of the son by the parent's: the   *)
(* tables and pages of the copy are lost.                                  *)
ShareDirectory(c, q, son) == [c EXCEPT !.ent[c.dir[son]] = c.ent[c.dir[q]]]
LeftBehind(c, son, L) == L \cup (UserTables(c, son) \cup Mapped(c, son))

LEMMA ShareTables ==
  ASSUME NEW c, NEW L, Held(c, {}, L), Fine(c), NEW q \in c.used, NEW son \in c.used, son # q,
         NEW g, g = ShareDirectory(c, q, son), NEW L2, L2 = LeftBehind(c, son, L)
  PROVE  /\ Held(g, {}, L2) /\ Fine(g) /\ g.used = c.used
         /\ g.ent[LOWTABLE][0] = c.ent[LOWTABLE][0]
         /\ L \subseteq Page => L2 \subseteq Page
<1>1. PICK k : Good(c, k, L) /\ \A p \in Page : k[p] # HAND
  BY DEF Held
<1>2. PICK ent \in Entries, dir \in [Proc -> Page \cup {0}], live \in SUBSET Proc :
        ent = c.ent /\ dir = c.dir /\ live = c.used
  BY DEF Held, Mem
<1>3. /\ Laid(c.free, c.ref, ent, dir, live, k) /\ NoneLost(ent, dir, live, k, L)
      /\ c.free \in Seq(Page) /\ c.ref \in [Page -> 0 .. 1] /\ q \in live /\ son \in live /\ c \in Mem
  BY <1>1, <1>2 DEF Good, Laying, Held
<1>4. /\ DirectoriesApart(ent, dir, live, k) /\ TablesApart(ent, k) /\ LowestKept(ent, k)
      /\ ListIsFree(c.free, k) /\ Counted(c.ref, k) /\ k \in [Page -> Kind]
  BY <1>3 DEF Laid
<1>5. PICK ds, dq, ent2 : ds = dir[son] /\ dq = dir[q] /\ ent2 = [ent EXCEPT ![ds] = ent[dq]]
  OBVIOUS
<1>6. /\ ds \in Page /\ dq \in Page /\ k[ds] = DIRECTORY /\ k[dq] = DIRECTORY /\ ds # dq
      /\ \A r \in live : r # son => dir[r] # ds /\ dir[r] \in Page
  BY <1>3, <1>4, <1>5 DEF DirectoriesApart
<1>7. UserPDX \subseteq Index /\ LOW \in Index /\ 0 \in Index /\ LOWTABLE \in Page /\ 0 \notin Page
  BY Constants
<1>8. \A u \in Page, j \in Index : ent[u][j] \in Page \cup {0}
  BY DEF Entries
<1>9. /\ ent2 \in Entries /\ \A j \in Index : ent2[ds][j] = ent[dq][j]
      /\ \A u \in Page : u # ds => \A j \in Index : ent2[u][j] = ent[u][j]
  <2>1. PICK row \in [Index -> Page \cup {0}] : row = ent[dq]
    BY <1>6 DEF Entries
  <2>2. ent2 = [ent EXCEPT ![ds] = row]
    BY <1>5, <2>1
  <2>3. RowSet(ent, ent2, ds) /\ ent2[ds] = row
    <3>1. ent2 \in Entries
      BY <1>6, <2>2 DEF Entries
    <3>2. ent2[ds] = row /\ \A u \in Page : u # ds => ent2[u] = ent[u]
      BY <1>6, <2>2 DEF Entries
    <3> QED
      BY <3>1, <3>2 DEF RowSet
  <2> QED
    BY <2>1, <2>3 DEF RowSet
<1>10. g.free = c.free /\ g.ref = c.ref /\ g.ent = ent2 /\ g.dir = dir /\ g.used = live /\ g \in Mem /\ Fine(g)
  BY <1>2, <1>3, <1>5, <1>9 DEF ShareDirectory, Mem, Fine
<1>11. UserTables(c, son) = {ent[ds][x] : x \in UserPDX} \ {0}
  BY <1>2, <1>5 DEF UserTables, UserPDX
<1>12. Mapped(c, son) = (UNION {{ent[t][j] : j \in Index} : t \in UserTables(c, son)}) \ {0}
  BY <1>2 DEF Mapped
<1>13. \A x \in UserPDX : ent[ds][x] # 0 => ent[ds][x] \in UserTables(c, son)
  BY <1>11
<1>14. \A t \in UserTables(c, son), j \in Index : ent[t][j] # 0 => ent[t][j] \in Mapped(c, son)
  BY <1>12
<1>15. DirectoriesApart(ent2, dir, live, k)
  <2>1. \A r \in live, j \in Index : ent2[dir[r]][j] = IF r = son THEN ent[dq][j] ELSE ent[dir[r]][j]
    BY <1>5, <1>6, <1>9
  <2> QED
    BY <1>3, <1>4, <1>5, <1>7, <2>1 DEF DirectoriesApart
<1>16. TablesApart(ent2, k)
  <2>1. \A t \in Page : k[t] = TABLE => t # ds /\ \A j \in Index : ent2[t][j] = ent[t][j]
    BY <1>6, <1>9 DEF DIRECTORY, TABLE
  <2> QED
    BY <1>4, <2>1 DEF TablesApart
<1>17. ent2[LOWTABLE][0] = ent[LOWTABLE][0]
  BY <1>4, <1>6, <1>7, <1>9 DEF LowestKept, LOWEST, DIRECTORY
<1>18. LowestKept(ent2, k)
  BY <1>4, <1>17 DEF LowestKept
<1>19. Laid(c.free, c.ref, ent2, dir, live, k) /\ GoneKnown(k, L2)
  BY <1>3, <1>4, <1>15, <1>16, <1>18 DEF Laid, NoneLost, GoneKnown, LeftBehind
<1>20. ASSUME NEW t \in Page, k[t] = TABLE PROVE KeptTable(ent2, dir, live, t) \/ t \in UserTables(c, son)
  <2>1. PICK r \in live, x \in UserPDX : ent[dir[r]][x] = t
    BY <1>3, <1>20 DEF NoneLost, TablesUsed
  <2>2. CASE r = son
    BY <1>5, <1>7, <1>13, <2>1, <2>2
  <2>3. CASE r # son
    <3>1. ent2[dir[r]][x] = t
      BY <1>6, <1>7, <1>9, <2>1, <2>3
    <3> QED
      BY <3>1 DEF KeptTable
  <2> QED
    BY <2>2, <2>3
<1>21. ASSUME NEW p \in Page, k[p] \in {DIRECTORY, TABLE, USER}, ~Kept(ent2, dir, live, p) PROVE p \in L2
  <2>1. CASE k[p] = DIRECTORY
    BY <1>3, <1>21, <2>1 DEF NoneLost, DirectoriesUsed, Kept
  <2>2. CASE k[p] = TABLE
    BY <1>20, <1>21, <2>2 DEF Kept, LeftBehind
  <2>3. CASE k[p] = USER
    <3>1. PICK t \in Page, j \in Index : k[t] = TABLE /\ ent[t][j] = p
      BY <1>3, <2>3 DEF NoneLost, UserUsed
    <3>2. ent2[t][j] = p
      BY <1>6, <1>9, <3>1 DEF DIRECTORY, TABLE
    <3>3. ~KeptTable(ent2, dir, live, t)
      BY <1>21, <3>2 DEF Kept, KeptUser
    <3>4. t \in UserTables(c, son)
      BY <1>20, <3>1, <3>3
    <3> QED
      BY <1>7, <1>14, <3>1, <3>4 DEF LeftBehind
  <2> QED
    BY <1>21, <2>1, <2>2, <2>3
<1>22. PICK k2 : Laying(c.free, c.ref, ent2, dir, live, k2, L2) /\ NoNewHand(k, k2)
  <2>1. PICK free \in Seq(Page), ref \in [Page -> 0 .. 1] : free = c.free /\ ref = c.ref
    BY <1>3
  <2>2. Laid(free, ref, ent2, dir, live, k) /\ ent2 \in Entries
    BY <1>9, <1>19, <2>1
  <2>3. LossKnown(ent2, dir, live, k, L2)
    BY <1>21 DEF LossKnown
  <2>4. Dropped(free, ref, ent2, dir, live, k, L2)
    BY <1>19, <2>2, <2>3 DEF Dropped
  <2>5. \E k2 : Laying(free, ref, ent2, dir, live, k2, L2) /\ NoNewHand(k, k2)
    BY <2>4, MoveLost
  <2> QED
    BY <2>1, <2>5
<1>23. Held(g, {}, L2)
  BY <1>1, <1>10, <1>22 DEF Held, Good, NoNewHand
<1>24. UserTables(c, son) \subseteq Page
  BY <1>6, <1>7, <1>8, <1>11
<1>25. Mapped(c, son) \subseteq Page
  BY <1>8, <1>12, <1>24
<1> QED
  BY <1>2, <1>10, <1>17, <1>23, <1>24, <1>25 DEF LeftBehind

LEMMA ThreadKeeps == ASSUME MemoryIInv, NEW q \in Proc, Thread(q) PROVE MemoryIInv'
<1>1. PICK son, c : son = FirstUnused /\ c = copy_pgdir(pcb_create(Now, son), son, q)
  OBVIOUS
<1>2. PICK g, d, r : /\ g = ShareDirectory(c, q, son)
                     /\ d = Fill(g, c.dir[son]) /\ r = mm_alloc(d, son, ThreadStack)
  OBVIOUS
<1>3. /\ Runs(q) /\ Unused # {}
      /\ ~Fine(c) => Becomes(c) /\ lost' = lost
      /\ Fine(c) => Becomes(r) /\ lost' = LeftBehind(c, son, lost)
  BY <1>1, <1>2 DEF Thread, Calls, Fine, ShareDirectory, LeftBehind
<1>4. /\ Held(c, {}, lost)
      /\ Fine(c) => /\ c.ent[LOWTABLE][0] # 0 /\ IDLE \in c.used
                    /\ q \in c.used /\ son \in c.used /\ son # q
  BY <1>1, <1>3, CopyForSon
<1>5. calls' \in 0 .. MAXCALLS /\ last' \in {"boot", "fork", "thread", "exec", "exit"} \X Proc
  BY MemoryAssumption DEF Thread, Calls, MemoryIInv, MemoryTypeOK
<1>6. CASE ~Fine(c)
  BY <1>3, <1>4, <1>5, <1>6, BecomesSettled DEF MemoryIInv
<1>7. CASE Fine(c)
  <2>1. PICK L2 : L2 = LeftBehind(c, son, lost)
    OBVIOUS
  <2>2. /\ Held(g, {}, L2) /\ Fine(g) /\ g.used = c.used /\ g.ent[LOWTABLE][0] = c.ent[LOWTABLE][0]
        /\ L2 \subseteq Page
    <3>1. lost \subseteq Page /\ q \in c.used /\ son \in c.used /\ son # q
      BY <1>4, <1>7 DEF MemoryIInv
    <3> QED
      BY <1>2, <1>4, <1>7, <2>1, <3>1, ShareTables
  <2>3. d \in Mem /\ (Fine(d) => d = g)
    BY <1>2, <2>2, FillOutcome DEF Held
  <2>4. Held(d, {}, L2) /\ (Fine(d) => son \in d.used)
    BY <1>4, <1>7, <2>2, <2>3 DEF Held
  <2>5. ThreadStack \in Seq(Address)
    <3>1. <<TSTACK, 0>> \in Address /\ <<TSTACK, 1>> \in Address
      BY Constants DEF Address, UserPDX
    <3> QED
      BY <3>1 DEF ThreadStack
  <2>6. Held(r, {}, L2) /\ Same(d, r)
    BY <1>2, <2>4, <2>5, MmAllocMaps
  <2>7. Fine(r) => r.ent[LOWTABLE][0] # 0 /\ IDLE \in r.used
    BY <1>4, <1>7, <2>2, <2>3, <2>6 DEF Same
  <2> QED
    BY <1>3, <1>5, <1>7, <2>1, <2>2, <2>6, <2>7, BecomesSettled
<1> QED
  BY <1>6, <1>7

(* exit leaves behind what nobody else needs.                              *)
LEMMA ExitKeeps == ASSUME MemoryIInv, NEW q \in Proc, Exit(q) PROVE MemoryIInv'
<1>1. PICK m, dead, L2 : /\ m = Now /\ dead = [m EXCEPT !.used = @ \ {q}]
                         /\ L2 = lost \cup (Needed(m) \ Needed(dead))
  OBVIOUS
<1>2. /\ q \in used /\ q # IDLE /\ fault = "none" /\ Becomes(dead) /\ lost' = L2
      /\ calls' = calls /\ last' = <<"exit", q>>
  BY <1>1 DEF Exit, Runs
<1>3. /\ m \in Mem /\ Held(m, {}, lost) /\ Fine(m) /\ m.used = used
      /\ m.ent[LOWTABLE][0] # 0 /\ IDLE \in used
  BY <1>1, <1>2, NowIsHeld
<1>4. PICK k : Good(m, k, lost) /\ \A p \in Page : k[p] # HAND
  BY <1>3 DEF Held
<1>5. PICK free \in Seq(Page), ref \in [Page -> 0 .. 1], ent \in Entries,
           dir \in [Proc -> Page \cup {0}], live \in SUBSET Proc, rest \in SUBSET Proc :
        /\ free = m.free /\ ref = m.ref /\ ent = m.ent /\ dir = m.dir /\ live = m.used
        /\ rest = live \ {q}
  BY <1>3 DEF Mem
<1>6. /\ dead \in Mem /\ Fine(dead) /\ dead.free = free /\ dead.ref = ref /\ dead.ent = ent
      /\ dead.dir = dir /\ dead.used = rest
  BY <1>1, <1>3, <1>5 DEF Mem, Fine
<1>7. Laid(free, ref, ent, dir, live, k) /\ NoneLost(ent, dir, live, k, lost)
  BY <1>4, <1>5 DEF Good, Laying
<1>8. DirectoriesApart(ent, dir, live, k) /\ DirectoriesApart(ent, dir, rest, k)
  BY <1>5, <1>7 DEF Laid, DirectoriesApart
<1>9. Laid(free, ref, ent, dir, rest, k) /\ GoneKnown(k, L2)
  BY <1>1, <1>7, <1>8 DEF Laid, NoneLost, GoneKnown
<1>10. /\ \A p \in Page : Kept(ent, dir, live, p) => p \in Needed(m)
       /\ \A p \in Needed(m) : p \in Page
       /\ \A p \in Needed(dead) : p = LOWTABLE \/ Kept(ent, dir, rest, p)
  <2>1. /\ \A p \in Page : Kept(ent, dir, live, p) => p \in Needed(m)
        /\ \A p \in Needed(m) : p \in Page
    BY <1>3, <1>5, <1>8, NeededIsKept
  <2>2. \A p \in Needed(dead) : p = LOWTABLE \/ Kept(ent, dir, rest, p)
    BY <1>6, <1>8, NeededIsKept
  <2> QED
    BY <2>1, <2>2
<1>11. ASSUME NEW p \in Page, k[p] \in {DIRECTORY, TABLE, USER}, ~Kept(ent, dir, rest, p) PROVE p \in L2
  <2>1. p # LOWTABLE
    BY <1>7, <1>11 DEF Laid, LowestKept, LOWEST, DIRECTORY, TABLE, USER
  <2>2. Kept(ent, dir, live, p)
    BY <1>7, <1>11 DEF NoneLost, DirectoriesUsed, TablesUsed, UserUsed, Kept, KeptTable, KeptUser
  <2> QED
    BY <1>1, <1>10, <1>11, <2>1, <2>2
<1>12. PICK k2 : Laying(free, ref, ent, dir, rest, k2, L2) /\ NoNewHand(k, k2)
  <2>1. LossKnown(ent, dir, rest, k, L2)
    BY <1>11 DEF LossKnown
  <2>2. Dropped(free, ref, ent, dir, rest, k, L2)
    BY <1>9, <2>1 DEF Dropped
  <2> QED
    BY <2>2, MoveLost
<1>13. Held(dead, {}, L2)
  BY <1>4, <1>6, <1>12 DEF Held, Good, NoNewHand
<1>14. L2 \subseteq Page
  BY <1>1, <1>10 DEF MemoryIInv
<1>15. dead.ent[LOWTABLE][0] # 0 /\ IDLE \in dead.used
  BY <1>2, <1>3, <1>5, <1>6
<1>16. calls' \in 0 .. MAXCALLS /\ last' \in {"boot", "fork", "thread", "exec", "exit"} \X Proc
  BY <1>2 DEF MemoryIInv, MemoryTypeOK
<1> QED
  BY <1>2, <1>13, <1>14, <1>15, <1>16, BecomesSettled

(* page_init: every page but the table at 0 is free.                       *)
LEMMA PagesStart ==
  ASSUME NEW m, m = [free  |-> [p \in 1 .. NPAGES - 1 |-> p + 1],
                     ref   |-> [p \in Page |-> IF p = LOWTABLE THEN 1 ELSE 0],
                     ent   |-> [p \in Page |-> Empty],
                     dir   |-> [q \in Proc |-> 0],
                     used  |-> {}, fault |-> "none", page |-> 0]
  PROVE  Held(m, {}, {}) /\ m.used = {}
<1>1. NPAGES \in Nat /\ NPAGES >= 1 /\ LOWTABLE \in Page /\ LOWTABLE = 1 /\ Page = 1 .. NPAGES /\ 0 \notin Page
  BY MemoryAssumption DEF Page, LOWTABLE
<1>2. PICK free, ref, ent, dir : /\ free = [p \in 1 .. NPAGES - 1 |-> p + 1]
                                 /\ ref = [p \in Page |-> IF p = LOWTABLE THEN 1 ELSE 0]
                                 /\ ent = [p \in Page |-> Empty] /\ dir = [q \in Proc |-> 0]
  OBVIOUS
<1>3. /\ free \in Seq(Page) /\ Len(free) = NPAGES - 1
      /\ \A i \in 1 .. NPAGES - 1 : free[i] = i + 1
  BY <1>1, <1>2
<1>4. ref \in [Page -> 0 .. 1] /\ \A p \in Page : p # LOWTABLE => ref[p] = 0
  BY <1>2
<1>5. ent \in Entries /\ \A p \in Page, j \in Index : ent[p][j] = 0
  BY <1>2, EmptyIsRow DEF Entries
<1>6. /\ m.free = free /\ m.ref = ref /\ m.ent = ent /\ m.dir = dir /\ m.used = {} /\ m.fault = "none"
      /\ m \in Mem
  BY <1>2, <1>3, <1>4, <1>5 DEF Mem
<1>7. PICK k : k = [p \in Page |-> IF p = LOWTABLE THEN LOWEST ELSE FREE]
  OBVIOUS
<1>8. /\ k \in [Page -> Kind] /\ k[LOWTABLE] = LOWEST
      /\ \A p \in Page : p # LOWTABLE => k[p] = FREE
  BY <1>1, <1>7 DEF Kind, LOWEST, FREE
<1>9. ListIsFree(free, k)
  <2>1. \A i \in 1 .. NPAGES - 1 : k[free[i]] = FREE
    BY <1>1, <1>3, <1>8
  <2>2. \A i, j \in 1 .. NPAGES - 1 : free[i] = free[j] => i = j
    BY <1>1, <1>3
  <2>3. ASSUME NEW p \in Page, k[p] = FREE PROVE \E i \in 1 .. NPAGES - 1 : free[i] = p
    <3>1. p # 1
      BY <1>1, <1>8, <2>3 DEF FREE, LOWEST
    <3>2. p - 1 \in 1 .. NPAGES - 1 /\ free[p - 1] = p
      BY <1>1, <1>3, <3>1
    <3> QED
      BY <3>2
  <2> QED
    BY <1>3, <2>1, <2>2, <2>3 DEF ListIsFree
<1>10. \A p \in Page : k[p] \notin {HAND, DIRECTORY, TABLE, USER, HEADER, GONE}
  BY <1>8 DEF FREE, LOWEST, HAND, DIRECTORY, TABLE, USER, HEADER, GONE
<1>11. DirectoriesApart(ent, dir, {}, k) /\ TablesApart(ent, k)
  BY <1>10 DEF DirectoriesApart, TablesApart
<1>12. LowestKept(ent, k)
  <2>1. ent[LOWTABLE][0] = 0
    BY <1>1, <1>5, Constants
  <2>2. \A p \in Page : k[p] = LOWEST <=> p = LOWTABLE
    BY <1>8 DEF FREE, LOWEST
  <2> QED
    BY <1>1, <1>10, <2>1, <2>2 DEF LowestKept
<1>13. Counted(ref, k)
  BY <1>4, <1>8, <1>10 DEF Counted, FREE, LOWEST
<1>14. NoneLost(ent, dir, {}, k, {})
  BY <1>10 DEF NoneLost, DirectoriesUsed, TablesUsed, UserUsed, GoneKnown
<1>15. Good(m, k, {})
  BY <1>3, <1>4, <1>5, <1>6, <1>8, <1>9, <1>11, <1>12, <1>13, <1>14 DEF Good, Laying, Laid, Mem
<1> QED
  BY <1>6, <1>10, <1>15 DEF Held

LEMMA InitHolds == Init => MemoryIInv
<1> SUFFICES ASSUME Init PROVE MemoryIInv
  OBVIOUS
<1>1. PICK n \in 1 .. IMAGEMAX :
        /\ page_free_list = Boot(n).free /\ pp_ref = Boot(n).ref /\ entries = Boot(n).ent
        /\ pgdir = Boot(n).dir /\ used = Boot(n).used /\ fault = Boot(n).fault
        /\ calls = 0 /\ lost = {} /\ last = <<"boot", IDLE>>
  BY DEF Init
<1>2. PICK m, a, b, r :
        /\ m = [free  |-> [p \in 1 .. NPAGES - 1 |-> p + 1],
                ref   |-> [p \in Page |-> IF p = LOWTABLE THEN 1 ELSE 0],
                ent   |-> [p \in Page |-> Empty],
                dir   |-> [q \in Proc |-> 0],
                used  |-> {}, fault |-> "none", page |-> 0]
        /\ a = pcb_create(m, IDLE) /\ b = pcb_create(a, SHELL) /\ r = loader_file(b, SHELL, n)
  OBVIOUS
<1>3. r = Boot(n)
  BY <1>2 DEF Boot
<1>4. IDLE \in Proc /\ SHELL \in Proc /\ IDLE # SHELL
  BY MemoryAssumption DEF Proc, IDLE, SHELL
<1>5. Held(m, {}, {}) /\ m.used = {}
  BY <1>2, PagesStart
<1>6. Held(a, {}, {}) /\ (Fine(a) => a.used = {IDLE})
  <2>1. Held(a, {}, {}) /\ (Fine(a) => Created(m, a, IDLE))
    BY <1>2, <1>4, <1>5, PcbCreates
  <2> QED
    BY <1>5, <2>1 DEF Created
<1>7. Held(b, {}, {}) /\ (Fine(b) => b.used = {IDLE, SHELL})
  <2>1. Held(b, {}, {}) /\ (Fine(b) => Created(a, b, SHELL))
    BY <1>2, <1>4, <1>6, PcbCreates
  <2> QED
    BY <1>6, <2>1 DEF Created
<1>8. Held(r, {}, {}) /\ Same(b, r) /\ (Fine(r) => r.ent[LOWTABLE][0] # 0)
  <2>1. Held(b, {}, {}) /\ (Fine(b) => SHELL \in b.used)
    BY <1>7
  <2>2. r = loader_file(b, SHELL, n)
    BY <1>2
  <2> QED
    BY <2>1, <2>2, LoaderMaps
<1>9. Fine(r) => IDLE \in r.used
  BY <1>7, <1>8 DEF Same
<1>10. r \in Mem
  BY <1>8 DEF Held
<1>11. /\ page_free_list = r.free /\ pp_ref = r.ref /\ entries = r.ent
       /\ pgdir = r.dir /\ used = r.used /\ fault = r.fault
  BY <1>1, <1>3
<1>12. MemoryTypeOK
  <2>1. calls \in 0 .. MAXCALLS /\ last \in {"boot", "fork", "thread", "exec", "exit"} \X Proc
    BY <1>1, <1>4, MemoryAssumption
  <2> QED
    BY <1>10, <1>11, <2>1 DEF MemoryTypeOK, Mem, Entries
<1>13. ASSUME fault = "none" PROVE Settled(Now, lost)
  <2>1. PICK now : now = Now
    OBVIOUS
  <2>2. /\ now.free = r.free /\ now.ref = r.ref /\ now.ent = r.ent /\ now.dir = r.dir
        /\ now.used = r.used
    BY <1>11, <2>1 DEF Now
  <2>3. Fine(r)
    BY <1>11, <1>13 DEF Fine
  <2>4. Settled(now, {})
    BY <1>8, <1>9, <2>2, <2>3, Settles
  <2> QED
    BY <1>1, <2>1, <2>4
<1> QED
  BY <1>1, <1>12, <1>13 DEF MemoryIInv

LEMMA MemoryInductive == MemoryIInv /\ [Next]_vars => MemoryIInv'
<1> SUFFICES ASSUME MemoryIInv, [Next]_vars PROVE MemoryIInv'
  OBVIOUS
<1>1. CASE UNCHANGED vars
  BY <1>1 DEF vars, MemoryIInv, MemoryTypeOK, Now
<1>2. ASSUME NEW q \in Proc, Fork(q) \/ Thread(q) \/ ExecFails(q) \/ Exit(q) PROVE MemoryIInv'
  BY <1>2, ForkKeeps, ThreadKeeps, ExecKeeps, ExitKeeps
<1>3. ASSUME NEW q \in Proc, NEW n \in 1 .. IMAGEMAX, Exec(q, n) PROVE MemoryIInv'
  BY <1>3, ExecKeeps
<1>4. CASE Stopped
  BY <1>1, <1>4 DEF Stopped
<1> QED
  BY <1>1, <1>2, <1>3, <1>4 DEF Next

-----------------------------------------------------------------------------
(* What follows from the invariant.                                        *)

(* A page that is kept is neither free nor anything else.                  *)
LEMMA KeptKind ==
  ASSUME NEW ent \in Entries, NEW dir, NEW live, NEW k,
         DirectoriesApart(ent, dir, live, k), TablesApart(ent, k),
         NEW p \in Page, Kept(ent, dir, live, p)
  PROVE  k[p] \in {DIRECTORY, TABLE, USER}
<1>1. 0 \notin Page
  BY Constants
<1>2. \A t \in Page : KeptTable(ent, dir, live, t) => k[t] = TABLE
  BY <1>1 DEF KeptTable, DirectoriesApart
<1>3. KeptUser(ent, dir, live, p) => k[p] = USER
  BY <1>1, <1>2 DEF KeptUser, TablesApart
<1> QED
  BY <1>2, <1>3 DEF Kept, DirectoriesApart

LEMMA KindsOfNow ==
  ASSUME MemoryIInv, fault = "none"
  PROVE  \E k : /\ Laid(page_free_list, pp_ref, entries, pgdir, used, k)
                /\ NoneLost(entries, pgdir, used, k, lost) /\ \A p \in Page : k[p] # HAND
                /\ \A p \in Page : Kept(entries, pgdir, used, p) => p \in Needed(Now)
                /\ \A p \in Needed(Now) : /\ p \in Page
                                          /\ k[p] \in {LOWEST, DIRECTORY, TABLE, USER}
                /\ LOWTABLE \in Needed(Now) /\ entries[LOWTABLE][0] \in Page
<1>1. PICK m : m = Now
  OBVIOUS
<1>2. /\ m \in Mem /\ m.free = page_free_list /\ m.ref = pp_ref /\ m.ent = entries /\ m.dir = pgdir
      /\ m.used = used
  BY <1>1, NowIsHeld DEF Now
<1>3. m.ent[LOWTABLE][0] # 0 /\ IDLE \in m.used
  BY <1>1, <1>2, NowIsHeld
<1>4. PICK k : Sorted(m, k, lost) /\ \A p \in Page : k[p] # HAND
  BY <1>1 DEF MemoryIInv, Settled
<1>5. /\ Laid(page_free_list, pp_ref, entries, pgdir, used, k)
      /\ NoneLost(entries, pgdir, used, k, lost)
  BY <1>2, <1>4 DEF Sorted
<1>6. DirectoriesApart(m.ent, m.dir, m.used, k) /\ TablesApart(m.ent, k) /\ LowestKept(m.ent, k)
  BY <1>2, <1>5 DEF Laid
<1>7. /\ \A p \in Page : Kept(m.ent, m.dir, m.used, p) => p \in Needed(m)
      /\ \A p \in Needed(m) : p \in Page /\ (p = LOWTABLE \/ Kept(m.ent, m.dir, m.used, p))
      /\ LOWTABLE \in Needed(m)
  BY <1>2, <1>3, <1>6, NeededIsKept
<1>8. m.ent \in Entries /\ LOWTABLE \in Page /\ 0 \in Index
  BY <1>2, Constants DEF Mem
<1>9. \A p \in Needed(m) : k[p] \in {LOWEST, DIRECTORY, TABLE, USER}
  BY <1>6, <1>7, <1>8, KeptKind DEF LowestKept
<1>10. m.ent[LOWTABLE][0] \in Page
  BY <1>3, <1>8 DEF Entries
<1> QED
  BY <1>1, <1>2, <1>4, <1>5, <1>7, <1>9, <1>10

LEMMA InvFollows == MemoryIInv => MemoryInv
<1> SUFFICES ASSUME MemoryIInv PROVE MemoryInv
  OBVIOUS
<1>1. MemoryTypeOK /\ lost \subseteq Page
  BY DEF MemoryIInv
<1>2. CASE fault # "none"
  BY <1>1, <1>2 DEF MemoryInv, FreePagesFree, PagesAccounted, PagesPrivate
<1>3. CASE fault = "none"
  <2>1. PICK k : /\ Laid(page_free_list, pp_ref, entries, pgdir, used, k)
                 /\ NoneLost(entries, pgdir, used, k, lost) /\ \A p \in Page : k[p] # HAND
                 /\ \A p \in Page : Kept(entries, pgdir, used, p) => p \in Needed(Now)
                 /\ \A p \in Needed(Now) : /\ p \in Page
                                           /\ k[p] \in {LOWEST, DIRECTORY, TABLE, USER}
                 /\ LOWTABLE \in Needed(Now) /\ entries[LOWTABLE][0] \in Page
    BY <1>3, KindsOfNow
  <2>2. PICK head : head = entries[LOWTABLE][ELFADDR[2]] /\ head = entries[LOWTABLE][0]
    BY DEF ELFADDR
  <2>3. PICK need : need = Needed(Now)
    OBVIOUS
  <2>4. PICK free \in Seq(Page) : free = page_free_list /\ DOMAIN free = 1 .. Len(free)
    BY <1>1 DEF MemoryTypeOK
  <2>5. /\ ListIsFree(free, k) /\ DirectoriesApart(entries, pgdir, used, k) /\ TablesApart(entries, k)
        /\ k \in [Page -> Kind] /\ k[head] = HEADER /\ head \in Page
        /\ \A p \in Page : (k[p] = LOWEST <=> p = LOWTABLE) /\ (k[p] = HEADER <=> p = head)
    BY <2>1, <2>2, <2>4 DEF Laid, LowestKept
  <2>6. FreePagesFree
    <3>1. \A i \in 1 .. Len(free) : free[i] \in Page /\ k[free[i]] = FREE
      BY <2>5 DEF ListIsFree
    <3>2. \A i \in 1 .. Len(free) : free[i] \notin need /\ free[i] # head
      BY <2>1, <2>3, <2>5, <3>1 DEF FREE, LOWEST, DIRECTORY, TABLE, USER, HEADER
    <3>3. \A i, j \in 1 .. Len(free) : free[i] = free[j] => i = j
      BY <2>5 DEF ListIsFree
    <3> QED
      BY <2>2, <2>3, <2>4, <3>2, <3>3 DEF FreePagesFree
  <2>7. PagesAccounted
    <3>1. Range(free) = {free[i] : i \in 1 .. Len(free)}
      BY <2>4 DEF Range
    <3>2. Range(free) \subseteq Page /\ need \subseteq Page /\ lost \subseteq Page /\ head \in Page
      BY <1>1, <2>1, <2>3, <2>4, <2>5, <3>1
    <3>3. ASSUME NEW p \in Page PROVE p \in Range(free) \cup need \cup lost \cup {head}
      <4>1. CASE k[p] = FREE
        BY <2>5, <3>1, <4>1 DEF ListIsFree
      <4>2. CASE k[p] \in {DIRECTORY, TABLE, USER}
        <5>1. Kept(entries, pgdir, used, p)
          BY <2>1, <4>2 DEF NoneLost, DirectoriesUsed, TablesUsed, UserUsed, Kept, KeptTable, KeptUser
        <5> QED
          BY <2>1, <2>3, <5>1
      <4>3. CASE k[p] = LOWEST
        BY <2>1, <2>3, <2>5, <4>3
      <4>4. CASE k[p] = HEADER
        BY <2>5, <4>4
      <4>5. CASE k[p] = GONE
        BY <2>1, <4>5 DEF NoneLost, GoneKnown
      <4>6. k[p] \in {FREE, DIRECTORY, TABLE, USER, LOWEST, HEADER, GONE}
        <5>1. k[p] \in 0 .. 7 /\ k[p] # 1
          BY <2>1, <2>5 DEF Kind, HAND
        <5> QED
          BY <5>1 DEF FREE, DIRECTORY, TABLE, USER, LOWEST, HEADER, GONE
      <4> QED
        BY <4>1, <4>2, <4>3, <4>4, <4>5, <4>6
    <3> QED
      BY <2>2, <2>3, <2>4, <3>2, <3>3 DEF PagesAccounted
  <2>8. PagesPrivate
    <3>1. entries \in Entries /\ UserPDX \subseteq Index /\ 0 \notin Page
      BY <1>1, Constants DEF MemoryTypeOK, Entries
    <3>2. \A q \in used : UserTables(Now, q) = {entries[pgdir[q]][x] : x \in UserPDX} \ {0}
      BY DEF UserTables, Now, UserPDX
    <3>3. ASSUME NEW q \in used, NEW t \in UserTables(Now, q) PROVE t \in Page /\ k[t] = TABLE
      <4>1. PICK x \in UserPDX : t = entries[pgdir[q]][x] /\ t # 0
        BY <3>2, <3>3
      <4>2. pgdir[q] \in Page /\ k[t] = TABLE
        BY <2>5, <4>1 DEF DirectoriesApart
      <4> QED
        BY <3>1, <4>1, <4>2 DEF Entries
    <3> QED
      BY <2>5, <3>3 DEF PagesPrivate, TablesApart
  <2> QED
    BY <1>1, <2>6, <2>7, <2>8 DEF MemoryInv
<1> QED
  BY <1>2, <1>3

(* Whatever the number of pages, processes and calls, and however fork,    *)
(* thread, exec and exit follow each other: what page_remove puts on the   *)
(* free list is free, no page is lost but by exit and thread_current, and  *)
(* a page of user memory is mapped in one place only (pmap.c, process.c).  *)
THEOREM PagesAreKept == Spec => []MemoryInv
<1>1. MemoryIInv => MemoryInv
  BY InvFollows
<1> QED
  BY <1>1, InitHolds, MemoryInductive, PTL DEF Spec

(* No step but thread makes two processes share a table.                   *)
LEMMA StepKeepsApart ==
  ASSUME MemoryIInv, [Next]_vars, last'[1] # "thread", fault' = "none"
  PROVE  Apart(Now, Now')
<1>1. PICK m, n : m = Now /\ n = Now'
  OBVIOUS
<1>2. ASSUME NEW r, Becomes(r), Apart(m, r) PROVE Apart(m, n)
  <2>1. n.ent = r.ent /\ n.dir = r.dir /\ n.used = r.used
    BY <1>1, <1>2 DEF Now, Becomes
  <2> QED
    BY <1>2, <2>1 DEF Apart, TableOf
<1>3. ASSUME NEW r, Becomes(r) PROVE Fine(r)
  BY <1>3 DEF Becomes, Fine
<1>4. CASE UNCHANGED vars
  <2>1. n = m
    BY <1>1, <1>4 DEF vars, Now
  <2> QED
    BY <1>1, <2>1 DEF Apart
<1>5. ASSUME NEW q \in Proc, Fork(q) PROVE Apart(m, n)
  <2>1. PICK son, c : son = FirstUnused /\ c = copy_pgdir(pcb_create(Now, son), son, q)
    OBVIOUS
  <2>2. Runs(q) /\ Unused # {} /\ Becomes(c)
    BY <1>5, <2>1 DEF Fork, Calls
  <2>3. Fine(c)
    BY <1>3, <2>2
  <2>4. Apart(m, c)
    BY <1>1, <2>1, <2>2, <2>3, CopyForSon
  <2> QED
    BY <1>2, <2>2, <2>4
<1>6. ASSUME NEW q \in Proc, ExecFails(q) \/ \E k \in 1 .. IMAGEMAX : Exec(q, k) PROVE Apart(m, n)
  <2>1. PICK r : Becomes(r) /\ Same(m, r)
    BY <1>1, <1>6, ExecKeepsTables
  <2>2. Apart(m, r)
    BY <1>3, <2>1 DEF Same
  <2> QED
    BY <1>2, <2>1, <2>2
<1>7. ASSUME NEW q \in Proc, Exit(q) PROVE Apart(m, n)
  <2>1. n.ent = m.ent /\ n.dir = m.dir /\ n.used \subseteq m.used
    BY <1>1, <1>7 DEF Exit, Becomes, Now
  <2> QED
    BY <2>1 DEF Apart, TableOf
<1>8. ASSUME NEW q \in Proc, Thread(q) PROVE FALSE
  BY <1>8 DEF Thread, Calls
<1> QED
  BY <1>1, <1>4, <1>5, <1>6, <1>7, <1>8 DEF Next, Stopped

(* However the calls follow each other, only thread makes two processes    *)
(* share a table: fork copies (copy_pgdir), exec maps new pages into the   *)
(* tables of its caller, and exit only drops.                              *)
THEOREM ThreadsAloneShare == Spec => OnlyThreadsShare
<1> DEFINE A(q, r) == q # r /\ Share(q, r)' => {q, r} \subseteq used /\ Share(q, r)
           B == last'[1] # "thread" /\ fault' = "none" => \A q, r \in used' : A(q, r)
<1>1. ASSUME MemoryIInv, [Next]_vars PROVE [B]_vars
  <2> SUFFICES ASSUME last'[1] # "thread", fault' = "none",
                      NEW q \in used', NEW r \in used', q # r, Share(q, r)'
               PROVE  {q, r} \subseteq used /\ Share(q, r)
    OBVIOUS
  <2>1. Apart(Now, Now')
    BY <1>1, StepKeepsApart
  <2>2. \A o : /\ UserTables(Now, o) = {TableOf(Now, o, x) : x \in UserPDX} \ {0}
               /\ UserTables(Now, o)' = {TableOf(Now', o, x) : x \in UserPDX} \ {0}
    BY DEF UserTables, TableOf, UserPDX
  <2>3. PICK x \in UserPDX, y \in UserPDX :
          TableOf(Now', q, x) = TableOf(Now', r, y) /\ TableOf(Now', q, x) # 0
    BY <2>2 DEF Share
  <2>4. Now'.used = used' /\ Now.used = used
    BY DEF Now
  <2>5. /\ q \in used /\ r \in used
        /\ TableOf(Now, q, x) = TableOf(Now, r, y) /\ TableOf(Now, q, x) # 0
    BY <2>1, <2>3, <2>4 DEF Apart
  <2>6. TableOf(Now, q, x) \in UserTables(Now, q) \cap UserTables(Now, r)
    BY <2>2, <2>5
  <2> QED
    BY <2>5, <2>6 DEF Share
<1> QED
  BY <1>1, InitHolds, MemoryInductive, PTL DEF Spec, OnlyThreadsShare
=============================================================================
