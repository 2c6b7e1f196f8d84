------------------------------- MODULE Memory -------------------------------
(***************************************************************************)
(* Physical pages and address spaces (kernel/src/paging/pmap.c, loader.c,  *)
(* and what pcb_create, copy_pcb and thread_current of process.c do with   *)
(* memory).                                                                *)
(*                                                                         *)
(* A page directory or page table is a page whose entries are pages, 0     *)
(* meaning not present.  An address is a pair <<pdx, ptx>>; four page      *)
(* tables matter: the one at 0, which page_init puts into kern_pgdir for   *)
(* the video memory and which every process therefore shares, the one of   *)
(* the program image, the one of the user stack (below USTACKTOP, which is *)
(* 0xbebfe000) and the one of the stack that thread_current maps (below    *)
(* 0xeebfd000, where nothing else is).  Contents of other pages are not    *)
(* modelled, only who may overwrite whose page.                            *)
(***************************************************************************)
EXTENDS Integers, Sequences, FiniteSets, SequencesExt

CONSTANTS
  NPAGES,     \* bound: pages above the base of page_init
  NPROCS,     \* bound: PCBs
  IMAGEMAX,   \* bound: pages of the largest program image
  MAXCALLS    \* bound: calls of fork, thread and exec

ASSUME MemoryAssumption ==
  /\ NPAGES \in Nat /\ NPAGES >= 8 + IMAGEMAX   \* what booting takes
  /\ NPROCS \in Nat \ {0, 1} /\ IMAGEMAX \in Nat \ {0, 1} /\ MAXCALLS \in Nat

Page  == 1 .. NPAGES
Proc  == 0 .. NPROCS - 1
IDLE  == 0
SHELL == 1
LOW    == 0     \* the four values of PDX(va)
IMAGE  == 1
STACK  == 2
TSTACK == 3
PDX == {LOW, IMAGE, STACK, TSTACK}
UserPDX == {IMAGE, STACK, TSTACK}
Index == 0 .. IMAGEMAX + 1

(* memset and memcpy of common.h count doublewords (rep stosl, rep movsl), *)
(* so filling "PGSIZE" fills this many pages.                              *)
FILL == 4

VARIABLES
  page_free_list,  \* the free pages, first one first
  pp_ref,          \* pages[p].pp_ref
  entries,         \* entries[p][i]: the page that entry i of page p points to
  pgdir,           \* PCB.pgdir, 0 before the first use of the PCB
  used,            \* the PCBs in use
  fault,           \* "none", "oom" a null page was used, "overwritten" a page
                   \* that a live process needs was filled by mistake
  calls,           \* calls of fork, thread and exec so far
  lost,            \* history: pages left behind by exit and by thread_current
  last             \* history: the last system call and its caller

vars == <<page_free_list, pp_ref, entries, pgdir, used, fault, calls, lost, last>>

Now == [free |-> page_free_list, ref |-> pp_ref, ent |-> entries, dir |-> pgdir,
        used |-> used, fault |-> fault, page |-> 0]

Becomes(m) ==
  /\ page_free_list' = m.free /\ pp_ref' = m.ref /\ entries' = m.ent
  /\ pgdir' = m.dir /\ used' = m.used /\ fault' = m.fault

-----------------------------------------------------------------------------
(* pmap.c.  Operators take and return a memory m; m.page is the page that  *)
(* page_alloc returned.                                                    *)

(* The pages a live process needs: its directory, its tables, its image    *)
(* and its stacks.  The ELF header at address 0 is used by loader_file only.*)
Tables(m, q) == {m.ent[m.dir[q]][x] : x \in PDX} \ {0}
UserTables(m, q) == {m.ent[m.dir[q]][x] : x \in UserPDX} \ {0}
Mapped(m, q) == (UNION {{m.ent[t][i] : i \in Index} : t \in UserTables(m, q)}) \ {0}
Needed(m) == UNION {{m.dir[q]} \cup Tables(m, q) \cup Mapped(m, q) : q \in m.used}

(* A fill of PGSIZE doublewords that starts with page p.                   *)
Fill(m, p) ==
  IF m.fault = "none" /\ (p + 1 .. p + FILL - 1) \cap Needed(m) # {}
  THEN [m EXCEPT !.fault = "overwritten"] ELSE m

Empty == [i \in Index |-> 0]

page_alloc(m, zero) ==
  IF m.fault # "none" THEN m
  ELSE IF m.free = << >> THEN [m EXCEPT !.fault = "oom"]
  ELSE LET p == Head(m.free)
           a == [m EXCEPT !.free = Tail(@), !.page = p]
       IN  IF zero THEN Fill([a EXCEPT !.ent[p] = Empty], p) ELSE a

page_free(m, p) == [m EXCEPT !.free = <<p>> \o @]

page_decref(m, p) ==
  LET d == [m EXCEPT !.ref[p] = @ - 1]
  IN  IF d.ref[p] = 0 THEN page_free(d, p) ELSE d

(* The table of x, made on demand.                                         *)
pgdir_walk(m, q, x) ==
  IF m.fault # "none" \/ m.ent[m.dir[q]][x] # 0 THEN m
  ELSE LET a == page_alloc(m, TRUE)
       IN  IF a.fault # "none" THEN a
           ELSE [a EXCEPT !.ref[a.page] = @ + 1, !.ent[a.dir[q]][x] = a.page]

page_remove_Leaks(m, t, i) == [m EXCEPT !.ent[t][i] = 0]  \* mutant
page_remove(m, t, i) == page_decref([m EXCEPT !.ent[t][i] = 0], m.ent[t][i])

page_insert(m, q, p, va) ==
  LET w == pgdir_walk(m, q, va[1]) IN
  IF w.fault # "none" THEN w
  ELSE LET t   == w.ent[w.dir[q]][va[1]]
           old == w.ent[t][va[2]]
           r   == IF old \notin {0, p} THEN page_remove(w, t, va[2]) ELSE w
       IN  [r EXCEPT !.ent[t][va[2]] = p, !.ref[p] = @ + 1]

(* mm_alloc does not look whether page_alloc returned a page.              *)
mm_alloc(m, q, vas) ==
  FoldLeft(LAMBDA s, va : LET a == page_alloc(s, FALSE)
                          IN  IF a.fault # "none" THEN a ELSE page_insert(a, q, a.page, va),
           m, vas)

(* copy_pgdir: one table after the other, one page after the other.        *)
copy_page(m, t, i, src) ==
  IF m.fault # "none" \/ m.ent[src][i] = 0 THEN m
  ELSE LET a == page_alloc(m, FALSE)
       IN  IF a.fault # "none" THEN a
           ELSE Fill([a EXCEPT !.ref[a.page] = @ + 1, !.ent[t][i] = a.page], a.page)

copy_table(m, t, src) ==
  FoldLeft(LAMBDA u, i : copy_page(u, t, i, src), m, [k \in 1 .. IMAGEMAX + 2 |-> k - 1])

copy_pgdir_Shares(m, dst, src) ==  \* mutant: the tables are not copied
  [m EXCEPT !.ent[m.dir[dst]] = m.ent[m.dir[src]]]

copy_entry(m, x, dst, src) ==
  LET from == m.ent[m.dir[src]][x] IN
  IF m.fault # "none" \/ from = 0 \/ m.ent[m.dir[dst]][x] # 0 THEN m
  ELSE LET a == page_alloc(m, TRUE)
           t == [a EXCEPT !.ref[a.page] = @ + 1, !.ent[a.dir[dst]][x] = a.page]
       IN  IF a.fault # "none" THEN a ELSE copy_table(t, a.page, from)

copy_pgdir(m, dst, src) ==
  FoldLeft(LAMBDA s, x : copy_entry(s, x, dst, src), m, <<LOW, IMAGE, STACK, TSTACK>>)

-----------------------------------------------------------------------------
(* Users of pmap.c.                                                        *)

(* kern_pgdir has the table of the video memory, the first page allocated. *)
LOWTABLE == 1
kern_pgdir == [Empty EXCEPT ![LOW] = LOWTABLE]

pcb_create(m, q) ==
  LET a == page_alloc(m, TRUE) IN
  IF a.fault # "none" THEN [a EXCEPT !.used = @ \cup {q}]
  ELSE Fill([a EXCEPT !.used = @ \cup {q}, !.dir[q] = a.page, !.ref[a.page] = @ + 1,
                      !.ent[a.page] = kern_pgdir], a.page)

ELFADDR == <<LOW, 0>>
Image(n) == [k \in 1 .. n |-> <<IMAGE, k - 1>>]

(* The eight pages below USTACKTOP are two here; the two of a thread.      *)
ThreadStack_AtUserStack == <<<<STACK, 0>>, <<STACK, 1>>>>  \* mutant
UserStack   == <<<<STACK, 0>>, <<STACK, 1>>>>
ThreadStack == <<<<TSTACK, 0>>, <<TSTACK, 1>>>>

loader_file(m, q, n) ==
  mm_alloc(mm_alloc(mm_alloc(m, q, <<ELFADDR>>), q, Image(n)), q, UserStack)

(* page_init and main() with an image of n pages for the shell.            *)
Boot(n) ==
  LET start == [free  |-> [p \in 1 .. NPAGES - 1 |-> p + 1],
                ref   |-> [p \in Page |-> IF p = LOWTABLE THEN 1 ELSE 0],
                ent   |-> [p \in Page |-> Empty],
                dir   |-> [q \in Proc |-> 0],
                used  |-> {}, fault |-> "none", page |-> 0]
  IN  loader_file(pcb_create(pcb_create(start, IDLE), SHELL), SHELL, n)

Init ==
  \E n \in 1 .. IMAGEMAX :
    /\ page_free_list = Boot(n).free /\ pp_ref = Boot(n).ref /\ entries = Boot(n).ent
    /\ pgdir = Boot(n).dir /\ used = Boot(n).used /\ fault = Boot(n).fault
    /\ calls = 0 /\ lost = {} /\ last = <<"boot", IDLE>>

Runs(q) == fault = "none" /\ q \in used \ {IDLE}
Calls(op, q) ==
  Runs(q) /\ calls < MAXCALLS /\ calls' = calls + 1 /\ last' = <<op, q>>
Unused == Proc \ used
FirstUnused == CHOOSE q \in Unused : \A r \in Unused : q <= r

Fork(q) ==
  /\ Calls("fork", q) /\ Unused # {}
  /\ Becomes(copy_pgdir(pcb_create(Now, FirstUnused), FirstUnused, q))
  /\ UNCHANGED lost

(* copy_pcb copies the whole address space, as tt is no longer THREAD, and *)
(* then the directory is replaced by the parent's: parent and son share    *)
(* every table.  The table of the thread's stack is new in the son's own   *)
(* directory, unless the parent has one: then they share it too, and the   *)
(* parent's pages in it are replaced.                                      *)
Thread(q) ==
  /\ Calls("thread", q) /\ Unused # {}
  /\ LET son == FirstUnused
         c   == copy_pgdir(pcb_create(Now, son), son, q)
         d   == Fill([c EXCEPT !.ent[c.dir[son]] = c.ent[c.dir[q]]], c.dir[son])
     IN  IF c.fault # "none" THEN Becomes(c) /\ UNCHANGED lost
         ELSE /\ Becomes(mm_alloc(d, son, ThreadStack))
              /\ lost' = lost \cup (UserTables(c, son) \cup Mapped(c, son))

(* exec_current of a program with n pages, and of what is no program.      *)
Exec(q, n) == Calls("exec", q) /\ Becomes(loader_file(Now, q, n)) /\ UNCHANGED lost
ExecFails(q) == Calls("exec", q) /\ Becomes(mm_alloc(Now, q, <<ELFADDR>>)) /\ UNCHANGED lost

(* free_pcb gives no page back.                                            *)
Exit(q) ==
  LET dead == [Now EXCEPT !.used = @ \ {q}]
  IN  /\ Runs(q) /\ last' = <<"exit", q>> /\ UNCHANGED calls
      /\ Becomes(dead) /\ lost' = lost \cup (Needed(Now) \ Needed(dead))

(* The other processes are gone and idle runs, or the kernel is out of     *)
(* memory or has overwritten a page and nothing is known of what follows.  *)
Stopped == (fault # "none" \/ used = {IDLE}) /\ UNCHANGED vars

Next ==
  \/ \E q \in Proc : Fork(q) \/ Thread(q) \/ ExecFails(q) \/ Exit(q)
  \/ \E q \in Proc, n \in 1 .. IMAGEMAX : Exec(q, n)
  \/ Stopped

Spec == Init /\ [][Next]_vars

-----------------------------------------------------------------------------
(* Every variable has its type (pmap.c, process.h).                        *)
MemoryTypeOK ==
  /\ page_free_list \in Seq(Page) /\ pp_ref \in [Page -> 0 .. 1]
  /\ entries \in [Page -> [Index -> Page \cup {0}]]
  /\ pgdir \in [Proc -> Page \cup {0}] /\ used \subseteq Proc
  /\ fault \in {"none", "oom", "overwritten"}
  /\ calls \in 0 .. MAXCALLS /\ last \in {"boot", "fork", "thread", "exec", "exit"} \X Proc

(* What page_remove puts on the free list is really free: no page is there *)
(* twice, and none is a directory, a table, or mapped anywhere by a live   *)
(* process, however fork, thread and exec have shared and replaced tables. *)
FreePagesFree ==
  fault = "none" =>
    /\ \A i, j \in DOMAIN page_free_list : page_free_list[i] = page_free_list[j] => i = j
    /\ \A i \in DOMAIN page_free_list :
         /\ page_free_list[i] \notin Needed(Now)
         /\ page_free_list[i] # entries[LOWTABLE][ELFADDR[2]]

(* Memory runs out only as fast as processes end and threads start: a page *)
(* is free, or a live process needs it, or it holds the last ELF header,   *)
(* or it was left by a dead process (the call of free_pgdir in free_pcb is *)
(* commented out) or by the copy that thread_current makes and drops.      *)
(* Nothing else is lost, whatever exec replaces and a shared table maps.   *)
PagesAccounted ==
  fault = "none" =>
    Page = Range(page_free_list) \cup Needed(Now) \cup lost \cup {entries[LOWTABLE][ELFADDR[2]]}

(* A page of user memory is mapped by one entry of one table only: fork    *)
(* copies every page of the parent (copy_pgdir), and exec and thread map   *)
(* new ones, so processes have a page in common only by sharing its table. *)
PagesPrivate ==
  fault = "none" =>
    \A q, r \in used : \A t \in UserTables(Now, q), u \in UserTables(Now, r) :
      \A i, j \in Index :
        entries[t][i] = entries[u][j] /\ entries[t][i] # 0 => t = u /\ i = j

(* What every call finds and leaves of the pages, however fork, thread,    *)
(* exec and exit follow each other: a page is free, or used in one place,  *)
(* or lost in one of the ways above (pmap.c, process.c, loader.c).         *)
MemoryInv == MemoryTypeOK /\ FreePagesFree /\ PagesAccounted /\ PagesPrivate

(* A table is shared only by way of thread: the other steps leave no table *)
(* common to two processes that had none in common before (copy_pgdir      *)
(* gives a son its own tables, which thread_current replaces).             *)
Share(q, r) == UserTables(Now, q) \cap UserTables(Now, r) # {}
OnlyThreadsShare ==
  [][last'[1] # "thread" /\ fault' = "none" =>
       \A q, r \in used' : q # r /\ Share(q, r)' => {q, r} \subseteq used /\ Share(q, r)]_vars

(* Nobody's memory is remapped behind its back: fork and exit change what  *)
(* no live process has mapped, exec only the image and stack of those that *)
(* share the caller's table, and thread, which maps into a directory that  *)
(* was the parent's, only the stack of a thread whose parent already was   *)
(* one: a first thread's stack is in a table that its parent does not have *)
(* (0xeebfd000 in thread_current against USTACKTOP in loader_file).        *)
Space(q, x) == LET t == entries[pgdir[q]][x] IN IF t = 0 THEN Empty ELSE entries[t]
NoRemapOfOthers ==
  [][fault' = "none" =>
       \A q \in used \cap used', x \in UserPDX : Space(q, x)' # Space(q, x) =>
         /\ entries[pgdir[q]][x] # 0
         /\ entries[pgdir[q]][x] = entries[pgdir[last'[2]]][x]
         /\ last'[1] = (IF x = TSTACK THEN "thread" ELSE "exec")]_vars

(* pmap.c says of page_alloc with ALLOC_ZERO that it "fills the entire     *)
(* returned physical page"; nothing a live process needs is filled.        *)
FillStaysInPage == fault # "overwritten"
=============================================================================
