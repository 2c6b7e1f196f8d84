-------------------------- MODULE KernelProperties --------------------------
(***************************************************************************)
(* What the process, scheduling and semaphore code of the kernel promises. *)
(***************************************************************************)
EXTENDS Kernel

(* Every variable has the type its C declaration gives it, and a wait or a *)
(* post moves a count by one only (kernel/include/process.h, semaphore.h). *)
TypeOK ==
  /\ used \in [Slot -> BOOLEAN]
  /\ pid \in [Slot -> 0 .. MaxPid]
  /\ tt \in [Slot -> TaskType]
  /\ ts \in [Slot -> TaskState]
  /\ timeslice \in [Slot -> 0 .. WORD - 1]
  /\ next_pid \in 1 .. MaxPid + 1
  /\ list \in [ListHead -> Seq(Slot)]
  /\ current \in Slot \cup {NULL}
  /\ sem_used \in [Sems -> BOOLEAN]
  /\ sem_count \in [Sems -> Int]
  /\ ctrl \in BOOLEAN /\ keydown_c \in BOOLEAN /\ polling \in BOOLEAN
  /\ fault \in {"none", "null", "oom", "pool"}

-----------------------------------------------------------------------------
(* Invariants.                                                             *)

OnList(L, p) == \E h \in ListHead : p \in Elements(L[h])

(* A PCB has one `next' field, so it may stand on one list only, once: no  *)
(* element of any list is an element of another list or of another place   *)
(* of the same list (ll_entail and ll_push would tie the chains together). *)
Disjoint(L) ==
  \A g, h \in ListHead : \A i \in DOMAIN L[g], j \in DOMAIN L[h] :
    L[g][i] = L[h][j] => g = h /\ i = j

(* No PCB is linked twice and the running process is linked nowhere, for   *)
(* every sequence of fork, join, exit, sleep, semaphore calls, ticks and   *)
(* Ctrl-C (all callers of ll_push, ll_entail and ll_pop).                  *)
OnePlace == Disjoint(list) /\ ~OnList(list, current)

(* No process is lost and none is a ghost: until the kernel faults, a slot *)
(* is in use iff it runs or waits on some list, so whoever is not running  *)
(* can still be found by the code that would resume it.                    *)
NoProcessLost ==
  Alive => \A p \in Slot : used[p] <=> (p = current \/ OnList(list, p))

(* semaphore.c reads a negative count as the number of blocked processes:  *)
(* sem_post_kr pops without looking whether somebody is there.             *)
SemCountsWaiters ==
  \A s \in Sems : Len(list[BlockList(s)]) =
    IF sem_used[s] /\ sem_count[s] < 0 THEN -sem_count[s] ELSE 0

(* do_scheduler and sem_post_kr never follow a null PCB pointer: because   *)
(* idle is always running or ready, and because counts tell the truth.     *)
NoNullPcb == fault # "null" /\ current # NULL

(* User code only ever runs in state RUNNING and within its time slice,    *)
(* although system calls end in do_scheduler only when the RESULT in eax   *)
(* is not SYS_PRINT_CHAR.                                                  *)
RunsWithinSlice ==
  Alive => ts[current] = "RUNNING" /\ timeslice[current] <= SLICE

(* Who is on the sleep list and who is in state SLEEPING are the same, so  *)
(* do_timer, which walks the list, reaches every sleeper.                  *)
SleepersOnSleepList == {p \in Slot : ts[p] = "SLEEPING"} = Asleep

(* Whoever waits in join_current waits for a process that still exists: an *)
(* unused PCB never keeps a joiner that nobody would wake.                 *)
JoinersHaveTarget ==
  \A p \in Slot : ~used[p] => list[JoinList(p)] = << >>

(* A pid names one PCB at most, even among those of dead processes, so the *)
(* first match of join_current's scan is the only one.                     *)
PidsUnique ==
  \A p, q \in Slot : pid[p] = pid[q] /\ pid[p] # 0 => p = q

-----------------------------------------------------------------------------
(* The inductive invariant.                                                *)

ListsType  == [ListHead -> Seq(Slot)]
StatesType == [Slot -> TaskState]
SlicesType == [Slot -> 0 .. WORD - 1]

(* Lists L, states t and timeslices s with c running: c is linked nowhere, *)
(* nobody is linked twice, idle runs or is ready, and apart from c those   *)
(* in state SLEEPING are those on the sleep list.                          *)
CoreOK(L, t, s, c) ==
  /\ L \in ListsType /\ t \in StatesType /\ s \in SlicesType /\ c \in Slot
  /\ Disjoint(L)
  /\ ~OnList(L, c)
  /\ c = IDLE \/ IDLE \in Elements(L[READY_LIST])
  /\ \A p \in Slot \ {c} : t[p] = "SLEEPING" <=> p \in Elements(L[SLEEP_LIST])

RunsNow == ts[current] = "RUNNING" /\ timeslice[current] <= SLICE

(* What every handler of the kernel finds and leaves: the types of the     *)
(* variables, what do_scheduler relies on (idle runs or is ready, whoever  *)
(* sleeps is on the sleep list, the running process is RUNNING and within  *)
(* its slice), and the relations between PCBs, semaphores and lists.       *)
KernelInv ==
  /\ TypeOK
  /\ CoreOK(list, ts, timeslice, current)
  /\ RunsNow
  /\ fault # "null"
  /\ tt[IDLE] = "KERNEL"
  /\ NoProcessLost
  /\ SemCountsWaiters
  /\ JoinersHaveTarget

-----------------------------------------------------------------------------
(* Action properties.                                                      *)

(* Only the running process dies, never idle; whoever had joined it is on  *)
(* the ready list after the same step, in the order they had joined.       *)
DeathReleasesJoiners ==
  [][\A p \in Slot : used[p] /\ ~used'[p] =>
       /\ p = current /\ p # IDLE
       /\ \A i, j \in DOMAIN list[JoinList(p)] : i <= j =>
            \E k, m \in DOMAIN list'[READY_LIST] :
              /\ k < m \/ i = j
              /\ list'[READY_LIST][k] = list[JoinList(p)][i]
              /\ list'[READY_LIST][m] = list[JoinList(p)][j]]_vars

(* A process blocked in sem_wait_kr or join_current leaves that list only  *)
(* for the ready list or the processor, and never overtakes those before   *)
(* it: what remains of a waiting list is a suffix, plus new arrivals.      *)
WaitersLeaveInOrder ==
  [][\A h \in ListHead \ {READY_LIST, SLEEP_LIST} :
       \E n \in 0 .. Len(list[h]) :
         /\ \A i \in 1 .. n : \/ list[h][i] = current'
                              \/ list[h][i] \in Elements(list'[READY_LIST])
         /\ \A i \in n + 1 .. Len(list[h]) :
              i - n \in DOMAIN list'[h] /\ list'[h][i - n] = list[h][i]]_vars

(* Whoever stands in front of a process that was ready before the step     *)
(* stood in front of it before, unless it has just been created: ll_entail *)
(* queues everyone at the end, only fork and thread use ll_push.           *)
OnlySonsOvertake ==
  [][\A m \in DOMAIN list'[READY_LIST] : \A k \in 1 .. m - 1 :
       list'[READY_LIST][m] \in Elements(list[READY_LIST]) =>
         \/ ~used[list'[READY_LIST][k]]
         \/ \E i, j \in DOMAIN list[READY_LIST] :
              /\ i < j
              /\ list[READY_LIST][i] = list'[READY_LIST][k]
              /\ list[READY_LIST][j] = list'[READY_LIST][m]]_vars

-----------------------------------------------------------------------------
(* The semaphores of the kernel implement those of module Semaphores.      *)

Units == [s \in Sems |-> IF sem_used[s] /\ sem_count[s] > 0 THEN sem_count[s] ELSE 0]
Waiting == [s \in Sems |-> list[BlockList(s)]]

Abstract == INSTANCE Semaphores WITH
  Procs   <- Slot,
  Counts  <- InitCounts,
  open    <- sem_used,
  units   <- Units,
  waiting <- Waiting

(* Whatever else the kernel does, its signed counts and shared lists act   *)
(* as units and FIFO queues: sem_wait_kr blocks exactly when no unit is    *)
(* left, sem_post_kr hands its unit to the longest waiting process, and no *)
(* fork, exit, Ctrl-C, tick or join moves a unit or a waiting process.     *)
SemaphoresImplemented == Abstract!Spec

-----------------------------------------------------------------------------
(* Liveness, under the fairness of the timer only.  readline keeps the     *)
(* processor, interrupts off, as long as nobody types Enter: nothing can   *)
(* be promised to the others but when every such wait ends.                *)
LinesEnd == []<>~polling

(* Round robin: if lines end, whoever is ready runs, though user code      *)
(* never yields (do_timer, do_scheduler).  Overtaking by sons is bounded   *)
(* by the memory they take (MaxPid).                                       *)
ReadyEventuallyRuns ==
  LinesEnd => \A p \in Slot : p \in Elements(list[READY_LIST]) ~> (current = p \/ ~Alive)

(* If lines end, every sleeper runs again, whatever it asked for: after    *)
(* sleep(0), and any argument whose product with 200 wraps to 0, it is     *)
(* woken after WORD ticks (do_timer decrements before it tests).           *)
SleeperEventuallyRuns ==
  LinesEnd => \A p \in Slot : p \in Asleep ~> (current = p \/ ~Alive)
=============================================================================
