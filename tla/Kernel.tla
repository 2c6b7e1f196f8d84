------------------------------- MODULE Kernel -------------------------------
(***************************************************************************)
(* Processes, the scheduler, the timer, semaphores and join of the kernel  *)
(* (kernel/src/process.c, scheduler.c, timer.c, semaphore.c, do_syscall.c, *)
(* irq/irq_handle.c).                                                      *)
(*                                                                         *)
(* Every trap enters the kernel with interrupts off and leaves it by iret, *)
(* so one system call or one interrupt is one atomic step; what interleaves*)
(* is user code, the timer and the keyboard.  Only readline takes time: it *)
(* polls the keyboard, interrupts off, until a line is typed.              *)
(*                                                                         *)
(* The PCBs are the slots of PCBPool.  All lists are chains through the    *)
(* one `next' field of the PCB and are reached through a PCB** head; `list'*)
(* maps each head to the sequence of slots on its chain (PcbLists.tla has  *)
(* the chains).                                                            *)
(*                                                                         *)
(* Left out, because no decision of these files reads it: ppid, _tick,     *)
(* count, cpid, the unused `tail' field, trap frames and page directories. *)
(***************************************************************************)
EXTENDS Integers, Sequences, FiniteSets

CONSTANTS
  PCBPOOLMAX,  \* number of PCBs (1000 in process.h)
  Sems,        \* the semaphores: entries of sems[] or structs in user memory
  WORD,        \* uint32_t wraps at WORD (2^32): the width of PCB.timeslice
  HZ,          \* ticks per unit of sleep() (200 in do_syscall.c)
  NULL,        \* the null PCB pointer
  SleepArgs,   \* bound: arguments of sleep() that are tried
  InitCounts,  \* bound: initial semaphore counts that are tried
  KeyCodes,    \* bound: keyboard events that are tried
  MaxPid,      \* bound: PCBs that physical memory can supply (pages of a dead
               \* process are never freed), hence the largest pid
  MaxCount     \* bound: largest semaphore count

Slot == 0 .. PCBPOOLMAX - 1
IDLE  == 0      \* the slot pcb_create() gives pidle in main()
SHELL == 1      \* the slot it gives pshell
SLICE == 2      \* the literal of scheduler.c: preempted when timeslice > 2

AllKeys == {"ctrl_down", "ctrl_up", "c_down", "c_up", "other"}

ASSUME PoolAssumption  == PCBPOOLMAX \in Nat /\ PCBPOOLMAX >= 2
ASSUME NullAssumption  == NULL \notin Slot
ASSUME WordAssumption  == WORD \in Nat /\ WORD > SLICE + 1
ASSUME SleepAssumption == HZ \in Nat /\ SleepArgs \subseteq Nat
(* A negative initial count makes a later sem_post pop an empty list and   *)
(* follow a null pointer; no program of the repository passes one.         *)
ASSUME CountAssumption == InitCounts \subseteq Nat /\ MaxCount \in Nat
ASSUME PidAssumption   == MaxPid \in Nat /\ MaxPid >= 2
ASSUME KeyAssumption   == KeyCodes \subseteq AllKeys

(* The PCB** heads of the kernel.                                          *)
READY_LIST   == <<"ready", 0>>
SLEEP_LIST   == <<"sleep", 0>>
BlockList(s) == <<"block", s>>
JoinList(p)  == <<"join", p>>

ListHead == {READY_LIST, SLEEP_LIST} \cup {BlockList(s) : s \in Sems}
                                     \cup {JoinList(p) : p \in Slot}

VARIABLES
  used, pid, tt, ts, timeslice,  \* fields of PCBPool[i]
  next_pid,                      \* the global counter `pid'
  list,                          \* the chains: one sequence of slots per head
  current,                       \* the global `current'
  sem_used, sem_count,           \* fields of the semaphores
  ctrl, keydown_c,               \* keyboard.c: ctrl and keydown['c'-'a']
  polling,                       \* current is in the loop of readline
  fault                          \* "none", or why the kernel left its code:
                                 \* "null" a null PCB was followed, "oom" no
                                 \* page for a PCB, "pool" PCBPool overrun

procVars  == <<used, pid, tt, next_pid>>
schedVars == <<ts, timeslice, list, current, fault>>
semVars   == <<sem_used, sem_count>>
keyVars   == <<ctrl, keydown_c, polling>>
vars      == <<procVars, schedVars, semVars, keyVars>>

TaskState == {"READY", "RUNNING", "STOP", "SLEEPING"}
TaskType  == {"KERNEL", "USER"}

-----------------------------------------------------------------------------
(* Lists.                                                                  *)

Elements(q) == {q[i] : i \in DOMAIN q}

ll_entail_Push(L, h, p) == [L EXCEPT ![h] = <<p>> \o @]  \* mutant
ll_entail(L, h, p) == [L EXCEPT ![h] = Append(@, p)]

ll_push(L, h, p) == [L EXCEPT ![h] = <<p>> \o @]

(* ll_pop returns the first element, or NULL when there is none, ...       *)
ll_first(q) == IF q = << >> THEN NULL ELSE Head(q)

(* ... and leaves the others.                                              *)
ll_rest_Keeps(q) == q  \* mutant: *head is not moved on
ll_rest(q) == IF q = << >> THEN << >> ELSE Tail(q)

(* What a loop over q leaves or moves when it deals with exactly the       *)
(* members of S one by one: those members, in the order they have on q.    *)
InOrder(q, S) ==
  {r \in [1 .. Cardinality(S) -> S] :
     /\ \A x \in S : \E i \in DOMAIN r : r[i] = x
     /\ \A i, j \in DOMAIN r :
          i < j => \E a, b \in DOMAIN q : a < b /\ q[a] = r[i] /\ q[b] = r[j]}

(* The loops that pop the processes of a list and ll_entail each of them   *)
(* to another; the mutant calls ll_push instead.                           *)
ll_entail_each_Push(L, h, q) ==
  [L EXCEPT ![h] = [i \in DOMAIN q |-> q[Len(q) + 1 - i]] \o @]
ll_entail_each(L, h, q) == [L EXCEPT ![h] = @ \o q]

-----------------------------------------------------------------------------
(* Boot: main() creates idle and the shell, puts both on the ready list    *)
(* (the later one first) and calls do_scheduler, which starts the shell.   *)

enready_pcb(q, p) == <<p>> \o q

(* init_pcb with the privilege empty_loader (0) and loader_file (3) pass.  *)
init_pcb(pri) == IF pri = 0 THEN "KERNEL" ELSE "USER"

BootReady == enready_pcb(enready_pcb(<< >>, IDLE), SHELL)

Init ==
  /\ used      = [p \in Slot |-> p \in {IDLE, SHELL}]
  /\ pid       = [p \in Slot |-> IF p = IDLE THEN 1 ELSE IF p = SHELL THEN 2 ELSE 0]
  /\ tt        = [p \in Slot |-> IF p = SHELL THEN init_pcb(3) ELSE init_pcb(0)]
  /\ ts        = [p \in Slot |-> IF p = Head(BootReady) THEN "RUNNING" ELSE "READY"]
  /\ timeslice = [p \in Slot |-> 0]
  /\ next_pid  = 3
  /\ list      = [h \in ListHead |-> IF h = READY_LIST THEN Tail(BootReady) ELSE << >>]
  /\ current   = Head(BootReady)
  /\ sem_used  = [s \in Sems |-> FALSE]
  /\ sem_count = [s \in Sems |-> 0]
  /\ ctrl = FALSE /\ keydown_c = FALSE /\ polling = FALSE
  /\ fault = "none"

-----------------------------------------------------------------------------
(* do_scheduler().  L, t and s are the lists, the states and the           *)
(* timeslices the handler has reached when it calls it.                    *)

(* The branch current == NULL: run the first ready process.                *)
SwitchTo(L, t, s) ==
  LET next == ll_first(L[READY_LIST]) IN
    /\ current'   = next
    /\ list'      = [L EXCEPT ![READY_LIST] = ll_rest(@)]
    /\ ts'        = [t EXCEPT ![next] = "RUNNING"]
    /\ timeslice' = [s EXCEPT ![next] = 0]
    /\ fault'     = IF next = NULL THEN "null" ELSE fault

SliceOver_Late(t, s) == s[current] > SLICE + 1 \/ t[current] = "STOP"  \* mutant
SliceOver(t, s) == s[current] > SLICE \/ t[current] = "STOP"

DoScheduler(L, t, s) ==
  \/ /\ t[current] = "SLEEPING"
     /\ SwitchTo(ll_entail(L, SLEEP_LIST, current), t, s)
  \/ /\ t[current] # "SLEEPING"
     /\ SliceOver(t, s)
     /\ SwitchTo(ll_entail(L, READY_LIST, current), [t EXCEPT ![current] = "READY"], s)
  \/ /\ t[current] # "SLEEPING"
     /\ ~SliceOver(t, s)
     /\ list' = L /\ ts' = t /\ timeslice' = s
     /\ UNCHANGED <<current, fault>>

-----------------------------------------------------------------------------
(* System calls.  The idle process only yields.                            *)

Alive == fault = "none"
InterruptsOn == Alive /\ ~polling    \* while user code or idle runs
UserRuns == InterruptsOn /\ tt[current] # "KERNEL"

SysHandout ==
  /\ InterruptsOn
  /\ DoScheduler(list, [ts EXCEPT ![current] = "STOP"], timeslice)
  /\ UNCHANGED <<procVars, semVars, keyVars>>

SysSleep(n) ==
  /\ UserRuns
  /\ DoScheduler(list, [ts EXCEPT ![current] = "SLEEPING"],
                 [timeslice EXCEPT ![current] = (n * HZ) % WORD])
  /\ UNCHANGED <<procVars, semVars, keyVars>>

(* A system call that changes none of this state: the queries, the file,   *)
(* video and serial calls, and an exec of what cannot be loaded.           *)
SysReturn ==
  /\ UserRuns
  /\ DoScheduler(list, ts, timeslice)
  /\ UNCHANGED <<procVars, semVars, keyVars>>

(* readline: wait_key spins on the keyboard's status with interrupts off,  *)
(* and the loop ends only when Enter is pressed, if ever.                  *)
SysReadline ==
  /\ UserRuns
  /\ polling' = TRUE
  /\ UNCHANGED <<procVars, schedVars, semVars, ctrl, keydown_c>>

ReadlineReturns ==
  /\ Alive /\ polling
  /\ polling' = FALSE
  /\ DoScheduler(list, ts, timeslice)
  /\ UNCHANGED <<procVars, semVars, ctrl, keydown_c>>

(* irq_handle does not call do_scheduler when eax is SYS_PRINT_CHAR at the *)
(* end of the call, be it the call's number or its result.                 *)
SysPrintChar ==
  /\ UserRuns
  /\ UNCHANGED vars

(* exec_current with loader_file() succeeding: the caller queues up with a *)
(* fresh image, still in state RUNNING.                                    *)
SysExec ==
  /\ UserRuns
  /\ SwitchTo(ll_entail(list, READY_LIST, current), ts, timeslice)
  /\ UNCHANGED <<procVars, semVars, keyVars>>

(* pcb_create() takes the first unused slot.                               *)
FreeSlot == {p \in Slot : ~used[p]}
FirstFree == CHOOSE p \in FreeSlot : \A q \in FreeSlot : p <= q

NextPid == next_pid + 1

(* fork_current and thread_current; copy_pcb makes the son's tt the        *)
(* parent's in both.  The son goes to the FRONT of the ready list, with    *)
(* whatever ts its slot holds.                                             *)
CreateSon ==
  /\ UserRuns
  /\ FreeSlot # {} /\ next_pid <= MaxPid
  /\ LET son == FirstFree IN
       /\ used' = [used EXCEPT ![son] = TRUE]
       /\ pid'  = [pid EXCEPT ![son] = next_pid]
       /\ tt'   = [tt EXCEPT ![son] = tt[current]]
       /\ next_pid' = NextPid
       /\ DoScheduler(ll_push(list, READY_LIST, son), ts,
                      [timeslice EXCEPT ![son] = timeslice[current]])
  /\ UNCHANGED <<semVars, keyVars>>

SysFork   == CreateSon
SysThread == CreateSon

(* page_alloc() has no page: pcb_create() returns NULL after it has marked *)
(* the slot used, and its callers write through the null pointer.          *)
CreateWithoutMemory ==
  /\ UserRuns
  /\ FreeSlot # {} /\ next_pid > MaxPid
  /\ used' = [used EXCEPT ![FirstFree] = TRUE]
  /\ fault' = "oom"
  /\ UNCHANGED <<pid, tt, next_pid, ts, timeslice, list, current, semVars, keyVars>>

(* No unused slot: pcb_create() goes on with PCBPool[PCBPOOLMAX].          *)
CreateBeyondPool ==
  /\ UserRuns
  /\ FreeSlot = {}
  /\ fault' = "pool"
  /\ UNCHANGED <<procVars, ts, timeslice, list, current, semVars, keyVars>>

(* exit_current(): wake the joiners that are still in use, free the PCB.   *)
ExitCurrent ==
  \E woken \in InOrder(list[JoinList(current)],
                       {p \in Elements(list[JoinList(current)]) : used[p]}) :
    /\ used' = [used EXCEPT ![current] = FALSE]
    /\ SwitchTo(ll_entail_each([list EXCEPT ![JoinList(current)] = << >>], READY_LIST, woken),
                ts, timeslice)
    /\ UNCHANGED <<pid, tt, next_pid>>

SysExit ==
  /\ UserRuns
  /\ ExitCurrent
  /\ UNCHANGED <<semVars, keyVars>>

(* join_current(n): the first slot that holds pid n, in use or not.        *)
WithPid(n) == {p \in Slot : pid[p] = n}
FirstWithPid(n) == CHOOSE p \in WithPid(n) : \A q \in WithPid(n) : p <= q
CanJoin_AnySlot(n) == n # 0 /\ WithPid(n) # {}  \* mutant: used is not tested
CanJoin(n) == n # 0 /\ WithPid(n) # {} /\ used[FirstWithPid(n)]

SysJoin(n) ==
  /\ UserRuns
  /\ \/ /\ CanJoin(n)
        /\ SwitchTo(ll_entail(list, JoinList(FirstWithPid(n)), current), ts, timeslice)
     \/ /\ ~CanJoin(n)
        /\ DoScheduler(list, ts, timeslice)
  /\ UNCHANGED <<procVars, semVars, keyVars>>

-----------------------------------------------------------------------------
(* Semaphores.  sem_open_kr(i, c) is sem_init_kr on sems[i].               *)

SemInit(s, c) ==
  /\ UserRuns
  /\ IF sem_used[s] THEN UNCHANGED semVars
     ELSE /\ sem_count' = [sem_count EXCEPT ![s] = c]
          /\ sem_used'  = [sem_used EXCEPT ![s] = TRUE]
  /\ DoScheduler(list, ts, timeslice)
  /\ UNCHANGED <<procVars, keyVars>>

SemClose(s) ==
  /\ UserRuns
  /\ sem_used' = [sem_used EXCEPT ![s] = FALSE]
  /\ DoScheduler(IF sem_used[s]
                 THEN ll_entail_each([list EXCEPT ![BlockList(s)] = << >>],
                                     READY_LIST, list[BlockList(s)])
                 ELSE list, ts, timeslice)
  /\ UNCHANGED <<procVars, sem_count, keyVars>>

WakesWaiter_Strict(s) == sem_count[s] + 1 < 0   \* mutants: off by one
WakesWaiter_Early(s)  == sem_count[s] + 1 <= 1
WakesWaiter(s) == sem_count[s] + 1 <= 0

(* sem_post_kr: unused, or nobody waits, or the first waiter is made ready.*)
SemPost(s) ==
  /\ UserRuns
  /\ \/ /\ ~sem_used[s]
        /\ UNCHANGED sem_count
        /\ DoScheduler(list, ts, timeslice)
     \/ /\ sem_used[s] /\ ~WakesWaiter(s)
        /\ sem_count[s] < MaxCount
        /\ sem_count' = [sem_count EXCEPT ![s] = @ + 1]
        /\ DoScheduler(list, ts, timeslice)
     \/ /\ sem_used[s] /\ WakesWaiter(s)
        /\ sem_count' = [sem_count EXCEPT ![s] = @ + 1]
        /\ IF list[BlockList(s)] = << >>
           THEN fault' = "null" /\ UNCHANGED <<ts, timeslice, list, current>>
           ELSE DoScheduler(ll_entail([list EXCEPT ![BlockList(s)] = Tail(@)],
                                      READY_LIST, Head(list[BlockList(s)])),
                            ts, timeslice)
  /\ UNCHANGED <<procVars, sem_used, keyVars>>

MustBlock_AtZero(s) == sem_used[s] /\ sem_count[s] - 1 <= 0  \* mutant
MustBlock(s) == sem_used[s] /\ sem_count[s] - 1 < 0

SemWait(s) ==
  /\ UserRuns
  /\ sem_count' = IF sem_used[s] THEN [sem_count EXCEPT ![s] = @ - 1] ELSE sem_count
  /\ IF MustBlock(s)
     THEN SwitchTo(ll_entail(list, BlockList(s), current), ts, timeslice)
     ELSE DoScheduler(list, ts, timeslice)
  /\ UNCHANGED <<procVars, sem_used, keyVars>>

SemTrywait(s) ==
  /\ UserRuns
  /\ sem_count' = IF sem_used[s] /\ sem_count[s] > 0
                  THEN [sem_count EXCEPT ![s] = @ - 1] ELSE sem_count
  /\ DoScheduler(list, ts, timeslice)
  /\ UNCHANGED <<procVars, sem_used, keyVars>>

-----------------------------------------------------------------------------
(* Interrupts.                                                             *)

(* do_timer(), then do_scheduler().  A sleeper's timeslice is decremented  *)
(* before it is tested, in unsigned arithmetic.                            *)
Asleep == Elements(list[SLEEP_LIST])

Ticked_Current == [p \in Slot |->  \* mutant: sleepers are not counted down
             IF p = current THEN (timeslice[p] + 1) % WORD ELSE timeslice[p]]
Ticked == [p \in Slot |->
             IF p = current     THEN (timeslice[p] + 1) % WORD
             ELSE IF p \in Asleep THEN (timeslice[p] + WORD - 1) % WORD
             ELSE timeslice[p]]

Expired == {p \in Asleep : Ticked[p] = 0}

Awake == [p \in Slot |-> IF p \in Expired THEN "READY" ELSE ts[p]]

TimerIrq ==
  /\ InterruptsOn
  /\ \E woken  \in InOrder(list[SLEEP_LIST], Expired),
        asleep \in InOrder(list[SLEEP_LIST], Asleep \ Expired) :
       DoScheduler(ll_entail_each([list EXCEPT ![SLEEP_LIST] = asleep], READY_LIST, woken),
                   Awake, Ticked)
  /\ UNCHANGED <<procVars, semVars, keyVars>>

(* press_key(code); ctrl_c() takes the chord whether or not it is used;    *)
(* a process that is not KERNEL is made to exit.                           *)
KeyboardIrq(code) ==
  LET ctrl1 == code = "ctrl_down" \/ (ctrl /\ code # "ctrl_up")
      c1    == code = "c_down" \/ (keydown_c /\ code # "c_up")
      chord == ctrl1 /\ c1
  IN /\ InterruptsOn
     /\ ctrl' = (ctrl1 /\ ~chord)
     /\ keydown_c' = (c1 /\ ~chord)
     /\ IF chord /\ tt[current] # "KERNEL"
        THEN ExitCurrent
        ELSE UNCHANGED <<procVars, schedVars>>
     /\ UNCHANGED <<semVars, polling>>

(* After a fault the machine hangs.                                        *)
Hang == ~Alive /\ UNCHANGED vars

-----------------------------------------------------------------------------
Syscall ==
  \/ SysHandout
  \/ \E n \in SleepArgs : SysSleep(n)
  \/ SysReturn
  \/ SysReadline
  \/ ReadlineReturns
  \/ SysPrintChar
  \/ SysExec
  \/ SysFork
  \/ SysThread
  \/ CreateWithoutMemory
  \/ CreateBeyondPool
  \/ SysExit
  \/ \E n \in 0 .. MaxPid : SysJoin(n)
  \/ \E s \in Sems : \/ \E c \in InitCounts : SemInit(s, c)
                     \/ SemClose(s)
                     \/ SemPost(s)
                     \/ SemWait(s)
                     \/ SemTrywait(s)

Next ==
  \/ Syscall
  \/ TimerIrq
  \/ \E code \in KeyCodes : KeyboardIrq(code)
  \/ Hang

Spec == Init /\ [][Next]_vars

(* The timer chip interrupts whatever runs with interrupts on, and a tick  *)
(* that comes while they are off stays pending until they are on: strong   *)
(* fairness.  Nothing else is promised: user code need never make another  *)
(* system call, nobody need ever type Enter.                               *)
FairSpec == Spec /\ SF_vars(TimerIrq)
=============================================================================
