-------------------------------- MODULE Traps --------------------------------
(***************************************************************************)
(* Interrupt entry and process switch at the level of kernel stacks:       *)
(* idt.c, do_irq.S, irq_handle.c, scheduler_switch of kvm.c, what fork,    *)
(* thread and exec do to trap frames (process.c), and the stubs of         *)
(* lib/syscall.h, of which printf (lib/printk.c) makes one call for every  *)
(* character.  Which process runs next is module Kernel's matter: here it  *)
(* is any that exists.                                                     *)
(*                                                                         *)
(* A gate is passed in one step and the handler runs in the next one.  The *)
(* gates of exceptions and of int 0x80 leave interrupts on until the cli   *)
(* of the stub, so a timer or keyboard interrupt may come between the two. *)
(***************************************************************************)
EXTENDS Integers, Sequences, FiniteSets, SequencesExt

CONSTANTS
  NSLOTS,    \* slots of PCBPool (1000)
  WIDTH,     \* bits of an int (32)
  MinText,   \* the text vfprintf has for the least int
  Prints     \* bound: what programs print, a sequence of sequences of pieces

Slots == 0 .. NSLOTS - 1
IDLE  == 0
SHELL == 1
NONE  == -1

SYS_PRINT_CHAR == 1000
SYS_HANDOUT    == 1500
SYS_PID        == 1501
SYS_EXIT       == 1503
SYS_FORK       == 1504
SYS_THREAD     == 1510
SYS_EXEC       == 1900
Calls == {SYS_PRINT_CHAR, SYS_HANDOUT, SYS_PID, SYS_EXIT, SYS_FORK, SYS_THREAD, SYS_EXEC}

ASSUME TrapAssumption ==
  /\ NSLOTS \in Nat /\ NSLOTS > 1 /\ WIDTH \in Nat \ {0}
  /\ Len(Prints) \in Nat /\ DOMAIN Prints = 1 .. Len(Prints)

VARIABLES
  cpu,      \* at ("prog", a stub of do_irq.S, "main", "lost"), if, eax, ebx
  current,  \* the running process, or NONE
  used,     \* the slots in use
  kst,      \* kst[p]: the frames on the kernel stack of p, the oldest first
  stk,      \* whose kernel stack esp is in while the kernel runs
  tf,       \* tf[p]: stack and depth of the frame of p; depth 0 is tfPool[p]
  esp0,     \* the process whose kstacktop is in the TSS
  cr3,      \* the process whose page directory is loaded; NONE is kern_pgdir
  mem       \* mem[p], the memory of p's program: text, what it has to print
            \* still, and as history said, what was printed, job, of Prints,
            \* eax and ebx, what its registers should be

vars == <<cpu, current, used, kst, stk, tf, esp0, cr3, mem>>

NoMem == [text |-> <<>>, said |-> <<>>, job |-> 0, eax |-> 0, ebx |-> 0]

-----------------------------------------------------------------------------
(* vfprintf.  A format is a sequence of characters, by their codes.        *)
MinInt == -(2 ^ (WIDTH - 1))
Minus  == 45
Wrap(x) == ((x - MinInt) % 2 ^ WIDTH) + MinInt

HexDigit(d) == 48 + IF d >= 10 THEN d + 97 - 48 - 10 ELSE d
hex[x \in Nat] == IF x = 0 THEN <<>> ELSE Append(hex[x \div 16], HexDigit(x % 16))
dec[x \in Int] == IF x < 1 THEN <<>> ELSE Append(dec[x \div 10], 48 + (x % 10))

Signed_NoLeast(x) ==   \* mutant: the least int is not treated apart
  IF x = 0 THEN <<48>> ELSE IF x < 0 THEN <<Minus>> \o dec[Wrap(-x)] ELSE dec[x]
Signed(x) ==
  IF x = MinInt THEN MinText
  ELSE IF x = 0 THEN <<48>>
  ELSE IF x < 0 THEN <<Minus>> \o dec[Wrap(-x)] ELSE dec[x]
Unsigned(x) == IF x = 0 THEN <<48>> ELSE hex[x % 2 ^ WIDTH]

Converted(c, arg) ==
  CASE c = 115 -> arg                   \* %s
    [] c = 120 -> Unsigned(arg)         \* %x
    [] c = 100 -> Signed(arg)           \* %d
    [] c = 99  -> <<arg>>               \* %c
    [] OTHER   -> <<>>
vfprintf(ctl, args) ==
  FoldLeft(LAMBDA s, c :
             IF c = 37 THEN [s EXCEPT !.read = TRUE]
             ELSE IF ~s.read THEN [s EXCEPT !.out = Append(@, c)]
             ELSE IF c \in {115, 120, 100, 99}
             THEN [read |-> FALSE, out |-> s.out \o Converted(c, Head(s.args)), args |-> Tail(s.args)]
             ELSE [s EXCEPT !.read = FALSE],
           [read |-> FALSE, args |-> args, out |-> <<>>], ctl).out

(* The call of printf for a sequence of pieces.                            *)
Ctl(pieces)  == FlattenSeq([i \in DOMAIN pieces |->
                  IF pieces[i].conv = 0 THEN pieces[i].arg ELSE <<37, pieces[i].conv>>])
Args(pieces) == LET conv == SelectSeq(pieces, LAMBDA q : q.conv # 0)
                IN  [i \in DOMAIN conv |-> conv[i].arg]

-----------------------------------------------------------------------------
(* Entry.  From a program of ring 3 the processor takes the stack of the   *)
(* TSS from its top; in ring 0 it goes on with the stack it has.           *)
Gate(v) == IF v \in {"irq0", "irq1"} THEN "interrupt" ELSE "trap"

Ring3 == cpu.at = "prog" /\ current # IDLE

Enter(v, eax, ebx) ==
  LET s    == IF Ring3 THEN esp0 ELSE stk
      half == [cpu EXCEPT !.eax = 0, !.ebx = 0]
  IN  /\ kst' = [kst EXCEPT ![s] = IF Ring3 THEN <<half>> ELSE Append(@, half)]
      /\ stk' = s
      /\ cpu' = [at |-> v, if |-> cpu.if /\ Gate(v) = "trap", eax |-> eax, ebx |-> ebx]

(* asm_do_irq: cli, pushal; irq_handle: current->tf = tf.                  *)
Depth == Len(kst[stk])
Pushed == [kst EXCEPT ![stk][Depth].eax = cpu.eax, ![stk][Depth].ebx = cpu.ebx]
HasTf == [tf EXCEPT ![current] = <<stk, Depth>>]

(* The end of asm_do_irq and switch_proc: the frame is popped, iret; the   *)
(* sti before it takes effect after it.                                    *)
Start == [at |-> "prog", if |-> TRUE, eax |-> 0, ebx |-> 0]
Iret(k, loc) ==
  /\ cpu' = IF loc[2] = 0 THEN Start ELSE k[loc[1]][loc[2]]
  /\ kst' = IF loc[2] = 0 THEN k ELSE [k EXCEPT ![loc[1]] = SubSeq(@, 1, loc[2] - 1)]
  /\ stk' = loc[1]

Return(k, t) ==
  /\ Iret(k, <<stk, Depth>>) /\ tf' = t
  /\ UNCHANGED <<current, esp0, cr3>>

scheduler_switch_NoTss(k, t, q) ==   \* mutant: without set_tss_esp0
  /\ current' = q /\ cr3' = q /\ esp0' = IF esp0 = NONE THEN q ELSE esp0
  /\ Iret(k, t[q]) /\ tf' = t
scheduler_switch(k, t, q) ==
  /\ current' = q /\ cr3' = q /\ esp0' = q
  /\ Iret(k, t[q]) /\ tf' = t

(* do_scheduler: it returns, or switches to q.                             *)
do_scheduler(k, t, U) == Return(k, t) \/ \E q \in U : scheduler_switch(k, t, q)

-----------------------------------------------------------------------------
(* Programs.                                                               *)
Running == cpu.at = "prog" /\ current # NONE

printf(i) ==
  /\ Running /\ current # IDLE /\ mem[current].job = 0
  /\ mem' = [mem EXCEPT ![current].job = i, ![current].said = <<>>,
                        ![current].text = vfprintf(Ctl(Prints[i]), Args(Prints[i]))]
  /\ UNCHANGED <<cpu, current, used, kst, stk, tf, esp0, cr3>>

(* int $0x80 with eax and, for a character, ebx.                           *)
Int80(call) ==
  LET text == mem[current].text
      arg  == IF call = SYS_PRINT_CHAR THEN Head(text) ELSE 0
  IN  /\ Running /\ (current = IDLE => call = SYS_HANDOUT)
      /\ call = SYS_PRINT_CHAR => text # <<>>
      /\ Enter("vecsys", call, arg)
      /\ mem' = [mem EXCEPT ![current].eax = call, ![current].ebx = arg,
                            ![current].text = IF call = SYS_PRINT_CHAR THEN Tail(@) ELSE @]
      /\ UNCHANGED <<current, used, tf, esp0, cr3>>

(* The program divides by zero, or touches what it may not: vec13, or 14,  *)
(* which has no stub of its own.                                           *)
Exception(v) ==
  /\ Running /\ current # IDLE /\ Enter(v, cpu.eax, cpu.ebx)
  /\ UNCHANGED <<current, used, tf, esp0, cr3, mem>>

(* The timer or the keyboard, whenever interrupts are on.                  *)
Interrupt(v) ==
  /\ cpu.if /\ Enter(v, cpu.eax, cpu.ebx)
  /\ UNCHANGED <<current, used, tf, esp0, cr3, mem>>

-----------------------------------------------------------------------------
(* irq_handle.                                                             *)
Handling(v) == cpu.at = v /\ current # NONE

HandleTimer ==
  /\ Handling("irq0")
  /\ do_scheduler(Pushed, HasTf, used)
  /\ UNCHANGED <<used, mem>>

HandleKey ==
  /\ Handling("irq1")
  /\ Return(Pushed, HasTf)
  /\ UNCHANGED <<used, mem>>

(* exit_current; never idle.  What the process leaves is forgotten here:   *)
(* fork and thread overwrite all of it.                                    *)
exit_current ==
  /\ used' = used \ {current}
  /\ mem' = [mem EXCEPT ![current] = NoMem]
  /\ \E q \in used' : scheduler_switch([kst EXCEPT ![stk] = <<>>], [tf EXCEPT ![current] = <<current, 0>>], q)

HandleCtrlC == Handling("irq1") /\ current # IDLE /\ exit_current

(* Nothing is done, the instruction is tried again.                        *)
HandleException ==
  /\ Handling("vec0")
  /\ Return(Pushed, HasTf)
  /\ UNCHANGED <<used, mem>>

(* The processor has pushed an error code which nobody pops: iret takes it *)
(* for eip.  The model stops here, no step follows; in the machine the sti *)
(* before iret has set the interrupt flag, and iret faults again.          *)
HandleErrorCode ==
  /\ Handling("vec13")
  /\ cpu' = [cpu EXCEPT !.at = "lost", !.if = FALSE]
  /\ UNCHANGED <<current, used, kst, stk, tf, esp0, cr3, mem>>

-----------------------------------------------------------------------------
(* do_syscall, on the frame <<stk, Depth>>.                                *)
Syscall(call) == Handling("vecsys") /\ cpu.eax = call

(* serial_printc(tf->ebx); the scheduler is not called for this one.       *)
HandlePrint ==
  /\ Syscall(SYS_PRINT_CHAR)
  /\ mem' = [mem EXCEPT ![current].said = Append(@, cpu.ebx)]
  /\ Return(Pushed, HasTf)
  /\ UNCHANGED used

HandlePid ==
  /\ Syscall(SYS_PID)
  /\ mem' = [mem EXCEPT ![current].eax = current]
  /\ do_scheduler([Pushed EXCEPT ![stk][Depth].eax = current], HasTf, used)
  /\ UNCHANGED used

HandleHandout ==
  /\ Syscall(SYS_HANDOUT)
  /\ \E q \in used : scheduler_switch(Pushed, HasTf, q)
  /\ UNCHANGED <<used, mem>>

HandleExit == Syscall(SYS_EXIT) /\ exit_current

(* fork_current and thread_current with copy_pcb: the kernel stack is      *)
(* copied and tf moved by the distance of the two stacks; eax is the son's *)
(* number in one frame and 0 in the other.  A thread starts on a stack of  *)
(* its own at another place of the same memory.                            *)
Son == CHOOSE p \in Slots \ used : \A q \in Slots \ used : p <= q
SonTf_Same(p) == <<stk, Depth>>      \* mutant: dst->tf = src->tf
SonTf(p) == <<p, Depth>>

HandleFork ==
  /\ \E call \in {SYS_FORK, SYS_THREAD} : Syscall(call)
  /\ used # Slots
  /\ used' = used \cup {Son}
  /\ LET copied == [Pushed EXCEPT ![Son] = Pushed[stk]]
         k == [copied EXCEPT ![stk][Depth].eax = Son, ![Son][Depth].eax = 0]
         new == IF cpu.eax = SYS_FORK THEN mem[current]
                ELSE [mem[current] EXCEPT !.text = <<>>, !.said = <<>>, !.job = 0]
     IN  /\ mem' = [mem EXCEPT ![current].eax = Son, ![Son] = [new EXCEPT !.eax = 0]]
         /\ do_scheduler(k, [HasTf EXCEPT ![Son] = SonTf(Son)], used')

(* exec_current: loader_file loads the page directory of the process and   *)
(* then kern_pgdir; init_pcb changes eip and esp in the frame in place; a  *)
(* switch follows.  A file that is no program is found out before that.    *)
HandleExec ==
  /\ Syscall(SYS_EXEC)
  /\ mem' = [mem EXCEPT ![current].text = <<>>, ![current].said = <<>>, ![current].job = 0]
  /\ \E q \in used : scheduler_switch(Pushed, HasTf, q)
  /\ UNCHANGED used

HandleExecFails ==
  /\ Syscall(SYS_EXEC)
  /\ do_scheduler(Pushed, HasTf, used)
  /\ UNCHANGED <<used, mem>>

-----------------------------------------------------------------------------
(* main has made the idle process, its frame on its own stack, and the     *)
(* shell, its frame in tfPool; interrupts have been off since the boot     *)
(* loader.                                                                 *)
Init ==
  /\ cpu = [Start EXCEPT !.at = "main", !.if = FALSE]
  /\ current = NONE /\ used = {IDLE, SHELL}
  /\ kst = [p \in Slots |-> IF p = IDLE THEN <<Start>> ELSE <<>>]
  /\ tf = [p \in Slots |-> <<p, IF p = IDLE THEN 1 ELSE 0>>]
  /\ stk = IDLE /\ esp0 = NONE /\ cr3 = NONE
  /\ mem = [p \in Slots |-> NoMem]

FirstSwitch ==
  /\ cpu.at = "main"
  /\ scheduler_switch(kst, tf, SHELL)
  /\ UNCHANGED <<used, mem>>

Lost == cpu.at = "lost" /\ UNCHANGED vars

Handle ==
  \/ HandleTimer \/ HandleKey \/ HandleCtrlC \/ HandleException \/ HandleErrorCode
  \/ HandlePrint \/ HandlePid \/ HandleHandout \/ HandleExit \/ HandleFork
  \/ HandleExec \/ HandleExecFails

Next ==
  \/ FirstSwitch
  \/ \E i \in DOMAIN Prints : printf(i)
  \/ \E call \in Calls : Int80(call)
  \/ \E v \in {"vec0", "vec13"} : Exception(v)
  \/ \E v \in {"irq0", "irq1"} : Interrupt(v)
  \/ Handle
  \/ Lost

Spec == Init /\ [][Next]_vars

-----------------------------------------------------------------------------
(* Every variable has its type; characters are the codes printf can make.  *)
Codes == {Minus} \cup (48 .. 57) \cup (97 .. 102)
TrapTypeOK ==
  /\ cpu.at \in {"prog", "main", "lost", "vecsys", "irq0", "irq1", "vec0", "vec13"}
  /\ cpu.if \in BOOLEAN
  /\ current \in Slots \cup {NONE} /\ esp0 \in Slots \cup {NONE} /\ cr3 \in Slots \cup {NONE}
  /\ used \subseteq Slots /\ stk \in Slots
  /\ \A p \in Slots : /\ Range(mem[p].text) \cup Range(mem[p].said) \subseteq Codes
                      /\ mem[p].job \in 0 .. Len(Prints)
                      /\ mem[p].eax \in Slots \cup Calls

(* A program that runs has the registers it should have: what it had when  *)
(* it was interrupted, wherever it was interrupted and whoever ran in      *)
(* between, and after a system call the result of it in eax, which is 0 in *)
(* a son (asm_do_irq, switch_proc, copy_pcb, fork_current).                *)
RegistersKept ==
  Running => cpu.eax = mem[current].eax /\ cpu.ebx = mem[current].ebx /\ cpu.if

(* It runs in its own address space, and its next trap goes to its own     *)
(* kernel stack; a process that does not run has its frame on its own      *)
(* stack, where nobody else's trap can come (scheduler_switch, copy_pcb).  *)
StacksPrivate ==
  cpu.at # "main" =>
    /\ cr3 = current /\ esp0 = current
    /\ \A p \in used \ {current} : /\ tf[p][1] = p /\ tf[p][2] \in 0 .. Len(kst[p])
                                   /\ tf[p][2] = 0 => kst[p] = <<>>

(* The kernel stack of a process never holds more than two frames: the     *)
(* interrupt that came in a stub has its cli before it (idt.c, do_irq.S).  *)
TwoFramesAtMost == \A p \in Slots : Len(kst[p]) <= 2

(* What every trap finds and leaves of the kernel stacks.                  *)
TrapInv == TrapTypeOK /\ StacksPrivate /\ TwoFramesAtMost

(* What a process has printed, with what it is about to print, is what its *)
(* call of printf should print: every character once and in order, though  *)
(* each is a system call of its own that may be interrupted before the     *)
(* kernel has seen it, and the number as it is written, the least int too  *)
(* (vfprintf, sys_printch, serial_printc).                                 *)
Power(b, n) == b ^ n
Positional(b, n) ==
  LET k == CHOOSE k \in 1 .. WIDTH : n < Power(b, k) /\ (k > 1 => n >= Power(b, k - 1))
  IN  [i \in 1 .. k |-> LET d == (n \div Power(b, k - i)) % b
                        IN IF d < 10 THEN 48 + d ELSE 87 + d]
Written(p) ==
  CASE p.conv \in {0, 115} -> p.arg
    [] p.conv = 99  -> <<p.arg>>
    [] p.conv = 100 -> IF p.arg < 0 THEN <<Minus>> \o Positional(10, -p.arg) ELSE Positional(10, p.arg)
    [] p.conv = 120 -> Positional(16, IF p.arg < 0 THEN p.arg + 2 ^ WIDTH ELSE p.arg)
Whole == [i \in DOMAIN Prints |-> FlattenSeq([k \in DOMAIN Prints[i] |-> Written(Prints[i][k])])]
PrintedOnce ==
  Running /\ mem[current].job # 0 =>
    mem[current].said \o mem[current].text = Whole[mem[current].job]
=============================================================================
