---------------------------- MODULE MachineProofs ----------------------------
(***************************************************************************)
(* Proofs about the boot (module Boot) and about traps and kernel stacks   *)
(* (module Traps), for any number of processes, any width of an int and    *)
(* any texts that are printed, and any layout of the memory.               *)
(***************************************************************************)
EXTENDS Boot, SequenceTheorems, WellFoundedInduction, TLAPS

-----------------------------------------------------------------------------
(* Kernel stacks.                                                          *)

Stubs == {"vecsys", "vec0", "vec13"}
Irqs  == {"irq0", "irq1"}

(* A frame of a program, and one of a stub that was interrupted before its *)
(* cli.                                                                    *)
State(v, w, a, b) == [at |-> v, if |-> w, eax |-> a, ebx |-> b]
Regs(f, a, b) == [f EXCEPT !.eax = a, !.ebx = b]
Prog(f) == f = State("prog", TRUE, f.eax, f.ebx)
Stub(f) == f = State(f.at, TRUE, f.eax, f.ebx) /\ f.at \in Stubs

(* The stack of a process that does not run: nothing yet, the frame of its *)
(* program, or besides it one of a stub.                                   *)
Saved(k) ==
  \/ k = <<>>
  \/ \E f : Prog(f) /\ k = <<f>>
  \/ \E f, g : Prog(f) /\ Stub(g) /\ k = <<f, g>>
Top(k) == IF k = <<>> THEN Start ELSE k[Len(k)]
HasRegs(f, m) == f.eax = m.eax /\ f.ebx = m.ebx

(* Where a process is, when what is interrupted by a timer or keyboard     *)
(* interrupt counts: in the stub of its second frame, or else where at     *)
(* says.                                                                   *)
Inner(z, at) == IF Len(z) = 2 THEN z[2].at ELSE at

MemOf(t, s, i, a, b) == [text |-> t, said |-> s, job |-> i, eax |-> a, ebx |-> b]
IsMem(m) == m = MemOf(m.text, m.said, m.job, m.eax, m.ebx)

(* The text of every single call of printf is what it should be: how       *)
(* numbers are written is not the subject of these proofs.                 *)
FormatsWell ==
  \A i \in DOMAIN Prints : /\ vfprintf(Ctl(Prints[i]), Args(Prints[i])) = Whole[i]
                           /\ Whole[i] \in Seq(Codes)

Typed(x) ==
  /\ x.job \in 0 .. Len(Prints)
  /\ FormatsWell => x.text \in Seq(Codes) /\ x.said \in Seq(Codes)

(* What has been printed, the character that a system call has taken from  *)
(* the text and not yet printed, and the text that is left.                *)
Owes(at, x) ==
  FormatsWell =>
    IF at = "vecsys" /\ x.eax = SYS_PRINT_CHAR
    THEN x.ebx \in Codes /\ (x.job # 0 => x.said \o (<<x.ebx>> \o x.text) = Whole[x.job])
    ELSE x.job # 0 => x.said \o x.text = Whole[x.job]

(* All processes in U but c have what is needed to go on.                  *)
Resumable(k, t, m, U, c) ==
  /\ k = [p \in Slots |-> k[p]] /\ t = [p \in Slots |-> t[p]] /\ m = [p \in Slots |-> m[p]]
  /\ U \subseteq Slots /\ IDLE \in U
  /\ \A p \in U \ {c} : Saved(k[p]) /\ t[p] = <<p, Len(k[p])>> /\ HasRegs(Top(k[p]), m[p])
  /\ \A p \in Slots \ U : k[p] = <<>>
  /\ \A p \in Slots : IsMem(m[p]) /\ m[p].eax \in Slots \cup Calls /\ Typed(m[p])
  /\ m[IDLE].eax \in {0, SYS_HANDOUT}
  /\ \A p \in U \ {c} : Owes(Inner(k[p], "prog"), m[p])

(* The process that runs: in its program, in a stub, or in the stub of an  *)
(* interrupt that came in either.                                          *)
Runnable(k, c) ==
  \/ Prog(c) /\ k = <<>>
  \/ Stub(c) /\ \E f : Prog(f) /\ k = <<f>>
  \/ c = State(c.at, FALSE, c.eax, c.ebx) /\ c.at \in Irqs \cup {"lost"} /\ Saved(k) /\ k # <<>>

InMain ==
  /\ cpu.at = "main" /\ cpu.if = FALSE /\ current = NONE /\ stk = IDLE /\ esp0 = NONE /\ cr3 = NONE
  /\ SHELL \in used
  /\ Resumable(kst, tf, mem, used, NONE)

AfterMain ==
  /\ cpu.at # "main"
  /\ current \in used /\ stk = current /\ esp0 = current /\ cr3 = current
  /\ Runnable(kst[current], cpu) /\ HasRegs(cpu, mem[current])
  /\ Owes(Inner(kst[current], cpu.at), mem[current])
  /\ Resumable(kst, tf, mem, used, current)

TrapIInv == InMain \/ AfterMain

-----------------------------------------------------------------------------
(* Sequences of one and two frames.                                        *)
LEMMA Short ==
  ASSUME NEW f, NEW g
  PROVE  /\ Len(<<>>) = 0 /\ Len(<<f>>) = 1 /\ Len(<<f, g>>) = 2
         /\ <<f>>[1] = f /\ <<f, g>>[2] = g /\ <<f, g>>[1] = f
         /\ <<f>> # <<>> /\ <<f, g>> # <<>>
         /\ Append(<<>>, f) = <<f>> /\ Append(<<f>>, g) = <<f, g>>
         /\ SubSeq(<<f>>, 1, 0) = <<>> /\ SubSeq(<<f, g>>, 1, 1) = <<f>>
         /\ \A a : [<<f>> EXCEPT ![1] = a] = <<a>> /\ [<<f, g>> EXCEPT ![2] = a] = <<f, a>>
<1>1. Len(<<>>) = 0 /\ Len(<<f>>) = 1 /\ Len(<<f, g>>) = 2
  OBVIOUS
<1>2. <<f>>[1] = f /\ <<f, g>>[2] = g /\ <<f, g>>[1] = f
  OBVIOUS
<1>3. <<f>> # <<>> /\ <<f, g>> # <<>>
  OBVIOUS
<1>4. <<>> \in Seq({f, g}) /\ <<f>> \in Seq({f, g}) /\ <<f, g>> \in Seq({f, g}) /\ f \in {f, g} /\ g \in {f, g}
  OBVIOUS
<1>5. Append(<<>>, f) = <<f>> /\ Append(<<f>>, g) = <<f, g>>
  <2>1. Append(<<>>, f) \in Seq({f, g}) /\ Len(Append(<<>>, f)) = 1 /\ Append(<<>>, f)[1] = f
    OBVIOUS
  <2>2. Append(<<f>>, g) \in Seq({f, g}) /\ Len(Append(<<f>>, g)) = 2
        /\ Append(<<f>>, g)[1] = f /\ Append(<<f>>, g)[2] = g
    OBVIOUS
  <2>3. Append(<<>>, f) = <<f>>
    BY <1>4, <1>1, <1>2, <2>1, SeqEqual
  <2>4. \A k \in 1 .. 2 : k = 1 \/ k = 2
    OBVIOUS
  <2>5. Append(<<f>>, g) = <<f, g>>
    BY <1>4, <1>1, <1>2, <2>2, <2>4, SeqEqual
  <2>6. QED
    BY <2>3, <2>5
<1>6. SubSeq(<<f>>, 1, 0) = <<>>
  OBVIOUS
<1>7. SubSeq(<<f, g>>, 1, 1) = <<f>>
  <2>1. PICK s : s = SubSeq(<<f, g>>, 1, 1)
    OBVIOUS
  <2>2. s \in Seq({f, g}) /\ Len(s) = 1 /\ s[1] = f
    BY <2>1
  <2>3. \A k \in 1 .. Len(s) : s[k] = <<f>>[k]
    BY <1>2, <2>2
  <2>4. s = <<f>>
    BY <1>4, <1>1, <2>2, <2>3, SeqEqual
  <2>5. QED
    BY <2>1, <2>4
<1>8. \A a : [<<f>> EXCEPT ![1] = a] = <<a>>
  OBVIOUS
<1>9. \A a : [<<f, g>> EXCEPT ![2] = a] = <<f, a>>
  OBVIOUS
<1>10. QED
  BY <1>1, <1>2, <1>3, <1>5, <1>6, <1>7, <1>8, <1>9

LEMMA SetRegs ==
  ASSUME NEW f, NEW v, NEW w, NEW x, NEW y, f = State(v, w, x, y), NEW a, NEW b
  PROVE  /\ [f EXCEPT !.eax = a, !.ebx = b] = State(v, w, a, b)
         /\ [f EXCEPT !.eax = a] = State(v, w, a, y)
         /\ f.at = v /\ f.if = w /\ f.eax = x /\ f.ebx = y
<1>1. [f EXCEPT !.eax = a] = State(v, w, a, y)
  BY DEF State
<1>2. [State(v, w, a, y) EXCEPT !.ebx = b] = State(v, w, a, b)
  BY DEF State
<1>3. [f EXCEPT !.eax = a, !.ebx = b] = [[f EXCEPT !.eax = a] EXCEPT !.ebx = b]
  OBVIOUS
<1>4. f.at = v /\ f.if = w /\ f.eax = x /\ f.ebx = y
  BY DEF State
<1>5. QED
  BY <1>1, <1>2, <1>3, <1>4

LEMMA SetBoth ==
  ASSUME NEW v, NEW w, NEW x, NEW y, NEW a, NEW b
  PROVE  Regs(State(v, w, x, y), a, b) = State(v, w, a, b)
<1>1. PICK f, h : f = State(v, w, x, y) /\ h = [f EXCEPT !.eax = a]
  OBVIOUS
<1>2. h = State(v, w, a, y)
  BY <1>1 DEF State
<1>3. [h EXCEPT !.ebx = b] = State(v, w, a, b)
  BY <1>2 DEF State
<1>4. Regs(f, a, b) = [h EXCEPT !.ebx = b]
  BY <1>1 DEF Regs
<1>5. QED
  BY <1>1, <1>3, <1>4

PushOn(z, n, a, b) == [z EXCEPT ![n].eax = a, ![n].ebx = b]

(* pushal: the registers are saved in the frame on top.                    *)
LEMMA PushRegs ==
  ASSUME NEW k, Saved(k), k # <<>>, NEW a, NEW b
  PROVE  LET j == PushOn(k, Len(k), a, b)
         IN  /\ Saved(j) /\ j # <<>> /\ Len(j) = Len(k) /\ Inner(j, "prog") = Inner(k, "prog")
             /\ Top(j) = State(Top(k).at, TRUE, a, b)
<1>. DEFINE j == PushOn(k, Len(k), a, b)
<1>1. ASSUME NEW f, Prog(f), k = <<f>>
      PROVE  /\ Saved(j) /\ j # <<>> /\ Len(j) = Len(k) /\ Inner(j, "prog") = Inner(k, "prog")
             /\ Top(j) = State(Top(k).at, TRUE, a, b)
  <2>1. PICK h : h = State("prog", TRUE, a, b)
    OBVIOUS
  <2>2. Regs(f, a, b) = h
    <3>1. f = State("prog", TRUE, f.eax, f.ebx)
      BY <1>1 DEF Prog
    <3>2. PICK w, x, y : w = TRUE /\ x = f.eax /\ y = f.ebx
      OBVIOUS
    <3>3. f = State("prog", w, x, y) /\ h = State("prog", w, a, b)
      BY <2>1, <3>1, <3>2, Zenon
    <3>4. QED
      BY <3>3, SetBoth
  <2>3. j = <<h>>
    BY <1>1, <2>2, Short DEF Regs, PushOn
  <2>4. Prog(h) /\ f.at = "prog"
    BY <1>1, <2>1 DEF Prog, State
  <2>. HIDE DEF j
  <2>5. Inner(j, "prog") = Inner(k, "prog")
    BY <1>1, <2>3, Short DEF Inner
  <2>6. QED
    BY <1>1, <2>1, <2>3, <2>4, <2>5, Short DEF Saved, Top
<1>2. ASSUME NEW f, NEW g, Prog(f), Stub(g), k = <<f, g>>
      PROVE  /\ Saved(j) /\ j # <<>> /\ Len(j) = Len(k) /\ Inner(j, "prog") = Inner(k, "prog")
             /\ Top(j) = State(Top(k).at, TRUE, a, b)
  <2>1. PICK h : h = State(g.at, TRUE, a, b)
    OBVIOUS
  <2>2. Regs(g, a, b) = h
    <3>1. g = State(g.at, TRUE, g.eax, g.ebx)
      BY <1>2 DEF Stub
    <3>2. PICK v, w, x, y : v = g.at /\ w = TRUE /\ x = g.eax /\ y = g.ebx
      OBVIOUS
    <3>3. g = State(v, w, x, y) /\ h = State(v, w, a, b)
      BY <2>1, <3>1, <3>2, Zenon
    <3>4. QED
      BY <3>3, SetBoth
  <2>3. j = <<f, h>>
    BY <1>2, <2>2, Short DEF Regs, PushOn
  <2>4. Stub(h) /\ h.at = g.at
    BY <1>2, <2>1 DEF Stub, State
  <2>. HIDE DEF j
  <2>5. Inner(j, "prog") = Inner(k, "prog")
    BY <1>2, <2>3, <2>4, Short DEF Inner
  <2>6. QED
    BY <1>2, <2>1, <2>3, <2>4, <2>5, Short DEF Saved, Top
<1>3. QED
  BY <1>1, <1>2 DEF Saved

(* popal and iret: the frame on top becomes the state of the processor.    *)
LEMMA PopFrame ==
  ASSUME NEW k, Saved(k)
  PROVE  /\ Len(k) \in 0 .. 2 /\ (Len(k) = 0 <=> k = <<>>)
         /\ LET j == IF k = <<>> THEN <<>> ELSE SubSeq(k, 1, Len(k) - 1)
            IN  Runnable(j, Top(k)) /\ Inner(j, Top(k).at) = Inner(k, "prog")
<1>1. CASE k = <<>>
  <2>1. Prog(Start) /\ Start.at = "prog"
    BY DEF Prog, Start, State
  <2>2. QED
    BY <1>1, <2>1, Short DEF Runnable, Top, Inner
<1>2. ASSUME NEW f, Prog(f), k = <<f>>
      PROVE  /\ Runnable(SubSeq(k, 1, Len(k) - 1), Top(k)) /\ k # <<>> /\ Len(k) = 1
             /\ Inner(SubSeq(k, 1, Len(k) - 1), Top(k).at) = Inner(k, "prog")
  <2>1. Len(k) - 1 = 0 /\ Top(k) = f /\ k # <<>> /\ Len(k) = 1
    BY <1>2, Short DEF Top
  <2>2. SubSeq(k, 1, Len(k) - 1) = <<>>
    BY <1>2, <2>1, Short
  <2>3. f.at = "prog"
    BY <1>2 DEF Prog, State
  <2>4. Inner(<<>>, f.at) = Inner(k, "prog")
    BY <1>2, <2>3, Short DEF Inner
  <2>5. QED
    BY <1>2, <2>1, <2>2, <2>4 DEF Runnable
<1>3. ASSUME NEW f, NEW g, Prog(f), Stub(g), k = <<f, g>>
      PROVE  /\ Runnable(SubSeq(k, 1, Len(k) - 1), Top(k)) /\ k # <<>> /\ Len(k) = 2
             /\ Inner(SubSeq(k, 1, Len(k) - 1), Top(k).at) = Inner(k, "prog")
  <2>1. Len(k) - 1 = 1 /\ Top(k) = g /\ k # <<>> /\ Len(k) = 2
    BY <1>3, Short DEF Top
  <2>2. SubSeq(k, 1, Len(k) - 1) = <<f>>
    BY <1>3, <2>1, Short
  <2>3. Inner(<<f>>, g.at) = Inner(k, "prog")
    BY <1>3, Short DEF Inner
  <2>4. QED
    BY <1>3, <2>1, <2>2, <2>3 DEF Runnable
<1>4. QED
  BY <1>1, <1>2, <1>3, Short DEF Saved

LEMMA SlotFacts == NONE \notin Slots /\ IDLE \in Slots /\ SHELL \in Slots /\ IDLE # SHELL /\ Slots \subseteq Nat
BY TrapAssumption DEF NONE, IDLE, SHELL, Slots

(* switch_proc: a process goes on from the frame its tf names.             *)
LEMMA Resumes ==
  ASSUME NEW k, NEW t, NEW m, NEW U, Resumable(k, t, m, U, NONE), NEW q \in U,
         current' = q, cr3' = q, esp0' = q, Iret(k, t[q]), tf' = t, mem' = m, used' = U
  PROVE  AfterMain'
<1>. DEFINE j == IF k[q] = <<>> THEN <<>> ELSE SubSeq(k[q], 1, Len(k[q]) - 1)
<1>1. /\ q \in Slots /\ q # NONE /\ U \subseteq Slots /\ IDLE \in U
      /\ k = [p \in Slots |-> k[p]] /\ t = [p \in Slots |-> t[p]] /\ m = [p \in Slots |-> m[p]]
      /\ \A p \in U : Saved(k[p]) /\ t[p] = <<p, Len(k[p])>> /\ HasRegs(Top(k[p]), m[p])
      /\ \A p \in Slots \ U : k[p] = <<>>
  BY SlotFacts DEF Resumable
<1>2. /\ Len(k[q]) \in 0 .. 2 /\ (Len(k[q]) = 0 <=> k[q] = <<>>)
      /\ Runnable(j, Top(k[q])) /\ Inner(j, Top(k[q]).at) = Inner(k[q], "prog")
  BY <1>1, PopFrame
<1>3. t[q][1] = q /\ t[q][2] = Len(k[q])
  <2>1. t[q] = <<q, Len(k[q])>>
    BY <1>1
  <2>2. QED
    BY <2>1, Short
<1>4. cpu' = Top(k[q]) /\ stk' = q
  BY <1>2, <1>3 DEF Iret, Top
<1>5. kst' = [k EXCEPT ![q] = j]
  <2>1. CASE k[q] = <<>>
    <3>1. kst' = k
      BY <1>2, <1>3, <2>1 DEF Iret
    <3>2. QED
      BY <1>1, <2>1, <3>1
  <2>2. CASE k[q] # <<>>
    BY <1>2, <1>3, <2>2 DEF Iret
  <2>3. QED
    BY <2>1, <2>2
<1>. HIDE DEF j
<1>6. kst' = [p \in Slots |-> kst'[p]] /\ kst'[q] = j /\ \A p \in Slots : p # q => kst'[p] = k[p]
  BY <1>1, <1>5
<1>7. Resumable(kst', t, m, U, q)
  <2>1. /\ \A p \in Slots : IsMem(m[p]) /\ m[p].eax \in Slots \cup Calls /\ Typed(m[p])
        /\ m[IDLE].eax \in {0, SYS_HANDOUT} /\ NONE \notin U
        /\ \A p \in U : Owes(Inner(k[p], "prog"), m[p])
    BY SlotFacts DEF Resumable
  <2>2. \A p \in U \ {q} : Owes(Inner(kst'[p], "prog"), m[p])
    BY <1>1, <1>6, <2>1
  <2>3. QED
    BY <1>1, <1>6, <2>1, <2>2 DEF Resumable
<1>8. Runnable(kst'[q], cpu') /\ HasRegs(cpu', m[q]) /\ Inner(kst'[q], cpu'.at) = Inner(k[q], "prog")
  BY <1>1, <1>2, <1>4, <1>6
<1>9. Owes(Inner(kst'[q], cpu'.at), m[q])
  <2>1. Owes(Inner(k[q], "prog"), m[q])
    BY <1>1 DEF Resumable
  <2>2. QED
    BY <1>8, <2>1
<1>10. cpu'.at # "main"
  BY <1>8 DEF Runnable, Prog, Stub, State, Stubs, Irqs
<1>11. QED
  BY <1>4, <1>7, <1>8, <1>9, <1>10 DEF AfterMain

-----------------------------------------------------------------------------
(* Handlers.                                                               *)

Push(k, c, n, a, b) == [k EXCEPT ![c][n].eax = a, ![c][n].ebx = b]
LEMMA DeepRegs ==
  ASSUME NEW k, NEW c \in Slots, k = [p \in Slots |-> k[p]], NEW n, NEW a, NEW b
  PROVE  Push(k, c, n, a, b) = [k EXCEPT ![c] = PushOn(k[c], n, a, b)]
<1>1. PICK e : e = [k[c] EXCEPT ![n] = [k[c][n] EXCEPT !.eax = a]]
  OBVIOUS
<1>2. PICK d : d = [k EXCEPT ![c] = e]
  OBVIOUS
<1>3. d[c] = e
  BY <1>2
<1>4. Push(k, c, n, a, b) = [d EXCEPT ![c] = [e EXCEPT ![n] = [e[n] EXCEPT !.ebx = b]]]
  BY <1>1, <1>2, <1>3 DEF Push
<1>5. PushOn(k[c], n, a, b) = [e EXCEPT ![n] = [e[n] EXCEPT !.ebx = b]]
  BY <1>1 DEF PushOn
<1>6. \A x : [d EXCEPT ![c] = x] = [k EXCEPT ![c] = x]
  BY <1>2
<1>7. QED
  BY <1>4, <1>5, <1>6

LEMMA DeepEax ==
  ASSUME NEW k, NEW c \in Slots, k = [p \in Slots |-> k[p]], NEW n, NEW a
  PROVE  [k EXCEPT ![c][n].eax = a] = [k EXCEPT ![c] = [k[c] EXCEPT ![n].eax = a]]
OBVIOUS

(* A stub has been entered: there is a frame for the registers.            *)
LEMMA StubHasFrame ==
  ASSUME AfterMain, cpu.at \in Stubs \cup Irqs
  PROVE  /\ Saved(kst[current]) /\ kst[current] # <<>>
         /\ cpu.at \in Stubs => Len(kst[current]) = 1
         /\ current \in Slots /\ stk = current /\ current # NONE
<1>1. cpu.at # "prog" /\ cpu.at # "lost"
  BY DEF Stubs, Irqs
<1>2. ~Prog(cpu)
  BY <1>1 DEF Prog, State
<1>3. CASE Stub(cpu) /\ \E f : Prog(f) /\ kst[current] = <<f>>
  <2>1. PICK f : Prog(f) /\ kst[current] = <<f>>
    BY <1>3
  <2>2. QED
    BY <2>1, Short, SlotFacts DEF AfterMain, Saved, Resumable
<1>4. CASE cpu.at \in Irqs \cup {"lost"} /\ Saved(kst[current]) /\ kst[current] # <<>>
  BY <1>4, SlotFacts DEF AfterMain, Resumable, Stubs, Irqs
<1>5. QED
  BY <1>2, <1>3, <1>4 DEF AfterMain, Runnable

(* asm_do_irq and current->tf = tf: the process could be resumed now, if   *)
(* its memory n is as it should be.                                        *)
LEMMA PushedStacks ==
  ASSUME AfterMain, cpu.at \in Stubs \cup Irqs,
         NEW n, n = [p \in Slots |-> n[p]], \A p \in Slots : p # current => n[p] = mem[p],
         IsMem(n[current]), HasRegs(mem[current], n[current]), Typed(n[current]),
         Owes(Inner(kst[current], "prog"), n[current])
  PROVE  /\ Resumable(Pushed, HasTf, n, used, NONE)
         /\ Len(Pushed[current]) = Depth /\ Pushed[current] # <<>>
         /\ cpu.at \in Stubs => Len(Pushed[current]) = 1
<1>. DEFINE j == PushOn(kst[current], Len(kst[current]), cpu.eax, cpu.ebx)
<1>1. /\ Saved(kst[current]) /\ kst[current] # <<>> /\ current \in Slots /\ stk = current /\ current # NONE
      /\ cpu.at \in Stubs => Len(kst[current]) = 1
  BY StubHasFrame
<1>2. /\ Saved(j) /\ j # <<>> /\ Len(j) = Len(kst[current]) /\ Inner(j, "prog") = Inner(kst[current], "prog")
      /\ Top(j) = State(Top(kst[current]).at, TRUE, cpu.eax, cpu.ebx)
  <2>1. PICK z : z = kst[current]
    OBVIOUS
  <2>2. Saved(z) /\ z # <<>>
    BY <1>1, <2>1
  <2>3. \A a, b : LET v == PushOn(z, Len(z), a, b)
                  IN  /\ Saved(v) /\ v # <<>> /\ Len(v) = Len(z) /\ Inner(v, "prog") = Inner(z, "prog")
                      /\ Top(v) = State(Top(z).at, TRUE, a, b)
    BY <2>2, PushRegs
  <2>4. QED
    BY <2>1, <2>3
<1>3. /\ kst = [p \in Slots |-> kst[p]] /\ tf = [p \in Slots |-> tf[p]]
      /\ \A p \in used \ {current} : Saved(kst[p]) /\ tf[p] = <<p, Len(kst[p])>> /\ HasRegs(Top(kst[p]), mem[p])
      /\ \A p \in Slots \ used : kst[p] = <<>>
      /\ current \in used /\ HasRegs(cpu, mem[current]) /\ used \subseteq Slots /\ IDLE \in used
      /\ \A p \in Slots : IsMem(mem[p]) /\ mem[p].eax \in Slots \cup Calls /\ Typed(mem[p])
      /\ mem[IDLE].eax \in {0, SYS_HANDOUT}
      /\ \A p \in used \ {current} : Owes(Inner(kst[p], "prog"), mem[p])
  BY DEF AfterMain, Resumable
<1>4. Pushed = [kst EXCEPT ![current] = j]
  <2>1. Pushed = Push(kst, current, Len(kst[current]), cpu.eax, cpu.ebx)
    BY <1>1 DEF Pushed, Depth, Push
  <2>2. QED
    BY <1>1, <1>3, <2>1, DeepRegs
<1>5. HasTf = [tf EXCEPT ![current] = <<current, Len(kst[current])>>]
  BY <1>1 DEF HasTf, Depth
<1>6. HasRegs(Top(j), n[current])
  <2>1. Top(j).eax = cpu.eax /\ Top(j).ebx = cpu.ebx
    BY <1>2 DEF State
  <2>2. QED
    BY <1>3, <2>1 DEF HasRegs
<1>7. \A p \in Slots : IsMem(n[p]) /\ n[p].eax = mem[p].eax /\ Typed(n[p])
  BY <1>3 DEF HasRegs
<1>. HIDE DEF j
<1>8. /\ Pushed = [p \in Slots |-> Pushed[p]] /\ Pushed[current] = j
      /\ \A p \in Slots : p # current => Pushed[p] = kst[p]
  BY <1>1, <1>3, <1>4
<1>9. /\ HasTf = [p \in Slots |-> HasTf[p]] /\ HasTf[current] = <<current, Len(j)>>
      /\ \A p \in Slots : p # current => HasTf[p] = tf[p]
  BY <1>1, <1>2, <1>3, <1>5
<1>10. PICK k, t : k = Pushed /\ t = HasTf
  OBVIOUS
<1>11. \A p \in used : Saved(k[p]) /\ t[p] = <<p, Len(k[p])>> /\ HasRegs(Top(k[p]), n[p])
  BY <1>2, <1>3, <1>6, <1>8, <1>9, <1>10
<1>12. \A p \in used : Owes(Inner(k[p], "prog"), n[p])
  BY <1>2, <1>3, <1>8, <1>10
<1>13. \A p \in Slots \ used : k[p] = <<>>
  BY <1>3, <1>8, <1>10
<1>14. n[IDLE].eax \in {0, SYS_HANDOUT} /\ \A p \in Slots : n[p].eax \in Slots \cup Calls
  BY <1>3, <1>7
<1>15. Resumable(k, t, n, used, NONE)
  BY <1>3, <1>7, <1>8, <1>9, <1>10, <1>11, <1>12, <1>13, <1>14 DEF Resumable
<1>16. QED
  BY <1>1, <1>2, <1>8, <1>10, <1>15 DEF Depth

(* The handler of anything but a character.                                *)
LEMMA PlainStacks ==
  ASSUME AfterMain, cpu.at \in Stubs \cup Irqs, ~(cpu.at = "vecsys" /\ cpu.eax = SYS_PRINT_CHAR)
  PROVE  /\ Resumable(Pushed, HasTf, mem, used, NONE)
         /\ Len(Pushed[current]) = Depth /\ Pushed[current] # <<>>
         /\ cpu.at \in Stubs => Len(Pushed[current]) = 1
<1>1. /\ mem = [p \in Slots |-> mem[p]] /\ IsMem(mem[current]) /\ Typed(mem[current])
      /\ Owes(Inner(kst[current], cpu.at), mem[current]) /\ cpu.eax = mem[current].eax
  BY DEF AfterMain, Resumable, HasRegs
<1>2. HasRegs(mem[current], mem[current])
  BY DEF HasRegs
<1>3. Owes(Inner(kst[current], "prog"), mem[current])
  <2>1. CASE Len(kst[current]) = 2
    BY <1>1, <2>1 DEF Inner
  <2>2. CASE Len(kst[current]) # 2
    <3>1. Owes(cpu.at, mem[current])
      BY <1>1, <2>2 DEF Inner
    <3>2. Owes("prog", mem[current])
      BY <1>1, <3>1 DEF Owes
    <3>3. QED
      BY <2>2, <3>2 DEF Inner
  <2>3. QED
    BY <2>1, <2>2
<1>4. PICK n : n = mem
  OBVIOUS
<1>5. QED
  BY <1>1, <1>2, <1>3, <1>4, PushedStacks

(* do_scheduler, and a handler that returns without it.                    *)
LEMMA Schedules ==
  ASSUME AfterMain, NEW k, NEW t, NEW m, NEW U, Resumable(k, t, m, U, NONE),
         current \in U, Len(k[current]) = Depth,
         do_scheduler(k, t, U), mem' = m, used' = U
  PROVE  AfterMain'
<1>1. CASE Return(k, t)
  <2>1. current # NONE /\ stk = current /\ cr3 = current /\ esp0 = current
    BY SlotFacts DEF AfterMain, Resumable
  <2>2. t[current] = <<stk, Depth>>
    BY <2>1 DEF Resumable
  <2>3. PICK q : q = current
    OBVIOUS
  <2>4. Iret(k, t[q]) /\ tf' = t /\ current' = q /\ cr3' = q /\ esp0' = q
    BY <1>1, <2>1, <2>2, <2>3 DEF Return
  <2>5. QED
    BY <2>3, <2>4, Resumes
<1>2. ASSUME NEW q \in U, scheduler_switch(k, t, q)
      PROVE  AfterMain'
  BY <1>2, Resumes DEF scheduler_switch
<1>3. QED
  BY <1>1, <1>2 DEF do_scheduler

-----------------------------------------------------------------------------
(* The memory of a program.                                                *)
Put(m, c, x)     == [m EXCEPT ![c] = x]
SetText(m, c, v) == [m EXCEPT ![c].text = v]
SetSaid(m, c, v) == [m EXCEPT ![c].said = v]
SetJob(m, c, v)  == [m EXCEPT ![c].job = v]
SetEax(m, c, v)  == [m EXCEPT ![c].eax = v]
SetEbx(m, c, v)  == [m EXCEPT ![c].ebx = v]

Forget(m, c, u, v, w) == [m EXCEPT ![c].text = u, ![c].said = v, ![c].job = w]
Begin(m, c, u, v, w)  == [m EXCEPT ![c].job = w, ![c].said = v, ![c].text = u]
Called(m, c, u, v, w) == [m EXCEPT ![c].eax = u, ![c].ebx = v, ![c].text = w]

LEMMA Fields ==
  ASSUME NEW t, NEW s, NEW i, NEW a, NEW b
  PROVE  /\ MemOf(t, s, i, a, b).text = t /\ MemOf(t, s, i, a, b).said = s
         /\ MemOf(t, s, i, a, b).job = i /\ MemOf(t, s, i, a, b).eax = a
         /\ MemOf(t, s, i, a, b).ebx = b /\ IsMem(MemOf(t, s, i, a, b))
BY DEF MemOf, IsMem

LEMMA SetField ==
  ASSUME NEW m, m = [p \in Slots |-> m[p]], NEW c \in Slots,
         NEW t, NEW s, NEW i, NEW a, NEW b, m[c] = MemOf(t, s, i, a, b), NEW v
  PROVE  /\ SetText(m, c, v) = Put(m, c, MemOf(v, s, i, a, b))
         /\ SetSaid(m, c, v) = Put(m, c, MemOf(t, v, i, a, b))
         /\ SetJob(m, c, v)  = Put(m, c, MemOf(t, s, v, a, b))
         /\ SetEax(m, c, v)  = Put(m, c, MemOf(t, s, i, v, b))
         /\ SetEbx(m, c, v)  = Put(m, c, MemOf(t, s, i, a, v))
<1>1. PICK x : x = m[c]
  OBVIOUS
<1>2. /\ [x EXCEPT !.text = v] = MemOf(v, s, i, a, b) /\ [x EXCEPT !.said = v] = MemOf(t, v, i, a, b)
      /\ [x EXCEPT !.job = v] = MemOf(t, s, v, a, b) /\ [x EXCEPT !.eax = v] = MemOf(t, s, i, v, b)
      /\ [x EXCEPT !.ebx = v] = MemOf(t, s, i, a, v)
  BY <1>1 DEF MemOf
<1>3. QED
  BY <1>1, <1>2 DEF Put, SetText, SetSaid, SetJob, SetEax, SetEbx

(* The memory of one process is replaced, and then again.                  *)
LEMMA PutTwice ==
  ASSUME NEW m, m = [p \in Slots |-> m[p]], NEW c \in Slots, NEW x
  PROVE  /\ Put(m, c, x) = [p \in Slots |-> Put(m, c, x)[p]]
         /\ Put(m, c, x)[c] = x
         /\ \A p \in Slots : p # c => Put(m, c, x)[p] = m[p]
         /\ \A y : Put(Put(m, c, x), c, y) = Put(m, c, y)
BY DEF Put

LEMMA SetOut ==
  ASSUME NEW m, m = [p \in Slots |-> m[p]], NEW c \in Slots,
         NEW t, NEW s, NEW i, NEW a, NEW b, m[c] = MemOf(t, s, i, a, b), NEW u, NEW v, NEW w
  PROVE  /\ Forget(m, c, u, v, w) = Put(m, c, MemOf(u, v, w, a, b))
         /\ Begin(m, c, u, v, w) = Put(m, c, MemOf(u, v, w, a, b))
<1>1. SetJob(SetSaid(SetText(m, c, u), c, v), c, w) = Put(m, c, MemOf(u, v, w, a, b))
  <2>1. PICK d : d = Put(m, c, MemOf(u, s, i, a, b))
    OBVIOUS
  <2>2. PICK e : e = Put(m, c, MemOf(u, v, i, a, b))
    OBVIOUS
  <2>3. SetText(m, c, u) = d
    BY <2>1, SetField
  <2>4. d = [p \in Slots |-> d[p]] /\ d[c] = MemOf(u, s, i, a, b) /\ \A y : Put(d, c, y) = Put(m, c, y)
    BY <2>1, PutTwice
  <2>5. SetSaid(d, c, v) = e
    BY <2>2, <2>4, SetField
  <2>6. e = [p \in Slots |-> e[p]] /\ e[c] = MemOf(u, v, i, a, b) /\ \A y : Put(e, c, y) = Put(m, c, y)
    BY <2>2, PutTwice
  <2>7. SetJob(e, c, w) = Put(m, c, MemOf(u, v, w, a, b))
    BY <2>6, SetField
  <2>8. QED
    BY <2>3, <2>5, <2>7
<1>2. SetText(SetSaid(SetJob(m, c, w), c, v), c, u) = Put(m, c, MemOf(u, v, w, a, b))
  <2>1. PICK d : d = Put(m, c, MemOf(t, s, w, a, b))
    OBVIOUS
  <2>2. PICK e : e = Put(m, c, MemOf(t, v, w, a, b))
    OBVIOUS
  <2>3. SetJob(m, c, w) = d
    BY <2>1, SetField
  <2>4. d = [p \in Slots |-> d[p]] /\ d[c] = MemOf(t, s, w, a, b) /\ \A y : Put(d, c, y) = Put(m, c, y)
    BY <2>1, PutTwice
  <2>5. SetSaid(d, c, v) = e
    BY <2>2, <2>4, SetField
  <2>6. e = [p \in Slots |-> e[p]] /\ e[c] = MemOf(t, v, w, a, b) /\ \A y : Put(e, c, y) = Put(m, c, y)
    BY <2>2, PutTwice
  <2>7. SetText(e, c, u) = Put(m, c, MemOf(u, v, w, a, b))
    BY <2>6, SetField
  <2>8. QED
    BY <2>3, <2>5, <2>7
<1>3. QED
  BY <1>1, <1>2, Zenon DEF Forget, Begin, SetText, SetSaid, SetJob

LEMMA SetCall ==
  ASSUME NEW m, m = [p \in Slots |-> m[p]], NEW c \in Slots,
         NEW t, NEW s, NEW i, NEW a, NEW b, m[c] = MemOf(t, s, i, a, b), NEW u, NEW v, NEW w
  PROVE  Called(m, c, u, v, w) = Put(m, c, MemOf(w, s, i, u, v))
<1>1. SetText(SetEbx(SetEax(m, c, u), c, v), c, w) = Put(m, c, MemOf(w, s, i, u, v))
  <2>1. PICK d : d = Put(m, c, MemOf(t, s, i, u, b))
    OBVIOUS
  <2>2. PICK e : e = Put(m, c, MemOf(t, s, i, u, v))
    OBVIOUS
  <2>3. SetEax(m, c, u) = d
    BY <2>1, SetField
  <2>4. d = [p \in Slots |-> d[p]] /\ d[c] = MemOf(t, s, i, u, b) /\ \A y : Put(d, c, y) = Put(m, c, y)
    BY <2>1, PutTwice
  <2>5. SetEbx(d, c, v) = e
    BY <2>2, <2>4, SetField
  <2>6. e = [p \in Slots |-> e[p]] /\ e[c] = MemOf(t, s, i, u, v) /\ \A y : Put(e, c, y) = Put(m, c, y)
    BY <2>2, PutTwice
  <2>7. SetText(e, c, w) = Put(m, c, MemOf(w, s, i, u, v))
    BY <2>6, SetField
  <2>8. QED
    BY <2>3, <2>5, <2>7
<1>2. QED
  BY <1>1, Zenon DEF Called, SetText, SetEbx, SetEax

-----------------------------------------------------------------------------
(* What keeps processes resumable.                                         *)
(* A result in eax of the frame on top.                                    *)
WithEax(f, a) == [f EXCEPT !.eax = a]
TopEax(z, a) == [z EXCEPT ![Len(z)].eax = a]

LEMMA SetOne ==
  ASSUME NEW v, NEW w, NEW x, NEW y, NEW a
  PROVE  WithEax(State(v, w, x, y), a) = State(v, w, a, y)
BY DEF WithEax, State

LEMMA AnswerInFrame ==
  ASSUME NEW k, Saved(k), k # <<>>, NEW a
  PROVE  /\ Saved(TopEax(k, a)) /\ TopEax(k, a) # <<>> /\ Len(TopEax(k, a)) = Len(k)
         /\ Top(TopEax(k, a)).eax = a /\ Top(TopEax(k, a)).ebx = Top(k).ebx
<1>1. ASSUME NEW f, Prog(f), k = <<f>>
      PROVE  /\ Saved(TopEax(k, a)) /\ TopEax(k, a) # <<>> /\ Len(TopEax(k, a)) = Len(k)
             /\ Top(TopEax(k, a)).eax = a /\ Top(TopEax(k, a)).ebx = Top(k).ebx
  <2>1. PICK h : h = State("prog", TRUE, a, f.ebx)
    OBVIOUS
  <2>2. WithEax(f, a) = h
    <3>1. PICK w, x, y : w = TRUE /\ x = f.eax /\ y = f.ebx
      OBVIOUS
    <3>2. f = State("prog", w, x, y) /\ h = State("prog", w, a, y)
      BY <1>1, <2>1, <3>1, Zenon DEF Prog
    <3>3. QED
      BY <3>2, SetOne
  <2>3. TopEax(k, a) = <<h>>
    BY <1>1, <2>2, Short DEF TopEax, WithEax
  <2>4. Prog(h) /\ h.eax = a /\ h.ebx = f.ebx
    BY <2>1 DEF Prog, State
  <2>5. Top(k) = f /\ Top(<<h>>) = h
    BY <1>1, Short DEF Top
  <2>6. QED
    BY <1>1, <2>3, <2>4, <2>5, Short DEF Saved
<1>2. ASSUME NEW f, NEW g, Prog(f), Stub(g), k = <<f, g>>
      PROVE  /\ Saved(TopEax(k, a)) /\ TopEax(k, a) # <<>> /\ Len(TopEax(k, a)) = Len(k)
             /\ Top(TopEax(k, a)).eax = a /\ Top(TopEax(k, a)).ebx = Top(k).ebx
  <2>1. PICK h : h = State(g.at, TRUE, a, g.ebx)
    OBVIOUS
  <2>2. WithEax(g, a) = h
    <3>1. PICK v, w, x, y : v = g.at /\ w = TRUE /\ x = g.eax /\ y = g.ebx
      OBVIOUS
    <3>2. g = State(v, w, x, y) /\ h = State(v, w, a, y)
      BY <1>2, <2>1, <3>1, Zenon DEF Stub
    <3>3. QED
      BY <3>2, SetOne
  <2>3. TopEax(k, a) = <<f, h>>
    BY <1>2, <2>2, Short DEF TopEax, WithEax
  <2>4. Stub(h) /\ h.eax = a /\ h.ebx = g.ebx
    BY <1>2, <2>1 DEF Stub, State
  <2>5. Top(k) = g /\ Top(<<f, h>>) = h
    BY <1>2, Short DEF Top
  <2>6. QED
    BY <1>2, <2>3, <2>4, <2>5, Short DEF Saved
<1>3. QED
  BY <1>1, <1>2 DEF Saved

LEMMA Answers ==
  ASSUME NEW k, NEW t, NEW m, NEW U, Resumable(k, t, m, U, NONE),
         NEW c \in U, c # IDLE, Len(k[c]) = 1, NEW a \in Slots \cup Calls
  PROVE  /\ Resumable(Put(k, c, TopEax(k[c], a)), t, SetEax(m, c, a), U, NONE)
         /\ Len(Put(k, c, TopEax(k[c], a))[c]) = Len(k[c])
<1>1. /\ k = [p \in Slots |-> k[p]] /\ t = [p \in Slots |-> t[p]] /\ m = [p \in Slots |-> m[p]]
      /\ U \subseteq Slots /\ IDLE \in U /\ c \in Slots /\ c # NONE /\ NONE \notin U
      /\ \A p \in U : Saved(k[p]) /\ t[p] = <<p, Len(k[p])>> /\ HasRegs(Top(k[p]), m[p])
      /\ \A p \in Slots \ U : k[p] = <<>>
      /\ \A p \in Slots : IsMem(m[p]) /\ m[p].eax \in Slots \cup Calls /\ Typed(m[p])
      /\ m[IDLE].eax \in {0, SYS_HANDOUT}
      /\ \A p \in U : Owes(Inner(k[p], "prog"), m[p])
  BY SlotFacts DEF Resumable
<1>2. k[c] # <<>>
  BY Short
<1>3. PICK z : z = TopEax(k[c], a)
  OBVIOUS
<1>4. Saved(z) /\ z # <<>> /\ Len(z) = Len(k[c]) /\ Top(z).eax = a /\ Top(z).ebx = Top(k[c]).ebx
  <2>1. Saved(k[c])
    BY <1>1
  <2>2. QED
    BY <1>2, <1>3, <2>1, AnswerInFrame
<1>5. PICK j : j = Put(k, c, z)
  OBVIOUS
<1>6. PICK x : x = MemOf(m[c].text, m[c].said, m[c].job, a, m[c].ebx)
  OBVIOUS
<1>7. PICK n : n = Put(m, c, x)
  OBVIOUS
<1>8. SetEax(m, c, a) = n
  <2>1. m[c] = MemOf(m[c].text, m[c].said, m[c].job, m[c].eax, m[c].ebx)
    BY <1>1 DEF IsMem
  <2>2. m = [p \in Slots |-> m[p]] /\ c \in Slots
    BY <1>1
  <2>3. SetEax(m, c, a) = Put(m, c, MemOf(m[c].text, m[c].said, m[c].job, a, m[c].ebx))
    BY <2>1, <2>2, SetField
  <2>4. QED
    BY <1>6, <1>7, <2>3
<1>9. x.eax = a /\ x.ebx = m[c].ebx /\ IsMem(x) /\ x.text = m[c].text /\ x.said = m[c].said /\ x.job = m[c].job
  BY <1>6, Fields
<1>10. j = [p \in Slots |-> j[p]] /\ j[c] = z /\ \A p \in Slots : p # c => j[p] = k[p]
  BY <1>1, <1>5, PutTwice
<1>11. n = [p \in Slots |-> n[p]] /\ n[c] = x /\ \A p \in Slots : p # c => n[p] = m[p]
  BY <1>1, <1>7, PutTwice
<1>12. HasRegs(Top(z), x)
  BY <1>1, <1>4, <1>9 DEF HasRegs
<1>13. \A p \in U : Saved(j[p]) /\ t[p] = <<p, Len(j[p])>> /\ HasRegs(Top(j[p]), n[p])
  <2>. TAKE p \in U
  <2>1. p \in Slots /\ Saved(k[p]) /\ t[p] = <<p, Len(k[p])>> /\ HasRegs(Top(k[p]), m[p])
    BY <1>1
  <2>2. CASE p # c
    BY <1>10, <1>11, <2>1, <2>2
  <2>3. CASE p = c
    BY <1>4, <1>10, <1>11, <1>12, <2>1, <2>3
  <2>4. QED
    BY <2>2, <2>3
<1>14. Typed(x) /\ Owes("prog", x)
  <2>1. Inner(k[c], "prog") = "prog"
    BY DEF Inner
  <2>2. Typed(m[c]) /\ Owes("prog", m[c])
    BY <1>1, <2>1
  <2>3. QED
    BY <1>9, <2>2 DEF Typed, Owes
<1>15. \A p \in U : Owes(Inner(j[p], "prog"), n[p])
  <2>1. Inner(z, "prog") = "prog"
    BY <1>4 DEF Inner
  <2>2. ASSUME NEW p \in U, p # c PROVE Owes(Inner(j[p], "prog"), n[p])
    <3>1. j[p] = k[p] /\ n[p] = m[p] /\ Owes(Inner(k[p], "prog"), m[p])
      BY <1>1, <1>10, <1>11, <2>2
    <3>2. QED
      BY <3>1
  <2>3. Owes(Inner(j[c], "prog"), n[c])
    BY <1>10, <1>11, <1>14, <2>1
  <2>4. QED
    BY <2>2, <2>3
<1>16. \A p \in Slots : IsMem(n[p]) /\ n[p].eax \in Slots \cup Calls /\ Typed(n[p])
  BY <1>1, <1>9, <1>11, <1>14
<1>17. Resumable(j, t, n, U, NONE)
  BY <1>1, <1>10, <1>11, <1>13, <1>16, <1>15 DEF Resumable
<1>18. QED
  BY <1>3, <1>4, <1>5, <1>8, <1>10, <1>17

LEMMA NoMemFacts == IsMem(NoMem) /\ NoMem.eax = 0 /\ NoMem.ebx = 0 /\ NoMem.job = 0 /\ Typed(NoMem)
<1>1. NoMem = MemOf(<<>>, <<>>, 0, 0, 0)
  BY DEF NoMem, MemOf
<1>2. NoMem.text = <<>> /\ NoMem.said = <<>> /\ NoMem.job = 0 /\ NoMem.eax = 0 /\ NoMem.ebx = 0 /\ IsMem(NoMem)
  BY <1>1, Fields
<1>3. 0 \in 0 .. Len(Prints) /\ <<>> \in Seq(Codes)
  BY TrapAssumption
<1>4. QED
  BY <1>2, <1>3 DEF Typed

(* A process that is no more has left nothing behind.                      *)
LEMMA Leaves ==
  ASSUME NEW k, NEW t, NEW m, NEW U, NEW c \in U, Resumable(k, t, m, U, c), c # IDLE
  PROVE  Resumable(Put(k, c, <<>>), Put(t, c, <<c, 0>>), Put(m, c, NoMem), U \ {c}, NONE)
<1>1. /\ k = [p \in Slots |-> k[p]] /\ t = [p \in Slots |-> t[p]] /\ m = [p \in Slots |-> m[p]]
      /\ U \subseteq Slots /\ IDLE \in U \ {c} /\ c \in Slots
      /\ \A p \in U \ {c} : Saved(k[p]) /\ t[p] = <<p, Len(k[p])>> /\ HasRegs(Top(k[p]), m[p])
      /\ \A p \in Slots \ U : k[p] = <<>>
      /\ \A p \in Slots : IsMem(m[p]) /\ m[p].eax \in Slots \cup Calls /\ Typed(m[p])
      /\ m[IDLE].eax \in {0, SYS_HANDOUT}
      /\ \A p \in U \ {c} : Owes(Inner(k[p], "prog"), m[p])
  BY DEF Resumable
<1>2. PICK j, u, n : j = Put(k, c, <<>>) /\ u = Put(t, c, <<c, 0>>) /\ n = Put(m, c, NoMem)
  OBVIOUS
<1>3. j = [p \in Slots |-> j[p]] /\ j[c] = <<>> /\ \A p \in Slots : p # c => j[p] = k[p]
  BY <1>1, <1>2, PutTwice
<1>4. u = [p \in Slots |-> u[p]] /\ \A p \in Slots : p # c => u[p] = t[p]
  BY <1>1, <1>2, PutTwice
<1>5. n = [p \in Slots |-> n[p]] /\ n[c] = NoMem /\ \A p \in Slots : p # c => n[p] = m[p]
  BY <1>1, <1>2, PutTwice
<1>6. IsMem(NoMem) /\ NoMem.eax = 0 /\ 0 \in Slots /\ Typed(NoMem)
  BY NoMemFacts, SlotFacts DEF IDLE
<1>7. \A p \in U \ {c} : /\ Saved(j[p]) /\ u[p] = <<p, Len(j[p])>> /\ HasRegs(Top(j[p]), n[p])
                          /\ Owes(Inner(j[p], "prog"), n[p])
  BY <1>1, <1>3, <1>4, <1>5
<1>8. \A p \in Slots \ (U \ {c}) : j[p] = <<>>
  BY <1>1, <1>3
<1>9. \A p \in Slots : IsMem(n[p]) /\ n[p].eax \in Slots \cup Calls /\ Typed(n[p])
  BY <1>1, <1>5, <1>6
<1>10. n[IDLE].eax \in {0, SYS_HANDOUT}
  BY <1>1, <1>5, <1>6, SlotFacts
<1>11. Resumable(j, u, n, U \ {c}, NONE)
  <2>1. PICK V : V = U \ {c}
    OBVIOUS
  <2>2. V \subseteq Slots /\ IDLE \in V
    BY <1>1, <2>1
  <2>3. Resumable(j, u, n, V, NONE)
    BY <1>3, <1>4, <1>5, <1>7, <1>8, <1>9, <1>10, <2>1, <2>2 DEF Resumable
  <2>4. QED
    BY <2>1, <2>3
<1>12. QED
  BY <1>2, <1>11

(* copy_pcb: the son stands where its father stands.                       *)
LEMMA Joins ==
  ASSUME NEW k, NEW t, NEW m, NEW U, Resumable(k, t, m, U, NONE),
         NEW c \in U, NEW p \in Slots \ U,
         NEW x, IsMem(x), x.eax = m[c].eax, x.ebx = m[c].ebx, Typed(x), Owes(Inner(k[c], "prog"), x)
  PROVE  Resumable(Put(k, p, k[c]), Put(t, p, <<p, Len(k[c])>>), Put(m, p, x), U \cup {p}, NONE)
<1>1. /\ k = [q \in Slots |-> k[q]] /\ t = [q \in Slots |-> t[q]] /\ m = [q \in Slots |-> m[q]]
      /\ U \subseteq Slots /\ IDLE \in U /\ c \in Slots /\ c # p /\ p # IDLE /\ p \in Slots
      /\ \A q \in U : Saved(k[q]) /\ t[q] = <<q, Len(k[q])>> /\ HasRegs(Top(k[q]), m[q])
      /\ \A q \in Slots \ U : k[q] = <<>>
      /\ \A q \in Slots : IsMem(m[q]) /\ m[q].eax \in Slots \cup Calls /\ Typed(m[q])
      /\ m[IDLE].eax \in {0, SYS_HANDOUT}
      /\ \A q \in U : Owes(Inner(k[q], "prog"), m[q])
  BY SlotFacts DEF Resumable
<1>2. PICK j, u, n : j = Put(k, p, k[c]) /\ u = Put(t, p, <<p, Len(k[c])>>) /\ n = Put(m, p, x)
  OBVIOUS
<1>3. j = [q \in Slots |-> j[q]] /\ j[p] = k[c] /\ \A q \in Slots : q # p => j[q] = k[q]
  BY <1>1, <1>2, PutTwice
<1>4. u = [q \in Slots |-> u[q]] /\ u[p] = <<p, Len(k[c])>> /\ \A q \in Slots : q # p => u[q] = t[q]
  <2>1. PICK y : y = <<p, Len(k[c])>>
    OBVIOUS
  <2>2. u = Put(t, p, y)
    BY <1>2, <2>1, Zenon
  <2>3. u = [q \in Slots |-> u[q]] /\ u[p] = y /\ \A q \in Slots : q # p => u[q] = t[q]
    BY <1>1, <2>2, PutTwice
  <2>4. QED
    BY <2>1, <2>3
<1>5. n = [q \in Slots |-> n[q]] /\ n[p] = x /\ \A q \in Slots : q # p => n[q] = m[q]
  BY <1>1, <1>2, PutTwice
<1>6. HasRegs(Top(k[c]), x)
  BY <1>1 DEF HasRegs
<1>7. \A q \in U \cup {p} : /\ Saved(j[q]) /\ u[q] = <<q, Len(j[q])>> /\ HasRegs(Top(j[q]), n[q])
                             /\ Owes(Inner(j[q], "prog"), n[q])
  BY <1>1, <1>3, <1>4, <1>5, <1>6
<1>8. \A q \in Slots \ (U \cup {p}) : j[q] = <<>>
  BY <1>1, <1>3
<1>9. \A q \in Slots : IsMem(n[q]) /\ n[q].eax \in Slots \cup Calls /\ Typed(n[q])
  BY <1>1, <1>5
<1>10. n[IDLE].eax \in {0, SYS_HANDOUT}
  BY <1>1, <1>5
<1>11. U \cup {p} \subseteq Slots /\ IDLE \in U \cup {p}
  BY <1>1
<1>12. Resumable(j, u, n, U \cup {p}, NONE)
  BY <1>3, <1>4, <1>5, <1>7, <1>8, <1>9, <1>10, <1>11 DEF Resumable
<1>13. QED
  BY <1>2, <1>12

(* The first free slot of PCBPool.                                         *)
LEMMA SonIsFree ==
  ASSUME used \subseteq Slots, used # Slots
  PROVE  Son \in Slots \ used
<1>. DEFINE R == {ss \in Nat \X Nat : ss[1] < ss[2]}
<1>1. PICK S : S = Slots \ used
  OBVIOUS
<1>2. S \subseteq Nat /\ S # {}
  BY <1>1, SlotFacts
<1>3. IsWellFoundedOn(R, Nat)
  BY NatLessThanWellFounded DEF OpToRel
<1>4. \A x, y \in Nat : x < y => <<x, y>> \in R
  OBVIOUS
<1>. HIDE DEF R
<1>5. PICK p \in S : \A q \in S : ~(<<q, p>> \in R)
  BY <1>2, <1>3, WFMin
<1>6. ASSUME NEW q \in S PROVE p <= q
  <2>1. p \in Nat /\ q \in Nat /\ ~(q < p)
    BY <1>2, <1>4, <1>5, <1>6
  <2>2. QED
    BY <2>1
<1>7. QED
  BY <1>1, <1>6 DEF Son

-----------------------------------------------------------------------------
(* The steps.                                                              *)

(* A handler changes nothing of its program's registers.                   *)
LEMMA PlainHandlers ==
  ASSUME AfterMain, HandleTimer \/ HandleKey \/ HandleException \/ HandleHandout \/ HandleExecFails
  PROVE  AfterMain'
<1>1. cpu.at \in Stubs \cup Irqs /\ mem' = mem /\ used' = used
  BY DEF HandleTimer, HandleKey, HandleException, HandleHandout, HandleExecFails, Handling, Syscall, Stubs, Irqs
<1>2. PICK k, t : k = Pushed /\ t = HasTf
  OBVIOUS
<1>3. ~(cpu.at = "vecsys" /\ cpu.eax = SYS_PRINT_CHAR)
  BY DEF HandleTimer, HandleKey, HandleException, HandleHandout, HandleExecFails, Handling, Syscall,
         SYS_PRINT_CHAR, SYS_HANDOUT, SYS_EXEC
<1>4. Resumable(k, t, mem, used, NONE) /\ Len(k[current]) = Depth
  BY <1>3, <1>1, <1>2, PlainStacks
<1>5. do_scheduler(k, t, used)
  BY <1>2 DEF HandleTimer, HandleKey, HandleException, HandleHandout, HandleExecFails, do_scheduler
<1>6. PICK m, U : m = mem /\ U = used
  OBVIOUS
<1>7. QED
  BY <1>1, <1>4, <1>5, <1>6, Schedules DEF AfterMain

LEMMA MemFacts ==
  ASSUME AfterMain
  PROVE  /\ mem = [p \in Slots |-> mem[p]] /\ \A p \in Slots : IsMem(mem[p]) /\ mem[p].eax \in Slots \cup Calls
         /\ current \in Slots /\ current \in used /\ current # NONE /\ used \subseteq Slots
         /\ kst = [p \in Slots |-> kst[p]] /\ tf = [p \in Slots |-> tf[p]]
         /\ stk = current /\ esp0 = current /\ cr3 = current
         /\ cpu.eax = mem[current].eax /\ cpu.ebx = mem[current].ebx
BY SlotFacts DEF AfterMain, Resumable, HasRegs

(* Idle has never called anything but SYS_HANDOUT.                         *)
LEMMA NotIdle ==
  ASSUME AfterMain, NEW call \in Calls \ {SYS_HANDOUT}, Syscall(call)
  PROVE  current # IDLE
<1>1. call \notin {0, SYS_HANDOUT}
  BY DEF Calls, SYS_PRINT_CHAR, SYS_HANDOUT, SYS_PID, SYS_EXIT, SYS_FORK, SYS_THREAD, SYS_EXEC
<1>2. mem[current].eax = call
  BY MemFacts DEF Syscall
<1>3. mem[IDLE].eax \in {0, SYS_HANDOUT}
  BY DEF AfterMain, Resumable
<1>4. QED
  BY <1>1, <1>2, <1>3

(* said and text as sequences.                                             *)
LEMMA Moves ==
  ASSUME NEW s \in Seq(Codes), NEW t \in Seq(Codes), NEW a \in Codes
  PROVE  Append(s, a) \in Seq(Codes) /\ Append(s, a) \o t = s \o (<<a>> \o t)
OBVIOUS

LEMMA Takes ==
  ASSUME NEW t \in Seq(Codes), t # <<>>
  PROVE  Head(t) \in Codes /\ Tail(t) \in Seq(Codes) /\ <<Head(t)>> \o Tail(t) = t
<1>1. Head(t) \in Codes /\ Tail(t) \in Seq(Codes)
  OBVIOUS
<1>2. PICK u : u = <<Head(t)>> \o Tail(t)
  OBVIOUS
<1>3. u \in Seq(Codes) /\ Len(u) = Len(t)
  BY <1>1, <1>2
<1>4. \A i \in 1 .. Len(t) : u[i] = t[i]
  BY <1>1, <1>2
<1>5. u = t
  BY <1>3, <1>4, SeqEqual
<1>6. QED
  BY <1>1, <1>2, <1>5

LEMMA PrintHandler ==
  ASSUME AfterMain, HandlePrint
  PROVE  AfterMain'
<1>1. cpu.at = "vecsys" /\ cpu.eax = SYS_PRINT_CHAR /\ used' = used
  BY DEF HandlePrint, Syscall, Handling
<1>2. cpu.at \in Stubs
  BY <1>1 DEF Stubs
<1>3. PICK k, t : k = Pushed /\ t = HasTf
  OBVIOUS
<1>4. do_scheduler(k, t, used)
  BY <1>3 DEF HandlePrint, do_scheduler
<1>5. PICK n, U, y : n = mem' /\ U = used /\ y = mem[current]
  OBVIOUS
<1>6. PICK z : z = Append(y.said, y.ebx)
  OBVIOUS
<1>7. PICK x : x = MemOf(y.text, z, y.job, y.eax, y.ebx)
  OBVIOUS
<1>8. n = Put(mem, current, x)
  <2>1. n = SetSaid(mem, current, z)
    BY <1>6, <1>5, MemFacts DEF HandlePrint, SetSaid
  <2>2. QED
    BY <1>5, <1>7, <2>1, MemFacts, SetField DEF IsMem
<1>9. /\ IsMem(x) /\ x.eax = y.eax /\ x.ebx = y.ebx /\ x.text = y.text /\ x.job = y.job
      /\ x.said = z
  BY <1>7, Fields
<1>10. n = [p \in Slots |-> n[p]] /\ n[current] = x /\ \A p \in Slots : p # current => n[p] = mem[p]
  BY <1>8, MemFacts, PutTwice
<1>11. Len(kst[current]) = 1
  BY <1>2, StubHasFrame
<1>12. y.eax = SYS_PRINT_CHAR /\ Typed(y) /\ Owes("vecsys", y)
  <2>1. Inner(kst[current], cpu.at) = "vecsys"
    BY <1>1, <1>11 DEF Inner
  <2>2. Owes(Inner(kst[current], cpu.at), mem[current]) /\ Typed(mem[current])
    BY MemFacts DEF AfterMain, Resumable
  <2>3. QED
    BY <1>1, <1>5, <2>1, <2>2, MemFacts
<1>13. Typed(x) /\ Owes("prog", x)
  <2>1. ASSUME FormatsWell
        PROVE  /\ x.said \in Seq(Codes) /\ (x.job # 0 => x.said \o x.text = Whole[x.job])
    <3>1. y.said \in Seq(Codes) /\ y.text \in Seq(Codes)
      BY <1>12, <2>1 DEF Typed
    <3>2. y.ebx \in Codes /\ (y.job # 0 => y.said \o (<<y.ebx>> \o y.text) = Whole[y.job])
      BY <1>12, <2>1 DEF Owes
    <3>3. PICK e, f, g : e = y.said /\ f = y.text /\ g = y.ebx
      OBVIOUS
    <3>4. Append(e, g) \in Seq(Codes) /\ Append(e, g) \o f = e \o (<<g>> \o f)
      BY <3>1, <3>2, <3>3, Moves
    <3>5. x.said = Append(e, g) /\ x.text = f /\ x.job = y.job
      BY <1>6, <1>9, <3>3
    <3>6. y.job # 0 => e \o (<<g>> \o f) = Whole[y.job]
      BY <3>2, <3>3
    <3>7. QED
      BY <3>4, <3>5, <3>6, Zenon
  <2>2. QED
    BY <1>9, <1>12, <2>1 DEF Typed, Owes
<1>14. Inner(kst[current], "prog") = "prog" /\ HasRegs(mem[current], n[current])
  BY <1>5, <1>9, <1>10, <1>11 DEF Inner, HasRegs
<1>15. Resumable(k, t, n, U, NONE) /\ Len(k[current]) = Depth
  BY <1>2, <1>3, <1>5, <1>9, <1>10, <1>13, <1>14, PushedStacks
<1>16. QED
  BY <1>1, <1>4, <1>5, <1>15, MemFacts, Schedules

LEMMA ExecHandler ==
  ASSUME AfterMain, HandleExec
  PROVE  AfterMain'
<1>1. cpu.at \in Stubs /\ used' = used
  BY DEF HandleExec, Syscall, Handling, Stubs
<1>2. PICK k, t : k = Pushed /\ t = HasTf
  OBVIOUS
<1>3. do_scheduler(k, t, used)
  BY <1>2 DEF HandleExec, do_scheduler
<1>4. PICK n, U : n = mem' /\ U = used
  OBVIOUS
<1>5. PICK x : x = MemOf(<<>>, <<>>, 0, mem[current].eax, mem[current].ebx)
  OBVIOUS
<1>6. n = Put(mem, current, x)
  <2>1. n = Forget(mem, current, <<>>, <<>>, 0)
    BY <1>4 DEF HandleExec, Forget
  <2>2. QED
    BY <1>5, <2>1, MemFacts, SetOut DEF IsMem
<1>7. /\ IsMem(x) /\ x.eax = mem[current].eax /\ x.ebx = mem[current].ebx /\ x.job = 0
      /\ x.text = <<>> /\ x.said = <<>>
  BY <1>5, Fields
<1>8. n = [p \in Slots |-> n[p]] /\ n[current] = x /\ \A p \in Slots : p # current => n[p] = mem[p]
  BY <1>6, MemFacts, PutTwice
<1>9. 0 \in 0 .. Len(Prints) /\ <<>> \in Seq(Codes)
  BY TrapAssumption
<1>10. Typed(x) /\ Owes(Inner(kst[current], "prog"), x) /\ HasRegs(mem[current], x)
  <2>1. Len(kst[current]) = 1
    BY <1>1, StubHasFrame
  <2>2. Inner(kst[current], "prog") = "prog"
    BY <2>1 DEF Inner
  <2>3. Typed(x) /\ Owes("prog", x) /\ HasRegs(mem[current], x)
    BY <1>7, <1>9 DEF Typed, Owes, HasRegs
  <2>4. QED
    BY <2>2, <2>3
<1>11. Resumable(k, t, n, U, NONE) /\ Len(k[current]) = Depth
  BY <1>1, <1>2, <1>4, <1>7, <1>8, <1>10, PushedStacks
<1>12. QED
  BY <1>1, <1>3, <1>4, <1>11, MemFacts, Schedules

LEMMA PidHandler ==
  ASSUME AfterMain, HandlePid
  PROVE  AfterMain'
<1>1. cpu.at \in Stubs \cup Irqs /\ used' = used /\ Syscall(SYS_PID)
  BY DEF HandlePid, Syscall, Handling, Stubs
<1>2. PICK k, t, c, U : k = Pushed /\ t = HasTf /\ c = current /\ U = used
  OBVIOUS
<1>3. Resumable(k, t, mem, U, NONE) /\ Len(k[c]) = Depth /\ Len(k[c]) = 1
  BY <1>1, <1>2, PlainStacks DEF Syscall, Handling, Stubs, SYS_PID, SYS_PRINT_CHAR
<1>4. c \in U /\ c \in Slots /\ stk = c /\ k = [p \in Slots |-> k[p]]
  BY <1>2, <1>3, MemFacts DEF Resumable
<1>5. c # IDLE
  BY <1>1, <1>2, NotIdle DEF Calls, SYS_PID, SYS_HANDOUT
<1>6. PICK j, n : j = Put(k, c, TopEax(k[c], c)) /\ n = SetEax(mem, c, c)
  OBVIOUS
<1>7. Resumable(j, t, n, U, NONE) /\ Len(j[c]) = Depth
  BY <1>3, <1>4, <1>5, <1>6, Answers
<1>8. mem' = n
  BY <1>2, <1>6 DEF HandlePid, SetEax
<1>9. [k EXCEPT ![c][Depth].eax = c] = j
  BY <1>3, <1>4, <1>6, DeepEax DEF TopEax, Put
<1>10. do_scheduler(j, t, U)
  BY <1>2, <1>4, <1>9 DEF HandlePid
<1>11. QED
  BY <1>1, <1>2, <1>4, <1>7, <1>8, <1>10, Schedules

LEMMA Exits ==
  ASSUME AfterMain, current # IDLE, exit_current
  PROVE  AfterMain'
<1>1. PICK k, t, m, c, U : k = kst /\ t = tf /\ m = mem /\ c = current /\ U = used
  OBVIOUS
<1>2. c \in U /\ c # IDLE /\ Resumable(k, t, m, U, c) /\ stk = c
  BY <1>1 DEF AfterMain
<1>3. PICK j, u, n, V : j = Put(k, c, <<>>) /\ u = Put(t, c, <<c, 0>>) /\ n = Put(m, c, NoMem) /\ V = U \ {c}
  OBVIOUS
<1>4. Resumable(j, u, n, V, NONE)
  BY <1>2, <1>3, Leaves
<1>5. used' = V /\ mem' = n
  BY <1>1, <1>3 DEF exit_current, Put
<1>6. PICK q \in used' : scheduler_switch([kst EXCEPT ![stk] = <<>>], [tf EXCEPT ![current] = <<current, 0>>], q)
  BY DEF exit_current
<1>7. scheduler_switch(j, u, q)
  BY <1>1, <1>2, <1>3, <1>6 DEF Put
<1>8. PICK r : r = q
  OBVIOUS
<1>9. QED
  BY <1>4, <1>5, <1>7, <1>8, Resumes DEF scheduler_switch

LEMMA ForkHandler ==
  ASSUME AfterMain, HandleFork
  PROVE  AfterMain'
<1>1. PICK call \in {SYS_FORK, SYS_THREAD} : Syscall(call)
  BY DEF HandleFork
<1>2. cpu.at \in Stubs /\ cpu.eax = call /\ call # SYS_PRINT_CHAR
  BY <1>1 DEF Syscall, Handling, Stubs, SYS_FORK, SYS_THREAD, SYS_PRINT_CHAR
<1>3. current # IDLE
  BY <1>1, NotIdle DEF Calls, SYS_FORK, SYS_THREAD, SYS_HANDOUT
<1>4. PICK k, t, m, c, U, p : k = Pushed /\ t = HasTf /\ m = mem /\ c = current /\ U = used /\ p = Son
  OBVIOUS
<1>5. Resumable(k, t, m, U, NONE) /\ Len(k[c]) = Depth /\ Len(k[c]) = 1
  BY <1>2, <1>4, PlainStacks
<1>6. /\ c \in U /\ c \in Slots /\ stk = c /\ c # IDLE /\ U \subseteq Slots
      /\ k = [q \in Slots |-> k[q]] /\ t = [q \in Slots |-> t[q]] /\ m = [q \in Slots |-> m[q]]
      /\ IsMem(m[c]) /\ Typed(m[c])
  BY <1>3, <1>4, <1>5, MemFacts DEF Resumable
<1>7. p \in Slots \ U
  BY <1>4, <1>6, SonIsFree DEF HandleFork
<1>8. c # p /\ p # IDLE /\ IDLE \in U
  BY <1>5, <1>6, <1>7 DEF Resumable
<1>9. PICK x : x = IF cpu.eax = SYS_FORK THEN m[c] ELSE [m[c] EXCEPT !.text = <<>>, !.said = <<>>, !.job = 0]
  OBVIOUS
<1>10. \E y, z, i : /\ x = MemOf(y, z, i, m[c].eax, m[c].ebx) /\ Typed(x)
                    /\ Owes(Inner(k[c], "prog"), x)
  <2>1. CASE cpu.eax = SYS_FORK
    <3>1. Owes(Inner(k[c], "prog"), m[c])
      BY <1>5, <1>6, SlotFacts DEF Resumable
    <3>2. QED
      BY <1>6, <1>9, <2>1, <3>1 DEF IsMem
  <2>2. CASE cpu.eax # SYS_FORK
    <3>1. x = [m[c] EXCEPT !.text = <<>>, !.said = <<>>, !.job = 0]
      BY <1>9, <2>2
    <3>2. PICK g, a, b, e, f : g = m[c] /\ g = MemOf(e, f, g.job, a, b) /\ a = m[c].eax /\ b = m[c].ebx
      BY <1>6 DEF IsMem
    <3>3. x = MemOf(<<>>, <<>>, 0, a, b)
      BY <3>1, <3>2 DEF MemOf
    <3>4. 0 \in 0 .. Len(Prints) /\ <<>> \in Seq(Codes)
      BY TrapAssumption
    <3>5. x.job = 0 /\ x.text = <<>> /\ x.said = <<>>
      BY <3>3, Fields
    <3>6. Inner(k[c], "prog") = "prog"
      BY <1>5 DEF Inner
    <3>7. Typed(x) /\ Owes("prog", x)
      BY <3>4, <3>5 DEF Typed, Owes
    <3>8. QED
      BY <3>2, <3>3, <3>6, <3>7
  <2>3. QED
    BY <2>1, <2>2
<1>11. PICK y, z, i : /\ x = MemOf(y, z, i, m[c].eax, m[c].ebx) /\ Typed(x)
                      /\ Owes(Inner(k[c], "prog"), x)
  BY <1>10
<1>12. IsMem(x) /\ x.eax = m[c].eax /\ x.ebx = m[c].ebx
  BY <1>11, Fields
<1>13. PICK k1, t1, m1, V : /\ k1 = Put(k, p, k[c]) /\ t1 = Put(t, p, <<p, Len(k[c])>>) /\ m1 = Put(m, p, x)
                            /\ V = U \cup {p}
  OBVIOUS
<1>14. Resumable(k1, t1, m1, V, NONE)
  BY <1>5, <1>6, <1>7, <1>11, <1>12, <1>13, Joins
<1>15. /\ k1[c] = k[c] /\ k1[p] = k[c] /\ m1[c] = m[c] /\ m1[p] = x /\ c \in V /\ p \in V
       /\ k1 = [q \in Slots |-> k1[q]] /\ m1 = [q \in Slots |-> m1[q]]
  BY <1>6, <1>7, <1>8, <1>13, PutTwice
<1>16. PICK k2, m2 : k2 = Put(k1, c, TopEax(k1[c], p)) /\ m2 = SetEax(m1, c, p)
  OBVIOUS
<1>17. Resumable(k2, t1, m2, V, NONE) /\ Len(k2[c]) = Depth
  BY <1>5, <1>6, <1>7, <1>14, <1>15, <1>16, Answers
<1>18. k2 = [q \in Slots |-> k2[q]] /\ k2[p] = k[c] /\ \A q \in Slots : q # c => k2[q] = k1[q]
  BY <1>6, <1>7, <1>8, <1>15, <1>16, PutTwice
<1>19. PICK k3, m3 : k3 = Put(k2, p, TopEax(k2[p], 0)) /\ m3 = SetEax(m2, p, 0)
  OBVIOUS
<1>20. 0 \in Slots
  BY SlotFacts DEF IDLE
<1>21. Resumable(k3, t1, m3, V, NONE)
  BY <1>5, <1>7, <1>8, <1>15, <1>17, <1>18, <1>19, <1>20, Answers
<1>22. k3[c] = k2[c]
  BY <1>6, <1>7, <1>8, <1>18, <1>19, PutTwice
<1>23. used' = V
  BY <1>4, <1>13 DEF HandleFork
<1>24. mem' = m3
  <2>1. mem' = [m EXCEPT ![c].eax = p, ![p] = [x EXCEPT !.eax = 0]]
    BY <1>4, <1>9 DEF HandleFork
  <2>2. PICK o, g : o = MemOf(m[c].text, m[c].said, m[c].job, p, m[c].ebx) /\ g = MemOf(y, z, i, 0, m[c].ebx)
    OBVIOUS
  <2>3. [x EXCEPT !.eax = 0] = g
    BY <1>11, <2>2 DEF MemOf
  <2>4. SetEax(m, c, p) = Put(m, c, o)
    BY <1>6, <2>2, SetField DEF IsMem
  <2>5. mem' = Put(Put(m, c, o), p, g)
    BY <2>1, <2>3, <2>4 DEF Put, SetEax
  <2>6. m2 = Put(m1, c, o)
    BY <1>6, <1>15, <1>16, <2>2, SetField DEF IsMem
  <2>7. m2 = [q \in Slots |-> m2[q]] /\ m2[p] = x
    BY <1>6, <1>7, <1>8, <1>15, <2>6, PutTwice
  <2>8. m3 = Put(m2, p, g)
    BY <1>7, <1>11, <1>19, <2>2, <2>7, SetField
  <2>9. m3 = Put(Put(Put(m, p, x), c, o), p, g)
    BY <1>13, <2>6, <2>8
  <2>10. QED
    BY <1>6, <1>7, <1>8, <2>5, <2>9 DEF Put
<1>25. do_scheduler(k3, t1, V)
  <2>1. do_scheduler([[k EXCEPT ![p] = k[c]] EXCEPT ![c][Depth].eax = p, ![p][Depth].eax = 0], [t EXCEPT ![p] = <<p, Depth>>], V)
    BY <1>4, <1>6, <1>23 DEF HandleFork, SonTf
  <2>2. [t EXCEPT ![p] = <<p, Depth>>] = t1
    BY <1>5, <1>13 DEF Put
  <2>3. [k EXCEPT ![p] = k[c]] = k1
    BY <1>13 DEF Put
  <2>4. [k1 EXCEPT ![c][Depth].eax = p] = k2
    BY <1>5, <1>6, <1>15, <1>16, DeepEax DEF TopEax, Put
  <2>5. [k2 EXCEPT ![p][Depth].eax = 0] = k3
    BY <1>5, <1>7, <1>18, <1>19, DeepEax DEF TopEax, Put
  <2>6. [[k EXCEPT ![p] = k[c]] EXCEPT ![c][Depth].eax = p, ![p][Depth].eax = 0] = k3
    BY <2>3, <2>4, <2>5
  <2>7. QED
    BY <2>1, <2>2, <2>6
<1>26. QED
  BY <1>4, <1>15, <1>17, <1>21, <1>22, <1>23, <1>24, <1>25, Schedules

(* A gate is passed: the stack of the process that runs is the one that    *)
(* takes the frame.                                                        *)
LEMMA Entered ==
  ASSUME AfterMain, NEW v, NEW a, NEW b, Enter(v, a, b),
         \/ cpu.at = "prog" /\ v \in Stubs \cup Irqs
         \/ cpu.if /\ v \in Irqs
  PROVE  /\ Runnable(kst'[current], cpu') /\ stk' = current
         /\ kst' = [p \in Slots |-> kst'[p]] /\ \A p \in Slots : p # current => kst'[p] = kst[p]
         /\ cpu'.at = v /\ cpu'.eax = a /\ cpu'.ebx = b
         /\ Inner(kst'[current], v) = IF cpu.at = "prog" THEN v ELSE Inner(kst[current], cpu.at)
<1>. DEFINE half == [cpu EXCEPT !.eax = 0, !.ebx = 0]
<1>1. current \in Slots /\ stk = current /\ esp0 = current /\ kst = [p \in Slots |-> kst[p]]
  BY MemFacts
<1>2. PICK w : w = (cpu.if /\ Gate(v) = "trap")
  OBVIOUS
<1>3. cpu' = State(v, w, a, b)
  BY <1>2, Zenon DEF Enter, State
<1>4. cpu'.at = v /\ cpu'.eax = a /\ cpu'.ebx = b
  BY <1>3 DEF State
<1>5. stk' = current
  BY <1>1 DEF Enter
<1>6. kst' = [p \in Slots |-> kst'[p]] /\ \A p \in Slots : p # current => kst'[p] = kst[p]
  BY <1>1 DEF Enter
<1>7. v \in Irqs => Gate(v) = "interrupt"
  BY DEF Irqs, Gate
<1>8. v \in Stubs => Gate(v) = "trap"
  BY DEF Stubs, Gate
<1>9. half = Regs(cpu, 0, 0)
  BY DEF Regs
<1>. HIDE DEF half
<1>10. CASE Prog(cpu) /\ kst[current] = <<>>
  <2>1. kst'[current] = <<half>>
    <3>1. kst'[current] = IF Ring3 THEN <<half>> ELSE Append(kst[current], half)
      BY <1>1 DEF Enter, half
    <3>2. QED
      BY <1>10, <3>1, Short
  <2>2. half = State("prog", TRUE, 0, 0)
    <3>1. PICK t, x, y : t = TRUE /\ x = cpu.eax /\ y = cpu.ebx
      OBVIOUS
    <3>2. cpu = State("prog", t, x, y)
      BY <1>10, <3>1, Zenon DEF Prog
    <3>3. half = State("prog", t, 0, 0)
      BY <1>9, <3>2, SetBoth
    <3>4. QED
      BY <3>1, <3>3, Zenon
  <2>3. Prog(half)
    BY <2>2 DEF Prog, State
  <2>4. cpu.if = TRUE /\ cpu.at = "prog"
    BY <1>10 DEF Prog, State
  <2>5. Inner(kst'[current], v) = v
    BY <2>1, Short DEF Inner
  <2>6. CASE v \in Stubs
    <3>1. w = TRUE
      BY <1>2, <1>8, <2>4, <2>6
    <3>2. Stub(cpu')
      BY <1>3, <1>4, <2>6, <3>1 DEF Stub
    <3>3. QED
      BY <1>4, <1>5, <1>6, <2>1, <2>3, <2>4, <2>5, <3>2 DEF Runnable
  <2>7. CASE v \in Irqs
    <3>1. w = FALSE
      BY <1>2, <1>7, <2>7
    <3>2. cpu' = State(cpu'.at, FALSE, cpu'.eax, cpu'.ebx)
      BY <1>3, <1>4, <3>1
    <3>3. Saved(<<half>>) /\ <<half>> # <<>>
      BY <2>3, Short DEF Saved
    <3>4. QED
      BY <1>4, <1>5, <1>6, <2>1, <2>4, <2>7, <2>5, <3>2, <3>3 DEF Runnable
  <2>8. v \in Stubs \cup Irqs
    OBVIOUS
  <2>9. QED
    BY <2>6, <2>7, <2>8
<1>11. CASE Stub(cpu) /\ \E f : Prog(f) /\ kst[current] = <<f>>
  <2>1. PICK f : Prog(f) /\ kst[current] = <<f>>
    BY <1>11
  <2>2. cpu.at # "prog" /\ cpu.at \in Stubs
    BY <1>11 DEF Stub, Stubs
  <2>3. v \in Irqs
    BY <2>2
  <2>4. kst'[current] = <<f, half>>
    <3>1. kst'[current] = IF Ring3 THEN <<half>> ELSE Append(kst[current], half)
      BY <1>1 DEF Enter, half
    <3>2. ~Ring3
      BY <2>2 DEF Ring3
    <3>3. QED
      BY <2>1, <3>1, <3>2, Short
  <2>5. half = State(cpu.at, TRUE, 0, 0)
    <3>1. PICK s, t, x, y : s = cpu.at /\ t = TRUE /\ x = cpu.eax /\ y = cpu.ebx
      OBVIOUS
    <3>2. cpu = State(s, t, x, y)
      BY <1>11, <3>1, Zenon DEF Stub
    <3>3. half = State(s, t, 0, 0)
      BY <1>9, <3>2, SetBoth
    <3>4. QED
      BY <3>1, <3>3, Zenon
  <2>6. Stub(half) /\ half.at = cpu.at
    BY <2>2, <2>5 DEF Stub, State
  <2>7. w = FALSE
    BY <1>2, <1>7, <2>3
  <2>8. cpu' = State(cpu'.at, FALSE, cpu'.eax, cpu'.ebx)
    BY <1>3, <1>4, <2>7
  <2>9. Saved(<<f, half>>) /\ <<f, half>> # <<>>
    BY <2>1, <2>6, Short DEF Saved
  <2>10. Inner(kst'[current], v) = cpu.at /\ Inner(kst[current], cpu.at) = cpu.at
    BY <2>1, <2>4, <2>6, Short DEF Inner
  <2>11. QED
    BY <1>4, <1>5, <1>6, <2>2, <2>3, <2>4, <2>8, <2>9, <2>10 DEF Runnable
<1>12. CASE cpu = State(cpu.at, FALSE, cpu.eax, cpu.ebx) /\ cpu.at \in Irqs \cup {"lost"}
  <2>1. cpu.if = FALSE
    BY <1>12 DEF State
  <2>2. cpu.at # "prog"
    BY <1>12 DEF Irqs
  <2>3. QED
    BY <2>1, <2>2
<1>13. QED
  BY <1>10, <1>11, <1>12 DEF AfterMain, Runnable

(* The program goes on with the registers it had.                          *)
LEMMA Interrupts ==
  ASSUME AfterMain,
         (\E v \in {"vec0", "vec13"} : Exception(v)) \/ (\E v \in {"irq0", "irq1"} : Interrupt(v))
  PROVE  AfterMain'
<1>1. PICK v : /\ v \in Stubs \cup Irqs /\ Enter(v, cpu.eax, cpu.ebx) /\ v # "vecsys"
               /\ (cpu.at = "prog" \/ (cpu.if /\ v \in Irqs))
               /\ UNCHANGED <<current, used, tf, esp0, cr3, mem>>
  BY DEF Exception, Interrupt, Running, Stubs, Irqs
<1>2. /\ Runnable(kst'[current], cpu') /\ stk' = current
      /\ kst' = [p \in Slots |-> kst'[p]] /\ \A p \in Slots : p # current => kst'[p] = kst[p]
      /\ cpu'.at = v /\ cpu'.eax = cpu.eax /\ cpu'.ebx = cpu.ebx
      /\ Inner(kst'[current], v) = IF cpu.at = "prog" THEN v ELSE Inner(kst[current], cpu.at)
  BY <1>1, Entered
<1>3. cpu'.at # "main"
  BY <1>1, <1>2 DEF Stubs, Irqs
<1>4. HasRegs(cpu', mem[current])
  BY <1>2, MemFacts DEF HasRegs
<1>5. PICK k, t, m, c, U : k = kst /\ t = tf /\ m = mem /\ c = current /\ U = used
  OBVIOUS
<1>6. Resumable(k, t, m, U, c) /\ c \in U /\ c \in Slots
  BY <1>5, MemFacts DEF AfterMain
<1>7. Resumable(kst', t, m, U, c)
  <2>1. U \subseteq Slots /\ \A p \in U \ {c} : Owes(Inner(k[p], "prog"), m[p])
    BY <1>6 DEF Resumable
  <2>2. \A p \in U \ {c} : Owes(Inner(kst'[p], "prog"), m[p])
    BY <1>2, <1>5, <2>1
  <2>3. QED
    BY <1>2, <1>5, <1>6, <2>2 DEF Resumable
<1>8. Owes(Inner(kst'[current], cpu'.at), mem[current])
  <2>1. Owes(Inner(kst[current], cpu.at), mem[current])
    BY DEF AfterMain
  <2>2. CASE cpu.at = "prog"
    <3>1. kst[current] = <<>>
      BY <2>2 DEF AfterMain, Runnable, Stub, Stubs, Irqs
    <3>2. Inner(kst[current], cpu.at) = "prog"
      BY <2>2, <3>1, Short DEF Inner
    <3>3. Owes(v, mem[current])
      BY <1>1, <2>1, <3>2 DEF Owes
    <3>4. QED
      BY <1>2, <2>2, <3>3
  <2>3. CASE cpu.at # "prog"
    BY <1>2, <2>1, <2>3
  <2>4. QED
    BY <2>2, <2>3
<1>9. QED
  BY <1>1, <1>2, <1>3, <1>4, <1>5, <1>7, <1>8, MemFacts DEF AfterMain

LEMMA SystemCall ==
  ASSUME AfterMain, NEW call \in Calls, Int80(call)
  PROVE  AfterMain'
<1>. DEFINE arg  == IF call = SYS_PRINT_CHAR THEN Head(mem[current].text) ELSE 0
            rest == IF call = SYS_PRINT_CHAR THEN Tail(mem[current].text) ELSE mem[current].text
<1>1. /\ Enter("vecsys", call, arg) /\ cpu.at = "prog" /\ (current = IDLE => call = SYS_HANDOUT)
      /\ call = SYS_PRINT_CHAR => mem[current].text # <<>>
      /\ UNCHANGED <<current, used, tf, esp0, cr3>>
  BY DEF Int80, Running
<1>2. /\ call = SYS_PRINT_CHAR => arg = Head(mem[current].text) /\ rest = Tail(mem[current].text)
      /\ call # SYS_PRINT_CHAR => rest = mem[current].text
  OBVIOUS
<1>3. mem' = Called(mem, current, call, arg, rest)
  <2>1. PICK d : d = [mem EXCEPT ![current].eax = call, ![current].ebx = arg]
    OBVIOUS
  <2>2. d = Put(mem, current, MemOf(mem[current].text, mem[current].said, mem[current].job, call, arg))
    <3>1. PICK e : e = Put(mem, current, MemOf(mem[current].text, mem[current].said, mem[current].job, call, mem[current].ebx))
      OBVIOUS
    <3>2. SetEax(mem, current, call) = e
      BY <3>1, MemFacts, SetField DEF IsMem
    <3>3. /\ e = [p \in Slots |-> e[p]] /\ \A y : Put(e, current, y) = Put(mem, current, y)
          /\ e[current] = MemOf(mem[current].text, mem[current].said, mem[current].job, call, mem[current].ebx)
      BY <3>1, MemFacts, PutTwice
    <3>4. SetEbx(e, current, arg) = Put(mem, current, MemOf(mem[current].text, mem[current].said, mem[current].job, call, arg))
      BY <3>3, MemFacts, SetField
    <3>5. d = SetEbx(SetEax(mem, current, call), current, arg)
      BY <2>1, Zenon DEF SetEbx, SetEax
    <3>6. QED
      BY <3>2, <3>4, <3>5
  <2>3. d[current] = MemOf(mem[current].text, mem[current].said, mem[current].job, call, arg)
    BY <2>2, MemFacts, PutTwice
  <2>4. d[current].text = mem[current].text
    BY <2>3, Fields
  <2>5. mem' = [d EXCEPT ![current].text = IF call = SYS_PRINT_CHAR THEN Tail(d[current].text) ELSE d[current].text]
    BY <2>1 DEF Int80
  <2>6. mem' = [d EXCEPT ![current].text = rest]
    BY <2>4, <2>5
  <2>7. QED
    BY <2>1, <2>6, Zenon DEF Called
<1>. HIDE DEF arg, rest
<1>4. /\ Runnable(kst'[current], cpu') /\ stk' = current
      /\ kst' = [p \in Slots |-> kst'[p]] /\ \A p \in Slots : p # current => kst'[p] = kst[p]
      /\ cpu'.at = "vecsys" /\ cpu'.eax = call /\ cpu'.ebx = arg
      /\ Inner(kst'[current], "vecsys") = "vecsys"
  BY <1>1, Entered DEF Stubs
<1>5. PICK n, x : x = MemOf(rest, mem[current].said, mem[current].job, call, arg) /\ n = mem'
  OBVIOUS
<1>6. n = Put(mem, current, x)
  BY <1>3, <1>5, MemFacts, SetCall DEF IsMem
<1>7. n = [p \in Slots |-> n[p]] /\ n[current] = x /\ \A p \in Slots : p # current => n[p] = mem[p]
  BY <1>6, MemFacts, PutTwice
<1>8. /\ IsMem(x) /\ x.eax = call /\ x.ebx = arg
      /\ x.text = rest /\ x.said = mem[current].said /\ x.job = mem[current].job
  BY <1>5, Fields
<1>9. Typed(x) /\ Owes("vecsys", x)
  <2>1. PICK y : y = mem[current]
    OBVIOUS
  <2>2. Owes(Inner(kst[current], cpu.at), y) /\ Typed(y) /\ kst[current] = <<>>
    BY <1>1, <2>1, MemFacts DEF AfterMain, Resumable, Runnable, Stub, Stubs, Irqs
  <2>3. Owes("prog", y)
    BY <1>1, <2>2, Short DEF Inner
  <2>4. CASE call # SYS_PRINT_CHAR
    BY <1>2, <1>8, <2>1, <2>2, <2>3, <2>4 DEF Typed, Owes
  <2>5. CASE call = SYS_PRINT_CHAR
    <3>1. x.text = Tail(y.text) /\ x.ebx = Head(y.text) /\ y.text # <<>> /\ x.said = y.said /\ x.job = y.job
      BY <1>2, <1>1, <1>8, <2>1, <2>5
    <3>2. ASSUME FormatsWell
          PROVE  /\ x.text \in Seq(Codes) /\ x.said \in Seq(Codes) /\ x.ebx \in Codes
                 /\ x.job # 0 => x.said \o (<<x.ebx>> \o x.text) = Whole[x.job]
      <4>1. y.text \in Seq(Codes) /\ y.said \in Seq(Codes)
        BY <2>2, <3>2 DEF Typed
      <4>2. x.ebx \in Codes /\ x.text \in Seq(Codes) /\ <<x.ebx>> \o x.text = y.text
        BY <3>1, <4>1, Takes
      <4>3. y.job # 0 => y.said \o y.text = Whole[y.job]
        BY <2>3, <3>2 DEF Owes
      <4>4. QED
        BY <3>1, <4>1, <4>2, <4>3
    <3>3. QED
      BY <2>2, <3>1, <3>2, <1>8, <2>5 DEF Typed, Owes
  <2>6. QED
    BY <2>4, <2>5
<1>10. HasRegs(cpu', n[current])
  BY <1>4, <1>7, <1>8 DEF HasRegs
<1>11. PICK k, t, m, c, U : k = kst /\ t = tf /\ m = mem /\ c = current /\ U = used
  OBVIOUS
<1>12. Resumable(k, t, m, U, c) /\ c \in U /\ c \in Slots
  BY <1>11, MemFacts DEF AfterMain
<1>13. \A p \in Slots : IsMem(n[p]) /\ n[p].eax \in Slots \cup Calls /\ Typed(n[p])
  <2>1. \A p \in Slots : IsMem(mem[p]) /\ mem[p].eax \in Slots \cup Calls /\ Typed(mem[p])
    BY DEF AfterMain, Resumable
  <2>2. QED
    BY <1>7, <1>8, <1>9, <2>1
<1>14. n[IDLE].eax \in {0, SYS_HANDOUT}
  <2>1. mem[IDLE].eax \in {0, SYS_HANDOUT}
    BY DEF AfterMain, Resumable
  <2>2. QED
    BY <1>1, <1>7, <1>8, <2>1, SlotFacts
<1>15. U \subseteq Slots /\ \A p \in U \ {c} : /\ Saved(k[p]) /\ t[p] = <<p, Len(k[p])>> /\ HasRegs(Top(k[p]), m[p])
                                              /\ Owes(Inner(k[p], "prog"), m[p])
  BY <1>12 DEF Resumable
<1>16. \A p \in U \ {c} : /\ Saved(kst'[p]) /\ t[p] = <<p, Len(kst'[p])>> /\ HasRegs(Top(kst'[p]), n[p])
                           /\ Owes(Inner(kst'[p], "prog"), n[p])
  BY <1>4, <1>7, <1>11, <1>15
<1>17. Resumable(kst', t, n, U, c)
  BY <1>4, <1>7, <1>11, <1>12, <1>13, <1>14, <1>16 DEF Resumable
<1>18. Owes(Inner(kst'[current], cpu'.at), n[current])
  BY <1>4, <1>7, <1>9
<1>19. QED
  BY <1>1, <1>4, <1>5, <1>10, <1>11, <1>17, <1>18, MemFacts DEF AfterMain

LEMMA PrintfBegins ==
  ASSUME AfterMain, NEW i \in DOMAIN Prints, printf(i)
  PROVE  AfterMain'
<1>1. cpu.at = "prog" /\ UNCHANGED <<cpu, current, used, kst, stk, tf, esp0, cr3>>
  BY DEF printf, Running
<1>2. PICK n, w, x : /\ n = mem' /\ w = vfprintf(Ctl(Prints[i]), Args(Prints[i]))
                     /\ x = MemOf(w, <<>>, i, mem[current].eax, mem[current].ebx)
  OBVIOUS
<1>3. n = Put(mem, current, x)
  <2>1. n = Begin(mem, current, w, <<>>, i)
    BY <1>2 DEF printf, Begin
  <2>2. QED
    BY <1>2, <2>1, MemFacts, SetOut DEF IsMem
<1>4. /\ IsMem(x) /\ x.eax = mem[current].eax /\ x.ebx = mem[current].ebx /\ x.job = i
      /\ x.text = w /\ x.said = <<>>
  BY <1>2, Fields
<1>5. n = [p \in Slots |-> n[p]] /\ n[current] = x /\ \A p \in Slots : p # current => n[p] = mem[p]
  BY <1>3, MemFacts, PutTwice
<1>6. i \in 0 .. Len(Prints)
  BY TrapAssumption
<1>7. Typed(x) /\ Owes("prog", x)
  <2>1. ASSUME FormatsWell
        PROVE  w \in Seq(Codes) /\ <<>> \in Seq(Codes) /\ <<>> \o w = Whole[i]
    <3>1. w = Whole[i] /\ w \in Seq(Codes)
      BY <1>2, <2>1 DEF FormatsWell
    <3>2. QED
      BY <3>1
  <2>2. QED
    BY <1>4, <1>6, <2>1 DEF Typed, Owes
<1>8. PICK k, t, m, c, U : k = kst /\ t = tf /\ m = mem /\ c = current /\ U = used
  OBVIOUS
<1>9. Resumable(k, t, m, U, c) /\ c \in U /\ c \in Slots /\ HasRegs(cpu, m[c]) /\ Runnable(k[c], cpu)
  BY <1>8, MemFacts DEF AfterMain
<1>10. U \subseteq Slots /\ \A p \in U \ {c} : /\ Saved(k[p]) /\ t[p] = <<p, Len(k[p])>> /\ HasRegs(Top(k[p]), m[p])
                                              /\ Owes(Inner(k[p], "prog"), m[p])
  BY <1>9 DEF Resumable
<1>11. \A p \in U \ {c} : /\ Saved(k[p]) /\ t[p] = <<p, Len(k[p])>> /\ HasRegs(Top(k[p]), n[p])
                           /\ Owes(Inner(k[p], "prog"), n[p])
  BY <1>5, <1>8, <1>10
<1>12. \A p \in Slots : IsMem(m[p]) /\ m[p].eax \in Slots \cup Calls /\ Typed(m[p])
  BY <1>9 DEF Resumable
<1>13. \A p \in Slots : IsMem(n[p]) /\ n[p].eax = m[p].eax /\ Typed(n[p])
  BY <1>4, <1>5, <1>7, <1>8, <1>12
<1>14. Resumable(k, t, n, U, c)
  BY <1>5, <1>9, <1>11, <1>12, <1>13, SlotFacts DEF Resumable
<1>15. HasRegs(cpu, n[c])
  BY <1>4, <1>5, <1>8, <1>9 DEF HasRegs
<1>16. Owes(Inner(k[c], cpu.at), n[c])
  <2>1. k[c] = <<>>
    BY <1>1, <1>9 DEF Runnable, Stub, Stubs, Irqs
  <2>2. Inner(k[c], cpu.at) = "prog"
    BY <1>1, <2>1, Short DEF Inner
  <2>3. QED
    BY <1>5, <1>7, <1>8, <2>2
<1>17. QED
  BY <1>1, <1>2, <1>8, <1>9, <1>14, <1>15, <1>16 DEF AfterMain

LEMMA Loses ==
  ASSUME AfterMain, HandleErrorCode
  PROVE  AfterMain'
<1>1. cpu.at = "vec13" /\ cpu' = [cpu EXCEPT !.at = "lost", !.if = FALSE]
      /\ UNCHANGED <<current, used, kst, stk, tf, esp0, cr3, mem>>
  BY DEF HandleErrorCode, Handling
<1>2. cpu.at \in Stubs
  BY <1>1 DEF Stubs
<1>3. /\ Saved(kst[current]) /\ kst[current] # <<>> /\ Len(kst[current]) = 1
  BY <1>2, StubHasFrame
<1>4. Stub(cpu)
  BY <1>1 DEF AfterMain, Runnable, Prog, State, Irqs
<1>5. PICK t, f, x, y : t = TRUE /\ f = FALSE /\ x = cpu.eax /\ y = cpu.ebx
  OBVIOUS
<1>6. cpu = State("vec13", t, x, y)
  BY <1>1, <1>4, <1>5, Zenon DEF Stub
<1>7. PICK e : e = [cpu EXCEPT !.at = "lost"]
  OBVIOUS
<1>8. e = State("lost", t, x, y)
  BY <1>6, <1>7 DEF State
<1>9. cpu' = [e EXCEPT !.if = f]
  BY <1>1, <1>5, <1>7, Zenon
<1>10. cpu' = State("lost", f, x, y)
  BY <1>8, <1>9 DEF State
<1>11. cpu'.at = "lost" /\ cpu'.eax = x /\ cpu'.ebx = y
  BY <1>10 DEF State
<1>12. cpu' = State(cpu'.at, FALSE, cpu'.eax, cpu'.ebx)
  BY <1>5, <1>10, <1>11
<1>13. Runnable(kst[current], cpu')
  BY <1>3, <1>11, <1>12 DEF Runnable
<1>14. HasRegs(cpu', mem[current])
  BY <1>5, <1>11, MemFacts DEF HasRegs
<1>15. Owes(Inner(kst[current], cpu'.at), mem[current])
  <2>1. Inner(kst[current], cpu.at) = "vec13" /\ Inner(kst[current], cpu'.at) = "lost"
    BY <1>1, <1>3, <1>11 DEF Inner
  <2>2. Owes("vec13", mem[current])
    BY <2>1 DEF AfterMain
  <2>3. Owes("lost", mem[current])
    BY <2>2 DEF Owes
  <2>4. QED
    BY <2>1, <2>3
<1>16. QED
  BY <1>1, <1>11, <1>13, <1>14, <1>15 DEF AfterMain

LEMMA Begins ==
  ASSUME Init
  PROVE  InMain
<1>1. PICK k, t, m, U : k = kst /\ t = tf /\ m = mem /\ U = used
  OBVIOUS
<1>2. U = {IDLE, SHELL} /\ U \subseteq Slots /\ IDLE \in U /\ IDLE # SHELL /\ 0 \in Slots
  BY <1>1, SlotFacts DEF Init, IDLE
<1>3. Prog(Start) /\ Start.eax = 0 /\ Start.ebx = 0
  BY DEF Prog, Start, State
<1>4. /\ k = [p \in Slots |-> k[p]] /\ k[IDLE] = <<Start>> /\ k[SHELL] = <<>>
      /\ \A p \in Slots \ U : k[p] = <<>>
  BY <1>1, <1>2, SlotFacts DEF Init
<1>5. t = [p \in Slots |-> t[p]] /\ t[IDLE] = <<IDLE, 1>> /\ t[SHELL] = <<SHELL, 0>>
  BY <1>1, <1>2, SlotFacts DEF Init
<1>6. m = [p \in Slots |-> m[p]] /\ \A p \in Slots : m[p] = NoMem
  BY <1>1 DEF Init
<1>7. \A p \in U : Saved(k[p]) /\ t[p] = <<p, Len(k[p])>> /\ HasRegs(Top(k[p]), m[p])
  <2>1. Saved(k[IDLE]) /\ Len(k[IDLE]) = 1 /\ Top(k[IDLE]) = Start
    BY <1>3, <1>4, Short DEF Saved, Top
  <2>2. Saved(k[SHELL]) /\ Len(k[SHELL]) = 0 /\ Top(k[SHELL]) = Start
    BY <1>4, Short DEF Saved, Top
  <2>3. HasRegs(Start, NoMem)
    BY <1>3, NoMemFacts DEF HasRegs
  <2>4. \A p \in U : m[p] = NoMem
    BY <1>2, <1>6
  <2>5. QED
    BY <1>2, <1>5, <2>1, <2>2, <2>3, <2>4
<1>8. \A p \in U : Owes(Inner(k[p], "prog"), m[p])
  <2>1. Len(k[IDLE]) = 1 /\ Len(k[SHELL]) = 0
    BY <1>4, Short
  <2>2. Inner(k[IDLE], "prog") = "prog" /\ Inner(k[SHELL], "prog") = "prog"
    BY <2>1 DEF Inner
  <2>3. Owes("prog", NoMem)
    BY NoMemFacts DEF Owes
  <2>4. QED
    BY <1>2, <1>6, <2>2, <2>3
<1>9. \A p \in Slots : IsMem(m[p]) /\ m[p].eax \in Slots \cup Calls /\ Typed(m[p])
  BY <1>2, <1>6, NoMemFacts
<1>10. m[IDLE].eax \in {0, SYS_HANDOUT}
  BY <1>6, NoMemFacts, SlotFacts
<1>11. Resumable(k, t, m, U, NONE)
  BY <1>2, <1>4, <1>5, <1>6, <1>7, <1>8, <1>9, <1>10 DEF Resumable
<1>12. cpu.at = "main" /\ cpu.if = FALSE
  BY DEF Init, Start
<1>13. QED
  BY <1>1, <1>2, <1>11, <1>12 DEF Init, InMain

LEMMA Switches ==
  ASSUME InMain, FirstSwitch
  PROVE  AfterMain'
<1>1. PICK k, t, m, U, q : k = kst /\ t = tf /\ m = mem /\ U = used /\ q = SHELL
  OBVIOUS
<1>2. Resumable(k, t, m, U, NONE) /\ q \in U
  BY <1>1 DEF InMain
<1>3. /\ current' = q /\ cr3' = q /\ esp0' = q /\ Iret(k, t[q]) /\ tf' = t /\ mem' = m /\ used' = U
  BY <1>1 DEF FirstSwitch, scheduler_switch
<1>4. QED
  BY <1>2, <1>3, Resumes

LEMMA TrapStep ==
  ASSUME TrapIInv, [Next]_vars
  PROVE  TrapIInv'
<1>1. CASE UNCHANGED vars
  <2>1. CASE InMain
    BY <1>1, <2>1 DEF vars, InMain, TrapIInv
  <2>2. CASE AfterMain
    BY <1>1, <2>2 DEF vars, AfterMain, TrapIInv
  <2>3. QED
    BY <2>1, <2>2 DEF TrapIInv
<1>2. CASE InMain /\ Next
  <2>1. current = NONE /\ cpu.at = "main" /\ cpu.if = FALSE
    BY <1>2 DEF InMain
  <2>2. ~Running /\ \A v : ~Handling(v)
    BY <2>1 DEF Running, Handling
  <2>3. ~Handle
    BY <2>2 DEF Handle, HandleTimer, HandleKey, HandleCtrlC, HandleException, HandleErrorCode, HandlePrint,
       HandlePid, HandleHandout, HandleExit, HandleFork, HandleExec, HandleExecFails, Syscall
  <2>4. \A i : ~printf(i)
    BY <2>2 DEF printf
  <2>5. \A c : ~Int80(c)
    BY <2>2 DEF Int80
  <2>6. \A v : ~Exception(v)
    BY <2>2 DEF Exception
  <2>7. \A v : ~Interrupt(v)
    BY <2>1 DEF Interrupt
  <2>8. ~Lost
    BY <2>1 DEF Lost
  <2>9. FirstSwitch
    BY <1>2, <2>3, <2>4, <2>5, <2>6, <2>7, <2>8 DEF Next
  <2>10. QED
    BY <1>2, <2>9, Switches DEF TrapIInv
<1>3. CASE AfterMain /\ Next
  <2>. SUFFICES AfterMain'
    BY DEF TrapIInv
  <2>1. ~FirstSwitch
    BY <1>3 DEF FirstSwitch, AfterMain
  <2>2. ASSUME NEW i \in DOMAIN Prints, printf(i) PROVE AfterMain'
    BY <1>3, <2>2, PrintfBegins
  <2>3. ASSUME NEW call \in Calls, Int80(call) PROVE AfterMain'
    BY <1>3, <2>3, SystemCall
  <2>4. CASE (\E v \in {"vec0", "vec13"} : Exception(v)) \/ (\E v \in {"irq0", "irq1"} : Interrupt(v))
    BY <1>3, <2>4, Interrupts
  <2>5. CASE HandleTimer \/ HandleKey \/ HandleException \/ HandleHandout \/ HandleExecFails
    BY <1>3, <2>5, PlainHandlers
  <2>6. CASE HandleCtrlC
    BY <1>3, <2>6, Exits DEF HandleCtrlC
  <2>7. CASE HandleErrorCode
    BY <1>3, <2>7, Loses
  <2>8. CASE HandlePrint
    BY <1>3, <2>8, PrintHandler
  <2>9. CASE HandlePid
    BY <1>3, <2>9, PidHandler
  <2>10. CASE HandleExit
    <3>1. Syscall(SYS_EXIT) /\ exit_current /\ SYS_EXIT \in Calls \ {SYS_HANDOUT}
      BY <2>10 DEF HandleExit, Calls, SYS_EXIT, SYS_HANDOUT
    <3>2. QED
      BY <1>3, <3>1, NotIdle, Exits
  <2>11. CASE HandleFork
    BY <1>3, <2>11, ForkHandler
  <2>12. CASE HandleExec
    BY <1>3, <2>12, ExecHandler
  <2>13. CASE Lost
    BY <1>3, <2>13 DEF Lost, vars, AfterMain
  <2>14. CASE Handle
    BY <2>5, <2>6, <2>7, <2>8, <2>9, <2>10, <2>11, <2>12, <2>14 DEF Handle
  <2>15. QED
    BY <1>3, <2>1, <2>2, <2>3, <2>4, <2>13, <2>14 DEF Next
<1>4. QED
  BY <1>1, <1>2, <1>3 DEF TrapIInv

-----------------------------------------------------------------------------
(* Boot: what a step finds follows from which step it is, and the machine  *)
(* is in main until the last one is done.                                  *)
Done(i) == IF BootOrder[i] = "boot_map_region" THEN "video" ELSE BootOrder[i]

BootIInv ==
  /\ step \in 1 .. 15
  /\ pgdir = IF step = 1 THEN "off" ELSE IF step <= 5 THEN "entry" ELSE "kern"
  /\ \A i \in 1 .. step - 1 : Done(i) \in inits
  /\ Booting => InMain
  /\ TrapIInv

LEMMA DivMod ==
  ASSUME NEW e \in Nat \ {0}, NEW q \in Nat, NEW t \in 0 .. e - 1
  PROVE  (e * q + t) \div e = q /\ (e * q + t) % e = t
OBVIOUS

LEMMA Quot ==
  ASSUME NEW e \in Nat \ {0}, NEW f \in Nat
  PROVE  f \div e \in Nat /\ f % e \in 0 .. e - 1 /\ f = e * (f \div e) + (f % e)
OBVIOUS

LEMMA Below ==
  ASSUME NEW e \in Nat \ {0}, NEW q \in Nat, NEW r \in Nat, NEW t \in 0 .. e - 1, e * r + t < e * q
  PROVE  r < q
OBVIOUS

LEMMA Order ==
  /\ Len(BootOrder) = 14
  /\ BootOrder[1] = "entry" /\ BootOrder[2] = "paging" /\ BootOrder[3] = "relocated"
  /\ BootOrder[4] = "init_kern_pgdir" /\ BootOrder[5] = "lcr3" /\ BootOrder[6] = "page_init"
  /\ BootOrder[7] = "boot_map_region" /\ BootOrder[8] = "init_segment" /\ BootOrder[9] = "init_serial"
  /\ BootOrder[10] = "init_timer" /\ BootOrder[11] = "init_idt" /\ BootOrder[12] = "init_intr"
  /\ BootOrder[13] = "init_fs" /\ BootOrder[14] = "init_pcb_pool"
BY DEF BootOrder

(* The parts of a page number of memory, and of the same page seen through *)
(* the kernel's addresses.                                                 *)
LEMMA Parts ==
  ASSUME NEW f \in 0 .. PHY - 1
  PROVE  /\ PDX(f) \in Nat /\ PTX(f) \in 0 .. ENTRIES - 1 /\ f = ENTRIES * PDX(f) + PTX(f)
         /\ PDX(KERNBASE) \in Nat /\ PHY \div ENTRIES \in Nat
         /\ KERNBASE + f \in Nat
         /\ PDX(KERNBASE + f) = PDX(KERNBASE) + PDX(f) /\ PTX(KERNBASE + f) = PTX(f)
         /\ PDX(f) < PHY \div ENTRIES /\ PDX(f) < PDX(KERNBASE)
<1>1. /\ ENTRIES \in Nat \ {0} /\ KERNBASE \in Nat /\ PHY \in Nat /\ PHY <= KERNBASE
      /\ KERNBASE % ENTRIES = 0 /\ PHY % ENTRIES = 0
  BY BootAssumption
<1>2. PICK e, q, r, t, g : /\ e = ENTRIES /\ q = KERNBASE \div e /\ r = f \div e /\ t = f % e /\ g = PHY \div e
  OBVIOUS
<1>3. f \in Nat /\ e \in Nat \ {0}
  BY <1>1, <1>2
<1>4. q \in Nat /\ KERNBASE = e * q + (KERNBASE % e)
  BY <1>1, <1>2, <1>3, Quot
<1>5. g \in Nat /\ PHY = e * g + (PHY % e)
  BY <1>1, <1>2, <1>3, Quot
<1>6. r \in Nat /\ t \in 0 .. e - 1 /\ f = e * r + t
  BY <1>2, <1>3, Quot
<1>7. KERNBASE = e * q /\ PHY = e * g
  <2>1. e * q \in Int /\ e * g \in Int
    BY <1>3, <1>4, <1>5
  <2>2. KERNBASE % e = 0 /\ PHY % e = 0
    BY <1>1, <1>2
  <2>3. QED
    BY <1>4, <1>5, <2>1, <2>2
<1>8. r < g
  <2>1. e * r + t < e * g
    BY <1>1, <1>6, <1>7
  <2>2. QED
    BY <1>3, <1>5, <1>6, <2>1, Below
<1>9. r < q
  <2>1. e * r + t < e * q
    BY <1>1, <1>6, <1>7
  <2>2. QED
    BY <1>3, <1>4, <1>6, <2>1, Below
<1>10. KERNBASE + f = e * (q + r) + t
  BY <1>3, <1>4, <1>6, <1>7
<1>11. q + r \in Nat
  BY <1>4, <1>6
<1>12. (KERNBASE + f) \div e = q + r /\ (KERNBASE + f) % e = t
  <2>1. PICK s \in Nat : s = q + r
    BY <1>11
  <2>2. (e * s + t) \div e = s /\ (e * s + t) % e = t
    BY <1>3, <1>6, DivMod
  <2>3. KERNBASE + f = e * s + t
    BY <1>10, <2>1
  <2>4. QED
    BY <2>1, <2>2, <2>3
<1>13. KERNBASE + f \in Nat
  BY <1>1, <1>3
<1>14. QED
  BY <1>2, <1>4, <1>5, <1>6, <1>8, <1>9, <1>12, <1>13 DEF PDX, PTX

(* entry_pgdir maps the kernel's first 4 MB at both addresses.             *)
LEMMA EntryMaps ==
  ASSUME NEW f \in 0 .. PHY - 1, f < ENTRIES
  PROVE  Entry(f) = {f} /\ Entry(KERNBASE + f) = {f}
<1>1. ENTRIES \in Nat \ {0} /\ f \in Nat
  BY BootAssumption
<1>2. PICK r, t : r = PDX(f) /\ t = PTX(f)
  OBVIOUS
<1>3. /\ r \in Nat /\ t \in 0 .. ENTRIES - 1 /\ f = ENTRIES * r + t
      /\ PDX(KERNBASE) \in Nat
      /\ PDX(KERNBASE + f) = PDX(KERNBASE) + r /\ PTX(KERNBASE + f) = t
  BY <1>2, Parts
<1>4. r < 1
  <2>1. ENTRIES * r + t < ENTRIES * 1
    BY <1>1, <1>3
  <2>2. QED
    BY <1>1, <1>3, <2>1, Below
<1>5. r = 0 /\ t = f
  BY <1>1, <1>3, <1>4
<1>6. entry_pgtable[f] = f
  BY <1>3, <1>5 DEF entry_pgtable
<1>7. PDX(KERNBASE + f) = PDX(KERNBASE)
  BY <1>3, <1>5
<1>8. QED
  BY <1>2, <1>3, <1>5, <1>6, <1>7 DEF Entry

(* kern_pgdir maps all memory at the kernel's addresses, and the video     *)
(* memory where it is.                                                     *)
LEMMA KernMaps ==
  ASSUME NEW f \in 0 .. PHY - 1
  PROVE  /\ Kern(KERNBASE + f) = {f}
         /\ "video" \in inits /\ f \in VMEM => Kern(f) = {f}
<1>1. /\ PHY \in Nat /\ ENTRIES \in Nat \ {0} /\ f \in Nat
  BY BootAssumption
<1>2. PICK r, t, q, g : r = PDX(f) /\ t = PTX(f) /\ q = PDX(KERNBASE) /\ g = PHY \div ENTRIES
  OBVIOUS
<1>3. /\ r \in Nat /\ t \in 0 .. ENTRIES - 1 /\ f = ENTRIES * r + t /\ q \in Nat /\ g \in Nat
      /\ PDX(KERNBASE + f) = q + r /\ PTX(KERNBASE + f) = t /\ r < g /\ r < q
  BY <1>2, Parts
<1>4. KernTables = q .. q + g - 1
  BY <1>2 DEF KernTables
<1>5. q + r \in KernTables /\ r \notin KernTables
  BY <1>3, <1>4
<1>6. (q + r - q) * ENTRIES + t = f
  <2>1. q + r - q = r
    BY <1>3
  <2>2. r * ENTRIES = ENTRIES * r
    BY <1>1, <1>3
  <2>3. QED
    BY <1>3, <2>1, <2>2
<1>7. kpgtable(f) = f
  BY <1>1 DEF kpgtable
<1>8. Kern(KERNBASE + f) = {f}
  BY <1>2, <1>3, <1>5, <1>6, <1>7 DEF Kern
<1>9. "video" \in inits /\ f \in VMEM => Kern(f) = {f}
  BY <1>2, <1>5 DEF Kern
<1>10. QED
  BY <1>8, <1>9

LEMMA BootBegins ==
  ASSUME BootInit
  PROVE  BootIInv
<1>1. InMain
  BY Begins DEF BootInit
<1>2. step = 1 /\ pgdir = "off"
  BY DEF BootInit
<1>3. QED
  BY <1>1, <1>2 DEF BootIInv, TrapIInv

LEMMA BootSteps ==
  ASSUME BootIInv, [Machine]_machineVars
  PROVE  BootIInv'
<1>1. step \in 1 .. 15 /\ (Booting <=> step <= 14)
  BY Order DEF BootIInv, Booting
<1>2. CASE BootStep
  <2>1. step \in 1 .. 14 /\ step' = step + 1 /\ UNCHANGED vars
    BY <1>1, <1>2 DEF BootStep
  <2>2. InMain /\ TrapIInv
    BY <1>1, <2>1 DEF BootIInv
  <2>3. InMain' /\ TrapIInv'
    BY <2>1, <2>2 DEF InMain, TrapIInv, vars
  <2>4. pgdir' = IF step' = 1 THEN "off" ELSE IF step' <= 5 THEN "entry" ELSE "kern"
    <3>1. pgdir' = CASE Now = "entry" -> "entry" [] Now = "lcr3" -> "kern" [] OTHER -> pgdir
      BY <1>2 DEF BootStep
    <3>2. Now = "entry" => pgdir' = "entry"
      BY <3>1, Zenon
    <3>3. Now = "lcr3" => pgdir' = "kern"
      <4>1. "entry" # "lcr3"
        OBVIOUS
      <4>2. QED
        BY <3>1, <4>1, Zenon
    <3>4. Now # "entry" /\ Now # "lcr3" => pgdir' = pgdir
      BY <3>1, Zenon
    <3>5. pgdir = IF step = 1 THEN "off" ELSE IF step <= 5 THEN "entry" ELSE "kern"
      BY DEF BootIInv
    <3>6. Now = BootOrder[step]
      BY DEF Now
    <3>7. CASE step = 1
      BY <2>1, <3>2, <3>6, <3>7, Order
    <3>8. CASE step = 5
      BY <2>1, <3>3, <3>6, <3>8, Order
    <3>9. CASE step \in {2, 3, 4}
      <4>1. Now # "entry" /\ Now # "lcr3"
        BY <3>6, <3>9, Order
      <4>2. QED
        BY <2>1, <3>4, <3>5, <3>9, <4>1
    <3>10. CASE step \in 6 .. 14
      <4>1. step \in {6, 7, 8, 9, 10, 11, 12, 13, 14}
        BY <3>10
      <4>2. Now # "entry" /\ Now # "lcr3"
        BY <3>6, <4>1, Order
      <4>3. QED
        BY <2>1, <3>4, <3>5, <3>10, <4>2
    <3>11. QED
      BY <2>1, <3>7, <3>8, <3>9, <3>10
  <2>5. \A i \in 1 .. step' - 1 : Done(i) \in inits'
    <3>1. inits' = inits \cup {Done(step)}
      BY <1>2 DEF BootStep, Now, Done
    <3>2. \A i \in 1 .. step : i \in 1 .. step - 1 \/ i = step
      BY <2>1
    <3>3. step' - 1 = step
      BY <2>1
    <3>4. \A i \in 1 .. step - 1 : Done(i) \in inits
      BY DEF BootIInv
    <3>5. QED
      BY <3>1, <3>2, <3>3, <3>4
  <2>6. step' \in 1 .. 15
    BY <2>1
  <2>7. QED
    BY <2>3, <2>4, <2>5, <2>6 DEF BootIInv
<1>3. CASE ~Booting /\ Next /\ UNCHANGED bootVars
  <2>1. TrapIInv'
    BY <1>3, TrapStep DEF BootIInv
  <2>2. UNCHANGED <<step, pgdir, inits>>
    BY <1>3 DEF bootVars
  <2>3. QED
    BY <1>3, <2>1, <2>2 DEF BootIInv, Booting
<1>4. CASE UNCHANGED machineVars
  <2>1. UNCHANGED vars /\ UNCHANGED <<step, pgdir, inits>>
    BY <1>4 DEF machineVars, bootVars
  <2>2. TrapIInv'
    BY <2>1, TrapStep DEF BootIInv
  <2>3. InMain => InMain'
    BY <2>1 DEF vars, InMain
  <2>4. QED
    BY <2>1, <2>2, <2>3 DEF BootIInv, Booting
<1>5. QED
  BY <1>2, <1>3, <1>4 DEF Machine

LEMMA MachineInvariant == MachineSpec => []BootIInv
<1>1. BootInit => BootIInv
  BY BootBegins
<1>2. BootIInv /\ [Machine]_machineVars => BootIInv'
  BY BootSteps
<1>3. QED
  BY <1>1, <1>2, PTL DEF MachineSpec

-----------------------------------------------------------------------------
(* Every step of the boot finds every page it works on mapped to the page  *)
(* that is meant, for any size of the memory and of the kernel's variables *)
(* (entry.S, entrypgdir.c, init_kern_pgdir, page_init, boot_map_region).   *)
THEOREM BootFindsItsPages == MachineSpec => []BootMapped
<1>1. BootIInv => BootMapped
  <2>. SUFFICES ASSUME BootIInv, Booting, NEW f \in Touched(Now)
                PROVE  Translate(IF Low(Now) THEN f ELSE KERNBASE + f) = {f}
    BY DEF BootMapped
  <2>1. step \in 1 .. 14 /\ Now = BootOrder[step]
    BY Order DEF BootIInv, Booting, Now
  <2>2. pgdir = IF step = 1 THEN "off" ELSE IF step <= 5 THEN "entry" ELSE "kern"
    BY DEF BootIInv
  <2>3. /\ pgdir = "off" => \A la : Translate(la) = {la}
        /\ pgdir = "entry" => \A la : Translate(la) = Entry(la)
        /\ pgdir = "kern" => \A la : Translate(la) = Kern(la)
    <3>1. "off" # "entry" /\ "kern" # "off" /\ "kern" # "entry"
      OBVIOUS
    <3>2. QED
      BY <3>1, Zenon DEF Translate
  <2>4. /\ ENTRIES \in Nat \ {0} /\ PHY \in Nat /\ BASE \in Nat /\ BASE + 3 < PHY
        /\ STATICS \cup {TEXT} \subseteq 0 .. ENTRIES - 1 /\ POOL \subseteq 0 .. PHY - 1
    BY BootAssumption
  <2>5. ENTRIES <= PHY
    <3>1. PICK e, g : e = ENTRIES /\ g = PHY \div ENTRIES
      OBVIOUS
    <3>2. PHY % ENTRIES = 0
      BY BootAssumption
    <3>3. g \in Nat /\ PHY = e * g + (PHY % e) /\ e \in Nat \ {0}
      BY <2>4, <3>1, Quot
    <3>4. e * g \in Nat
      BY <3>3
    <3>5. PHY = e * g
      BY <3>1, <3>2, <3>3, <3>4
    <3>6. g # 0
      BY <2>4, <3>3, <3>5
    <3>7. e * g >= e
      BY <3>3, <3>6
    <3>8. QED
      BY <2>4, <3>1, <3>5, <3>7
  <2>6. \A x \in STATICS \cup {TEXT} : x \in 0 .. PHY - 1 /\ x < ENTRIES
    BY <2>4, <2>5
  <2>7. f \in 0 .. PHY - 1
    <3>1. \A x \in BASE .. BASE + 3 : x \in 0 .. PHY - 1
      BY <2>4
    <3>2. QED
      BY <2>4, <2>6, <3>1 DEF Touched
  <2>8. CASE step = 1
    <3>1. Low(Now)
      BY <2>1, <2>8, Order DEF Low
    <3>2. QED
      BY <2>2, <2>3, <2>8, <3>1
  <2>9. CASE step \in {2, 3, 4, 5}
    <3>1. Now # "boot_map_region" /\ Now # "init_pcb_pool"
      BY <2>1, <2>9, Order
    <3>2. f \in STATICS \cup {TEXT}
      BY <3>1 DEF Touched
    <3>3. Entry(f) = {f} /\ Entry(KERNBASE + f) = {f}
      BY <2>6, <3>2, EntryMaps
    <3>4. pgdir = "entry"
      BY <2>2, <2>9
    <3>5. QED
      BY <2>3, <3>3, <3>4
  <2>10. CASE step \in 6 .. 14
    <3>1. step \in {6, 7, 8, 9, 10, 11, 12, 13, 14}
      BY <2>10
    <3>2. ~Low(Now)
      BY <2>1, <3>1, Order DEF Low
    <3>3. pgdir = "kern"
      BY <2>2, <2>10
    <3>4. QED
      BY <2>3, <2>7, <3>2, <3>3, KernMaps
  <2>11. QED
    BY <2>1, <2>8, <2>9, <2>10
<1>2. QED
  BY <1>1, MachineInvariant, PTL

(* Interrupts are off until everything that they need is there, whatever   *)
(* comes between the last step of main and the first process (main,        *)
(* switch_proc).                                                           *)
THEOREM InterruptsFindHandlers == MachineSpec => []ReadyForInterrupts
<1>1. BootIInv => ReadyForInterrupts
  <2>. SUFFICES ASSUME BootIInv, cpu.if
                PROVE  /\ {"init_segment", "init_timer", "init_idt", "init_intr", "init_pcb_pool"} \subseteq inits
                       /\ current \in used /\ \A f \in VMEM : Translate(f) = {f}
    BY DEF ReadyForInterrupts
  <2>1. ~InMain
    BY DEF InMain
  <2>2. step = 15 /\ AfterMain
    BY <2>1, Order DEF BootIInv, Booting, TrapIInv
  <2>3. pgdir = "kern"
    BY <2>2 DEF BootIInv
  <2>4. \A i \in 1 .. 14 : Done(i) \in inits
    BY <2>2 DEF BootIInv
  <2>5. /\ Done(7) = "video" /\ Done(8) = "init_segment" /\ Done(10) = "init_timer" /\ Done(11) = "init_idt"
        /\ Done(12) = "init_intr" /\ Done(14) = "init_pcb_pool"
    BY Order DEF Done
  <2>6. /\ "video" \in inits
        /\ {"init_segment", "init_timer", "init_idt", "init_intr", "init_pcb_pool"} \subseteq inits
    <3>1. Done(7) \in inits /\ Done(8) \in inits /\ Done(10) \in inits /\ Done(11) \in inits
          /\ Done(12) \in inits /\ Done(14) \in inits
      BY <2>4
    <3>2. QED
      BY <2>5, <3>1
  <2>7. \A la : Translate(la) = Kern(la)
    <3>1. "kern" # "off" /\ "kern" # "entry"
      OBVIOUS
    <3>2. QED
      BY <2>3, <3>1, Zenon DEF Translate
  <2>8. VMEM \subseteq 0 .. PHY - 1
    BY BootAssumption
  <2>9. QED
    BY <2>2, <2>6, <2>7, <2>8, KernMaps DEF AfterMain
<1>2. QED
  BY <1>1, MachineInvariant, PTL

(* A program that runs has the registers it should have, wherever it was   *)
(* interrupted, for any number of processes (asm_do_irq, switch_proc,      *)
(* copy_pcb, fork_current).                                                *)
THEOREM ProgramsKeepRegisters == MachineSpec => []RegistersKept
<1>1. BootIInv => RegistersKept
  <2>. SUFFICES ASSUME TrapIInv, Running
                PROVE  cpu.eax = mem[current].eax /\ cpu.ebx = mem[current].ebx /\ cpu.if
    BY DEF RegistersKept, BootIInv
  <2>1. AfterMain /\ cpu.at = "prog"
    BY DEF TrapIInv, InMain, Running
  <2>2. Prog(cpu)
    BY <2>1 DEF AfterMain, Runnable, Stub, Stubs, Irqs
  <2>3. cpu.if = TRUE
    BY <2>2 DEF Prog, State
  <2>4. QED
    BY <2>1, <2>3, MemFacts
<1>2. QED
  BY <1>1, MachineInvariant, PTL

LEMMA SavedLen ==
  ASSUME NEW k, Saved(k) \/ \E c : Runnable(k, c)
  PROVE  Len(k) \in 0 .. 2 /\ (Len(k) = 0 => k = <<>>)
<1>1. CASE Saved(k)
  BY <1>1, PopFrame
<1>2. ASSUME NEW f, k = <<f>>
      PROVE  Len(k) \in 0 .. 2 /\ (Len(k) = 0 => k = <<>>)
  BY <1>2, Short
<1>3. CASE k = <<>>
  BY <1>3, Short
<1>4. QED
  BY <1>1, <1>2, <1>3 DEF Runnable

AtMostTwo(k) == Len(k) <= 2
Fits(k, t, p) == t[p][1] = p /\ t[p][2] \in 0 .. Len(k[p]) /\ (t[p][2] = 0 => k[p] = <<>>)

LEMMA SavedFits ==
  ASSUME NEW k, Saved(k) \/ \E c : Runnable(k, c)
  PROVE  AtMostTwo(k)
<1>1. PICK n : n = Len(k)
  OBVIOUS
<1>2. n \in 0 .. 2
  BY <1>1, SavedLen
<1>3. n <= 2
  BY <1>2
<1>4. QED
  BY <1>1, <1>3 DEF AtMostTwo

LEMMA ResumableFits ==
  ASSUME NEW k, NEW t, NEW m, NEW U, NEW c, Resumable(k, t, m, U, c)
  PROVE  /\ \A p \in U \ {c} : Fits(k, t, p) /\ AtMostTwo(k[p])
         /\ \A p \in Slots \ U : AtMostTwo(k[p])
<1>1. ASSUME NEW p \in U \ {c}
      PROVE  Fits(k, t, p) /\ AtMostTwo(k[p])
  <2>1. Saved(k[p]) /\ t[p] = <<p, Len(k[p])>>
    BY <1>1 DEF Resumable
  <2>2. PICK n : n = Len(k[p])
    OBVIOUS
  <2>3. n \in 0 .. 2 /\ (n = 0 => k[p] = <<>>)
    BY <2>1, <2>2, SavedLen
  <2>4. t[p][1] = p /\ t[p][2] = n
    BY <2>1, <2>2, Short
  <2>5. n \in 0 .. n
    BY <2>3
  <2>6. QED
    BY <2>1, <2>2, <2>3, <2>4, <2>5, SavedFits DEF Fits
<1>2. ASSUME NEW p \in Slots \ U
      PROVE  AtMostTwo(k[p])
  <2>1. k[p] = <<>>
    BY <1>2 DEF Resumable
  <2>2. QED
    BY <2>1, SavedFits DEF Saved
<1>3. QED
  BY <1>1, <1>2

(* Each process traps to its own kernel stack and resumes from it, and no  *)
(* stack holds more than two frames, for any number of processes           *)
(* (set_tss_esp0, scheduler_switch, copy_pcb, the cli of asm_do_irq).      *)
THEOREM StacksArePrivate == MachineSpec => [](StacksPrivate /\ TwoFramesAtMost)
<1>1. BootIInv => StacksPrivate /\ TwoFramesAtMost
  <2>. SUFFICES ASSUME TrapIInv PROVE StacksPrivate /\ TwoFramesAtMost
    BY DEF BootIInv
  <2>1. CASE InMain
    <3>1. StacksPrivate
      BY <2>1 DEF StacksPrivate, InMain
    <3>2. NONE \notin used /\ Resumable(kst, tf, mem, used, NONE)
      BY <2>1, SlotFacts DEF InMain, Resumable
    <3>3. /\ \A p \in used \ {NONE} : AtMostTwo(kst[p])
          /\ \A p \in Slots \ used : AtMostTwo(kst[p])
      BY <3>2, ResumableFits
    <3>4. \A p \in Slots : AtMostTwo(kst[p])
      BY <3>2, <3>3
    <3>5. QED
      BY <3>1, <3>4 DEF TwoFramesAtMost, AtMostTwo
  <2>2. CASE AfterMain
    <3>1. Resumable(kst, tf, mem, used, current) /\ Runnable(kst[current], cpu)
      BY <2>2 DEF AfterMain
    <3>2. AtMostTwo(kst[current])
      BY <3>1, SavedFits
    <3>3. /\ \A p \in used \ {current} : Fits(kst, tf, p) /\ AtMostTwo(kst[p])
          /\ \A p \in Slots \ used : AtMostTwo(kst[p])
      BY <3>1, ResumableFits
    <3>4. \A p \in Slots : AtMostTwo(kst[p])
      BY <3>2, <3>3
    <3>5. cr3 = current /\ esp0 = current
      BY <2>2 DEF AfterMain
    <3>6. StacksPrivate
      BY <3>3, <3>5 DEF StacksPrivate, Fits
    <3>7. QED
      BY <3>4, <3>6 DEF TwoFramesAtMost, AtMostTwo
  <2>3. QED
    BY <2>1, <2>2 DEF TrapIInv
<1>2. QED
  BY <1>1, MachineInvariant, PTL

(* What every trap finds and leaves of the kernel stacks, and the types of *)
(* all that the machine keeps; the characters are codes if those of every  *)
(* call of printf are (irq_handle.c, do_irq.S, lib/printk.c).              *)
THEOREM TrapsKeepStacks ==
  ASSUME FormatsWell
  PROVE  MachineSpec => []TrapInv
<1>1. BootIInv => TrapTypeOK
  <2>. SUFFICES ASSUME TrapIInv PROVE TrapTypeOK
    BY DEF BootIInv
  <2>1. PICK c : Resumable(kst, tf, mem, used, c)
    BY DEF TrapIInv, InMain, AfterMain
  <2>2. ASSUME NEW p \in Slots
        PROVE  /\ Range(mem[p].text) \cup Range(mem[p].said) \subseteq Codes
               /\ mem[p].job \in 0 .. Len(Prints) /\ mem[p].eax \in Slots \cup Calls
    <3>1. Typed(mem[p]) /\ mem[p].eax \in Slots \cup Calls
      BY <2>1, <2>2 DEF Resumable
    <3>2. mem[p].text \in Seq(Codes) /\ mem[p].said \in Seq(Codes) /\ mem[p].job \in 0 .. Len(Prints)
      BY <3>1 DEF Typed
    <3>3. \A z \in Seq(Codes) : Range(z) \subseteq Codes
      BY DEF Range
    <3>4. QED
      BY <3>1, <3>2, <3>3
  <2>3. used \subseteq Slots /\ IDLE \in Slots
    BY <2>1, SlotFacts DEF Resumable
  <2>4. CASE InMain
    BY <2>2, <2>3, <2>4 DEF InMain, TrapTypeOK
  <2>5. CASE AfterMain
    <3>1. current \in Slots /\ stk \in Slots /\ esp0 \in Slots /\ cr3 \in Slots
      BY <2>5, MemFacts
    <3>2. cpu.at \in {"prog", "main", "lost", "vecsys", "irq0", "irq1", "vec0", "vec13"}
      BY <2>5 DEF AfterMain, Runnable, Prog, Stub, State, Stubs, Irqs
    <3>3. cpu.if = TRUE \/ cpu.if = FALSE
      BY <2>5 DEF AfterMain, Runnable, Prog, Stub, State
    <3>4. cpu.if \in BOOLEAN
      BY <3>3
    <3>5. QED
      BY <2>2, <2>3, <3>1, <3>2, <3>4 DEF TrapTypeOK
  <2>6. QED
    BY <2>4, <2>5 DEF TrapIInv
<1>2. QED
  BY <1>1, MachineInvariant, StacksArePrivate, PTL DEF TrapInv

(* If a call of printf has the right text, every character of it is        *)
(* printed once and in order, whatever interrupts and other processes come *)
(* between taking a character from the text and the kernel's printing it   *)
(* (sys_printch, do_syscall, asm_do_irq, fork_current, exec_current).      *)
THEOREM CharactersOnce ==
  ASSUME FormatsWell
  PROVE  MachineSpec => []PrintedOnce
<1>1. BootIInv => PrintedOnce
  <2>. SUFFICES ASSUME TrapIInv, Running, mem[current].job # 0
                PROVE  mem[current].said \o mem[current].text = Whole[mem[current].job]
    BY DEF PrintedOnce, BootIInv
  <2>1. AfterMain /\ cpu.at = "prog"
    BY DEF TrapIInv, InMain, Running
  <2>2. kst[current] = <<>>
    BY <2>1 DEF AfterMain, Runnable, Stub, Stubs, Irqs
  <2>3. Inner(kst[current], cpu.at) = "prog"
    BY <2>1, <2>2, Short DEF Inner
  <2>4. Owes("prog", mem[current])
    BY <2>1, <2>3 DEF AfterMain
  <2>5. QED
    BY <2>4 DEF Owes
<1>2. QED
  BY <1>1, MachineInvariant, PTL
=============================================================================
