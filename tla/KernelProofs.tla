---------------------------- MODULE KernelProofs ----------------------------
(***************************************************************************)
(* Proofs, for every pool size, every set of semaphores, every initial     *)
(* count that is not negative and every bound, of the invariants and the   *)
(* action properties of KernelProperties and of the refinement of module   *)
(* Semaphores.                                                             *)
(***************************************************************************)
EXTENDS KernelProperties, FiniteSetTheorems, SequenceTheorems,
        WellFoundedInduction, TLAPS

Injective(q) == \A i, j \in DOMAIN q : q[i] = q[j] => i = j

-----------------------------------------------------------------------------
(* Lemmas about list heads and lists.                                      *)

(* The heads are what their names say: four kinds, one per semaphore, one  *)
(* per PCB.                                                                *)
LEMMA HeadsDistinct ==
  /\ READY_LIST \in ListHead /\ SLEEP_LIST \in ListHead
  /\ \A s \in Sems : BlockList(s) \in ListHead
  /\ \A p \in Slot : JoinList(p) \in ListHead
  /\ READY_LIST # SLEEP_LIST
  /\ \A s : BlockList(s) # READY_LIST /\ BlockList(s) # SLEEP_LIST
  /\ \A p : JoinList(p) # READY_LIST /\ JoinList(p) # SLEEP_LIST
  /\ \A s, p : BlockList(s) # JoinList(p)
  /\ \A s, u : BlockList(s) = BlockList(u) => s = u
  /\ \A p, q : JoinList(p) = JoinList(q) => p = q
BY DEF ListHead, READY_LIST, SLEEP_LIST, BlockList, JoinList

(* The members of a list of PCBs are finitely many slots.                  *)
LEMMA ElementsFinite ==
  ASSUME NEW q \in Seq(Slot)
  PROVE  Elements(q) \subseteq Slot /\ IsFiniteSet(Elements(q))
<1>1. Elements(q) \subseteq Slot
  BY DEF Elements
<1>2. IsFiniteSet(Slot)
  BY FS_Interval, PoolAssumption DEF Slot
<1> QED
  BY <1>1, <1>2, FS_Subset

(* InOrder(q, S) holds sequences of exactly the members of S, without      *)
(* repetition when q has none.                                             *)
LEMMA InOrderProperties ==
  ASSUME NEW q \in Seq(Slot), NEW S \in SUBSET Elements(q), NEW r \in InOrder(q, S)
  PROVE  /\ r \in Seq(Slot)
         /\ Elements(r) = S
         /\ Injective(q) => Injective(r)
<1>1. IsFiniteSet(S) /\ S \subseteq Slot
  BY ElementsFinite, FS_Subset
<1>2. Cardinality(S) \in Nat
  BY <1>1, FS_CardinalityType
<1>3. r \in [1 .. Cardinality(S) -> S]
  BY DEF InOrder
<1>4. r \in Seq(Slot) /\ DOMAIN r = 1 .. Cardinality(S)
  BY <1>1, <1>2, <1>3
<1>5. Elements(r) = S
  BY <1>3 DEF InOrder, Elements
<1>6. ASSUME Injective(q),
             NEW i \in DOMAIN r, NEW j \in DOMAIN r, r[i] = r[j]
      PROVE  i = j
  <2>1. \A x, y \in DOMAIN r : x < y => r[x] # r[y]
    BY <1>2, <1>3, <1>4, <1>6 DEF InOrder, Injective
  <2>2. i \in Int /\ j \in Int
    BY <1>2, <1>4
  <2> QED
    BY <1>6, <2>1, <2>2
<1> QED
  BY <1>4, <1>5, <1>6 DEF Injective

(* Disjoint, stated list by list.                                          *)
LEMMA DisjointSplit ==
  ASSUME NEW L
  PROVE  Disjoint(L) <=>
           /\ \A h \in ListHead : Injective(L[h])
           /\ \A g, h \in ListHead : \A x \in Elements(L[g]) : x \in Elements(L[h]) => g = h
BY DEF Disjoint, Injective, Elements

(* What ll_entail(h, p) makes of the lists.                                *)
EntailPost(L, h, p, M) ==
  /\ M \in ListsType
  /\ M[h] = Append(L[h], p) /\ Len(M[h]) = Len(L[h]) + 1 /\ M[h] # << >>
  /\ \A x : x \in Elements(M[h]) <=> (x \in Elements(L[h]) \/ x = p)
  /\ \A g \in ListHead \ {h} : M[g] = L[g]
  /\ \A x : OnList(M, x) <=> (OnList(L, x) \/ x = p)
  /\ Disjoint(L) /\ ~OnList(L, p) => Disjoint(M)

(* ll_entail appends the process and keeps the lists disjoint.             *)
LEMMA EntailProperties ==
  ASSUME NEW L \in ListsType, NEW h \in ListHead, NEW p \in Slot
  PROVE  EntailPost(L, h, p, ll_entail(L, h, p))
<1> DEFINE M == ll_entail(L, h, p)
<1>1. M \in ListsType /\ M[h] = Append(L[h], p) /\ \A g \in ListHead \ {h} : M[g] = L[g]
  BY DEF ll_entail, ListsType
<1>2. L[h] \in Seq(Slot)
  BY DEF ListsType
<1> HIDE DEF M
<1>3. Len(M[h]) = Len(L[h]) + 1 /\ M[h] # << >> /\ Elements(M[h]) = Elements(L[h]) \cup {p}
  <2>1. PICK q \in Seq(Slot), n \in Nat : q = L[h] /\ n = Len(q)
    BY <1>2
  <2>2. PICK r : r = Append(q, p)
    OBVIOUS
  <2>3. /\ r \in Seq(Slot) /\ Len(r) = n + 1 /\ r[n + 1] = p
        /\ \A i \in 1 .. n : r[i] = q[i]
    BY <2>1, <2>2
  <2>4. \A x : x \in Elements(r) <=> x \in Elements(q) \/ x = p
    <3>1. \A i \in 1 .. n + 1 : i \in 1 .. n \/ i = n + 1
      OBVIOUS
    <3>2. \A i \in 1 .. n : i \in 1 .. n + 1
      OBVIOUS
    <3>3. n + 1 \in 1 .. n + 1
      OBVIOUS
    <3>4. /\ \A x : x \in Elements(r) <=> \E i \in 1 .. n + 1 : r[i] = x
          /\ \A x : x \in Elements(q) <=> \E i \in 1 .. n : q[i] = x
      BY <2>1, <2>3 DEF Elements
    <3>5. QED
      BY <2>3, <3>1, <3>2, <3>3, <3>4
  <2>5. r # << >>
    BY <2>1, <2>3
  <2>6. QED
    BY <1>1, <2>1, <2>2, <2>3, <2>4, <2>5
<1>4. \A x : OnList(M, x) <=> (OnList(L, x) \/ x = p)
  BY <1>1, <1>3 DEF OnList
<1>5. ASSUME Disjoint(L), ~OnList(L, p) PROVE Disjoint(M)
  <2>1. Injective(L[h]) /\ p \notin Elements(L[h])
    BY <1>5, DisjointSplit DEF OnList
  <2>2. Injective(M[h])
    BY <1>1, <1>2, <2>1 DEF Injective, Elements
  <2>3. /\ \A g \in ListHead : Injective(L[g])
        /\ \A f, g \in ListHead : \A x \in Elements(L[f]) : x \in Elements(L[g]) => f = g
    BY <1>5, DisjointSplit
  <2>4. \A f, g \in ListHead : \A x \in Elements(M[f]) : x \in Elements(M[g]) => f = g
    BY <1>1, <1>3, <1>5, <2>3 DEF OnList
  <2>5. \A g \in ListHead : Injective(M[g])
    BY <1>1, <2>2, <2>3
  <2> QED
    BY <2>4, <2>5, DisjointSplit
<1> QED
  BY <1>1, <1>3, <1>4, <1>5 DEF M, EntailPost

(* ll_push on a list, for a PCB that is on no list.                        *)
PushPost(L, h, p, M) ==
  /\ M \in ListsType
  /\ M[h] # << >>
  /\ \A x : x \in Elements(M[h]) <=> (x \in Elements(L[h]) \/ x = p)
  /\ \A g \in ListHead \ {h} : M[g] = L[g]
  /\ \A x : OnList(M, x) <=> (OnList(L, x) \/ x = p)
  /\ Disjoint(L) /\ ~OnList(L, p) => Disjoint(M)

(* ll_push puts the process in front and keeps the lists disjoint.         *)
LEMMA PushProperties ==
  ASSUME NEW L \in ListsType, NEW h \in ListHead, NEW p \in Slot
  PROVE  PushPost(L, h, p, ll_push(L, h, p))
<1> DEFINE M == ll_push(L, h, p)
<1>1. L[h] \in Seq(Slot) /\ <<p>> \in Seq(Slot)
  BY DEF ListsType
<1>2. M \in ListsType /\ M[h] = <<p>> \o L[h] /\ \A g \in ListHead \ {h} : M[g] = L[g]
  BY <1>1 DEF ll_push, ListsType
<1> HIDE DEF M
<1>3. DOMAIN M[h] = 1 .. Len(L[h]) + 1 /\ M[h] # << >> /\ M[h][1] = p
        /\ \A k \in 2 .. Len(L[h]) + 1 : M[h][k] = L[h][k - 1]
  BY <1>1, <1>2
<1>4. Elements(M[h]) = Elements(L[h]) \cup {p}
  <2>1. Elements(M[h]) \subseteq Elements(L[h]) \cup {p}
    BY <1>1, <1>2, <1>3 DEF Elements
  <2>2. ASSUME NEW k \in DOMAIN L[h] PROVE L[h][k] \in Elements(M[h])
    <3>1. k + 1 \in DOMAIN M[h] /\ M[h][k + 1] = L[h][k]
      BY <1>1, <1>2, <1>3
    <3> QED
      BY <3>1 DEF Elements
  <2>3. p \in Elements(M[h])
    BY <1>1, <1>2, <1>3 DEF Elements
  <2> QED
    BY <2>1, <2>2, <2>3 DEF Elements
<1>5. \A x : OnList(M, x) <=> (OnList(L, x) \/ x = p)
  BY <1>2, <1>4 DEF OnList
<1>6. ASSUME Disjoint(L), ~OnList(L, p) PROVE Disjoint(M)
  <2>1. Injective(L[h]) /\ p \notin Elements(L[h])
    BY <1>6, DisjointSplit DEF OnList
  <2>2. Injective(M[h])
    <3> SUFFICES ASSUME NEW i \in DOMAIN M[h], NEW j \in DOMAIN M[h], M[h][i] = M[h][j]
                 PROVE  i = j
      BY DEF Injective
    <3>1. \A k \in 1 .. Len(L[h]) + 1 :
            k # 1 => k - 1 \in DOMAIN L[h] /\ M[h][k] = L[h][k - 1]
      BY <1>1, <1>3
    <3>2. i \in Int /\ j \in Int
      BY <1>1, <1>2, <1>3
    <3>3. \A k \in DOMAIN L[h] : L[h][k] # p
      BY <2>1 DEF Elements
    <3> QED
      BY <1>3, <2>1, <3>1, <3>2, <3>3 DEF Injective
  <2>3. /\ \A g \in ListHead : Injective(L[g])
        /\ \A f, g \in ListHead : \A x \in Elements(L[f]) : x \in Elements(L[g]) => f = g
    BY <1>6, DisjointSplit
  <2>4. \A f, g \in ListHead : \A x \in Elements(M[f]) : x \in Elements(M[g]) => f = g
    BY <1>2, <1>4, <1>6, <2>3 DEF OnList
  <2>5. \A g \in ListHead : Injective(M[g])
    BY <1>2, <2>2, <2>3
  <2> QED
    BY <2>4, <2>5, DisjointSplit
<1> QED
  BY <1>2, <1>3, <1>4, <1>5, <1>6 DEF M, PushPost

(* Taking some members of a list to the end of the ready list, as do_timer,*)
(* sem_close_kr and exit_current do.                                       *)
MovePost(L, h, stay, woken, M) ==
  /\ M \in ListsType
  /\ M[h] = stay
  /\ \A g \in ListHead \ {h, READY_LIST} : M[g] = L[g]
  /\ \A x : x \in Elements(M[READY_LIST]) <=>
           (x \in Elements(L[READY_LIST]) \/ x \in Elements(woken))
  /\ \A x : OnList(M, x) <=> OnList(L, x)
  /\ Disjoint(M)

(* Moving processes from one list to the end of another keeps the lists    *)
(* disjoint.                                                               *)
LEMMA MoveProperties ==
  ASSUME NEW L \in ListsType, Disjoint(L), NEW h \in ListHead \ {READY_LIST},
         NEW stay \in Seq(Slot), NEW woken \in Seq(Slot),
         Elements(stay) \cup Elements(woken) = Elements(L[h]),
         Elements(stay) \cap Elements(woken) = {},
         Injective(stay), Injective(woken)
  PROVE  MovePost(L, h, stay, woken,
                  ll_entail_each([L EXCEPT ![h] = stay], READY_LIST, woken))
<1> DEFINE M == ll_entail_each([L EXCEPT ![h] = stay], READY_LIST, woken)
<1> DEFINE R == L[READY_LIST]
<1>0. READY_LIST \in ListHead
  BY HeadsDistinct
<1>1. \A e \in ListHead : L[e] \in Seq(Slot)
  BY DEF ListsType
<1>2. /\ M \in ListsType /\ M[h] = stay /\ M[READY_LIST] = R \o woken
      /\ \A g \in ListHead \ {h, READY_LIST} : M[g] = L[g]
  <2>1. R \o woken \in Seq(Slot)
    BY <1>0, <1>1
  <2> QED
    BY <1>0, <2>1 DEF ListsType, ll_entail_each
<1> HIDE DEF M
<1>3. \A k \in DOMAIN M[READY_LIST] :
        \/ k \in DOMAIN R /\ M[READY_LIST][k] = R[k]
        \/ /\ k \notin DOMAIN R
           /\ k - Len(R) \in DOMAIN woken /\ M[READY_LIST][k] = woken[k - Len(R)]
  BY <1>0, <1>1, <1>2
<1>4. Elements(M[READY_LIST]) = Elements(R) \cup Elements(woken)
  <2>1. ASSUME NEW x \in Elements(M[READY_LIST]) PROVE x \in Elements(R) \cup Elements(woken)
    BY <1>3, <2>1 DEF Elements
  <2>2. ASSUME NEW k \in DOMAIN R PROVE R[k] \in Elements(M[READY_LIST])
    <3>1. k \in DOMAIN M[READY_LIST] /\ M[READY_LIST][k] = R[k]
      BY <1>0, <1>1, <1>2
    <3> QED
      BY <3>1 DEF Elements
  <2>3. ASSUME NEW k \in DOMAIN woken PROVE woken[k] \in Elements(M[READY_LIST])
    <3>1. k + Len(R) \in DOMAIN M[READY_LIST] /\ M[READY_LIST][k + Len(R)] = woken[k]
      BY <1>0, <1>1, <1>2
    <3> QED
      BY <3>1 DEF Elements
  <2>4. Elements(R) \subseteq Elements(M[READY_LIST])
    BY <2>2 DEF Elements
  <2>5. Elements(woken) \subseteq Elements(M[READY_LIST])
    BY <2>3 DEF Elements
  <2> QED
    BY <2>1, <2>4, <2>5
<1>5. \A x : OnList(M, x) <=> OnList(L, x)
  BY <1>0, <1>2, <1>4 DEF OnList
<1>6. /\ \A g \in ListHead : Injective(L[g])
      /\ \A f, g \in ListHead : \A x \in Elements(L[f]) : x \in Elements(L[g]) => f = g
  BY DisjointSplit
<1>7. Injective(M[READY_LIST])
  <2> SUFFICES ASSUME NEW i \in DOMAIN M[READY_LIST], NEW j \in DOMAIN M[READY_LIST],
                      M[READY_LIST][i] = M[READY_LIST][j]
               PROVE  i = j
    BY DEF Injective
  <2>1. i \in Int /\ j \in Int /\ Len(R) \in Nat
    BY <1>0, <1>1, <1>2
  <2>2. Injective(R) /\ Elements(R) \cap Elements(woken) = {}
    BY <1>0, <1>6
  <2>3. CASE i \in DOMAIN R /\ j \in DOMAIN R
    BY <1>3, <2>2, <2>3 DEF Injective
  <2>4. CASE i \notin DOMAIN R /\ j \notin DOMAIN R
    <3>1. i - Len(R) = j - Len(R)
      BY <1>3, <2>4 DEF Injective
    <3> QED
      BY <2>1, <3>1
  <2>5. CASE i \in DOMAIN R /\ j \notin DOMAIN R
    BY <1>3, <2>2, <2>5 DEF Elements
  <2>6. CASE i \notin DOMAIN R /\ j \in DOMAIN R
    BY <1>3, <2>2, <2>6 DEF Elements
  <2> QED
    BY <2>3, <2>4, <2>5, <2>6
<1>8. \A f, g \in ListHead : \A x \in Elements(M[f]) : x \in Elements(M[g]) => f = g
  BY <1>0, <1>2, <1>4, <1>6
<1>9. Disjoint(M)
  BY <1>2, <1>6, <1>7, <1>8, DisjointSplit
<1> QED
  BY <1>2, <1>4, <1>5, <1>9 DEF M, MovePost

-----------------------------------------------------------------------------
(* What do_scheduler relies on and re-establishes.                         *)

(* The two slots that main() fills are different slots of the pool.        *)
LEMMA IdleInSlot == IDLE \in Slot /\ SHELL \in Slot /\ IDLE # SHELL
BY PoolAssumption DEF IDLE, SHELL, Slot

(* Popping a list that is not empty.                                       *)
LEMMA PopProperties ==
  ASSUME NEW q \in Seq(Slot), q # << >>, Injective(q)
  PROVE  /\ ll_first(q) = Head(q) /\ ll_rest(q) = Tail(q)
         /\ Head(q) \in Slot /\ Tail(q) \in Seq(Slot) /\ Injective(Tail(q))
         /\ Elements(q) = Elements(Tail(q)) \cup {Head(q)}
         /\ Head(q) \notin Elements(Tail(q))
         /\ Len(Tail(q)) = Len(q) - 1 /\ Len(q) \in Nat
<1>1. /\ Head(q) = q[1] /\ Head(q) \in Slot /\ Tail(q) \in Seq(Slot) /\ Len(q) \in Nat
      /\ Len(q) >= 1 /\ DOMAIN q = 1 .. Len(q) /\ DOMAIN Tail(q) = 1 .. Len(q) - 1
      /\ Len(Tail(q)) = Len(q) - 1
      /\ \A k \in 1 .. Len(q) - 1 : Tail(q)[k] = q[k + 1]
  OBVIOUS
<1>2. ASSUME NEW k \in 2 .. Len(q) PROVE q[k] \in Elements(Tail(q))
  <2>1. k - 1 \in DOMAIN Tail(q) /\ Tail(q)[k - 1] = q[k]
    BY <1>1
  <2> QED
    BY <2>1 DEF Elements
<1>3. \A x \in Elements(q) : x = Head(q) \/ x \in Elements(Tail(q))
  <2> SUFFICES ASSUME NEW k \in DOMAIN q
               PROVE  q[k] = Head(q) \/ q[k] \in Elements(Tail(q))
    BY DEF Elements
  <2>1. k = 1 \/ k \in 2 .. Len(q)
    BY <1>1
  <2> QED
    BY <1>1, <1>2, <2>1
<1>4. Head(q) \in Elements(q)
  BY <1>1 DEF Elements
<1>5. ASSUME NEW k \in DOMAIN Tail(q)
      PROVE  /\ k + 1 \in DOMAIN q /\ Tail(q)[k] = q[k + 1]
             /\ k + 1 # 1 /\ k \in Int
  BY <1>1
<1>6. Elements(Tail(q)) \subseteq Elements(q)
  BY <1>5 DEF Elements
<1>7. Head(q) \notin Elements(Tail(q))
  BY <1>1, <1>5 DEF Elements, Injective
<1>8. Injective(Tail(q))
  <2> SUFFICES ASSUME NEW i \in DOMAIN Tail(q), NEW j \in DOMAIN Tail(q),
                      Tail(q)[i] = Tail(q)[j]
               PROVE  i = j
    BY DEF Injective
  <2>1. i + 1 = j + 1
    BY <1>5 DEF Injective
  <2> QED
    BY <1>5, <2>1
<1> QED
  BY <1>1, <1>3, <1>4, <1>6, <1>7, <1>8 DEF ll_first, ll_rest

(* SwitchTo when idle is ready: somebody runs, the others stay where they  *)
(* are.                                                                    *)
LEMMA SwitchToProperties ==
  ASSUME NEW L \in ListsType, NEW t \in StatesType, NEW s \in SlicesType,
         Disjoint(L), IDLE \in Elements(L[READY_LIST]),
         \A p \in Slot : t[p] = "SLEEPING" <=> p \in Elements(L[SLEEP_LIST]),
         SwitchTo(L, t, s)
  PROVE  /\ CoreOK(list', ts', timeslice', current') /\ RunsNow' /\ fault' = fault
         /\ \A h \in ListHead \ {READY_LIST} : list'[h] = L[h]
         /\ \A x : OnList(L, x) <=> (x = current' \/ OnList(list', x))
<1> DEFINE q == L[READY_LIST]
<1>1. READY_LIST \in ListHead /\ SLEEP_LIST \in ListHead /\ READY_LIST # SLEEP_LIST
  BY HeadsDistinct
<1>2. q \in Seq(Slot) /\ q # << >>
  BY <1>1 DEF ListsType, Elements
<1>3. /\ \A g \in ListHead : Injective(L[g])
      /\ \A f, g \in ListHead : \A x \in Elements(L[f]) : x \in Elements(L[g]) => f = g
  BY DisjointSplit
<1>4. /\ ll_first(q) = Head(q) /\ ll_rest(q) = Tail(q)
      /\ Head(q) \in Slot /\ Tail(q) \in Seq(Slot) /\ Injective(Tail(q))
      /\ Elements(q) = Elements(Tail(q)) \cup {Head(q)}
      /\ Head(q) \notin Elements(Tail(q))
  BY <1>1, <1>2, <1>3, PopProperties
<1>5. /\ current' = Head(q) /\ current' \in Slot /\ fault' = fault
      /\ ts' = [t EXCEPT ![Head(q)] = "RUNNING"]
      /\ timeslice' = [s EXCEPT ![Head(q)] = 0]
      /\ list' = [L EXCEPT ![READY_LIST] = Tail(q)]
  BY <1>1, <1>4, NullAssumption DEF SwitchTo, ListsType
<1>6. /\ list' \in ListsType /\ list'[READY_LIST] = Tail(q)
      /\ \A h \in ListHead \ {READY_LIST} : list'[h] = L[h]
  BY <1>1, <1>4, <1>5 DEF ListsType
<1>7. /\ ts' \in StatesType /\ timeslice' \in SlicesType /\ RunsNow'
      /\ \A p \in Slot \ {current'} : ts'[p] = t[p]
  BY <1>5, WordAssumption DEF StatesType, SlicesType, TaskState, RunsNow, SLICE
<1> HIDE DEF q
<1>8. Disjoint(list')
  <2>1. \A g \in ListHead : Injective(list'[g])
    BY <1>3, <1>4, <1>6
  <2>2. \A g \in ListHead : Elements(list'[g]) \subseteq Elements(L[g])
    BY <1>4, <1>6 DEF q
  <2>3. \A f, g \in ListHead : \A x \in Elements(list'[f]) : x \in Elements(list'[g]) => f = g
    BY <1>3, <2>2
  <2> QED
    BY <2>1, <2>3, DisjointSplit
<1>9. ~OnList(list', current')
  BY <1>1, <1>3, <1>4, <1>5, <1>6 DEF OnList, q
<1>10. \A x : OnList(L, x) <=> (x = current' \/ OnList(list', x))
  <2>1. \A x : x \in Elements(L[READY_LIST])
                 <=> (x = current' \/ x \in Elements(list'[READY_LIST]))
    BY <1>4, <1>5, <1>6 DEF q
  <2>2. \A h \in ListHead \ {READY_LIST} : list'[h] = L[h]
    BY <1>6
  <2> QED
    BY <1>1, <2>1, <2>2 DEF OnList
<1>11. current' = IDLE \/ IDLE \in Elements(list'[READY_LIST])
  BY <1>4, <1>5, <1>6 DEF q
<1>12. \A p \in Slot \ {current'} : ts'[p] = "SLEEPING" <=> p \in Elements(list'[SLEEP_LIST])
  BY <1>1, <1>6, <1>7
<1> QED
  BY <1>5, <1>6, <1>7, <1>8, <1>9, <1>10, <1>11, <1>12 DEF CoreOK

(* do_scheduler with somebody running.                                     *)
LEMMA DoSchedulerProperties ==
  ASSUME NEW L, NEW t, NEW s, CoreOK(L, t, s, current),
         t[current] \in {"RUNNING", "STOP", "SLEEPING"},
         current = IDLE => t[current] # "SLEEPING",
         DoScheduler(L, t, s)
  PROVE  /\ CoreOK(list', ts', timeslice', current') /\ RunsNow' /\ fault' = fault
         /\ \A h \in ListHead \ {READY_LIST, SLEEP_LIST} : list'[h] = L[h]
         /\ \A x : (x = current \/ OnList(L, x)) <=> (x = current' \/ OnList(list', x))
<1>1. READY_LIST \in ListHead /\ SLEEP_LIST \in ListHead /\ READY_LIST # SLEEP_LIST
  BY HeadsDistinct
<1>2. /\ L \in ListsType /\ t \in StatesType /\ s \in SlicesType /\ current \in Slot
      /\ Disjoint(L) /\ ~OnList(L, current)
      /\ current = IDLE \/ IDLE \in Elements(L[READY_LIST])
      /\ \A p \in Slot \ {current} : t[p] = "SLEEPING" <=> p \in Elements(L[SLEEP_LIST])
  BY DEF CoreOK
<1>3. CASE /\ t[current] = "SLEEPING"
           /\ SwitchTo(ll_entail(L, SLEEP_LIST, current), t, s)
  <2> DEFINE M == ll_entail(L, SLEEP_LIST, current)
  <2>0. EntailPost(L, SLEEP_LIST, current, M)
    BY <1>1, <1>2, EntailProperties
  <2> HIDE DEF M
  <2>1. /\ M \in ListsType /\ Disjoint(M)
        /\ \A x : x \in Elements(M[SLEEP_LIST]) <=> (x \in Elements(L[SLEEP_LIST]) \/ x = current)
        /\ \A g \in ListHead \ {SLEEP_LIST} : M[g] = L[g]
        /\ \A x : OnList(M, x) <=> (OnList(L, x) \/ x = current)
    BY <1>1, <1>2, <2>0 DEF EntailPost
  <2>2. SwitchTo(M, t, s)
    BY <1>3 DEF M
  <2>3. IDLE \in Elements(M[READY_LIST])
    BY <1>1, <1>2, <1>3, <2>1
  <2>4. \A p \in Slot : t[p] = "SLEEPING" <=> p \in Elements(M[SLEEP_LIST])
    BY <1>2, <1>3, <2>1
  <2>5. /\ CoreOK(list', ts', timeslice', current') /\ RunsNow' /\ fault' = fault
        /\ \A h \in ListHead \ {READY_LIST} : list'[h] = M[h]
        /\ \A x : OnList(M, x) <=> (x = current' \/ OnList(list', x))
    BY <1>2, <2>1, <2>2, <2>3, <2>4, SwitchToProperties
  <2> QED
    BY <2>1, <2>5
<1>4. CASE /\ t[current] # "SLEEPING"
           /\ SwitchTo(ll_entail(L, READY_LIST, current), [t EXCEPT ![current] = "READY"], s)
  <2> DEFINE M == ll_entail(L, READY_LIST, current)
  <2> DEFINE u == [t EXCEPT ![current] = "READY"]
  <2>0. EntailPost(L, READY_LIST, current, M)
    BY <1>1, <1>2, EntailProperties
  <2> HIDE DEF M
  <2>1. /\ M \in ListsType /\ Disjoint(M)
        /\ \A x : x \in Elements(M[READY_LIST]) <=> (x \in Elements(L[READY_LIST]) \/ x = current)
        /\ \A g \in ListHead \ {READY_LIST} : M[g] = L[g]
        /\ \A x : OnList(M, x) <=> (OnList(L, x) \/ x = current)
    BY <1>1, <1>2, <2>0 DEF EntailPost
  <2>2. u \in StatesType /\ u[current] = "READY" /\ \A p \in Slot \ {current} : u[p] = t[p]
    BY <1>2 DEF StatesType, TaskState
  <2> HIDE DEF u
  <2>3. SwitchTo(M, u, s)
    BY <1>4 DEF M, u
  <2>4. IDLE \in Elements(M[READY_LIST])
    BY <1>2, <2>1
  <2>5. \A p \in Slot : u[p] = "SLEEPING" <=> p \in Elements(M[SLEEP_LIST])
    BY <1>1, <1>2, <2>1, <2>2 DEF OnList
  <2>6. /\ CoreOK(list', ts', timeslice', current') /\ RunsNow' /\ fault' = fault
        /\ \A h \in ListHead \ {READY_LIST} : list'[h] = M[h]
        /\ \A x : OnList(M, x) <=> (x = current' \/ OnList(list', x))
    BY <1>2, <2>1, <2>2, <2>3, <2>4, <2>5, SwitchToProperties
  <2> QED
    BY <2>1, <2>6
<1>5. CASE /\ t[current] # "SLEEPING" /\ ~SliceOver(t, s)
           /\ list' = L /\ ts' = t /\ timeslice' = s /\ UNCHANGED <<current, fault>>
  <2>1. s[current] \in Int /\ SLICE \in Int
    BY <1>2, WordAssumption DEF SlicesType, SLICE
  <2>2. t[current] = "RUNNING" /\ s[current] <= SLICE
    BY <1>5, <2>1 DEF SliceOver
  <2> QED
    BY <1>5, <2>2 DEF RunsNow
<1> QED
  BY <1>3, <1>4, <1>5 DEF DoScheduler, SliceOver

-----------------------------------------------------------------------------
(* The scheduling half of KernelInv, after a step.                         *)
CoreStep ==
  /\ CoreOK(list', ts', timeslice', current') /\ RunsNow' /\ fault' = fault
  /\ \A x : (x = current \/ OnList(list, x)) <=> (x = current' \/ OnList(list', x))

(* A step that moves processes between the processor, the ready and the    *)
(* sleep list only keeps the invariant.                                    *)
LEMMA PlainStepOfKeys ==
  ASSUME KernelInv, Alive, CoreStep,
         \A h \in ListHead \ {READY_LIST, SLEEP_LIST} : list'[h] = list[h],
         UNCHANGED <<procVars, semVars, ctrl, keydown_c>>, polling' \in BOOLEAN
  PROVE  KernelInv'
<1>1. /\ UNCHANGED <<used, pid, tt, next_pid, sem_used, sem_count, ctrl, keydown_c>>
      /\ fault' = fault
  BY DEF CoreStep, procVars, semVars
<1>2. TypeOK'
  BY <1>1 DEF KernelInv, TypeOK, CoreStep, CoreOK, ListsType, StatesType, SlicesType
<1>3. NoProcessLost'
  BY <1>1 DEF KernelInv, NoProcessLost, CoreStep, Alive
<1>4. SemCountsWaiters' /\ JoinersHaveTarget'
  BY <1>1, HeadsDistinct DEF KernelInv, SemCountsWaiters, JoinersHaveTarget
<1> QED
  BY <1>1, <1>2, <1>3, <1>4 DEF KernelInv, CoreStep

LEMMA PlainStep ==
  ASSUME KernelInv, Alive, CoreStep,
         \A h \in ListHead \ {READY_LIST, SLEEP_LIST} : list'[h] = list[h],
         UNCHANGED <<procVars, semVars, keyVars>>
  PROVE  KernelInv'
<1>1. UNCHANGED <<ctrl, keydown_c>> /\ polling' \in BOOLEAN
  BY DEF keyVars, KernelInv, TypeOK
<1> QED
  BY <1>1, PlainStepOfKeys

(* Blocking the running process at the end of a list h.                    *)
LEMMA BlockCurrent ==
  ASSUME KernelInv, NEW h \in ListHead \ {SLEEP_LIST}, current # IDLE,
         SwitchTo(ll_entail(list, h, current), ts, timeslice)
  PROVE  /\ CoreStep
         /\ h # READY_LIST => list'[h] = Append(list[h], current)
         /\ \A g \in ListHead \ {READY_LIST, h} : list'[g] = list[g]
<1> DEFINE M == ll_entail(list, h, current)
<1>1. READY_LIST \in ListHead /\ SLEEP_LIST \in ListHead /\ READY_LIST # SLEEP_LIST
  BY HeadsDistinct
<1>2. CoreOK(list, ts, timeslice, current) /\ ts[current] = "RUNNING"
  BY DEF KernelInv, RunsNow
<1>3. /\ M \in ListsType /\ Disjoint(M) /\ M[h] = Append(list[h], current)
      /\ \A x : x \in Elements(M[h]) <=> (x \in Elements(list[h]) \/ x = current)
      /\ \A g \in ListHead \ {h} : M[g] = list[g]
      /\ \A x : OnList(M, x) <=> (OnList(list, x) \/ x = current)
  <2>1. EntailPost(list, h, current, M)
    BY <1>2, EntailProperties DEF CoreOK
  <2> HIDE DEF M
  <2> QED
    BY <1>2, <2>1 DEF EntailPost, CoreOK
<1> HIDE DEF M
<1>4. SwitchTo(M, ts, timeslice)
  BY DEF M
<1>5. IDLE \in Elements(M[READY_LIST])
  BY <1>1, <1>2, <1>3 DEF CoreOK
<1>6. \A p \in Slot : ts[p] = "SLEEPING" <=> p \in Elements(M[SLEEP_LIST])
  BY <1>1, <1>2, <1>3 DEF CoreOK, OnList
<1>7. /\ CoreOK(list', ts', timeslice', current') /\ RunsNow' /\ fault' = fault
      /\ \A g \in ListHead \ {READY_LIST} : list'[g] = M[g]
      /\ \A x : OnList(M, x) <=> (x = current' \/ OnList(list', x))
  BY <1>2, <1>3, <1>4, <1>5, <1>6, SwitchToProperties DEF CoreOK
<1> QED
  BY <1>3, <1>7 DEF CoreStep

(* The first slot of a set, which pcb_create and join_current look for.    *)
LEMMA LeastSlot ==
  ASSUME NEW S \in SUBSET Slot, S # {}
  PROVE  (CHOOSE p \in S : \A q \in S : p <= q) \in S
<1> DEFINE R == {ss \in Nat \X Nat : ss[1] < ss[2]}
<1>1. S \subseteq Nat
  BY PoolAssumption DEF Slot
<1>2. IsWellFoundedOn(R, Nat)
  BY NatLessThanWellFounded DEF OpToRel
<1>3. \A x, y \in Nat : x < y => <<x, y>> \in R
  OBVIOUS
<1> HIDE DEF R
<1>4. PICK p \in S : \A q \in S : ~(<<q, p>> \in R)
  BY <1>1, <1>2, WFMin
<1>5. \A q \in S : p <= q
  <2> SUFFICES ASSUME NEW q \in S PROVE p <= q
    OBVIOUS
  <2>1. p \in Nat /\ q \in Nat /\ ~(q < p)
    BY <1>1, <1>3, <1>4
  <2> QED
    BY <2>1
<1> QED
  BY <1>5

-----------------------------------------------------------------------------
(* One lemma per kind of step.                                             *)

(* do_scheduler when the lists are as they were and only the running       *)
(* process has changed its state or timeslice.                             *)
LEMMA PlainScheduler ==
  ASSUME KernelInv, NEW t \in StatesType, NEW s \in SlicesType,
         \A p \in Slot \ {current} : t[p] = ts[p],
         t[current] \in {"RUNNING", "STOP", "SLEEPING"},
         current = IDLE => t[current] # "SLEEPING",
         DoScheduler(list, t, s)
  PROVE  /\ CoreStep
         /\ \A h \in ListHead \ {READY_LIST, SLEEP_LIST} : list'[h] = list[h]
<1>1. CoreOK(list, t, s, current)
  BY DEF KernelInv, CoreOK
<1> QED
  BY <1>1, DoSchedulerProperties DEF CoreStep

(* Putting the conjuncts of KernelInv together when PCBs and keyboard are  *)
(* untouched.                                                              *)
LEMMA Assemble ==
  ASSUME KernelInv, Alive, CoreStep, UNCHANGED <<procVars, keyVars>>,
         sem_used' \in [Sems -> BOOLEAN], sem_count' \in [Sems -> Int],
         SemCountsWaiters', JoinersHaveTarget'
  PROVE  KernelInv'
<1>1. /\ UNCHANGED <<used, pid, tt, next_pid, ctrl, keydown_c, polling>>
      /\ fault' = fault
  BY DEF CoreStep, procVars, keyVars
<1>2. TypeOK'
  BY <1>1 DEF KernelInv, TypeOK, CoreStep, CoreOK, ListsType, StatesType, SlicesType
<1>3. NoProcessLost'
  BY <1>1 DEF KernelInv, NoProcessLost, CoreStep, Alive
<1> QED
  BY <1>1, <1>2, <1>3 DEF KernelInv, CoreStep

(* yield()                                                                 *)
LEMMA HandoutStep ==
  ASSUME KernelInv, SysHandout PROVE KernelInv'
<1> DEFINE t == [ts EXCEPT ![current] = "STOP"]
<1>1. current \in Slot /\ ts \in StatesType /\ timeslice \in SlicesType
  BY DEF KernelInv, CoreOK
<1>2. t \in StatesType /\ t[current] = "STOP" /\ \A p \in Slot \ {current} : t[p] = ts[p]
  BY <1>1 DEF StatesType, TaskState
<1>3. DoScheduler(list, t, timeslice) /\ Alive /\ UNCHANGED <<procVars, semVars, keyVars>>
  BY DEF SysHandout, InterruptsOn
<1> HIDE DEF t
<1> QED
  BY <1>1, <1>2, <1>3, PlainScheduler, PlainStep

(* What a system call of a user process may rely on.                       *)
LEMMA UserNotIdle ==
  ASSUME KernelInv, UserRuns
  PROVE  /\ Alive /\ current \in Slot /\ current # IDLE /\ ts \in StatesType
         /\ timeslice \in SlicesType /\ list \in ListsType /\ ts[current] = "RUNNING"
BY DEF KernelInv, UserRuns, InterruptsOn, CoreOK, RunsNow

(* sleep(n)                                                                *)
LEMMA SleepStep ==
  ASSUME KernelInv, NEW n \in SleepArgs, SysSleep(n) PROVE KernelInv'
<1> DEFINE t == [ts EXCEPT ![current] = "SLEEPING"]
<1> DEFINE s == [timeslice EXCEPT ![current] = (n * HZ) % WORD]
<1>1. /\ current \in Slot /\ ts \in StatesType /\ timeslice \in SlicesType /\ Alive
      /\ current # IDLE
  BY UserNotIdle DEF SysSleep
<1>2. t \in StatesType /\ t[current] = "SLEEPING" /\ \A p \in Slot \ {current} : t[p] = ts[p]
  BY <1>1 DEF StatesType, TaskState
<1>3. s \in SlicesType
  <2>1. n * HZ \in Nat
    BY SleepAssumption
  <2>2. (n * HZ) % WORD \in 0 .. WORD - 1
    BY <2>1, WordAssumption DEF SLICE
  <2> QED
    BY <1>1, <2>2 DEF SlicesType
<1>4. DoScheduler(list, t, s) /\ UNCHANGED <<procVars, semVars, keyVars>>
  BY DEF SysSleep
<1> HIDE DEF t, s
<1> QED
  BY <1>1, <1>2, <1>3, <1>4, PlainScheduler, PlainStep

(* do_scheduler at the end of a system call that has touched no list and   *)
(* no state.                                                               *)
LEMMA EndScheduler ==
  ASSUME KernelInv, Alive, DoScheduler(list, ts, timeslice)
  PROVE  /\ CoreStep
         /\ \A h \in ListHead \ {READY_LIST, SLEEP_LIST} : list'[h] = list[h]
<1>1. /\ current \in Slot /\ ts \in StatesType /\ timeslice \in SlicesType
      /\ ts[current] = "RUNNING"
  BY DEF KernelInv, CoreOK, RunsNow
<1> QED
  BY <1>1, PlainScheduler

LEMMA ReturnScheduler ==
  ASSUME KernelInv, UserRuns, DoScheduler(list, ts, timeslice)
  PROVE  /\ CoreStep
         /\ \A h \in ListHead \ {READY_LIST, SLEEP_LIST} : list'[h] = list[h]
BY UserNotIdle, EndScheduler

(* A call that changes nothing here and ends in do_scheduler.              *)
LEMMA ReturnStep ==
  ASSUME KernelInv, SysReturn PROVE KernelInv'
BY ReturnScheduler, UserNotIdle, PlainStep DEF SysReturn

(* readline begins, and returns when a line has been typed.                *)
LEMMA ReadlineStep ==
  ASSUME KernelInv, SysReadline \/ ReadlineReturns PROVE KernelInv'
<1>1. CASE SysReadline
  <2>1. /\ UNCHANGED <<used, pid, tt, next_pid, ts, timeslice, list, current, fault,
                       sem_used, sem_count, ctrl, keydown_c>>
        /\ polling' \in BOOLEAN
    BY <1>1 DEF SysReadline, procVars, schedVars, semVars
  <2> QED
    BY <2>1 DEF KernelInv, TypeOK, RunsNow, NoProcessLost, Alive,
                SemCountsWaiters, JoinersHaveTarget
<1>2. CASE ReadlineReturns
  <2>1. /\ Alive /\ DoScheduler(list, ts, timeslice) /\ polling' \in BOOLEAN
        /\ UNCHANGED <<procVars, semVars, ctrl, keydown_c>>
    BY <1>2 DEF ReadlineReturns
  <2> QED
    BY <2>1, EndScheduler, PlainStepOfKeys
<1> QED
  BY <1>1, <1>2

(* exec_current: the caller goes to the end of the ready list.             *)
LEMMA ExecStep ==
  ASSUME KernelInv, SysExec PROVE KernelInv'
<1>1. UserRuns /\ Alive /\ current # IDLE
  BY UserNotIdle DEF SysExec
<1>2. /\ SwitchTo(ll_entail(list, READY_LIST, current), ts, timeslice)
      /\ UNCHANGED <<procVars, semVars, keyVars>>
  BY DEF SysExec
<1>3. READY_LIST \in ListHead \ {SLEEP_LIST}
  BY HeadsDistinct
<1>4. CoreStep /\ \A g \in ListHead \ {READY_LIST} : list'[g] = list[g]
  BY <1>1, <1>2, <1>3, BlockCurrent
<1> QED
  BY <1>1, <1>2, <1>4, PlainStep

(* fork() and thread(): the son's slot was free, so it is on no list.      *)
LEMMA CreateStep ==
  ASSUME KernelInv, CreateSon PROVE KernelInv'
<1> DEFINE son == FirstFree
<1> DEFINE L == ll_push(list, READY_LIST, son)
<1> DEFINE s == [timeslice EXCEPT ![son] = timeslice[current]]
<1>1. /\ UserRuns /\ Alive /\ current \in Slot /\ current # IDLE /\ ts \in StatesType
      /\ timeslice \in SlicesType /\ list \in ListsType /\ ts[current] = "RUNNING"
      /\ TypeOK /\ NoProcessLost /\ CoreOK(list, ts, timeslice, current)
  BY UserNotIdle DEF CreateSon, KernelInv
<1>2. son \in Slot /\ ~used[son]
  BY LeastSlot DEF CreateSon, FirstFree, FreeSlot
<1>3. /\ FreeSlot # {} /\ next_pid <= MaxPid
      /\ used' = [used EXCEPT ![son] = TRUE]
      /\ pid'  = [pid EXCEPT ![son] = next_pid]
      /\ tt'   = [tt EXCEPT ![son] = tt[current]]
      /\ next_pid' = next_pid + 1
      /\ DoScheduler(L, ts, s)
      /\ UNCHANGED <<sem_used, sem_count, ctrl, keydown_c, polling>>
  BY DEF CreateSon, NextPid, semVars, keyVars
<1>4. son # current /\ ~OnList(list, son)
  BY <1>1, <1>2 DEF NoProcessLost
<1>5. s \in SlicesType
  BY <1>1, <1>2 DEF SlicesType
<1>6. PushPost(list, READY_LIST, son, L)
  BY <1>1, <1>2, HeadsDistinct, PushProperties
<1> HIDE DEF son, L, s
<1>7. READY_LIST \in ListHead /\ SLEEP_LIST \in ListHead /\ READY_LIST # SLEEP_LIST
  BY HeadsDistinct
<1>8. CoreOK(L, ts, s, current)
  BY <1>1, <1>4, <1>5, <1>6, <1>7 DEF CoreOK, PushPost
<1>9. /\ CoreOK(list', ts', timeslice', current') /\ RunsNow' /\ fault' = fault
      /\ \A h \in ListHead \ {READY_LIST, SLEEP_LIST} : list'[h] = L[h]
      /\ \A x : (x = current \/ OnList(L, x)) <=> (x = current' \/ OnList(list', x))
  BY <1>1, <1>3, <1>8, DoSchedulerProperties
<1>10. \A h \in ListHead \ {READY_LIST, SLEEP_LIST} : list'[h] = list[h]
  BY <1>6, <1>9 DEF PushPost
<1>11. TypeOK'
  <2>1. next_pid' \in 1 .. MaxPid + 1 /\ next_pid \in 0 .. MaxPid
    BY <1>1, <1>3, PidAssumption DEF TypeOK
  <2>2. /\ used' \in [Slot -> BOOLEAN] /\ pid' \in [Slot -> 0 .. MaxPid]
        /\ tt' \in [Slot -> TaskType]
    BY <1>1, <1>2, <1>3, <2>1 DEF TypeOK
  <2>3. /\ ts' \in [Slot -> TaskState] /\ timeslice' \in [Slot -> 0 .. WORD - 1]
        /\ list' \in [ListHead -> Seq(Slot)] /\ current' \in Slot
    BY <1>9 DEF CoreOK, ListsType, StatesType, SlicesType
  <2> QED
    BY <1>1, <1>3, <1>9, <2>1, <2>2, <2>3 DEF TypeOK
<1>12. NoProcessLost'
  <2>1. \A p \in Slot : used'[p] <=> (used[p] \/ p = son)
    BY <1>1, <1>2, <1>3 DEF TypeOK
  <2>2. \A p \in Slot : used[p] <=> (p = current \/ OnList(list, p))
    BY <1>1 DEF NoProcessLost
  <2>3. \A p : OnList(L, p) <=> (OnList(list, p) \/ p = son)
    BY <1>6 DEF PushPost
  <2> QED
    BY <1>9, <2>1, <2>2, <2>3 DEF NoProcessLost
<1>13. SemCountsWaiters'
  BY <1>3, <1>10, HeadsDistinct DEF KernelInv, SemCountsWaiters
<1>14. JoinersHaveTarget'
  BY <1>1, <1>3, <1>10, HeadsDistinct DEF KernelInv, JoinersHaveTarget, TypeOK
<1>15. tt'[IDLE] = "KERNEL"
  <2>1. used[IDLE] /\ IDLE \in Slot
    BY <1>1, <1>7, IdleInSlot DEF NoProcessLost, CoreOK, OnList
  <2> QED
    BY <1>1, <1>2, <1>3, <2>1 DEF KernelInv, TypeOK
<1> QED
  BY <1>9, <1>11, <1>12, <1>13, <1>14, <1>15 DEF KernelInv

(* The two ways in which pcb_create brings the kernel down.                *)
LEMMA CreateFaultStep ==
  ASSUME KernelInv, CreateWithoutMemory \/ CreateBeyondPool PROVE KernelInv'
<1>1. /\ UNCHANGED <<pid, tt, next_pid, ts, timeslice, list, current,
                    sem_used, sem_count, ctrl, keydown_c, polling>>
      /\ fault' \in {"oom", "pool"}
  BY DEF CreateWithoutMemory, CreateBeyondPool, procVars, semVars, keyVars
<1>2. /\ used' \in [Slot -> BOOLEAN]
      /\ \A p \in Slot : used[p] => used'[p]
  BY DEF KernelInv, TypeOK, CreateWithoutMemory, CreateBeyondPool, procVars
<1>3. TypeOK' /\ NoProcessLost' /\ JoinersHaveTarget' /\ SemCountsWaiters'
  BY <1>1, <1>2 DEF KernelInv, TypeOK, NoProcessLost, Alive, JoinersHaveTarget, SemCountsWaiters
<1>4. CoreOK(list', ts', timeslice', current') /\ RunsNow'
  BY <1>1 DEF KernelInv, RunsNow
<1> QED
  BY <1>1, <1>3, <1>4 DEF KernelInv

(* exit_current(), called for SYS_EXIT and for Ctrl-C: everybody on the    *)
(* join list is in use, so all of them are woken.                          *)
LEMMA ExitStep ==
  ASSUME KernelInv, UserRuns, ExitCurrent, UNCHANGED semVars,
         ctrl' \in BOOLEAN, keydown_c' \in BOOLEAN, polling' \in BOOLEAN
  PROVE  KernelInv'
<1> DEFINE h == JoinList(current)
<1> DEFINE S == {p \in Elements(list[h]) : used[p]}
<1>1. /\ Alive /\ current \in Slot /\ current # IDLE /\ ts \in StatesType
      /\ timeslice \in SlicesType /\ list \in ListsType /\ ts[current] = "RUNNING"
      /\ TypeOK /\ NoProcessLost /\ CoreOK(list, ts, timeslice, current)
  BY UserNotIdle DEF KernelInv
<1>2. PICK woken \in InOrder(list[h], S) :
        /\ used' = [used EXCEPT ![current] = FALSE]
        /\ SwitchTo(ll_entail_each([list EXCEPT ![h] = << >>], READY_LIST, woken),
                    ts, timeslice)
        /\ UNCHANGED <<pid, tt, next_pid>>
  BY DEF ExitCurrent
<1>3. /\ READY_LIST \in ListHead /\ SLEEP_LIST \in ListHead /\ READY_LIST # SLEEP_LIST
      /\ h \in ListHead \ {READY_LIST} /\ h # SLEEP_LIST
  BY <1>1, HeadsDistinct
<1>4. list[h] \in Seq(Slot) /\ Injective(list[h])
  BY <1>1, <1>3, DisjointSplit DEF ListsType, CoreOK
<1>5. S = Elements(list[h])
  BY <1>1, <1>3, <1>4, ElementsFinite DEF NoProcessLost, OnList
<1>6. woken \in Seq(Slot) /\ Elements(woken) = Elements(list[h]) /\ Injective(woken)
  BY <1>2, <1>4, <1>5, InOrderProperties
<1> DEFINE M == ll_entail_each([list EXCEPT ![h] = << >>], READY_LIST, woken)
<1>7. MovePost(list, h, << >>, woken, M)
  <2>1. << >> \in Seq(Slot) /\ Elements(<< >>) = {} /\ Injective(<< >>)
    BY DEF Elements, Injective
  <2>2. Disjoint(list)
    BY <1>1 DEF CoreOK
  <2>3. /\ Elements(<< >>) \cup Elements(woken) = Elements(list[h])
        /\ Elements(<< >>) \cap Elements(woken) = {}
    BY <1>6, <2>1
  <2> HIDE DEF h, M
  <2>4. MovePost(list, h, << >>, woken,
                ll_entail_each([list EXCEPT ![h] = << >>], READY_LIST, woken))
    BY <1>1, <1>3, <1>6, <2>1, <2>2, <2>3, MoveProperties
  <2> QED
    BY <2>4 DEF M
<1>8. SwitchTo(M, ts, timeslice)
  BY <1>2
<1> HIDE DEF h, S, M
<1>9. IDLE \in Elements(M[READY_LIST])
  BY <1>1, <1>7 DEF MovePost, CoreOK
<1>10. \A p \in Slot : ts[p] = "SLEEPING" <=> p \in Elements(M[SLEEP_LIST])
  BY <1>1, <1>3, <1>7 DEF MovePost, CoreOK, OnList
<1>11. /\ CoreOK(list', ts', timeslice', current') /\ RunsNow' /\ fault' = fault
       /\ \A g \in ListHead \ {READY_LIST} : list'[g] = M[g]
       /\ \A x : OnList(M, x) <=> (x = current' \/ OnList(list', x))
  BY <1>1, <1>7, <1>8, <1>9, <1>10, SwitchToProperties DEF MovePost
<1>12. /\ \A g \in ListHead \ {READY_LIST, h} : list'[g] = list[g]
       /\ list'[h] = << >>
       /\ \A x : OnList(list, x) <=> (x = current' \/ OnList(list', x))
  BY <1>3, <1>7, <1>11 DEF MovePost
<1>13. UNCHANGED <<sem_used, sem_count>>
  BY DEF semVars
<1>14. TypeOK'
  BY <1>1, <1>2, <1>11, <1>13 DEF TypeOK, CoreOK, ListsType, StatesType, SlicesType
<1>15. NoProcessLost'
  <2>1. \A p \in Slot : used'[p] <=> (used[p] /\ p # current)
    BY <1>1, <1>2 DEF TypeOK
  <2>2. \A p \in Slot : used[p] <=> (p = current \/ OnList(list, p))
    BY <1>1 DEF NoProcessLost
  <2>3. ~OnList(list, current)
    BY <1>1 DEF CoreOK
  <2> QED
    BY <1>12, <2>1, <2>2, <2>3 DEF NoProcessLost
<1>16. SemCountsWaiters'
  <2>1. \A s \in Sems : list'[BlockList(s)] = list[BlockList(s)]
    BY <1>12, HeadsDistinct DEF h
  <2> QED
    BY <1>13, <2>1 DEF KernelInv, SemCountsWaiters
<1>17. JoinersHaveTarget'
  <2> SUFFICES ASSUME NEW p \in Slot, ~used'[p] PROVE list'[JoinList(p)] = << >>
    BY DEF JoinersHaveTarget
  <2>1. CASE p = current
    BY <1>12, <2>1 DEF h
  <2>2. CASE p # current
    <3>1. ~used[p]
      BY <1>1, <1>2, <2>2 DEF TypeOK
    <3>2. list'[JoinList(p)] = list[JoinList(p)]
      BY <1>12, <2>2, HeadsDistinct DEF h
    <3> QED
      BY <3>1, <3>2 DEF KernelInv, JoinersHaveTarget
  <2> QED
    BY <2>1, <2>2
<1> QED
  BY <1>2, <1>11, <1>14, <1>15, <1>16, <1>17 DEF KernelInv

(* process_join(n)                                                         *)
LEMMA JoinStep ==
  ASSUME KernelInv, NEW n \in 0 .. MaxPid, SysJoin(n) PROVE KernelInv'
<1>1. UserRuns /\ Alive /\ current # IDLE /\ UNCHANGED <<procVars, semVars, keyVars>>
  BY UserNotIdle DEF SysJoin
<1>2. CASE CanJoin(n) /\ SwitchTo(ll_entail(list, JoinList(FirstWithPid(n)), current), ts, timeslice)
  <2> DEFINE p == FirstWithPid(n)
  <2>1. p \in Slot /\ used[p]
    BY <1>2, LeastSlot DEF CanJoin, FirstWithPid, WithPid
  <2> HIDE DEF p
  <2>2. JoinList(p) \in ListHead \ {SLEEP_LIST}
    BY <2>1, HeadsDistinct
  <2>3. CoreStep /\ \A g \in ListHead \ {READY_LIST, JoinList(p)} : list'[g] = list[g]
    BY <1>1, <1>2, <2>2, BlockCurrent DEF p
  <2>4. SemCountsWaiters'
    <3>1. \A s \in Sems : list'[BlockList(s)] = list[BlockList(s)]
      BY <2>3, HeadsDistinct
    <3> QED
      BY <1>1, <3>1 DEF KernelInv, SemCountsWaiters, semVars
  <2>5. JoinersHaveTarget'
    <3>1. \A q \in Slot : q # p => list'[JoinList(q)] = list[JoinList(q)]
      BY <2>3, HeadsDistinct
    <3> QED
      BY <1>1, <2>1, <3>1 DEF KernelInv, JoinersHaveTarget, procVars
  <2> QED
    BY <1>1, <2>3, <2>4, <2>5, Assemble DEF KernelInv, TypeOK, semVars
<1>3. CASE DoScheduler(list, ts, timeslice)
  BY <1>1, <1>3, ReturnScheduler, PlainStep
<1> QED
  BY <1>2, <1>3 DEF SysJoin

(* do_scheduler after members of a waiting list have been made ready.      *)
LEMMA WakeScheduler ==
  ASSUME KernelInv, UserRuns, NEW h \in ListHead \ {READY_LIST, SLEEP_LIST},
         NEW stay, NEW woken, NEW M, MovePost(list, h, stay, woken, M),
         DoScheduler(M, ts, timeslice)
  PROVE  /\ CoreStep
         /\ list'[h] = stay
         /\ \A g \in ListHead \ {READY_LIST, SLEEP_LIST, h} : list'[g] = list[g]
<1>1. SLEEP_LIST \in ListHead /\ READY_LIST # SLEEP_LIST
  BY HeadsDistinct
<1>2. CoreOK(M, ts, timeslice, current)
  BY <1>1 DEF KernelInv, CoreOK, MovePost
<1>3. /\ CoreOK(list', ts', timeslice', current') /\ RunsNow' /\ fault' = fault
      /\ \A g \in ListHead \ {READY_LIST, SLEEP_LIST} : list'[g] = M[g]
      /\ \A x : (x = current \/ OnList(M, x)) <=> (x = current' \/ OnList(list', x))
  BY <1>2, UserNotIdle, DoSchedulerProperties
<1> QED
  BY <1>3 DEF CoreStep, MovePost

(* Putting KernelInv together after a semaphore call on s.                 *)
LEMMA SemAssemble ==
  ASSUME KernelInv, UserRuns, CoreStep, NEW s \in Sems, UNCHANGED <<procVars, keyVars>>,
         sem_used' \in [Sems -> BOOLEAN], sem_count' \in [Sems -> Int],
         \A g \in ListHead \ {READY_LIST, SLEEP_LIST, BlockList(s)} : list'[g] = list[g],
         \A u \in Sems \ {s} : sem_used'[u] = sem_used[u] /\ sem_count'[u] = sem_count[u],
         Len(list'[BlockList(s)]) =
           IF sem_used'[s] /\ sem_count'[s] < 0 THEN -(sem_count'[s]) ELSE 0
  PROVE  KernelInv'
<1>1. \A u \in Sems \ {s} : list'[BlockList(u)] = list[BlockList(u)]
  BY HeadsDistinct
<1>2. \A p \in Slot : list'[JoinList(p)] = list[JoinList(p)]
  BY HeadsDistinct
<1>3. SemCountsWaiters'
  BY <1>1 DEF KernelInv, SemCountsWaiters
<1>4. JoinersHaveTarget'
  BY <1>2 DEF KernelInv, JoinersHaveTarget, procVars
<1> QED
  BY <1>3, <1>4, Assemble, UserNotIdle

(* sem_init, sem_open                                                      *)
LEMMA SemInitStep ==
  ASSUME KernelInv, NEW s \in Sems, NEW c \in InitCounts, SemInit(s, c) PROVE KernelInv'
<1>1. /\ UserRuns /\ UNCHANGED <<procVars, keyVars>> /\ DoScheduler(list, ts, timeslice)
      /\ TypeOK /\ SemCountsWaiters
  BY DEF SemInit, KernelInv
<1>2. CoreStep /\ \A h \in ListHead \ {READY_LIST, SLEEP_LIST} : list'[h] = list[h]
  BY <1>1, ReturnScheduler
<1>3. list'[BlockList(s)] = list[BlockList(s)]
  BY <1>2, HeadsDistinct
<1>4. CASE sem_used[s]
  <2>1. UNCHANGED <<sem_used, sem_count>>
    BY <1>4 DEF SemInit, semVars
  <2> QED
    BY <1>1, <1>2, <1>3, <2>1, SemAssemble DEF TypeOK, SemCountsWaiters
<1>5. CASE ~sem_used[s]
  <2>1. /\ sem_count' = [sem_count EXCEPT ![s] = c] /\ sem_used' = [sem_used EXCEPT ![s] = TRUE]
        /\ c \in Nat
    BY <1>5, CountAssumption DEF SemInit
  <2>2. sem_used' \in [Sems -> BOOLEAN] /\ sem_count' \in [Sems -> Int]
    BY <1>1, <2>1 DEF TypeOK
  <2>3. Len(list'[BlockList(s)]) = 0 /\ sem_count'[s] >= 0
    BY <1>1, <1>3, <1>5, <2>1 DEF SemCountsWaiters, TypeOK
  <2>4. \A u \in Sems \ {s} : sem_used'[u] = sem_used[u] /\ sem_count'[u] = sem_count[u]
    BY <1>1, <2>1 DEF TypeOK
  <2> QED
    BY <1>1, <1>2, <2>2, <2>3, <2>4, SemAssemble
<1> QED
  BY <1>4, <1>5

(* sem_close: the whole block list becomes ready.                          *)
LEMMA SemCloseStep ==
  ASSUME KernelInv, NEW s \in Sems, SemClose(s) PROVE KernelInv'
<1> DEFINE h == BlockList(s)
<1>1. /\ UserRuns /\ UNCHANGED <<procVars, keyVars>> /\ sem_count' = sem_count
      /\ sem_used' = [sem_used EXCEPT ![s] = FALSE]
      /\ TypeOK /\ SemCountsWaiters /\ CoreOK(list, ts, timeslice, current)
  BY DEF SemClose, KernelInv
<1>2. h \in ListHead \ {READY_LIST, SLEEP_LIST}
  BY HeadsDistinct
<1>3. sem_used' \in [Sems -> BOOLEAN] /\ sem_count' \in [Sems -> Int] /\ ~sem_used'[s]
  BY <1>1 DEF TypeOK
<1>4. \A u \in Sems \ {s} : sem_used'[u] = sem_used[u] /\ sem_count'[u] = sem_count[u]
  BY <1>1 DEF TypeOK
<1>5. CASE ~sem_used[s]
  <2>1. DoScheduler(list, ts, timeslice)
    BY <1>5 DEF SemClose
  <2>2. CoreStep /\ \A g \in ListHead \ {READY_LIST, SLEEP_LIST} : list'[g] = list[g]
    BY <1>1, <2>1, ReturnScheduler
  <2>3. Len(list'[h]) = 0
    BY <1>1, <1>2, <1>5, <2>2 DEF SemCountsWaiters
  <2> QED
    BY <1>1, <1>3, <1>4, <2>2, <2>3, SemAssemble
<1>6. CASE sem_used[s]
  <2> DEFINE w == list[h]
  <2> DEFINE M == ll_entail_each([list EXCEPT ![h] = << >>], READY_LIST, w)
  <2>1. DoScheduler(M, ts, timeslice)
    BY <1>6 DEF SemClose
  <2>2. list \in ListsType /\ Disjoint(list) /\ w \in Seq(Slot) /\ Injective(w)
    BY <1>1, <1>2, DisjointSplit DEF CoreOK, ListsType
  <2>3. /\ << >> \in Seq(Slot) /\ Injective(<< >>)
        /\ Elements(<< >>) \cup Elements(w) = Elements(list[h])
        /\ Elements(<< >>) \cap Elements(w) = {}
    BY DEF Elements, Injective
  <2> HIDE DEF h, w
  <2>4. MovePost(list, h, << >>, w, M)
    BY <1>2, <2>2, <2>3, MoveProperties
  <2> HIDE DEF M
  <2>5. /\ CoreStep /\ list'[h] = << >>
        /\ \A g \in ListHead \ {READY_LIST, SLEEP_LIST, h} : list'[g] = list[g]
    BY <1>1, <1>2, <2>1, <2>4, WakeScheduler
  <2>6. /\ \A g \in ListHead \ {READY_LIST, SLEEP_LIST, BlockList(s)} : list'[g] = list[g]
        /\ Len(list'[BlockList(s)]) = 0
    BY <2>5 DEF h
  <2> QED
    BY <1>1, <1>3, <1>4, <2>5, <2>6, SemAssemble
<1> QED
  BY <1>5, <1>6

(* sem_post: a negative count means that somebody is blocked.              *)
LEMMA SemPostStep ==
  ASSUME KernelInv, NEW s \in Sems, SemPost(s) PROVE KernelInv'
<1> DEFINE h == BlockList(s)
<1>1. /\ UserRuns /\ UNCHANGED <<procVars, keyVars>> /\ sem_used' = sem_used
      /\ TypeOK /\ SemCountsWaiters /\ CoreOK(list, ts, timeslice, current)
      /\ sem_count[s] \in Int
  BY DEF SemPost, KernelInv, TypeOK
<1>2. h \in ListHead \ {READY_LIST, SLEEP_LIST} /\ READY_LIST \in ListHead
  BY HeadsDistinct
<1>3. CASE ~sem_used[s] /\ UNCHANGED sem_count /\ DoScheduler(list, ts, timeslice)
  <2>1. CoreStep /\ \A g \in ListHead \ {READY_LIST, SLEEP_LIST} : list'[g] = list[g]
    BY <1>1, <1>3, ReturnScheduler
  <2>2. Len(list'[h]) = 0
    BY <1>1, <1>2, <1>3, <2>1 DEF SemCountsWaiters
  <2> QED
    BY <1>1, <1>3, <2>1, <2>2, SemAssemble DEF TypeOK
<1>4. CASE /\ sem_used[s] /\ sem_count[s] + 1 > 0
           /\ sem_count' = [sem_count EXCEPT ![s] = @ + 1] /\ DoScheduler(list, ts, timeslice)
  <2>1. CoreStep /\ \A g \in ListHead \ {READY_LIST, SLEEP_LIST} : list'[g] = list[g]
    BY <1>1, <1>4, ReturnScheduler
  <2>2. /\ Len(list'[h]) = 0
        /\ sem_count'[s] > 0
    <3>1. Len(list[h]) = 0
      BY <1>1, <1>4 DEF SemCountsWaiters
    <3>2. sem_count'[s] = sem_count[s] + 1
      BY <1>1, <1>4 DEF TypeOK
    <3> QED
      BY <1>1, <1>2, <1>4, <2>1, <3>1, <3>2
  <2>3. /\ sem_count' \in [Sems -> Int] /\ sem_used' \in [Sems -> BOOLEAN]
        /\ \A u \in Sems \ {s} : sem_used'[u] = sem_used[u] /\ sem_count'[u] = sem_count[u]
    BY <1>1, <1>4 DEF TypeOK
  <2> QED
    BY <1>1, <2>1, <2>2, <2>3, SemAssemble
<1>5. CASE /\ sem_used[s] /\ sem_count[s] + 1 <= 0
           /\ sem_count' = [sem_count EXCEPT ![s] = @ + 1]
           /\ IF list[h] = << >>
              THEN fault' = "null" /\ UNCHANGED <<ts, timeslice, list, current>>
              ELSE DoScheduler(ll_entail([list EXCEPT ![h] = Tail(@)],
                                         READY_LIST, Head(list[h])), ts, timeslice)
  <2> DEFINE q == list[h]
  <2> DEFINE w == <<Head(q)>>
  <2> DEFINE M == ll_entail_each([list EXCEPT ![h] = Tail(q)], READY_LIST, w)
  <2>1. /\ list \in ListsType /\ Disjoint(list) /\ q \in Seq(Slot) /\ Injective(q)
        /\ list[READY_LIST] \in Seq(Slot)
    BY <1>1, <1>2, DisjointSplit DEF CoreOK, ListsType
  <2>2. Len(q) = -sem_count[s] /\ Len(q) > 0 /\ q # << >>
    BY <1>1, <1>5, <2>1 DEF SemCountsWaiters
  <2>3. /\ Head(q) \in Slot /\ Tail(q) \in Seq(Slot) /\ Injective(Tail(q))
        /\ Elements(q) = Elements(Tail(q)) \cup {Head(q)}
        /\ Head(q) \notin Elements(Tail(q))
        /\ Len(Tail(q)) = Len(q) - 1
    BY <2>1, <2>2, PopProperties
  <2>4. w \in Seq(Slot) /\ Elements(w) = {Head(q)} /\ Injective(w)
    BY <2>3 DEF Elements, Injective
  <2>5. ll_entail([list EXCEPT ![h] = Tail(@)], READY_LIST, Head(q)) = M
    <3>1. Append(list[READY_LIST], Head(q)) = list[READY_LIST] \o w
      BY <2>1, <2>3
    <3> QED
      BY <1>2, <2>1, <3>1 DEF ll_entail, ll_entail_each, ListsType
  <2>6. DoScheduler(M, ts, timeslice)
    BY <1>5, <2>2, <2>5
  <2> HIDE DEF h, q, w
  <2>7. MovePost(list, h, Tail(q), w, M)
    <3>1. /\ Elements(Tail(q)) \cup Elements(w) = Elements(list[h])
          /\ Elements(Tail(q)) \cap Elements(w) = {}
      BY <2>3, <2>4 DEF q
    <3> QED
      BY <1>2, <2>1, <2>3, <2>4, <3>1, MoveProperties
  <2> HIDE DEF M
  <2>8. /\ CoreStep /\ list'[h] = Tail(q)
        /\ \A g \in ListHead \ {READY_LIST, SLEEP_LIST, h} : list'[g] = list[g]
    BY <1>1, <1>2, <2>6, <2>7, WakeScheduler
  <2>9. /\ sem_count' \in [Sems -> Int] /\ sem_used' \in [Sems -> BOOLEAN]
        /\ \A u \in Sems \ {s} : sem_used'[u] = sem_used[u] /\ sem_count'[u] = sem_count[u]
        /\ sem_count'[s] = sem_count[s] + 1
    BY <1>1, <1>5 DEF TypeOK
  <2>10. /\ \A g \in ListHead \ {READY_LIST, SLEEP_LIST, BlockList(s)} : list'[g] = list[g]
         /\ Len(list'[BlockList(s)]) =
              IF sem_used'[s] /\ sem_count'[s] < 0 THEN -(sem_count'[s]) ELSE 0
    BY <1>1, <1>5, <2>2, <2>3, <2>8, <2>9 DEF h
  <2> QED
    BY <1>1, <2>8, <2>9, <2>10, SemAssemble
<1>6. sem_count[s] + 1 > 0 <=> ~WakesWaiter(s)
  BY <1>1 DEF WakesWaiter, TypeOK
<1>7. sem_count[s] + 1 <= 0 <=> WakesWaiter(s)
  BY <1>1 DEF WakesWaiter, TypeOK
<1> QED
  BY <1>3, <1>4, <1>5, <1>6, <1>7 DEF SemPost

(* sem_wait                                                                *)
LEMMA SemWaitStep ==
  ASSUME KernelInv, NEW s \in Sems, SemWait(s) PROVE KernelInv'
<1> DEFINE h == BlockList(s)
<1>1. /\ UserRuns /\ UNCHANGED <<procVars, keyVars>> /\ sem_used' = sem_used
      /\ TypeOK /\ SemCountsWaiters /\ CoreOK(list, ts, timeslice, current)
      /\ sem_count[s] \in Int /\ current # IDLE /\ current \in Slot
      /\ sem_count' = IF sem_used[s] THEN [sem_count EXCEPT ![s] = @ - 1] ELSE sem_count
  BY UserNotIdle DEF SemWait, KernelInv, TypeOK
<1>2. h \in ListHead \ {READY_LIST, SLEEP_LIST}
  BY HeadsDistinct
<1>3. /\ sem_count' \in [Sems -> Int] /\ sem_used' \in [Sems -> BOOLEAN]
      /\ \A u \in Sems \ {s} : sem_used'[u] = sem_used[u] /\ sem_count'[u] = sem_count[u]
      /\ sem_used[s] => sem_count'[s] = sem_count[s] - 1
  BY <1>1 DEF TypeOK
<1>4. list[h] \in Seq(Slot)
  BY <1>1, <1>2 DEF CoreOK, ListsType
<1>5. CASE sem_used[s] /\ sem_count[s] - 1 < 0
  <2>1. SwitchTo(ll_entail(list, h, current), ts, timeslice)
    BY <1>5 DEF SemWait, MustBlock
  <2> HIDE DEF h
  <2>2. /\ CoreStep /\ list'[h] = Append(list[h], current)
        /\ \A g \in ListHead \ {READY_LIST, h} : list'[g] = list[g]
    BY <1>1, <1>2, <2>1, BlockCurrent
  <2>3. Len(list'[h]) = Len(list[h]) + 1
    BY <1>1, <1>4, <2>2
  <2>4. Len(list'[BlockList(s)]) =
          IF sem_used'[s] /\ sem_count'[s] < 0 THEN -(sem_count'[s]) ELSE 0
    BY <1>1, <1>3, <1>5, <2>3 DEF SemCountsWaiters, h
  <2>5. \A g \in ListHead \ {READY_LIST, SLEEP_LIST, BlockList(s)} : list'[g] = list[g]
    BY <2>2 DEF h
  <2> QED
    BY <1>1, <1>3, <2>2, <2>4, <2>5, SemAssemble
<1>6. CASE ~(sem_used[s] /\ sem_count[s] - 1 < 0)
  <2>1. DoScheduler(list, ts, timeslice)
    BY <1>6 DEF SemWait, MustBlock
  <2>2. CoreStep /\ \A g \in ListHead \ {READY_LIST, SLEEP_LIST} : list'[g] = list[g]
    BY <1>1, <2>1, ReturnScheduler
  <2>3. Len(list'[h]) = IF sem_used'[s] /\ sem_count'[s] < 0 THEN -(sem_count'[s]) ELSE 0
    BY <1>1, <1>2, <1>3, <1>6, <2>2 DEF SemCountsWaiters
  <2> QED
    BY <1>1, <1>3, <2>2, <2>3, SemAssemble
<1> QED
  BY <1>5, <1>6

(* sem_trywait                                                             *)
LEMMA SemTrywaitStep ==
  ASSUME KernelInv, NEW s \in Sems, SemTrywait(s) PROVE KernelInv'
<1> DEFINE h == BlockList(s)
<1>1. /\ UserRuns /\ UNCHANGED <<procVars, keyVars>> /\ sem_used' = sem_used
      /\ TypeOK /\ SemCountsWaiters /\ sem_count[s] \in Int
      /\ sem_count' = IF sem_used[s] /\ sem_count[s] > 0
                      THEN [sem_count EXCEPT ![s] = @ - 1] ELSE sem_count
      /\ DoScheduler(list, ts, timeslice)
  BY DEF SemTrywait, KernelInv, TypeOK
<1>2. h \in ListHead \ {READY_LIST, SLEEP_LIST}
  BY HeadsDistinct
<1>3. /\ sem_count' \in [Sems -> Int] /\ sem_used' \in [Sems -> BOOLEAN]
      /\ \A u \in Sems \ {s} : sem_used'[u] = sem_used[u] /\ sem_count'[u] = sem_count[u]
      /\ sem_used[s] /\ sem_count[s] > 0 => sem_count'[s] = sem_count[s] - 1
      /\ ~(sem_used[s] /\ sem_count[s] > 0) => sem_count'[s] = sem_count[s]
  BY <1>1 DEF TypeOK
<1>4. CoreStep /\ \A g \in ListHead \ {READY_LIST, SLEEP_LIST} : list'[g] = list[g]
  BY <1>1, ReturnScheduler
<1>5. Len(list'[h]) = IF sem_used'[s] /\ sem_count'[s] < 0 THEN -(sem_count'[s]) ELSE 0
  BY <1>1, <1>2, <1>3, <1>4 DEF SemCountsWaiters
<1> QED
  BY <1>1, <1>3, <1>4, <1>5, SemAssemble

(* The timer interrupt: the running process gains a tick, every sleeper    *)
(* loses one, and those that reach 0 move from the sleep to the ready list.*)
LEMMA TimerStep ==
  ASSUME KernelInv, TimerIrq PROVE KernelInv'
<1> DEFINE q == list[SLEEP_LIST]
<1> DEFINE t == [p \in Slot |-> IF p \in Expired THEN "READY" ELSE ts[p]]
<1>1. /\ Alive /\ UNCHANGED <<procVars, semVars, keyVars>>
      /\ CoreOK(list, ts, timeslice, current) /\ RunsNow
  BY DEF TimerIrq, InterruptsOn, KernelInv
<1>2. /\ list \in ListsType /\ ts \in StatesType /\ timeslice \in SlicesType
      /\ current \in Slot /\ Disjoint(list) /\ ~OnList(list, current)
  BY <1>1 DEF CoreOK
<1>3. PICK woken \in InOrder(q, Expired), asleep \in InOrder(q, Asleep \ Expired) :
        DoScheduler(ll_entail_each([list EXCEPT ![SLEEP_LIST] = asleep], READY_LIST, woken),
                    t, Ticked)
  BY DEF TimerIrq, Awake
<1>4. /\ READY_LIST \in ListHead
      /\ SLEEP_LIST \in ListHead \ {READY_LIST}
  BY HeadsDistinct
<1>5. q \in Seq(Slot) /\ Injective(q)
  BY <1>2, <1>4, DisjointSplit DEF ListsType
<1>6. /\ Expired \subseteq Elements(q) /\ Asleep = Elements(q) /\ Elements(q) \subseteq Slot
      /\ current \notin Elements(q)
  BY <1>2, <1>4, <1>5, ElementsFinite DEF Expired, Asleep, OnList
<1>7. /\ woken \in Seq(Slot) /\ Elements(woken) = Expired /\ Injective(woken)
      /\ asleep \in Seq(Slot) /\ Elements(asleep) = Asleep \ Expired /\ Injective(asleep)
  BY <1>3, <1>5, <1>6, InOrderProperties
<1> DEFINE M == ll_entail_each([list EXCEPT ![SLEEP_LIST] = asleep], READY_LIST, woken)
<1>8. MovePost(list, SLEEP_LIST, asleep, woken, M)
  <2>1. /\ Elements(asleep) \cup Elements(woken) = Elements(list[SLEEP_LIST])
        /\ Elements(asleep) \cap Elements(woken) = {}
    BY <1>6, <1>7
  <2> QED
    BY <1>2, <1>4, <1>7, <2>1, MoveProperties
<1>9. DoScheduler(M, t, Ticked)
  BY <1>3
<1>10. /\ t \in StatesType /\ t[current] = "RUNNING"
       /\ \A p \in Slot : t[p] = IF p \in Expired THEN "READY" ELSE ts[p]
  BY <1>1, <1>2, <1>6 DEF StatesType, TaskState, RunsNow
<1>11. Ticked \in SlicesType
  <2>1. ASSUME NEW p \in Slot
        PROVE  /\ (timeslice[p] + 1) % WORD \in 0 .. WORD - 1
               /\ (timeslice[p] + WORD - 1) % WORD \in 0 .. WORD - 1
    <3>1. timeslice[p] + 1 \in Int /\ timeslice[p] + WORD - 1 \in Int
      BY <1>2, WordAssumption DEF SlicesType, SLICE
    <3> QED
      BY <3>1, WordAssumption DEF SLICE
  <2> QED
    BY <1>2, <2>1 DEF Ticked, SlicesType
<1> HIDE DEF q, t, M
<1>12. CoreOK(M, t, Ticked, current)
  <2>1. \A p \in Slot \ {current} : t[p] = "SLEEPING" <=> p \in Elements(M[SLEEP_LIST])
    <3>1. M[SLEEP_LIST] = asleep
      BY <1>8 DEF MovePost
    <3>2. \A p \in Slot \ {current} : ts[p] = "SLEEPING" <=> p \in Asleep
      BY <1>1 DEF CoreOK, Asleep
    <3> QED
      BY <1>7, <1>10, <3>1, <3>2
  <2>2. current = IDLE \/ IDLE \in Elements(M[READY_LIST])
    BY <1>1, <1>8 DEF CoreOK, MovePost
  <2> QED
    BY <1>2, <1>8, <1>10, <1>11, <2>1, <2>2 DEF CoreOK, MovePost
<1>13. /\ CoreOK(list', ts', timeslice', current') /\ RunsNow' /\ fault' = fault
       /\ \A h \in ListHead \ {READY_LIST, SLEEP_LIST} : list'[h] = M[h]
       /\ \A x : (x = current \/ OnList(M, x)) <=> (x = current' \/ OnList(list', x))
  BY <1>9, <1>10, <1>12, DoSchedulerProperties
<1>14. CoreStep /\ \A h \in ListHead \ {READY_LIST, SLEEP_LIST} : list'[h] = list[h]
  BY <1>8, <1>13 DEF CoreStep, MovePost
<1> QED
  BY <1>1, <1>14, PlainStep

(* The keyboard interrupt, with and without the chord.                     *)
LEMMA KeyboardStep ==
  ASSUME KernelInv, NEW code \in KeyCodes, KeyboardIrq(code) PROVE KernelInv'
<1>1. /\ InterruptsOn /\ Alive /\ UNCHANGED semVars
      /\ ctrl' \in BOOLEAN /\ keydown_c' \in BOOLEAN /\ polling' \in BOOLEAN
  BY DEF KeyboardIrq, InterruptsOn, KernelInv, TypeOK
<1>2. CASE tt[current] # "KERNEL" /\ ExitCurrent
  BY <1>1, <1>2, ExitStep DEF UserRuns
<1>3. CASE UNCHANGED <<procVars, schedVars>>
  <2>1. UNCHANGED <<used, pid, tt, next_pid, ts, timeslice, list, current, fault,
                    sem_used, sem_count>>
    BY <1>1, <1>3 DEF procVars, schedVars, semVars
  <2> QED
    BY <1>1, <2>1 DEF KernelInv, TypeOK, RunsNow, NoProcessLost, Alive,
                      SemCountsWaiters, JoinersHaveTarget
<1> QED
  BY <1>2, <1>3 DEF KeyboardIrq

(* Putting one process in front of another leaves two ready processes.     *)
LEMMA HeadOfBoot ==
  ASSUME NEW a \in Slot, NEW b \in Slot PROVE Head(<<a>> \o <<b>>) = a
OBVIOUS

(* Popping the first of two ready processes leaves the other.              *)
LEMMA TailOfBoot ==
  ASSUME NEW a \in Slot, NEW b \in Slot PROVE Tail(<<a>> \o <<b>>) = <<b>>
<1>1. <<a>> \in Seq(Slot) /\ <<b>> \in Seq(Slot)
  OBVIOUS
<1>2. <<a>> \o <<b>> \in Seq(Slot) /\ Len(<<a>> \o <<b>>) = 2 /\ (<<a>> \o <<b>>)[2] = b
  BY <1>1, ConcatProperties
<1>3. Tail(<<a>> \o <<b>>) \in Seq(Slot) /\ Len(Tail(<<a>> \o <<b>>)) = 1
  BY <1>2
<1>4. Tail(<<a>> \o <<b>>)[1] = b
  BY <1>2
<1>5. Len(<<b>>) = 1 /\ <<b>>[1] = b
  OBVIOUS
<1>6. Len(Tail(<<a>> \o <<b>>)) = Len(<<b>>)
  BY <1>3, <1>5
<1>7. \A i \in 1 .. Len(Tail(<<a>> \o <<b>>)) : Tail(<<a>> \o <<b>>)[i] = <<b>>[i]
  BY <1>3, <1>4, <1>5
<1> QED
  BY <1>1, <1>3, <1>6, <1>7, SeqEqual, Zenon

(* Boot establishes the invariant.                                         *)
LEMMA InitStep ==
  ASSUME Init PROVE KernelInv
<1>1. /\ IDLE \in Slot /\ SHELL \in Slot /\ IDLE # SHELL /\ READY_LIST \in ListHead
      /\ SLEEP_LIST \in ListHead /\ READY_LIST # SLEEP_LIST
  BY IdleInSlot, HeadsDistinct
<1>2. Head(BootReady) = SHELL /\ Tail(BootReady) = <<IDLE>>
  <2>1. << >> \in Seq(Slot) /\ <<IDLE>> \in Seq(Slot) /\ <<SHELL>> \in Seq(Slot)
    BY <1>1
  <2>2. <<IDLE>> \o << >> = <<IDLE>>
    BY <2>1, ConcatEmptySeq
  <2>3. Head(<<SHELL>> \o <<IDLE>>) = SHELL /\ Tail(<<SHELL>> \o <<IDLE>>) = <<IDLE>>
    BY <1>1, HeadOfBoot, TailOfBoot
  <2> QED
    BY <2>2, <2>3 DEF BootReady, enready_pcb
<1>3. /\ list = [h \in ListHead |-> IF h = READY_LIST THEN <<IDLE>> ELSE << >>]
      /\ current = SHELL
      /\ ts = [p \in Slot |-> IF p = SHELL THEN "RUNNING" ELSE "READY"]
  BY <1>2 DEF Init
<1>4. /\ list[READY_LIST] = <<IDLE>> /\ Elements(list[READY_LIST]) = {IDLE}
      /\ \A h \in ListHead \ {READY_LIST} : list[h] = << >> /\ Elements(list[h]) = {}
  BY <1>1, <1>3 DEF Elements
<1>5. list \in ListsType
  <2>1. <<IDLE>> \in Seq(Slot) /\ << >> \in Seq(Slot)
    BY <1>1
  <2> QED
    BY <1>1, <1>3, <2>1 DEF ListsType
<1>6. \A x : OnList(list, x) <=> x = IDLE
  <2>1. \A x : \A h \in ListHead : x \in Elements(list[h]) => x = IDLE
    <3> SUFFICES ASSUME NEW x, NEW h \in ListHead, x \in Elements(list[h]) PROVE x = IDLE
      OBVIOUS
    <3>1. CASE h = READY_LIST
      BY <1>4, <3>1
    <3>2. CASE h # READY_LIST
      BY <1>4, <3>2
    <3> QED
      BY <3>1, <3>2
  <2>2. IDLE \in Elements(list[READY_LIST])
    BY <1>4
  <2> QED
    BY <1>1, <2>1, <2>2, Zenon DEF OnList
<1>7. Disjoint(list)
  <2>1. Injective(<<IDLE>>) /\ Injective(<< >>)
    BY DEF Injective
  <2>2. \A h \in ListHead : Injective(list[h])
    BY <1>1, <1>4, <2>1
  <2>3. \A g, h \in ListHead : g # h => Elements(list[g]) \cap Elements(list[h]) = {}
    BY <1>1, <1>4
  <2> QED
    BY <1>1, <2>2, <2>3, DisjointSplit
<1>8. timeslice = [p \in Slot |-> 0] /\ WORD \in Nat /\ WORD > 3
  BY WordAssumption DEF Init, SLICE
<1>9. CoreOK(list, ts, timeslice, current) /\ RunsNow
  BY <1>1, <1>3, <1>4, <1>5, <1>6, <1>7, <1>8
     DEF CoreOK, RunsNow, StatesType, SlicesType, TaskState, SLICE
<1>10. TypeOK
  <2>1. used \in [Slot -> BOOLEAN] /\ tt \in [Slot -> TaskType]
    BY DEF Init, TaskType, init_pcb
  <2>2. pid \in [Slot -> 0 .. MaxPid] /\ next_pid \in 1 .. MaxPid + 1
    BY PidAssumption DEF Init
  <2>3. sem_used \in [Sems -> BOOLEAN] /\ sem_count \in [Sems -> Int]
    BY DEF Init
  <2>4. ctrl \in BOOLEAN /\ keydown_c \in BOOLEAN /\ polling \in BOOLEAN /\ fault \in {"none", "null", "oom", "pool"}
    BY DEF Init
  <2>5. /\ ts \in [Slot -> TaskState] /\ timeslice \in [Slot -> 0 .. WORD - 1]
        /\ current \in Slot \cup {NULL}
    BY <1>1, <1>3, <1>8 DEF TaskState
  <2> QED
    BY <1>5, <2>1, <2>2, <2>3, <2>4, <2>5 DEF TypeOK, ListsType
<1>11. NoProcessLost
  BY <1>3, <1>6 DEF NoProcessLost, Init
<1>12. SemCountsWaiters /\ JoinersHaveTarget
  BY <1>4, HeadsDistinct DEF SemCountsWaiters, JoinersHaveTarget, Init
<1>13. tt[IDLE] = "KERNEL" /\ fault = "none"
  BY <1>1 DEF Init, init_pcb
<1> QED
  BY <1>9, <1>10, <1>11, <1>12, <1>13 DEF KernelInv

(* Every step keeps the invariant.                                         *)
LEMMA NextStep ==
  ASSUME KernelInv, [Next]_vars PROVE KernelInv'
<1>1. CASE SysHandout
  BY <1>1, HandoutStep
<1>2. CASE \E n \in SleepArgs : SysSleep(n)
  BY <1>2, SleepStep
<1>3. CASE SysReturn \/ SysReadline \/ ReadlineReturns
  BY <1>3, ReturnStep, ReadlineStep
<1>4. CASE SysExec
  BY <1>4, ExecStep
<1>5. CASE SysFork \/ SysThread
  BY <1>5, CreateStep DEF SysFork, SysThread
<1>6. CASE CreateWithoutMemory \/ CreateBeyondPool
  BY <1>6, CreateFaultStep
<1>7. CASE SysExit
  <2>1. ctrl' \in BOOLEAN /\ keydown_c' \in BOOLEAN /\ polling' \in BOOLEAN
    BY <1>7 DEF SysExit, keyVars, KernelInv, TypeOK
  <2> QED
    BY <1>7, <2>1, ExitStep DEF SysExit
<1>8. CASE \E n \in 0 .. MaxPid : SysJoin(n)
  BY <1>8, JoinStep
<1>9. CASE \E s \in Sems : \/ \E c \in InitCounts : SemInit(s, c)
                           \/ SemClose(s)
                           \/ SemPost(s)
                           \/ SemWait(s)
                           \/ SemTrywait(s)
  BY <1>9, SemInitStep, SemCloseStep, SemPostStep, SemWaitStep, SemTrywaitStep
<1>10. CASE TimerIrq
  BY <1>10, TimerStep
<1>11. CASE \E code \in KeyCodes : KeyboardIrq(code)
  BY <1>11, KeyboardStep
<1>12. CASE UNCHANGED vars
  BY <1>12 DEF vars, procVars, schedVars, semVars, keyVars, KernelInv, TypeOK, RunsNow,
              NoProcessLost, Alive, SemCountsWaiters, JoinersHaveTarget
<1> QED
  BY <1>1, <1>2, <1>3, <1>4, <1>5, <1>6, <1>7, <1>8, <1>9, <1>10, <1>11, <1>12
     DEF Next, Syscall, SysPrintChar, Hang

-----------------------------------------------------------------------------
(* KernelInv is an invariant of the kernel.                                *)
THEOREM KernelInvariant == Spec => []KernelInv
<1>1. Init => KernelInv
  BY InitStep
<1>2. KernelInv /\ [Next]_vars => KernelInv'
  BY NextStep
<1> QED
  BY <1>1, <1>2, PTL DEF Spec

(* Every variable keeps its C type.                                        *)
THEOREM TypeCorrect == Spec => []TypeOK
<1>1. KernelInv => TypeOK
  BY DEF KernelInv
<1> QED
  BY <1>1, KernelInvariant, PTL

(* No PCB is ever linked twice, nor the running one linked at all.         *)
THEOREM OnePlaceAlways == Spec => []OnePlace
<1>1. KernelInv => OnePlace
  BY DEF KernelInv, CoreOK, OnePlace
<1> QED
  BY <1>1, KernelInvariant, PTL

(* The kernel never loses a process.                                       *)
THEOREM NoProcessEverLost == Spec => []NoProcessLost
<1>1. KernelInv => NoProcessLost
  BY DEF KernelInv
<1> QED
  BY <1>1, KernelInvariant, PTL

(* A negative semaphore count is the number of processes it blocks.        *)
THEOREM SemCountsWaitersAlways == Spec => []SemCountsWaiters
<1>1. KernelInv => SemCountsWaiters
  BY DEF KernelInv
<1> QED
  BY <1>1, KernelInvariant, PTL

(* The kernel never follows a null PCB pointer.                            *)
THEOREM NoNullPcbAlways == Spec => []NoNullPcb
<1>1. KernelInv => NoNullPcb
  BY NullAssumption DEF KernelInv, CoreOK, NoNullPcb
<1> QED
  BY <1>1, KernelInvariant, PTL

(* User code runs in state RUNNING and within its slice.                   *)
THEOREM RunsWithinSliceAlways == Spec => []RunsWithinSlice
<1>1. KernelInv => RunsWithinSlice
  BY DEF KernelInv, RunsNow, RunsWithinSlice
<1> QED
  BY <1>1, KernelInvariant, PTL

(* The sleep list holds exactly the sleepers.                              *)
THEOREM SleepersOnSleepListAlways == Spec => []SleepersOnSleepList
<1>1. KernelInv => SleepersOnSleepList
  <2> SUFFICES ASSUME KernelInv PROVE {p \in Slot : ts[p] = "SLEEPING"} = Asleep
    BY DEF SleepersOnSleepList
  <2>1. /\ CoreOK(list, ts, timeslice, current) /\ ts[current] = "RUNNING"
        /\ list[SLEEP_LIST] \in Seq(Slot) /\ SLEEP_LIST \in ListHead
    BY HeadsDistinct DEF KernelInv, RunsNow, CoreOK, ListsType
  <2>2. Asleep \subseteq Slot /\ current \notin Asleep
    BY <2>1, ElementsFinite DEF Asleep, CoreOK, OnList
  <2> QED
    BY <2>1, <2>2 DEF CoreOK, Asleep
<1> QED
  BY <1>1, KernelInvariant, PTL

(* No joiner waits for a process that is gone.                             *)
THEOREM JoinersHaveTargetAlways == Spec => []JoinersHaveTarget
<1>1. KernelInv => JoinersHaveTarget
  BY DEF KernelInv
<1> QED
  BY <1>1, KernelInvariant, PTL

-----------------------------------------------------------------------------
(* Pids.                                                                   *)

(* The counter is ahead of every pid that was ever given, so a new pid is  *)
(* new also among the pids that dead processes have left behind.           *)
PidInv == PidsUnique /\ \A p \in Slot : pid[p] < next_pid

(* pcb_create gives the son a pid nobody has had.                          *)
LEMMA CreatePids ==
  ASSUME KernelInv, PidInv, CreateSon PROVE PidInv'
<1>1. /\ pid \in [Slot -> 0 .. MaxPid] /\ next_pid \in 1 .. MaxPid + 1 /\ MaxPid \in Nat
      /\ next_pid' = next_pid + 1
  BY PidAssumption DEF KernelInv, TypeOK, CreateSon, NextPid
<1>2. PICK son : pid' = [pid EXCEPT ![son] = next_pid]
  BY DEF CreateSon
<1>3. \A p \in Slot : pid'[p] = IF p = son THEN next_pid ELSE pid[p]
  BY <1>1, <1>2
<1>4. \A p \in Slot : pid[p] \in Nat /\ pid[p] < next_pid
  BY <1>1 DEF PidInv
<1>5. PidsUnique'
  BY <1>1, <1>3, <1>4 DEF PidInv, PidsUnique
<1>6. \A p \in Slot : pid'[p] < next_pid'
  BY <1>1, <1>3, <1>4
<1> QED
  BY <1>5, <1>6 DEF PidInv

(* Nobody but pcb_create writes a pid.                                     *)
LEMMA OtherPids ==
  ASSUME [Next]_vars, ~CreateSon PROVE UNCHANGED <<pid, next_pid>>
<1>1. CASE Syscall
  <2>1. CASE SysHandout \/ SysReturn \/ SysReadline \/ ReadlineReturns \/ SysPrintChar \/ SysExec
    BY <2>1 DEF SysHandout, SysReturn, SysReadline, ReadlineReturns, SysPrintChar, SysExec,
                vars, procVars
  <2>2. CASE \E n \in SleepArgs : SysSleep(n)
    BY <2>2 DEF SysSleep, procVars
  <2>3. CASE CreateWithoutMemory \/ CreateBeyondPool
    BY <2>3 DEF CreateWithoutMemory, CreateBeyondPool, procVars
  <2>4. CASE SysExit
    BY <2>4 DEF SysExit, ExitCurrent
  <2>5. CASE \E n \in 0 .. MaxPid : SysJoin(n)
    BY <2>5 DEF SysJoin, procVars
  <2>6. CASE \E s \in Sems : \E c \in InitCounts : SemInit(s, c)
    BY <2>6 DEF SemInit, procVars
  <2>7. CASE \E s \in Sems : SemClose(s) \/ SemPost(s)
    BY <2>7 DEF SemClose, SemPost, procVars
  <2>8. CASE \E s \in Sems : SemWait(s) \/ SemTrywait(s)
    BY <2>8 DEF SemWait, SemTrywait, procVars
  <2> QED
    BY <1>1, <2>1, <2>2, <2>3, <2>4, <2>5, <2>6, <2>7, <2>8
       DEF Syscall, SysFork, SysThread
<1>2. CASE TimerIrq
  BY <1>2 DEF TimerIrq, procVars
<1>3. CASE \E code \in KeyCodes : KeyboardIrq(code)
  BY <1>3 DEF KeyboardIrq, ExitCurrent, procVars
<1>4. CASE Hang \/ UNCHANGED vars
  BY <1>4 DEF Hang, vars, procVars
<1> QED
  BY <1>1, <1>2, <1>3, <1>4 DEF Next

(* A pid names one PCB at most, the PCBs of dead processes included: the   *)
(* first match of join_current is the process that was meant.              *)
THEOREM PidsAlwaysUnique == Spec => []PidsUnique
<1>1. Init => PidInv
  <2> SUFFICES ASSUME Init PROVE PidInv
    OBVIOUS
  <2>1. \A p \in Slot : pid[p] = IF p = IDLE THEN 1 ELSE IF p = SHELL THEN 2 ELSE 0
    BY DEF Init
  <2>2. next_pid = 3
    BY DEF Init
  <2> QED
    BY <2>1, <2>2 DEF PidInv, PidsUnique
<1>2. KernelInv /\ PidInv /\ [Next]_vars => PidInv'
  BY CreatePids, OtherPids DEF PidInv, PidsUnique
<1>3. PidInv => PidsUnique
  BY DEF PidInv
<1> QED
  BY <1>1, <1>2, <1>3, KernelInvariant, PTL DEF Spec

-----------------------------------------------------------------------------
(* The order of the queues.                                                *)

(* r holds the members of q moved by d places; those that would come       *)
(* before its beginning are gone.                                          *)
Shifted(q, r, d) ==
  \A i \in DOMAIN q : i + d >= 1 => i + d \in DOMAIN r /\ r[i + d] = q[i]

(* A list that is left alone, emptied or popped, ...                       *)
LEMMA ShiftSame ==
  ASSUME NEW q \in Seq(Slot)
  PROVE  /\ Len(q) \in Nat /\ Shifted(q, q, 0)
         /\ Shifted(q, << >>, -Len(q)) /\ Shifted(q, ll_rest(q), -1)
BY DEF Shifted, ll_rest

(* ... to which one process or several are queued, ...                     *)
LEMMA ShiftAppend ==
  ASSUME NEW q \in Seq(Slot), NEW p \in Slot PROVE Shifted(q, Append(q, p), 0)
BY DEF Shifted

LEMMA ShiftConcat ==
  ASSUME NEW q \in Seq(Slot), NEW w \in Seq(Slot) PROVE Shifted(q, q \o w, 0)
BY DEF Shifted

(* ... or that gets a new head.                                            *)
LEMMA ShiftPush ==
  ASSUME NEW q \in Seq(Slot), NEW p \in Slot
  PROVE  Shifted(q, <<p>> \o q, 1) /\ (<<p>> \o q)[1] = p
<1>1. <<p>> \in Seq(Slot) /\ Len(<<p>>) = 1 /\ <<p>>[1] = p
  OBVIOUS
<1> QED
  BY <1>1 DEF Shifted

(* One operation after another.                                            *)
LEMMA ShiftTwice ==
  ASSUME NEW q \in Seq(Slot), NEW r \in Seq(Slot), NEW u \in Seq(Slot),
         NEW d \in Int, NEW e \in Int, e <= 0, Shifted(q, r, d), Shifted(r, u, e)
  PROVE  Shifted(q, u, d + e)
<1> SUFFICES ASSUME NEW i \in DOMAIN q, i + (d + e) >= 1
             PROVE  i + (d + e) \in DOMAIN u /\ u[i + (d + e)] = q[i]
  BY DEF Shifted
<1>1. i \in Int /\ i + d >= 1 /\ (i + d) + e = i + (d + e) /\ (i + d) + e >= 1
  OBVIOUS
<1>2. i + d \in DOMAIN r /\ r[i + d] = q[i]
  BY <1>1 DEF Shifted
<1>3. (i + d) + e \in DOMAIN u /\ u[(i + d) + e] = r[i + d]
  BY <1>1, <1>2 DEF Shifted
<1> QED
  BY <1>1, <1>2, <1>3

(* The heads of the lists on which processes wait for one another.         *)
WaitHead == ListHead \ {READY_LIST, SLEEP_LIST}

(* The first n members of q are in the set S, the others lead r.           *)
LeavesInOrder(q, r, n, S) ==
  (\A i \in 1 .. n : q[i] \in S) /\ Shifted(q, r, -n)

(* What a handler may have done to the lists when it calls do_scheduler:   *)
(* L is what it made of them, d is 1 when it put a new process in front.   *)
Handed(L, d) ==
  /\ L \in ListsType /\ d \in {0, 1}
  /\ Shifted(list[READY_LIST], L[READY_LIST], d)
  /\ d = 1 => L[READY_LIST] # << >> /\ ~used[L[READY_LIST][1]]
  /\ \A h \in WaitHead : \E n \in 0 .. Len(list[h]) :
       LeavesInOrder(list[h], L[h], n, Elements(L[READY_LIST]))

(* What a step does to them.                                               *)
StepInOrder(d) ==
  /\ d \in {-1, 0, 1}
  /\ Shifted(list[READY_LIST], list'[READY_LIST], d)
  /\ d = 1 => ~used[list'[READY_LIST][1]]
  /\ d = -1 /\ list[READY_LIST] # << >> => current' = list[READY_LIST][1]
  /\ \A h \in WaitHead : \E n \in 0 .. Len(list[h]) :
       LeavesInOrder(list[h], list'[h], n, Elements(list'[READY_LIST]) \cup {current'})

(* What do_scheduler does to the lists L it is given.                      *)
ScheduledInOrder(L, e) ==
  /\ e \in {-1, 0}
  /\ list' \in ListsType
  /\ Shifted(L[READY_LIST], list'[READY_LIST], e)
  /\ e = -1 /\ L[READY_LIST] # << >> => current' = L[READY_LIST][1]
  /\ \A h \in WaitHead : list'[h] = L[h]
  /\ \A x \in Elements(L[READY_LIST]) : x \in Elements(list'[READY_LIST]) \/ x = current'

(* Taking the next process.                                                *)
LEMMA SwitchInOrder ==
  ASSUME NEW L \in ListsType, NEW t, NEW s, SwitchTo(L, t, s)
  PROVE  ScheduledInOrder(L, -1)
<1>1. READY_LIST \in ListHead
  BY HeadsDistinct
<1> DEFINE q == L[READY_LIST]
<1>2. q \in Seq(Slot) /\ ll_rest(q) \in Seq(Slot)
  BY <1>1 DEF ListsType, ll_rest
<1>3. list' = [L EXCEPT ![READY_LIST] = ll_rest(q)] /\ current' = ll_first(q)
  BY DEF SwitchTo
<1>4. /\ list' \in ListsType /\ list'[READY_LIST] = ll_rest(q)
      /\ \A h \in WaitHead : list'[h] = L[h]
  BY <1>1, <1>2, <1>3 DEF ListsType, WaitHead
<1>5. Shifted(q, list'[READY_LIST], -1)
  BY <1>2, <1>4, ShiftSame
<1>6. q # << >> => current' = q[1]
  BY <1>2, <1>3 DEF ll_first
<1>7. ASSUME NEW i \in DOMAIN q
      PROVE  q[i] \in Elements(list'[READY_LIST]) \/ q[i] = current'
  <2>1. CASE i = 1
    BY <1>2, <1>6, <2>1
  <2>2. CASE i # 1
    <3>1. i \in Int /\ i + (-1) >= 1
      BY <1>2, <2>2
    <3>2. i + (-1) \in DOMAIN list'[READY_LIST] /\ list'[READY_LIST][i + (-1)] = q[i]
      BY <1>5, <3>1 DEF Shifted
    <3> QED
      BY <3>2 DEF Elements
  <2> QED
    BY <2>1, <2>2
<1>8. \A x \in Elements(q) : x \in Elements(list'[READY_LIST]) \/ x = current'
  BY <1>7 DEF Elements
<1> QED
  BY <1>4, <1>5, <1>6, <1>8 DEF ScheduledInOrder

(* do_scheduler.                                                           *)
LEMMA SchedulerInOrder ==
  ASSUME NEW L \in ListsType, current \in Slot, NEW t, NEW s, DoScheduler(L, t, s)
  PROVE  \E e : ScheduledInOrder(L, e)
<1>1. /\ READY_LIST \in ListHead /\ SLEEP_LIST \in ListHead /\ READY_LIST # SLEEP_LIST
      /\ \A h \in WaitHead : h \in ListHead /\ h # READY_LIST /\ h # SLEEP_LIST
  BY HeadsDistinct DEF WaitHead
<1> DEFINE q == L[READY_LIST]
<1>2. q \in Seq(Slot)
  BY <1>1 DEF ListsType
<1>3. CASE list' = L
  <2>1. Shifted(q, q, 0)
    BY <1>2, ShiftSame
  <2> QED
    BY <1>3, <2>1 DEF ScheduledInOrder
<1>4. ASSUME NEW h \in {READY_LIST, SLEEP_LIST}, NEW t1,
             SwitchTo(ll_entail(L, h, current), t1, s)
      PROVE  ScheduledInOrder(L, -1)
  <2> DEFINE M == ll_entail(L, h, current)
  <2>1. EntailPost(L, h, current, M)
    BY <1>1, EntailProperties
  <2> HIDE DEF M
  <2>2. SwitchTo(M, t1, s) /\ M \in ListsType
    BY <1>4, <2>1 DEF M, EntailPost
  <2>3. ScheduledInOrder(M, -1)
    BY <2>2, SwitchInOrder
  <2>4. /\ M[READY_LIST] = q \/ M[READY_LIST] = Append(q, current)
        /\ \A g \in WaitHead : M[g] = L[g]
        /\ \A x \in Elements(q) : x \in Elements(M[READY_LIST])
    BY <1>1, <1>4, <2>1 DEF EntailPost
  <2>5. /\ Shifted(q, M[READY_LIST], 0)
        /\ q # << >> => M[READY_LIST] # << >> /\ M[READY_LIST][1] = q[1]
    <3> HIDE DEF q
    <3>1. Shifted(q, q, 0) /\ Shifted(q, Append(q, current), 0)
      BY <1>2, ShiftSame, ShiftAppend
    <3>2. q # << >> => Append(q, current) # << >> /\ Append(q, current)[1] = q[1]
      BY <1>2
    <3> QED
      BY <2>4, <3>1, <3>2
  <2>6. M[READY_LIST] \in Seq(Slot) /\ list'[READY_LIST] \in Seq(Slot)
    BY <1>1, <2>2, <2>3 DEF ScheduledInOrder, ListsType
  <2>7. Shifted(M[READY_LIST], list'[READY_LIST], -1)
    BY <2>3 DEF ScheduledInOrder
  <2>8. Shifted(q, list'[READY_LIST], 0 + (-1))
    <3> HIDE DEF q
    <3> QED
      BY <1>2, <2>5, <2>6, <2>7, ShiftTwice
  <2> QED
    BY <2>3, <2>4, <2>5, <2>8 DEF ScheduledInOrder
<1> QED
  BY <1>3, <1>4 DEF DoScheduler

(* What a handler did, and then do_scheduler.                              *)
LEMMA HandedThenScheduled ==
  ASSUME list \in ListsType, NEW L, NEW d, NEW e, Handed(L, d), ScheduledInOrder(L, e)
  PROVE  \E c : StepInOrder(c)
<1>1. READY_LIST \in ListHead /\ WaitHead \subseteq ListHead
  BY HeadsDistinct DEF WaitHead
<1>2. PICK q, r, u : q = list[READY_LIST] /\ r = L[READY_LIST] /\ u = list'[READY_LIST]
  OBVIOUS
<1>3. /\ q \in Seq(Slot) /\ r \in Seq(Slot) /\ u \in Seq(Slot) /\ d \in {0, 1} /\ e \in {-1, 0}
      /\ Shifted(q, r, d) /\ Shifted(r, u, e)
      /\ d = 1 => r # << >> /\ ~used[r[1]]
      /\ e = -1 /\ r # << >> => current' = r[1]
      /\ \A x \in Elements(r) : x \in Elements(u) \/ x = current'
  BY <1>1, <1>2 DEF Handed, ScheduledInOrder, ListsType
<1>4. Shifted(q, u, d + e)
  BY <1>3, ShiftTwice
<1>5. d + e \in {-1, 0, 1}
  BY <1>3
<1>6. ASSUME d + e = 1 PROVE ~used[u[1]]
  <2>1. d = 1 /\ e = 0
    BY <1>3, <1>6
  <2>2. u[1] = r[1]
    BY <1>3, <2>1 DEF Shifted
  <2> QED
    BY <1>3, <2>1, <2>2
<1>7. ASSUME d + e = -1, q # << >> PROVE current' = q[1]
  <2>1. d = 0 /\ e = -1
    BY <1>3, <1>7
  <2>2. r[1] = q[1] /\ r # << >>
    BY <1>3, <1>7, <2>1 DEF Shifted
  <2> QED
    BY <1>3, <2>1, <2>2
<1>8. ASSUME NEW h \in WaitHead
      PROVE  \E n \in 0 .. Len(list[h]) :
               LeavesInOrder(list[h], list'[h], n, Elements(u) \cup {current'})
  <2>1. list'[h] = L[h]
    BY DEF ScheduledInOrder
  <2>2. PICK n \in 0 .. Len(list[h]) : LeavesInOrder(list[h], L[h], n, Elements(r))
    BY <1>2 DEF Handed
  <2> QED
    BY <1>3, <2>1, <2>2 DEF LeavesInOrder
<1> QED
  BY <1>2, <1>4, <1>5, <1>6, <1>7, <1>8 DEF StepInOrder
-----------------------------------------------------------------------------
(* What the handlers do before they call do_scheduler.                     *)

(* Nothing.                                                                *)
LEMMA HandedSame ==
  ASSUME KernelInv PROVE Handed(list, 0)
<1>1. list \in ListsType /\ READY_LIST \in ListHead /\ WaitHead \subseteq ListHead
  BY HeadsDistinct DEF KernelInv, CoreOK, WaitHead
<1>2. \A h \in ListHead : list[h] \in Seq(Slot) /\ Shifted(list[h], list[h], 0)
  BY <1>1, ShiftSame DEF ListsType
<1>3. ASSUME NEW h \in WaitHead
      PROVE  0 \in 0 .. Len(list[h]) /\ LeavesInOrder(list[h], list[h], 0, Elements(list[READY_LIST]))
  <2>1. Len(list[h]) \in Nat /\ Shifted(list[h], list[h], 0)
    BY <1>1, <1>2
  <2> QED
    BY <2>1 DEF LeavesInOrder
<1> QED
  BY <1>1, <1>2, <1>3 DEF Handed

(* Queueing the running process on the ready list or on a waiting list.    *)
LEMMA HandedEntail ==
  ASSUME KernelInv, NEW h \in ListHead \ {SLEEP_LIST}
  PROVE  Handed(ll_entail(list, h, current), 0)
<1> DEFINE M == ll_entail(list, h, current)
<1>1. /\ list \in ListsType /\ current \in Slot
      /\ READY_LIST \in ListHead /\ WaitHead \subseteq ListHead
  BY HeadsDistinct DEF KernelInv, CoreOK, WaitHead
<1>2. EntailPost(list, h, current, M)
  BY <1>1, EntailProperties
<1> HIDE DEF M
<1>3. \A g \in ListHead : list[g] \in Seq(Slot) /\ Shifted(list[g], M[g], 0)
  BY <1>1, <1>2, ShiftSame, ShiftAppend DEF ListsType, EntailPost
<1>4. ASSUME NEW g \in WaitHead
      PROVE  0 \in 0 .. Len(list[g]) /\ LeavesInOrder(list[g], M[g], 0, Elements(M[READY_LIST]))
  <2>1. Len(list[g]) \in Nat /\ Shifted(list[g], M[g], 0)
    BY <1>1, <1>3
  <2> QED
    BY <2>1 DEF LeavesInOrder
<1>5. Handed(M, 0)
  BY <1>1, <1>2, <1>3, <1>4 DEF Handed, EntailPost
<1> QED
  BY <1>5 DEF M

(* Putting a new process in front of the ready list.                       *)
LEMMA HandedPush ==
  ASSUME KernelInv, NEW p \in Slot, ~used[p]
  PROVE  Handed(ll_push(list, READY_LIST, p), 1)
<1> DEFINE M == ll_push(list, READY_LIST, p)
<1>1. list \in ListsType /\ READY_LIST \in ListHead /\ WaitHead \subseteq ListHead
  BY HeadsDistinct DEF KernelInv, CoreOK, WaitHead
<1>2. PICK q : q = list[READY_LIST]
  OBVIOUS
<1>3. q \in Seq(Slot) /\ <<p>> \o q \in Seq(Slot) /\ <<p>> \o q # << >>
  <2>1. q \in Seq(Slot) /\ <<p>> \in Seq(Slot) /\ Len(<<p>>) = 1
    BY <1>1, <1>2 DEF ListsType
  <2> QED
    BY <2>1
<1>4. /\ M[READY_LIST] = <<p>> \o q /\ M \in ListsType
      /\ \A g \in ListHead \ {READY_LIST} : M[g] = list[g]
  BY <1>1, <1>2, <1>3 DEF ll_push, ListsType
<1> HIDE DEF M
<1>5. Shifted(q, M[READY_LIST], 1) /\ M[READY_LIST][1] = p /\ M[READY_LIST] # << >>
  BY <1>3, <1>4, ShiftPush
<1>6. ASSUME NEW g \in WaitHead
      PROVE  0 \in 0 .. Len(list[g]) /\ LeavesInOrder(list[g], M[g], 0, Elements(M[READY_LIST]))
  <2>1. M[g] = list[g] /\ list[g] \in Seq(Slot)
    BY <1>1, <1>4 DEF WaitHead, ListsType
  <2>2. Len(list[g]) \in Nat /\ Shifted(list[g], M[g], 0)
    BY <2>1, ShiftSame
  <2> QED
    BY <2>2 DEF LeavesInOrder
<1>7. Handed(M, 1)
  BY <1>2, <1>4, <1>5, <1>6 DEF Handed
<1> QED
  BY <1>7 DEF M

(* Taking the first n members of a waiting list, or members of the sleep   *)
(* list, to the end of the ready list.                                     *)
LEMMA HandedMove ==
  ASSUME KernelInv, NEW h \in ListHead \ {READY_LIST}, NEW stay \in Seq(Slot),
         NEW woken \in Seq(Slot),
         h # SLEEP_LIST => \E n \in 0 .. Len(list[h]) :
                             LeavesInOrder(list[h], stay, n, Elements(woken))
  PROVE  Handed(ll_entail_each([list EXCEPT ![h] = stay], READY_LIST, woken), 0)
<1> DEFINE M == ll_entail_each([list EXCEPT ![h] = stay], READY_LIST, woken)
<1>1. list \in ListsType /\ READY_LIST \in ListHead /\ WaitHead \subseteq ListHead
  BY HeadsDistinct DEF KernelInv, CoreOK, WaitHead
<1>2. PICK q : q = list[READY_LIST]
  OBVIOUS
<1>3. q \in Seq(Slot) /\ q \o woken \in Seq(Slot)
  BY <1>1, <1>2 DEF ListsType
<1>4. /\ M[READY_LIST] = q \o woken /\ M \in ListsType /\ M[h] = stay
      /\ \A g \in ListHead \ {READY_LIST, h} : M[g] = list[g]
  BY <1>1, <1>2, <1>3 DEF ll_entail_each, ListsType
<1> HIDE DEF M
<1>5. Shifted(q, M[READY_LIST], 0)
  BY <1>3, <1>4, ShiftConcat
<1>6. \A x \in Elements(woken) : x \in Elements(M[READY_LIST])
  <2> SUFFICES ASSUME NEW k \in DOMAIN woken PROVE woken[k] \in Elements(M[READY_LIST])
    BY DEF Elements
  <2>1. Len(q) + k \in DOMAIN (q \o woken) /\ (q \o woken)[Len(q) + k] = woken[k]
    BY <1>3
  <2> QED
    BY <1>4, <2>1 DEF Elements
<1>7. ASSUME NEW g \in WaitHead
      PROVE  \E n \in 0 .. Len(list[g]) :
               LeavesInOrder(list[g], M[g], n, Elements(M[READY_LIST]))
  <2>1. CASE g = h
    <3>1. PICK n \in 0 .. Len(list[h]) : LeavesInOrder(list[h], stay, n, Elements(woken))
      BY <2>1 DEF WaitHead
    <3> QED
      BY <1>4, <1>6, <2>1, <3>1 DEF LeavesInOrder
  <2>2. CASE g # h
    <3>1. M[g] = list[g] /\ list[g] \in Seq(Slot)
      BY <1>1, <1>4, <2>2 DEF WaitHead, ListsType
    <3>2. Len(list[g]) \in Nat /\ Shifted(list[g], M[g], 0)
      BY <3>1, ShiftSame
    <3>3. 0 \in 0 .. Len(list[g]) /\ LeavesInOrder(list[g], M[g], 0, Elements(M[READY_LIST]))
      BY <3>2 DEF LeavesInOrder
    <3> QED
      BY <3>3
  <2> QED
    BY <2>1, <2>2
<1>8. Handed(M, 0)
  BY <1>2, <1>4, <1>5, <1>7 DEF Handed
<1> QED
  BY <1>8 DEF M

-----------------------------------------------------------------------------
(* The steps.                                                              *)

(* A handler that ends in do_scheduler, or takes the next process itself.  *)
LEMMA HandlerInOrder ==
  ASSUME KernelInv, NEW L, NEW d, Handed(L, d), NEW t, NEW s,
         DoScheduler(L, t, s) \/ SwitchTo(L, t, s)
  PROVE  \E c : StepInOrder(c)
<1>1. list \in ListsType /\ L \in ListsType /\ current \in Slot
  BY DEF KernelInv, CoreOK, Handed
<1>2. PICK e : ScheduledInOrder(L, e)
  BY <1>1, SwitchInOrder, SchedulerInOrder
<1> QED
  BY <1>1, <1>2, HandedThenScheduled

(* A step that changes neither the lists nor who runs.                     *)
LEMMA IdleInOrder ==
  ASSUME KernelInv, UNCHANGED <<list, current>> PROVE StepInOrder(0)
<1>1. Handed(list, 0)
  BY HandedSame
<1>2. list' = list
  OBVIOUS
<1> QED
  BY <1>1, <1>2 DEF Handed, StepInOrder, LeavesInOrder

(* Whoever exit_current wakes: everybody on the join list.                 *)
LEMMA ExitWakes ==
  ASSUME KernelInv, UserRuns, ExitCurrent
  PROVE  \E woken \in InOrder(list[JoinList(current)], Elements(list[JoinList(current)])) :
           /\ woken \in Seq(Slot)
           /\ Elements(woken) = Elements(list[JoinList(current)])
           /\ SwitchTo(ll_entail_each([list EXCEPT ![JoinList(current)] = << >>],
                                      READY_LIST, woken), ts, timeslice)
<1>1. PICK h : h = JoinList(current)
  OBVIOUS
<1>2. h \in ListHead /\ list \in ListsType /\ Alive /\ NoProcessLost
  BY <1>1, HeadsDistinct DEF KernelInv, CoreOK, UserRuns, InterruptsOn
<1>3. list[h] \in Seq(Slot)
  BY <1>2 DEF ListsType
<1>4. {p \in Elements(list[h]) : used[p]} = Elements(list[h])
  BY <1>2, <1>3, ElementsFinite DEF NoProcessLost, OnList
<1>5. PICK woken \in InOrder(list[h], {p \in Elements(list[h]) : used[p]}) :
        SwitchTo(ll_entail_each([list EXCEPT ![h] = << >>], READY_LIST, woken), ts, timeslice)
  BY <1>1 DEF ExitCurrent
<1>6. woken \in InOrder(list[h], Elements(list[h]))
  BY <1>4, <1>5
<1>7. woken \in Seq(Slot) /\ Elements(woken) = Elements(list[h])
  BY <1>3, <1>6, InOrderProperties
<1> QED
  BY <1>1, <1>5, <1>6, <1>7

(* exit_current().                                                         *)
LEMMA ExitInOrder ==
  ASSUME KernelInv, UserRuns, ExitCurrent PROVE \E c : StepInOrder(c)
<1>1. PICK h : h = JoinList(current)
  OBVIOUS
<1>2. PICK woken \in Seq(Slot) :
        /\ Elements(woken) = Elements(list[h])
        /\ SwitchTo(ll_entail_each([list EXCEPT ![h] = << >>], READY_LIST, woken), ts, timeslice)
  BY <1>1, ExitWakes
<1>3. h \in ListHead \ {READY_LIST} /\ list[h] \in Seq(Slot) /\ << >> \in Seq(Slot)
  BY <1>1, HeadsDistinct DEF KernelInv, CoreOK, ListsType
<1>4. Len(list[h]) \in 0 .. Len(list[h])
  BY <1>3
<1>5. LeavesInOrder(list[h], << >>, Len(list[h]), Elements(woken))
  <2>1. \A i \in 1 .. Len(list[h]) : list[h][i] \in Elements(list[h])
    BY <1>3 DEF Elements
  <2> QED
    BY <1>2, <1>3, <2>1, ShiftSame DEF LeavesInOrder
<1>6. Handed(ll_entail_each([list EXCEPT ![h] = << >>], READY_LIST, woken), 0)
  BY <1>3, <1>4, <1>5, HandedMove
<1> QED
  BY <1>2, <1>6, HandlerInOrder

(* do_timer().                                                             *)
LEMMA TimerInOrder ==
  ASSUME KernelInv, TimerIrq PROVE \E c : StepInOrder(c)
<1>1. PICK q : q = list[SLEEP_LIST]
  OBVIOUS
<1>2. PICK woken \in InOrder(q, Expired), asleep \in InOrder(q, Asleep \ Expired) :
        DoScheduler(ll_entail_each([list EXCEPT ![SLEEP_LIST] = asleep], READY_LIST, woken),
                    Awake, Ticked)
  BY <1>1 DEF TimerIrq
<1>3. SLEEP_LIST \in ListHead \ {READY_LIST} /\ q \in Seq(Slot)
  BY <1>1, HeadsDistinct DEF KernelInv, CoreOK, ListsType
<1>4. Expired \subseteq Elements(q) /\ Asleep \ Expired \subseteq Elements(q)
  BY <1>1 DEF Expired, Asleep
<1>5. woken \in Seq(Slot) /\ asleep \in Seq(Slot)
  BY <1>2, <1>3, <1>4, InOrderProperties
<1>6. Handed(ll_entail_each([list EXCEPT ![SLEEP_LIST] = asleep], READY_LIST, woken), 0)
  BY <1>3, <1>5, HandedMove
<1> QED
  BY <1>2, <1>6, HandlerInOrder

(* sem_close_kr, which wakes everybody in the order they came.             *)
LEMMA CloseInOrder ==
  ASSUME KernelInv, NEW s \in Sems, SemClose(s) PROVE \E c : StepInOrder(c)
<1>1. PICK h : h = BlockList(s)
  OBVIOUS
<1>2. CASE DoScheduler(list, ts, timeslice)
  BY <1>2, HandedSame, HandlerInOrder
<1>3. CASE DoScheduler(ll_entail_each([list EXCEPT ![h] = << >>], READY_LIST, list[h]), ts, timeslice)
  <2>1. h \in ListHead \ {READY_LIST} /\ list[h] \in Seq(Slot) /\ << >> \in Seq(Slot)
    BY <1>1, HeadsDistinct DEF KernelInv, CoreOK, ListsType
  <2>2. Len(list[h]) \in 0 .. Len(list[h])
    BY <2>1
  <2>3. LeavesInOrder(list[h], << >>, Len(list[h]), Elements(list[h]))
    BY <2>1, ShiftSame DEF LeavesInOrder, Elements
  <2>4. Handed(ll_entail_each([list EXCEPT ![h] = << >>], READY_LIST, list[h]), 0)
    BY <2>1, <2>2, <2>3, HandedMove
  <2> QED
    BY <1>3, <2>4, HandlerInOrder
<1> QED
  BY <1>1, <1>2, <1>3 DEF SemClose

(* sem_post_kr, which wakes the one that came first.                       *)
LEMMA PostInOrder ==
  ASSUME KernelInv, NEW s \in Sems, SemPost(s) PROVE \E c : StepInOrder(c)
<1>1. PICK h : h = BlockList(s)
  OBVIOUS
<1>2. CASE DoScheduler(list, ts, timeslice)
  BY <1>2, HandedSame, HandlerInOrder
<1>3. CASE UNCHANGED <<list, current>>
  BY <1>3, IdleInOrder
<1>4. CASE /\ list[h] # << >>
           /\ DoScheduler(ll_entail([list EXCEPT ![h] = Tail(@)], READY_LIST, Head(list[h])),
                          ts, timeslice)
  <2>1. PICK q, r, w : q = list[h] /\ r = list[READY_LIST] /\ w = <<Head(q)>>
    OBVIOUS
  <2>2. /\ h \in ListHead \ {READY_LIST} /\ READY_LIST \in ListHead /\ list \in ListsType
        /\ q \in Seq(Slot) /\ q # << >> /\ r \in Seq(Slot)
    BY <1>1, <1>4, <2>1, HeadsDistinct DEF KernelInv, CoreOK, ListsType
  <2>3. /\ Head(q) \in Slot /\ Tail(q) \in Seq(Slot) /\ w \in Seq(Slot)
        /\ ll_rest(q) = Tail(q) /\ 1 \in 0 .. Len(q) /\ q[1] = w[1] /\ 1 \in DOMAIN w
        /\ Append(r, Head(q)) = r \o w
    BY <2>1, <2>2 DEF ll_rest
  <2>4. LeavesInOrder(q, Tail(q), 1, Elements(w))
    <3>1. Shifted(q, Tail(q), -1)
      BY <2>2, <2>3, ShiftSame
    <3>2. q[1] \in Elements(w)
      BY <2>3 DEF Elements
    <3> QED
      BY <3>1, <3>2 DEF LeavesInOrder
  <2>5. Handed(ll_entail_each([list EXCEPT ![h] = Tail(q)], READY_LIST, w), 0)
    BY <2>1, <2>2, <2>3, <2>4, HandedMove
  <2>6. ll_entail([list EXCEPT ![h] = Tail(@)], READY_LIST, Head(list[h])) =
          ll_entail_each([list EXCEPT ![h] = Tail(q)], READY_LIST, w)
    BY <2>1, <2>2, <2>3 DEF ll_entail, ll_entail_each, ListsType
  <2> QED
    BY <1>4, <2>5, <2>6, HandlerInOrder
<1> QED
  BY <1>1, <1>2, <1>3, <1>4 DEF SemPost

(* Every step.                                                             *)
LEMMA NextInOrder ==
  ASSUME KernelInv, [Next]_vars PROVE \E c : StepInOrder(c)
<1>1. CASE \E t, s : DoScheduler(list, t, s)
  BY <1>1, HandedSame, HandlerInOrder
<1>2. CASE UNCHANGED <<list, current>>
  BY <1>2, IdleInOrder
<1>3. CASE SysExec
  <2>1. READY_LIST \in ListHead \ {SLEEP_LIST}
    BY HeadsDistinct
  <2> QED
    BY <1>3, <2>1, HandedEntail, HandlerInOrder DEF SysExec
<1>4. CASE CreateSon
  <2>1. FirstFree \in Slot /\ ~used[FirstFree]
    BY <1>4, LeastSlot DEF CreateSon, FirstFree, FreeSlot
  <2> QED
    BY <1>4, <2>1, HandedPush, HandlerInOrder DEF CreateSon
<1>5. CASE SysExit
  BY <1>5, ExitInOrder DEF SysExit
<1>6. ASSUME NEW n \in 0 .. MaxPid, SysJoin(n) PROVE \E c : StepInOrder(c)
  <2>1. CASE CanJoin(n)
    <3>1. FirstWithPid(n) \in Slot
      BY <2>1, LeastSlot DEF CanJoin, FirstWithPid, WithPid
    <3>2. JoinList(FirstWithPid(n)) \in ListHead \ {SLEEP_LIST}
      BY <3>1, HeadsDistinct
    <3> QED
      BY <1>6, <2>1, <3>2, HandedEntail, HandlerInOrder DEF SysJoin
  <2>2. CASE ~CanJoin(n)
    BY <1>1, <1>6, <2>2 DEF SysJoin
  <2> QED
    BY <2>1, <2>2
<1>7. ASSUME NEW s \in Sems, SemWait(s) PROVE \E c : StepInOrder(c)
  <2>1. CASE MustBlock(s)
    <3>1. BlockList(s) \in ListHead \ {SLEEP_LIST}
      BY HeadsDistinct
    <3> QED
      BY <1>7, <2>1, <3>1, HandedEntail, HandlerInOrder DEF SemWait
  <2>2. CASE ~MustBlock(s)
    BY <1>1, <1>7, <2>2 DEF SemWait
  <2> QED
    BY <2>1, <2>2
<1>8. ASSUME NEW s \in Sems,
             SemTrywait(s) \/ (\E c \in InitCounts : SemInit(s, c)) \/ SemClose(s) \/ SemPost(s)
      PROVE  \E c : StepInOrder(c)
  <2>1. CASE SemTrywait(s) \/ \E c \in InitCounts : SemInit(s, c)
    BY <1>1, <2>1 DEF SemTrywait, SemInit
  <2> QED
    BY <1>8, <2>1, CloseInOrder, PostInOrder
<1>9. CASE TimerIrq
  BY <1>9, TimerInOrder
<1>10. ASSUME NEW code \in KeyCodes, KeyboardIrq(code) PROVE \E c : StepInOrder(c)
  <2>1. (UserRuns /\ ExitCurrent) \/ UNCHANGED <<list, current>>
    BY <1>10 DEF KeyboardIrq, UserRuns, schedVars
  <2> QED
    BY <1>2, <2>1, ExitInOrder
<1>11. CASE SysHandout \/ (\E n \in SleepArgs : SysSleep(n)) \/ SysReturn \/ ReadlineReturns
  BY <1>1, <1>11 DEF SysHandout, SysSleep, SysReturn, ReadlineReturns
<1>12. CASE CreateWithoutMemory \/ CreateBeyondPool \/ SysPrintChar \/ SysReadline \/ UNCHANGED vars
  BY <1>2, <1>12 DEF CreateWithoutMemory, CreateBeyondPool, SysPrintChar, SysReadline, vars, schedVars
<1> QED
  BY <1>3, <1>4, <1>5, <1>6, <1>7, <1>8, <1>9, <1>10, <1>11, <1>12
     DEF Next, Syscall, SysFork, SysThread, Hang

-----------------------------------------------------------------------------
(* Waiters leave the lists of join_current and sem_wait_kr from the front, *)
(* for the ready list or the processor: no order of posts, exits, closes,  *)
(* sleeps and ticks lets one overtake another.                             *)
THEOREM WaitersKeepTheirTurn == Spec => WaitersLeaveInOrder
<1> DEFINE Leaves(h) ==
      \E n \in 0 .. Len(list[h]) :
        /\ \A i \in 1 .. n : \/ list[h][i] = current'
                             \/ list[h][i] \in Elements(list'[READY_LIST])
        /\ \A i \in n + 1 .. Len(list[h]) :
             i - n \in DOMAIN list'[h] /\ list'[h][i - n] = list[h][i]
<1>1. ASSUME KernelInv, [Next]_vars
      PROVE  [\A h \in ListHead \ {READY_LIST, SLEEP_LIST} : Leaves(h)]_vars
  <2> SUFFICES ASSUME NEW h \in ListHead \ {READY_LIST, SLEEP_LIST} PROVE Leaves(h)
    OBVIOUS
  <2>1. PICK q, r, S : /\ q = list[h] /\ r = list'[h]
                       /\ S = Elements(list'[READY_LIST]) \cup {current'}
    OBVIOUS
  <2>2. q \in Seq(Slot)
    BY <1>1, <2>1 DEF KernelInv, CoreOK, ListsType
  <2>3. PICK n \in 0 .. Len(q) : LeavesInOrder(q, r, n, S)
    BY <1>1, <2>1, NextInOrder DEF StepInOrder, WaitHead
  <2>4. \A i \in 1 .. n : q[i] \in S
    BY <2>3 DEF LeavesInOrder
  <2>5. \A i \in n + 1 .. Len(q) : i - n \in DOMAIN r /\ r[i - n] = q[i]
    BY <2>2, <2>3 DEF LeavesInOrder, Shifted
  <2> QED
    BY <2>1, <2>4, <2>5
<1> QED
  BY <1>1, KernelInvariant, PTL DEF Spec, WaitersLeaveInOrder

(* Nobody is put in front of a ready process except the son of a fork or   *)
(* thread call, whose PCB was free before.                                 *)
THEOREM ReadyKeepTheirTurn == Spec => OnlySonsOvertake
<1> DEFINE Follows(m) == \A k \in 1 .. m - 1 :
       list'[READY_LIST][m] \in Elements(list[READY_LIST]) =>
         \/ ~used[list'[READY_LIST][k]]
         \/ \E i, j \in DOMAIN list[READY_LIST] :
              /\ i < j
              /\ list[READY_LIST][i] = list'[READY_LIST][k]
              /\ list[READY_LIST][j] = list'[READY_LIST][m]
<1>1. ASSUME KernelInv, [Next]_vars
      PROVE  [\A m \in DOMAIN list'[READY_LIST] : Follows(m)]_vars
  <2>1. PICK q, u, c : q = list[READY_LIST] /\ u = list'[READY_LIST] /\ c = current'
    OBVIOUS
  <2>2. q \in Seq(Slot) /\ u \in Seq(Slot) /\ Injective(u) /\ c \notin Elements(u)
    <3>1. KernelInv' /\ READY_LIST \in ListHead
      BY <1>1, NextStep, HeadsDistinct
    <3>2. list \in ListsType /\ list' \in ListsType /\ Disjoint(list') /\ ~OnList(list', current')
      BY <1>1, <3>1 DEF KernelInv, CoreOK
    <3>3. Injective(list'[READY_LIST])
      BY <3>1, <3>2, DisjointSplit
    <3> QED
      BY <2>1, <3>1, <3>2, <3>3 DEF ListsType, OnList
  <2>3. PICK d \in {-1, 0, 1} : /\ Shifted(q, u, d)
                                /\ d = 1 => ~used[u[1]]
                                /\ d = -1 /\ q # << >> => c = q[1]
    BY <1>1, <2>1, NextInOrder DEF StepInOrder
  <2> SUFFICES ASSUME NEW m \in DOMAIN u, NEW k \in 1 .. m - 1, NEW j \in DOMAIN q, u[m] = q[j]
               PROVE  ~used[u[k]] \/ \E i \in DOMAIN q : i < j /\ q[i] = u[k]
    BY <2>1 DEF Elements
  <2>4. j + d >= 1
    <3> SUFFICES ASSUME ~(j + d >= 1) PROVE FALSE
      OBVIOUS
    <3>1. d = -1 /\ j = 1 /\ q # << >>
      BY <2>2
    <3> QED
      BY <2>2, <2>3, <3>1 DEF Elements
  <2>5. m = j + d
    BY <2>2, <2>3, <2>4 DEF Shifted, Injective
  <2>6. CASE k <= d
    <3>1. d = 1 /\ k = 1
      BY <2>2, <2>6
    <3> QED
      BY <2>3, <3>1
  <2>7. CASE k > d
    <3>1. k - d \in DOMAIN q /\ k - d < j /\ (k - d) + d = k /\ (k - d) + d >= 1
      BY <2>2, <2>5, <2>7
    <3>2. u[k] = q[k - d]
      BY <2>3, <3>1 DEF Shifted
    <3> QED
      BY <3>1, <3>2
  <2> QED
    BY <2>2, <2>6, <2>7
<1> QED
  BY <1>1, KernelInvariant, PTL DEF Spec, OnlySonsOvertake

(* Waking everybody of a queue without repetition keeps their order.       *)
LEMMA WokenInOrder ==
  ASSUME NEW q \in Seq(Slot), Injective(q), NEW w \in InOrder(q, Elements(q)),
         NEW i \in DOMAIN q, NEW j \in DOMAIN q, i <= j
  PROVE  \E k, m \in DOMAIN w : (k < m \/ i = j) /\ w[k] = q[i] /\ w[m] = q[j]
<1>1. w \in Seq(Slot) /\ Elements(w) = Elements(q) /\ Injective(w)
  BY InOrderProperties
<1>2. PICK k \in DOMAIN w, m \in DOMAIN w : w[k] = q[i] /\ w[m] = q[j]
  <2>1. q[i] \in Elements(w) /\ q[j] \in Elements(w)
    BY <1>1 DEF Elements
  <2> QED
    BY <2>1 DEF Elements
<1>3. ASSUME i # j, m < k PROVE FALSE
  <2>1. PICK a \in DOMAIN q, b \in DOMAIN q : a < b /\ q[a] = w[m] /\ q[b] = w[k]
    BY <1>3 DEF InOrder
  <2>2. a = j /\ b = i
    BY <1>2, <2>1 DEF Injective
  <2> QED
    BY <2>1, <2>2
<1>4. i # j => k # m
  BY <1>2 DEF Injective
<1>5. k \in Int /\ m \in Int
  BY <1>1
<1> QED
  BY <1>2, <1>3, <1>4, <1>5

(* Exit and Ctrl-C end the running process only, never idle, and make      *)
(* everybody who had joined it ready, in the order they had joined.        *)
THEOREM JoinersAreReleased == Spec => DeathReleasesJoiners
<1> DEFINE Releases(p) ==
       used[p] /\ ~used'[p] =>
         /\ p = current /\ p # IDLE
         /\ \A i, j \in DOMAIN list[JoinList(p)] : i <= j =>
              \E k, m \in DOMAIN list'[READY_LIST] :
                /\ k < m \/ i = j
                /\ list'[READY_LIST][k] = list[JoinList(p)][i]
                /\ list'[READY_LIST][m] = list[JoinList(p)][j]
<1>1. ASSUME KernelInv, [Next]_vars PROVE [\A p \in Slot : Releases(p)]_vars
  <2> SUFFICES ASSUME NEW p \in Slot, used[p], ~used'[p]
               PROVE  Releases(p)
    OBVIOUS
  <2>1. UserRuns /\ ExitCurrent
    <3>1. CASE CreateSon \/ CreateWithoutMemory
      BY <1>1, <3>1, LeastSlot DEF CreateSon, CreateWithoutMemory, KernelInv, TypeOK
    <3>2. CASE UNCHANGED procVars
      BY <3>2 DEF procVars
    <3>3. CASE \E code \in KeyCodes : KeyboardIrq(code)
      BY <3>2, <3>3 DEF KeyboardIrq, UserRuns
    <3>4. CASE SysExit
      BY <3>4 DEF SysExit
    <3> QED
      BY <1>1, <3>1, <3>2, <3>3, <3>4
         DEF Next, Syscall, SysFork, SysThread, Hang, vars, SysHandout, SysSleep, SysReturn,
             SysReadline, ReadlineReturns, SysPrintChar, SysExec, CreateBeyondPool, SysJoin, SemInit, SemClose, SemPost, SemWait,
             SemTrywait, TimerIrq
  <2>2. p = current /\ current # IDLE
    <3>1. used' = [used EXCEPT ![current] = FALSE] /\ used \in [Slot -> BOOLEAN]
      BY <1>1, <2>1 DEF ExitCurrent, KernelInv, TypeOK
    <3> QED
      BY <1>1, <2>1, <3>1, UserNotIdle
  <2>3. PICK q, r, u : /\ q = list[JoinList(current)] /\ r = list[READY_LIST]
                       /\ u = list'[READY_LIST]
    OBVIOUS
  <2>4. /\ JoinList(current) \in ListHead \ {READY_LIST} /\ READY_LIST \in ListHead
        /\ list \in ListsType /\ q \in Seq(Slot) /\ Injective(q) /\ r \in Seq(Slot) /\ r # << >>
    <3>1. CoreOK(list, ts, timeslice, current)
      BY <1>1 DEF KernelInv
    <3>2. JoinList(current) \in ListHead \ {READY_LIST} /\ READY_LIST \in ListHead
      BY <3>1, HeadsDistinct DEF CoreOK
    <3>3. Injective(q)
      BY <2>3, <3>1, <3>2, DisjointSplit DEF CoreOK
    <3>4. r # << >>
      BY <2>2, <2>3, <3>1 DEF CoreOK, Elements
    <3> QED
      BY <2>3, <3>1, <3>2, <3>3, <3>4 DEF CoreOK, ListsType
  <2>5. PICK w \in InOrder(q, Elements(q)) :
          /\ w \in Seq(Slot)
          /\ SwitchTo(ll_entail_each([list EXCEPT ![JoinList(current)] = << >>],
                                     READY_LIST, w), ts, timeslice)
    BY <1>1, <2>1, <2>3, ExitWakes
  <2>6. u = Tail(r \o w)
    <3>1. r \o w # << >>
      BY <2>4, <2>5
    <3> QED
      BY <2>3, <2>4, <2>5, <3>1 DEF SwitchTo, ll_entail_each, ll_rest, ListsType
  <2>7. ASSUME NEW k \in DOMAIN w
        PROVE  Len(r) - 1 + k \in DOMAIN u /\ u[Len(r) - 1 + k] = w[k]
    BY <2>4, <2>5, <2>6
  <2>8. ASSUME NEW i \in DOMAIN q, NEW j \in DOMAIN q, i <= j
        PROVE  \E k, m \in DOMAIN u : (k < m \/ i = j) /\ u[k] = q[i] /\ u[m] = q[j]
    <3>1. PICK k \in DOMAIN w, m \in DOMAIN w : (k < m \/ i = j) /\ w[k] = q[i] /\ w[m] = q[j]
      BY <2>4, <2>5, <2>8, WokenInOrder
    <3>2. k < m => Len(r) - 1 + k < Len(r) - 1 + m
      BY <2>4, <2>5
    <3> QED
      BY <2>7, <3>1, <3>2
  <2> QED
    BY <2>2, <2>3, <2>8
<1> QED
  BY <1>1, KernelInvariant, PTL DEF Spec, DeathReleasesJoiners

-----------------------------------------------------------------------------
(* The semaphores of the kernel implement those of module Semaphores.  The *)
(* argument: no step but the semaphore calls writes a block list or a      *)
(* count; in those calls, SemCountsWaiters (part of KernelInv) translates  *)
(* the test of the signed count into a test of the queue.                  *)

(* L and M have the same block lists.                                      *)
Blocks(L, M) == \A u \in Sems : L[BlockList(u)] = M[BlockList(u)]

(* Writing the chain of another head leaves the block lists alone.         *)
LEMMA WriteOther ==
  ASSUME NEW L, DOMAIN L = ListHead, NEW h, h \notin {BlockList(u) : u \in Sems}, NEW q
  PROVE  Blocks([L EXCEPT ![h] = q], L) /\ DOMAIN [L EXCEPT ![h] = q] = ListHead
BY HeadsDistinct DEF Blocks

(* The heads that are no block list.                                       *)
LEMMA OtherHeads ==
  /\ READY_LIST \notin {BlockList(u) : u \in Sems}
  /\ SLEEP_LIST \notin {BlockList(u) : u \in Sems}
  /\ \A p \in Slot : JoinList(p) \notin {BlockList(u) : u \in Sems}
  /\ \A u \in Sems : BlockList(u) \in ListHead
BY HeadsDistinct

(* Taking the next process writes the ready list only.                     *)
LEMMA SwitchBlocks ==
  ASSUME NEW L, DOMAIN L = ListHead, NEW t, NEW s, SwitchTo(L, t, s)
  PROVE  Blocks(list', L)
BY WriteOther, OtherHeads DEF SwitchTo

(* do_scheduler writes the ready and the sleep list only.                  *)
LEMMA SchedulerBlocks ==
  ASSUME NEW L, DOMAIN L = ListHead, NEW t, NEW s, DoScheduler(L, t, s)
  PROVE  Blocks(list', L)
<1>1. ASSUME NEW h \in {READY_LIST, SLEEP_LIST}, NEW t1, SwitchTo(ll_entail(L, h, current), t1, s)
      PROVE  Blocks(list', L)
  <2>1. Blocks(ll_entail(L, h, current), L) /\ DOMAIN ll_entail(L, h, current) = ListHead
    BY <1>1, WriteOther, OtherHeads DEF ll_entail
  <2>2. Blocks(list', ll_entail(L, h, current))
    BY <1>1, <2>1, SwitchBlocks
  <2> QED
    BY <2>1, <2>2 DEF Blocks
<1>2. CASE list' = L
  BY <1>2 DEF Blocks
<1> QED
  BY <1>1, <1>2 DEF DoScheduler

(* A step that writes no semaphore and no block list is a stutter.         *)
LEMMA Stutter ==
  ASSUME UNCHANGED <<sem_used, sem_count>>, Blocks(list', list)
  PROVE  UNCHANGED Abstract!semaphoreVars
BY DEF Blocks, Units, Waiting, Abstract!semaphoreVars

(* Exit empties a join list, whose members become ready.                   *)
LEMMA ExitBlocks ==
  ASSUME KernelInv, ExitCurrent PROVE Blocks(list', list)
<1>1. DOMAIN list = ListHead /\ current \in Slot
  BY DEF KernelInv, TypeOK, CoreOK
<1>2. PICK woken : SwitchTo(ll_entail_each([list EXCEPT ![JoinList(current)] = << >>],
                                           READY_LIST, woken), ts, timeslice)
  BY DEF ExitCurrent
<1> DEFINE L == [list EXCEPT ![JoinList(current)] = << >>]
<1> DEFINE M == ll_entail_each(L, READY_LIST, woken)
<1>3. Blocks(L, list) /\ DOMAIN L = ListHead
  BY <1>1, WriteOther, OtherHeads
<1> HIDE DEF L
<1>4. Blocks(M, L) /\ DOMAIN M = ListHead
  BY <1>3, WriteOther, OtherHeads DEF ll_entail_each
<1>5. SwitchTo(M, ts, timeslice)
  BY <1>2 DEF L
<1> HIDE DEF M
<1>6. Blocks(list', M)
  BY <1>4, <1>5, SwitchBlocks
<1> QED
  BY <1>3, <1>4, <1>6 DEF Blocks

(* The steps that are not semaphore calls.                                 *)
LEMMA OtherSteps ==
  ASSUME KernelInv,
         \/ SysHandout \/ SysReturn \/ SysReadline \/ ReadlineReturns
         \/ SysPrintChar \/ SysExec \/ CreateSon
         \/ CreateWithoutMemory \/ CreateBeyondPool \/ SysExit
         \/ \E n \in SleepArgs : SysSleep(n)
         \/ \E n \in 0 .. MaxPid : SysJoin(n)
         \/ TimerIrq
         \/ \E code \in KeyCodes : KeyboardIrq(code)
         \/ UNCHANGED vars
  PROVE  UNCHANGED <<sem_used, sem_count>> /\ Blocks(list', list)
<1>1. DOMAIN list = ListHead /\ current \in Slot
  BY DEF KernelInv, TypeOK, CoreOK
<1>2. CASE SysHandout \/ SysReturn \/ ReadlineReturns \/ \E n \in SleepArgs : SysSleep(n)
  BY <1>1, <1>2, SchedulerBlocks DEF SysHandout, SysReturn, ReadlineReturns, SysSleep, semVars
<1>3. CASE CreateWithoutMemory \/ CreateBeyondPool \/ SysPrintChar \/ SysReadline \/ UNCHANGED vars
  BY <1>3 DEF CreateWithoutMemory, CreateBeyondPool, SysPrintChar, SysReadline, vars, schedVars, semVars,
              Blocks
<1>4. CASE SysExec
  <2>1. /\ Blocks(ll_entail(list, READY_LIST, current), list)
        /\ DOMAIN ll_entail(list, READY_LIST, current) = ListHead
    BY <1>1, WriteOther, OtherHeads DEF ll_entail
  <2>2. Blocks(list', ll_entail(list, READY_LIST, current))
    BY <1>4, <2>1, SwitchBlocks DEF SysExec
  <2> QED
    BY <1>4, <2>1, <2>2 DEF Blocks, SysExec, semVars
<1>5. CASE CreateSon
  <2>1. /\ Blocks(ll_push(list, READY_LIST, FirstFree), list)
        /\ DOMAIN ll_push(list, READY_LIST, FirstFree) = ListHead
    BY <1>1, WriteOther, OtherHeads DEF ll_push
  <2>2. Blocks(list', ll_push(list, READY_LIST, FirstFree))
    BY <1>5, <2>1, SchedulerBlocks DEF CreateSon
  <2> QED
    BY <1>5, <2>1, <2>2 DEF Blocks, CreateSon, semVars
<1>6. CASE SysExit
  BY <1>6, ExitBlocks DEF SysExit, semVars
<1>7. CASE \E n \in 0 .. MaxPid : SysJoin(n)
  <2>1. PICK n \in 0 .. MaxPid : SysJoin(n)
    BY <1>7
  <2>2. CASE CanJoin(n)
    <3> DEFINE M == ll_entail(list, JoinList(FirstWithPid(n)), current)
    <3>1. FirstWithPid(n) \in Slot
      BY <2>2, LeastSlot DEF CanJoin, FirstWithPid, WithPid
    <3>2. Blocks(M, list) /\ DOMAIN M = ListHead
      BY <1>1, <3>1, WriteOther, OtherHeads DEF ll_entail
    <3>3. Blocks(list', M)
      BY <2>1, <2>2, <3>2, SwitchBlocks DEF SysJoin
    <3> QED
      BY <2>1, <3>2, <3>3 DEF Blocks, SysJoin, semVars
  <2>3. CASE ~CanJoin(n)
    BY <1>1, <2>1, <2>3, SchedulerBlocks DEF SysJoin, semVars
  <2> QED
    BY <2>2, <2>3
<1>8. CASE TimerIrq
  <2>1. PICK woken, asleep :
          DoScheduler(ll_entail_each([list EXCEPT ![SLEEP_LIST] = asleep], READY_LIST, woken),
                      Awake, Ticked)
    BY <1>8 DEF TimerIrq
  <2> DEFINE L == [list EXCEPT ![SLEEP_LIST] = asleep]
  <2> DEFINE M == ll_entail_each(L, READY_LIST, woken)
  <2>2. Blocks(L, list) /\ DOMAIN L = ListHead
    BY <1>1, WriteOther, OtherHeads
  <2> HIDE DEF L
  <2>3. Blocks(M, L) /\ DOMAIN M = ListHead
    BY <2>2, WriteOther, OtherHeads DEF ll_entail_each
  <2>4. DoScheduler(M, Awake, Ticked)
    BY <2>1 DEF L
  <2> HIDE DEF M
  <2>5. Blocks(list', M)
    BY <2>3, <2>4, SchedulerBlocks
  <2> QED
    BY <1>8, <2>2, <2>3, <2>5 DEF Blocks, TimerIrq, semVars
<1>9. CASE \E code \in KeyCodes : KeyboardIrq(code)
  <2>1. UNCHANGED <<sem_used, sem_count>> /\ (ExitCurrent \/ list' = list)
    BY <1>9 DEF KeyboardIrq, semVars, schedVars
  <2> QED
    BY <2>1, ExitBlocks DEF Blocks
<1> QED
  BY <1>2, <1>3, <1>4, <1>5, <1>6, <1>7, <1>8, <1>9

-----------------------------------------------------------------------------
(* The semaphore calls.                                                    *)

(* What SemCountsWaiters and the typing say of one semaphore.              *)
LEMMA SemFacts ==
  ASSUME KernelInv, NEW s \in Sems
  PROVE  /\ DOMAIN list = ListHead /\ BlockList(s) \in ListHead
         /\ sem_used \in [Sems -> BOOLEAN] /\ sem_count \in [Sems -> Int]
         /\ list[BlockList(s)] \in Seq(Slot)
         /\ Len(list[BlockList(s)]) =
              IF sem_used[s] /\ sem_count[s] < 0 THEN -sem_count[s] ELSE 0
         /\ Waiting[s] = list[BlockList(s)]
         /\ Units[s] = IF sem_used[s] /\ sem_count[s] > 0 THEN sem_count[s] ELSE 0
BY OtherHeads DEF KernelInv, TypeOK, SemCountsWaiters, Waiting, Units

(* sem_init_kr opens a closed semaphore, and is nothing otherwise.         *)
LEMMA InitRefines ==
  ASSUME KernelInv, NEW s \in Sems, NEW c \in InitCounts, SemInit(s, c)
  PROVE  Abstract!Open(s, c) \/ UNCHANGED Abstract!semaphoreVars
<1>1. Blocks(list', list)
  BY SemFacts, SchedulerBlocks DEF SemInit
<1>2. CASE sem_used[s]
  BY <1>1, <1>2, Stutter DEF SemInit, semVars
<1>3. CASE ~sem_used[s]
  <2>1. /\ sem_count' = [sem_count EXCEPT ![s] = c]
        /\ sem_used' = [sem_used EXCEPT ![s] = TRUE]
    BY <1>3 DEF SemInit
  <2>2. Waiting' = Waiting
    BY <1>1 DEF Waiting, Blocks
  <2>3. c \in Nat
    BY CountAssumption
  <2>4. \A u \in Sems : Units'[u] = IF u = s THEN c ELSE Units[u]
    BY <2>1, <2>3, SemFacts DEF Units
  <2>5. Units' = [Units EXCEPT ![s] = c]
    BY <2>4 DEF Units
  <2> QED
    BY <1>3, <2>1, <2>2, <2>5 DEF Abstract!Open
<1> QED
  BY <1>2, <1>3

(* sem_close_kr.                                                           *)
LEMMA CloseRefines ==
  ASSUME KernelInv, NEW s \in Sems, SemClose(s)
  PROVE  Abstract!Close(s) \/ UNCHANGED Abstract!semaphoreVars
<1>1. sem_used' = [sem_used EXCEPT ![s] = FALSE] /\ sem_count' = sem_count
  BY DEF SemClose
<1>2. CASE ~sem_used[s]
  <2>1. Blocks(list', list)
    BY <1>2, SemFacts, SchedulerBlocks DEF SemClose
  <2>2. sem_used' = sem_used
    BY <1>1, <1>2, SemFacts
  <2> QED
    BY <1>1, <2>1, <2>2, Stutter
<1>3. CASE sem_used[s]
  <2> DEFINE L == [list EXCEPT ![BlockList(s)] = << >>]
  <2> DEFINE M == ll_entail_each(L, READY_LIST, list[BlockList(s)])
  <2>1. DoScheduler(M, ts, timeslice)
    BY <1>3 DEF SemClose
  <2>2. /\ DOMAIN L = ListHead /\ L[BlockList(s)] = << >>
        /\ \A u \in Sems \ {s} : L[BlockList(u)] = list[BlockList(u)]
    BY SemFacts, OtherHeads DEF BlockList
  <2> HIDE DEF L
  <2>3. Blocks(M, L) /\ DOMAIN M = ListHead
    BY <2>2, WriteOther, OtherHeads DEF ll_entail_each
  <2> HIDE DEF M
  <2>4. Blocks(list', M)
    BY <2>1, <2>3, SchedulerBlocks
  <2>5. \A u \in Sems : Waiting'[u] = IF u = s THEN << >> ELSE Waiting[u]
    BY <2>2, <2>3, <2>4 DEF Blocks, Waiting
  <2>6. Waiting' = [Waiting EXCEPT ![s] = << >>]
    BY <2>5 DEF Waiting
  <2>7. \A u \in Sems : Units'[u] = IF u = s THEN 0 ELSE Units[u]
    BY <1>1, SemFacts DEF Units
  <2>8. Units' = [Units EXCEPT ![s] = 0]
    BY <2>7 DEF Units
  <2> QED
    BY <1>1, <1>3, <2>6, <2>8 DEF Abstract!Close
<1> QED
  BY <1>2, <1>3

(* A count that goes up by one while nobody waits is one more unit.        *)
LEMMA PostUnit ==
  ASSUME KernelInv, NEW s \in Sems, sem_used[s], sem_count[s] + 1 > 0,
         sem_count' = [sem_count EXCEPT ![s] = @ + 1], sem_used' = sem_used,
         Blocks(list', list)
  PROVE  Abstract!Post(s)
<1>1. sem_count[s] \in Int /\ Waiting[s] = << >>
  <2>1. sem_count[s] \in Int /\ list[BlockList(s)] \in Seq(Slot)
    BY SemFacts
  <2>2. Len(list[BlockList(s)]) = 0
    <3>1. ~(sem_count[s] < 0)
      BY <2>1
    <3>2. Len(list[BlockList(s)]) = IF sem_used[s] /\ sem_count[s] < 0 THEN -sem_count[s] ELSE 0
      BY SemFacts
    <3> QED
      BY <3>1, <3>2
  <2> QED
    BY <2>1, <2>2, SemFacts
<1>2. Waiting' = Waiting
  BY DEF Waiting, Blocks
<1>3. \A u \in Sems : Units'[u] = IF u = s THEN Units[u] + 1 ELSE Units[u]
  BY <1>1, SemFacts DEF Units
<1>4. Units' = [Units EXCEPT ![s] = @ + 1]
  BY <1>3 DEF Units
<1> QED
  BY <1>1, <1>2, <1>4 DEF Abstract!Post

(* A count that goes up by one and stays at most 0 hands the unit to the   *)
(* longest waiting process.                                                *)
LEMMA PostWakes ==
  ASSUME KernelInv, NEW s \in Sems, sem_used[s], sem_count[s] + 1 <= 0,
         sem_count' = [sem_count EXCEPT ![s] = @ + 1], sem_used' = sem_used,
         DoScheduler(ll_entail([list EXCEPT ![BlockList(s)] = Tail(@)], READY_LIST,
                               Head(list[BlockList(s)])), ts, timeslice)
  PROVE  Abstract!Post(s)
<1> DEFINE L == [list EXCEPT ![BlockList(s)] = Tail(@)]
<1> DEFINE M == ll_entail(L, READY_LIST, Head(list[BlockList(s)]))
<1>1. sem_count[s] \in Int /\ Waiting[s] # << >>
  <2>1. sem_count[s] \in Int
    BY SemFacts
  <2>2. sem_count[s] < 0
    BY <2>1
  <2>3. Len(list[BlockList(s)]) = -sem_count[s]
    BY <2>2, SemFacts
  <2>4. list[BlockList(s)] # << >>
    BY <2>1, <2>2, <2>3
  <2> QED
    BY <2>1, <2>4, SemFacts
<1>2. DoScheduler(M, ts, timeslice)
  OBVIOUS
<1>3. /\ DOMAIN L = ListHead /\ L[BlockList(s)] = Tail(list[BlockList(s)])
      /\ \A u \in Sems \ {s} : L[BlockList(u)] = list[BlockList(u)]
  BY SemFacts, OtherHeads DEF BlockList
<1> HIDE DEF L
<1>4. Blocks(M, L) /\ DOMAIN M = ListHead
  BY <1>3, WriteOther, OtherHeads DEF ll_entail
<1> HIDE DEF M
<1>5. Blocks(list', M)
  BY <1>2, <1>4, SchedulerBlocks
<1>6. \A u \in Sems : Waiting'[u] = IF u = s THEN Tail(Waiting[u]) ELSE Waiting[u]
  BY <1>3, <1>4, <1>5 DEF Blocks, Waiting
<1>7. Waiting' = [Waiting EXCEPT ![s] = Tail(@)]
  BY <1>6 DEF Waiting
<1>8. \A u \in Sems : Units'[u] = Units[u]
  BY <1>1, SemFacts DEF Units
<1>9. Units' = Units
  BY <1>8 DEF Units
<1> QED
  BY <1>1, <1>7, <1>9 DEF Abstract!Post

(* sem_post_kr.                                                            *)
LEMMA PostRefines ==
  ASSUME KernelInv, NEW s \in Sems, SemPost(s)
  PROVE  Abstract!Post(s) \/ UNCHANGED Abstract!semaphoreVars
<1>1. sem_used' = sem_used /\ sem_count[s] \in Int
  BY SemFacts DEF SemPost
<1>2. CASE ~sem_used[s]
  <2>1. sem_count' = sem_count /\ Blocks(list', list)
    BY <1>2, SemFacts, SchedulerBlocks DEF SemPost
  <2> QED
    BY <1>1, <2>1, Stutter
<1>3. CASE sem_used[s] /\ ~WakesWaiter(s)
  <2>1. sem_count' = [sem_count EXCEPT ![s] = @ + 1] /\ Blocks(list', list)
    BY <1>3, SemFacts, SchedulerBlocks DEF SemPost
  <2>2. sem_count[s] + 1 > 0
    BY <1>1, <1>3 DEF WakesWaiter
  <2> QED
    BY <1>1, <1>3, <2>1, <2>2, PostUnit
<1>4. CASE sem_used[s] /\ WakesWaiter(s)
  <2>1. list[BlockList(s)] # << >> /\ sem_count[s] + 1 <= 0
    BY <1>4, SemFacts DEF WakesWaiter
  <2> QED
    BY <1>1, <1>4, <2>1, PostWakes DEF SemPost
<1> QED
  BY <1>2, <1>3, <1>4

(* A count that goes down by one and was positive is one unit less.        *)
LEMMA TakeUnit ==
  ASSUME KernelInv, NEW s \in Sems, sem_used[s], sem_count[s] > 0,
         sem_count' = [sem_count EXCEPT ![s] = @ - 1], sem_used' = sem_used,
         Blocks(list', list)
  PROVE  Abstract!Take(s)
<1>1. sem_count[s] \in Int /\ Units[s] > 0
  BY SemFacts
<1>2. Waiting' = Waiting
  BY DEF Waiting, Blocks
<1>3. \A u \in Sems : Units'[u] = IF u = s THEN Units[u] - 1 ELSE Units[u]
  BY <1>1, SemFacts DEF Units
<1>4. Units' = [Units EXCEPT ![s] = @ - 1]
  BY <1>3 DEF Units
<1> QED
  BY <1>1, <1>2, <1>4 DEF Abstract!Take

(* sem_wait_kr.                                                            *)
LEMMA WaitRefines ==
  ASSUME KernelInv, NEW s \in Sems, SemWait(s)
  PROVE  \/ Abstract!Take(s)
         \/ \E p \in Slot : Abstract!Block(s, p)
         \/ UNCHANGED Abstract!semaphoreVars
<1>1. sem_used' = sem_used /\ sem_count[s] \in Int /\ current \in Slot
  BY SemFacts DEF SemWait, KernelInv, CoreOK
<1>2. CASE ~sem_used[s]
  <2>1. sem_count' = sem_count /\ Blocks(list', list)
    BY <1>2, SemFacts, SchedulerBlocks DEF SemWait, MustBlock
  <2> QED
    BY <1>1, <2>1, Stutter
<1>3. CASE sem_used[s] /\ sem_count[s] > 0
  <2>1. ~MustBlock(s)
    BY <1>1, <1>3 DEF MustBlock
  <2>2. sem_count' = [sem_count EXCEPT ![s] = @ - 1] /\ Blocks(list', list)
    BY <1>3, <2>1, SemFacts, SchedulerBlocks DEF SemWait
  <2> QED
    BY <1>1, <1>3, <2>2, TakeUnit
<1>4. CASE sem_used[s] /\ ~(sem_count[s] > 0)
  <2> DEFINE M == ll_entail(list, BlockList(s), current)
  <2>1. MustBlock(s)
    BY <1>1, <1>4 DEF MustBlock
  <2>2. sem_count' = [sem_count EXCEPT ![s] = @ - 1] /\ SwitchTo(M, ts, timeslice)
    BY <1>4, <2>1 DEF SemWait
  <2>3. /\ DOMAIN M = ListHead /\ M[BlockList(s)] = Append(list[BlockList(s)], current)
        /\ \A u \in Sems \ {s} : M[BlockList(u)] = list[BlockList(u)]
    BY SemFacts, OtherHeads DEF BlockList, ll_entail
  <2> HIDE DEF M
  <2>4. Blocks(list', M)
    BY <2>2, <2>3, SwitchBlocks
  <2>5. \A u \in Sems : Waiting'[u] = IF u = s THEN Append(Waiting[u], current) ELSE Waiting[u]
    BY <2>3, <2>4 DEF Blocks, Waiting
  <2>6. Waiting' = [Waiting EXCEPT ![s] = Append(@, current)]
    BY <2>5 DEF Waiting
  <2>7. \A u \in Sems : Units'[u] = Units[u]
    BY <1>1, <1>4, <2>2, SemFacts DEF Units
  <2>8. Units' = Units /\ Units[s] = 0
    BY <1>4, <2>7, SemFacts DEF Units
  <2> QED
    BY <1>1, <1>4, <2>6, <2>8 DEF Abstract!Block
<1> QED
  BY <1>2, <1>3, <1>4

(* sem_trywait_kr.                                                         *)
LEMMA TrywaitRefines ==
  ASSUME KernelInv, NEW s \in Sems, SemTrywait(s)
  PROVE  Abstract!Take(s) \/ UNCHANGED Abstract!semaphoreVars
<1>1. sem_used' = sem_used /\ Blocks(list', list)
  BY SemFacts, SchedulerBlocks DEF SemTrywait
<1>2. CASE sem_used[s] /\ sem_count[s] > 0
  BY <1>1, <1>2, TakeUnit DEF SemTrywait
<1>3. CASE ~(sem_used[s] /\ sem_count[s] > 0)
  BY <1>1, <1>3, Stutter DEF SemTrywait
<1> QED
  BY <1>2, <1>3

-----------------------------------------------------------------------------
(* Every step of the kernel is a step of the abstract semaphores, or none. *)
LEMMA RefinementStep ==
  ASSUME KernelInv, [Next]_vars
  PROVE  [Abstract!Next]_(Abstract!semaphoreVars)
<1>1. CASE \E s \in Sems : \E c \in InitCounts : SemInit(s, c)
  BY <1>1, InitRefines DEF Abstract!Next
<1>2. CASE \E s \in Sems : SemClose(s)
  BY <1>2, CloseRefines DEF Abstract!Next
<1>3. CASE \E s \in Sems : SemPost(s)
  BY <1>3, PostRefines DEF Abstract!Next
<1>4. CASE \E s \in Sems : SemWait(s)
  BY <1>4, WaitRefines DEF Abstract!Next
<1>5. CASE \E s \in Sems : SemTrywait(s)
  BY <1>5, TrywaitRefines DEF Abstract!Next
<1>6. CASE ~\E s \in Sems : \/ \E c \in InitCounts : SemInit(s, c)
                            \/ SemClose(s) \/ SemPost(s) \/ SemWait(s) \/ SemTrywait(s)
  <2>1. UNCHANGED <<sem_used, sem_count>> /\ Blocks(list', list)
    BY <1>6, OtherSteps DEF Next, Syscall, SysFork, SysThread, Hang
  <2> QED
    BY <2>1, Stutter
<1> QED
  BY <1>1, <1>2, <1>3, <1>4, <1>5, <1>6

(* The kernel's semaphores implement the abstract ones.                    *)
THEOREM SemaphoreRefinement == Spec => SemaphoresImplemented
<1>1. Init => Abstract!Init
  <2> SUFFICES ASSUME Init PROVE Abstract!Init
    OBVIOUS
  <2>1. \A s \in Sems : list[BlockList(s)] = << >>
    BY HeadsDistinct DEF Init
  <2>2. Waiting = [s \in Sems |-> << >>]
    BY <2>1 DEF Waiting
  <2>3. Units = [s \in Sems |-> 0] /\ sem_used = [s \in Sems |-> FALSE]
    BY DEF Units, Init
  <2> QED
    BY <2>2, <2>3 DEF Abstract!Init
<1>2. KernelInv /\ [Next]_vars => [Abstract!Next]_(Abstract!semaphoreVars)
  BY RefinementStep
<1> QED
  BY <1>1, <1>2, KernelInvariant, PTL DEF Spec, SemaphoresImplemented, Abstract!Spec
=============================================================================
