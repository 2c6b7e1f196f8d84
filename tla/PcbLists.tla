------------------------------ MODULE PcbLists ------------------------------
(***************************************************************************)
(* The lists of PCBs as process.c, timer.c and semaphore.c keep them: the  *)
(* PCB** heads and the one `next' field of every PCB.  Module Kernel deals *)
(* with them as sequences; here the loops over pointers are shown to do to *)
(* the chains what the kernel's operators do to the sequences.             *)
(***************************************************************************)
EXTENDS KernelProperties

(* The memory that holds the sequences of L.  No PCB off the lists points  *)
(* anywhere: ll_push relies on it when it finds an empty list.             *)
Layout(L) ==
  [head |-> [h \in ListHead |-> ll_first(L[h])],
   next |-> [p \in Slot |->
               LET h == CHOOSE h \in ListHead : p \in Elements(L[h])
                   i == CHOOSE i \in DOMAIN L[h] : L[h][i] = p
               IN  IF OnList(L, p) /\ i < Len(L[h]) THEN L[h][i + 1] ELSE NULL]]

(* ll_delete: `sleep' looks for p, `pre' is the one before.                *)
RECURSIVE Find(_, _, _, _)
Find(m, sleep, pre, p) ==
  IF sleep \in {NULL, p} THEN <<sleep, pre>> ELSE Find(m, m.next[sleep], sleep, p)

chain_delete(m, h, p) ==
  LET found == Find(m, m.head[h], NULL, p)
      sleep == found[1]
      pre   == found[2]
      cut   == IF pre = NULL THEN [m EXCEPT !.head[h] = m.next[sleep]]
               ELSE [m EXCEPT !.next[pre] = m.next[sleep]]
  IN  IF sleep = NULL THEN m ELSE [cut EXCEPT !.next[sleep] = NULL]

chain_pop(m, h) == chain_delete(m, h, m.head[h])

chain_push(m, h, p) ==
  IF m.head[h] = NULL THEN [m EXCEPT !.head[h] = p]
  ELSE [m EXCEPT !.head[h] = p, !.next[p] = m.head[h]]

RECURSIVE LastOf(_, _)
LastOf(m, p) == IF m.next[p] = NULL THEN p ELSE LastOf(m, m.next[p])

chain_entail(m, h, p) ==
  LET end == [m EXCEPT !.next[p] = NULL]
  IN  IF m.head[h] = NULL THEN [end EXCEPT !.head[h] = p]
      ELSE [end EXCEPT !.next[LastOf(end, m.head[h])] = p]

(* The loops of exit_current and sem_close_kr.                             *)
RECURSIVE chain_release(_, _)
chain_release(m, h) ==
  LET p == m.head[h] IN
  IF p = NULL THEN m ELSE chain_release(chain_entail(chain_pop(m, h), READY_LIST, p), h)

(* The walk of do_timer, which moves those of S while it passes them: the  *)
(* successor is read first, ll_entail cuts it off.                         *)
Wake(m, p, S) ==
  IF p \in S THEN chain_entail(chain_delete(m, SLEEP_LIST, p), READY_LIST, p) ELSE m

RECURSIVE chain_walk_Late(_, _, _)
chain_walk_Late(m, sleep, S) ==  \* mutant: the successor is read afterwards
  IF sleep = NULL THEN m
  ELSE chain_walk_Late(Wake(m, sleep, S), Wake(m, sleep, S).next[sleep], S)

RECURSIVE chain_walk(_, _, _)
chain_walk(m, sleep, S) ==
  IF sleep = NULL THEN m ELSE chain_walk(Wake(m, sleep, S), m.next[sleep], S)

-----------------------------------------------------------------------------
(* Lists that a handler works on: those it finds, and those it passes      *)
(* through when it has queued the running process or a new one.            *)
Passed ==
  {list} \cup {ll_entail(list, h, current) : h \in ListHead}
         \cup {ll_push(list, READY_LIST, p) : p \in FreeSlot}

(* In every state the kernel reaches, each loop over pointers leaves the   *)
(* chains of what the kernel's operators leave: a PCB taken off a list     *)
(* keeps no stale successor (ll_delete), one that is queued brings no tail *)
(* along (ll_push on an empty list does not write next), and do_timer      *)
(* wakes all that are due though it unlinks them while it walks.           *)
ChainsFollowLists ==
  Alive => \A L \in Passed :
    LET m == Layout(L) IN
    /\ \A h \in ListHead :
         /\ chain_pop(m, h) = Layout([L EXCEPT ![h] = ll_rest(@)])
         /\ h # READY_LIST =>
              chain_release(m, h) = Layout(ll_entail_each([L EXCEPT ![h] = << >>], READY_LIST, L[h]))
         /\ \A p \in {q \in Slot : ~OnList(L, q)} :
              /\ chain_push(m, h, p) = Layout(ll_push(L, h, p))
              /\ chain_entail(m, h, p) = Layout(ll_entail(L, h, p))
    /\ \A S \in SUBSET Elements(L[SLEEP_LIST]) :
         \E woken  \in InOrder(L[SLEEP_LIST], S),
            asleep \in InOrder(L[SLEEP_LIST], Elements(L[SLEEP_LIST]) \ S) :
           chain_walk(m, m.head[SLEEP_LIST], S) =
             Layout(ll_entail_each([L EXCEPT ![SLEEP_LIST] = asleep], READY_LIST, woken))
=============================================================================
