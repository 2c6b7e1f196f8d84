----------------------------- MODULE Semaphores -----------------------------
(***************************************************************************)
(* What a user of the semaphore calls of lib/syscall.h may rely on: each   *)
(* semaphore has a number of units and a FIFO queue of blocked processes.  *)
(* There is no negative count here and no list shared with the scheduler;  *)
(* a process blocks only while there is no unit, and a post hands its unit *)
(* to the process that has waited longest.                                 *)
(***************************************************************************)
EXTENDS Integers, Sequences

CONSTANTS
  Sems,    \* the semaphores
  Procs,   \* the processes that may wait
  Counts   \* the initial numbers of units

VARIABLES
  open,    \* open[s]: s has been initialised and not closed
  units,   \* units[s]: the waits that would return at once
  waiting  \* waiting[s]: the blocked processes, longest waiting first

semaphoreVars == <<open, units, waiting>>

Init ==
  /\ open    = [s \in Sems |-> FALSE]
  /\ units   = [s \in Sems |-> 0]
  /\ waiting = [s \in Sems |-> << >>]

Open(s, c) ==
  /\ ~open[s]
  /\ open'  = [open EXCEPT ![s] = TRUE]
  /\ units' = [units EXCEPT ![s] = c]
  /\ UNCHANGED waiting

(* Closing releases everybody who waits.                                   *)
Close(s) ==
  /\ open[s]
  /\ open'    = [open EXCEPT ![s] = FALSE]
  /\ units'   = [units EXCEPT ![s] = 0]
  /\ waiting' = [waiting EXCEPT ![s] = << >>]

Post(s) ==
  /\ open[s]
  /\ \/ /\ waiting[s] = << >>
        /\ units' = [units EXCEPT ![s] = @ + 1]
        /\ UNCHANGED waiting
     \/ /\ waiting[s] # << >>
        /\ waiting' = [waiting EXCEPT ![s] = Tail(@)]
        /\ UNCHANGED units
  /\ UNCHANGED open

(* A wait, or a trywait, that gets a unit.                                 *)
Take(s) ==
  /\ open[s] /\ units[s] > 0
  /\ units' = [units EXCEPT ![s] = @ - 1]
  /\ UNCHANGED <<open, waiting>>

(* A wait that finds none.                                                 *)
Block(s, p) ==
  /\ open[s] /\ units[s] = 0
  /\ waiting' = [waiting EXCEPT ![s] = Append(@, p)]
  /\ UNCHANGED <<open, units>>

Next ==
  \E s \in Sems : \/ \E c \in Counts : Open(s, c)
                  \/ Close(s)
                  \/ Post(s)
                  \/ Take(s)
                  \/ \E p \in Procs : Block(s, p)

Spec == Init /\ [][Next]_semaphoreVars
=============================================================================
