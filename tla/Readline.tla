------------------------------ MODULE Readline ------------------------------
(***************************************************************************)
(* The line editor and its history (readline of kernel/src/keyboard.c and  *)
(* the SYS_READLINE case of do_syscall.c).                                 *)
(*                                                                         *)
(* readline works on what getchar returns (module Keyboard); here that is  *)
(* any character.  The characters of buf below i are a sequence, those     *)
(* above are never read.  The history is one array, because a line may be  *)
(* longer than its row and runs on into the next.  The terminal behind the *)
(* serial port keeps the cells after the prompt and a cursor.              *)
(***************************************************************************)
EXTENDS Integers, Sequences, FiniteSets, SequencesExt

CONSTANTS
  Chars,     \* bound: the printable characters that are typed
  BUFLEN,    \* cells of buf
  HLINES,    \* rows of history
  HLEN       \* cells of a row of history

ASSUME ReadlineAssumption ==
  /\ BUFLEN \in Nat \ {0} /\ HLINES \in Nat \ {0} /\ HLEN \in Nat \ {0}
  /\ BUFLEN = 2 * HLEN                       \* 1024 and 512
  /\ Chars \cap {"bs", "nul"} = {}

NUL   == "nul"
Row   == 0 .. HLINES - 1
Cell  == 0 .. HLINES * HLEN - 1

VARIABLES
  editing,     \* a process is in readline
  line,        \* buf[0] .. buf[i - 1]
  history,     \* the rows one after the other
  history_id,  \* where the next line goes, and what Up and Down move
  screen,      \* the cells after the prompt and the cursor
  fault,       \* "none", or "overrun": a copy ran over buf or history
  entered,     \* history variable: the line last stored in each row
  intact       \* history variable: rows that nothing else was written over

readlineVars == <<editing, line, history, history_id, screen, fault, entered, intact>>

-----------------------------------------------------------------------------
(* The terminal: a backspace moves the cursor, a character overwrites.     *)
Blank == [text |-> << >>, col |-> 0]
cputchar(s, c) ==
  IF c = "bs"
  THEN [s EXCEPT !.col = IF @ = 0 THEN 0 ELSE @ - 1]
  ELSE [text |-> IF s.col = Len(s.text) THEN Append(s.text, c)
                 ELSE [s.text EXCEPT ![s.col + 1] = c],
        col  |-> s.col + 1]
Put(s, str) == FoldLeft(cputchar, s, str)

(* Wiping the last character, and the loops over j that wipe n of them.    *)
rubout(s) == cputchar(cputchar(cputchar(s, "bs"), " "), "bs")
Wipe(s, n) == FoldLeft(LAMBDA t, j : rubout(t), s, [j \in 1 .. n |-> j])

(* strcpy(buf, history[id]) reads from the start of the row to the next    *)
(* NUL, wherever it is.                                                    *)
Ends(h, id)    == {k \in Cell : k >= id * HLEN /\ h[k] = NUL}
CString(h, id) == LET e == Min(Ends(h, id))
                  IN [j \in 1 .. e - id * HLEN |-> h[id * HLEN + j - 1]]
Recallable(id) == Ends(history, id) # {} /\ Len(CString(history, id)) < BUFLEN

(* Mutant: the copy stops before the NUL.                                  *)
Stored_NoNul(id, str) ==
  [k \in Cell |-> LET j == k - id * HLEN + 1
                  IN IF j \in 1 .. Len(str) THEN str[j] ELSE history[k]]

(* strcpy(history[id], buf), the NUL included.                             *)
Stored(id, str) ==
  [k \in Cell |-> LET j == k - id * HLEN + 1
                  IN IF j \in 1 .. Len(str) THEN str[j]
                     ELSE IF j = Len(str) + 1 THEN NUL ELSE history[k]]

-----------------------------------------------------------------------------
ReadlineInit ==
  /\ editing = FALSE /\ line = << >> /\ screen = Blank /\ fault = "none"
  /\ history = [k \in Cell |-> NUL] /\ history_id = 0
  /\ entered = [r \in Row |-> << >>] /\ intact = Row

Ghosts == <<entered, intact>>

BeginLine ==
  /\ ~editing /\ fault = "none"
  /\ editing' = TRUE /\ line' = << >> /\ screen' = Blank
  /\ UNCHANGED <<history, history_id, fault, Ghosts>>

Typing == editing /\ fault = "none"

(* Mutant: i is set before the old line is wiped.                          *)
Recall_NewLength(id) ==
  /\ history_id' = id
  /\ IF Recallable(id)
     THEN /\ line' = CString(history, id)
          /\ screen' = Put(Wipe(screen, Len(line')), CString(history, id))
          /\ UNCHANGED fault
     ELSE fault' = "overrun" /\ UNCHANGED <<line, screen>>
  /\ UNCHANGED <<editing, history, Ghosts>>

(* Up and Down: the old line is wiped from the screen after buf has been   *)
(* overwritten and before i is.                                            *)
Recall(id) ==
  /\ history_id' = id
  /\ IF Recallable(id)
     THEN /\ line' = CString(history, id)
          /\ screen' = Put(Wipe(screen, Len(line)), CString(history, id))
          /\ UNCHANGED fault
     ELSE fault' = "overrun" /\ UNCHANGED <<line, screen>>
  /\ UNCHANGED <<editing, history, Ghosts>>

(* Mutant: Down does not look for the last row.                            *)
KeyDown_Unbounded == Typing /\ Recall(history_id + 1)

KeyUp   == Typing /\ history_id > 0 /\ Recall(history_id - 1)
KeyDown == Typing /\ history_id < HLINES - 1 /\ Recall(history_id + 1)

Backspace ==
  /\ Typing /\ line # << >>
  /\ screen' = rubout(screen)
  /\ line' = Front(line)
  /\ UNCHANGED <<editing, history, history_id, fault, Ghosts>>

Printable(c) ==
  /\ Typing /\ Len(line) < BUFLEN - 1
  /\ screen' = cputchar(screen, c)
  /\ line' = Append(line, c)
  /\ UNCHANGED <<editing, history, history_id, fault, Ghosts>>

(* The copy of the line and its NUL ends inside the array.                 *)
Fits(id, str) == id * HLEN + Len(str) < HLINES * HLEN

Newline ==
  /\ Typing
  /\ IF Fits(history_id, line)
     THEN /\ history' = Stored(history_id, line)
          /\ history_id' = history_id + 1
          /\ editing' = FALSE
          /\ entered' = [entered EXCEPT ![history_id] = line]
          /\ intact' = (intact \cup {history_id})
                         \ {r \in Row : \/ r = history_id + 1 /\ Len(line) >= HLEN
                                        \/ r = history_id - 1 /\ Len(entered[r]) >= HLEN}
          /\ UNCHANGED fault
     ELSE fault' = "overrun" /\ UNCHANGED <<history, history_id, editing, Ghosts>>
  /\ UNCHANGED <<line, screen>>

Stopped == fault # "none" /\ UNCHANGED readlineVars

ReadlineNext ==
  \/ BeginLine \/ KeyUp \/ KeyDown \/ Backspace \/ Newline
  \/ \E c \in Chars : Printable(c)
  \/ Stopped

ReadlineSpec == ReadlineInit /\ [][ReadlineNext]_readlineVars

-----------------------------------------------------------------------------
(* Every variable has its type; the line fits buf with its NUL.            *)
ReadlineTypeOK ==
  /\ editing \in BOOLEAN /\ fault \in {"none", "overrun"}
  /\ line \in BoundedSeq(Chars, BUFLEN - 1)
  /\ history \in [Cell -> Chars \cup {NUL}] /\ history_id \in 0 .. HLINES
  /\ intact \subseteq Row /\ entered \in [Row -> BoundedSeq(Chars, BUFLEN - 1)]

(* The user sees the line that Enter will hand over: the cells up to the   *)
(* cursor are the line, the cells after it are blank, however it was typed,*)
(* corrected and recalled (the echo of readline).                          *)
LineShown ==
  Typing =>
    /\ screen.col = Len(line)
    /\ Len(screen.text) >= Len(line)
    /\ \A j \in 1 .. Len(screen.text) :
         screen.text[j] = IF j <= Len(line) THEN line[j] ELSE " "

(* The history gives back what was entered: a row recalls exactly the line *)
(* stored in it last, also one longer than the row, as long as neither the *)
(* tail of the line before was written over its start nor the next line    *)
(* over its tail (the strcpy calls of readline).                           *)
HistoryKeepsLines ==
  \A r \in intact : Ends(history, r) # {} /\ CString(history, r) = entered[r]

(* Copies stay inside buf and history as long as lines fit their rows and  *)
(* history_id has not passed the last row: the only two ways to an overrun *)
(* (history[200][512] against history_id++ and BUFLEN).                    *)
OverrunNeedsLongLine ==
  fault # "none" =>
    \/ history_id = HLINES
    \/ history_id = HLINES - 1 /\ Len(line) >= HLEN
    \/ \E r \in Row : Len(entered[r]) >= HLEN

(* The line always fits buf with its NUL, typed or recalled, and nothing   *)
(* is copied beyond an array but in the two ways above.                    *)
ReadlineInv == ReadlineTypeOK /\ OverrunNeedsLongLine
=============================================================================
