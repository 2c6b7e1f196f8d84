------------------------------ MODULE Keyboard ------------------------------
(***************************************************************************)
(* The two readers of the keyboard (kernel/src/keyboard.c): the interrupt  *)
(* handler (irq_handle, press_key, ctrl_c), which keeps keydown and ctrl,  *)
(* and readline (poll_key), which polls with interrupts off and keeps      *)
(* shift.  A byte goes to one of them, so each misses what happened while  *)
(* the other was reading, down to a byte in the middle of a key.           *)
(*                                                                         *)
(* A key is the index poll_key computes for it: its make code, with 128    *)
(* added for a key that sends E0 first.  A character is its code.          *)
(***************************************************************************)
EXTENDS Integers, Sequences, FiniteSets

CONSTANT Keys       \* bound: the keys of the keyboard

(* The array letter: make codes of a to z.                                 *)
letter == <<30, 48, 46, 32, 18, 33, 34, 35, 23, 36, 37, 38, 50, 49, 24, 25,
            16, 19, 31, 20, 22, 47, 17, 45, 21, 44>>
Letter == {letter[i] : i \in 1 .. 26}
C      == letter[3]
CTRL   == {29, 157}                      \* left, and right behind E0
SHIFTS == {42, 54}
ENTER  == {28, 156}
E0     == 224
KEY_UP == 226
KEY_DN == 227

ASSUME KeyboardAssumption ==
  Keys \subseteq Letter \cup CTRL \cup SHIFTS \cup ENTER \cup {8, 14, 58, 72, 80, 200, 208}

VARIABLES
  held,     \* the keys that are down, as far as their bytes were read
  rest,     \* the byte that must follow an E0, or 0
  reading,  \* a process is in readline
  shift,    \* static shift of poll_key: SHIFT, CTL, CAPSLOCK, E0ESC
  keydown,  \* letters whose keydown is 1
  ctrl,     \* static ctrl of press_key
  char,     \* what poll_key returned last
  chord,    \* whether the last byte made a Ctrl-C, and whom it met
  typed,    \* history: of Ctrl and C, those pressed since the last Ctrl-C
  unseen,   \* history: flags of which poll_key missed a change
  stale     \* history: letters of which press_key missed a change

keyboardVars == <<held, rest, reading, shift, keydown, ctrl, char, chord, typed, unseen, stale>>

-----------------------------------------------------------------------------
(* The keyboard: a key sends its make code when it is pressed and while it *)
(* is held, and the code with bit 7 set when it is released.               *)
Down(k) == k % 128
Up(k)   == (k % 128) + 128

(* The key that byte b of the keyboard presses or releases, if any.        *)
KeyOf(b) == LET k == b % 128 IN IF rest # 0 THEN k + 128 ELSE k

Sends(b) ==
  IF rest # 0
  THEN /\ b = rest /\ rest' = 0
       /\ held' = IF b < 128 THEN held \cup {KeyOf(b)} ELSE held \ {KeyOf(b)}
  ELSE \/ /\ b = E0 /\ UNCHANGED held
          /\ \E k \in {k \in Keys : k >= 128} :
               rest' = Down(k) \/ (k \in held /\ rest' = Up(k))
       \/ /\ UNCHANGED rest
          /\ \E k \in {k \in Keys : k < 128} :
               \/ b = Down(k) /\ held' = held \cup {k}
               \/ k \in held /\ b = Up(k) /\ held' = held \ {k}

Bytes == {Down(k) : k \in Keys} \cup {Up(k) : k \in Keys} \cup {E0}

-----------------------------------------------------------------------------
(* shiftcode: the modifier a key stands for.                               *)
shiftcode(d) ==
  CASE d \in CTRL   -> {"CTL"}
    [] d \in SHIFTS -> {"SHIFT"}
    [] OTHER        -> {}

(* press_key: the E0 is no letter and no Ctrl, so both Ctrl keys count.    *)
press_key(b) ==
  LET k == b % 128
      letters == {k} \cap Letter
  IN [keydown |-> IF b < 128 THEN keydown \cup letters ELSE keydown \ letters,
      ctrl    |-> IF k = 29 THEN b < 128 ELSE ctrl]

(* Mutant: ctrl_c does not clear what it has seen.                         *)
ctrl_c_Keeps(p) == [hit |-> p.ctrl /\ C \in p.keydown, ctrl |-> p.ctrl, keydown |-> p.keydown]

ctrl_c(p) ==
  LET hit == p.ctrl /\ C \in p.keydown
  IN [hit     |-> hit,
      ctrl    |-> p.ctrl /\ ~hit,
      keydown |-> IF hit THEN p.keydown \ {C} ELSE p.keydown]

(* The keyboard interrupt; user says that the current process is no kernel *)
(* task and dies of a Ctrl-C.                                              *)
KeyboardIrq(b, user) ==
  LET p == ctrl_c(press_key(b))
      k == KeyOf(b)
  IN /\ ~reading /\ Sends(b)
     /\ keydown' = p.keydown /\ ctrl' = p.ctrl
     /\ chord' = IF p.hit THEN (IF user THEN "killed" ELSE "ignored") ELSE "none"
     /\ typed' = (IF chord = "none" THEN typed ELSE {})
                   \cup (IF b # E0 /\ b < 128
                         THEN {x \in {"ctrl", "c"} : \/ x = "ctrl" /\ k \in CTRL
                                                     \/ x = "c" /\ k = C}
                         ELSE {})
     /\ unseen' = unseen \cup shiftcode(k)
     /\ stale' = (stale \ {k}) \cup (IF p.hit THEN {C} ELSE {})
     /\ UNCHANGED <<reading, shift, char>>

-----------------------------------------------------------------------------
NO == 0

(* normalmap, shiftmap and ctlmap at the keys modelled.                    *)
normalmap(d) ==
  CASE d \in Letter      -> 96 + CHOOSE i \in 1 .. 26 : letter[i] = d
    [] d = 14            -> 8
    [] d \in ENTER       -> 10
    [] d = 72            -> 56
    [] d = 80            -> 50
    [] d = 200           -> KEY_UP
    [] d = 208           -> KEY_DN
    [] OTHER             -> NO
shiftmap(d) == IF d \in Letter THEN normalmap(d) - 32 ELSE normalmap(d)
ctlmap(d) ==
  CASE d \in Letter      -> normalmap(d) - 96
    [] d = 28            -> 13
    [] d \in {200, 208}  -> normalmap(d)
    [] OTHER             -> NO

charcode(sh, d) ==
  IF "CTL" \in sh THEN ctlmap(d) ELSE IF "SHIFT" \in sh THEN shiftmap(d) ELSE normalmap(d)

(* Mutant: Caps Lock is applied to lower case only.                        *)
Capital_LowerOnly(c) == IF c \in 97 .. 122 THEN c - 32 ELSE c

Capital(c) ==
  CASE c \in 97 .. 122 -> c - 32
    [] c \in 65 .. 90  -> c + 32
    [] OTHER           -> c

Toggled(sh, d) == IF d # 58 THEN sh ELSE IF "CAPSLOCK" \in sh THEN sh \ {"CAPSLOCK"}
                                         ELSE sh \cup {"CAPSLOCK"}

(* Mutant: a release without prefix is looked up with its bit 7.           *)
Released_Raw(b) == shift \ (shiftcode(b) \cup {"E0ESC"})

(* poll_key: what a release leaves of shift.                               *)
Released(b) == shift \ (shiftcode(IF "E0ESC" \in shift THEN b ELSE b % 128) \cup {"E0ESC"})

(* poll_key: the new shift and the result.                                 *)
poll_key(b) ==
  LET d   == IF "E0ESC" \in shift THEN (b % 128) + 128 ELSE b
      sh  == Toggled((shift \ {"E0ESC"}) \cup shiftcode(d), d)
      c   == charcode(sh, d)
  IN CASE b = E0               -> [shift |-> shift \cup {"E0ESC"}, c |-> 0]
       [] b >= 128 /\ b # E0   -> [shift |-> Released(b), c |-> 0]
       [] OTHER -> [shift |-> sh, c |-> IF "CAPSLOCK" \in sh THEN Capital(c) ELSE c]

(* The byte 0x08, the key 7, is read over until another byte comes.        *)
Skipped(b) == b = 8

(* Flags of the modifiers, with their keys.                                *)
Of(flag) == IF flag = "CTL" THEN CTRL ELSE SHIFTS

SysReadline ==
  /\ ~reading /\ reading' = TRUE /\ chord' = "none" /\ char' = 0
  /\ typed' = IF chord = "none" THEN typed ELSE {}
  /\ UNCHANGED <<held, rest, shift, keydown, ctrl, unseen, stale>>

(* getchar of readline: one byte.  A newline of either kind ends readline. *)
(* The interrupt that the controller keeps for a byte polled here comes    *)
(* after the return and reads the port once more; that is left out.        *)
Poll(b) ==
  LET r == poll_key(b)
      k == KeyOf(b)
      f == IF b = E0 THEN {} ELSE shiftcode(k)
  IN /\ reading /\ Sends(b)
     /\ IF Skipped(b) THEN UNCHANGED <<shift, char, reading>>
        ELSE /\ shift' = r.shift /\ char' = r.c
             /\ reading' = (r.c \notin {10, 13})
     /\ unseen' = (unseen \ f) \cup {x \in f : b >= 128 /\ held' \cap Of(x) # {}}
     /\ stale' = stale \cup ({k} \cap Letter)
     /\ UNCHANGED <<keydown, ctrl, chord, typed>>

-----------------------------------------------------------------------------
KeyboardInit ==
  /\ held = {} /\ rest = 0 /\ reading = FALSE /\ shift = {} /\ keydown = {}
  /\ ctrl = FALSE /\ char = 0 /\ chord = "none" /\ typed = {} /\ unseen = {} /\ stale = {}

KeyboardNext ==
  \/ \E b \in Bytes, user \in BOOLEAN : KeyboardIrq(b, user)
  \/ \E b \in Bytes : Poll(b)
  \/ SysReadline

KeyboardSpec == KeyboardInit /\ [][KeyboardNext]_keyboardVars

-----------------------------------------------------------------------------
(* Every variable has its type.                                            *)
KeyboardTypeOK ==
  /\ held \subseteq Keys /\ rest \in Bytes \cup {0} /\ reading \in BOOLEAN
  /\ shift \subseteq {"SHIFT", "CTL", "CAPSLOCK", "E0ESC"}
  /\ keydown \subseteq Keys \cap Letter /\ ctrl \in BOOLEAN /\ char \in 0 .. 255
  /\ chord \in {"none", "ignored", "killed"} /\ typed \subseteq {"ctrl", "c"}
  /\ unseen \subseteq {"SHIFT", "CTL"} /\ stale \subseteq Letter

(* An E0 concerns the next byte of the same key only: poll_key remembers   *)
(* one just while that byte is due, never beyond the end of a readline,    *)
(* though the two bytes may go to different readers.                       *)
PrefixIsTakenBack == "E0ESC" \in shift => reading /\ rest # 0

(* poll_key knows which modifiers are down, though it is blind outside     *)
(* readline: a flag is set exactly while a key of it is held, unless the   *)
(* interrupt handler took the last change of such a key, or one of two     *)
(* such keys has been released.                                            *)
ModifiersFollowKeys ==
  \A f \in {"SHIFT", "CTL"} \ unseen : f \in shift <=> held \cap Of(f) # {}

(* get_key answers for the keys that are held, unless readline took the    *)
(* last change of the letter or a Ctrl-C has cleared it.                   *)
KeydownFollowsKeys ==
  \A k \in (Letter \cap Keys) \ stale : k \in keydown <=> k \in held

(* Both readers together: each knows the state of the keys whose changes   *)
(* it saw, though bytes go to the one or the other, also within a key.     *)
KeyboardInv ==
  KeyboardTypeOK /\ PrefixIsTakenBack /\ ModifiersFollowKeys /\ KeydownFollowsKeys

(* One Ctrl-C kills one process, or none if it meets a kernel task: before *)
(* the next one both Ctrl and C have sent their codes anew, though a held  *)
(* C repeats and readline may take a release (ctrl_c, irq_handle).         *)
KillIsTyped == chord # "none" => typed = {"ctrl", "c"}

(* What readline gets for a letter is the letter, capital exactly when one *)
(* of Shift and Caps Lock holds, if no modifier is stale and Ctrl is up.   *)
LetterIsTyped ==
  [][\A k \in Keys \cap Letter :
       (reading /\ rest = 0 /\ unseen = {} /\ held \cap CTRL = {}
          /\ Poll(k))
         => char' = normalmap(k) - (IF (held \cap SHIFTS # {}) # ("CAPSLOCK" \in shift)
                                    THEN 32 ELSE 0)]_keyboardVars
=============================================================================
