---------------------------- MODULE DeviceProofs ----------------------------
(***************************************************************************)
(* Proofs of the properties of the keyboard, the line editor and the       *)
(* screen: module Keyboard for every set of keys, module Readline for      *)
(* every length of buf and every number and length of the rows of its      *)
(* history, module Video for every size of the screen, every set of        *)
(* colours and every number of stamps.  The three share no state.          *)
(***************************************************************************)
EXTENDS Keyboard, Readline, Video, SequenceTheorems, TLAPS

-----------------------------------------------------------------------------
(* Keyboard.                                                               *)

(* The byte due after an E0 belongs to a key that sends E0 first, and the  *)
(* release of one to a key that is held.                                   *)
RestIsOfKey ==
  rest # 0 => \E k \in Keys : /\ k >= 128
                              /\ rest = Down(k) \/ (k \in held /\ rest = Up(k))

(* What press_key remembers of Ctrl and C has been typed since the last    *)
(* Ctrl-C, which left nothing of either.                                   *)
ChordIsTyped ==
  IF chord = "none"
  THEN (ctrl => "ctrl" \in typed) /\ (C \in keydown => "c" \in typed)
  ELSE typed = {"ctrl", "c"} /\ ~ctrl /\ C \notin keydown

(* The inductive invariant.                                                *)
KeyboardIInv == KeyboardInv /\ RestIsOfKey /\ ChordIsTyped

-----------------------------------------------------------------------------
(* Lemmas about codes.                                                     *)

(* The array letter holds the make codes of the letters, no other key's.   *)
LEMMA LetterCodes ==
  /\ Letter = {30, 48, 46, 32, 18, 33, 34, 35, 23, 36, 37, 38, 50, 49, 24, 25,
               16, 19, 31, 20, 22, 47, 17, 45, 21, 44}
  /\ C = 46
<1>1. DOMAIN letter = 1 .. 26
  BY DEF letter
<1>2. QED
  BY <1>1 DEF Letter, letter, C

(* The codes a key sends: itself and bit 7, and behind an E0 the code      *)
(* without its 128.  No key behind an E0 shares its code with a letter or  *)
(* with another modifier.                                                  *)
LEMMA KeyCodes ==
  ASSUME NEW k \in Keys
  PROVE  /\ k \in 8 .. 208
         /\ k < 128 => Down(k) = k /\ Up(k) = k + 128 /\ k \in 8 .. 80
         /\ k >= 128 => Down(k) = k - 128 /\ Up(k) = k /\ k \in {156, 157, 200, 208}
<1>1. k \in Letter \cup {29, 157, 42, 54, 28, 156, 8, 14, 58, 72, 80, 200, 208}
  BY KeyboardAssumption DEF CTRL, SHIFTS, ENTER
<1>2. k \in 8 .. 80 \/ k \in {156, 157, 200, 208}
  BY <1>1, LetterCodes
<1>3. QED
  BY <1>2 DEF Down, Up

(* What one byte does: it is an E0, or the press or the release of the key *)
(* KeyOf tells.                                                            *)
LEMMA ByteOfKey ==
  ASSUME NEW b \in Bytes, Sends(b), RestIsOfKey
  PROVE  \/ /\ b = E0 /\ rest = 0 /\ rest' # 0 /\ rest' \in Bytes /\ held' = held
            /\ RestIsOfKey' /\ KeyOf(b) = 96
         \/ /\ rest' = 0 /\ b # E0 /\ b # 0 /\ KeyOf(b) \in Keys
            /\ (rest # 0) = (KeyOf(b) >= 128)
            /\ \/ b < 128 /\ b = Down(KeyOf(b)) /\ held' = held \cup {KeyOf(b)}
               \/ b >= 128 /\ b = Up(KeyOf(b)) /\ held' = held \ {KeyOf(b)}
<1>1. CASE rest # 0
  <2>1. PICK k \in Keys : k >= 128 /\ (rest = Down(k) \/ rest = Up(k))
    BY <1>1 DEF RestIsOfKey
  <2>2. b = rest /\ rest' = 0 /\ (b = k - 128 \/ b = k) /\ k \in {156, 157, 200, 208}
    BY <1>1, <2>1, KeyCodes DEF Sends
  <2>3. KeyOf(b) = k /\ b # E0 /\ b # 0
    BY <1>1, <2>2 DEF KeyOf, E0
  <2>4. QED
    BY <1>1, <2>1, <2>2, <2>3, KeyCodes DEF Sends
<1>2. CASE rest = 0 /\ b = E0 /\ UNCHANGED held
            /\ \E k \in {k \in Keys : k >= 128} :
                 rest' = Down(k) \/ (k \in held /\ rest' = Up(k))
  <2>1. PICK k \in Keys : k >= 128 /\ (rest' = Down(k) \/ (k \in held /\ rest' = Up(k)))
    BY <1>2
  <2>2. rest' # 0 /\ rest' \in Bytes
    BY <2>1, KeyCodes DEF Bytes
  <2>3. KeyOf(b) = 96
    BY <1>2 DEF KeyOf, E0
  <2>4. QED
    BY <1>2, <2>1, <2>2, <2>3 DEF RestIsOfKey
<1>3. CASE rest = 0 /\ UNCHANGED rest
            /\ \E k \in {k \in Keys : k < 128} :
                 \/ b = Down(k) /\ held' = held \cup {k}
                 \/ k \in held /\ b = Up(k) /\ held' = held \ {k}
  <2>1. PICK k \in Keys : /\ k < 128
                          /\ \/ b = Down(k) /\ held' = held \cup {k}
                             \/ k \in held /\ b = Up(k) /\ held' = held \ {k}
    BY <1>3
  <2>2. k \in 8 .. 80 /\ (b = k \/ b = k + 128)
    BY <2>1, KeyCodes
  <2>3. KeyOf(b) = k /\ b # E0 /\ b # 0
    BY <1>3, <2>2 DEF KeyOf, E0
  <2>4. QED
    BY <1>3, <2>1, <2>2, <2>3, KeyCodes
<1>4. QED
  BY <1>1, <1>2, <1>3 DEF Sends

(* The remainder of a byte is a letter just when the key is that letter,   *)
(* and a Ctrl just when the key is one of the two.                         *)
LEMMA ByteOfLetter ==
  ASSUME NEW b, KeyOf(b) \in Keys, (rest # 0) = (KeyOf(b) >= 128),
         b = Down(KeyOf(b)) \/ b = Up(KeyOf(b))
  PROVE  /\ {b % 128} \cap Letter = {KeyOf(b)} \cap Letter
         /\ b % 128 = 29 <=> KeyOf(b) \in CTRL
         /\ shiftcode(b % 128) = shiftcode(KeyOf(b))
         /\ b % 128 \in 8 .. 80
         /\ rest # 0 => (b % 128) + 128 = KeyOf(b)
         /\ rest # 0 /\ b >= 128 => b = KeyOf(b)
         /\ rest = 0 /\ b < 128 => b = KeyOf(b)
         /\ b \in Int
<1>. DEFINE k == KeyOf(b)
<1>1. \/ k \in 8 .. 80 /\ rest = 0 /\ (b = k \/ b = k + 128)
      \/ k \in {156, 157, 200, 208} /\ rest # 0 /\ (b = k - 128 \/ b = k)
  BY KeyCodes
<1>. HIDE DEF k
<1>2. CASE k \in 8 .. 80 /\ rest = 0 /\ (b = k \/ b = k + 128)
  <2>1. b % 128 = k
    BY <1>2
  <2>2. QED
    BY <1>2, <2>1 DEF k, CTRL
<1>3. CASE k \in {156, 157, 200, 208} /\ rest # 0 /\ (b = k - 128 \/ b = k)
  <2>1. b % 128 = k - 128
    BY <1>3
  <2>2. b % 128 \notin Letter /\ k \notin Letter
    BY <1>3, <2>1, LetterCodes
  <2>3. shiftcode(b % 128) = shiftcode(k) /\ (b % 128 = 29 <=> k \in CTRL)
    BY <1>3, <2>1 DEF shiftcode, CTRL, SHIFTS
  <2>4. QED
    BY <1>3, <2>1, <2>2, <2>3 DEF k
<1>4. QED
  BY <1>1, <1>2, <1>3

-----------------------------------------------------------------------------
(* Lemmas about the two readers.                                           *)

(* A code has no modifier or is one of Ctrl and Shift.                     *)
LEMMA ShiftcodeValues ==
  ASSUME NEW d
  PROVE  /\ shiftcode(d) \subseteq {"CTL", "SHIFT"}
         /\ "CTL" \in shiftcode(d) <=> d \in Of("CTL")
         /\ "SHIFT" \in shiftcode(d) <=> d \in Of("SHIFT")
<1>1. CASE d \in CTRL
  BY <1>1 DEF shiftcode, Of, CTRL, SHIFTS
<1>2. CASE d \in SHIFTS
  BY <1>2 DEF shiftcode, Of, CTRL, SHIFTS
<1>3. CASE d \notin CTRL /\ d \notin SHIFTS
  BY <1>3 DEF shiftcode, Of
<1>4. QED
  BY <1>1, <1>2, <1>3

(* The codes in the maps: a letter is its letter, everything is a byte.    *)
LEMMA MapValues ==
  ASSUME NEW d
  PROVE  /\ normalmap(d) \in 0 .. 227
         /\ d \in Letter => normalmap(d) \in 97 .. 122
<1>1. CASE d \in Letter
  <2>. DEFINE n == CHOOSE j \in 1 .. 26 : letter[j] = d
  <2>1. PICK i \in 1 .. 26 : letter[i] = d
    BY <1>1 DEF Letter
  <2>2. n \in 1 .. 26
    BY <2>1
  <2>3. normalmap(d) = 96 + n
    <3>1. d \notin ENTER \cup {14, 72, 80, 200, 208}
      BY <1>1, LetterCodes DEF ENTER
    <3>2. d # 14 /\ d \notin ENTER /\ d # 72 /\ d # 80 /\ d # 200 /\ d # 208
      BY <3>1
    <3>3. QED
      BY <1>1, <3>2 DEF normalmap
  <2>. HIDE DEF n
  <2>4. QED
    BY <2>2, <2>3
<1>2. CASE d \notin Letter
  <2>1. \/ d = 14 /\ normalmap(d) = 8
        \/ d \in ENTER /\ normalmap(d) = 10
        \/ d = 72 /\ normalmap(d) = 56
        \/ d = 80 /\ normalmap(d) = 50
        \/ d = 200 /\ normalmap(d) = KEY_UP
        \/ d = 208 /\ normalmap(d) = KEY_DN
        \/ normalmap(d) = NO
    BY <1>2 DEF normalmap, ENTER
  <2>2. QED
    BY <1>2, <2>1 DEF KEY_UP, KEY_DN, NO
<1>3. QED
  BY <1>1, <1>2

(* charcode and Capital of a byte are bytes.                               *)
LEMMA CharValues ==
  ASSUME NEW sh, NEW d
  PROVE  charcode(sh, d) \in 0 .. 255 /\ Capital(charcode(sh, d)) \in 0 .. 255
<1>1. shiftmap(d) \in 0 .. 227
  BY MapValues DEF shiftmap
<1>2. ctlmap(d) \in 0 .. 227
  <2>1. \/ d \in Letter /\ ctlmap(d) = normalmap(d) - 96
        \/ ctlmap(d) = 13
        \/ ctlmap(d) = normalmap(d)
        \/ ctlmap(d) = NO
    <3>1. CASE d \in Letter
      <4>1. d \notin {28, 200, 208}
        BY <3>1, LetterCodes
      <4>2. QED
        BY <3>1, <4>1 DEF ctlmap
    <3>2. CASE d \notin Letter
      BY <3>2 DEF ctlmap
    <3>3. QED
      BY <3>1, <3>2
  <2>2. QED
    BY <2>1, MapValues DEF NO
<1>3. charcode(sh, d) \in 0 .. 227
  BY <1>1, <1>2, MapValues DEF charcode
<1>4. ASSUME NEW c \in 0 .. 227 PROVE Capital(c) \in 0 .. 255
  <2>1. CASE c \in 97 .. 122
    <3>1. c \notin 65 .. 90
      BY <2>1
    <3>2. Capital(c) = c - 32
      BY <2>1, <3>1 DEF Capital
    <3>3. QED
      BY <2>1, <3>2
  <2>2. CASE c \in 65 .. 90
    <3>1. c \notin 97 .. 122
      BY <2>2
    <3>2. Capital(c) = c + 32
      BY <2>2, <3>1 DEF Capital
    <3>3. QED
      BY <2>2, <3>2
  <2>3. CASE c \notin 97 .. 122 /\ c \notin 65 .. 90
    <3>1. Capital(c) = c
      BY <2>3 DEF Capital
    <3>2. QED
      BY <3>1
  <2>4. QED
    BY <2>1, <2>2, <2>3
<1>5. charcode(sh, d) \in 0 .. 255
  BY <1>3
<1>6. Capital(charcode(sh, d)) \in 0 .. 255
  BY <1>3, <1>4, Zenon
<1>7. QED
  BY <1>5, <1>6

(* poll_key: an E0 is remembered; any other byte forgets it, and sets or   *)
(* clears the modifier of its key, whether poll_key has seen the E0 of     *)
(* that key or not.                                                        *)
LEMMA PollResult ==
  ASSUME KeyboardTypeOK, PrefixIsTakenBack, RestIsOfKey, NEW b \in Bytes, Sends(b)
  PROVE  LET r == poll_key(b) IN
         /\ r.c \in 0 .. 255
         /\ r.shift \subseteq {"SHIFT", "CTL", "CAPSLOCK", "E0ESC"}
         /\ b = E0 => r.c = 0 /\ r.shift = shift \cup {"E0ESC"}
         /\ b # E0 => "E0ESC" \notin r.shift
         /\ \A f \in {"SHIFT", "CTL"} :
              f \in r.shift <=> IF b = E0 THEN f \in shift
                               ELSE IF b < 128 THEN f \in shift \cup shiftcode(KeyOf(b))
                               ELSE f \in shift \ shiftcode(KeyOf(b))
<1>. DEFINE d == IF "E0ESC" \in shift THEN (b % 128) + 128 ELSE b
            sh == Toggled((shift \ {"E0ESC"}) \cup shiftcode(d), d)
<1>1. CASE b = E0
  <2>1. poll_key(b) = [shift |-> shift \cup {"E0ESC"}, c |-> 0]
    <3>1. ~(b >= 128 /\ b # E0)
      BY <1>1
    <3>2. QED
      BY <1>1, <3>1 DEF poll_key
  <2>2. QED
    BY <1>1, <2>1 DEF KeyboardTypeOK
<1>2. CASE b # E0
  <2>1. /\ KeyOf(b) \in Keys /\ (rest # 0) = (KeyOf(b) >= 128)
        /\ \/ b < 128 /\ b = Down(KeyOf(b))
           \/ b >= 128 /\ b = Up(KeyOf(b))
    BY <1>2, ByteOfKey
  <2>2. /\ shiftcode(b % 128) = shiftcode(KeyOf(b))
        /\ rest # 0 => (b % 128) + 128 = KeyOf(b)
        /\ rest # 0 /\ b >= 128 => b = KeyOf(b)
        /\ rest = 0 /\ b < 128 => b = KeyOf(b)
        /\ b \in Int
    BY <2>1, ByteOfLetter
  <2>3. "E0ESC" \in shift => rest # 0
    BY DEF PrefixIsTakenBack
  <2>4. CASE b >= 128
    <3>1. poll_key(b) = [shift |-> Released(b), c |-> 0]
      BY <1>2, <2>4 DEF poll_key
    <3>2. shiftcode(IF "E0ESC" \in shift THEN b ELSE b % 128) = shiftcode(KeyOf(b))
      BY <2>2, <2>3, <2>4
    <3>3. Released(b) = shift \ (shiftcode(KeyOf(b)) \cup {"E0ESC"})
      BY <3>2 DEF Released
    <3>4. ~(b < 128)
      BY <2>2, <2>4
    <3>5. poll_key(b).c = 0 /\ poll_key(b).shift = shift \ (shiftcode(KeyOf(b)) \cup {"E0ESC"})
      BY <3>1, <3>3
    <3>6. shift \subseteq {"SHIFT", "CTL", "CAPSLOCK", "E0ESC"}
      BY DEF KeyboardTypeOK
    <3>7. 0 \in 0 .. 255
      OBVIOUS
    <3>8. QED
      BY <1>2, <3>4, <3>5, <3>6, <3>7, Zenon
  <2>5. CASE b < 128
    <3>1. ~(b >= 128 /\ b # E0)
      BY <2>2, <2>5
    <3>2. poll_key(b) = [shift |-> sh,
                         c |-> IF "CAPSLOCK" \in sh THEN Capital(charcode(sh, d)) ELSE charcode(sh, d)]
      BY <1>2, <3>1 DEF poll_key
    <3>3. shiftcode(d) = shiftcode(KeyOf(b))
      <4>1. CASE "E0ESC" \in shift
        BY <2>2, <2>3, <4>1
      <4>2. CASE "E0ESC" \notin shift
        <5>1. b \in 8 .. 80
          BY <2>1, <2>5, KeyCodes
        <5>2. b % 128 = b
          BY <5>1
        <5>3. QED
          BY <2>2, <4>2, <5>2
      <4>3. QED
        BY <4>1, <4>2
    <3>4. /\ sh \subseteq {"SHIFT", "CTL", "CAPSLOCK", "E0ESC"} /\ "E0ESC" \notin sh
          /\ \A f \in {"SHIFT", "CTL"} : f \in sh <=> f \in shift \cup shiftcode(KeyOf(b))
      <4>. HIDE DEF d
      <4>1. shiftcode(d) \subseteq {"CTL", "SHIFT"}
        BY ShiftcodeValues
      <4>2. QED
        BY <3>3, <4>1 DEF Toggled, KeyboardTypeOK
    <3>5. poll_key(b).c \in 0 .. 255
      <4>. HIDE DEF sh, d
      <4>1. QED
        BY <3>2, CharValues
    <3>6. poll_key(b).shift = sh
      <4>. HIDE DEF sh, d
      <4>1. QED
        BY <3>2
    <3>. HIDE DEF sh, d
    <3>7. QED
      BY <1>2, <2>5, <3>4, <3>5, <3>6
  <2>6. QED
    BY <2>2, <2>4, <2>5
<1>3. QED
  BY <1>1, <1>2

-----------------------------------------------------------------------------
(* The three actions.                                                      *)

(* The interrupt handler: E0ESC is not its business, a modifier it sees is *)
(* unseen by poll_key, and a letter it sees is no longer stale.            *)
LEMMA KeyboardIrqInv ==
  ASSUME KeyboardIInv, NEW b \in Bytes, NEW user \in BOOLEAN, KeyboardIrq(b, user)
  PROVE  KeyboardIInv'
<1>. DEFINE k == KeyOf(b)
            letters == {b % 128} \cap Letter
            kd == IF b < 128 THEN keydown \cup letters ELSE keydown \ letters
            ct == IF b % 128 = 29 THEN b < 128 ELSE ctrl
            hit == ct /\ C \in kd
<1>1. /\ KeyboardTypeOK /\ PrefixIsTakenBack /\ ModifiersFollowKeys /\ KeydownFollowsKeys
      /\ RestIsOfKey /\ ChordIsTyped
  BY DEF KeyboardIInv, KeyboardInv
<1>2. /\ ~reading /\ Sends(b) /\ reading' = reading /\ shift' = shift /\ char' = char
      /\ keydown' = IF hit THEN kd \ {C} ELSE kd
      /\ ctrl' = (ct /\ ~hit)
      /\ chord' = IF hit THEN (IF user THEN "killed" ELSE "ignored") ELSE "none"
      /\ unseen' = unseen \cup shiftcode(k)
      /\ stale' = (stale \ {k}) \cup (IF hit THEN {C} ELSE {})
  BY DEF KeyboardIrq, press_key, ctrl_c
<1>3. typed' = (IF chord = "none" THEN typed ELSE {})
                 \cup (IF b # E0 /\ b < 128
                       THEN {x \in {"ctrl", "c"} : \/ x = "ctrl" /\ k \in CTRL
                                                   \/ x = "c" /\ k = C}
                       ELSE {})
  BY DEF KeyboardIrq
<1>. DEFINE isKey == /\ rest' = 0 /\ b # E0 /\ k \in Keys
                     /\ \/ b < 128 /\ held' = held \cup {k}
                        \/ b >= 128 /\ ~(b < 128) /\ held' = held \ {k}
            isE0  == /\ b = E0 /\ ~(b < 128) /\ rest' # 0 /\ rest' \in Bytes /\ held' = held
                     /\ RestIsOfKey' /\ k = 96
<1>4. /\ isKey \/ isE0
      /\ letters = {k} \cap Letter
      /\ b % 128 = 29 <=> k \in CTRL
  <2>1. CASE b = E0
    <3>1. rest = 0 /\ rest' # 0 /\ rest' \in Bytes /\ held' = held /\ RestIsOfKey' /\ k = 96
      BY <1>1, <1>2, <2>1, ByteOfKey
    <3>2. b % 128 = 96 /\ ~(b < 128)
      BY <2>1 DEF E0
    <3>. HIDE DEF k
    <3>3. QED
      BY <2>1, <3>1, <3>2 DEF CTRL
  <2>2. CASE b # E0
    <3>1. /\ rest' = 0 /\ KeyOf(b) \in Keys /\ (rest # 0) = (KeyOf(b) >= 128)
          /\ \/ b < 128 /\ b = Down(KeyOf(b)) /\ held' = held \cup {k}
             \/ b >= 128 /\ b = Up(KeyOf(b)) /\ held' = held \ {k}
      BY <1>1, <1>2, <2>2, ByteOfKey
    <3>2. /\ {b % 128} \cap Letter = {KeyOf(b)} \cap Letter
          /\ b % 128 = 29 <=> KeyOf(b) \in CTRL
          /\ b \in Int
      BY <3>1, ByteOfLetter
    <3>3. b >= 128 => ~(b < 128)
      BY <3>2
    <3>4. QED
      BY <2>2, <3>1, <3>2, <3>3
  <2>3. QED
    BY <2>1, <2>2
<1>. HIDE DEF k, letters
<1>5. KeyboardTypeOK'
  <2>1. letters \subseteq Keys \cap Letter
    BY <1>4, LetterCodes
  <2>2. shiftcode(k) \subseteq {"CTL", "SHIFT"}
    BY ShiftcodeValues
  <2>3. C \in Letter
    BY LetterCodes
  <2>4. held' \subseteq Keys /\ rest' \in Bytes \cup {0}
    BY <1>1, <1>4 DEF KeyboardTypeOK
  <2>5. keydown' \subseteq Keys \cap Letter
    BY <1>1, <1>2, <2>1 DEF KeyboardTypeOK
  <2>6. ctrl' \in BOOLEAN /\ chord' \in {"none", "ignored", "killed"}
    BY <1>1, <1>2 DEF KeyboardTypeOK
  <2>7. typed' \subseteq {"ctrl", "c"}
    BY <1>1, <1>3 DEF KeyboardTypeOK
  <2>8. unseen' \subseteq {"SHIFT", "CTL"} /\ stale' \subseteq Letter
    BY <1>1, <1>2, <2>2, <2>3 DEF KeyboardTypeOK
  <2>9. QED
    BY <1>1, <1>2, <2>4, <2>5, <2>6, <2>7, <2>8 DEF KeyboardTypeOK
<1>6. PrefixIsTakenBack'
  BY <1>1, <1>2 DEF PrefixIsTakenBack
<1>7. ModifiersFollowKeys'
  <2>. SUFFICES ASSUME NEW f \in {"SHIFT", "CTL"}, f \notin unseen'
                PROVE  f \in shift' <=> held' \cap Of(f) # {}
    BY DEF ModifiersFollowKeys
  <2>1. k \notin Of(f) /\ f \notin unseen
    BY <1>2, ShiftcodeValues
  <2>2. held' \cap Of(f) = held \cap Of(f)
    BY <1>4, <2>1
  <2>3. QED
    BY <1>1, <1>2, <2>1, <2>2 DEF ModifiersFollowKeys
<1>8. KeydownFollowsKeys'
  <2>. SUFFICES ASSUME NEW l \in Letter \cap Keys, l \notin stale'
                PROVE  l \in keydown' <=> l \in held'
    BY DEF KeydownFollowsKeys
  <2>1. l = C => ~hit
    BY <1>2
  <2>2. l \in keydown' <=> l \in kd
    BY <1>2, <2>1
  <2>3. CASE l = k
    <3>1. letters = {l}
      BY <1>4, <2>3
    <3>2. l # 96
      BY LetterCodes
    <3>3. l \in kd <=> b < 128
      BY <3>1
    <3>4. l \in held' <=> b < 128
      BY <1>4, <2>3, <3>2
    <3>5. QED
      BY <2>2, <3>3, <3>4
  <2>4. CASE l # k
    <3>1. l \in keydown <=> l \in held
      BY <1>1, <1>2, <2>4 DEF KeydownFollowsKeys
    <3>2. QED
      BY <1>4, <2>2, <2>4, <3>1
  <2>5. QED
    BY <2>3, <2>4
<1>9. RestIsOfKey'
  BY <1>4 DEF RestIsOfKey
<1>10. ChordIsTyped'
  <2>1. ct => "ctrl" \in typed'
    BY <1>1, <1>3, <1>4 DEF ChordIsTyped
  <2>2. C \in kd => "c" \in typed'
    BY <1>1, <1>3, <1>4 DEF ChordIsTyped
  <2>3. typed' \subseteq {"ctrl", "c"}
    BY <1>5 DEF KeyboardTypeOK
  <2>4. QED
    BY <1>2, <2>1, <2>2, <2>3 DEF ChordIsTyped
<1>11. QED
  BY <1>5, <1>6, <1>7, <1>8, <1>9, <1>10 DEF KeyboardIInv, KeyboardInv

(* readline: poll_key keeps the flag of the modifier it sees and looks at  *)
(* no letter for press_key, which is stale from then on.                   *)
LEMMA PollInv ==
  ASSUME KeyboardIInv, NEW b \in Bytes, Poll(b)
  PROVE  KeyboardIInv'
<1>. DEFINE r == poll_key(b)
            k == KeyOf(b)
            f == IF b = E0 THEN {} ELSE shiftcode(k)
<1>1. /\ KeyboardTypeOK /\ PrefixIsTakenBack /\ ModifiersFollowKeys /\ KeydownFollowsKeys
      /\ RestIsOfKey /\ ChordIsTyped
  BY DEF KeyboardIInv, KeyboardInv
<1>2. /\ reading /\ Sends(b)
      /\ IF b = 8 THEN UNCHANGED <<shift, char, reading>>
         ELSE /\ shift' = r.shift /\ char' = r.c
              /\ reading' = (r.c \notin {10, 13})
      /\ unseen' = (unseen \ f) \cup {x \in f : b >= 128 /\ held' \cap Of(x) # {}}
      /\ stale' = stale \cup ({k} \cap Letter)
      /\ UNCHANGED <<keydown, ctrl, chord, typed>>
  BY DEF Poll, Skipped
<1>3. /\ r.c \in 0 .. 255
      /\ r.shift \subseteq {"SHIFT", "CTL", "CAPSLOCK", "E0ESC"}
      /\ b = E0 => r.c = 0 /\ r.shift = shift \cup {"E0ESC"}
      /\ b # E0 => "E0ESC" \notin r.shift
      /\ \A x \in {"SHIFT", "CTL"} :
           x \in r.shift <=> IF b = E0 THEN x \in shift
                            ELSE IF b < 128 THEN x \in shift \cup shiftcode(k)
                            ELSE x \in shift \ shiftcode(k)
  BY <1>1, <1>2, PollResult
<1>4. \/ /\ b = E0 /\ rest' # 0 /\ rest' \in Bytes /\ held' = held /\ RestIsOfKey' /\ k = 96
      \/ /\ rest' = 0 /\ b # E0 /\ k \in Keys /\ (rest # 0) = (k >= 128)
         /\ b < 128 => b = Down(k)
         /\ \/ b < 128 /\ held' = held \cup {k}
            \/ b >= 128 /\ ~(b < 128) /\ held' = held \ {k}
  <2>1. CASE b = E0
    BY <1>1, <1>2, <2>1, ByteOfKey
  <2>2. CASE b # E0
    <3>1. /\ rest' = 0 /\ KeyOf(b) \in Keys /\ (rest # 0) = (KeyOf(b) >= 128)
          /\ \/ b < 128 /\ b = Down(KeyOf(b)) /\ held' = held \cup {k}
             \/ b >= 128 /\ b = Up(KeyOf(b)) /\ held' = held \ {k}
      BY <1>1, <1>2, <2>2, ByteOfKey
    <3>2. b \in Int
      BY <3>1, ByteOfLetter
    <3>3. b >= 128 => ~(b < 128)
      BY <3>2
    <3>4. QED
      BY <2>2, <3>1, <3>3
  <2>3. QED
    BY <2>1, <2>2
<1>. HIDE DEF r, k
<1>5. b = 8 => shiftcode(k) = {} /\ b # E0 /\ k \notin Of("CTL") /\ k \notin Of("SHIFT")
              /\ "E0ESC" \notin shift
  <2>. SUFFICES ASSUME b = 8
                PROVE  shiftcode(k) = {} /\ b # E0 /\ k \notin Of("CTL") /\ k \notin Of("SHIFT")
                       /\ "E0ESC" \notin shift
    OBVIOUS
  <2>1. b # E0 /\ b < 128
    BY DEF E0
  <2>2. k = 8 /\ rest = 0
    BY <1>4, <2>1, KeyCodes
  <2>3. k \notin CTRL /\ k \notin SHIFTS
    BY <2>2 DEF CTRL, SHIFTS
  <2>4. QED
    BY <1>1, <2>1, <2>2, <2>3 DEF shiftcode, Of, PrefixIsTakenBack
<1>6. f \subseteq {"SHIFT", "CTL"}
  BY ShiftcodeValues
<1>7. KeyboardTypeOK'
  <2>1. shift' \subseteq {"SHIFT", "CTL", "CAPSLOCK", "E0ESC"} /\ char' \in 0 .. 255
        /\ reading' \in BOOLEAN
    BY <1>1, <1>2, <1>3 DEF KeyboardTypeOK
  <2>2. unseen' \subseteq {"SHIFT", "CTL"} /\ stale' \subseteq Letter
    BY <1>1, <1>2, <1>6 DEF KeyboardTypeOK
  <2>3. held' \subseteq Keys /\ rest' \in Bytes \cup {0}
    BY <1>1, <1>4 DEF KeyboardTypeOK
  <2>4. QED
    BY <1>1, <1>2, <2>1, <2>2, <2>3 DEF KeyboardTypeOK
<1>8. PrefixIsTakenBack'
  <2>1. CASE b = E0
    <3>1. b # 8 /\ rest' # 0
      BY <1>4, <1>5, <2>1
    <3>2. r.c = 0 /\ 0 \notin {10, 13}
      BY <1>3, <2>1
    <3>3. reading'
      BY <1>2, <3>1, <3>2, Zenon
    <3>4. QED
      BY <3>1, <3>3 DEF PrefixIsTakenBack
  <2>2. CASE b # E0
    BY <1>2, <1>3, <1>5, <2>2 DEF PrefixIsTakenBack
  <2>3. QED
    BY <2>1, <2>2
<1>9. ModifiersFollowKeys'
  <2>. SUFFICES ASSUME NEW x \in {"SHIFT", "CTL"}, x \notin unseen'
                PROVE  x \in shift' <=> held' \cap Of(x) # {}
    BY DEF ModifiersFollowKeys
  <2>1. x \in shiftcode(k) <=> k \in Of(x)
    BY ShiftcodeValues
  <2>2. x \in shift' <=> IF b = E0 THEN x \in shift
                         ELSE IF b < 128 THEN x \in shift \cup shiftcode(k)
                         ELSE x \in shift \ shiftcode(k)
    <3>1. CASE b = 8
      BY <1>2, <1>5, <3>1
    <3>2. CASE b # 8
      BY <1>2, <1>3, <3>2
    <3>3. QED
      BY <3>1, <3>2
  <2>3. CASE x \in f
    <3>1. b # E0 /\ k \in Of(x) /\ x \in shiftcode(k)
      BY <2>1, <2>3
    <3>2. CASE b < 128
      BY <1>4, <2>2, <3>1, <3>2
    <3>3. CASE ~(b < 128)
      <4>1. b >= 128
        BY <1>4, <3>1, <3>3
      <4>2. held' \cap Of(x) = {}
        BY <1>2, <2>3, <4>1
      <4>3. QED
        BY <2>2, <3>1, <3>3, <4>2
    <3>4. QED
      BY <3>2, <3>3
  <2>4. CASE x \notin f
    <3>1. x \notin unseen
      BY <1>2, <2>4
    <3>2. held' \cap Of(x) = held \cap Of(x)
      BY <1>4, <2>1, <2>4
    <3>3. x \in shift' <=> x \in shift
      BY <2>2, <2>4
    <3>4. QED
      BY <1>1, <3>1, <3>2, <3>3 DEF ModifiersFollowKeys
  <2>5. QED
    BY <2>3, <2>4
<1>10. KeydownFollowsKeys'
  <2>. SUFFICES ASSUME NEW l \in Letter \cap Keys, l \notin stale'
                PROVE  l \in keydown' <=> l \in held'
    BY DEF KeydownFollowsKeys
  <2>1. l # k /\ l \notin stale
    BY <1>2
  <2>2. QED
    BY <1>1, <1>2, <1>4, <2>1 DEF KeydownFollowsKeys
<1>11. RestIsOfKey'
  BY <1>4 DEF RestIsOfKey
<1>12. ChordIsTyped'
  BY <1>1, <1>2 DEF ChordIsTyped
<1>13. QED
  BY <1>7, <1>8, <1>9, <1>10, <1>11, <1>12 DEF KeyboardIInv, KeyboardInv

(* The start of a readline resets what was shown, and no knowledge.        *)
LEMMA SysReadlineInv ==
  ASSUME KeyboardIInv, SysReadline
  PROVE  KeyboardIInv'
<1>1. /\ KeyboardTypeOK /\ PrefixIsTakenBack /\ ModifiersFollowKeys /\ KeydownFollowsKeys
      /\ RestIsOfKey /\ ChordIsTyped
  BY DEF KeyboardIInv, KeyboardInv
<1>2. /\ reading' /\ reading' \in BOOLEAN /\ chord' = "none" /\ char' = 0
      /\ typed' = IF chord = "none" THEN typed ELSE {}
      /\ UNCHANGED <<held, rest, shift, keydown, ctrl, unseen, stale>>
  BY DEF SysReadline
<1>3. KeyboardTypeOK'
  BY <1>1, <1>2 DEF KeyboardTypeOK
<1>4. PrefixIsTakenBack'
  BY <1>1, <1>2 DEF PrefixIsTakenBack
<1>5. ModifiersFollowKeys' /\ KeydownFollowsKeys'
  BY <1>1, <1>2 DEF ModifiersFollowKeys, KeydownFollowsKeys
<1>6. RestIsOfKey'
  BY <1>1, <1>2 DEF RestIsOfKey
<1>7. ChordIsTyped'
  BY <1>1, <1>2 DEF ChordIsTyped
<1>8. QED
  BY <1>3, <1>4, <1>5, <1>6, <1>7 DEF KeyboardIInv, KeyboardInv

LEMMA KeyboardInitInv == KeyboardInit => KeyboardIInv
<1>. SUFFICES ASSUME KeyboardInit PROVE KeyboardIInv
  OBVIOUS
<1>1. 0 \in 0 .. 255
  OBVIOUS
<1>2. KeyboardTypeOK
  BY <1>1, Zenon DEF KeyboardInit, KeyboardTypeOK
<1>3. PrefixIsTakenBack /\ ModifiersFollowKeys /\ KeydownFollowsKeys
  BY DEF KeyboardInit, PrefixIsTakenBack, ModifiersFollowKeys, KeydownFollowsKeys
<1>4. RestIsOfKey /\ ChordIsTyped
  BY DEF KeyboardInit, RestIsOfKey, ChordIsTyped
<1>5. QED
  BY <1>2, <1>3, <1>4 DEF KeyboardIInv, KeyboardInv

LEMMA KeyboardNextInv == KeyboardIInv /\ [KeyboardNext]_keyboardVars => KeyboardIInv'
<1>. SUFFICES ASSUME KeyboardIInv, [KeyboardNext]_keyboardVars PROVE KeyboardIInv'
  OBVIOUS
<1>1. CASE UNCHANGED keyboardVars
  BY <1>1 DEF keyboardVars, KeyboardIInv, KeyboardInv, KeyboardTypeOK, PrefixIsTakenBack,
              ModifiersFollowKeys, KeydownFollowsKeys, RestIsOfKey, ChordIsTyped
<1>2. QED
  BY <1>1, KeyboardIrqInv, PollInv, SysReadlineInv DEF KeyboardNext

LEMMA KeyboardIsInductive == KeyboardSpec => []KeyboardIInv
BY KeyboardInitInv, KeyboardNextInv, PTL DEF KeyboardSpec

-----------------------------------------------------------------------------
(* Whichever bytes of a key go to the interrupt handler and which to       *)
(* readline, poll_key knows the modifiers and get_key the letters whose    *)
(* last change each has seen, and no E0 outlives its key.                  *)
THEOREM KeyboardSafe == KeyboardSpec => []KeyboardInv
<1>1. KeyboardIInv => KeyboardInv
  BY DEF KeyboardIInv
<1>2. QED
  BY <1>1, KeyboardIsInductive, PTL

(* A process dies of a Ctrl-C only after both keys sent their codes anew.  *)
THEOREM KillsAreTyped == KeyboardSpec => []KillIsTyped
<1>1. KeyboardIInv => KillIsTyped
  BY DEF KeyboardIInv, ChordIsTyped, KillIsTyped
<1>2. QED
  BY <1>1, KeyboardIsInductive, PTL

(* The character of a letter's make code: with no E0 pending and no Ctrl,  *)
(* Shift and Caps Lock each change the case.                               *)
LEMMA LetterChar ==
  ASSUME NEW k \in Keys \cap Letter, "E0ESC" \notin shift, "CTL" \notin shift
  PROVE  poll_key(k).c = normalmap(k) - (IF ("SHIFT" \in shift) # ("CAPSLOCK" \in shift)
                                         THEN 32 ELSE 0)
<1>1. k \in 16 .. 50 /\ k \notin {42, 54, 29, 157, 58}
  BY LetterCodes
<1>2. k # E0 /\ ~(k >= 128 /\ k # E0) /\ k # 58 /\ k \notin CTRL /\ k \notin SHIFTS
  BY <1>1 DEF E0, CTRL, SHIFTS
<1>3. shiftcode(k) = {}
  BY <1>2 DEF shiftcode
<1>4. Toggled((shift \ {"E0ESC"}) \cup shiftcode(k), k) = shift
  <2>1. (shift \ {"E0ESC"}) \cup shiftcode(k) = shift
    BY <1>3
  <2>2. QED
    BY <1>2, <2>1 DEF Toggled
<1>5. poll_key(k) = [shift |-> shift, c |-> IF "CAPSLOCK" \in shift THEN Capital(charcode(shift, k))
                                           ELSE charcode(shift, k)]
  BY <1>2, <1>4 DEF poll_key
<1>6. poll_key(k).c = IF "CAPSLOCK" \in shift THEN Capital(charcode(shift, k))
                      ELSE charcode(shift, k)
  BY <1>5
<1>. DEFINE n == normalmap(k)
<1>7. n \in 97 .. 122
  BY MapValues
<1>8. charcode(shift, k) = IF "SHIFT" \in shift THEN n - 32 ELSE n
  BY DEF charcode, shiftmap
<1>. HIDE DEF n
<1>9. n \notin 65 .. 90 /\ n - 32 \in 65 .. 90 /\ n - 32 \notin 97 .. 122
  BY <1>7
<1>10. Capital(n) = n - 32
  BY <1>7, <1>9 DEF Capital
<1>11. Capital(n - 32) = n
  <2>1. Capital(n - 32) = (n - 32) + 32
    BY <1>9 DEF Capital
  <2>2. QED
    BY <1>7, <2>1
<1>12. n - 0 = n
  BY <1>7
<1>13. QED
  <2>1. CASE "SHIFT" \in shift
    BY <1>6, <1>8, <1>10, <1>11, <1>12, <2>1 DEF n
  <2>2. CASE "SHIFT" \notin shift
    BY <1>6, <1>8, <1>10, <1>11, <1>12, <2>2 DEF n
  <2>3. QED
    BY <2>1, <2>2

(* What readline returns for a letter is what the keyboard shows.          *)
THEOREM LettersAreTyped == KeyboardSpec => LetterIsTyped
<1>1. KeyboardIInv /\ [KeyboardNext]_keyboardVars =>
        [\A k \in Keys \cap Letter :
           (reading /\ rest = 0 /\ unseen = {} /\ held \cap CTRL = {} /\ Poll(k))
             => char' = normalmap(k) - (IF (held \cap SHIFTS # {}) # ("CAPSLOCK" \in shift)
                                        THEN 32 ELSE 0)]_keyboardVars
  <2>. SUFFICES ASSUME KeyboardIInv, NEW k \in Keys \cap Letter,
                       rest = 0, unseen = {}, held \cap CTRL = {}, Poll(k)
                PROVE  char' = normalmap(k) - (IF (held \cap SHIFTS # {}) # ("CAPSLOCK" \in shift)
                                               THEN 32 ELSE 0)
    OBVIOUS
  <2>1. "E0ESC" \notin shift
    BY DEF KeyboardIInv, KeyboardInv, PrefixIsTakenBack
  <2>2. /\ "CTL" \in shift <=> held \cap CTRL # {}
        /\ "SHIFT" \in shift <=> held \cap SHIFTS # {}
    BY DEF KeyboardIInv, KeyboardInv, ModifiersFollowKeys, Of
  <2>3. k # 8
    BY LetterCodes
  <2>4. char' = poll_key(k).c
    BY <2>3 DEF Poll, Skipped
  <2>5. (held \cap SHIFTS # {}) = ("SHIFT" \in shift)
    BY <2>2
  <2>6. QED
    BY <2>1, <2>2, <2>4, <2>5, LetterChar
<1>2. QED
  BY <1>1, KeyboardIsInductive, PTL DEF KeyboardSpec, LetterIsTyped

-----------------------------------------------------------------------------
(* Readline.                                                               *)

-----------------------------------------------------------------------------
(* The inductive invariant.                                                *)

(* Cells t show the first n characters of str and blanks after them; the   *)
(* cursor of screen s stands behind the n-th.                              *)
Gap == " "
Glyph == Chars \cup {Gap}
Cells(t, str, n) ==
  /\ t \in Seq(Glyph) /\ Len(t) >= n
  /\ \A j \in 1 .. n : t[j] = str[j]
  /\ \A j \in n + 1 .. Len(t) : t[j] = Gap
Shows(s, str, n) == \E t : s = [text |-> t, col |-> n] /\ Cells(t, str, n)

(* Row r of history h holds str and its NUL, which may lie in the next row.*)
Holds(h, r, str) ==
  /\ r * HLEN + Len(str) \in Cell
  /\ \A j \in 1 .. Len(str) : h[r * HLEN + (j - 1)] = str[j]
  /\ h[r * HLEN + Len(str)] = NUL

(* The rows that nothing else was written over hold the lines entered.     *)
RowsHold == \A r \in intact : Holds(history, r, entered[r])

(* Only a line that is longer than the row leaves it without a NUL.        *)
RowsEnd ==
  \A r \in Row : Len(entered[r]) < HLEN =>
    \E k \in 0 .. HLEN - 1 : r * HLEN + k \in Cell /\ history[r * HLEN + k] = NUL

ScreenShows == Typing => Shows(screen, line, Len(line))

ReadlineIInv == ReadlineInv /\ RowsHold /\ RowsEnd /\ ScreenShows

-----------------------------------------------------------------------------
(* The terminal.                                                           *)

(* Lines are sequences of characters.                                      *)
LEMMA LineIsSeq ==
  ASSUME NEW n \in Nat, NEW q
  PROVE  q \in BoundedSeq(Chars, n) <=> q \in Seq(Chars) /\ Len(q) <= n
<1>1. ASSUME q \in BoundedSeq(Chars, n) PROVE q \in Seq(Chars) /\ Len(q) <= n
  <2>1. PICK m \in 0 .. n : q \in [1 .. m -> Chars]
    BY <1>1 DEF BoundedSeq, SeqOf
  <2> QED
    BY <2>1
<1>2. ASSUME q \in Seq(Chars), Len(q) <= n PROVE q \in BoundedSeq(Chars, n)
  <2>1. Len(q) \in 0 .. n /\ q \in [1 .. Len(q) -> Chars]
    BY <1>2
  <2> QED
    BY <2>1 DEF BoundedSeq, SeqOf
<1> QED
  BY <1>1, <1>2

(* Backspace moves the cursor, ...                                         *)
LEMMA PutBack ==
  ASSUME NEW t, NEW n \in Nat, n >= 1
  PROVE  cputchar([text |-> t, col |-> n], "bs") = [text |-> t, col |-> n - 1]
<1>1. PICK m : m = n - 1
  OBVIOUS
<1>2. cputchar([text |-> t, col |-> n], "bs") = [[text |-> t, col |-> n] EXCEPT !.col = m]
  BY <1>1 DEF cputchar
<1>3. [[text |-> t, col |-> n] EXCEPT !.col = m] = [text |-> t, col |-> m]
  OBVIOUS
<1> QED
  BY <1>1, <1>2, <1>3

(* ... and any other character overwrites the cell of the cursor.          *)
Overwrite(t, n, c) == IF n = Len(t) THEN Append(t, c) ELSE [t EXCEPT ![n + 1] = c]

LEMMA PutChar ==
  ASSUME NEW t, NEW n, NEW c \in Glyph
  PROVE  cputchar([text |-> t, col |-> n], c) = [text |-> Overwrite(t, n, c), col |-> n + 1]
<1>1. c # "bs"
  BY ReadlineAssumption DEF Glyph, Gap
<1> QED
  BY <1>1 DEF cputchar, Overwrite

Overwritten(t, n, c, u) ==
  /\ u \in Seq(Glyph) /\ Len(u) \in Nat /\ Len(u) >= n + 1 /\ u[n + 1] = c
  /\ \A j \in 1 .. Len(u) : j # n + 1 => j <= Len(t) /\ u[j] = t[j]

LEMMA OverwriteProperties ==
  ASSUME NEW t \in Seq(Glyph), NEW n \in Nat, n <= Len(t), NEW c \in Glyph
  PROVE  Overwritten(t, n, c, Overwrite(t, n, c))
<1>1. CASE n = Len(t)
  <2>1. Overwrite(t, n, c) = Append(t, c)
    BY <1>1 DEF Overwrite
  <2> QED
    BY <1>1, <2>1 DEF Overwritten
<1>2. CASE n # Len(t)
  <2>1. Overwrite(t, n, c) = [t EXCEPT ![n + 1] = c] /\ n + 1 \in 1 .. Len(t)
    BY <1>2 DEF Overwrite
  <2>2. [t EXCEPT ![n + 1] = c] \in Seq(Glyph) /\ Len([t EXCEPT ![n + 1] = c]) = Len(t)
    BY <2>1
  <2> QED
    BY <2>1, <2>2 DEF Overwritten
<1> QED
  BY <1>1, <1>2

LEMMA CellsChange ==
  ASSUME NEW str, NEW n \in Nat, NEW t, NEW c \in Glyph, NEW m \in {n - 1, n}, m \in Nat,
         Cells(t, str, n), m = n => c = str[n + 1], m = n - 1 => c = Gap
  PROVE  Cells(Overwrite(t, m, c), str, IF m = n THEN n + 1 ELSE n - 1)
<1>1. PICK u : u = Overwrite(t, m, c)
  OBVIOUS
<1>2. /\ t \in Seq(Glyph) /\ Len(t) \in Nat /\ Len(t) >= n
      /\ \A j \in 1 .. n : t[j] = str[j]
      /\ \A j \in n + 1 .. Len(t) : t[j] = Gap
  BY DEF Cells
<1>3. /\ u \in Seq(Glyph) /\ Len(u) \in Nat /\ Len(u) >= m + 1 /\ u[m + 1] = c
      /\ \A j \in 1 .. Len(u) : j # m + 1 => j <= Len(t) /\ u[j] = t[j]
  <2>1. m <= Len(t) /\ t \in Seq(Glyph)
    BY <1>2
  <2>2. Overwritten(t, m, c, u)
    BY <1>1, <2>1, OverwriteProperties
  <2> QED
    BY <2>2 DEF Overwritten
<1>4. CASE m = n
  <2>1. \A j \in 1 .. n + 1 : u[j] = str[j]
    <3> TAKE j \in 1 .. n + 1
    <3>1. CASE j = n + 1
      BY <1>3, <1>4, <3>1
    <3>2. CASE j # n + 1
      <4>1. j \in 1 .. n /\ j \in 1 .. Len(u) /\ j # m + 1
        BY <1>3, <1>4, <3>2
      <4> QED
        BY <1>2, <1>3, <4>1
    <3> QED
      BY <3>1, <3>2
  <2>2. \A j \in (n + 1) + 1 .. Len(u) : u[j] = Gap
    <3> TAKE j \in (n + 1) + 1 .. Len(u)
    <3>1. j \in 1 .. Len(u) /\ j # m + 1 /\ j >= n + 1
      BY <1>3, <1>4
    <3>2. j \in n + 1 .. Len(t) /\ u[j] = t[j]
      BY <1>2, <1>3, <3>1
    <3> QED
      BY <1>2, <3>2
  <2>3. Cells(u, str, n + 1)
    BY <1>3, <1>4, <2>1, <2>2 DEF Cells
  <2> QED
    BY <1>1, <1>4, <2>3
<1>5. CASE m = n - 1
  <2>1. \A j \in 1 .. n - 1 : u[j] = str[j]
    <3> TAKE j \in 1 .. n - 1
    <3>1. j \in 1 .. n /\ j \in 1 .. Len(u) /\ j # m + 1
      BY <1>3, <1>5
    <3> QED
      BY <1>2, <1>3, <3>1
  <2>2. \A j \in (n - 1) + 1 .. Len(u) : u[j] = Gap
    <3> TAKE j \in (n - 1) + 1 .. Len(u)
    <3>1. CASE j = n
      BY <1>3, <1>5, <3>1
    <3>2. CASE j # n
      <4>1. j \in 1 .. Len(u) /\ j # m + 1 /\ j >= n + 1
        BY <1>3, <1>5, <3>2
      <4>2. j \in n + 1 .. Len(t) /\ u[j] = t[j]
        BY <1>2, <1>3, <4>1
      <4> QED
        BY <1>2, <4>2
    <3> QED
      BY <3>1, <3>2
  <2>3. m # n /\ Len(u) >= n - 1
    BY <1>3, <1>5
  <2> QED
    BY <1>1, <1>3, <2>1, <2>2, <2>3 DEF Cells
<1> QED
  BY <1>4, <1>5

(* One more character of a line.                                           *)
LEMMA ShowMore ==
  ASSUME NEW str, NEW n \in Nat, NEW s, Shows(s, str, n), str[n + 1] \in Chars
  PROVE  Shows(cputchar(s, str[n + 1]), str, n + 1)
<1>1. PICK t, c : s = [text |-> t, col |-> n] /\ Cells(t, str, n) /\ c = str[n + 1]
  BY DEF Shows
<1>2. c \in Glyph
  BY <1>1 DEF Glyph
<1>3. cputchar(s, c) = [text |-> Overwrite(t, n, c), col |-> n + 1]
  BY <1>1, <1>2, PutChar
<1>4. Cells(Overwrite(t, n, c), str, n + 1)
  BY <1>1, <1>2, CellsChange
<1> QED
  BY <1>1, <1>3, <1>4 DEF Shows

(* One character less: back, a blank, and back again.                      *)
LEMMA ShowLess ==
  ASSUME NEW str, NEW n \in Nat, n >= 1, NEW s, Shows(s, str, n)
  PROVE  Shows(rubout(s), str, n - 1)
<1>1. PICK t : s = [text |-> t, col |-> n] /\ Cells(t, str, n)
  BY DEF Shows
<1>2. PICK m \in Nat : m = n - 1
  OBVIOUS
<1>3. PICK u, c : u = Overwrite(t, m, c) /\ c = Gap
  OBVIOUS
<1>4. c \in Glyph
  BY <1>3 DEF Glyph
<1>5. cputchar(s, "bs") = [text |-> t, col |-> m]
  BY <1>1, <1>2, PutBack
<1>6. cputchar(cputchar(s, "bs"), c) = [text |-> u, col |-> m + 1]
  BY <1>3, <1>4, <1>5, PutChar
<1>7. m + 1 \in Nat /\ m + 1 >= 1 /\ (m + 1) - 1 = m
  OBVIOUS
<1>8. cputchar(cputchar(cputchar(s, "bs"), c), "bs") = [text |-> u, col |-> m]
  BY <1>6, <1>7, PutBack
<1>9. Cells(u, str, m)
  BY <1>1, <1>2, <1>3, <1>4, CellsChange
<1> QED
  BY <1>2, <1>3, <1>8, <1>9 DEF Shows, rubout, Gap

(* The loops of readline.                                                  *)
PutTurn(str, s, c) == cputchar(s, c)
PutInv(str, k, s) == Shows(s, str, k)
Putting == INSTANCE FoldTheorems WITH op <- PutTurn, Inv <- PutInv

WipeTurn(str, s, j) == rubout(s)
WipeInv(str, k, s) == Shows(s, str, Len(str) - k)
Wiping == INSTANCE FoldTheorems WITH op <- WipeTurn, Inv <- WipeInv

(* Writing a line to blank cells shows it.                                 *)
LEMMA PutShows ==
  ASSUME NEW str \in Seq(Chars), NEW s, Shows(s, str, 0)
  PROVE  Shows(Put(s, str), str, Len(str))
<1>1. PutInv(str, 0, s)
  BY DEF PutInv
<1>2. \A i \in 1 .. Len(str) : \A r : PutInv(str, i - 1, r) => PutInv(str, i, PutTurn(str, r, str[i]))
  <2> TAKE i \in 1 .. Len(str)
  <2> TAKE r
  <2> HAVE PutInv(str, i - 1, r)
  <2>1. PICK k \in Nat : k = i - 1
    OBVIOUS
  <2>2. i = k + 1 /\ str[k + 1] \in Chars
    BY <2>1
  <2>3. Shows(cputchar(r, str[k + 1]), str, k + 1)
    BY <2>1, <2>2, ShowMore DEF PutInv
  <2> QED
    BY <2>2, <2>3 DEF PutInv, PutTurn
<1>3. PutInv(str, Len(str), Putting!Folded(str, s, str))
  BY <1>1, <1>2, Putting!FoldInvariant
<1>4. Put(s, str) = Putting!Folded(str, s, str)
  BY DEF Put, PutTurn, FoldLeft, MapThenFoldSet, Putting!Folded, Putting!Step, Putting!Highest, Max
<1> QED
  BY <1>3, <1>4 DEF PutInv

(* Wiping a line that is shown leaves blank cells.                         *)
LEMMA WipeShows ==
  ASSUME NEW str \in Seq(Chars), NEW s, Shows(s, str, Len(str))
  PROVE  Shows(Wipe(s, Len(str)), str, 0)
<1> DEFINE seq == [j \in 1 .. Len(str) |-> j]
<1>0. Len(str) \in Nat
  OBVIOUS
<1>1. seq \in Seq(Nat) /\ Len(seq) = Len(str) /\ \A j \in 1 .. Len(str) : seq[j] = j
  BY <1>0
<1>2. WipeInv(str, 0, s)
  BY <1>0 DEF WipeInv
<1>3. \A i \in 1 .. Len(seq) : \A r : WipeInv(str, i - 1, r) => WipeInv(str, i, WipeTurn(str, r, seq[i]))
  <2> TAKE i \in 1 .. Len(seq)
  <2> TAKE r
  <2> HAVE WipeInv(str, i - 1, r)
  <2>1. PICK k \in Nat : k = Len(str) - (i - 1)
    BY <1>0, <1>1
  <2>2. k >= 1 /\ k - 1 = Len(str) - i
    BY <1>0, <1>1, <2>1
  <2>3. Shows(rubout(r), str, k - 1)
    BY <2>1, <2>2, ShowLess DEF WipeInv
  <2> QED
    BY <2>2, <2>3 DEF WipeInv, WipeTurn
<1>4. WipeInv(str, Len(seq), Wiping!Folded(str, s, seq))
  <2> HIDE DEF seq
  <2> QED
    BY <1>1, <1>2, <1>3, Wiping!FoldInvariant
<1>5. Wipe(s, Len(str)) = Wiping!Folded(str, s, seq)
  BY DEF Wipe, WipeTurn, FoldLeft, MapThenFoldSet, Wiping!Folded, Wiping!Step, Wiping!Highest, Max
<1>6. Len(str) - Len(seq) = 0
  BY <1>0, <1>1
<1> HIDE DEF seq
<1> QED
  BY <1>4, <1>5, <1>6 DEF WipeInv

(* Blank cells are blank whatever line they are to show.                   *)
LEMMA BlankShows ==
  ASSUME NEW str, NEW tr, NEW s, Shows(s, str, 0) PROVE Shows(s, tr, 0)
<1>1. PICK t : s = [text |-> t, col |-> 0] /\ Cells(t, str, 0)
  BY DEF Shows
<1>2. Cells(t, tr, 0)
  BY <1>1 DEF Cells
<1> QED
  BY <1>1, <1>2 DEF Shows

(* Shows looks at the first n characters only.                             *)
LEMMA SamePrefix ==
  ASSUME NEW str, NEW tr, NEW n \in Nat, NEW s, Shows(s, str, n),
         \A j \in 1 .. n : tr[j] = str[j]
  PROVE  Shows(s, tr, n)
<1>1. PICK t : s = [text |-> t, col |-> n] /\ Cells(t, str, n)
  BY DEF Shows
<1>2. Cells(t, tr, n)
  BY <1>1 DEF Cells
<1> QED
  BY <1>1, <1>2 DEF Shows

-----------------------------------------------------------------------------
(* The history.                                                            *)

(* Rows follow one another.                                                *)
LEMMA RowsApart ==
  ASSUME NEW r \in Nat, NEW u \in Nat
  PROVE  /\ r * HLEN \in Nat
         /\ r < u => r * HLEN + HLEN <= u * HLEN
         /\ r + 1 < u => r * HLEN + BUFLEN <= u * HLEN
         /\ u = r + 1 => u * HLEN = r * HLEN + HLEN
<1>1. HLEN \in Nat /\ HLEN >= 1 /\ BUFLEN = 2 * HLEN
  BY ReadlineAssumption
<1>2. r * HLEN \in Nat
  BY <1>1
<1>3. ASSUME NEW d \in Nat, u = r + d PROVE u * HLEN = r * HLEN + d * HLEN
  BY <1>1, <1>3
<1>4. ASSUME NEW d \in Nat, NEW c \in Nat, c <= d PROVE c * HLEN <= d * HLEN
  BY <1>1, <1>4
<1>5. ASSUME r < u PROVE r * HLEN + HLEN <= u * HLEN
  <2>1. PICK d \in Nat : u = r + d /\ d >= 1
    BY <1>5
  <2>2. 1 * HLEN <= d * HLEN
    BY <1>4, <2>1
  <2>3. PICK a \in Nat, b \in Nat : a = r * HLEN /\ b = d * HLEN
    BY <1>1, <1>2
  <2> QED
    BY <1>1, <1>3, <2>1, <2>2, <2>3
<1>6. ASSUME r + 1 < u PROVE r * HLEN + BUFLEN <= u * HLEN
  <2>1. PICK d \in Nat : u = r + d /\ d >= 2
    BY <1>6
  <2>2. 2 * HLEN <= d * HLEN
    BY <1>4, <2>1
  <2>3. PICK a \in Nat, b \in Nat : a = r * HLEN /\ b = d * HLEN
    BY <1>1, <1>2
  <2> QED
    BY <1>1, <1>3, <2>1, <2>2, <2>3
<1>7. ASSUME u = r + 1 PROVE u * HLEN = r * HLEN + HLEN
  BY <1>1, <1>3, <1>7
<1> QED
  BY <1>2, <1>5, <1>6, <1>7

(* A row lies in the array, one cell after the other.                      *)
LEMMA RowInside ==
  ASSUME NEW r \in Row, NEW a, a = r * HLEN
  PROVE  /\ r \in Nat /\ a \in Nat
         /\ \A k \in 0 .. HLEN - 1 : a + k \in Cell
<1>1. HLEN \in Nat /\ HLINES \in Nat /\ r \in Nat /\ r < HLINES
  BY ReadlineAssumption DEF Row
<1>2. PICK top : top = HLINES * HLEN
  OBVIOUS
<1>3. top \in Nat /\ a \in Nat /\ a + HLEN <= top
  BY <1>1, <1>2, RowsApart
<1>4. Cell = 0 .. top - 1
  BY <1>2 DEF Cell
<1> QED
  BY <1>1, <1>3, <1>4

(* No character is the NUL, and cells are numbered.                        *)
LEMMA CharsAndCells == NUL \notin Chars /\ Cell \subseteq Nat
<1>1. NUL \notin Chars
  BY ReadlineAssumption DEF NUL
<1>2. Cell \subseteq Nat
  BY DEF Cell
<1> QED
  BY <1>1, <1>2

(* The first NUL at or after the start of a row.                           *)
LEMMA FirstEnd ==
  ASSUME NEW h, NEW r, Ends(h, r) # {}
  PROVE  Min(Ends(h, r)) \in Ends(h, r) /\ \A k \in Ends(h, r) : Min(Ends(h, r)) <= k
<1>1. Ends(h, r) \subseteq Nat
  BY CharsAndCells DEF Ends
<1>2. PICK e \in Ends(h, r) : \A k \in Ends(h, r) : e <= k
  BY <1>1, Putting!LeastNat
<1> QED
  BY <1>1, <1>2 DEF Min

(* What strcpy reads from a row that has a NUL at or after its start.      *)
LEMMA CStringProperties ==
  ASSUME NEW h \in [Cell -> Chars \cup {NUL}], NEW r \in Nat, Ends(h, r) # {},
         NEW a \in Nat, a = r * HLEN
  PROVE  /\ CString(h, r) \in Seq(Chars) /\ Len(CString(h, r)) \in Nat
         /\ a + Len(CString(h, r)) = Min(Ends(h, r))
         /\ \A j \in 1 .. Len(CString(h, r)) : CString(h, r)[j] = h[a + (j - 1)]
<1>1. PICK e : e = Min(Ends(h, r))
  OBVIOUS
<1>2. e \in Cell /\ e >= a /\ \A k \in Cell : k >= a /\ h[k] = NUL => e <= k
  BY <1>1, FirstEnd DEF Ends
<1>3. PICK n \in Nat : n = e - a
  BY <1>2, CharsAndCells
<1>4. CString(h, r) = [j \in 1 .. n |-> h[a + j - 1]]
  BY <1>1, <1>3 DEF CString
<1>5. ASSUME NEW j \in 1 .. n PROVE h[a + j - 1] \in Chars /\ a + j - 1 = a + (j - 1)
  <2>1. a + j - 1 \in Cell /\ a + j - 1 >= a /\ ~(e <= a + j - 1)
    <3>1. PICK top : Cell = 0 .. top - 1 /\ top \in Nat
      BY ReadlineAssumption, RowsApart DEF Cell
    <3> QED
      BY <1>2, <1>3, <3>1
  <2>2. h[a + j - 1] \in Chars \cup {NUL} /\ h[a + j - 1] # NUL
    BY <1>2, <2>1
  <2> QED
    BY <2>2
<1>6. CString(h, r) \in Seq(Chars) /\ Len(CString(h, r)) = n
  BY <1>4, <1>5
<1>7. a + n = e
  BY <1>2, <1>3, CharsAndCells
<1> QED
  BY <1>1, <1>4, <1>5, <1>6, <1>7

(* A row that holds a line gives it back.                                  *)
LEMMA HeldIsRecalled ==
  ASSUME NEW h \in [Cell -> Chars \cup {NUL}], NEW r \in Nat, NEW str \in Seq(Chars),
         Holds(h, r, str)
  PROVE  Ends(h, r) # {} /\ CString(h, r) = str
<1>1. PICK a \in Nat : a = r * HLEN
  BY RowsApart
<1>2. PICK n \in Nat : n = Len(str)
  OBVIOUS
<1>3. /\ a + n \in Cell /\ h[a + n] = NUL
      /\ \A j \in 1 .. n : h[a + (j - 1)] = str[j]
  BY <1>1, <1>2 DEF Holds
<1>4. a + n \in Ends(h, r)
  BY <1>1, <1>3 DEF Ends
<1>5. PICK e \in Nat : e = Min(Ends(h, r))
  BY <1>4, FirstEnd, CharsAndCells DEF Ends
<1>6. e \in Cell /\ e >= a /\ h[e] = NUL /\ e <= a + n
  BY <1>1, <1>4, <1>5, FirstEnd DEF Ends
<1>7. ~(e < a + n)
  <2> SUFFICES ASSUME e < a + n PROVE FALSE
    OBVIOUS
  <2>1. PICK j \in 1 .. n : e = a + (j - 1)
    <3>1. (e - a) + 1 \in 1 .. n /\ e = a + (((e - a) + 1) - 1)
      BY <1>6
    <3> QED
      BY <3>1
  <2>2. str[j] \in Chars /\ h[e] = str[j]
    BY <1>2, <1>3, <2>1
  <2> QED
    BY <1>6, <2>2, CharsAndCells
<1>8. e = a + n
  BY <1>6, <1>7
<1>9. PICK q : q = CString(h, r)
  OBVIOUS
<1>10. /\ q \in Seq(Chars) /\ Len(q) \in Nat /\ a + Len(q) = e
       /\ \A j \in 1 .. Len(q) : q[j] = h[a + (j - 1)]
  <2>1. Ends(h, r) # {}
    BY <1>4
  <2>2. /\ CString(h, r) \in Seq(Chars) /\ Len(CString(h, r)) \in Nat
        /\ a + Len(CString(h, r)) = Min(Ends(h, r))
        /\ \A j \in 1 .. Len(CString(h, r)) : CString(h, r)[j] = h[a + (j - 1)]
    BY <1>1, <2>1, CStringProperties
  <2> QED
    BY <1>5, <1>9, <2>2
<1>11. Len(q) = n
  BY <1>8, <1>10
<1>12. q = str
  BY <1>2, <1>3, <1>10, <1>11
<1> QED
  BY <1>4, <1>9, <1>12

(* strcpy to a row: the cells of the line, its NUL, and the others.        *)
LEMMA StoredCells ==
  ASSUME history \in [Cell -> Chars \cup {NUL}], NEW r \in Nat, NEW str \in Seq(Chars),
         NEW a \in Nat, a = r * HLEN, NEW n \in Nat, n = Len(str)
  PROVE  /\ Stored(r, str) \in [Cell -> Chars \cup {NUL}]
         /\ \A k \in Cell : k < a \/ k > a + n => Stored(r, str)[k] = history[k]
         /\ \A j \in 1 .. n : a + (j - 1) \in Cell => Stored(r, str)[a + (j - 1)] = str[j]
         /\ a + n \in Cell => Stored(r, str)[a + n] = NUL
<1>1. Stored(r, str) = [k \in Cell |-> IF (k - a) + 1 \in 1 .. n THEN str[(k - a) + 1]
                                       ELSE IF (k - a) + 1 = n + 1 THEN NUL ELSE history[k]]
  BY DEF Stored
<1>2. \A k \in Cell : k \in Nat
  BY CharsAndCells
<1>3. \A j \in 1 .. n : str[j] \in Chars
  OBVIOUS
<1>4. Stored(r, str) \in [Cell -> Chars \cup {NUL}]
  BY <1>1, <1>3
<1>5. \A k \in Cell : k < a \/ k > a + n => Stored(r, str)[k] = history[k]
  BY <1>1, <1>2
<1>6. \A j \in 1 .. n : a + (j - 1) \in Cell => Stored(r, str)[a + (j - 1)] = str[j]
  BY <1>1, <1>2
<1>7. a + n \in Cell => Stored(r, str)[a + n] = NUL
  BY <1>1, <1>2
<1> QED
  BY <1>4, <1>5, <1>6, <1>7
(* A copy to row h leaves row r alone, unless one runs on into the other.  *)
LEMMA Untouched ==
  ASSUME history \in [Cell -> Chars \cup {NUL}], NEW h \in Nat, NEW r \in Nat, r # h,
         NEW q \in Seq(Chars), Len(q) < BUFLEN,
         NEW m \in Nat, m < BUFLEN,
         r = h + 1 => Len(q) < HLEN, r = h - 1 => m < HLEN,
         NEW k \in 0 .. m, r * HLEN + k \in Cell
  PROVE  Stored(h, q)[r * HLEN + k] = history[r * HLEN + k]
<1>1. PICK a \in Nat, b \in Nat : a = h * HLEN /\ b = r * HLEN
  BY RowsApart
<1>2. PICK n \in Nat : n = Len(q)
  OBVIOUS
<1>3. HLEN \in Nat /\ HLEN >= 1 /\ BUFLEN = 2 * HLEN
  BY ReadlineAssumption
<1>4. b + k < a \/ b + k > a + n
  <2>1. CASE r + 1 < h
    <3>1. b + BUFLEN <= a
      BY <1>1, <2>1, RowsApart
    <3> QED
      BY <1>3, <3>1
  <2>2. CASE r + 1 = h
    <3>1. b + HLEN <= a /\ m < HLEN
      BY <1>1, <2>2, RowsApart
    <3> QED
      BY <1>3, <3>1
  <2>3. CASE h + 1 = r
    <3>1. a + HLEN <= b /\ n < HLEN
      BY <1>1, <1>2, <2>3, RowsApart
    <3> QED
      BY <1>3, <3>1
  <2>4. CASE h + 1 < r
    <3>1. a + BUFLEN <= b /\ n < BUFLEN
      BY <1>1, <1>2, <2>4, RowsApart
    <3> QED
      BY <1>3, <3>1
  <2> QED
    BY <2>1, <2>2, <2>3, <2>4
<1> QED
  BY <1>1, <1>2, <1>4, StoredCells

-----------------------------------------------------------------------------
(* The inductive invariant, action by action.                              *)

(* What the type invariant says of lines and numbers.                      *)
LEMMA Types ==
  ASSUME ReadlineTypeOK
  PROVE  /\ line \in Seq(Chars) /\ Len(line) \in Nat /\ Len(line) < BUFLEN
         /\ \A r \in Row : /\ entered[r] \in Seq(Chars) /\ Len(entered[r]) \in Nat
                           /\ Len(entered[r]) < BUFLEN
         /\ history_id \in Nat /\ history_id <= HLINES
         /\ HLEN \in Nat /\ HLEN >= 1 /\ BUFLEN = 2 * HLEN /\ HLINES \in Nat /\ HLINES >= 1
<1>1. HLEN \in Nat /\ HLEN >= 1 /\ BUFLEN = 2 * HLEN /\ HLINES \in Nat /\ HLINES >= 1
  BY ReadlineAssumption
<1>2. PICK n \in Nat : n = BUFLEN - 1
  BY <1>1
<1>3. \A q : q \in BoundedSeq(Chars, n) => q \in Seq(Chars) /\ Len(q) \in Nat /\ Len(q) < BUFLEN
  <2> SUFFICES ASSUME NEW q, q \in BoundedSeq(Chars, n)
               PROVE  q \in Seq(Chars) /\ Len(q) \in Nat /\ Len(q) < BUFLEN
    OBVIOUS
  <2>1. q \in Seq(Chars) /\ Len(q) <= n
    BY LineIsSeq
  <2> QED
    BY <1>1, <1>2, <2>1
<1>4. line \in BoundedSeq(Chars, n) /\ \A r \in Row : entered[r] \in BoundedSeq(Chars, n)
  BY <1>2 DEF ReadlineTypeOK
<1>5. history_id \in Nat /\ history_id <= HLINES
  BY <1>1 DEF ReadlineTypeOK
<1> QED
  BY <1>1, <1>3, <1>4, <1>5

(* A sequence of characters that fits buf with its NUL is a line.          *)
LEMMA FitsBuf ==
  ASSUME NEW q \in Seq(Chars), Len(q) < BUFLEN
  PROVE  q \in BoundedSeq(Chars, BUFLEN - 1)
<1>1. BUFLEN \in Nat /\ BUFLEN >= 1
  BY ReadlineAssumption
<1>2. PICK n \in Nat : n = BUFLEN - 1
  BY <1>1
<1>3. Len(q) <= n
  BY <1>1, <1>2
<1> QED
  BY <1>2, <1>3, LineIsSeq

(* An empty line on an empty screen.                                       *)
LEMMA NothingShown ==
  ASSUME NEW q, q = << >> PROVE Shows(Blank, q, Len(q)) /\ q \in Seq(Chars) /\ Len(q) = 0
<1>1. PICK t : t = << >>
  OBVIOUS
<1>2. t \in Seq(Glyph) /\ Len(t) = 0 /\ q \in Seq(Chars) /\ Len(q) = 0
  BY <1>1
<1>3. Cells(t, q, 0)
  BY <1>2 DEF Cells
<1> QED
  BY <1>1, <1>2, <1>3 DEF Shows, Blank

LEMMA InitHolds == ReadlineInit => ReadlineIInv
<1> SUFFICES ASSUME ReadlineInit PROVE ReadlineIInv
  OBVIOUS
<1>0. HLEN \in Nat /\ HLEN >= 1 /\ BUFLEN = 2 * HLEN /\ HLINES \in Nat /\ HLINES >= 1
  BY ReadlineAssumption
<1>1. PICK e : e = << >> /\ e \in Seq(Chars) /\ Len(e) = 0 /\ e \in BoundedSeq(Chars, BUFLEN - 1)
  <2>1. PICK e : e = << >>
    OBVIOUS
  <2>2. e \in Seq(Chars) /\ Len(e) = 0
    BY <2>1
  <2>3. Len(e) < BUFLEN
    BY <1>0, <2>2
  <2> QED
    BY <2>1, <2>2, <2>3, FitsBuf
<1>2. ReadlineTypeOK
  <2>1. line \in BoundedSeq(Chars, BUFLEN - 1) /\ entered \in [Row -> BoundedSeq(Chars, BUFLEN - 1)]
    BY <1>1 DEF ReadlineInit
  <2>2. history \in [Cell -> Chars \cup {NUL}]
    BY DEF ReadlineInit
  <2>3. history_id \in 0 .. HLINES
    BY <1>0 DEF ReadlineInit
  <2> QED
    BY <2>1, <2>2, <2>3 DEF ReadlineInit, ReadlineTypeOK
<1>3. \A r \in Row : /\ entered[r] = e /\ r * HLEN + 0 \in Cell /\ history[r * HLEN + 0] = NUL
  BY <1>0, <1>1, RowInside DEF ReadlineInit
<1>4. RowsHold
  <2> SUFFICES ASSUME NEW r \in Row PROVE Holds(history, r, entered[r])
    BY DEF RowsHold, ReadlineInit
  <2>1. Len(entered[r]) = 0
    BY <1>1, <1>3
  <2> QED
    BY <1>3, <2>1 DEF Holds
<1>5. RowsEnd
  <2>1. 0 \in 0 .. HLEN - 1
    BY <1>0
  <2> QED
    BY <1>3, <2>1 DEF RowsEnd
<1>6. ScreenShows /\ OverrunNeedsLongLine
  BY DEF ReadlineInit, ScreenShows, OverrunNeedsLongLine, Typing
<1> QED
  BY <1>2, <1>4, <1>5, <1>6 DEF ReadlineIInv, ReadlineInv

(* Editing leaves the history alone.                                       *)
LEMMA HistoryKept ==
  ASSUME ReadlineIInv, UNCHANGED <<history, Ghosts>>,
         editing' \in BOOLEAN, fault' \in {"none", "overrun"}, history_id' \in 0 .. HLINES,
         line' \in Seq(Chars), Len(line') < BUFLEN
  PROVE  RowsHold' /\ RowsEnd' /\ ReadlineTypeOK'
<1>1. UNCHANGED <<history, entered, intact>>
  BY DEF Ghosts
<1>2. RowsHold'
  BY <1>1 DEF ReadlineIInv, RowsHold, Holds, Cell, NUL
<1>3. RowsEnd'
  BY <1>1 DEF ReadlineIInv, RowsEnd, Row, Cell, NUL
<1>4. line' \in BoundedSeq(Chars, BUFLEN - 1)
  BY FitsBuf
<1>5. ReadlineTypeOK'
  BY <1>1, <1>4 DEF ReadlineIInv, ReadlineInv, ReadlineTypeOK, Row, Cell, NUL
<1> QED
  BY <1>2, <1>3, <1>5

LEMMA BeginLineKeeps == ReadlineIInv /\ BeginLine => ReadlineIInv'
<1> SUFFICES ASSUME ReadlineIInv, BeginLine PROVE ReadlineIInv'
  OBVIOUS
<1>1. Shows(screen', line', Len(line')) /\ line' \in Seq(Chars) /\ Len(line') = 0
  BY NothingShown DEF BeginLine
<1>2. Len(line') < BUFLEN
  BY <1>1, ReadlineAssumption
<1>3. RowsHold' /\ RowsEnd' /\ ReadlineTypeOK'
  BY <1>1, <1>2, HistoryKept DEF BeginLine, ReadlineIInv, ReadlineInv, ReadlineTypeOK
<1>4. ScreenShows'
  BY <1>1 DEF ScreenShows
<1>5. OverrunNeedsLongLine'
  BY DEF OverrunNeedsLongLine, BeginLine
<1> QED
  BY <1>3, <1>4, <1>5 DEF ReadlineIInv, ReadlineInv

LEMMA BackspaceKeeps == ReadlineIInv /\ Backspace => ReadlineIInv'
<1> SUFFICES ASSUME ReadlineIInv, Backspace PROVE ReadlineIInv'
  OBVIOUS
<1>1. PICK q \in Seq(Chars), n \in Nat : q = line /\ n = Len(line) /\ n < BUFLEN
  BY Types DEF ReadlineIInv, ReadlineInv
<1>2. n >= 1 /\ BUFLEN \in Nat
  BY <1>1, ReadlineAssumption DEF Backspace
<1>3. /\ line' \in Seq(Chars) /\ Len(line') = n - 1
      /\ \A j \in 1 .. n - 1 : line'[j] = q[j]
  BY <1>1, <1>2 DEF Backspace, Front
<1>4. Shows(rubout(screen), q, n - 1)
  BY <1>1, <1>2, ShowLess DEF Backspace, ReadlineIInv, ScreenShows
<1>5. Shows(screen', line', Len(line'))
  BY <1>2, <1>3, <1>4, SamePrefix DEF Backspace
<1>6. Len(line') < BUFLEN
  BY <1>1, <1>2, <1>3
<1>7. RowsHold' /\ RowsEnd' /\ ReadlineTypeOK'
  BY <1>3, <1>6, HistoryKept DEF Backspace, ReadlineIInv, ReadlineInv, ReadlineTypeOK
<1>8. ScreenShows' /\ OverrunNeedsLongLine'
  BY <1>5 DEF ScreenShows, OverrunNeedsLongLine, Backspace, Typing
<1> QED
  BY <1>7, <1>8 DEF ReadlineIInv, ReadlineInv

LEMMA PrintableKeeps == ReadlineIInv /\ (\E c \in Chars : Printable(c)) => ReadlineIInv'
<1> SUFFICES ASSUME ReadlineIInv, NEW c \in Chars, Printable(c) PROVE ReadlineIInv'
  OBVIOUS
<1>1. PICK q \in Seq(Chars), n \in Nat : q = line /\ n = Len(line) /\ n < BUFLEN - 1
  BY Types DEF ReadlineIInv, ReadlineInv, Printable
<1>2. PICK l : l = Append(q, c)
  OBVIOUS
<1>3. /\ l \in Seq(Chars) /\ Len(l) = n + 1 /\ l[n + 1] = c
      /\ \A j \in 1 .. n : l[j] = q[j]
  BY <1>1, <1>2
<1>4. Shows(screen, q, n)
  BY <1>1 DEF Printable, ReadlineIInv, ScreenShows
<1>5. Shows(screen, l, n)
  BY <1>1, <1>3, <1>4, SamePrefix
<1>6. Shows(cputchar(screen, l[n + 1]), l, n + 1)
  BY <1>3, <1>5, ShowMore
<1>7. line' = l /\ Shows(screen', line', Len(line'))
  BY <1>1, <1>2, <1>3, <1>6 DEF Printable
<1>8. BUFLEN \in Nat
  BY ReadlineAssumption
<1>9. Len(line') < BUFLEN
  BY <1>1, <1>3, <1>7, <1>8
<1>10. RowsHold' /\ RowsEnd' /\ ReadlineTypeOK'
  BY <1>3, <1>7, <1>9, HistoryKept DEF Printable, ReadlineIInv, ReadlineInv, ReadlineTypeOK
<1>11. ScreenShows' /\ OverrunNeedsLongLine'
  BY <1>7 DEF ScreenShows, OverrunNeedsLongLine, Printable, Typing
<1> QED
  BY <1>10, <1>11 DEF ReadlineIInv, ReadlineInv

(* A row can be recalled unless the last line stored in it was too long.   *)
LEMMA ShortIsRecallable ==
  ASSUME ReadlineIInv, NEW r \in Row, Len(entered[r]) < HLEN
  PROVE  Recallable(r)
<1>1. PICK a \in Nat : a = r * HLEN /\ r \in Nat
  BY RowInside
<1>2. PICK k \in 0 .. HLEN - 1 : a + k \in Cell /\ history[a + k] = NUL
  BY <1>1 DEF ReadlineIInv, RowsEnd
<1>3. HLEN \in Nat /\ BUFLEN = 2 * HLEN
  BY ReadlineAssumption
<1>4. a + k \in Ends(history, r)
  BY <1>1, <1>2, <1>3 DEF Ends
<1>5. PICK e \in Nat : e = Min(Ends(history, r))
  BY <1>4, FirstEnd, CharsAndCells DEF Ends
<1>6. e <= a + k
  BY <1>4, <1>5, FirstEnd
<1>7. PICK n \in Nat : n = Len(CString(history, r)) /\ a + n = e
  BY <1>1, <1>4, <1>5, CStringProperties DEF ReadlineIInv, ReadlineInv, ReadlineTypeOK
<1>8. n < BUFLEN
  BY <1>3, <1>6, <1>7
<1> QED
  BY <1>4, <1>7, <1>8 DEF Recallable

LEMMA RecallKeeps ==
  ASSUME ReadlineIInv, Typing, NEW r \in Row, Recall(r)
  PROVE  ReadlineIInv'
<1>1. PICK q \in Seq(Chars), n \in Nat : q = line /\ n = Len(line) /\ n < BUFLEN
  BY Types DEF ReadlineIInv, ReadlineInv
<1>2. Shows(screen, q, n)
  BY <1>1 DEF ReadlineIInv, ScreenShows
<1>3. r \in 0 .. HLINES /\ r \in Nat
  BY ReadlineAssumption DEF Row
<1>4. CASE Recallable(r)
  <2>1. PICK l : l = CString(history, r)
    OBVIOUS
  <2>2. l \in Seq(Chars) /\ Len(l) < BUFLEN
    BY <1>3, <1>4, <2>1, RowsApart, CStringProperties
       DEF Recallable, ReadlineIInv, ReadlineInv, ReadlineTypeOK
  <2>3. Shows(Wipe(screen, n), l, 0)
    BY <1>1, <1>2, WipeShows, BlankShows
  <2>4. Shows(Put(Wipe(screen, n), l), l, Len(l))
    BY <2>2, <2>3, PutShows
  <2>5. line' = l /\ screen' = Put(Wipe(screen, n), l) /\ UNCHANGED fault
    BY <1>1, <1>4, <2>1 DEF Recall
  <2>6. ScreenShows'
    BY <2>4, <2>5 DEF ScreenShows
  <2>7. RowsHold' /\ RowsEnd' /\ ReadlineTypeOK'
    BY <1>3, <2>2, <2>5, HistoryKept DEF Recall, ReadlineIInv, ReadlineInv, ReadlineTypeOK
  <2>8. OverrunNeedsLongLine'
    BY <2>5 DEF OverrunNeedsLongLine, Typing
  <2> QED
    BY <2>6, <2>7, <2>8 DEF ReadlineIInv, ReadlineInv
<1>5. CASE ~Recallable(r)
  <2>1. Len(entered[r]) >= HLEN
    BY <1>5, ShortIsRecallable, Types DEF ReadlineIInv, ReadlineInv
  <2>2. fault' = "overrun" /\ UNCHANGED <<line, screen, entered>>
    BY <1>5 DEF Recall, Ghosts
  <2>3. RowsHold' /\ RowsEnd' /\ ReadlineTypeOK'
    BY <1>1, <1>3, <2>2, HistoryKept DEF Recall, ReadlineIInv, ReadlineInv, ReadlineTypeOK
  <2>4. ScreenShows' /\ OverrunNeedsLongLine'
    BY <2>1, <2>2 DEF ScreenShows, OverrunNeedsLongLine, Typing, Row
  <2> QED
    BY <2>3, <2>4 DEF ReadlineIInv, ReadlineInv
<1> QED
  BY <1>4, <1>5

(* Enter, when the copy ends inside the history.                           *)
LEMMA StoreKeeps ==
  ASSUME ReadlineIInv, Typing, Newline, Fits(history_id, line)
  PROVE  ReadlineIInv'
<1>1. PICK h \in Nat, q \in Seq(Chars), n \in Nat, a \in Nat, top \in Nat :
        /\ h = history_id /\ q = line /\ n = Len(q) /\ a = h * HLEN /\ top = HLINES * HLEN
        /\ n < BUFLEN
  <2>1. history_id \in Nat /\ HLINES \in Nat /\ line \in Seq(Chars) /\ Len(line) \in Nat
        /\ Len(line) < BUFLEN
    BY Types DEF ReadlineIInv, ReadlineInv
  <2>2. history_id * HLEN \in Nat /\ HLINES * HLEN \in Nat
    BY <2>1, RowsApart
  <2> QED
    BY <2>1, <2>2
<1>2. HLEN \in Nat /\ HLEN >= 1 /\ BUFLEN = 2 * HLEN /\ HLINES \in Nat
  BY ReadlineAssumption
<1>3. Cell = 0 .. top - 1 /\ a + n < top
  BY <1>1 DEF Cell, Fits
<1>4. h \in Row
  <2>1. h <= HLINES
    BY <1>1, Types DEF ReadlineIInv, ReadlineInv
  <2>2. h # HLINES
    BY <1>1, <1>3
  <2> QED
    BY <1>2, <2>1, <2>2 DEF Row
<1>5. history \in [Cell -> Chars \cup {NUL}]
  BY DEF ReadlineIInv, ReadlineInv, ReadlineTypeOK
<1>6. PICK g : g = Stored(h, q)
  OBVIOUS
<1>7. /\ g \in [Cell -> Chars \cup {NUL}] /\ g[a + n] = NUL
      /\ \A j \in 1 .. n : a + (j - 1) \in Cell /\ g[a + (j - 1)] = q[j]
  <2>1. a + n \in Cell /\ \A j \in 1 .. n : a + (j - 1) \in Cell
    BY <1>3
  <2> QED
    BY <1>1, <1>5, <1>6, <2>1, StoredCells
<1>8. /\ history' = g /\ history_id' = h + 1 /\ editing' = FALSE
      /\ entered' = [entered EXCEPT ![h] = q]
      /\ intact' = (intact \cup {h}) \ {r \in Row : (r = h + 1 /\ n >= HLEN) \/ (r = h - 1 /\ Len(entered[r]) >= HLEN)}
      /\ UNCHANGED <<fault, line, screen>>
  BY <1>1, <1>6 DEF Newline
<1>9. entered \in [Row -> BoundedSeq(Chars, BUFLEN - 1)] /\ intact \subseteq Row
  BY DEF ReadlineIInv, ReadlineInv, ReadlineTypeOK
<1>10. entered'[h] = q /\ \A r \in Row \ {h} : entered'[r] = entered[r]
  BY <1>4, <1>8, <1>9
<1>11. ReadlineTypeOK'
  <2>1. entered' \in [Row -> BoundedSeq(Chars, BUFLEN - 1)]
    BY <1>1, <1>8, <1>9, FitsBuf
  <2>2. h + 1 \in 0 .. HLINES
    BY <1>2, <1>4 DEF Row
  <2>3. intact' \subseteq Row
    BY <1>4, <1>8, <1>9
  <2> QED
    BY <1>7, <1>8, <2>1, <2>2, <2>3 DEF ReadlineIInv, ReadlineInv, ReadlineTypeOK, Row, Cell, NUL
<1>12. RowsHold'
  <2> SUFFICES ASSUME NEW r \in intact' PROVE Holds(g, r, entered'[r])
    BY <1>8 DEF RowsHold, Holds, Cell, NUL
  <2>1. CASE r = h
    <3>1. a + n \in Cell
      BY <1>3
    <3> QED
      BY <1>1, <1>7, <1>10, <2>1, <3>1 DEF Holds
  <2>2. CASE r # h
    <3>1. /\ r \in intact /\ r \in Row /\ r \in Nat
          /\ r = h + 1 => n < HLEN
          /\ r = h - 1 => Len(entered[r]) < HLEN
      <4>1. r \in intact /\ r \in Row
        BY <1>8, <1>9, <2>2
      <4>2. ~(r = h + 1 /\ n >= HLEN) /\ ~(r = h - 1 /\ Len(entered[r]) >= HLEN)
        BY <1>8, <4>1
      <4>3. Len(entered[r]) \in Nat
        BY <4>1, Types DEF ReadlineIInv, ReadlineInv
      <4> QED
        BY <1>1, <1>2, <4>1, <4>2, <4>3, RowInside
    <3>2. PICK p \in Seq(Chars), m \in Nat : p = entered[r] /\ m = Len(p) /\ m < BUFLEN
      BY <3>1, Types DEF ReadlineIInv, ReadlineInv
    <3>3. PICK b \in Nat : b = r * HLEN
      BY <3>1, RowsApart
    <3>4. /\ b + m \in Cell /\ history[b + m] = NUL
          /\ \A j \in 1 .. m : history[b + (j - 1)] = p[j]
      BY <3>1, <3>2, <3>3 DEF ReadlineIInv, RowsHold, Holds
    <3>5. \A k \in 0 .. m : b + k \in Cell => g[b + k] = history[b + k]
      BY <1>1, <1>5, <1>6, <2>2, <3>1, <3>2, <3>3, Untouched
    <3>6. m \in 0 .. m /\ \A j \in 1 .. m : j - 1 \in 0 .. m /\ b + (j - 1) \in Cell
      BY <1>3, <3>4
    <3>7. g[b + m] = NUL /\ \A j \in 1 .. m : g[b + (j - 1)] = p[j]
      BY <3>4, <3>5, <3>6
    <3>8. entered'[r] = p
      BY <1>10, <2>2, <3>1, <3>2
    <3> QED
      BY <3>2, <3>3, <3>4, <3>7, <3>8 DEF Holds
  <2> QED
    BY <2>1, <2>2
<1>13. RowsEnd'
  <2> SUFFICES ASSUME NEW r \in Row, Len(entered'[r]) < HLEN
               PROVE  \E k \in 0 .. HLEN - 1 : r * HLEN + k \in Cell /\ g[r * HLEN + k] = NUL
    BY <1>8 DEF RowsEnd, Row, Cell, NUL
  <2>1. CASE r = h
    <3>1. n \in 0 .. HLEN - 1 /\ a + n \in Cell
      BY <1>1, <1>2, <1>3, <1>10, <2>1
    <3> QED
      BY <1>1, <1>7, <2>1, <3>1
  <2>2. CASE r = h + 1 /\ n >= HLEN
    <3>1. r * HLEN = a + HLEN
      BY <1>1, <2>2, RowsApart
    <3>2. PICK k \in 0 .. HLEN - 1 : k = n - HLEN
      <4>1. n < 2 * HLEN /\ n >= HLEN
        BY <1>1, <1>2, <2>2
      <4>2. n - HLEN \in 0 .. HLEN - 1
        BY <1>2, <4>1
      <4> QED
        BY <4>2
    <3>3. (a + HLEN) + k = a + n /\ a + n \in Cell
      BY <1>2, <1>3, <3>2
    <3> QED
      BY <1>7, <3>1, <3>3
  <2>3. CASE r # h /\ ~(r = h + 1 /\ n >= HLEN)
    <3>1. Len(entered[r]) < HLEN /\ r \in Nat
      BY <1>10, <2>3, RowInside
    <3>2. PICK k \in 0 .. HLEN - 1 : r * HLEN + k \in Cell /\ history[r * HLEN + k] = NUL
      BY <3>1 DEF ReadlineIInv, RowsEnd
    <3>3. PICK m \in Nat : m = HLEN - 1 /\ m < HLEN /\ m < BUFLEN /\ k \in 0 .. m
      BY <1>2, <3>2
    <3>4. r = h + 1 => n < HLEN
      BY <1>2, <2>3
    <3>5. g[r * HLEN + k] = history[r * HLEN + k]
      BY <1>1, <1>5, <1>6, <2>3, <3>1, <3>2, <3>3, <3>4, Untouched
    <3> QED
      BY <3>2, <3>5
  <2> QED
    BY <2>1, <2>2, <2>3
<1>14. ScreenShows' /\ OverrunNeedsLongLine'
  BY <1>8 DEF ScreenShows, OverrunNeedsLongLine, Typing
<1> QED
  BY <1>11, <1>12, <1>13, <1>14 DEF ReadlineIInv, ReadlineInv

(* Enter, when it does not.                                                *)
LEMMA OverrunKeeps ==
  ASSUME ReadlineIInv, Newline, ~Fits(history_id, line)
  PROVE  ReadlineIInv'
<1>1. fault' = "overrun" /\ UNCHANGED <<history, history_id, editing, Ghosts, line, screen>>
  BY DEF Newline
<1>2. PICK h \in Nat, n \in Nat : h = history_id /\ n = Len(line) /\ h <= HLINES
  BY Types DEF ReadlineIInv, ReadlineInv
<1>3. history_id = HLINES \/ (history_id = HLINES - 1 /\ Len(line) >= HLEN)
  <2>1. HLINES \in Nat /\ HLEN \in Nat /\ BUFLEN = 2 * HLEN /\ n < BUFLEN
    BY <1>2, Types DEF ReadlineIInv, ReadlineInv
  <2>2. PICK a \in Nat, top \in Nat : a = h * HLEN /\ top = HLINES * HLEN
    BY <1>2, <2>1, RowsApart
  <2>3. a + n >= top
    BY <1>2, <2>1, <2>2 DEF Fits
  <2>4. CASE h = HLINES - 1
    <3>1. a + HLEN = top
      BY <1>2, <2>1, <2>2, <2>4, RowsApart
    <3> QED
      BY <1>2, <2>1, <2>3, <2>4, <3>1
  <2>5. CASE h + 1 < HLINES
    <3>1. a + BUFLEN <= top
      BY <1>2, <2>1, <2>2, <2>5, RowsApart
    <3> QED
      BY <2>1, <2>3, <3>1
  <2> QED
    BY <1>2, <2>1, <2>4, <2>5
<1>4. RowsHold' /\ RowsEnd' /\ ReadlineTypeOK'
  BY <1>1, HistoryKept, Types DEF ReadlineIInv, ReadlineInv, ReadlineTypeOK
<1>5. ScreenShows' /\ OverrunNeedsLongLine'
  BY <1>1, <1>3 DEF ScreenShows, OverrunNeedsLongLine, Typing
<1> QED
  BY <1>4, <1>5 DEF ReadlineIInv, ReadlineInv

LEMMA StutterKeeps == ReadlineIInv /\ UNCHANGED readlineVars => ReadlineIInv'
BY DEF ReadlineIInv, ReadlineInv, ReadlineTypeOK, OverrunNeedsLongLine, RowsHold, RowsEnd,
       ScreenShows, Shows, Cells, Holds, Typing, readlineVars

LEMMA ReadlineInductive == ReadlineIInv /\ [ReadlineNext]_readlineVars => ReadlineIInv'
<1> SUFFICES ASSUME ReadlineIInv, [ReadlineNext]_readlineVars PROVE ReadlineIInv'
  OBVIOUS
<1>1. CASE BeginLine
  BY <1>1, BeginLineKeeps
<1>2. CASE KeyUp
  <2>1. history_id - 1 \in Row
    BY <1>2, Types DEF KeyUp, Row, ReadlineIInv, ReadlineInv
  <2> QED
    BY <1>2, <2>1, RecallKeeps DEF KeyUp
<1>3. CASE KeyDown
  <2>1. history_id + 1 \in Row
    BY <1>3, Types DEF KeyDown, Row, ReadlineIInv, ReadlineInv
  <2> QED
    BY <1>3, <2>1, RecallKeeps DEF KeyDown
<1>4. CASE Backspace
  BY <1>4, BackspaceKeeps
<1>5. CASE Newline
  BY <1>5, StoreKeeps, OverrunKeeps DEF Newline
<1>6. CASE \E c \in Chars : Printable(c)
  BY <1>6, PrintableKeeps
<1>7. CASE Stopped
  BY <1>7, StutterKeeps DEF Stopped
<1>8. CASE UNCHANGED readlineVars
  BY <1>8, StutterKeeps
<1> QED
  BY <1>1, <1>2, <1>3, <1>4, <1>5, <1>6, <1>7, <1>8 DEF ReadlineNext

-----------------------------------------------------------------------------
(* The theorems.                                                           *)

(* readline keeps its line within buf however it is typed, corrected and   *)
(* recalled, and its strcpy calls leave buf or the history only when       *)
(* history_id has passed the last row or a line was longer than a row.     *)
THEOREM ReadlineSafe == ReadlineSpec => []ReadlineInv
<1>1. ReadlineIInv => ReadlineInv
  BY DEF ReadlineIInv
<1> QED
  BY <1>1, InitHolds, ReadlineInductive, PTL DEF ReadlineSpec

(* The echo of readline shows the line that Enter will hand over, after    *)
(* any sequence of characters, backspaces, Up and Down.                    *)
THEOREM LineIsShown == ReadlineSpec => []LineShown
<1>1. ReadlineIInv => LineShown
  <2> SUFFICES ASSUME ReadlineIInv, Typing
               PROVE  /\ screen.col = Len(line) /\ Len(screen.text) >= Len(line)
                      /\ \A j \in 1 .. Len(screen.text) :
                           screen.text[j] = IF j <= Len(line) THEN line[j] ELSE Gap
    BY DEF LineShown, Gap
  <2>1. PICK t : screen = [text |-> t, col |-> Len(line)] /\ Cells(t, line, Len(line))
    BY DEF ReadlineIInv, ScreenShows, Shows
  <2>2. Len(line) \in Nat
    BY Types DEF ReadlineIInv, ReadlineInv
  <2>3. screen.text = t /\ screen.col = Len(line)
    BY <2>1
  <2>4. Len(t) \in Nat /\ Len(t) >= Len(line)
    BY <2>1 DEF Cells
  <2>5. ASSUME NEW j \in 1 .. Len(t) PROVE t[j] = IF j <= Len(line) THEN line[j] ELSE Gap
    <3>1. CASE j <= Len(line)
      <4>1. j \in 1 .. Len(line)
        BY <2>2, <2>4, <3>1
      <4> QED
        BY <2>1, <3>1, <4>1 DEF Cells
    <3>2. CASE ~(j <= Len(line))
      <4>1. j \in Len(line) + 1 .. Len(t)
        BY <2>2, <2>4, <3>2
      <4> QED
        BY <2>1, <3>2, <4>1 DEF Cells
    <3> QED
      BY <3>1, <3>2
  <2> QED
    BY <2>3, <2>4, <2>5
<1> QED
  BY <1>1, InitHolds, ReadlineInductive, PTL DEF ReadlineSpec

(* A row of the history that no neighbour was written over gives back the  *)
(* line stored in it last, also one that runs on into the next row.        *)
THEOREM HistoryGivesBack == ReadlineSpec => []HistoryKeepsLines
<1>1. ReadlineIInv => HistoryKeepsLines
  <2> SUFFICES ASSUME ReadlineIInv, NEW r \in intact
               PROVE  Ends(history, r) # {} /\ CString(history, r) = entered[r]
    BY DEF HistoryKeepsLines
  <2>1. r \in Row /\ history \in [Cell -> Chars \cup {NUL}]
    BY DEF ReadlineIInv, ReadlineInv, ReadlineTypeOK
  <2>2. r \in Nat /\ entered[r] \in Seq(Chars)
    BY <2>1, Types, RowInside DEF ReadlineIInv, ReadlineInv
  <2>3. Holds(history, r, entered[r])
    BY DEF ReadlineIInv, RowsHold
  <2> QED
    BY <2>1, <2>2, <2>3, HeldIsRecalled
<1> QED
  BY <1>1, InitHolds, ReadlineInductive, PTL DEF ReadlineSpec

-----------------------------------------------------------------------------
(* Video.                                                                  *)

LEMMA VideoInitInv == VideoInit => VideoInv
<1>. SUFFICES ASSUME VideoInit PROVE VideoInv
  OBVIOUS
<1>1. VEMPTY \in [ColNo -> Colors]
  BY VideoAssumption DEF VEMPTY
<1>2. VideoTypeOK
  BY <1>1, VideoAssumption DEF VideoInit, VideoTypeOK
<1>3. OldRowsAreMarked /\ \A x \in RowNo \ VDIRTY : VCACHE[x] = VEMPTY
  BY DEF VideoInit, OldRowsAreMarked
<1>4. QED
  BY <1>2, <1>3 DEF VideoInv, VideoInit

(* clearVRAM and SYS_FLUSH_VCACHE count the call and may empty VCDIRTY.    *)
LEMMA RestampMarks ==
  ASSUME VideoTypeOK, VDIRTY \subseteq VCDIRTY \cup spared, Restamp
  PROVE  /\ stamp' \in 0 .. STAMPS - 1
         /\ VCDIRTY' \subseteq RowNo /\ spared' \subseteq RowNo
         /\ VDIRTY \subseteq VCDIRTY' \cup spared'
         /\ \A x : x \in spared => x \in spared'
         /\ \A x : x \in VCDIRTY => x \in VCDIRTY' \/ x \notin VDIRTY \/ x \in spared'
         /\ VCDIRTY' = VCDIRTY \/ (VCDIRTY' = {} /\ VDIRTY \subseteq spared')
<1>1. stamp' \in 0 .. STAMPS - 1
  BY VideoAssumption DEF Restamp, VideoTypeOK
<1>2. QED
  BY <1>1 DEF Restamp, VideoTypeOK

LEMMA VideoNextInv == VideoInv /\ [VideoNext]_videoVars => VideoInv'
<1>. SUFFICES ASSUME VideoInv, [VideoNext]_videoVars PROVE VideoInv'
  OBVIOUS
<1>. USE DEF VideoInv
<1>0. VEMPTY \in [ColNo -> Colors]
  BY VideoAssumption DEF VEMPTY
<1>1. CASE initVCache
  BY <1>0, <1>1 DEF initVCache, VideoTypeOK, OldRowsAreMarked
<1>2. ASSUME NEW x \in -1 .. VHEIGHT, NEW y \in -1 .. VWIDTH, NEW color \in Colors,
             setPixelAt(x, y, color)
      PROVE  VideoInv'
  <2>1. CASE x \in RowNo /\ y \in ColNo
    <3>1. VCACHE' \in [RowNo -> [ColNo -> Colors]]
      BY <1>2, <2>1 DEF setPixelAt, VideoTypeOK
    <3>2. \A r \in RowNo \ VDIRTY' : VCACHE'[r] = VEMPTY
      BY <1>2, <2>1 DEF setPixelAt, VideoTypeOK
    <3>3. QED
      BY <1>2, <2>1, <3>1, <3>2 DEF setPixelAt, VideoTypeOK, OldRowsAreMarked
  <2>2. CASE ~(x \in RowNo /\ y \in ColNo)
    BY <1>2, <2>2 DEF setPixelAt, VideoTypeOK, OldRowsAreMarked
  <2>3. QED
    BY <2>1, <2>2
<1>3. CASE clearVRAM
  <2>1. VRAM' \in [RowNo -> [ColNo -> Colors]]
    BY <1>0, <1>3 DEF clearVRAM, Wiped, VideoTypeOK
  <2>2. Restamp /\ VDIRTY' = VDIRTY /\ VCACHE' = VCACHE
    BY <1>3 DEF clearVRAM
  <2>3. OldRowsAreMarked'
    <3>. SUFFICES ASSUME NEW x \in RowNo, VRAM'[x] # VEMPTY PROVE x \in VCDIRTY' \cup spared'
      BY DEF OldRowsAreMarked
    <3>1. x \notin VCDIRTY \ VDIRTY /\ VRAM[x] # VEMPTY
      BY <1>3 DEF clearVRAM, Wiped
    <3>2. QED
      BY <2>2, <3>1, RestampMarks DEF OldRowsAreMarked
  <2>4. QED
    BY <2>1, <2>2, <2>3, RestampMarks DEF VideoTypeOK
<1>4. CASE SysFlushVcache
  <2>1. VRAM' \in [RowNo -> [ColNo -> Colors]]
    BY <1>0, <1>4 DEF SysFlushVcache, Flushed, Wiped, VideoTypeOK
  <2>2. Restamp /\ VDIRTY' = VDIRTY /\ VCACHE' = VCACHE
    BY <1>4 DEF SysFlushVcache
  <2>3. OldRowsAreMarked'
    <3>. SUFFICES ASSUME NEW x \in RowNo, VRAM'[x] # VEMPTY PROVE x \in VCDIRTY' \cup spared'
      BY DEF OldRowsAreMarked
    <3>1. CASE x \in VDIRTY
      BY <2>2, <3>1, RestampMarks
    <3>2. CASE x \notin VDIRTY
      <4>1. x \notin VCDIRTY /\ VRAM[x] # VEMPTY
        BY <1>4, <3>2 DEF SysFlushVcache, Flushed, Wiped
      <4>2. QED
        BY <2>2, <4>1, RestampMarks DEF OldRowsAreMarked
    <3>3. QED
      BY <3>1, <3>2
  <2>4. QED
    BY <2>1, <2>2, <2>3, RestampMarks DEF VideoTypeOK
<1>5. CASE UNCHANGED videoVars
  BY <1>5 DEF videoVars, VideoTypeOK, OldRowsAreMarked
<1>6. QED
  BY <1>1, <1>2, <1>3, <1>4, <1>5 DEF VideoNext

(* The marks agree with what is drawn: a row of the cache that is not      *)
(* marked dirty is blank, a row on the screen will be wiped, and every     *)
(* pixel is a color, after any calls of drawRect, clearVCache, clearVRAM   *)
(* and flushVCache.                                                        *)
THEOREM VideoSafe == VideoSpec => []VideoInv
BY VideoInitInv, VideoNextInv, PTL DEF VideoSpec

(* Whatever programs draw, clear and flush, and in whatever order, a row   *)
(* with anything on the screen is marked for wiping, unless it was being   *)
(* drawn when clearVRAM emptied VCDIRTY.                                   *)
THEOREM VideoMarks == VideoSpec => []OldRowsAreMarked
<1>1. VideoInv => OldRowsAreMarked
  BY DEF VideoInv
<1>2. QED
  BY <1>1, VideoSafe, PTL

(* SYS_FLUSH_VCACHE shows the cache and nothing else, but for those rows.  *)
THEOREM VideoShows == VideoSpec => FlushShowsCache
<1>1. VideoInv /\ [VideoNext]_videoVars =>
        [SysFlushVcache => \A x \in RowNo \ spared : VRAM'[x] = VCACHE[x]]_videoVars
  <2>. SUFFICES ASSUME VideoInv, SysFlushVcache, NEW x \in RowNo \ spared
                PROVE  VRAM'[x] = VCACHE[x]
    OBVIOUS
  <2>1. CASE x \in VDIRTY
    BY <2>1 DEF SysFlushVcache, Flushed
  <2>2. CASE x \notin VDIRTY
    BY <2>2 DEF SysFlushVcache, Flushed, Wiped, VideoInv, OldRowsAreMarked
  <2>3. QED
    BY <2>1, <2>2
<1>2. QED
  BY <1>1, VideoSafe, PTL DEF VideoSpec, FlushShowsCache
=============================================================================
