----------------------------- MODULE GameProofs -----------------------------
(***************************************************************************)
(* Proofs about module Game, for every size of the field, every number and *)
(* every bound on the sizes of the circles that memoriza has room for.     *)
(***************************************************************************)
EXTENDS Game, WellFoundedInduction, TLAPS

(* The inductive invariant.  Every monster is one that createMonster or    *)
(* GAME_START made, wherever it has moved to.                              *)
AMonster == [alive : {TRUE}, size : 1 .. MAXMON, x : 0 .. VWIDTH - 1, y : 0 .. VHEIGHT - 1,
             sx : -1 .. 1, sy : -1 .. 1]
MonstersAre == monsters \in [Mon -> AMonster \cup {Gone}]

(* The rest of the state, without the monsters.                            *)
FrameOK ==
  /\ gameStatus \in Statuses /\ x \in 0 .. VWIDTH /\ y \in 0 .. VHEIGHT
  /\ size \in 0 .. MAXSIZE /\ score \in Nat
  /\ pc \in {"poll", "frame", "asleep", "play", "place", "draw", "stage", "create", "hit", "over"}
  /\ i \in Mon /\ todo \in -1 .. MAXLAG

(* Within a frame, the step it has got to tells the state of the game.     *)
PcFollowsStatus ==
  /\ pc = "place" => gameStatus = "START"
  /\ pc \in {"draw", "stage", "create", "hit"} => gameStatus = "ING"
  /\ pc = "over" => gameStatus = "END"
  /\ todo > 0 \/ pc = "poll"

(* While GAME_START places monsters the first is there to be eaten.        *)
Prey == monsters[1] \in AMonster /\ monsters[1].size <= size
PlacedPrey == pc = "place" => size = SIZE0 /\ Prey

ReadyPrey == gameStatus = "READY" => \E m \in Mon : monsters[m] \in AMonster /\ monsters[m].size <= size

(* What is remembered is what the search finds.                            *)
MemoIsSearch ==
  /\ DOMAIN memoriza \subseteq 0 .. 599
  /\ \A v \in DOMAIN memoriza : memoriza[v] = Root(v)

GameIInv == MonstersAre /\ FrameOK /\ PcFollowsStatus /\ PlacedPrey /\ ReadyPrey /\ MemoIsSearch

-----------------------------------------------------------------------------
(* Square roots.                                                           *)

(* A stride halves the interval the root lies in.                          *)
LEMMA StrideHalves ==
  ASSUME NEW v \in Nat, NEW p \in Nat, NEW d \in Nat, NEW e, e = d + d,
         p * p <= v, v < (p + e) * (p + e)
  PROVE  /\ Stride(p, d, v) \in Nat
         /\ Stride(p, d, v) * Stride(p, d, v) <= v
         /\ v < (Stride(p, d, v) + d) * (Stride(p, d, v) + d)
<1>1. CASE squares(p + d) <= v
  <2>1. Stride(p, d, v) = p + d /\ (p + d) * (p + d) <= v /\ p + d \in Nat
    BY <1>1 DEF Stride, squares
  <2>2. p + e = (p + d) + d
    OBVIOUS
  <2>3. QED
    BY <2>1, <2>2
<1>2. CASE ~(squares(p + d) <= v)
  <2>1. Stride(p, d, v) = p /\ ~((p + d) * (p + d) <= v)
    BY <1>2 DEF Stride, squares
  <2>2. (p + d) * (p + d) \in Nat
    OBVIOUS
  <2>3. QED
    BY <2>1, <2>2
<1>3. QED
  BY <1>1, <1>2

(* Six strides find the root of any number below 64 * 64.                  *)
LEMMA RootIsRoot ==
  ASSUME NEW v \in Nat, v < 4096
  PROVE  IsRoot(Root(v), v)
<1>. DEFINE a == Stride(0, 32, v)
            b == Stride(a, 16, v)
            c == Stride(b, 8, v)
            d == Stride(c, 4, v)
            e == Stride(d, 2, v)
            f == Stride(e, 1, v)
<1>0. v \in Nat /\ 0 * 0 <= v /\ v < (0 + 64) * (0 + 64)
  OBVIOUS
<1>1. a \in Nat /\ a * a <= v /\ v < (a + 32) * (a + 32)
  <2>. HIDE DEF a
  <2>1. 64 = 32 + 32 /\ 32 \in Nat /\ 0 \in Nat
    OBVIOUS
  <2>2. QED
    BY <1>0, <2>1, StrideHalves DEF a
<1>. HIDE DEF a
<1>2. b \in Nat /\ b * b <= v /\ v < (b + 16) * (b + 16)
  <2>1. 32 = 16 + 16 /\ 16 \in Nat
    OBVIOUS
  <2>2. QED
    BY <1>0, <1>1, <2>1, StrideHalves
<1>. HIDE DEF b
<1>3. c \in Nat /\ c * c <= v /\ v < (c + 8) * (c + 8)
  <2>1. 16 = 8 + 8 /\ 8 \in Nat
    OBVIOUS
  <2>2. QED
    BY <1>0, <1>2, <2>1, StrideHalves
<1>. HIDE DEF c
<1>4. d \in Nat /\ d * d <= v /\ v < (d + 4) * (d + 4)
  <2>1. 8 = 4 + 4 /\ 4 \in Nat
    OBVIOUS
  <2>2. QED
    BY <1>0, <1>3, <2>1, StrideHalves
<1>. HIDE DEF d
<1>5. e \in Nat /\ e * e <= v /\ v < (e + 2) * (e + 2)
  <2>1. 4 = 2 + 2 /\ 2 \in Nat
    OBVIOUS
  <2>2. QED
    BY <1>0, <1>4, <2>1, StrideHalves
<1>. HIDE DEF e
<1>6. f \in Nat /\ f * f <= v /\ v < (f + 1) * (f + 1)
  <2>1. 2 = 1 + 1 /\ 1 \in Nat
    OBVIOUS
  <2>2. QED
    BY <1>0, <1>5, <2>1, StrideHalves
<1>. HIDE DEF f
<1>7. Root(v) = f
  BY DEF Root, a, b, c, d, e, f
<1>8. QED
  BY <1>6, <1>7 DEF IsRoot

(* What is remembered changes no answer of isqrt.                          *)
LEMMA RemembersRoots ==
  ASSUME MemoIsSearch
  PROVE  \A v : isqrt(v) = Root(v)
BY DEF MemoIsSearch, isqrt

LEMMA RememberKeeps ==
  ASSUME MemoIsSearch, NEW r \in Nat, r * r < 600, Remember(r)
  PROVE  MemoIsSearch'
<1>1. Heights(r) \subseteq 0 .. 599
  <2>. SUFFICES ASSUME NEW c \in 0 .. r PROVE r * r - c * c \in 0 .. 599
    BY DEF Heights
  <2>1. c * c <= r * r /\ c * c \in Nat /\ r * r \in Nat
    OBVIOUS
  <2>2. QED
    BY <2>1
<1>2. DOMAIN memoriza' = DOMAIN memoriza \cup Heights(r)
  BY DEF Remember
<1>3. \A v \in DOMAIN memoriza' : memoriza'[v] = Root(v)
  BY RemembersRoots DEF Remember
<1>4. QED
  BY <1>1, <1>2, <1>3 DEF MemoIsSearch

-----------------------------------------------------------------------------
(* The steps.                                                              *)

(* What the assumptions say of single constants.                           *)
LEMMA GameNumbers ==
  /\ VWIDTH \in Nat \ {0} /\ VHEIGHT \in Nat \ {0} /\ MARGIN \in Nat \ {0} /\ START \in Nat
  /\ SIZE0 \in Nat \ {0} /\ MONSTER_SIZE \in Nat \ {0} /\ MAXLAG \in Nat \ {0}
  /\ MAXSIZE \in Nat /\ MAXMON \in Nat \ {0} /\ SIZE0 <= MAXMON
  /\ Mon \subseteq Nat /\ 1 \in Mon
<1>1. {VWIDTH, VHEIGHT, MARGIN, START, SIZE0, MONSTER_SIZE, PID, MAXLAG, MAXSCORE} \subseteq Nat \ {0}
  BY GameAssumption
<1>2. MAXSIZE \in Nat /\ MAXMON \in Nat /\ 2 * SIZE0 - 1 <= MAXMON
  BY GameAssumption
<1>3. SIZE0 \in Nat \ {0} /\ MONSTER_SIZE \in Nat \ {0}
  BY <1>1
<1>4. MAXMON \in Nat \ {0} /\ SIZE0 <= MAXMON
  BY <1>2, <1>3
<1>5. Mon \subseteq Nat /\ 1 \in Mon
  BY <1>3 DEF Mon
<1>6. QED
  BY <1>1, <1>2, <1>4, <1>5

(* Alive, in terms of the type of the monsters.                            *)
LEMMA AliveIs ==
  ASSUME MonstersAre
  PROVE  \A m \in Mon : /\ m \in Alive <=> monsters[m] \in AMonster
                        /\ m \notin Alive <=> monsters[m] = Gone
<1>1. \A q \in AMonster : q.alive = TRUE
  BY DEF AMonster
<1>2. Gone.alive = FALSE
  BY DEF Gone
<1>3. \A m \in Mon : monsters[m] \in AMonster \cup {Gone}
  BY DEF MonstersAre
<1>4. QED
  BY <1>1, <1>2, <1>3 DEF Alive

(* The monsters that GAME_START and createMonster make are monsters.       *)
LEMMA MadeMonster ==
  ASSUME NEW s \in 1 .. MAXMON, NEW mx \in 0 .. VWIDTH - 1, NEW my \in 0 .. VHEIGHT - 1, NEW d \in Dirs
  PROVE  Monster(s, mx, my, d) \in AMonster /\ Monster(s, mx, my, d).size = s
<1>1. d \in (-1 .. 1) \X (-1 .. 1)
  BY GameAssumption
<1>2. d[1] \in -1 .. 1 /\ d[2] \in -1 .. 1
  BY <1>1
<1>3. QED
  BY <1>2 DEF Monster, AMonster

LEMMA SomewhereIs ==
  ASSUME NEW s \in 1 .. MAXMON, NEW mon \in Somewhere(s)
  PROVE  mon \in AMonster /\ mon.size = s
BY MadeMonster DEF Somewhere

(* A monster that has moved is on the screen (drawMonster).                *)
LEMMA MovedIs ==
  ASSUME NEW mon \in AMonster
  PROVE  /\ Moved(mon) \in AMonster /\ Moved(mon).size = mon.size
         /\ \A d \in Dirs \cup {<<Moved(mon).sx, Moved(mon).sy>>} :
              [Moved(mon) EXCEPT !.sx = d[1], !.sy = d[2]] \in AMonster
<1>1. /\ mon.x \in 0 .. VWIDTH - 1 /\ mon.y \in 0 .. VHEIGHT - 1 /\ mon.sx \in -1 .. 1 /\ mon.sy \in -1 .. 1
      /\ mon.size \in 1 .. MAXMON
  BY DEF AMonster
<1>2. \A w, v, s : w \in Nat \ {0} /\ 2 * MARGIN <= w /\ v \in 0 .. w - 1 /\ s \in -1 .. 1
                     => Back(v + s, MARGIN, w - MARGIN) \in 0 .. w - 1
  BY GameNumbers DEF Back
<1>3. /\ Back(mon.x + mon.sx, MARGIN, VWIDTH - MARGIN) \in 0 .. VWIDTH - 1
      /\ Back(mon.y + mon.sy, MARGIN, VHEIGHT - MARGIN) \in 0 .. VHEIGHT - 1
  BY <1>1, <1>2, GameNumbers, GameAssumption
<1>4. Moved(mon) \in AMonster /\ Moved(mon).size = mon.size
  BY <1>3 DEF Moved, AMonster
<1>5. ASSUME NEW d \in Dirs \cup {<<Moved(mon).sx, Moved(mon).sy>>}
      PROVE  [Moved(mon) EXCEPT !.sx = d[1], !.sy = d[2]] \in AMonster
  <2>1. d[1] \in -1 .. 1 /\ d[2] \in -1 .. 1
    <3>1. CASE d \in Dirs
      <4>1. d \in (-1 .. 1) \X (-1 .. 1)
        BY <3>1, GameAssumption
      <4>2. QED
        BY <4>1
    <3>2. CASE d = <<Moved(mon).sx, Moved(mon).sy>>
      BY <1>4, <3>2 DEF AMonster
    <3>3. QED
      BY <3>1, <3>2
  <2>2. PICK m : m = Moved(mon)
    OBVIOUS
  <2>3. [m EXCEPT !.sx = d[1], !.sy = d[2]] \in AMonster
    BY <1>4, <2>1, <2>2 DEF AMonster
  <2>4. QED
    BY <2>2, <2>3
<1>6. QED
  BY <1>4, <1>5

(* An EndFrame leaves the frame or begins the next.                        *)
LEMMA EndFrameKeeps ==
  ASSUME FrameOK, PcFollowsStatus, pc # "poll", EndFrame
  PROVE  /\ pc' \in {"poll", "frame"} /\ i' \in Mon /\ todo' \in -1 .. MAXLAG
         /\ todo' > 0 \/ pc' = "poll"
BY GameNumbers DEF FrameOK, PcFollowsStatus, EndFrame, CaughtUp

(* A turn of a monster loop.                                               *)
LEMMA NextTurnKeeps ==
  ASSUME FrameOK, NEW after, NextTurn(after)
  PROVE  i' \in Mon /\ (pc' = pc \/ pc' = after)
BY GameNumbers DEF FrameOK, NextTurn, Mon

(* Steps that change neither monsters nor sizes keep the prey.             *)
LEMMA SameMonsters ==
  ASSUME GameIInv, UNCHANGED <<monsters, size>>,
         pc' = "place" => pc = "place",
         gameStatus' = "READY" => gameStatus = "READY"
  PROVE  MonstersAre' /\ PlacedPrey' /\ ReadyPrey'
BY DEF GameIInv, MonstersAre, PlacedPrey, Prey, ReadyPrey

LEMMA SameMemo ==
  ASSUME GameIInv, UNCHANGED memoriza
  PROVE  MemoIsSearch'
BY DEF GameIInv, MemoIsSearch

(* A monster replaced while the game is on.                                *)
LEMMA OneMonster ==
  ASSUME GameIInv, NEW m \in Mon, NEW mon \in AMonster \cup {Gone},
         monsters' = [monsters EXCEPT ![m] = mon], pc' # "place", gameStatus' = "ING"
  PROVE  MonstersAre' /\ PlacedPrey' /\ ReadyPrey'
BY DEF GameIInv, MonstersAre, PlacedPrey, ReadyPrey

LEMMA FrameTypes ==
  ASSUME GameIInv
  PROVE  /\ FrameOK /\ PcFollowsStatus /\ MonstersAre /\ MemoIsSearch
         /\ i \in Mon /\ size \in Nat /\ size * size < 600
<1>1. FrameOK /\ size \in 0 .. MAXSIZE /\ i \in Mon
  BY DEF GameIInv, FrameOK
<1>2. size * size <= MAXSIZE * MAXSIZE
  BY <1>1, GameNumbers
<1>3. QED
  BY <1>1, <1>2, GameNumbers, GameAssumption DEF GameIInv

LEMMA WaitingKeeps ==
  ASSUME GameIInv, Poll \/ Sleep5 \/ WakeUp
  PROVE  GameIInv'
<1>1. /\ pc' \in {"poll", "frame", "asleep", "play"} /\ todo' \in -1 .. MAXLAG /\ (todo' > 0 \/ pc' = "poll")
      /\ UNCHANGED <<gameStatus, x, y, size, score, monsters, memoriza, i>>
  BY FrameTypes, GameNumbers DEF Poll, Sleep5, WakeUp, FrameOK, PcFollowsStatus, play, stage
<1>2. FrameOK'
  BY <1>1, FrameTypes DEF FrameOK
<1>3. PcFollowsStatus'
  BY <1>1 DEF PcFollowsStatus
<1>4. QED
  BY <1>1, <1>2, <1>3, SameMonsters, SameMemo DEF GameIInv

LEMMA GameStartKeeps ==
  ASSUME GameIInv, GameStart
  PROVE  GameIInv'
<1>1. PICK k \in 0 .. SIZE0 - 1 : \E mon \in Somewhere(FirstSize(k)) :
        monsters' = [m \in Mon |-> IF m = 1 THEN mon ELSE Gone]
  BY DEF GameStart
<1>2. PICK mon \in Somewhere(FirstSize(k)) : monsters' = [m \in Mon |-> IF m = 1 THEN mon ELSE Gone]
  BY <1>1
<1>3. FirstSize(k) \in 1 .. MAXMON /\ FirstSize(k) <= SIZE0
  BY GameNumbers DEF FirstSize
<1>4. mon \in AMonster /\ mon.size <= SIZE0
  BY <1>3, SomewhereIs
<1>5. /\ x' = START /\ y' = START /\ size' = SIZE0 /\ score' = 0 /\ pc' = "place" /\ i' = 1
      /\ UNCHANGED <<gameStatus, memoriza, todo>> /\ gameStatus = "START" /\ pc # "poll"
  BY DEF GameStart, Playing
<1>6. MonstersAre'
  BY <1>2, <1>4 DEF MonstersAre
<1>7. FrameOK'
  BY <1>5, FrameTypes, GameNumbers, GameAssumption DEF FrameOK
<1>8. PcFollowsStatus' /\ PlacedPrey' /\ ReadyPrey'
  BY <1>2, <1>4, <1>5, FrameTypes, GameNumbers DEF PcFollowsStatus, PlacedPrey, Prey, ReadyPrey
<1>9. QED
  BY <1>5, <1>6, <1>7, <1>8, SameMemo DEF GameIInv

LEMMA PlaceMonsterKeeps ==
  ASSUME GameIInv, PlaceMonster
  PROVE  GameIInv'
<1>1. /\ pc = "place" /\ i < MONSTER_SIZE /\ i' = i + 1
      /\ UNCHANGED <<gameStatus, x, y, size, score, memoriza, pc, todo>>
  BY DEF PlaceMonster, play, stage
<1>2. i + 1 \in Mon /\ i + 1 # 1
  BY <1>1, FrameTypes, GameNumbers DEF Mon
<1>3. gameStatus = "START" /\ size = SIZE0 /\ Prey
  BY <1>1 DEF GameIInv, PcFollowsStatus, PlacedPrey
<1>4. MonstersAre' /\ monsters'[1] = monsters[1]
  <2>1. CASE UNCHANGED monsters
    BY <2>1, FrameTypes DEF MonstersAre
  <2>2. CASE \E k \in 0 .. size - 1 : \E mon \in Somewhere(1 + 2 * k) :
               monsters' = [monsters EXCEPT ![i + 1] = mon]
    <3>1. PICK k \in 0 .. size - 1 : \E mon \in Somewhere(1 + 2 * k) :
                 monsters' = [monsters EXCEPT ![i + 1] = mon]
      BY <2>2
    <3>2. PICK mon \in Somewhere(1 + 2 * k) : monsters' = [monsters EXCEPT ![i + 1] = mon]
      BY <3>1
    <3>3. 1 + 2 * k \in 1 .. MAXMON
      BY <1>3, GameNumbers, GameAssumption
    <3>4. mon \in AMonster
      BY <3>3, SomewhereIs
    <3>5. QED
      BY <1>2, <3>2, <3>4, FrameTypes, GameNumbers DEF MonstersAre
  <2>3. QED
    BY <2>1, <2>2 DEF PlaceMonster
<1>5. FrameOK'
  BY <1>1, <1>2, FrameTypes DEF FrameOK
<1>6. PcFollowsStatus' /\ PlacedPrey' /\ ReadyPrey'
  BY <1>1, <1>3, <1>4, FrameTypes DEF PcFollowsStatus, PlacedPrey, Prey, ReadyPrey
<1>7. QED
  BY <1>1, <1>4, <1>5, <1>6, SameMemo DEF GameIInv

LEMMA GameReadyKeeps ==
  ASSUME GameIInv, GameReady
  PROVE  GameIInv'
<1>1. /\ EndFrame /\ pc # "poll" /\ gameStatus' \in {"READY", "ING"}
      /\ UNCHANGED <<x, y, size, score, monsters, memoriza>>
  BY DEF GameReady, Playing, stage
<1>2. /\ pc' \in {"poll", "frame"} /\ i' \in Mon /\ todo' \in -1 .. MAXLAG
      /\ todo' > 0 \/ pc' = "poll"
  BY <1>1, EndFrameKeeps DEF GameIInv
<1>3. FrameOK' /\ PcFollowsStatus'
  BY <1>1, <1>2, FrameTypes DEF FrameOK, PcFollowsStatus, Statuses
<1>4. \E m \in Mon : monsters[m] \in AMonster /\ monsters[m].size <= size
  <2>1. CASE Playing("READY")
    BY <2>1 DEF Playing, GameIInv, ReadyPrey
  <2>2. CASE pc = "place"
    BY <2>2, GameNumbers DEF GameIInv, PlacedPrey, Prey
  <2>3. QED
    BY <2>1, <2>2 DEF GameReady
<1>5. MonstersAre' /\ PlacedPrey' /\ ReadyPrey'
  BY <1>1, <1>2, <1>4 DEF GameIInv, MonstersAre, PlacedPrey, ReadyPrey
<1>6. QED
  BY <1>1, <1>3, <1>5, SameMemo DEF GameIInv

LEMMA MovePlayerKeeps ==
  ASSUME GameIInv, MovePlayer
  PROVE  GameIInv'
<1>1. /\ gameStatus = "ING" /\ pc # "poll" /\ pc' = "draw" /\ i' = 1 /\ Remember(size)
      /\ UNCHANGED <<gameStatus, size, score, monsters, todo>>
  BY DEF MovePlayer, Playing
<1>2. PICK dx \in -1 .. 1, dy \in -1 .. 1 : Player(dx, dy)
  BY DEF MovePlayer
<1>3. \A w, v, s : w \in Nat \ {0} /\ v \in 0 .. w /\ s \in -1 .. 1 => Back(v + s, 0, w) \in 0 .. w
  BY DEF Back
<1>4. x' \in 0 .. VWIDTH /\ y' \in 0 .. VHEIGHT
  BY <1>2, <1>3, FrameTypes, GameNumbers DEF Player, FrameOK
<1>5. FrameOK' /\ PcFollowsStatus'
  BY <1>1, <1>4, FrameTypes, GameNumbers DEF FrameOK, PcFollowsStatus
<1>6. MemoIsSearch'
  BY <1>1, FrameTypes, RememberKeeps
<1>7. QED
  BY <1>1, <1>5, <1>6, SameMonsters DEF GameIInv

LEMMA DrawMonsterKeeps ==
  ASSUME GameIInv, DrawMonster
  PROVE  GameIInv'
<1>1. /\ pc = "draw" /\ NextTurn("stage") /\ i \in Alive
      /\ UNCHANGED <<gameStatus, x, y, size, score, todo>>
  BY DEF DrawMonster, play
<1>2. gameStatus = "ING" /\ i \in Mon /\ monsters[i] \in AMonster
  BY <1>1, FrameTypes, AliveIs DEF PcFollowsStatus
<1>3. PICK mon : mon = Moved(monsters[i])
  OBVIOUS
<1>4. /\ Remember(mon.size)
      /\ \E d \in Dirs \cup {<<mon.sx, mon.sy>>} :
           monsters' = [monsters EXCEPT ![i] = [mon EXCEPT !.sx = d[1], !.sy = d[2]]]
  BY <1>3 DEF DrawMonster
<1>5. mon.size \in 1 .. MAXMON
  BY <1>2, <1>3, MovedIs DEF AMonster
<1>6. mon.size \in Nat /\ mon.size * mon.size < 600
  <2>1. mon.size * mon.size <= MAXMON * MAXMON
    BY <1>5, GameNumbers
  <2>2. QED
    BY <1>5, <2>1, GameNumbers, GameAssumption
<1>7. MemoIsSearch'
  BY <1>4, <1>6, FrameTypes, RememberKeeps
<1>8. PICK new \in AMonster : monsters' = [monsters EXCEPT ![i] = new]
  BY <1>2, <1>3, <1>4, MovedIs
<1>9. i' \in Mon /\ pc' \in {"draw", "stage"}
  BY <1>1, FrameTypes, NextTurnKeeps
<1>10. FrameOK' /\ PcFollowsStatus'
  BY <1>1, <1>2, <1>9, FrameTypes DEF FrameOK, PcFollowsStatus
<1>11. MonstersAre' /\ PlacedPrey' /\ ReadyPrey'
  BY <1>1, <1>2, <1>8, <1>9, OneMonster
<1>12. QED
  BY <1>7, <1>10, <1>11 DEF GameIInv

LEMMA DrawStageKeeps ==
  ASSUME GameIInv, DrawStage
  PROVE  GameIInv'
<1>1. /\ pc = "stage" /\ pc' = "create" /\ i' = 1 /\ Remember(size)
      /\ UNCHANGED <<gameStatus, x, y, size, score, monsters, todo>>
  BY DEF DrawStage, play
<1>2. FrameOK' /\ PcFollowsStatus'
  BY <1>1, FrameTypes, GameNumbers DEF FrameOK, PcFollowsStatus
<1>3. MemoIsSearch'
  BY <1>1, FrameTypes, RememberKeeps
<1>4. QED
  BY <1>1, <1>2, <1>3, SameMonsters DEF GameIInv

LEMMA CreateMonsterKeeps ==
  ASSUME GameIInv, CreateMonster
  PROVE  GameIInv'
<1>1. /\ pc = "create" /\ NextTurn("hit")
      /\ UNCHANGED <<gameStatus, x, y, size, score, memoriza, todo>>
  BY DEF CreateMonster, play, stage
<1>2. gameStatus = "ING" /\ i \in Mon
  BY <1>1, FrameTypes DEF PcFollowsStatus
<1>3. PICK k \in 0 .. size - 1, d \in Dirs :
        monsters' = [monsters EXCEPT ![i] =
          Monster(IF 2 + 2 * k > MAXMON THEN MAXMON ELSE 2 + 2 * k, VWIDTH \div 2, VHEIGHT \div 2, d)]
  BY DEF CreateMonster
<1>4. PICK s \in 1 .. MAXMON : s = IF 2 + 2 * k > MAXMON THEN MAXMON ELSE 2 + 2 * k
  BY FrameTypes, GameNumbers
<1>5. VWIDTH \div 2 \in 0 .. VWIDTH - 1 /\ VHEIGHT \div 2 \in 0 .. VHEIGHT - 1
  BY GameNumbers
<1>6. PICK new \in AMonster : monsters' = [monsters EXCEPT ![i] = new]
  BY <1>3, <1>4, <1>5, MadeMonster
<1>7. i' \in Mon /\ pc' \in {"create", "hit"}
  BY <1>1, FrameTypes, NextTurnKeeps
<1>8. FrameOK' /\ PcFollowsStatus'
  BY <1>1, <1>2, <1>7, FrameTypes DEF FrameOK, PcFollowsStatus
<1>9. MonstersAre' /\ PlacedPrey' /\ ReadyPrey'
  BY <1>1, <1>2, <1>6, <1>7, OneMonster
<1>10. QED
  BY <1>1, <1>8, <1>9, SameMemo DEF GameIInv

LEMMA SkipMonsterKeeps ==
  ASSUME GameIInv, SkipMonster
  PROVE  GameIInv'
<1>1. /\ pc \in {"draw", "create"} /\ (NextTurn("stage") \/ NextTurn("hit"))
      /\ UNCHANGED <<gameStatus, x, y, size, score, monsters, memoriza, todo>>
  BY DEF SkipMonster, play, stage
<1>2. i' \in Mon /\ pc' \in {"draw", "create", "stage", "hit"}
  BY <1>1, FrameTypes, NextTurnKeeps
<1>3. FrameOK' /\ PcFollowsStatus'
  BY <1>1, <1>2, FrameTypes DEF FrameOK, PcFollowsStatus
<1>4. QED
  BY <1>1, <1>2, <1>3, SameMonsters, SameMemo DEF GameIInv

(* hitMonster meets the monster of the lowest number first.                *)
LEMMA FirstIsMember ==
  ASSUME NEW S \in SUBSET Mon, S # {}
  PROVE  First(S) \in S
<1>1. S \in SUBSET Nat
  BY GameNumbers
<1>2. PICK m \in S : \A n \in S : ~(<<n, m>> \in OpToRel(<, Nat))
  BY <1>1, NatLessThanWellFounded, WFMin
<1>3. \A n \in S : ~(n < m)
  BY <1>1, <1>2 DEF OpToRel
<1>4. \A n \in S : m <= n
  BY <1>1, <1>3
<1>5. QED
  BY <1>4 DEF First

LEMMA HitKeeps ==
  ASSUME GameIInv, HitEats
  PROVE  GameIInv'
<1>1. /\ pc = "hit" /\ Touching # {} /\ Touching \in SUBSET Mon
      /\ monsters' = [monsters EXCEPT ![First(Touching)] = Gone]
      /\ size' = (IF size < MAXSIZE THEN size + 1 ELSE size)
      /\ score' = score + monsters[First(Touching)].size
      /\ UNCHANGED <<gameStatus, x, y, memoriza, pc, i, todo>>
  BY DEF HitEats, stage, Touching, Alive
<1>2. PICK m \in Mon : m = First(Touching) /\ m \in Alive
  BY <1>1, FirstIsMember DEF Touching
<1>3. monsters[m].size \in Nat
  <2>1. monsters[m] \in AMonster
    BY <1>2, FrameTypes, AliveIs
  <2>2. monsters[m].size \in 1 .. MAXMON
    BY <2>1 DEF AMonster
  <2>3. QED
    BY <2>2
<1>4. gameStatus = "ING"
  BY <1>1, FrameTypes DEF PcFollowsStatus
<1>5. size' \in 0 .. MAXSIZE
  BY <1>1, FrameTypes, GameNumbers DEF FrameOK
<1>6. FrameOK' /\ PcFollowsStatus'
  BY <1>1, <1>2, <1>3, <1>5, FrameTypes DEF FrameOK, PcFollowsStatus
<1>7. MonstersAre' /\ PlacedPrey' /\ ReadyPrey'
  BY <1>1, <1>2, <1>4, OneMonster
<1>8. QED
  BY <1>1, <1>6, <1>7, SameMemo DEF GameIInv

LEMMA HitKillsKeeps ==
  ASSUME GameIInv, HitKills
  PROVE  GameIInv'
<1>1. /\ pc = "hit" /\ gameStatus' = "END" /\ pc' = "over"
      /\ UNCHANGED <<x, y, size, score, monsters, memoriza, i, todo>>
  BY DEF HitKills, stage
<1>2. FrameOK' /\ PcFollowsStatus'
  BY <1>1, FrameTypes DEF FrameOK, PcFollowsStatus, Statuses
<1>3. QED
  BY <1>1, <1>2, SameMonsters, SameMemo DEF GameIInv

LEMMA FrameEndsKeep ==
  ASSUME GameIInv, HitNothing \/ GameEnd
  PROVE  GameIInv'
<1>1. /\ EndFrame /\ pc # "poll" /\ gameStatus' \in {gameStatus, "START"}
      /\ UNCHANGED <<x, y, size, score, monsters, memoriza>>
  BY DEF HitNothing, GameEnd, Playing, play, stage
<1>2. /\ pc' \in {"poll", "frame"} /\ i' \in Mon /\ todo' \in -1 .. MAXLAG
      /\ todo' > 0 \/ pc' = "poll"
  BY <1>1, EndFrameKeeps DEF GameIInv
<1>3. FrameOK' /\ PcFollowsStatus'
  BY <1>1, <1>2, FrameTypes DEF FrameOK, PcFollowsStatus, Statuses
<1>4. QED
  BY <1>1, <1>2, <1>3, SameMonsters, SameMemo DEF GameIInv

LEMMA GameStutterKeeps ==
  ASSUME GameIInv, UNCHANGED vars
  PROVE  GameIInv'
<1>1. UNCHANGED <<gameStatus, x, y, size, score, monsters, memoriza, pc, i, todo>>
  BY DEF vars, play, stage
<1>2. FrameOK' /\ PcFollowsStatus'
  BY <1>1, FrameTypes DEF FrameOK, PcFollowsStatus
<1>3. QED
  BY <1>1, <1>2, SameMonsters, SameMemo DEF GameIInv

LEMMA GameNextKeeps == GameIInv /\ [Next]_vars => GameIInv'
<1>. SUFFICES ASSUME GameIInv, [Next]_vars PROVE GameIInv'
  OBVIOUS
<1>1. CASE Poll \/ Sleep5 \/ WakeUp
  BY <1>1, WaitingKeeps
<1>2. CASE GameStart
  BY <1>2, GameStartKeeps
<1>3. CASE PlaceMonster
  BY <1>3, PlaceMonsterKeeps
<1>4. CASE GameReady
  BY <1>4, GameReadyKeeps
<1>5. CASE MovePlayer
  BY <1>5, MovePlayerKeeps
<1>6. CASE DrawMonster
  BY <1>6, DrawMonsterKeeps
<1>7. CASE DrawStage
  BY <1>7, DrawStageKeeps
<1>8. CASE CreateMonster
  BY <1>8, CreateMonsterKeeps
<1>9. CASE SkipMonster
  BY <1>9, SkipMonsterKeeps
<1>10. CASE HitEats
  BY <1>10, HitKeeps
<1>11. CASE HitKills
  BY <1>11, HitKillsKeeps
<1>12. CASE HitNothing \/ GameEnd
  BY <1>12, FrameEndsKeep
<1>13. CASE UNCHANGED vars
  BY <1>13, GameStutterKeeps
<1>14. QED
  BY <1>1, <1>2, <1>3, <1>4, <1>5, <1>6, <1>7, <1>8, <1>9, <1>10, <1>11, <1>12, <1>13 DEF Next, Step

LEMMA GameInitHolds == Init => GameIInv
<1>. SUFFICES ASSUME Init PROVE GameIInv
  OBVIOUS
<1>1. MonstersAre
  BY DEF Init, MonstersAre
<1>2. FrameOK
  BY GameNumbers DEF Init, FrameOK, Statuses
<1>3. DOMAIN memoriza = {}
  BY DEF Init
<1>4. MemoIsSearch
  BY <1>3 DEF MemoIsSearch
<1>5. QED
  BY <1>1, <1>2, <1>4 DEF Init, GameIInv, PcFollowsStatus, PlacedPrey, ReadyPrey

LEMMA GameIInvImplies == GameIInv => GameInv
<1>. SUFFICES ASSUME GameIInv PROVE GameInv
  OBVIOUS
<1>1. \A m \in Mon : m \in Alive <=> monsters[m] \in AMonster
  BY AliveIs DEF GameIInv
<1>2. ASSUME NEW m \in Alive
      PROVE  /\ monsters[m].x \in 0 .. VWIDTH - 1 /\ monsters[m].y \in 0 .. VHEIGHT - 1
             /\ monsters[m].size \in 1 .. MAXMON
             /\ <<monsters[m].sx, monsters[m].sy>> \in (-1 .. 1) \X (-1 .. 1)
  <2>1. monsters[m] \in AMonster
    BY <1>1 DEF Alive
  <2>2. QED
    BY <2>1 DEF AMonster
<1>3. GameTypeOK
  BY <1>2 DEF GameTypeOK, GameIInv, FrameOK
<1>4. MemoIsRoot
  <2>1. ASSUME NEW v \in 0 .. MAXMON * MAXMON PROVE v \in 0 .. 4095
    <3>1. MAXMON * MAXMON \in Nat
      BY GameNumbers
    <3>2. QED
      BY <3>1, GameAssumption
  <2>2. ASSUME NEW v \in 0 .. MAXMON * MAXMON PROVE IsRoot(isqrt(v), v)
    <3>1. isqrt(v) = Root(v)
      BY RemembersRoots DEF GameIInv
    <3>2. IsRoot(Root(v), v)
      <4>1. v \in Nat /\ v < 4096
        BY <2>1
      <4>2. QED
        BY <4>1, RootIsRoot
    <3>3. QED
      BY <3>1, <3>2
  <2>3. QED
    BY <2>2 DEF MemoIsRoot, GameIInv, MemoIsSearch
<1>5. ReadyHasPrey
  BY <1>1 DEF ReadyHasPrey, GameIInv, ReadyPrey
<1>6. QED
  BY <1>3, <1>4, <1>5 DEF GameInv

(* For every field, every number of monsters and however long it is        *)
(* played: the player and the monsters stay on the field, isqrt answers    *)
(* with the integer square root whatever was drawn before and never beyond *)
(* memoriza, and a game that waits for the player has a monster that can   *)
(* be eaten (dreamOf100HZ, drawMonster, createMonster, isqrt).             *)
THEOREM GameSafe == Spec => []GameInv
<1>1. Spec => []GameIInv
  BY GameInitHolds, GameNextKeeps, PTL DEF Spec
<1>2. QED
  BY <1>1, GameIInvImplies, PTL

=============================================================================
