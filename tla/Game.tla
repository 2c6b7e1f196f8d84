-------------------------------- MODULE Game --------------------------------
(***************************************************************************)
(* The game (game/src/game.c, game/include/stage.h): a circle moved by     *)
(* keys eats smaller circles and dies of larger ones.                      *)
(*                                                                         *)
(* The program's own state is private to its process, so its steps are cut *)
(* where its loops turn.  Keys are read from the kernel at every use and   *)
(* UKISS() is taken to return anything: both are free choices.  Time is    *)
(* kept relative to curtime: `todo' is timestamp - curtime.  A picture is  *)
(* the sequence of figures drawn since clearStage; a hash stays far below  *)
(* 2^32, so its sums do not wrap.                                          *)
(***************************************************************************)
EXTENDS Integers, Sequences, SequencesExt, FiniteSets

CONSTANTS
  VWIDTH, VHEIGHT,  \* 320 and 200
  MARGIN,           \* 10: the border monsters are turned back from
  START,            \* 30: where the player starts
  SIZE0, MAXSIZE,   \* 4 and 13: the player's first and largest size
  MAXMON,           \* 14: the largest monster
  MONSTER_SIZE,     \* 20: monsters
  PID,              \* the number the kernel gave the process
  Dirs,             \* bound: directions <<sx, sy>> the random numbers give
  MAXLAG,           \* bound: ticks the game may be behind
  MAXSCORE          \* bound: the score at which no more monsters come

ASSUME GameAssumption ==
  /\ {VWIDTH, VHEIGHT, MARGIN, START, SIZE0, MONSTER_SIZE, PID, MAXLAG, MAXSCORE} \subseteq Nat \ {0}
  /\ 2 * MARGIN <= VWIDTH /\ 2 * MARGIN <= VHEIGHT /\ START < VWIDTH /\ START < VHEIGHT
  /\ SIZE0 <= MAXSIZE /\ MAXSIZE \in Nat /\ MAXMON \in Nat /\ 2 * SIZE0 - 1 <= MAXMON
  /\ MAXSIZE * MAXSIZE < 600 /\ MAXMON * MAXMON < 600   \* the length of memoriza
  /\ Dirs \subseteq (-1 .. 1) \X (-1 .. 1)

Mon == 1 .. MONSTER_SIZE

VARIABLES
  gameStatus, x, y, size, score,
  monsters,   \* status, size, position and direction
  memoriza,   \* square roots computed so far
  hash,       \* of the figures drawn since clearStage
  lhash,      \* hash of the last picture flushed
  drawn,      \* the figures in the cache
  shown,      \* the figures on the screen
  pc, i,      \* where the frame has got to, and the monster of its loop
  todo

play == <<gameStatus, x, y, size, score>>
stage == <<memoriza, hash, lhash, drawn, shown>>
vars == <<play, monsters, stage, pc, i, todo>>

-----------------------------------------------------------------------------
(* Square roots.  isqrt walks a table of squares in halving strides and    *)
(* remembers the result.                                                   *)
squares(n) == n * n
Stride(p, d, v) == IF squares(p + d) <= v THEN p + d ELSE p
Root(v) == Stride(Stride(Stride(Stride(Stride(Stride(0, 32, v), 16, v), 8, v), 4, v), 2, v), 1, v)
isqrt(v) == IF v \in DOMAIN memoriza /\ memoriza[v] > 0 THEN memoriza[v] ELSE Root(v)

IsRoot(r, v) == r * r <= v /\ v < (r + 1) * (r + 1)

(* drawNumber: the digits from the left, none for a negative number.       *)
Digits(num) ==
  LET len == CHOOSE n \in 1 .. 10 : num < 10 ^ n /\ (n = 1 \/ num >= 10 ^ (n - 1))
  IN  IF num < 0 THEN << >> ELSE [k \in 1 .. len |-> (num \div 10 ^ (len - k)) % 10]

Circ(cx, cy, r, color) == [fig |-> "circ", x |-> cx, y |-> cy, s |-> r, color |-> color]
Number(num, nx, ny, s) == [fig |-> "number", x |-> nx, y |-> ny, s |-> s, num |-> num]
Text == [fig |-> "text"]

(* What a figure adds to hash.  The colour of a circle is not part of it;  *)
(* drawText1 draws 137 rectangles of fixed places.                         *)
rectHash(rx, ry, color) == 29 * rx + 57 * ry + 13 * color
(* The pictures nums of the digits 0 to 9, as far as a sum of coordinates  *)
(* tells them: how many squares, and the sums of their columns and rows.   *)
nums ==
  <<<<20, 40, 60>>, <<11, 30, 39>>, <<19, 38, 57>>, <<19, 46, 57>>, <<14, 34, 36>>,
    <<19, 38, 57>>, <<21, 38, 66>>, <<11, 34, 21>>, <<23, 46, 69>>, <<21, 46, 60>>>>
digitHash(n, k, f) ==   \* the k-th digit from the left
  LET sq == nums[n + 1] IN
  sq[1] * rectHash((k - 1) * (f.s * f.s + 10) + f.x, f.y, 7) + rectHash(f.s * sq[2], f.s * sq[3], 0)
numberHash(f) ==
  LET ds == Digits(f.num)
  IN  FoldLeft(LAMBDA h, k : h + digitHash(ds[k], k, f), 0, [k \in DOMAIN ds |-> k])
circHash_NoY(f) == 329 * f.x + 713 * f.s  \* mutant
circHash(f) == 329 * f.x + 157 * f.y + 713 * f.s
figHash(f) == CASE f.fig = "circ"   -> circHash(f)
                [] f.fig = "number" -> numberHash(f)
                [] f.fig = "text"   -> 1170064

(* drawCirc asks isqrt for the height of every column.                     *)
Heights(r) == {r * r - c * c : c \in 0 .. r}
Remember(r) == memoriza' = [v \in DOMAIN memoriza \cup Heights(r) |-> isqrt(v)]

-----------------------------------------------------------------------------
(* drawStage leaves the screen alone when the hash is that of last time.   *)
drawStage(figs, h) ==
  /\ drawn' = figs /\ hash' = h
  /\ IF h = lhash THEN UNCHANGED <<shown, lhash>> ELSE shown' = figs /\ lhash' = h

(* A call of dreamOf100HZ ends, and with it a turn of the inner loop.      *)
CaughtUp_Still == todo  \* mutant
CaughtUp == todo - 2
EndFrame ==
  /\ todo' = CaughtUp
  /\ pc' = IF CaughtUp > 0 THEN "frame" ELSE "poll"
  /\ i' = 1

(* The monster loops: the next turn, or on to `after'.                     *)
NextTurn(after) ==
  IF i < MONSTER_SIZE THEN i' = i + 1 /\ UNCHANGED pc ELSE i' = 1 /\ pc' = after

(* game: sys_get_tick returns what it did the last time, or more.          *)
Poll ==
  /\ pc = "poll"
  /\ todo' \in todo .. MAXLAG
  /\ pc' = IF todo' > 0 THEN "frame" ELSE "poll"
  /\ UNCHANGED <<play, monsters, stage, i>>

(* key('l'): five seconds in the kernel, then the frame goes on.           *)
Sleep5 ==
  /\ pc = "frame"
  /\ pc' = "asleep"
  /\ UNCHANGED <<play, monsters, stage, i, todo>>

WakeUp ==
  /\ pc = "asleep"
  /\ pc' = "play"
  /\ UNCHANGED <<play, monsters, stage, i, todo>>

Playing(status) == pc \in {"frame", "play"} /\ gameStatus = status

(* Only MONSTER_ALIVE is ever tested for; of a monster that is not alive   *)
(* nothing is read.                                                        *)
Gone == [alive |-> FALSE]
Monster(s, mx, my, d) == [alive |-> TRUE, size |-> s, x |-> mx, y |-> my, sx |-> d[1], sy |-> d[2]]
Alive == {m \in Mon : monsters[m].alive}

Somewhere(s) == {Monster(s, mx, my, d) : mx \in 0 .. VWIDTH - 1, my \in 0 .. VHEIGHT - 1, d \in Dirs}

(* GAME_START draws the title and places the player and the monsters, of   *)
(* which the first is always there and never larger than the player.       *)
FirstSize_AsCreated(k) == 2 + 2 * k  \* mutant
FirstSize(k) == 1 + k

GameStart ==
  /\ Playing("START")
  /\ drawStage(<<Text>>, figHash(Text))
  /\ x' = START /\ y' = START /\ size' = SIZE0 /\ score' = 0
  /\ \E k \in 0 .. SIZE0 - 1 : \E mon \in Somewhere(FirstSize(k)) :
       monsters' = [m \in Mon |-> IF m = 1 THEN mon ELSE Gone]
  /\ pc' = "place" /\ i' = 1
  /\ UNCHANGED <<gameStatus, memoriza, todo>>

(* One turn of its loop; then GAME_READY in the same call.                 *)
PlaceMonster ==
  /\ pc = "place" /\ i < MONSTER_SIZE
  /\ i' = i + 1
  /\ \/ UNCHANGED monsters
     \/ \E k \in 0 .. size - 1 : \E mon \in Somewhere(1 + 2 * k) :
          monsters' = [monsters EXCEPT ![i + 1] = mon]
  /\ UNCHANGED <<play, stage, pc, todo>>

(* GAME_READY waits for key('q').                                          *)
GameReady ==
  /\ Playing("READY") \/ (pc = "place" /\ i = MONSTER_SIZE)
  /\ gameStatus' \in {"READY", "ING"}
  /\ EndFrame
  /\ UNCHANGED <<x, y, size, score, monsters, stage>>

-----------------------------------------------------------------------------
(* GAME_ING: the player moves by keys and is pushed back from the edges.   *)
Back(v, low, high) == IF v < low THEN v + 1 ELSE IF v > high THEN v - 1 ELSE v
Player(dx, dy) == x' = Back(x + dx, 0, VWIDTH) /\ y' = Back(y + dy, 0, VHEIGHT)

DrawFirst(f) == drawn' = <<f>> /\ hash' = figHash(f)
DrawMore(f) == drawn' = Append(drawn, f) /\ hash' = hash + figHash(f)

MovePlayer ==
  /\ Playing("ING")
  /\ \E dx, dy \in -1 .. 1 : Player(dx, dy)
  /\ DrawFirst(Circ(x', y', size, 3)) /\ Remember(size)
  /\ pc' = "draw" /\ i' = 1
  /\ UNCHANGED <<gameStatus, size, score, monsters, lhash, shown, todo>>

(* drawMonster, one turn.                                                  *)
Moved(mon) == [mon EXCEPT !.x = Back(mon.x + mon.sx, MARGIN, VWIDTH - MARGIN),
                          !.y = Back(mon.y + mon.sy, MARGIN, VHEIGHT - MARGIN)]

DrawMonster ==
  /\ pc = "draw" /\ i \in Alive
  /\ LET mon == Moved(monsters[i])
     IN  /\ DrawMore(Circ(mon.x, mon.y, mon.size, IF size >= mon.size THEN 15 ELSE 5))
         /\ Remember(mon.size)
         /\ \E d \in Dirs \cup {<<mon.sx, mon.sy>>} :
              monsters' = [monsters EXCEPT ![i] = [mon EXCEPT !.sx = d[1], !.sy = d[2]]]
  /\ NextTurn("stage")
  /\ UNCHANGED <<play, lhash, shown, todo>>

DrawStage ==
  /\ pc = "stage"
  /\ \E bigpid \in BOOLEAN :   \* key('p')
       LET figs == <<Circ(x, y, size, 3), Number(score, 10, 180, 1), Number(PID, 300, 10, 1)>>
                   \o (IF bigpid THEN <<Number(PID, 100, 100, 5)>> ELSE << >>)
       IN  drawStage(drawn \o figs, FoldLeft(LAMBDA h, f : h + figHash(f), hash, figs))
  /\ Remember(size)
  /\ pc' = "create" /\ i' = 1
  /\ UNCHANGED <<play, monsters, todo>>

(* createMonster, one turn.                                                *)
CreateMonster ==
  /\ pc = "create" /\ i \notin Alive /\ score < MAXSCORE
  /\ \E k \in 0 .. size - 1, d \in Dirs :
       LET s == 2 + 2 * k
       IN  monsters' = [monsters EXCEPT ![i] =
                          Monster(IF s > MAXMON THEN MAXMON ELSE s, VWIDTH \div 2, VHEIGHT \div 2, d)]
  /\ NextTurn("hit")
  /\ UNCHANGED <<play, stage, todo>>

(* A turn of either loop that leaves the monster as it is.                 *)
SkipMonster ==
  /\ \/ pc = "draw" /\ i \notin Alive /\ NextTurn("stage")
     \/ pc = "create" /\ NextTurn("hit")
  /\ UNCHANGED <<play, monsters, stage, todo>>

-----------------------------------------------------------------------------
(* hitMonster: the first monster that touches the player decides.          *)
Touches(mon) == /\ x - mon.x \in -mon.size .. mon.size
                /\ y - mon.y \in -mon.size .. mon.size
Touching == {m \in Alive : Touches(monsters[m])}
First(S) == CHOOSE m \in S : \A n \in S : m <= n

HitEats ==
  /\ pc = "hit" /\ Touching # {}
  /\ monsters[First(Touching)].size <= size
  /\ monsters' = [monsters EXCEPT ![First(Touching)] = Gone]
  /\ size' = IF size < MAXSIZE THEN size + 1 ELSE size
  /\ score' = score + monsters[First(Touching)].size
  /\ UNCHANGED <<gameStatus, x, y, stage, pc, i, todo>>

HitKills ==
  /\ pc = "hit" /\ Touching # {}
  /\ monsters[First(Touching)].size > size
  /\ gameStatus' = "END" /\ pc' = "over"
  /\ UNCHANGED <<x, y, size, score, monsters, stage, i, todo>>

HitNothing ==
  /\ pc = "hit" /\ Touching = {}
  /\ EndFrame
  /\ UNCHANGED <<play, monsters, stage>>

(* GAME_END, in the same call.                                             *)
GameEnd ==
  /\ pc = "over" \/ Playing("END")
  /\ drawStage(<< >>, 0)
  /\ gameStatus' = "START"
  /\ EndFrame
  /\ UNCHANGED <<x, y, size, score, monsters, memoriza>>

Init ==
  /\ gameStatus = "START" /\ x = 0 /\ y = 0 /\ size = 0 /\ score = 0
  /\ monsters = [m \in Mon |-> Gone]
  /\ memoriza = << >> /\ hash = 0 /\ lhash = 0 /\ drawn = << >> /\ shown = << >>
  /\ pc = "poll" /\ i = 1
  /\ todo = 0

Step ==
  \/ WakeUp \/ GameStart \/ PlaceMonster \/ GameReady
  \/ MovePlayer \/ DrawMonster \/ DrawStage \/ CreateMonster \/ SkipMonster
  \/ HitEats \/ HitKills \/ HitNothing \/ GameEnd

Next == Poll \/ Sleep5 \/ Step

(* The kernel runs the program (ReadyEventuallyRuns of Kernel) and wakes   *)
(* it (SleeperEventuallyRuns): weak fairness of Step, which is enabled     *)
(* unless pc = "poll".  The clock ticks, so that polling it gets the loop  *)
(* going in the end.  Keys are pressed or not.                             *)
Fairness ==
  /\ []<>(pc = "poll") \/ []<><<Step>>_vars
  /\ WF_vars(Poll /\ todo' > 0)

Spec == Init /\ [][Next]_vars /\ Fairness

-----------------------------------------------------------------------------
(* Every variable has its type; the player stays on the field or one off   *)
(* its far edges, monsters stay on the screen, and the game is never ahead *)
(* of the clock by more than a tick (dreamOf100HZ, drawMonster, game).     *)
Statuses == {"START", "READY", "ING", "END"}
GameTypeOK ==
  /\ gameStatus \in Statuses /\ x \in 0 .. VWIDTH /\ y \in 0 .. VHEIGHT
  /\ size \in 0 .. MAXSIZE /\ score \in Nat
  /\ \A m \in Alive :
       /\ monsters[m].x \in 0 .. VWIDTH - 1 /\ monsters[m].y \in 0 .. VHEIGHT - 1
       /\ monsters[m].size \in 1 .. MAXMON /\ <<monsters[m].sx, monsters[m].sy>> \in (-1 .. 1) \X (-1 .. 1)
  /\ pc \in {"poll", "frame", "asleep", "play", "place", "draw", "stage", "create", "hit", "over"}
  /\ i \in Mon /\ todo \in -1 .. MAXLAG

(* Whatever circles were drawn before, isqrt gives the integer square root *)
(* of all that drawCirc may ask for, and no index is beyond the 600        *)
(* entries of memoriza.                                                    *)
MemoIsRoot ==
  /\ DOMAIN memoriza \subseteq 0 .. 599
  /\ \A v \in 0 .. MAXMON * MAXMON : IsRoot(isqrt(v), v)

(* drawStage compares hashes, not pictures, and skips the flush when they  *)
(* agree.  A circle that alone has moved is always shown: a picture that   *)
(* is withheld differs from the one on the screen in more than one figure, *)
(* or in a number or the size of a circle.  These two may hide a change: 2 *)
(* and 5 are made of as many squares in rows and columns of the same sum,  *)
(* so 20 and 50 have one hash; and so have a circle and one that is larger *)
(* by 1, 58 columns to the left and 117 rows below.  The first figure, the *)
(* player, is drawn again and not counted.                                 *)
SingleMoveIsShown ==
  pc \in {"create", "hit", "poll"} /\ drawn # shown /\ Len(drawn) = Len(shown) =>
    LET changed == {k \in 2 .. Len(drawn) : drawn[k] # shown[k]}
    IN  \/ Cardinality(changed) > 1
        \/ \E k \in changed : drawn[k].fig = "number" \/ drawn[k].s # shown[k].s

(* A game can be won from the start: when it waits for the player there is *)
(* a monster small enough to be eaten, after every death too (GAME_START). *)
ReadyHasPrey ==
  gameStatus = "READY" => \E m \in Alive : monsters[m].size <= size

(* All of this together: tables and fields are never left, and a game that *)
(* waits can be won, whatever was played before it (dreamOf100HZ).         *)
GameInv == GameTypeOK /\ MemoIsRoot /\ ReadyHasPrey

(* The game catches up: however far it was behind, whatever it sleeps and  *)
(* eats on the way, it comes back to read the clock (game, hitMonster).    *)
CatchesUp == pc # "poll" ~> pc = "poll"
=============================================================================
