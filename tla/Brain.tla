------------------------------- MODULE Brain -------------------------------
(***************************************************************************)
(* One player's game in a room: the GameState of libtetrisbrain, the       *)
(* actions game.c applies to it and the tick that moves it on.  The state  *)
(* is one record, and the C functions are operators on it; what draws      *)
(* random numbers gives a set of states.  Score, level and statistics are  *)
(* left out, so gravity may have any of the speeds in Gravity.  (A Faulty  *)
(* definition is a slip in what the definition right after it models.)     *)
(***************************************************************************)
EXTENDS Board, Sequences, FiniteSetsExt

CONSTANTS Kinds,            \* the pieces of a bag (1..7)
          Gravity,          \* thresholds of the gravity timer
          LockTicks,        \* LOCK_THRESHOLD_START
          MsgsPerTick,      \* MAX_MSGS_PER_TICK
          Attacks,          \* the sizes of attacks that arrive
          MaxPieces,        \* bound: pieces placed
          MaxAttacks        \* bound: attacks that arrive

ASSUME BrainAssumption ==
    /\ Kinds \subseteq 1..7 /\ Kinds # {} /\ Gravity \subseteq Nat \ {0} /\ Gravity # {}
    /\ LockTicks \in Nat \ {0} /\ MsgsPerTick \in Nat \ {0} /\ Attacks \subseteq Nat
    /\ MaxPieces \in Nat /\ MaxAttacks \in Nat

VARIABLES g,            \* the GameState
          drained,      \* messages applied in this tick
          attacked      \* attacks that arrived

brainVars == <<g, drained, attacked>>

N == Cardinality(Kinds)
Bags == {b \in [1..N -> Kinds] : \A i, j \in 1..N : b[i] = b[j] => i = j}

AtTop(type) == [type |-> type, rot |-> 0, x |-> BoardWidth \div 2 - 2, y |-> -2]
Fits(s, p) == is_valid_pos(s.board, p)
Down(p) == [p EXCEPT !.y = @ + 1]

-----------------------------------------------------------------------------
(* bag.c and hold.c                                                        *)

FaultyBagSpent(i) == i > N

BagSpent(i) == i >= N

(* The second half becomes the first, and a new half is shuffled.          *)
refill_bag(s) == {[s EXCEPT !.bag = SubSeq(@, N + 1, 2 * N) \o b, !.bag_index = 0] : b \in Bags}

spawn_new_piece(s) ==
    LET drawn == [s EXCEPT !.cur = AtTop(s.bag[s.bag_index + 1]), !.has_held = FALSE,
                           !.bag_index = @ + 1]
    IN  IF BagSpent(drawn.bag_index) THEN refill_bag(drawn) ELSE {drawn}

FaultyHoldPiece(s) ==                       \* the flag is set before the spawn
    IF s.has_held THEN {s}
    ELSE IF s.held = 0 THEN spawn_new_piece([s EXCEPT !.held = s.cur.type, !.has_held = TRUE])
    ELSE {[s EXCEPT !.cur = AtTop(s.held), !.held = s.cur.type, !.has_held = TRUE]}

hold_piece(s) ==
    IF s.has_held THEN {s}
    ELSE {[k EXCEPT !.has_held = TRUE] :
            k \in IF s.held = 0 THEN spawn_new_piece([s EXCEPT !.held = s.cur.type])
                  ELSE {[s EXCEPT !.cur = AtTop(s.held), !.held = s.cur.type]}}

-----------------------------------------------------------------------------
(* movement.c and the rotations of board_control.c                         *)

Shift(s, p) == IF Fits(s, p) THEN [s EXCEPT !.cur = p, !.last_rot = FALSE] ELSE s
move_left(s) == Shift(s, [s.cur EXCEPT !.x = @ - 1])
move_right(s) == Shift(s, [s.cur EXCEPT !.x = @ + 1])
soft_drop(s) == Shift(s, Down(s.cur))

(* As far down as every position on the way is free.                       *)
hard_drop(s) ==
    LET At(n) == [s.cur EXCEPT !.y = @ + n]
        n == CHOOSE k \in 0..(BoardHeight - s.cur.y) :
               (\A i \in 1..k : Fits(s, At(i))) /\ ~Fits(s, At(k + 1))
    IN  [s EXCEPT !.cur = At(n)]

(* A kick table row by the rotation it starts from, clockwise; the way     *)
(* back negates it.                                                        *)
KicksJLSTZ == <<<<<<0, 0>>, <<-1, 0>>, <<-1, -1>>, <<0, 2>>, <<-1, 2>>>>,
                <<<<0, 0>>, <<1, 0>>, <<1, 1>>, <<0, -2>>, <<1, -2>>>>,
                <<<<0, 0>>, <<1, 0>>, <<1, -1>>, <<0, 2>>, <<1, 2>>>>,
                <<<<0, 0>>, <<-1, 0>>, <<-1, 1>>, <<0, -2>>, <<-1, -2>>>>>>

KicksI == <<<<<<0, 0>>, <<-2, 0>>, <<1, 0>>, <<-2, 1>>, <<1, -2>>>>,
            <<<<0, 0>>, <<-1, 0>>, <<2, 0>>, <<-1, -2>>, <<2, 1>>>>,
            <<<<0, 0>>, <<2, 0>>, <<-1, 0>>, <<2, -1>>, <<-1, 2>>>>,
            <<<<0, 0>>, <<1, 0>>, <<-2, 0>>, <<1, 2>>, <<-2, -1>>>>>>

(* get_transition_index and the choice of the table.                       *)
Kick(type, rot, next, i) ==
    LET table == IF type = 1 THEN KicksI ELSE KicksJLSTZ
        cw == next = (rot + 1) % 4
        k == table[(IF cw THEN rot ELSE next) + 1][i]
    IN  IF type = 2 THEN <<0, 0>> ELSE IF cw THEN k ELSE <<-k[1], -k[2]>>

Kicked(p, next, i) ==
    LET k == Kick(p.type, p.rot, next, i)
    IN  [p EXCEPT !.x = @ + k[1], !.y = @ + k[2], !.rot = next]

FaultyKickFits(s, next, i) ==               \* checked in the old rotation
    Fits(s, [Kicked(s.cur, next, i) EXCEPT !.rot = s.cur.rot])

KickFits(s, next, i) == Fits(s, Kicked(s.cur, next, i))

(* The first of the five kicks that fits.                                  *)
test_rotate(s, next) ==
    LET ok == {i \in 1..5 : KickFits(s, next, i)}
    IN  IF ok = {} THEN s
        ELSE [s EXCEPT !.cur = Kicked(s.cur, next, Min(ok)), !.last_rot = TRUE]

rotate_current_piece(s) == test_rotate(s, (s.cur.rot + 1) % 4)
rotate_counter_clockwise(s) == test_rotate(s, (s.cur.rot + 3) % 4)

-----------------------------------------------------------------------------
(* engine.c and garbage.c                                                  *)

(* Three corners of a rotated T are blocked.                               *)
check_t_spin(s) ==
    /\ s.cur.type = 3 /\ s.last_rot
    /\ Cardinality({d \in {-1, 1} \X {-1, 1} :
                      LET c == <<s.cur.x + 1 + d[1], s.cur.y + 1 + d[2]>>
                      IN  c \notin Grid \/ c \in s.board}) >= 3

ComboTable == <<0, 1, 1, 2, 2, 3, 3, 4, 4, 4, 5>>
ComboBonus(n) == IF n <= 0 THEN 0 ELSE IF n < 12 THEN ComboTable[n] ELSE 5

(* The lines an attack is worth; a clear keeps or breaks the back-to-back. *)
calculate_garbage(s, lines, tspin) ==
    LET base == IF tspin THEN 2 * lines ELSE <<0, 1, 3, 4>>[lines]
        hard == tspin \/ lines = 4
    IN  base + (IF hard /\ s.b2b THEN 1 ELSE 0) + ComboBonus(s.combo + 1)

(* What an attack cancels of the garbage that waits.                       *)
Cancelled(s, damage) == Min({damage, s.pending})

(* The piece is locked, full rows go, the attack is settled with what      *)
(* waits, and the rest of it becomes the outgoing garbage.                 *)
Locked(s) ==
    LET cleared == clear_lines(lock_piece(s.board, s.cur))
        lines == cleared.lines
        tspin == check_t_spin(s)
        damage == IF lines = 0 THEN 0 ELSE calculate_garbage(s, lines, tspin)
        cancel == Cancelled(s, damage)
    IN  [s EXCEPT !.board = cleared.board, !.placed = @ + 1, !.lines = @ + lines,
                  !.combo = IF lines = 0 THEN -1 ELSE @ + 1,
                  !.b2b = IF lines = 0 THEN @ ELSE tspin \/ lines = 4,
                  !.pending = @ - cancel, !.outgoing = damage - cancel]

(* Garbage that waits rises unless the piece cleared a line.               *)
Settled(s, k) ==
    IF k.lines > s.lines \/ k.pending = 0 THEN {k}
    ELSE {[k EXCEPT !.board = b, !.pending = 0] : b \in add_garbage(k.board, k.pending)}

tick_game(s) ==
    IF Fits(s, Down(s.cur)) THEN {[s EXCEPT !.cur = Down(@)]}
    ELSE IF s.cur.y < 0 THEN {[s EXCEPT !.over = TRUE]}
    ELSE {[n EXCEPT !.over = ~Fits(n, n.cur)] :
            n \in UNION {spawn_new_piece(k) : k \in Settled(s, Locked(s))}}

FaultyLockDue(lock) == lock > LockTicks

LockDue(lock) == lock >= LockTicks

(* A piece that rests waits for the lock delay, any other for gravity.     *)
update_timers(s) ==
    IF ~Fits(s, Down(s.cur))
    THEN IF LockDue(s.lock + 1)
         THEN {[k EXCEPT !.lock = 0, !.grav = 0] : k \in tick_game(s)}
         ELSE {[s EXCEPT !.lock = s.lock + 1]}
    ELSE LET t == [s EXCEPT !.lock = 0, !.grav = @ + 1]
         IN  UNION {IF t.grav >= n THEN {[k EXCEPT !.grav = 0] : k \in tick_game(t)} ELSE {t} :
                      n \in Gravity}

FaultyQueueGarbage(s, lines) == [s EXCEPT !.pending = @ + lines]        \* no cap

queue_garbage(s, lines) == [s EXCEPT !.pending = Min({@ + lines, BoardHeight})]

-----------------------------------------------------------------------------
(* start_game: every pair of bags.                                         *)
BrainInit ==
    /\ drained = 0 /\ attacked = 0
    /\ \E b \in Bags, c \in Bags :
         g \in spawn_new_piece([board |-> {}, cur |-> AtTop(1), held |-> 0, has_held |-> FALSE,
                                bag |-> b \o c, bag_index |-> 0, pending |-> 0, outgoing |-> 0,
                                combo |-> -1, b2b |-> FALSE, last_rot |-> FALSE,
                                lock |-> 0, grav |-> 0, over |-> FALSE, placed |-> 0, lines |-> 0])

(* apply_action: a message of this player, one of the MsgsPerTick that a   *)
(* tick takes from all players.                                            *)
Act(results) ==
    /\ ~g.over /\ g.placed < MaxPieces /\ drained < MsgsPerTick
    /\ drained' = drained + 1
    /\ g' \in results
    /\ UNCHANGED attacked

Unlocked(s) == [s EXCEPT !.lock = 0]
Moved(s) == {IF s = g THEN s ELSE Unlocked(s)}

MoveLeft == Act(Moved(move_left(g)))
MoveRight == Act(Moved(move_right(g)))
SoftDrop == Act(Moved(soft_drop(g)))
RotateCW == Act({Unlocked(rotate_current_piece(g))})
RotateCCW == Act({Unlocked(rotate_counter_clockwise(g))})
HardDrop == Act({[k EXCEPT !.lock = 0, !.grav = 0] : k \in tick_game(hard_drop(g))})
Hold == Act({[k EXCEPT !.grav = IF g.has_held THEN @ ELSE 0] : k \in hold_piece(g)})
Quit == Act({[g EXCEPT !.over = TRUE]})
Other == Act({g})                           \* target changes, unknown actions

(* Garbage for this board: from the room's routing, before the next tick's *)
(* first message, or from the hub, after its last.                         *)
Attacked ==
    /\ ~g.over /\ g.placed < MaxPieces /\ attacked < MaxAttacks
    /\ \E n \in Attacks : g' = queue_garbage(g, n)
    /\ attacked' = attacked + 1
    /\ drained' = IF drained = 0 THEN 0 ELSE MsgsPerTick

(* tick_session, after which the room routes the outgoing garbage.         *)
TickSession ==
    /\ g.placed < MaxPieces
    /\ \E k \in IF g.over THEN {g} ELSE update_timers(g) : g' = [k EXCEPT !.outgoing = 0]
    /\ drained' = 0 /\ UNCHANGED attacked

BrainNext == MoveLeft \/ MoveRight \/ SoftDrop \/ RotateCW \/ RotateCCW \/ HardDrop \/ Hold
        \/ Quit \/ Other \/ Attacked \/ TickSession

BrainSpec == BrainInit /\ [][BrainNext]_brainVars

-----------------------------------------------------------------------------
Piece == [type : Kinds, rot : 0..3, x : Int, y : Int]

(* The game's fields stay in their ranges: the pending meter never exceeds *)
(* the board (garbage.c:57) and no timer outlives its threshold.           *)
BrainTypeOK ==
    /\ g.board \subseteq Grid /\ g.cur \in Piece /\ g.held \in Kinds \cup {0}
    /\ g.pending \in 0..BoardHeight /\ g.outgoing \in Nat /\ g.combo \in -1..MaxPieces
    /\ g.lock \in 0..(LockTicks - 1) /\ g.grav \in 0..(Max(Gravity) - 1)
    /\ drained \in 0..MsgsPerTick /\ attacked \in 0..MaxAttacks

(* Moves, kicks, gravity, garbage and new pieces never leave the piece of  *)
(* a running game inside the stack or outside the board; only a hold, that *)
(* hold.c does not check, can.                                             *)
PieceFits == ~g.over /\ ~g.has_held => Fits(g, g.cur)

(* clear_lines, which shifts the board row by row as it goes up, gives the *)
(* rows that are not full in their order, whatever rows are full at once.  *)
ClearCompacts ==
    LET b == lock_piece(g.board, g.cur) IN ~g.over => clear_lines(b) = Compact(b)

(* A piece that locks adds its four cells, however it was turned, and each *)
(* line takes one full row away: lock_piece cuts nothing off.              *)
CellsConserved ==
    [][g'.placed > g.placed /\ g.pending = 0 =>
         Cardinality(g'.board) = Cardinality(g.board) + 4 - BoardWidth * (g'.lines - g.lines)]_brainVars

(* Seven-bag: the pieces to come are two shuffled bags, and the draw stays *)
(* in the first.                                                           *)
BagFair ==
    g.bag_index \in 0..(N - 1) /\ SubSeq(g.bag, 1, N) \in Bags /\ SubSeq(g.bag, N + 1, 2 * N) \in Bags

(* "One swap per piece" (game.c:106): a hold uses up the right to hold,    *)
(* also when it drew a new piece, and only a lock gives it back.           *)
HoldOnce ==
    [][/\ g'.held # g.held => ~g.has_held /\ g'.has_held
       /\ g.has_held /\ g'.placed = g.placed => g'.has_held]_brainVars
=============================================================================
