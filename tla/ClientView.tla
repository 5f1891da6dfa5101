----------------------------- MODULE ClientView -----------------------------
(***************************************************************************)
(* What players see of a match: the slots of a room's GameSession (game.c),*)
(* the tick loop of room.c that pushes snapshots of them, and the loop of  *)
(* tetrisu, which sends keys and shows the last snapshot it took.          *)
(*                                                                         *)
(* A board is the number of changes it has seen, and garbage is one more   *)
(* change.  A connection and the message queue behind it are one FIFO      *)
(* sequence of batches, a batch being the snapshots that one tick pushes,  *)
(* one for each slot that is due; a client is never more than MaxLag       *)
(* batches behind, far below the 500 messages its queue holds.  What is    *)
(* sent before START is lost: a client in its lobby drops it.  Clients     *)
(* meet only in the room, so the loops of some of them are enough; the     *)
(* other slots change on their own.                                        *)
(* (A Faulty definition is a slip in what the one right after it models.)  *)
(***************************************************************************)
EXTENDS Integers, Sequences

CONSTANTS Players,          \* the ids in the room
          Clients,          \* those whose client is modelled
          Winners,          \* the ids a match may end with
          KeepaliveTicks,   \* KEEPALIVE_TICKS
          MaxChanges,       \* bound: changes of one board
          MaxKeys,          \* bound: keys one player presses
          MaxLag            \* bound: batches a client may be behind

ASSUME ViewAssumption ==
    /\ Players \subseteq Nat \ {0} /\ Clients \subseteq Players /\ Winners \subseteq Nat
    /\ KeepaliveTicks \in Nat /\ MaxChanges \in Nat /\ MaxKeys \in Nat /\ MaxLag \in Nat

VARIABLES slot,         \* [Players -> PlayerSlot]
          stage,        \* where the tick loop is
          winner_id,    \* the winner the room was told, 0 before
          fell,         \* players who topped out
          keys,         \* [Clients -> Seq], actions on their way to the room
          started,      \* players to whom the server thread sent START
          told,         \* those of them when the final snapshots were sent
          wire,         \* [Clients -> Seq(Batch)], on their way to a client
          pc,           \* [Clients -> STRING], where a client is
          view,         \* [Clients -> Snapshot], the client's render mirror
          pressed,      \* [Clients -> Nat], keys pressed
          quit          \* players who pressed Q

roomVars == <<slot, stage, winner_id, fell, told>>
clientVars == <<pc, view, pressed, quit>>
vars == <<slot, stage, winner_id, fell, keys, started, told, wire, pc, view, pressed, quit>>

PlayerSlot == [board : 1..(MaxChanges + 1), over : BOOLEAN, winner : Winners \cup {0},
               active : BOOLEAN, dirty : BOOLEAN, idle : 0..KeepaliveTicks]

Snapshot == [who : Players, board : 0..(MaxChanges + 1), over : BOOLEAN, winner : Winners \cup {0}]

(* What one tick pushes: the snapshots of some slots.                      *)
Batch == UNION {[ps -> Snapshot] : ps \in SUBSET Players}

-----------------------------------------------------------------------------
(* The room                                                                *)

Running(p) == slot[p].active /\ ~slot[p].over
Changeable(p) == Running(p) /\ slot[p].board <= MaxChanges

Change(s) == [s EXCEPT !.board = @ + 1, !.dirty = TRUE]
Die(s) == [s EXCEPT !.over = TRUE, !.dirty = TRUE]

FaultyLeave(s) == [s EXCEPT !.active = FALSE, !.dirty = TRUE]   \* game_over not set

(* PLAYER_ACTION_QUIT: the game is over and the slot is given up.          *)
Leave(s) == [Die(s) EXCEPT !.active = FALSE]

build_state_payload(p, s) == [who |-> p, board |-> s.board, over |-> s.over, winner |-> s.winner]

FaultyPushed(ps, slots) ==              \* the keepalive sends nothing
    LET due == {p \in ps : slots[p].dirty}
        news == [p \in due |-> build_state_payload(p, slots[p])]
    IN  [c \in Clients |->
           IF due # {} /\ c \in started /\ pc[c] # "done" THEN Append(wire[c], news) ELSE wire[c]]

(* brserver_send_to_all, for the snapshots of slots ps.                    *)
Pushed(ps, slots) ==
    LET news == [p \in ps |-> build_state_payload(p, slots[p])]
    IN  [c \in Clients |->
           IF ps # {} /\ c \in started /\ pc[c] # "done" THEN Append(wire[c], news) ELSE wire[c]]

Room == \A c \in Clients : Len(wire[c]) < MaxLag

(* A key of player p arrives.  apply_action ignores players who are out;   *)
(* any other action marks the slot, a hard drop may end the game.          *)
TakeInput(p) ==
    /\ stage = "input" /\ keys[p] # <<>>
    /\ keys' = [keys EXCEPT ![p] = Tail(@)]
    /\ \/ /\ ~Running(p)
          /\ UNCHANGED <<slot, fell>>
       \/ /\ Running(p) /\ Head(keys[p]) = "quit"
          /\ slot' = [slot EXCEPT ![p] = Leave(@)]
          /\ UNCHANGED fell
       \/ /\ Changeable(p) /\ Head(keys[p]) = "act"
          /\ slot' = [slot EXCEPT ![p] = Change(@)]
          /\ UNCHANGED fell
       \/ /\ Running(p) /\ Head(keys[p]) = "act"
          /\ slot' = [slot EXCEPT ![p] = Die(@)]
          /\ fell' = fell \cup {p}
       \/ /\ Running(p) /\ Head(keys[p]) = "act"          \* a move that fails
          /\ slot' = [slot EXCEPT ![p].dirty = TRUE]
          /\ UNCHANGED fell
    /\ UNCHANGED <<stage, winner_id, started, told, wire, clientVars>>

(* Nothing more has arrived: on to the hub.                                *)
EndInputs ==
    /\ stage = "input" /\ stage' = "hub"
    /\ UNCHANGED <<slot, winner_id, fell, keys, started, told, wire, clientVars>>

FaultyDue(s) == s.dirty                     \* no keepalive

Due(s) == s.dirty \/ s.idle >= KeepaliveTicks

PushTo(slots) == {p \in Players : Due(slots[p])}

(* tick_session and the garbage of the tick change some boards and end     *)
(* some games; then every slot that changed, or was silent for long, is    *)
(* pushed to all.                                                          *)
Tick ==
    /\ stage = "hub" /\ Room
    /\ \E changed \in SUBSET {p \in Players : Changeable(p)} :
       \E dead \in SUBSET {p \in Players : Running(p)} :
         LET ticked == [p \in Players |->
                          IF p \in dead THEN Die(slot[p])
                          ELSE IF p \in changed THEN Change(slot[p]) ELSE slot[p]]
             due == PushTo(ticked)
         IN  /\ slot' = [p \in Players |->
                           IF p \in due THEN [ticked[p] EXCEPT !.dirty = FALSE, !.idle = 0]
                           ELSE [ticked[p] EXCEPT !.idle = @ + 1]]
             /\ wire' = Pushed(due, ticked)
             /\ fell' = fell \cup dead
    /\ stage' = "input"
    /\ UNCHANGED <<winner_id, keys, started, told, clientVars>>

FaultyFinalists == {p \in Players : Running(p)}      \* those who are out know

Finalists == {p \in Players : slot[p].active}

FaultyFinish(s, w) == [s EXCEPT !.over = TRUE]          \* no winner

Finish(s, w) == [s EXCEPT !.over = TRUE, !.winner = w]

(* HUB_GAMEOVER: a last snapshot of everyone who has not left.             *)
GameOver ==
    /\ stage = "hub" /\ Room
    /\ winner_id' \in Winners
    /\ slot' = [p \in Players |->
                  IF p \in Finalists THEN Finish(slot[p], winner_id') ELSE slot[p]]
    /\ wire' = Pushed(Finalists, slot')
    /\ told' = started
    /\ stage' = "over"
    /\ UNCHANGED <<fell, keys, started, clientVars>>

(* The server thread's START reaches the client, which enters its game.    *)
Start(c) ==
    /\ c \notin started
    /\ started' = started \cup {c}
    /\ pc' = [pc EXCEPT ![c] = "keys"]
    /\ UNCHANGED <<roomVars, keys, wire, view, pressed, quit>>

-----------------------------------------------------------------------------
(* The client                                                              *)

Press(c, action) ==
    /\ pc[c] = "keys" /\ pressed[c] < MaxKeys
    /\ pressed' = [pressed EXCEPT ![c] = @ + 1]
    /\ keys' = [keys EXCEPT ![c] = Append(@, action)]
    /\ UNCHANGED <<roomVars, started, wire>>

(* process_inputs: any key but Q is an action for the server.              *)
Key(c) == Press(c, "act") /\ UNCHANGED <<pc, view, quit>>

(* Q also ends the local game, and process_inputs with it.                 *)
PressQ(c) ==
    /\ Press(c, "quit")
    /\ view' = [view EXCEPT ![c].over = TRUE]
    /\ quit' = quit \cup {c}
    /\ pc' = [pc EXCEPT ![c] = "drain"]

(* No key is waiting: on to the messages.                                  *)
EndKeys(c) ==
    /\ pc[c] = "keys" /\ pc' = [pc EXCEPT ![c] = "drain"]
    /\ UNCHANGED <<roomVars, keys, started, wire, view, pressed, quit>>

FaultyMine(c, m) == TRUE

Mine(c, m) == m.who = c

(* The snapshots of a batch that the client does not drop.                 *)
Heeded(c, b) == {p \in DOMAIN b : Mine(c, b[p])}

(* A snapshot replaces the mirror, game_over included: of a batch, taken   *)
(* in the order of the slots, the last one stays.                          *)
apply_state_payload(c, b) == b[CHOOSE p \in Heeded(c, b) : \A o \in Heeded(c, b) : o <= p]

(* And of the batches that waited, the last one with a snapshot for c.     *)
Mirror(c, q) ==
    LET hits == {i \in DOMAIN q : Heeded(c, q[i]) # {}}
    IN  IF hits = {} THEN view[c]
        ELSE apply_state_payload(c, q[CHOOSE i \in hits : \A j \in hits : j <= i])

(* All messages that came are taken; then the frame is drawn.  The loop is *)
(* left, with its winner on the screen, once game_over is set.             *)
Frame(c) ==
    /\ pc[c] = "drain"
    /\ view' = [view EXCEPT ![c] = Mirror(c, wire[c])]
    /\ wire' = [wire EXCEPT ![c] = <<>>]
    /\ pc' = [pc EXCEPT ![c] = IF view'[c].over THEN "done" ELSE "keys"]
    /\ UNCHANGED <<roomVars, keys, started, pressed, quit>>

(* What the client prints after the loop.                                  *)
Banner(c) == CASE view[c].winner = 0 -> "no winner"
               [] view[c].winner = c -> "you won"
               [] OTHER              -> "other"

-----------------------------------------------------------------------------
(* init_session: every slot is dirty, so that a first board is pushed.     *)
Init ==
    /\ slot = [p \in Players |-> [board |-> 1, over |-> FALSE, winner |-> 0,
                                  active |-> TRUE, dirty |-> TRUE, idle |-> 0]]
    /\ stage = "input" /\ winner_id = 0 /\ fell = {} /\ started = {} /\ told = {} /\ quit = {}
    /\ keys = [c \in Clients |-> <<>>] /\ wire = [c \in Clients |-> <<>>]
    /\ pc = [c \in Clients |-> "lobby"] /\ pressed = [c \in Clients |-> 0]
    /\ view = [c \in Clients |-> [who |-> c, board |-> 0, over |-> FALSE, winner |-> 0]]

Client(c) == EndKeys(c) \/ Frame(c)

Next == \/ EndInputs \/ Tick \/ GameOver
        \/ \E c \in Clients : TakeInput(c) \/ Start(c) \/ Key(c) \/ PressQ(c) \/ Client(c)

Spec == Init /\ [][Next]_vars

(* The room's tick loop and every client's frame loop run on, the server   *)
(* thread sends START, and a key that is on its way is taken by some drain.*)
Fairness ==
    /\ WF_vars(EndInputs \/ Tick)
    /\ \A c \in Clients : WF_vars(Start(c)) /\ WF_vars(Client(c)) /\ SF_vars(TakeInput(c))

LiveSpec == Spec /\ Fairness

-----------------------------------------------------------------------------
(* Slots, mirrors and queues keep their shape; no client is further behind *)
(* than MaxLag.                                                            *)
ViewTypeOK ==
    /\ slot \in [Players -> PlayerSlot] /\ view \in [Clients -> Snapshot]
    /\ stage \in {"input", "hub", "over"} /\ winner_id \in Winners \cup {0} /\ fell \subseteq Players
    /\ told \subseteq started /\ started \subseteq Clients /\ quit \subseteq Clients
    /\ wire \in [Clients -> Seq(Batch)] /\ \A c \in Clients : Len(wire[c]) <= MaxLag
    /\ keys \in [Clients -> Seq({"act", "quit"})] /\ pressed \in [Clients -> 0..MaxKeys]
    /\ pc \in [Clients -> {"lobby", "keys", "drain", "done"}]

(* "The client only ever renders a copy" (game.h:25): every snapshot goes  *)
(* to every client, but a mirror shows the player's own board, never goes  *)
(* back to an earlier one and never runs ahead of the room.                *)
MirrorForward ==
    [][\A c \in Clients : /\ view'[c].who = c /\ view'[c].board <= slot'[c].board
                          /\ view[c].board <= view'[c].board]_vars

(* A survivor is shown the winner the room was told, and "You won" only if *)
(* that is the player: nobody who still plays leaves the loop before the   *)
(* final snapshot (tetrisu/main.c:197).                                    *)
SurvivorSeesWinner ==
    \A c \in Clients : pc[c] = "done" /\ c \notin fell \cup quit =>
        /\ stage = "over"
        /\ Banner(c) = IF winner_id = 0 THEN "no winner"
                       ELSE IF winner_id = c THEN "you won" ELSE "other"

(* The keepalive repairs what was missed (room.c:354): every board comes   *)
(* to be shown to a player in the game, even if it was pushed before START *)
(* and never changes again.                                                *)
BoardShown ==
    \A c \in Clients : \A b \in 1..(MaxChanges + 1) :
        slot[c].board >= b /\ c \in started /\ stage # "over" ~>
            view[c].board >= b \/ pc[c] = "done" \/ c \in quit

(* "Push one final state each so clients exit cleanly" (room.c:388): a     *)
(* player whose game is over leaves the loop, unless the room ended before *)
(* START was sent.                                                         *)
OverLeaves ==
    \A c \in Clients : slot[c].over /\ c \in (IF stage = "over" THEN told ELSE started) ~>
                           pc[c] = "done" \/ c \in quit

(* "Tell the server we are leaving" (input_handler.c:86): Q ends the loop, *)
(* although a snapshot that was already on its way takes back the local    *)
(* game_over, as long as the match goes on.                                *)
QuitLeaves == \A c \in Clients : c \in quit ~> pc[c] = "done" \/ stage = "over"
=============================================================================
