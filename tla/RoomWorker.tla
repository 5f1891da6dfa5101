----------------------------- MODULE RoomWorker -----------------------------
(***************************************************************************)
(* One room worker process of tetrisd (tetrisd/room.c): it binds its port, *)
(* reports arrivals while its lobby is open, waits for the start order,    *)
(* plays, reports eliminations, routes garbage, and winds down.            *)
(*                                                                         *)
(* The boards are abstracted to what crosses the room boundary: which      *)
(* players are out, which have left, and which have garbage to send.       *)
(*                                                                         *)
(* A Faulty definition is a slip in the piece of code that the definition  *)
(* right after it models, one that some property of Tetrisd must notice.   *)
(***************************************************************************)
EXTENDS Hub

CONSTANTS MaxAttacks,   \* bound: line clears that send garbage
          MaxCrashes    \* bound: worker processes that die on their own

ASSUME WorkerAssumption == MaxAttacks \in Nat /\ MaxCrashes \in Nat

VARIABLES wk,           \* [Slots -> Worker], the process behind each slot
          dealt,        \* [Slots -> Nat], clients holding this slot's port
                        \* number that have not connected to it yet
          announced,    \* winner ids rooms put in their final state pushes
          shown,        \* [Slots -> [1..MaxAttacks -> Nat]], kill feed pushes
          victimOf,     \* [1..MaxAttacks -> Nat], whom each attack was sent to
          attacks,      \* line clears so far
          crashes       \* crashes so far

workerVars == <<wk, dealt, announced, shown, victimOf, attacks, crashes>>

(***************************************************************************)
(* A worker: members is the BRServer's client list in arrival order, and   *)
(* reported the prefix of it announced to the master (lobby_size, and the  *)
(* session once the match runs).  out, gone and told are the players with  *)
(* game_over, without active, and with elim_reported; garbage holds the    *)
(* outgoing_garbage of those who have any.  over is match_over.            *)
(***************************************************************************)
Worker == [pc : {"none", "boot", "lobby", "play", "over", "exited"},
           nextId : Nat, members : Seq(Nat), reported : Nat,
           ordered : BOOLEAN, expected : Nat, global : SUBSET Nat,
           out : SUBSET Nat, gone : SUBSET Nat, told : SUBSET Nat,
           garbage : SUBSET [who : Nat, lines : Nat], over : BOOLEAN, winner : Nat]

Process(pc, idBase) ==
    [pc |-> pc, nextId |-> idBase, members |-> <<>>, reported |-> 0,
     ordered |-> FALSE, expected |-> 0, global |-> {}, out |-> {}, gone |-> {},
     told |-> {}, garbage |-> {}, over |-> FALSE, winner |-> 0]

Live(s) == wk[s].pc \notin {"none", "exited"}
Session(s) == {wk[s].members[i] : i \in 1..wk[s].reported}
Inbox(s) == toWorker[s]

(* find_player: members of the session that are still active.              *)
find_player(s) == Session(s) \ wk[s].gone

-----------------------------------------------------------------------------
(* Sending to the master: open is the set of slots whose master end is     *)
(* still open.                                                             *)
Tell(s, open, m) == toMaster' = hub_send(toMaster, {s} \cap open, m)

Took(s) == toWorker' = [toWorker EXCEPT ![s] = Tail(@)]

(* exit() or death of process s: its hub end closes.                       *)
Exit(s) ==
    /\ wk' = [wk EXCEPT ![s] = Process("exited", 0)]
    /\ toWorker' = [toWorker EXCEPT ![s] = <<>>]
    /\ reset' = [reset EXCEPT ![s] = toWorker[s] # <<>>]
    /\ UNCHANGED toMaster

(* Bind the room's ports, open the lobby, and only then report READY.      *)
Boot(s, open) ==
    /\ wk[s].pc = "boot"
    /\ wk' = [wk EXCEPT ![s].pc = "lobby"]
    /\ Tell(s, open, Msg("READY", 0))
    /\ UNCHANGED <<toWorker, reset, dealt, announced, shown, victimOf, attacks, crashes>>

(* A client that was dealt this slot's port connects and completes the     *)
(* handshake: the server thread gives it the next id and lists it.  The    *)
(* room's port itself takes any connection; that only clients the master   *)
(* sent there dial it is what tetrisu does, and is assumed.                *)
Arrive(s) ==
    /\ wk[s].pc = "lobby" /\ dealt[s] > 0
    /\ dealt' = [dealt EXCEPT ![s] = @ - 1]
    /\ wk' = [wk EXCEPT ![s].nextId = @ + 1,
                        ![s].members = Append(@, wk[s].nextId)]
    /\ UNCHANGED <<toMaster, toWorker, reset, announced, shown, victimOf, attacks, crashes>>

(* The handshake fails: the id is spent, nobody is listed.                 *)
ArriveFails(s) ==
    /\ wk[s].pc = "lobby" /\ dealt[s] > 0
    /\ dealt' = [dealt EXCEPT ![s] = @ - 1]
    /\ wk' = [wk EXCEPT ![s].nextId = @ + 1]
    /\ UNCHANGED <<toMaster, toWorker, reset, announced, shown, victimOf, attacks, crashes>>

(* The lobby loop reports one more arrival.  client_ids[] has MaxLobby      *)
(* entries: nothing is claimed of a room with more members than that.      *)
ReportJoin(s, open) ==
    /\ wk[s].pc = "lobby" /\ wk[s].reported < Len(wk[s].members)
    /\ Len(wk[s].members) <= MaxLobby
    /\ wk' = [wk EXCEPT ![s].reported = @ + 1]
    /\ Tell(s, open, Msg("JOINED", wk[s].members[wk[s].reported + 1]))
    /\ UNCHANGED <<toWorker, reset, dealt, announced, shown, victimOf, attacks, crashes>>

(* The lobby loop takes one hub message: only START and ROSTER count.      *)
FaultyLobbyTake(s, m) ==        \* expected_players taken for the lobby size
    wk' = IF m.type = "START" THEN [wk EXCEPT ![s].ordered = TRUE, ![s].reported = m.id] ELSE wk

LobbyTake(s, m) ==
    wk' = CASE m.type = "START"  -> [wk EXCEPT ![s].ordered = TRUE, ![s].expected = m.id]
            [] m.type = "ROSTER" -> [wk EXCEPT ![s].global = m.alive]
            [] OTHER             -> wk

LobbyRecv(s) ==
    /\ wk[s].pc = "lobby" /\ Inbox(s) # <<>>
    /\ LobbyTake(s, Head(Inbox(s)))
    /\ Took(s)
    /\ UNCHANGED <<toMaster, reset, dealt, announced, shown, victimOf, attacks, crashes>>

FaultyStartDue(s, graceOver) == wk[s].reported >= wk[s].expected      \* no grace window

StartDue(s, graceOver) == wk[s].reported >= wk[s].expected \/ graceOver

(* The start was ordered: the room starts when all expected players are   *)
(* in, or when the grace window is over (graceOver).  The loop has drained *)
(* the hub by then, but the master sends on meanwhile: a ROSTER right      *)
(* behind the START may come too late for the lobby.                       *)
LobbyStart(s, graceOver) ==
    /\ wk[s].pc = "lobby" /\ wk[s].ordered
    /\ StartDue(s, graceOver)
    /\ IF wk[s].reported = 0
       THEN Exit(s)
       ELSE /\ wk' = [wk EXCEPT ![s].pc = "play"]
            /\ UNCHANGED hubVars
    /\ UNCHANGED <<dealt, announced, shown, victimOf, attacks, crashes>>

FaultyHungUp(s, open) ==        \* the lobby loop does not look at got < 0
    wk[s].pc = "play" /\ s \notin open /\ hub_recv_closed(toWorker, s)

HungUp(s, open) ==
    wk[s].pc \in {"lobby", "play"} /\ s \notin open /\ hub_recv_closed(toWorker, s)

(* The final state pushes, one for each player who has not left.           *)
FinalPush(s) == announced' = announced \cup {wk[s].winner : p \in find_player(s)}

(* hub_recv says the master is gone: a lobby exits, a match is over.       *)
MasterGone(s, open) ==
    /\ HungUp(s, open)
    /\ IF wk[s].pc = "lobby"
       THEN Exit(s) /\ UNCHANGED announced
       ELSE /\ wk' = [wk EXCEPT ![s].pc = "over", ![s].over = TRUE]
            /\ FinalPush(s)
            /\ UNCHANGED hubVars
    /\ UNCHANGED <<dealt, shown, victimOf, attacks, crashes>>

-----------------------------------------------------------------------------
(* The match.  Player events come from client messages and from            *)
(* tick_session; they stay inside the room until they are reported.        *)

Playing(s, p) == /\ wk[s].pc = "play" /\ ~wk[s].over
                 /\ p \in Session(s) \ wk[s].out

(* ACTION_QUIT: game_over, and the slot becomes inactive.                  *)
Quit(s, p) ==
    /\ Playing(s, p)
    /\ wk' = [wk EXCEPT ![s].out = @ \cup {p}, ![s].gone = @ \cup {p}]
    /\ UNCHANGED <<hubVars, dealt, announced, shown, victimOf, attacks, crashes>>

(* tick_game locks a piece out or blocks the next one out.                 *)
TopOut(s, p) ==
    /\ Playing(s, p)
    /\ wk' = [wk EXCEPT ![s].out = @ \cup {p}]
    /\ UNCHANGED <<hubVars, dealt, announced, shown, victimOf, attacks, crashes>>

(* tick_game leaves outgoing_garbage, in place of what was not yet routed, *)
(* and may end the game just after.                                        *)
ClearLines(s, p, toppedOut) ==
    /\ Playing(s, p) /\ attacks < MaxAttacks
    /\ attacks' = attacks + 1
    /\ wk' = [wk EXCEPT ![s].garbage = {g \in @ : g.who # p} \cup
                                         {[who |-> p, lines |-> attacks + 1]},
                        ![s].out = IF toppedOut THEN @ \cup {p} ELSE @]
    /\ UNCHANGED <<hubVars, dealt, announced, shown, victimOf, crashes>>

(* broadcast_feed: one push of attack n to this room's kill feeds.         *)
broadcast_feed(s, n) == shown' = [shown EXCEPT ![s][n] = @ + 1]

FaultyPlayTake(s, m) ==         \* match_over is not set
    wk' = CASE m.type = "ROSTER"   -> [wk EXCEPT ![s].global = m.alive]
            [] m.type = "GAMEOVER" -> [wk EXCEPT ![s].winner = m.id]
            [] OTHER               -> wk

PlayTake(s, m) ==
    wk' = CASE m.type = "ROSTER"   -> [wk EXCEPT ![s].global = m.alive]
            [] m.type = "GAMEOVER" -> [wk EXCEPT ![s].over = TRUE, ![s].winner = m.id]
            [] OTHER               -> wk

(* The tick loop takes one hub message.  Garbage for a player who is out   *)
(* or gone is ignored, feed push included.                                 *)
PlayRecv(s) ==
    /\ wk[s].pc = "play" /\ Inbox(s) # <<>>
    /\ LET m == Head(Inbox(s)) IN
       /\ PlayTake(s, m)
       /\ IF \/ m.type = "FEED"
             \/ m.type = "GARBAGE" /\ m.id \in find_player(s) \ wk[s].out
          THEN broadcast_feed(s, m.lines) ELSE UNCHANGED shown
    /\ Took(s)
    /\ UNCHANGED <<toMaster, reset, dealt, announced, victimOf, attacks, crashes>>

FaultyNewlyOut(s) == wk[s].out                                  \* elim_reported is not read
FaultyNewlyOutActive(s) == wk[s].out \ (wk[s].told \cup wk[s].gone)    \* !active is not read

NewlyOut(s) == wk[s].out \ wk[s].told

(* Past the hub drain without match_over: report one elimination.          *)
ReportElim(s, open) ==
    /\ wk[s].pc = "play" /\ ~wk[s].over
    /\ \E p \in NewlyOut(s) :
         /\ wk' = [wk EXCEPT ![s].told = @ \cup {p}]
         /\ Tell(s, open, Msg("ELIMINATED", p))
    /\ UNCHANGED <<toWorker, reset, dealt, announced, shown, victimOf, attacks, crashes>>

(***************************************************************************)
(* resolve_victim: RANDOM draws from the global roster, KO takes one of    *)
(* its members, and manual targets and every fallback pick another player  *)
(* of the room, or 0 where there is none.                                  *)
(***************************************************************************)
resolve_victim(s, p) ==
    (wk[s].global \ {p}) \cup
    (IF Session(s) = {p} THEN {0} ELSE Session(s) \ {p})

(***************************************************************************)
(* All eliminations are reported: route one player's garbage.  A victim in *)
(* this room is hit here; any other id goes to the master as an attack;    *)
(* both are followed by a FEED.  A local victim who is out costs the       *)
(* attack.                                                                 *)
(***************************************************************************)
Route(s, open) ==
    /\ wk[s].pc = "play" /\ ~wk[s].over /\ wk[s].out \subseteq wk[s].told
    /\ \E g \in wk[s].garbage : \E v \in resolve_victim(s, g.who) :
         LET a == [attacker |-> g.who, victim |-> v, lines |-> g.lines]
             feed == AttackMsg("FEED", a)
         IN  /\ wk' = [wk EXCEPT ![s].garbage = @ \ {g}]
             /\ victimOf' = [victimOf EXCEPT ![g.lines] = v]
             /\ \/ /\ v \in find_player(s) \ wk[s].out
                   /\ broadcast_feed(s, a.lines)
                   /\ Tell(s, open, feed)
                \/ /\ v \notin find_player(s) /\ v # 0
                   /\ broadcast_feed(s, a.lines)
                   /\ toMaster' = hub_send(hub_send(toMaster, {s} \cap open, AttackMsg("ATTACK", a)),
                                           {s} \cap open, feed)
                \/ /\ v \in (find_player(s) \cap wk[s].out) \cup {0}
                   /\ UNCHANGED <<shown, toMaster>>
    /\ UNCHANGED <<toWorker, reset, dealt, announced, attacks, crashes>>

(* GAMEOVER was taken: leave the tick loop and push the final states.      *)
RoomOver(s) ==
    /\ wk[s].pc = "play" /\ wk[s].over
    /\ wk' = [wk EXCEPT ![s].pc = "over"]
    /\ FinalPush(s)
    /\ UNCHANGED <<hubVars, dealt, shown, victimOf, attacks, crashes>>

(* brserver_end and exit(0).                                               *)
RoomExit(s) ==
    /\ wk[s].pc = "over"
    /\ Exit(s)
    /\ UNCHANGED <<dealt, announced, shown, victimOf, attacks, crashes>>

(* The process dies, or gives up because its ports cannot be bound or its  *)
(* game cannot be started.                                                 *)
Crash(s) ==
    /\ Live(s) /\ crashes < MaxCrashes
    /\ crashes' = crashes + 1
    /\ Exit(s)
    /\ UNCHANGED <<dealt, announced, shown, victimOf, attacks>>
=============================================================================
