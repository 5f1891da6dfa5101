------------------------------ MODULE Tetrisd ------------------------------
(***************************************************************************)
(* The tetrisd daemon: the master, its room workers and their hubs.        *)
(***************************************************************************)
EXTENDS Master

Init ==
    /\ toMaster = [s \in Slots |-> <<>>] /\ toWorker = [s \in Slots |-> <<>>]
    /\ reset = [s \in Slots |-> FALSE]
    /\ wk = [s \in Slots |-> Process("none", 0)]
    /\ dealt = [s \in Slots |-> 0]
    /\ announced = {}
    /\ shown = [s \in Slots |-> [n \in 1..MaxAttacks |-> 0]]
    /\ victimOf = [n \in 1..MaxAttacks |-> 0]
    /\ attacks = 0 /\ crashes = 0
    /\ room = [s \in Slots |-> [FreshRoom(0) EXCEPT !.used = FALSE]]
    /\ players = <<>>
    /\ roomSeq = 0 /\ anyStarted = FALSE /\ matchEnded = FALSE /\ winner = 0
    /\ mpc = "run" /\ clients = 0

(* The master ends of the hubs that are open.                              *)
MasterEnds == Used(room)

(* What worker s does by itself.                                           *)
WorkerStep(s) ==
    /\ \/ Boot(s, MasterEnds) \/ ReportJoin(s, MasterEnds)
       \/ LobbyRecv(s) \/ (\E graceOver \in BOOLEAN : LobbyStart(s, graceOver))
       \/ MasterGone(s, MasterEnds)
       \/ PlayRecv(s) \/ ReportElim(s, MasterEnds) \/ Route(s, MasterEnds)
       \/ RoomOver(s) \/ RoomExit(s)
    /\ UNCHANGED masterVars

(* What happens to worker s: clients, players, death.                      *)
WorkerEvent(s) ==
    /\ \/ Arrive(s) \/ ArriveFails(s) \/ Crash(s)
       \/ \E p \in Session(s) :
             Quit(s, p) \/ TopOut(s, p) \/ \E toppedOut \in BOOLEAN : ClearLines(s, p, toppedOut)
    /\ UNCHANGED masterVars

(* What the poll loop does for slot s.                                     *)
MasterStep(s) ==
    HandleReady(s) \/ HandleJoined(s) \/ HandleEliminated(s) \/ HandleAttack(s)
    \/ HandleFeed(s) \/ WorkerGone(s)

Next == \/ AcceptClient \/ SpawnRoom \/ PressEnter \/ Interrupt \/ StopRoom
        \/ \E s \in Slots : MasterStep(s) \/ WorkerStep(s) \/ WorkerEvent(s)

Spec == Init /\ [][Next]_vars

(***************************************************************************)
(* Fairness: every process that can take a step of its own does, since the *)
(* master polls every hub each pass and a worker's loops sleep at most     *)
(* 100 ms.  Clients, players, the operator, SIGINT and crashes owe nothing.*)
(***************************************************************************)
Fairness == /\ \A s \in Slots : WF_vars(MasterStep(s)) /\ WF_vars(WorkerStep(s))
            /\ WF_vars(StopRoom)

LiveSpec == Spec /\ Fairness

-----------------------------------------------------------------------------
HubTypeOK ==
    /\ toMaster \in [Slots -> Seq(HubMsg(WorkerTypes))]
    /\ toWorker \in [Slots -> Seq(HubMsg(MasterTypes))]
    /\ reset \in [Slots -> BOOLEAN]

WkTypeOK ==
    /\ wk \in [Slots -> Worker]
    /\ \A s \in Slots : wk[s].reported <= Len(wk[s].members)

FloorTypeOK ==
    /\ dealt \in [Slots -> Nat]
    /\ announced \subseteq Nat
    /\ shown \in [Slots -> [1..MaxAttacks -> Nat]]
    /\ victimOf \in [1..MaxAttacks -> Nat]
    /\ attacks \in 0..MaxAttacks /\ crashes \in 0..MaxCrashes

MasterTypeOK ==
    /\ room \in [Slots -> Room]
    /\ players \in Seq(PlayerRec)
    /\ roomSeq \in 0..MaxSpawns /\ clients \in 0..MaxClients
    /\ anyStarted \in BOOLEAN /\ matchEnded \in BOOLEAN /\ winner \in Nat
    /\ mpc \in {"run", "stop", "done"}

(* Every queue, table and process record has the shape the C types give    *)
(* it, and no room reports more clients than it lists (room.c:160).        *)
TypeOK == HubTypeOK /\ WkTypeOK /\ FloorTypeOK /\ MasterTypeOK

InFlight(queue, type) == {m \in {queue[i] : i \in DOMAIN queue} : m.type = type}

(* Player ids never repeat (main.c:50, 143), although slots, ports and     *)
(* player ids are handed out by different processes.                       *)
IdsUnique == \A i, j \in DOMAIN players : i # j => players[i].id # players[j].id

(* A room never takes in more players than its arrays hold.                *)
LobbyFits == \A s \in Slots : Len(wk[s].members) <= MaxLobby

(***************************************************************************)
(* Why the two are kept when no client outlives its room: every worker has *)
(* a block of MaxLobby ids above all earlier ones, it spends one id per    *)
(* client dealt to it, and reports each member once.                       *)
(***************************************************************************)
Block(s) == room[s].base..(room[s].base + MaxLobby - 1)

BlocksApart ==
    /\ \A s \in Used(room) : room[s].base + MaxLobby <= spawn_base
    /\ \A s, t \in Used(room) : s # t => Block(s) \cap Block(t) = {}

BlockSpent ==
    \A s \in Slots :
      /\ room[s].redirected <= RoomSize
      /\ Live(s) => wk[s].nextId + dealt[s] + room[s].pending <= room[s].base + room[s].redirected
      /\ ~Live(s) => wk[s].members = <<>>

MembersOrdered ==
    \A s \in Slots : Live(s) =>
      /\ Len(wk[s].members) + room[s].base <= wk[s].nextId
      /\ \A i \in DOMAIN wk[s].members : wk[s].members[i] \in room[s].base..(wk[s].nextId - 1)
      /\ \A i, j \in DOMAIN wk[s].members : i < j => wk[s].members[i] < wk[s].members[j]

JoinsFresh ==
    \A s \in Used(room) : \A k \in DOMAIN toMaster[s] : toMaster[s][k].type = "JOINED" =>
      /\ toMaster[s][k].id \in Block(s)
      /\ Live(s) => toMaster[s][k].id \in Session(s)
      /\ \A i \in DOMAIN players : players[i].id # toMaster[s][k].id
      /\ \A j \in DOMAIN toMaster[s] :
           toMaster[s][j].type = "JOINED" /\ toMaster[s][j].id = toMaster[s][k].id => j = k

RecordsKnown ==
    \A i \in DOMAIN players :
      /\ players[i].id < spawn_base
      /\ \A s \in Used(room) : Live(s) /\ players[i].id \in Block(s) => players[i].id \in Session(s)

(* The ids of room workers stay in disjoint blocks, and each member of a   *)
(* room is announced to the master once (main.c:144, room.c:159-164).      *)
IdInv == BlocksApart /\ BlockSpent /\ MembersOrdered /\ JoinsFresh /\ RecordsKnown /\ IdsUnique

(* No client is sent to a port that is not bound yet (room.c:138-142).     *)
NoEarlyRedirect == \A s \in Slots : dealt[s] > 0 => wk[s].pc # "boot"

(* A room that is ordered to start has somebody in it, so lobby_size == 0  *)
(* never makes it exit (room.c:188).                                       *)
NoEmptyStart ==
    \A s \in Slots : wk[s].ordered \/ InFlight(toWorker[s], "START") # {} => wk[s].reported > 0

(* Eliminations are neither lost, nor invented, nor sent twice: for every  *)
(* recorded player of a live room, the master has it dead exactly when the *)
(* room has reported it and the report is no longer on its way.            *)
EliminationConserved ==
    \A i \in DOMAIN players :
      LET r == players[i]
          reports == {k \in DOMAIN toMaster[r.room] :
                        toMaster[r.room][k].type = "ELIMINATED" /\ toMaster[r.room][k].id = r.id}
      IN  room[r.room].used /\ Live(r.room) /\ r.id \in Session(r.room) =>
            /\ r.id \in wk[r.room].told => IF r.alive THEN \E k \in reports : reports = {k} ELSE reports = {}
            /\ r.id \notin wk[r.room].told => r.alive /\ reports = {}

(* Garbage the master relays lands in the victim's room, and never in the  *)
(* attacker's, although the worker also sends up attacks on local players  *)
(* who have left (room.c:337) and the victim's room may be gone and its    *)
(* slot given to another (main.c:322).  Once the match is decided a        *)
(* crashed room's players stay in the table, and the slot's next room may  *)
(* be sent their garbage.                                                  *)
GarbageRouted ==
    ~matchEnded => \A s \in Slots : Live(s) => \A m \in InFlight(toWorker[s], "GARBAGE") :
        m.id \in Session(s) /\ m.by \notin Session(s)

(* The last ROSTER on its way to room s, or else the one it holds.         *)
LatestRoster(s) ==
    LET rosters == {i \in DOMAIN toWorker[s] : toWorker[s][i].type = "ROSTER"}
    IN  IF rosters = {} THEN wk[s].global
        ELSE toWorker[s][CHOOSE i \in rosters : \A j \in rosters : j <= i].alive

(* A running room's newest view of the match is the master's current       *)
(* table: every change of it is broadcast (main.c:228-242).                *)
RosterFresh ==
    \A s \in Running(room) : Live(s) => LatestRoster(s) = Standing(players)

(* Until the daemon is stopped, the rooms that finished told their players *)
(* the one winner the master decided (main.c:270-272).                     *)
OneWinner == mpc # "stop" /\ announced # {} => matchEnded /\ announced = {winner}

(***************************************************************************)
(* Why OneWinner is kept: outside a shutdown the hub of a live worker is   *)
(* open at the master's end, so no room ends by EOF; every GAMEOVER on its *)
(* way, and every room that took one, carries the master's verdict.        *)
(***************************************************************************)
Verdicts(queue, ended, w) ==
    \A s \in Slots : \A i \in DOMAIN queue[s] :
        queue[s][i].type = "GAMEOVER" => ended /\ queue[s][i].id = w

(* Every result under way or shown is the master's one verdict             *)
(* (check_global_end, main.c:273-307).                                     *)
VerdictInv ==
    /\ mpc # "stop" => \A s \in Slots : Live(s) => room[s].used
    /\ Verdicts(toWorker, matchEnded, winner)
    /\ \A s \in Slots : wk[s].over /\ wk[s].pc # "over" => matchEnded /\ wk[s].winner = winner
    /\ OneWinner

(* No kill feed shows an attack twice, in the attacker's room (main.c:405) *)
(* or in one the attack has nothing to do with.  The room of the player it *)
(* was aimed at is exempt: it is told by GARBAGE and again by FEED.        *)
FeedOnce == \A s \in Slots, n \in 1..MaxAttacks :
              shown[s][n] > 1 => victimOf[n] \in Session(s) \/ ~Live(s)

(* When the match is decided, every recorded player but the winner is out  *)
(* in the room that plays it, or its room is gone: close_room has counted  *)
(* it dead by then, and a new worker in the slot (main.c:124-144) does not *)
(* know it.                                                                *)
LosersAreOut ==
    [][~matchEnded /\ matchEnded' =>
         \A i \in DOMAIN players :
           LET r == players[i] IN
           r.id # winner' /\ room'[r.room].used /\ Live(r.room) /\ r.id \in Session(r.room) =>
             r.id \in wk[r.room].out]_vars

(* The abstract match, read off the master's table and the final pushes.   *)
Promise == INSTANCE Match WITH
    known <- {players[i].id : i \in DOMAIN players}, standing <- Standing(players),
    decided <- matchEnded, champion <- winner, told <- announced, stopped <- mpc = "stop"

(* The daemon implements the match it promises: each step of its processes *)
(* is a step of Match or changes nothing that Match shows.                 *)
ImplementsMatch == Promise!MatchSpec

-----------------------------------------------------------------------------
(* Liveness, under Fairness.                                               *)

(* A player who is out is recorded dead, or the match is over, or its room *)
(* or the daemon is gone: no elimination is left unreported.               *)
ElimHeard ==
    \A s \in Slots : \A p \in 1..(MaxSpawns * MaxLobby) :
      Live(s) /\ p \in wk[s].out ~>
        p \notin Standing(players) \/ matchEnded \/ mpc # "run"

(* A room that was told to start leaves its lobby, however many of the     *)
(* players dealt into it never arrive.                                     *)
StartObeyed == \A s \in Slots : room[s].started ~> wk[s].pc # "lobby"

(* GAMEOVER ends a room that plays: its worker exits, its slot is freed.   *)
GameOverEndsRoom ==
    \A s \in Slots : wk[s].pc = "play" /\ InFlight(toWorker[s], "GAMEOVER") # {} ~>
                       ~Live(s) /\ ~room[s].used

(* SIGINT ends every worker process.                                       *)
StopEndsRooms == mpc = "stop" ~> \A s \in Slots : ~Live(s)

-----------------------------------------------------------------------------
(* Statements of the repository that the daemon does not keep.             *)

(* hub.h:36 and main.c:522, "every room wound down": a decided match ends  *)
(* every room that was started.                                            *)
MatchEndsRooms ==
    \A s \in Slots : matchEnded /\ room[s].used /\ room[s].started ~> ~room[s].used
=============================================================================
