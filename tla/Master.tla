------------------------------- MODULE Master -------------------------------
(***************************************************************************)
(* The tetrisd master process (tetrisd/main.c): it deals clients into      *)
(* rooms, forks a worker per room, keeps the global player table, starts   *)
(* rooms, relays garbage and feeds, and decides the match.  (A Faulty      *)
(* definition is a slip in what the definition right after it models.)     *)
(***************************************************************************)
EXTENDS RoomWorker

CONSTANTS RoomSize,     \* room_size: clients dealt into one room
          MaxClients,   \* bound: connections to the master
          MaxSpawns,    \* bound: workers forked
          StaleClients  \* whether a client may still hold the port of a slot
                        \* when that slot is given to a new worker

ASSUME MasterAssumption == /\ RoomSize \in 1..MaxLobby
                           /\ MaxClients \in Nat /\ MaxSpawns \in Nat
                           /\ StaleClients \in BOOLEAN

VARIABLES room,         \* [Slots -> Room], rooms[]
          players,      \* Seq([id, room, alive]), players[0..player_count-1]
          roomSeq,      \* room_seq
          anyStarted,   \* any_room_started
          matchEnded,   \* match_ended
          winner,       \* the winner_id broadcast with GAMEOVER
          mpc,          \* main(): "run" (the poll loop), "stop" (SIGINT: the
                        \* hubs are closed, then it returns), "done"
          clients       \* connections accepted so far

masterVars == <<room, players, roomSeq, anyStarted, matchEnded, winner, mpc, clients>>
vars == <<hubVars, workerVars, masterVars>>

Room == [used : BOOLEAN, ready : BOOLEAN, started : BOOLEAN,
         redirected : Nat, joined : Nat, pending : Nat, base : Nat]

PlayerRec == [id : Nat, room : Slots, alive : BOOLEAN]

(* memset(&rooms[slot], 0), then used.  base is the id_base that the        *)
(* worker was forked with.                                                 *)
FreshRoom(idBase) == [used |-> TRUE, ready |-> FALSE, started |-> FALSE,
                      redirected |-> 0, joined |-> 0, pending |-> 0, base |-> idBase]

Used(rm) == {s \in Slots : rm[s].used}
Running(rm) == {s \in Used(rm) : rm[s].started}
Standing(pl) == {pl[i].id : i \in {j \in DOMAIN pl : pl[j].alive}}
First(S) == {s \in S : \A t \in S : s <= t}

(* hub_send to each room in dest; a worker that is gone gets nothing.      *)
Send(queue, dest, m) == hub_send(queue, {s \in dest : Live(s)}, m)

-----------------------------------------------------------------------------
(* filling_room, and spawn_room when no room is open.                      *)

FaultyOpen == {s \in Used(room) : ~room[s].started /\ room[s].redirected <= RoomSize}

Open == {s \in Used(room) : ~room[s].started /\ room[s].redirected < RoomSize}

FaultyBound(rm, s) == TRUE      \* clients are not parked until HUB_READY

Bound(rm, s) == rm[s].ready

(* A ready room's client is redirected at once, another one is parked.     *)
Deal(rm, s) ==
    [rm EXCEPT ![s].redirected = @ + 1, ![s].pending = IF Bound(rm, s) THEN @ ELSE @ + 1]

(* accept_client, into the room that is being filled.                      *)
AcceptClient ==
    /\ mpc = "run" /\ clients < MaxClients
    /\ clients' = clients + 1
    /\ \E s \in First(Open) :
       /\ room' = Deal(room, s)
       /\ dealt' = [dealt EXCEPT ![s] = IF Bound(room, s) THEN @ + 1 ELSE @]
    /\ UNCHANGED <<hubVars, wk, announced, shown, victimOf, attacks, crashes, players,
                   roomSeq, anyStarted, matchEnded, winner, mpc>>

FaultySpawnBase == 1 + Cardinality(Used(room)) * MaxLobby       \* slots, not spawns

spawn_base == 1 + roomSeq * MaxLobby

(* accept_client, spawning the room.  With every slot used the client is   *)
(* refused, and nothing changes.                                           *)
SpawnRoom ==
    /\ mpc = "run" /\ clients < MaxClients /\ Open = {} /\ roomSeq < MaxSpawns
    /\ clients' = clients + 1
    /\ roomSeq' = roomSeq + 1
    /\ \E s \in First(Slots \ Used(room)) :
       /\ room' = Deal([room EXCEPT ![s] = FreshRoom(spawn_base)], s)
       /\ wk' = [wk EXCEPT ![s] = Process("boot", spawn_base)]
       /\ toMaster' = [toMaster EXCEPT ![s] = <<>>]
       /\ toWorker' = [toWorker EXCEPT ![s] = <<>>]
       /\ reset' = [reset EXCEPT ![s] = FALSE]
       /\ shown' = [shown EXCEPT ![s] = [n \in 1..MaxAttacks |-> 0]]
       /\ dealt' = [dealt EXCEPT ![s] = IF StaleClients THEN @ ELSE 0]
    /\ UNCHANGED <<announced, victimOf, attacks, crashes, players, anyStarted, matchEnded, winner, mpc>>

-----------------------------------------------------------------------------
(* The global match.                                                       *)

FaultyBroadcastRoster(queue, rm, pl) ==         \* alive[] is not filled from the table
    Send(queue, Running(rm), RosterMsg({pl[i].id : i \in DOMAIN pl}))

broadcast_roster(queue, rm, pl) == Send(queue, Running(rm), RosterMsg(Standing(pl)))

(***************************************************************************)
(* start_all_rooms: start_room on each slot in turn.  The room's START     *)
(* comes before its first ROSTER, and every room running by then gets the  *)
(* roster again after each later start.                                    *)
(***************************************************************************)
FaultyStartable(rm) == {s \in Used(rm) : ~rm[s].started}        \* joined is not read

Startable(rm) == {s \in Used(rm) : ~rm[s].started /\ rm[s].joined >= 1}

start_all_rooms(queue, rm, pl) ==
    LET starting == Startable(rm)
        rosters(s) == [i \in 1..Cardinality({t \in starting : s \in Running(rm) \/ t >= s})
                         |-> RosterMsg(Standing(pl))]
        start(s) == IF s \in starting THEN <<Msg("START", rm[s].redirected)>> ELSE <<>>
    IN  [s \in Slots |-> IF s \in starting \cup Running(rm) /\ Live(s)
                         THEN queue[s] \o (start(s) \o rosters(s)) ELSE queue[s]]

Started(rm) == [s \in Slots |-> IF s \in Startable(rm) THEN [rm[s] EXCEPT !.started = TRUE]
                                                       ELSE rm[s]]

(* over: with two players or more, at most one stands; alone, none.        *)
Decided(pl) ==
    LET alive == {i \in DOMAIN pl : pl[i].alive}
    IN  IF Len(pl) >= 2 THEN \A i, j \in alive : i = j ELSE Len(pl) = 1 /\ alive = {}

FaultyWinnerOf(pl) == IF \E i \in DOMAIN pl : pl[i].alive THEN pl[1].id ELSE 0

WinnerOf(pl) == IF \E i \in DOMAIN pl : pl[i].alive
                THEN pl[CHOOSE i \in DOMAIN pl : pl[i].alive].id ELSE 0

FaultyEndsMatch(pl) == Decided(pl)      \* match_ended is not read

EndsMatch(pl) == ~matchEnded /\ Decided(pl)

(* check_global_end, after the sends already in queue.                     *)
check_global_end(queue, rm, pl) ==
    IF EndsMatch(pl)
    THEN /\ matchEnded' = TRUE
         /\ winner' = WinnerOf(pl)
         /\ toWorker' = Send(queue, Used(rm), Msg("GAMEOVER", WinnerOf(pl)))
    ELSE /\ toWorker' = queue
         /\ UNCHANGED <<matchEnded, winner>>

Bury(pl, dead) ==
    [i \in DOMAIN pl |-> IF i \in dead THEN [pl[i] EXCEPT !.alive = FALSE] ELSE pl[i]]

-----------------------------------------------------------------------------
(* handle_hub_msg: one action per message type.                            *)

Heard(s, type) == /\ mpc = "run" /\ room[s].used
                  /\ toMaster[s] # <<>> /\ Head(toMaster[s]).type = type
                  /\ toMaster' = [toMaster EXCEPT ![s] = Tail(@)]

HandleReady(s) ==
    /\ Heard(s, "READY")
    /\ room' = [room EXCEPT ![s].ready = TRUE, ![s].pending = 0]
    /\ dealt' = [dealt EXCEPT ![s] = @ + room[s].pending]
    /\ UNCHANGED <<toWorker, reset, wk, announced, shown, victimOf, attacks, crashes,
                   players, roomSeq, anyStarted, matchEnded, winner, mpc, clients>>

HandleJoined(s) ==
    /\ Heard(s, "JOINED")
    /\ LET rec == [id |-> Head(toMaster[s]).id, room |-> s, alive |-> TRUE]
           pl  == IF Len(players) < MaxPlayers THEN Append(players, rec) ELSE players
           rm  == [room EXCEPT ![s].joined = @ + 1]
           q   == broadcast_roster(toWorker, rm, pl)
       IN  /\ players' = pl
           /\ IF Len(pl) >= RoomSize * MaxRooms
              THEN /\ toWorker' = start_all_rooms(q, rm, pl)
                   /\ room' = Started(rm)
                   /\ anyStarted' = (anyStarted \/ Startable(rm) # {})
              ELSE /\ toWorker' = q
                   /\ room' = rm
                   /\ UNCHANGED anyStarted
    /\ UNCHANGED <<reset, workerVars, roomSeq, matchEnded, winner, mpc, clients>>

HandleEliminated(s) ==
    /\ Heard(s, "ELIMINATED")
    /\ LET dead == {i \in DOMAIN players : players[i].id = Head(toMaster[s]).id}
           pl == Bury(players, dead)
       IN  /\ players' = pl
           /\ check_global_end(broadcast_roster(toWorker, room, pl), room, pl)
    /\ UNCHANGED <<reset, workerVars, room, roomSeq, anyStarted, mpc, clients>>

FaultyTargetAll(m) == Slots     \* fanned out like a feed

(* The first living record of the victim routes the garbage.               *)
Target(m) ==
    LET hit == {i \in DOMAIN players : players[i].id = m.id /\ players[i].alive}
    IN  {players[i].room : i \in First(hit)}

HandleAttack(s) ==
    /\ Heard(s, "ATTACK")
    /\ LET m == Head(toMaster[s])
       IN  toWorker' = Send(toWorker, Target(m) \cap Running(room), [m EXCEPT !.type = "GARBAGE"])
    /\ UNCHANGED <<reset, workerVars, masterVars>>

FaultyElsewhere(s) == Running(room)     \* i != slot is not tested

Elsewhere(s) == Running(room) \ {s}

HandleFeed(s) ==
    /\ Heard(s, "FEED")
    /\ toWorker' = Send(toWorker, Elsewhere(s), Head(toMaster[s]))
    /\ UNCHANGED <<reset, workerVars, masterVars>>

-----------------------------------------------------------------------------
FaultyOccupants(s) == DOMAIN players    \* players[i].room is not read
FaultyVacant(s) == {}                   \* nobody is counted dead

Occupants(s) == {i \in DOMAIN players : players[i].room = s}

(* close_room: unless the match has ended, its living players are dead.    *)
close_room(s) ==
    LET rm == [room EXCEPT ![s].used = FALSE]
        pl == IF matchEnded THEN players ELSE Bury(players, Occupants(s))
    IN  /\ room' = rm
        /\ players' = pl
        /\ toMaster' = [toMaster EXCEPT ![s] = <<>>]
        /\ reset' = [reset EXCEPT ![s] = Live(s) /\ toMaster[s] # <<>>]
        /\ IF pl # players
           THEN check_global_end(broadcast_roster(toWorker, rm, pl), rm, pl)
           ELSE UNCHANGED <<toWorker, matchEnded, winner>>

(* The worker of s is gone.  With a match run and no room left, main()     *)
(* leaves its loop.                                                        *)
WorkerGone(s) ==
    /\ mpc = "run" /\ room[s].used /\ ~Live(s) /\ hub_recv_closed(toMaster, s)
    /\ close_room(s)
    /\ mpc' = IF anyStarted /\ Used(room) = {s} THEN "done" ELSE mpc
    /\ UNCHANGED <<workerVars, roomSeq, anyStarted, clients>>

(* ENTER. *)
PressEnter ==
    /\ mpc = "run" /\ Startable(room) # {}
    /\ toWorker' = start_all_rooms(toWorker, room, players)
    /\ room' = Started(room)
    /\ anyStarted' = TRUE
    /\ UNCHANGED <<toMaster, reset, workerVars, players, roomSeq, matchEnded, winner, mpc, clients>>

(* SIGINT sets stop_requested; the loop ends and the hubs are closed one   *)
(* slot after the other.                                                   *)
Interrupt ==
    /\ mpc = "run"
    /\ mpc' = "stop"
    /\ UNCHANGED <<hubVars, workerVars, room, players, roomSeq, anyStarted, matchEnded, winner, clients>>

StopRoom ==
    /\ mpc = "stop"
    /\ \E s \in First(Used(room)) : close_room(s)
    /\ UNCHANGED <<workerVars, roomSeq, anyStarted, mpc, clients>>
=============================================================================
