---------------------------- MODULE RosterProofs ----------------------------
(***************************************************************************)
(* The daemon implements the abstract match: each step of its processes is *)
(* a step of Match, or changes nothing that Match shows.  And a running    *)
(* room's newest roster is the master's table.                             *)
(***************************************************************************)
EXTENDS MatchProofs

Alive(pl) == {i \in DOMAIN pl : pl[i].alive}

(* check_global_end counts records (main.c:280-300); with unique ids that  *)
(* is counting players.                                                    *)
LEMMA DecidedIsOver ==
    ASSUME NEW pl \in Seq(PlayerRec), \A i, j \in DOMAIN pl : i # j => pl[i].id # pl[j].id
    PROVE  Decided(pl) <=> Ids(pl) # {} /\ Promise!Over(Ids(pl), Standing(pl))
<1>0. DOMAIN pl = 1..Len(pl) /\ Len(pl) \in Nat
  OBVIOUS
<1>1. Len(pl) >= 2 <=> \E p, q \in Ids(pl) : p # q
  <2>1. ASSUME Len(pl) >= 2 PROVE \E p, q \in Ids(pl) : p # q
    <3>1. 1 \in DOMAIN pl /\ 2 \in DOMAIN pl /\ 1 # 2
      BY <1>0, <2>1
    <3>2. pl[1].id # pl[2].id
      BY <3>1, Zenon
    <3> QED BY <3>1, <3>2, Zenon DEF Ids
  <2>2. ASSUME NEW p \in Ids(pl), NEW q \in Ids(pl), p # q PROVE Len(pl) >= 2
    <3>1. PICK i \in DOMAIN pl, j \in DOMAIN pl : pl[i].id = p /\ pl[j].id = q
      BY Zenon DEF Ids
    <3>2. i # j /\ i \in 1..Len(pl) /\ j \in 1..Len(pl)
      BY <1>0, <2>2, <3>1, Zenon
    <3> QED BY <1>0, <3>2
  <2> QED BY <2>1, <2>2, Zenon
<1>3. (\A i, j \in Alive(pl) : i = j) <=> (\A p, q \in Standing(pl) : p = q)
  <2>1. Standing(pl) = {pl[i].id : i \in Alive(pl)} /\ Alive(pl) \subseteq DOMAIN pl
    BY Zenon DEF Alive, Standing
  <2>2. \A i, j \in Alive(pl) : pl[i].id = pl[j].id <=> i = j
    BY <2>1, Zenon
  <2>3. \A i \in Alive(pl) : pl[i].id \in Standing(pl)
    BY <2>1, Zenon
  <2>4. \A p \in Standing(pl) : \E i \in Alive(pl) : p = pl[i].id
    BY <2>1, Zenon
  <2>5. ASSUME \A i, j \in Alive(pl) : i = j, NEW p \in Standing(pl), NEW q \in Standing(pl)
        PROVE  p = q
    BY <2>4, <2>5
  <2>6. ASSUME \A p, q \in Standing(pl) : p = q, NEW i \in Alive(pl), NEW j \in Alive(pl)
        PROVE  i = j
    <3>1. pl[i].id = pl[j].id
      BY <2>3, <2>6, Zenon
    <3> QED BY <2>2, <3>1, Zenon
  <2> QED BY <2>5, <2>6, Zenon
<1>4. Alive(pl) = {} <=> Standing(pl) = {}
  BY Zenon DEF Alive, Standing
<1>5. Ids(pl) = {} <=> Len(pl) = 0
  <2>1. Ids(pl) = {} <=> DOMAIN pl = {}
    BY Zenon DEF Ids
  <2> QED BY <1>0, <2>1
<1>6. Decided(pl) <=> IF Len(pl) >= 2 THEN \A i, j \in Alive(pl) : i = j
                                      ELSE Len(pl) = 1 /\ Alive(pl) = {}
  BY Zenon DEF Decided, Alive
<1>7. Promise!Over(Ids(pl), Standing(pl)) <=>
        IF \E p, q \in Ids(pl) : p # q THEN \A p, q \in Standing(pl) : p = q ELSE Standing(pl) = {}
  BY Zenon DEF Promise!Over
<1>8. CASE Len(pl) >= 2
  BY <1>0, <1>1, <1>3, <1>5, <1>6, <1>7, <1>8
<1>9. CASE ~(Len(pl) >= 2)
  <2>1. Len(pl) = 1 <=> Len(pl) # 0
    BY <1>0, <1>9
  <2> QED BY <1>1, <1>4, <1>5, <1>6, <1>7, <1>9, <2>1
<1> QED BY <1>8, <1>9, Zenon

(* Burying records keeps the ids and takes players from those standing.    *)
LEMMA Buried ==
    ASSUME NEW pl \in Seq(PlayerRec), NEW dead
    PROVE  /\ Ids(Bury(pl, dead)) = Ids(pl)
           /\ Standing(Bury(pl, dead)) \subseteq Standing(pl)
           /\ DOMAIN Bury(pl, dead) = DOMAIN pl
           /\ \A i \in DOMAIN pl : Bury(pl, dead)[i].id = pl[i].id
<1> DEFINE b == Bury(pl, dead)
<1>1. DOMAIN b = DOMAIN pl
  BY Zenon DEF Bury
<1>2. \A i \in DOMAIN pl : pl[i] \in PlayerRec
  OBVIOUS
<1>3. \A i \in DOMAIN pl : b[i].id = pl[i].id /\ (b[i].alive => pl[i].alive)
  BY <1>2, Zenon DEF Bury, PlayerRec
<1> HIDE DEF b
<1>4. Ids(b) = Ids(pl) /\ Standing(b) \subseteq Standing(pl)
  BY <1>1, <1>3, Zenon DEF Ids, Standing
<1> QED BY <1>1, <1>3, <1>4, Zenon DEF b

(* No id is 0, the master's word for "nobody" (main.c:144, 288).           *)
NoZero == \A i \in DOMAIN players : players[i].id # 0

(* A verdict names a player who stands, or 0 when none does.               *)
LEMMA WinnerStands ==
    ASSUME NEW pl \in Seq(PlayerRec), \A i \in DOMAIN pl : pl[i].id # 0
    PROVE  /\ WinnerOf(pl) \in Standing(pl) \cup {0}
           /\ WinnerOf(pl) = 0 => Standing(pl) = {}
<1>1. CASE \E i \in DOMAIN pl : pl[i].alive
  <2> DEFINE k == CHOOSE i \in DOMAIN pl : pl[i].alive
  <2>1. k \in DOMAIN pl /\ pl[k].alive
    BY <1>1, Zenon
  <2>2. WinnerOf(pl) = pl[k].id
    BY <1>1, Zenon DEF WinnerOf
  <2> HIDE DEF k
  <2> QED BY <2>1, <2>2, Zenon DEF Standing
<1>2. CASE ~\E i \in DOMAIN pl : pl[i].alive
  BY <1>2, Zenon DEF WinnerOf, Standing
<1> QED BY <1>1, <1>2, Zenon

(* Burying records and check_global_end are a Fall.                        *)
LEMMA BuryIsFall ==
    ASSUME players \in Seq(PlayerRec), IdsUnique, NoZero, NEW dead, NEW q, NEW rm,
           players' = Bury(players, dead), check_global_end(q, rm, players'),
           announced' = announced, (mpc' = "stop") = (mpc = "stop")
    PROVE  \E losers \in SUBSET Standing(players) : Promise!Fall(losers)
<1>1. PICK pl : pl = players'
  BY Zenon
<1>2. pl = Bury(players, dead) /\ pl \in Seq(PlayerRec)
  BY <1>1, BuryType, Zenon
<1>3. /\ Ids(pl) = Ids(players) /\ Standing(pl) \subseteq Standing(players)
      /\ DOMAIN pl = DOMAIN players /\ \A i \in DOMAIN players : pl[i].id = players[i].id
  BY <1>2, Buried
<1>4. /\ \A i, j \in DOMAIN pl : i # j => pl[i].id # pl[j].id
      /\ \A i \in DOMAIN pl : pl[i].id # 0
  BY <1>3, Zenon DEF IdsUnique, NoZero
<1>5. Decided(pl) <=> Ids(players) # {} /\ Promise!Over(Ids(players), Standing(pl))
  BY <1>2, <1>3, <1>4, DecidedIsOver
<1>6. WinnerOf(pl) \in Standing(pl) \cup {0} /\ (WinnerOf(pl) = 0 => Standing(pl) = {})
  BY <1>2, <1>4, WinnerStands, Zenon
<1>7. IF ~matchEnded /\ Decided(pl)
      THEN matchEnded' = TRUE /\ winner' = WinnerOf(pl)
      ELSE UNCHANGED <<matchEnded, winner>>
  BY <1>1, Zenon DEF check_global_end, EndsMatch
<1> DEFINE losers == Standing(players) \ Standing(pl)
<1>8. /\ Standing(players') = Standing(players) \ losers
      /\ {players'[i].id : i \in DOMAIN players'} = {players[i].id : i \in DOMAIN players}
  BY <1>1, <1>3, Zenon DEF Ids
<1>9. Promise!Fall(losers)
  BY <1>1, <1>3, <1>5, <1>6, <1>7, <1>8 DEF Promise!Fall, Ids
<1> QED BY <1>9, Zenon

-----------------------------------------------------------------------------
(* A step that shows Match nothing, and one that only gives out results.   *)
LEMMA Quiet ==
    ASSUME UNCHANGED <<players, matchEnded, winner, announced>>, (mpc' = "stop") = (mpc = "stop")
    PROVE  [Promise!MatchNext]_(Promise!matchVars)
<1>1. Standing(players)' = Standing(players)
  BY Zenon DEF Standing
<1> QED BY <1>1, Zenon DEF Promise!matchVars

(* A final push after a verdict announces it; after SIGINT it may announce *)
(* nobody.                                                                 *)
LEMMA Telling ==
    ASSUME UNCHANGED <<players, matchEnded, winner, mpc>>,
           \/ matchEnded /\ announced' = announced \cup {winner}
           \/ mpc = "stop" /\ announced' \in {announced \cup {0}, announced \cup {winner}}
    PROVE  [Promise!MatchNext]_(Promise!matchVars)
<1>1. Standing(players)' = Standing(players)
  BY Zenon DEF Standing
<1>2. Promise!Announce \/ Promise!Abandon
  BY <1>1, Zenon DEF Promise!Announce, Promise!Abandon
<1> QED BY <1>2, Zenon DEF Promise!MatchNext

(* A room without a verdict names nobody (winner_id = 0, room.c:224).      *)
NoWord == \A s \in Slots : ~wk[s].over => wk[s].winner = 0

(* What the workers do and what happens to them shows Match nothing but    *)
(* the final pushes.                                                       *)
LEMMA WorkerSimulates ==
    ASSUME TypeOK, VerdictInv, NoWord, NEW s \in Slots, WorkerStep(s) \/ WorkerEvent(s)
    PROVE  NoWord' /\ [Promise!MatchNext]_(Promise!matchVars)
<1>0. /\ wk \in [Slots -> Worker] /\ wk[s] \in Worker
      /\ UNCHANGED <<players, matchEnded, winner, mpc>>
  BY Zenon DEF TypeOK, WkTypeOK, WorkerStep, WorkerEvent, masterVars
<1>e. ASSUME Exit(s), UNCHANGED announced
      PROVE  NoWord' /\ [Promise!MatchNext]_(Promise!matchVars)
  <2>1. wk'[s].winner = 0 /\ \A t \in Slots : t # s => wk'[t] = wk[t]
    BY <1>0, <1>e, Zenon DEF Exit, Process
  <2> QED BY <1>0, <1>e, <2>1, Quiet DEF NoWord
<1>u. ASSUME UNCHANGED announced, \A t \in Slots : t # s => wk'[t] = wk[t],
             wk'[s].over \/ (wk'[s].over = wk[s].over /\ wk'[s].winner = wk[s].winner)
      PROVE  NoWord' /\ [Promise!MatchNext]_(Promise!matchVars)
  <2>1. NoWord'
    BY <1>u, Zenon DEF NoWord
  <2>2. [Promise!MatchNext]_(Promise!matchVars)
    BY <1>0, <1>u, Quiet
  <2> QED BY <2>1, <2>2, Zenon
(* The final pushes of a room with players name its winner.                *)
<1>f. ASSUME FinalPush(s), \A t \in Slots : t # s => wk'[t] = wk[t], wk'[s].over,
             \/ matchEnded /\ wk[s].winner = winner
             \/ mpc = "stop" /\ wk[s].winner \in {0, winner}
      PROVE  NoWord' /\ [Promise!MatchNext]_(Promise!matchVars)
  <2>1. NoWord'
    BY <1>f, Zenon DEF NoWord
  <2>2. announced' = announced \/ announced' = announced \cup {wk[s].winner}
    BY <1>f, Zenon DEF FinalPush
  <2>3. [Promise!MatchNext]_(Promise!matchVars)
    <3>1. CASE announced' = announced
      BY <1>0, <3>1, Quiet, Zenon
    <3>2. CASE announced' = announced \cup {wk[s].winner}
      BY <1>0, <1>f, <3>2, Telling
    <3> QED BY <2>2, <3>1, <3>2, Zenon
  <2> QED BY <2>1, <2>3, Zenon
<1>1. CASE Boot(s, MasterEnds)
  BY <1>0, <1>1, <1>u, Zenon DEF Boot, Worker
<1>2. CASE ReportJoin(s, MasterEnds)
  BY <1>0, <1>2, <1>u DEF ReportJoin, Worker
<1>3. CASE LobbyRecv(s)
  <2>1. /\ wk'[s].over = wk[s].over /\ wk'[s].winner = wk[s].winner
        /\ \A t \in Slots : t # s => wk'[t] = wk[t]
    BY <1>0, <1>3, Zenon DEF LobbyRecv, LobbyTake, Inbox, Worker
  <2> QED BY <1>3, <1>u, <2>1, Zenon DEF LobbyRecv
<1>4. CASE \E graceOver \in BOOLEAN : LobbyStart(s, graceOver)
  <2>1. CASE Exit(s)
    BY <1>4, <1>e, <2>1, Zenon DEF LobbyStart
  <2>2. CASE ~Exit(s)
    BY <1>0, <1>4, <1>u, <2>2 DEF LobbyStart, Worker
  <2> QED BY <2>1, <2>2, Zenon
<1>5. CASE MasterGone(s, MasterEnds)
  <2>1. CASE wk[s].pc = "lobby"
    BY <1>5, <1>e, <2>1, Zenon DEF MasterGone
  <2>2. CASE wk[s].pc # "lobby"
    <3>1. mpc = "stop" /\ wk[s].pc = "play"
      BY <1>5, <2>2, Zenon DEF MasterGone, HungUp, MasterEnds, VerdictInv, Live, Used
    <3>2. wk'[s].over /\ FinalPush(s) /\ \A t \in Slots : t # s => wk'[t] = wk[t]
      BY <1>0, <1>5, <2>2 DEF MasterGone, Worker
    <3>3. wk[s].winner \in {0, winner}
      BY <3>1, Zenon DEF NoWord, VerdictInv
    <3> QED BY <1>f, <3>1, <3>2, <3>3, Zenon
  <2> QED BY <2>1, <2>2, Zenon
<1>6. CASE PlayRecv(s)
  <2>1. PICK m : PlayTake(s, m)
    BY <1>6, Zenon DEF PlayRecv
  <2>2. /\ \A t \in Slots : t # s => wk'[t] = wk[t]
        /\ wk'[s].over \/ (wk'[s].over = wk[s].over /\ wk'[s].winner = wk[s].winner)
    BY <1>0, <2>1, Zenon DEF PlayTake, Worker
  <2> QED BY <1>6, <1>u, <2>2, Zenon DEF PlayRecv
<1>7. CASE ReportElim(s, MasterEnds)
  BY <1>0, <1>7, <1>u DEF ReportElim, Worker
<1>8. CASE Route(s, MasterEnds)
  <2>1. PICK g : wk' = [wk EXCEPT ![s].garbage = @ \ {g}]
    BY <1>8, Zenon DEF Route
  <2>2. UNCHANGED announced
    BY <1>8, Zenon DEF Route
  <2> QED BY <1>0, <1>u, <2>1, <2>2, Zenon DEF Worker
<1>9. CASE RoomOver(s)
  <2>1. wk'[s].over /\ FinalPush(s) /\ \A t \in Slots : t # s => wk'[t] = wk[t]
    BY <1>0, <1>9, Zenon DEF RoomOver, Worker
  <2>2. matchEnded /\ wk[s].winner = winner
    BY <1>9, Zenon DEF RoomOver, VerdictInv
  <2> QED BY <1>f, <2>1, <2>2, Zenon
<1>10. CASE RoomExit(s)
  BY <1>10, <1>e, Zenon DEF RoomExit
<1>11. CASE Arrive(s)
  BY <1>0, <1>11, <1>u, Zenon DEF Arrive, Worker
<1>12. CASE ArriveFails(s)
  BY <1>0, <1>12, <1>u, Zenon DEF ArriveFails, Worker
<1>13. CASE Crash(s)
  BY <1>13, <1>e, Zenon DEF Crash
<1>14. ASSUME NEW p \in Session(s), Quit(s, p)
       PROVE  NoWord' /\ [Promise!MatchNext]_(Promise!matchVars)
  BY <1>0, <1>14, <1>u, Zenon DEF Quit, Worker
<1>15. ASSUME NEW p \in Session(s), TopOut(s, p)
       PROVE  NoWord' /\ [Promise!MatchNext]_(Promise!matchVars)
  BY <1>0, <1>15, <1>u, Zenon DEF TopOut, Worker
<1>16. ASSUME NEW p \in Session(s), NEW toppedOut \in BOOLEAN, ClearLines(s, p, toppedOut)
       PROVE  NoWord' /\ [Promise!MatchNext]_(Promise!matchVars)
  <2>1. PICK G, O : wk' = [wk EXCEPT ![s].garbage = G, ![s].out = O]
    BY <1>16, Zenon DEF ClearLines
  <2>2. UNCHANGED announced
    BY <1>16, Zenon DEF ClearLines
  <2> QED BY <1>0, <1>u, <2>1, <2>2 DEF Worker
<1> QED BY <1>1, <1>2, <1>3, <1>4, <1>5, <1>6, <1>7, <1>8, <1>9, <1>10, <1>11, <1>12, <1>13,
           <1>14, <1>15, <1>16 DEF WorkerStep, WorkerEvent

-----------------------------------------------------------------------------
(* The first id of a worker's block is at least 1 (main.c:143).            *)
Based == \A s \in Used(room) : room[s].base \in Nat \ {0}

(* What the refinement needs beside IdInv and VerdictInv.                  *)
MatchInv == NoWord /\ Based /\ NoZero

(* close_room lets the players of the room fall, or shows Match nothing.   *)
LEMMA CloseSimulates ==
    ASSUME TypeOK, IdInv, MatchInv, NEW s \in Slots, close_room(s),
           UNCHANGED <<wk, announced>>, (mpc' = "stop") = (mpc = "stop")
    PROVE  MatchInv' /\ [Promise!MatchNext]_(Promise!matchVars)
<1>0. room \in [Slots -> Room] /\ players \in Seq(PlayerRec) /\ IdsUnique /\ NoZero
  BY Zenon DEF TypeOK, MasterTypeOK, IdInv, MatchInv
<1>1. \A t \in Slots : (room'[t].used => room[t].used) /\ room'[t].base = room[t].base
  BY <1>0, Zenon DEF close_room, Room
<1>2. NoWord' /\ Based'
  BY <1>1, Zenon DEF MatchInv, NoWord, Based, Used
<1>3. players' = players \/ players' = Bury(players, Occupants(s))
  BY Zenon DEF close_room
<1>4. NoZero'
  BY <1>0, <1>3, Buried DEF NoZero
<1>5. [Promise!MatchNext]_(Promise!matchVars)
  <2>1. CASE players' = players
    <3>1. UNCHANGED <<matchEnded, winner>>
      BY <2>1, Zenon DEF close_room
    <3> QED BY <2>1, <3>1, Quiet, Zenon
  <2>2. CASE players' # players
    <3>1. \E q, rm : check_global_end(q, rm, players')
      BY <2>2, Zenon DEF close_room
    <3>2. \E losers \in SUBSET Standing(players) : Promise!Fall(losers)
      BY <1>0, <1>3, <2>2, <3>1, BuryIsFall
    <3> QED BY <3>2, Zenon DEF Promise!MatchNext
  <2> QED BY <2>1, <2>2, Zenon
<1> QED BY <1>2, <1>4, <1>5, Zenon DEF MatchInv

(* HUB_JOINED is a Join, or shows Match nothing when the table is full.    *)
LEMMA JoinedSimulates ==
    ASSUME TypeOK, IdInv, MatchInv, NEW s \in Slots, HandleJoined(s)
    PROVE  NoZero' /\ [Promise!MatchNext]_(Promise!matchVars)
<1>0. /\ players \in Seq(PlayerRec) /\ s \in Used(room)
      /\ toMaster[s] \in Seq(HubMsg(WorkerTypes)) /\ toMaster[s] # <<>>
      /\ Head(toMaster[s]).type = "JOINED"
      /\ UNCHANGED <<announced, matchEnded, winner, mpc>>
  BY Zenon DEF HandleJoined, Heard, Used, TypeOK, HubTypeOK, MasterTypeOK, workerVars
<1>1. PICK p : p = Head(toMaster[s]).id
  BY Zenon
<1>2. /\ p \in Block(s) /\ \A i \in DOMAIN players : players[i].id # p
  <2>1. 1 \in DOMAIN toMaster[s] /\ Head(toMaster[s]) = toMaster[s][1]
    BY <1>0
  <2> QED BY <1>0, <1>1, <2>1 DEF IdInv, JoinsFresh
<1>3. p # 0
  <2>1. room[s].base \in Nat \ {0} /\ MaxLobby \in Nat
    BY <1>0, HubAssumption, Zenon DEF MatchInv, Based
  <2> QED BY <1>2, <2>1 DEF Block
<1> DEFINE rec == [id |-> p, room |-> s, alive |-> TRUE]
<1>4. players' = players \/ players' = Append(players, rec)
  BY <1>1, Zenon DEF HandleJoined
<1>5. CASE players' = players
  BY <1>0, <1>5, Quiet, Zenon DEF MatchInv, NoZero
<1>6. CASE players' = Append(players, rec)
  <2>1. PICK n : n = Len(players) + 1
    BY Zenon
  <2>2. /\ DOMAIN players' = DOMAIN players \cup {n} /\ n \notin DOMAIN players
        /\ players'[n] = rec /\ \A i \in DOMAIN players : players'[i] = players[i]
    BY <1>0, <1>6, <2>1
  <2>3. rec.id = p /\ rec.alive = TRUE
    BY Zenon
  <2> HIDE DEF rec
  <2>4. NoZero'
    BY <1>3, <2>2, <2>3, Zenon DEF MatchInv, NoZero
  <2>5. Ids(players)' = Ids(players) \cup {p}
    BY <2>2, <2>3 DEF Ids
  <2>6. Standing(players)' = Standing(players) \cup {p}
    BY <2>2, <2>3 DEF Standing
  <2>7. p \notin Ids(players) \cup {0}
    BY <1>2, <1>3, Zenon DEF Ids
  <2>8. Promise!Join(p) /\ p \in Ids(players)' \ Ids(players)
    BY <1>0, <2>5, <2>6, <2>7, Zenon DEF Promise!Join, Ids
  <2>9. Promise!MatchNext
    BY <2>8, Zenon DEF Promise!MatchNext, Ids
  <2> QED BY <2>4, <2>9, Zenon
<1> QED BY <1>4, <1>5, <1>6, Zenon

(* What the master does is a step of Match or shows it nothing.            *)
LEMMA MasterSimulates ==
    ASSUME TypeOK, IdInv, MatchInv,
           \/ AcceptClient \/ SpawnRoom \/ PressEnter \/ Interrupt \/ StopRoom
           \/ \E s \in Slots : MasterStep(s)
    PROVE  MatchInv' /\ [Promise!MatchNext]_(Promise!matchVars)
<1>0. room \in [Slots -> Room] /\ players \in Seq(PlayerRec) /\ IdsUnique /\ NoZero
  BY Zenon DEF TypeOK, MasterTypeOK, IdInv, MatchInv
<1>r. ASSUME UNCHANGED wk, \A t \in Slots : (room'[t].used => room[t].used) /\ room'[t].base = room[t].base
      PROVE  NoWord' /\ Based'
  BY <1>r, Zenon DEF MatchInv, NoWord, Based, Used
(* A step that opens no room and decides nothing.                          *)
<1>k. ASSUME UNCHANGED <<wk, announced, players, matchEnded, winner, mpc>>,
             \A t \in Slots : (room'[t].used => room[t].used) /\ room'[t].base = room[t].base
      PROVE  MatchInv' /\ [Promise!MatchNext]_(Promise!matchVars)
  <2>1. NoZero'
    BY <1>0, <1>k, Zenon DEF NoZero
  <2> QED BY <1>k, <1>r, <2>1, Quiet, Zenon DEF MatchInv
<1>1. CASE AcceptClient
  <2>1. PICK s \in Slots : room' = Deal(room, s)
    BY <1>1, Zenon DEF AcceptClient, First, Open, Used
  <2>2. \A t \in Slots : (room'[t].used => room[t].used) /\ room'[t].base = room[t].base
    BY <1>0, <2>1, Zenon DEF Deal, Room
  <2> QED BY <1>1, <1>k, <2>2, Zenon DEF AcceptClient
<1>2. CASE SpawnRoom
  <2>1. PICK s \in Slots : /\ room' = Deal([room EXCEPT ![s] = FreshRoom(spawn_base)], s)
                           /\ wk' = [wk EXCEPT ![s] = Process("boot", spawn_base)]
    BY <1>2, Zenon DEF SpawnRoom, First
  <2>2. UNCHANGED <<announced, players, matchEnded, winner, mpc>>
    BY <1>2, Zenon DEF SpawnRoom
  <2>3. wk'[s].winner = 0 /\ \A t \in Slots : t # s => wk'[t] = wk[t]
    BY <2>1, Zenon DEF Process, TypeOK, WkTypeOK
  <2>4. room'[s].base = spawn_base /\ \A t \in Slots : t # s => room'[t] = room[t]
    <3>1. PICK f : f = FreshRoom(spawn_base)
      BY Zenon
    <3>2. f.base = spawn_base /\ DOMAIN f = {"used", "ready", "started", "redirected", "joined", "pending", "base"}
      BY <3>1, Zenon DEF FreshRoom
    <3> QED BY <1>0, <2>1, <3>1, <3>2, Zenon DEF Deal
  <2>5. spawn_base \in Nat \ {0}
    <3>1. roomSeq \in Nat /\ MaxLobby \in Nat
      BY HubAssumption, MasterAssumption DEF TypeOK, MasterTypeOK
    <3>2. \A k, m \in Nat : 1 + k * m \in Nat \ {0}
      OBVIOUS
    <3> QED BY <3>1, <3>2, Zenon DEF spawn_base
  <2>6. NoWord'
    BY <2>3, Zenon DEF MatchInv, NoWord
  <2>7. Based'
    BY <2>4, <2>5, Zenon DEF MatchInv, Based, Used
  <2>8. NoZero'
    BY <1>0, <2>2, Zenon DEF NoZero
  <2> QED BY <2>2, <2>6, <2>7, <2>8, Quiet, Zenon DEF MatchInv
<1>3. CASE PressEnter
  <2>1. \A t \in Slots : (room'[t].used => room[t].used) /\ room'[t].base = room[t].base
    BY <1>0, <1>3, Zenon DEF PressEnter, Started, Room
  <2> QED BY <1>3, <1>k, <2>1, Zenon DEF PressEnter, workerVars
<1>4. CASE Interrupt
  <2>1. UNCHANGED <<wk, announced, room, players, matchEnded, winner>> /\ mpc' = "stop"
    BY <1>4, Zenon DEF Interrupt, workerVars
  <2>2. MatchInv'
    BY <2>1, Zenon DEF MatchInv, NoWord, Based, NoZero, Used
  <2>3. Standing(players)' = Standing(players)
    BY <2>1, Zenon DEF Standing
  <2>4. Promise!Stop
    BY <2>1, <2>3, Zenon DEF Promise!Stop
  <2> QED BY <2>2, <2>4, Zenon DEF Promise!MatchNext
<1>5. CASE StopRoom
  <2>1. PICK s \in Slots : close_room(s)
    BY <1>5, Zenon DEF StopRoom, First, Used
  <2> QED BY <1>5, <2>1, CloseSimulates, Zenon DEF StopRoom, workerVars
<1>6. ASSUME NEW s \in Slots, HandleReady(s)
      PROVE  MatchInv' /\ [Promise!MatchNext]_(Promise!matchVars)
  <2>1. \A t \in Slots : (room'[t].used => room[t].used) /\ room'[t].base = room[t].base
    BY <1>0, <1>6, Zenon DEF HandleReady, Room
  <2> QED BY <1>6, <1>k, <2>1, Zenon DEF HandleReady
<1>7. ASSUME NEW s \in Slots, HandleJoined(s)
      PROVE  MatchInv' /\ [Promise!MatchNext]_(Promise!matchVars)
  <2>1. \A t \in Slots : (room'[t].used => room[t].used) /\ room'[t].base = room[t].base
    <3> DEFINE rm == [room EXCEPT ![s].joined = @ + 1]
    <3>1. room' = rm \/ room' = Started(rm)
      BY <1>7, Zenon DEF HandleJoined
    <3>2. \A t \in Slots : /\ rm[t].used = room[t].used /\ rm[t].base = room[t].base
                           /\ "started" \in DOMAIN rm[t]
      BY <1>0, Zenon DEF Room
    <3> HIDE DEF rm
    <3>3. \A t \in Slots : Started(rm)[t].used = rm[t].used /\ Started(rm)[t].base = rm[t].base
      BY <3>2 DEF Started
    <3> QED BY <3>1, <3>2, <3>3
  <2>2. NoWord' /\ Based'
    BY <1>7, <1>r, <2>1, Zenon DEF HandleJoined, workerVars
  <2> QED BY <1>7, <2>2, JoinedSimulates, Zenon DEF MatchInv
<1>8. ASSUME NEW s \in Slots, HandleEliminated(s)
      PROVE  MatchInv' /\ [Promise!MatchNext]_(Promise!matchVars)
  <2>1. \E dead, q, rm : players' = Bury(players, dead) /\ check_global_end(q, rm, players')
    BY <1>8, Zenon DEF HandleEliminated
  <2>2. UNCHANGED <<wk, announced, room, mpc>>
    BY <1>8, Zenon DEF HandleEliminated, workerVars
  <2>3. \E losers \in SUBSET Standing(players) : Promise!Fall(losers)
    BY <1>0, <2>1, <2>2, BuryIsFall
  <2>4. NoZero'
    BY <1>0, <2>1, Buried DEF NoZero
  <2>5. NoWord' /\ Based'
    BY <1>r, <2>2, Zenon
  <2> QED BY <2>3, <2>4, <2>5, Zenon DEF MatchInv, Promise!MatchNext
<1>9. ASSUME NEW s \in Slots, HandleAttack(s)
      PROVE  MatchInv' /\ [Promise!MatchNext]_(Promise!matchVars)
  BY <1>9, <1>k, Zenon DEF HandleAttack, workerVars, masterVars
<1>10. ASSUME NEW s \in Slots, HandleFeed(s)
       PROVE  MatchInv' /\ [Promise!MatchNext]_(Promise!matchVars)
  BY <1>10, <1>k, Zenon DEF HandleFeed, workerVars, masterVars
<1>11. ASSUME NEW s \in Slots, WorkerGone(s)
       PROVE  MatchInv' /\ [Promise!MatchNext]_(Promise!matchVars)
  <2>1. close_room(s) /\ UNCHANGED <<wk, announced>> /\ mpc # "stop" /\ mpc' # "stop"
    BY <1>11, Zenon DEF WorkerGone, workerVars
  <2> QED BY <2>1, CloseSimulates, Zenon
<1> QED BY <1>1, <1>2, <1>3, <1>4, <1>5, <1>6, <1>7, <1>8, <1>9, <1>10, <1>11 DEF MasterStep

-----------------------------------------------------------------------------
(* The daemon implements the match it promises, for every number of rooms, *)
(* clients, crashes and attacks: players join once, fall for good, the     *)
(* match is decided once and at the right moment (check_global_end,        *)
(* main.c:270-307), and a finished room announces that verdict.  The       *)
(* assumption is the one under which ids are unique.                       *)
THEOREM DaemonImplementsMatch == ASSUME StaleClients = FALSE PROVE Spec => ImplementsMatch
<1>1. Init => MatchInv /\ Promise!MatchInit
  <2> SUFFICES ASSUME Init PROVE MatchInv /\ Promise!MatchInit
    BY Zenon
  <2>1. players = <<>> /\ DOMAIN players = {} /\ Used(room) = {} /\ \A s \in Slots : wk[s].winner = 0
    BY DEF Init, Process, FreshRoom, Used
  <2>2. MatchInv
    BY <2>1, Zenon DEF MatchInv, NoWord, Based, NoZero
  <2>3. Standing(players) = {} /\ {players[i].id : i \in DOMAIN players} = {}
    BY <2>1, Zenon DEF Standing
  <2> QED BY <2>2, <2>3, Zenon DEF Init, Promise!MatchInit
<1>2. TypeOK /\ IdInv /\ VerdictInv /\ MatchInv /\ [Next]_vars
        => MatchInv' /\ [Promise!MatchNext]_(Promise!matchVars)
  <2> SUFFICES ASSUME TypeOK, IdInv, VerdictInv, MatchInv, [Next]_vars
               PROVE  MatchInv' /\ [Promise!MatchNext]_(Promise!matchVars)
    BY Zenon
  <2>1. ASSUME NEW s \in Slots, WorkerStep(s) \/ WorkerEvent(s)
        PROVE  MatchInv' /\ [Promise!MatchNext]_(Promise!matchVars)
    <3>1. NoWord' /\ [Promise!MatchNext]_(Promise!matchVars)
      BY <2>1, WorkerSimulates, Zenon DEF MatchInv
    <3>2. UNCHANGED <<room, players>>
      BY <2>1, Zenon DEF WorkerStep, WorkerEvent, masterVars
    <3>3. Based' /\ NoZero'
      BY <3>2, Zenon DEF MatchInv, Based, NoZero, Used
    <3> QED BY <3>1, <3>3, Zenon DEF MatchInv
  <2>2. CASE Next
    BY <2>1, <2>2, MasterSimulates, Zenon DEF Next
  <2>3. CASE UNCHANGED vars
    <3>1. UNCHANGED <<wk, room, players, matchEnded, winner, announced, mpc>>
      BY <2>3, Zenon DEF vars, workerVars, masterVars
    <3>2. MatchInv'
      BY <3>1, Zenon DEF MatchInv, NoWord, Based, NoZero, Used
    <3> QED BY <3>1, <3>2, Quiet, Zenon
  <2> QED BY <2>2, <2>3, Zenon
<1> QED BY <1>1, <1>2, Typing, IdsInductive, VerdictsInductive, PTL
        DEF Spec, ImplementsMatch, Promise!MatchSpec

-----------------------------------------------------------------------------
(* i is the place of the last ROSTER of queue q.                           *)
LastRoster(q, i) == /\ q[i].type = "ROSTER"
                    /\ \A j \in DOMAIN q : q[j].type = "ROSTER" => j <= i

(* A room that holds the roster held, with queue q, comes to hold alive.   *)
Shows(q, held, alive) ==
    \/ held = alive /\ \A j \in DOMAIN q : q[j].type # "ROSTER"
    \/ \E i \in DOMAIN q : LastRoster(q, i) /\ q[i].alive = alive

(* So do all running rooms of rm with the queues qs.                       *)
View(rm, qs, alive) == \A s \in Running(rm) : Live(s) => Shows(qs[s], wk[s].global, alive)

RosterInv == View(room, toWorker, Standing(players))

(* Behind a roster the queue shows that one, behind any other message what *)
(* it showed before.                                                       *)
LEMMA AppendShows ==
    ASSUME NEW M, NEW q \in Seq(M), NEW m \in M, NEW held, NEW alive
    PROVE  /\ m.type = "ROSTER" => Shows(Append(q, m), held, m.alive)
           /\ m.type # "ROSTER" /\ Shows(q, held, alive) => Shows(Append(q, m), held, alive)
<1>1. PICK a, n : a = Append(q, m) /\ n = Len(q)
  BY Zenon
<1>2. /\ n \in Nat /\ DOMAIN q = 1..n /\ DOMAIN a = 1..(n + 1)
      /\ a[n + 1] = m /\ \A i \in 1..n : a[i] = q[i]
  BY <1>1
<1>3. ASSUME m.type = "ROSTER" PROVE Shows(a, held, m.alive)
  BY <1>2, <1>3 DEF Shows, LastRoster
<1>4. ASSUME m.type # "ROSTER", Shows(q, held, alive) PROVE Shows(a, held, alive)
  <2>1. \A j \in DOMAIN a : a[j].type = "ROSTER" => j \in DOMAIN q /\ a[j] = q[j]
    BY <1>2, <1>4
  <2>2. \A j \in DOMAIN q : j \in DOMAIN a /\ a[j] = q[j]
    BY <1>2
  <2> QED BY <1>4, <2>1, <2>2, Zenon DEF Shows, LastRoster
<1> QED BY <1>1, <1>3, <1>4, Zenon

(* The worker that takes a roster holds it, until a newer one comes.       *)
LEMMA TakeShows ==
    ASSUME NEW M, NEW q \in Seq(M), q # <<>>, NEW held, NEW alive, Shows(q, held, alive)
    PROVE  Shows(Tail(q), IF Head(q).type = "ROSTER" THEN Head(q).alive ELSE held, alive)
<1>1. PICK t, n : t = Tail(q) /\ n = Len(q)
  BY Zenon
<1>2. /\ n \in Nat \ {0} /\ DOMAIN q = 1..n /\ DOMAIN t = 1..(n - 1)
      /\ Head(q) = q[1] /\ \A i \in 1..(n - 1) : t[i] = q[i + 1]
  BY <1>1
<1>3. \A i \in DOMAIN t : i + 1 \in DOMAIN q /\ t[i] = q[i + 1] /\ i \in Nat
  BY <1>2
<1>4. CASE \A j \in DOMAIN q : q[j].type # "ROSTER"
  <2>1. held = alive
    BY <1>4, Zenon DEF Shows, LastRoster
  <2>2. Head(q).type # "ROSTER"
    BY <1>2, <1>4
  <2>3. \A j \in DOMAIN t : t[j].type # "ROSTER"
    BY <1>3, <1>4, Zenon
  <2> QED BY <1>1, <2>1, <2>2, <2>3, Zenon DEF Shows
<1>5. ASSUME NEW i \in DOMAIN q, LastRoster(q, i), q[i].alive = alive
      PROVE  Shows(t, IF Head(q).type = "ROSTER" THEN Head(q).alive ELSE held, alive)
  <2>1. CASE i = 1
    <3>0. \A k \in DOMAIN q : q[k].type = "ROSTER" => k <= 1
      BY <1>5, <2>1, Zenon DEF LastRoster
    <3>1. ASSUME NEW j \in DOMAIN t PROVE t[j].type # "ROSTER"
      <4>1. j + 1 \in DOMAIN q /\ t[j] = q[j + 1] /\ j \in Nat \ {0}
        BY <1>2, <1>3
      <4>2. ~(j + 1 <= 1)
        BY <4>1
      <4> QED BY <3>0, <4>1, <4>2, Zenon
    <3>2. Head(q).type = "ROSTER" /\ Head(q).alive = alive
      BY <1>2, <1>5, <2>1, Zenon DEF LastRoster
    <3> QED BY <3>1, <3>2, Zenon DEF Shows
  <2>2. CASE i # 1
    <3>1. i - 1 \in DOMAIN t /\ t[i - 1] = q[i]
      BY <1>2, <2>2
    <3>2. \A j \in DOMAIN t : t[j].type = "ROSTER" => j <= i - 1
      BY <1>2, <1>3, <1>5 DEF LastRoster
    <3> QED BY <1>5, <3>1, <3>2, Zenon DEF Shows, LastRoster
  <2> QED BY <2>1, <2>2, Zenon
<1> QED BY <1>1, <1>4, <1>5, Zenon DEF Shows

(* What a running room shows is what it comes to hold.                     *)
LEMMA ShowsLatest ==
    ASSUME NEW s \in Slots, NEW alive, toWorker \in [Slots -> Seq(HubMsg(MasterTypes))],
           Shows(toWorker[s], wk[s].global, alive)
    PROVE  LatestRoster(s) = alive
<1> DEFINE rosters == {i \in DOMAIN toWorker[s] : toWorker[s][i].type = "ROSTER"}
<1>1. CASE \A j \in DOMAIN toWorker[s] : toWorker[s][j].type # "ROSTER"
  <2>1. rosters = {}
    BY <1>1, Zenon
  <2>2. wk[s].global = alive
    BY <1>1, Zenon DEF Shows, LastRoster
  <2> QED BY <2>1, <2>2, Zenon DEF LatestRoster
<1>2. ASSUME NEW i \in DOMAIN toWorker[s], LastRoster(toWorker[s], i), toWorker[s][i].alive = alive
      PROVE  LatestRoster(s) = alive
  <2>1. i \in rosters /\ \A j \in rosters : j <= i /\ j \in Nat
    <3>1. \A j \in DOMAIN toWorker[s] : j \in Nat
      OBVIOUS
    <3> QED BY <1>2, <3>1, Zenon DEF LastRoster
  <2>2. \A k \in rosters : (\A j \in rosters : j <= k) => k = i
    BY <2>1
  <2>3. (CHOOSE k \in rosters : \A j \in rosters : j <= k) = i
    BY <2>1, <2>2, Zenon
  <2> QED BY <1>2, <2>1, <2>3, Zenon DEF LatestRoster
<1> QED BY <1>1, <1>2, Zenon DEF Shows

-----------------------------------------------------------------------------
(* Messages other than rosters change no room's view.                      *)
LEMMA SendView ==
    ASSUME NEW q \in [Slots -> Seq(HubMsg(MasterTypes))], NEW m \in HubMsg(MasterTypes),
           m.type # "ROSTER", NEW rm, NEW dest, NEW alive, View(rm, q, alive)
    PROVE  View(rm, Send(q, dest, m), alive)
<1> SUFFICES ASSUME NEW s \in Running(rm), Live(s)
             PROVE  Shows(Send(q, dest, m)[s], wk[s].global, alive)
  BY Zenon DEF View
<1>1. s \in Slots /\ q[s] \in Seq(HubMsg(MasterTypes)) /\ Shows(q[s], wk[s].global, alive)
  BY Zenon DEF Running, Used, View
<1>2. Send(q, dest, m)[s] \in {q[s], Append(q[s], m)}
  BY <1>1, Zenon DEF Send, hub_send
<1>3. Shows(Append(q[s], m), wk[s].global, alive)
  BY <1>1, AppendShows, Zenon
<1> QED BY <1>1, <1>2, <1>3, Zenon

(* broadcast_roster brings every running room up to the table it is given. *)
LEMMA BroadcastView ==
    ASSUME NEW q \in [Slots -> Seq(HubMsg(MasterTypes))], NEW rm, NEW pl \in Seq(PlayerRec)
    PROVE  View(rm, broadcast_roster(q, rm, pl), Standing(pl))
<1> SUFFICES ASSUME NEW s \in Running(rm), Live(s)
             PROVE  Shows(broadcast_roster(q, rm, pl)[s], wk[s].global, Standing(pl))
  BY Zenon DEF View
<1>1. s \in Slots /\ q[s] \in Seq(HubMsg(MasterTypes))
  BY Zenon DEF Running, Used
<1>2. PICK m : m = RosterMsg(Standing(pl))
  BY Zenon
<1>3. m \in HubMsg(MasterTypes) /\ m.type = "ROSTER" /\ m.alive = Standing(pl)
  BY <1>2, StandingType, RosterMsgType, Zenon DEF RosterMsg
<1>4. broadcast_roster(q, rm, pl)[s] = Append(q[s], m)
  BY <1>1, <1>2, Zenon DEF broadcast_roster, Send, hub_send
<1> QED BY <1>1, <1>3, <1>4, AppendShows, Zenon

(* Behind rosters that all show the same table the queue shows that one.   *)
LEMMA ConcatShows ==
    ASSUME NEW q \in Seq(HubMsg(MasterTypes)), NEW t \in Seq(HubMsg(MasterTypes)),
           NEW held, NEW alive, t # <<>>, t[Len(t)].type = "ROSTER", t[Len(t)].alive = alive
    PROVE  Shows(q \o t, held, alive)
<1>1. PICK a, n, k : a = q \o t /\ n = Len(q) /\ k = Len(t)
  BY Zenon
<1>2. /\ n \in Nat /\ k \in Nat \ {0} /\ DOMAIN a = 1..(n + k) /\ a[n + k] = t[k]
  BY <1>1
<1>3. n + k \in DOMAIN a /\ \A j \in DOMAIN a : j <= n + k
  BY <1>2
<1> QED BY <1>1, <1>2, <1>3, Zenon DEF Shows, LastRoster

(* start_all_rooms sends every room it starts, and every room that runs    *)
(* already if it starts any, the table last (main.c:244-268).              *)
LEMMA StartView ==
    ASSUME NEW q \in [Slots -> Seq(HubMsg(MasterTypes))], NEW rm \in [Slots -> Room],
           NEW pl \in Seq(PlayerRec), View(rm, q, Standing(pl))
    PROVE  View(Started(rm), start_all_rooms(q, rm, pl), Standing(pl))
<1> SUFFICES ASSUME NEW s \in Running(Started(rm)), Live(s)
             PROVE  Shows(start_all_rooms(q, rm, pl)[s], wk[s].global, Standing(pl))
  BY Zenon DEF View
<1>1. s \in Slots /\ q[s] \in Seq(HubMsg(MasterTypes)) /\ rm[s] \in Room
  BY Zenon DEF Running, Used
<1>2. s \in Startable(rm) \cup Running(rm)
  BY <1>1, Zenon DEF Running, Used, Started, Startable, Room
<1> DEFINE S == {t \in Startable(rm) : s \in Running(rm) \/ t >= s}
           n == Cardinality(S)
           m == RosterMsg(Standing(pl))
           rosters == [i \in 1..n |-> m]
           start == IF s \in Startable(rm) THEN <<Msg("START", rm[s].redirected)>> ELSE <<>>
<1>3. start_all_rooms(q, rm, pl)[s] = q[s] \o (start \o rosters)
  BY <1>1, <1>2, Zenon DEF start_all_rooms
<1>4. m \in HubMsg(MasterTypes) /\ m.type = "ROSTER" /\ m.alive = Standing(pl)
  BY StandingType, RosterMsgType, Zenon DEF RosterMsg
<1>5. start \in Seq(HubMsg(MasterTypes))
  <2>1. Msg("START", rm[s].redirected) \in HubMsg(MasterTypes)
    BY <1>1, MsgType, Zenon DEF MasterTypes, Room
  <2> QED BY <2>1
<1>6. n \in Nat /\ (n = 0 <=> S = {})
  <2>1. S \in SUBSET Slots
    BY Zenon DEF Startable, Used
  <2> QED BY <2>1, CountAssumption, Zenon
<1>7. s \in Startable(rm) => s \in S
  BY <1>1 DEF Slots
<1> HIDE DEF n, m, start, S
<1>8. CASE n = 0
  <2>1. start = <<>> /\ rosters = <<>> /\ s \in Running(rm)
    <3>1. s \notin Startable(rm)
      BY <1>6, <1>7, <1>8, Zenon
    <3>2. rosters = <<>>
      BY <1>8
    <3> QED BY <1>2, <3>1, <3>2, Zenon DEF start
  <2>2. q[s] \o (<<>> \o <<>>) = q[s]
    BY <1>1
  <2> QED BY <1>3, <2>1, <2>2, Zenon DEF View
<1>9. CASE n # 0
  <2>1. /\ rosters \in Seq(HubMsg(MasterTypes)) /\ Len(rosters) = n /\ n \in Nat \ {0}
        /\ rosters[n] = m
    BY <1>4, <1>6, <1>9
  <2> HIDE DEF rosters
  <2>2. PICK t : t = start \o rosters
    BY Zenon
  <2>3. t \in Seq(HubMsg(MasterTypes)) /\ t # <<>> /\ t[Len(t)] = m
    BY <1>5, <2>1, <2>2
  <2> QED BY <1>1, <1>3, <1>4, <2>2, <2>3, ConcatShows, Zenon
<1> QED BY <1>8, <1>9, Zenon

(* check_global_end sends no roster.                                       *)
LEMMA EndView ==
    ASSUME NEW q \in [Slots -> Seq(HubMsg(MasterTypes))], NEW rm, NEW dest,
           NEW pl \in Seq(PlayerRec), NEW alive, View(rm, q, alive), check_global_end(q, dest, pl)
    PROVE  View(rm, toWorker', alive)
<1>1. PICK m : m = Msg("GAMEOVER", WinnerOf(pl))
  BY Zenon
<1>2. m \in HubMsg(MasterTypes) /\ m.type # "ROSTER"
  BY <1>1, WinnerType, MsgType, Zenon DEF MasterTypes, Msg
<1>3. toWorker' = q \/ toWorker' = Send(q, Used(dest), m)
  BY <1>1, Zenon DEF check_global_end
<1>4. View(rm, Send(q, Used(dest), m), alive)
  BY <1>2, SendView, Zenon
<1> QED BY <1>3, <1>4, Zenon

-----------------------------------------------------------------------------
(* A worker changes what it shows by no step of its own: it takes its      *)
(* messages in order, in the lobby and in the match.                       *)
LEMMA WorkerRoster ==
    ASSUME TypeOK, RosterInv, NEW s \in Slots, WorkerStep(s) \/ WorkerEvent(s)
    PROVE  RosterInv'
<1>0. /\ wk \in [Slots -> Worker] /\ wk[s] \in Worker
      /\ toWorker \in [Slots -> Seq(HubMsg(MasterTypes))] /\ toWorker[s] \in Seq(HubMsg(MasterTypes))
      /\ UNCHANGED <<room, players>>
  BY Zenon DEF TypeOK, HubTypeOK, WkTypeOK, WorkerStep, WorkerEvent, masterVars
<1>r. Running(room') = Running(room) /\ Standing(players') = Standing(players)
  BY <1>0, Zenon
(* It suffices to look at room s, if it still runs.                        *)
<1>s. ASSUME \A t \in Slots : t # s => wk'[t] = wk[t] /\ toWorker'[t] = toWorker[t],
             Live(s)' => /\ Live(s)
                         /\ Shows(toWorker[s], wk[s].global, Standing(players))
                              => Shows(toWorker'[s], wk'[s].global, Standing(players))
      PROVE  RosterInv'
  <2> SUFFICES ASSUME NEW t \in Running(room), Live(t)'
               PROVE  Shows(toWorker'[t], wk'[t].global, Standing(players))
    BY <1>r, Zenon DEF RosterInv, View
  <2>1. t \in Slots
    BY Zenon DEF Running, Used
  <2>2. CASE t = s
    BY <1>s, <2>2, Zenon DEF RosterInv, View
  <2>3. CASE t # s
    BY <1>s, <2>1, <2>3, Zenon DEF RosterInv, View, Live
  <2> QED BY <2>2, <2>3, Zenon
<1>e. ASSUME Exit(s) PROVE RosterInv'
  <2>1. ~Live(s)'
    BY <1>0, <1>e, Zenon DEF Exit, Process, Live
  <2>2. \A t \in Slots : t # s => wk'[t] = wk[t] /\ toWorker'[t] = toWorker[t]
    BY <1>0, <1>e, Zenon DEF Exit
  <2> QED BY <1>s, <2>1, <2>2, Zenon
<1>u. ASSUME UNCHANGED toWorker, \A t \in Slots : t # s => wk'[t] = wk[t],
             wk'[s].global = wk[s].global, Live(s)
      PROVE  RosterInv'
  BY <1>s, <1>u, Zenon
<1>t. ASSUME toWorker[s] # <<>>, Took(s), Live(s), \A t \in Slots : t # s => wk'[t] = wk[t],
             wk'[s].global = IF Head(toWorker[s]).type = "ROSTER" THEN Head(toWorker[s]).alive
                             ELSE wk[s].global
      PROVE  RosterInv'
  <2>1. toWorker'[s] = Tail(toWorker[s]) /\ \A t \in Slots : t # s => toWorker'[t] = toWorker[t]
    BY <1>0, <1>t, Zenon DEF Took
  <2>2. Shows(toWorker[s], wk[s].global, Standing(players))
          => Shows(toWorker'[s], wk'[s].global, Standing(players))
    BY <1>0, <1>t, <2>1, TakeShows, Zenon
  <2> QED BY <1>s, <1>t, <2>1, <2>2, Zenon
<1>1. CASE Boot(s, MasterEnds)
  BY <1>0, <1>1, <1>u, Zenon DEF Boot, Worker, Live
<1>2. CASE ReportJoin(s, MasterEnds)
  BY <1>0, <1>2, <1>u, Zenon DEF ReportJoin, Worker, Live
<1>3. CASE LobbyRecv(s)
  <2>1. /\ wk'[s].global = IF Head(toWorker[s]).type = "ROSTER" THEN Head(toWorker[s]).alive
                           ELSE wk[s].global
        /\ \A t \in Slots : t # s => wk'[t] = wk[t]
    BY <1>0, <1>3, Zenon DEF LobbyRecv, LobbyTake, Inbox, Worker
  <2> QED BY <1>3, <1>t, <2>1, Zenon DEF LobbyRecv, Inbox, Live
<1>4. CASE \E graceOver \in BOOLEAN : LobbyStart(s, graceOver)
  <2>1. CASE Exit(s)
    BY <1>e, <2>1, Zenon
  <2>2. CASE ~Exit(s)
    BY <1>0, <1>4, <1>u, <2>2 DEF LobbyStart, Worker, Live, hubVars
  <2> QED BY <2>1, <2>2, Zenon
<1>5. CASE MasterGone(s, MasterEnds)
  <2>1. CASE wk[s].pc = "lobby"
    BY <1>5, <1>e, <2>1, Zenon DEF MasterGone
  <2>2. CASE wk[s].pc # "lobby"
    BY <1>0, <1>5, <1>u, <2>2 DEF MasterGone, HungUp, Worker, Live, hubVars
  <2> QED BY <2>1, <2>2, Zenon
<1>6. CASE PlayRecv(s)
  <2>1. /\ wk'[s].global = IF Head(toWorker[s]).type = "ROSTER" THEN Head(toWorker[s]).alive
                           ELSE wk[s].global
        /\ \A t \in Slots : t # s => wk'[t] = wk[t]
    BY <1>0, <1>6, Zenon DEF PlayRecv, PlayTake, Inbox, Worker
  <2> QED BY <1>6, <1>t, <2>1, Zenon DEF PlayRecv, Inbox, Live
<1>7. CASE ReportElim(s, MasterEnds)
  BY <1>0, <1>7, <1>u DEF ReportElim, Worker, Live
<1>8. CASE Route(s, MasterEnds)
  <2>1. PICK g : wk' = [wk EXCEPT ![s].garbage = @ \ {g}]
    BY <1>8, Zenon DEF Route
  <2>2. UNCHANGED toWorker /\ Live(s)
    BY <1>8, Zenon DEF Route, Live
  <2> QED BY <1>0, <1>u, <2>1, <2>2 DEF Worker
<1>9. CASE RoomOver(s)
  BY <1>0, <1>9, <1>u, Zenon DEF RoomOver, Worker, Live, hubVars
<1>10. CASE RoomExit(s)
  BY <1>10, <1>e, Zenon DEF RoomExit
<1>11. CASE Arrive(s)
  BY <1>0, <1>11, <1>u, Zenon DEF Arrive, Worker, Live
<1>12. CASE ArriveFails(s)
  BY <1>0, <1>12, <1>u, Zenon DEF ArriveFails, Worker, Live
<1>13. CASE Crash(s)
  BY <1>13, <1>e, Zenon DEF Crash
<1>14. ASSUME NEW p \in Session(s), Quit(s, p)
       PROVE  RosterInv'
  BY <1>0, <1>14, <1>u, Zenon DEF Quit, Playing, Worker, Live, hubVars
<1>15. ASSUME NEW p \in Session(s), TopOut(s, p)
       PROVE  RosterInv'
  BY <1>0, <1>15, <1>u, Zenon DEF TopOut, Playing, Worker, Live, hubVars
<1>16. ASSUME NEW p \in Session(s), NEW toppedOut \in BOOLEAN, ClearLines(s, p, toppedOut)
       PROVE  RosterInv'
  <2>1. PICK G, O : wk' = [wk EXCEPT ![s].garbage = G, ![s].out = O]
    BY <1>16, Zenon DEF ClearLines
  <2>2. UNCHANGED toWorker /\ Live(s)
    BY <1>16, Zenon DEF ClearLines, Playing, Live, hubVars
  <2> QED BY <1>0, <1>u, <2>1, <2>2, Zenon DEF Worker
<1> QED BY <1>1, <1>2, <1>3, <1>4, <1>5, <1>6, <1>7, <1>8, <1>9, <1>10, <1>11, <1>12, <1>13,
           <1>14, <1>15, <1>16 DEF WorkerStep, WorkerEvent

(* When the master changes the table it tells every running room, and the  *)
(* rooms it starts, before it does anything else.                          *)
LEMMA MasterRoster ==
    ASSUME TypeOK, RosterInv,
           \/ AcceptClient \/ SpawnRoom \/ PressEnter \/ Interrupt \/ StopRoom
           \/ \E s \in Slots : MasterStep(s)
    PROVE  RosterInv'
<1>0. /\ room \in [Slots -> Room] /\ players \in Seq(PlayerRec) /\ HubTypeOK
      /\ toWorker \in [Slots -> Seq(HubMsg(MasterTypes))]
  BY Zenon DEF TypeOK, MasterTypeOK, HubTypeOK
<1>i. View(room, toWorker, Standing(players))
  BY Zenon DEF RosterInv
<1>v. ASSUME UNCHANGED wk, View(room', toWorker', Standing(players')) PROVE RosterInv'
  BY <1>v, Zenon DEF RosterInv, View, Live
(* A step that starts no room and tells none.                              *)
<1>k. ASSUME UNCHANGED <<wk, toWorker, players>>, Running(room') \subseteq Running(room)
      PROVE  RosterInv'
  BY <1>i, <1>k, <1>v, Zenon DEF View
<1>c. ASSUME NEW s \in Slots, close_room(s), UNCHANGED wk PROVE RosterInv'
  <2>1. PICK rm, pl : /\ rm = [room EXCEPT ![s].used = FALSE]
                      /\ pl = IF matchEnded THEN players ELSE Bury(players, Occupants(s))
    BY Zenon
  <2>2. /\ room' = rm /\ players' = pl
        /\ IF pl # players
           THEN check_global_end(broadcast_roster(toWorker, rm, pl), rm, pl)
           ELSE UNCHANGED <<toWorker, matchEnded, winner>>
    BY <1>c, <2>1, Zenon DEF close_room
  <2>3. pl \in Seq(PlayerRec)
    BY <1>0, <2>1, BuryType, Zenon
  <2>4. CASE pl = players
    <3>1. Running(rm) \subseteq Running(room)
      BY <1>0, <2>1, Zenon DEF Running, Used, Room
    <3> QED BY <1>c, <1>k, <2>2, <2>4, <3>1, Zenon
  <2>5. CASE pl # players
    <3>1. PICK q : q = broadcast_roster(toWorker, rm, pl)
      BY Zenon
    <3>2. q \in [Slots -> Seq(HubMsg(MasterTypes))] /\ View(rm, q, Standing(pl))
      BY <1>0, <2>3, <3>1, BroadcastType, BroadcastView, Zenon
    <3>3. View(rm, toWorker', Standing(pl))
      BY <2>2, <2>3, <2>5, <3>1, <3>2, EndView
    <3> QED BY <1>c, <1>v, <2>2, <3>3, Zenon
  <2> QED BY <2>4, <2>5, Zenon
<1>1. CASE AcceptClient
  <2>1. PICK s \in Slots : room' = Deal(room, s)
    BY <1>1, Zenon DEF AcceptClient, First, Open, Used
  <2>2. Running(room') \subseteq Running(room)
    BY <1>0, <2>1 DEF Deal, Room, Running, Used
  <2> QED BY <1>1, <1>k, <2>2, Zenon DEF AcceptClient, hubVars
<1>2. CASE SpawnRoom
  <2>1. PICK s \in Slots : /\ room' = Deal([room EXCEPT ![s] = FreshRoom(spawn_base)], s)
                           /\ wk' = [wk EXCEPT ![s] = Process("boot", spawn_base)]
                           /\ toWorker' = [toWorker EXCEPT ![s] = <<>>]
    BY <1>2, Zenon DEF SpawnRoom, First
  <2>2. \A t \in Slots : t # s => wk'[t] = wk[t] /\ toWorker'[t] = toWorker[t]
    BY <1>0, <2>1, Zenon DEF TypeOK, WkTypeOK
  <2>3. ~room'[s].started /\ \A t \in Slots : t # s => room'[t] = room[t]
    <3>1. PICK f : f = FreshRoom(spawn_base)
      BY Zenon
    <3>2. f.started = FALSE /\ DOMAIN f = {"used", "ready", "started", "redirected", "joined", "pending", "base"}
      BY <3>1, Zenon DEF FreshRoom
    <3> QED BY <1>0, <2>1, <3>1, <3>2, Zenon DEF Deal
  <2>4. UNCHANGED players
    BY <1>2, Zenon DEF SpawnRoom
  <2>5. \A t \in Running(room') : t # s /\ t \in Slots /\ t \in Running(room)
    BY <2>3, Zenon DEF Running, Used
  <2> QED BY <1>i, <2>2, <2>4, <2>5, Zenon DEF RosterInv, View, Live
<1>3. CASE PressEnter
  <2>1. View(Started(room), start_all_rooms(toWorker, room, players), Standing(players))
    BY <1>0, <1>i, StartView, Zenon
  <2> QED BY <1>3, <1>v, <2>1, Zenon DEF PressEnter, workerVars
<1>4. CASE Interrupt
  BY <1>4, <1>k, Zenon DEF Interrupt, hubVars, workerVars
<1>5. CASE StopRoom
  <2>1. PICK s \in Slots : close_room(s)
    BY <1>5, Zenon DEF StopRoom, First, Used
  <2> QED BY <1>5, <1>c, <2>1, Zenon DEF StopRoom, workerVars
<1>6. ASSUME NEW s \in Slots, HandleReady(s)
      PROVE  RosterInv'
  <2>1. Running(room') \subseteq Running(room)
    BY <1>0, <1>6 DEF HandleReady, Room, Running, Used
  <2> QED BY <1>6, <1>k, <2>1, Zenon DEF HandleReady
<1>7. ASSUME NEW s \in Slots, HandleJoined(s)
      PROVE  RosterInv'
  <2>1. PICK rec, rm : /\ rec = [id |-> Head(toMaster[s]).id, room |-> s, alive |-> TRUE]
                       /\ rm = [room EXCEPT ![s].joined = @ + 1]
    BY Zenon
  <2>2. PICK pl : pl = IF Len(players) < MaxPlayers THEN Append(players, rec) ELSE players
    BY Zenon
  <2>3. PICK q : q = broadcast_roster(toWorker, rm, pl)
    BY Zenon
  <2>4. /\ players' = pl
        /\ \/ toWorker' = start_all_rooms(q, rm, pl) /\ room' = Started(rm)
           \/ toWorker' = q /\ room' = rm
    BY <1>7, <2>1, <2>2, <2>3, Zenon DEF HandleJoined
  <2>5. pl \in Seq(PlayerRec)
    <3>1. Head(toMaster[s]).id \in Nat
      BY <1>0, <1>7, HeardType, Zenon DEF HandleJoined
    <3>2. rec \in PlayerRec
      BY <2>1, <3>1, Zenon DEF PlayerRec
    <3> QED BY <1>0, <2>2, <3>2
  <2>6. rm \in [Slots -> Room]
    <3>1. PICK n : n = room[s].joined + 1
      BY Zenon
    <3>2. room[s] \in Room /\ n \in Nat
      BY <1>0, <3>1 DEF Room
    <3>3. [room[s] EXCEPT !.joined = n] \in Room
      BY <3>2, Zenon DEF Room
    <3> QED BY <1>0, <2>1, <3>1, <3>3, Zenon
  <2>7. q \in [Slots -> Seq(HubMsg(MasterTypes))] /\ View(rm, q, Standing(pl))
    BY <1>0, <2>3, <2>5, BroadcastType, BroadcastView, Zenon
  <2>8. View(Started(rm), start_all_rooms(q, rm, pl), Standing(pl))
    BY <2>5, <2>6, <2>7, StartView, Zenon
  <2> QED BY <1>7, <1>v, <2>4, <2>7, <2>8, Zenon DEF HandleJoined, workerVars
<1>8. ASSUME NEW s \in Slots, HandleEliminated(s)
      PROVE  RosterInv'
  <2>1. PICK dead : /\ players' = Bury(players, dead)
                    /\ check_global_end(broadcast_roster(toWorker, room, players'), room, players')
    BY <1>8, Zenon DEF HandleEliminated
  <2>2. PICK pl, q : pl = players' /\ q = broadcast_roster(toWorker, room, pl)
    BY Zenon
  <2>3. pl \in Seq(PlayerRec)
    BY <1>0, <2>1, <2>2, BuryType, Zenon
  <2>4. q \in [Slots -> Seq(HubMsg(MasterTypes))] /\ View(room, q, Standing(pl))
    BY <1>0, <2>2, <2>3, BroadcastType, BroadcastView, Zenon
  <2>5. View(room, toWorker', Standing(pl))
    BY <2>1, <2>2, <2>3, <2>4, EndView
  <2> QED BY <1>8, <1>v, <2>2, <2>5, Zenon DEF HandleEliminated, workerVars
<1>9. ASSUME NEW s \in Slots, HandleAttack(s)
      PROVE  RosterInv'
  <2>1. PICK m, g : m = Head(toMaster[s]) /\ g = [m EXCEPT !.type = "GARBAGE"]
    BY Zenon
  <2>2. m \in HubMsg(WorkerTypes)
    BY <1>0, <1>9, <2>1, HeardType, Zenon DEF HandleAttack
  <2>3. g \in HubMsg(MasterTypes) /\ g.type # "ROSTER"
    BY <2>1, <2>2, Zenon DEF HubMsg, MasterTypes
  <2>4. PICK to : toWorker' = Send(toWorker, to, g)
    BY <1>9, <2>1, Zenon DEF HandleAttack
  <2>5. View(room, toWorker', Standing(players))
    BY <1>0, <1>i, <2>3, <2>4, SendView, Zenon
  <2> QED BY <1>9, <1>v, <2>5, Zenon DEF HandleAttack, workerVars, masterVars
<1>10. ASSUME NEW s \in Slots, HandleFeed(s)
       PROVE  RosterInv'
  <2>1. PICK m : m = Head(toMaster[s])
    BY Zenon
  <2>2. m \in HubMsg(WorkerTypes) /\ m.type = "FEED"
    BY <1>0, <1>10, <2>1, HeardType, Zenon DEF HandleFeed, Heard
  <2>3. m \in HubMsg(MasterTypes)
    BY <2>2, Zenon DEF HubMsg, MasterTypes
  <2>4. PICK to : toWorker' = Send(toWorker, to, m)
    BY <1>10, <2>1, Zenon DEF HandleFeed
  <2>5. View(room, toWorker', Standing(players))
    BY <1>0, <1>i, <2>2, <2>3, <2>4, SendView, Zenon
  <2> QED BY <1>10, <1>v, <2>5, Zenon DEF HandleFeed, workerVars, masterVars
<1>11. ASSUME NEW s \in Slots, WorkerGone(s)
       PROVE  RosterInv'
  BY <1>11, <1>c, Zenon DEF WorkerGone, workerVars
<1> QED BY <1>1, <1>2, <1>3, <1>4, <1>5, <1>6, <1>7, <1>8, <1>9, <1>10, <1>11 DEF MasterStep

-----------------------------------------------------------------------------
(* Every running room ends up with the master's roster, for every number   *)
(* of rooms, clients and crashes: no change of the player table is kept    *)
(* from a room that plays (broadcast_roster, main.c:228-241, and its       *)
(* callers), and none overtakes a newer one.                               *)
THEOREM RostersFresh == Spec => []RosterFresh
<1>1. Init => RosterInv
  <2> SUFFICES ASSUME Init PROVE RosterInv
    BY Zenon
  <2>1. Running(room) = {}
    BY Zenon DEF Init, FreshRoom, Used, Running
  <2> QED BY <2>1, Zenon DEF RosterInv, View
<1>2. TypeOK /\ RosterInv /\ [Next]_vars => RosterInv'
  <2> SUFFICES ASSUME TypeOK, RosterInv, [Next]_vars PROVE RosterInv'
    BY Zenon
  <2>1. CASE Next
    BY <2>1, WorkerRoster, MasterRoster, Zenon DEF Next
  <2>2. CASE UNCHANGED vars
    <3>1. UNCHANGED <<wk, room, players, toWorker>>
      BY <2>2, Zenon DEF vars, hubVars, workerVars, masterVars
    <3> QED BY <3>1, Zenon DEF RosterInv, View, Live
  <2> QED BY <2>1, <2>2, Zenon
<1>3. TypeOK /\ RosterInv => RosterFresh
  <2> SUFFICES ASSUME TypeOK, RosterInv, NEW s \in Running(room), Live(s)
               PROVE  LatestRoster(s) = Standing(players)
    BY Zenon DEF RosterFresh
  <2>1. s \in Slots /\ Shows(toWorker[s], wk[s].global, Standing(players))
    BY Zenon DEF RosterInv, View, Running, Used
  <2> QED BY <2>1, ShowsLatest, Zenon DEF TypeOK, HubTypeOK
<1> QED BY <1>1, <1>2, <1>3, Typing, PTL DEF Spec

=============================================================================
