----------------------------- MODULE TypeProofs -----------------------------
(***************************************************************************)
(* Type correctness of the daemon, what a step of each of its processes    *)
(* does, and the invariants of a room that follow from it, for every       *)
(* number of rooms and every value of the bounds.                          *)
(***************************************************************************)
EXTENDS Tetrisd, TLAPS

-----------------------------------------------------------------------------
(* Types of the operators the actions are built from.                      *)

(* hub_send appends to the queues of the peers it names and keeps the      *)
(* queues' type.                                                           *)
LEMMA SendType ==
    ASSUME NEW M, NEW q \in [Slots -> Seq(M)], NEW S, NEW m \in M
    PROVE  hub_send(q, S, m) \in [Slots -> Seq(M)]
BY DEF hub_send

(* Every message the daemon builds is a HubMsg of its type.                *)
LEMMA MsgType ==
    ASSUME NEW T, NEW t \in T, NEW id \in Nat
    PROVE  Msg(t, id) \in HubMsg(T)
BY Zenon DEF Msg, HubMsg

(* So is a routed attack or a kill feed line.                              *)
LEMMA AttackMsgType ==
    ASSUME NEW T, NEW t \in T,
           NEW a \in [attacker : Nat, victim : Nat, lines : Nat]
    PROVE  AttackMsg(t, a) \in HubMsg(T)
BY Zenon DEF AttackMsg, HubMsg

(* A roster of player ids is one of the messages the master sends.         *)
LEMMA RosterMsgType ==
    ASSUME NEW S \in SUBSET Nat
    PROVE  RosterMsg(S) \in HubMsg(MasterTypes)
BY Zenon DEF RosterMsg, HubMsg, MasterTypes

(* The living of a player table are player ids.                            *)
LEMMA StandingType ==
    ASSUME NEW pl \in Seq(PlayerRec)
    PROVE  Standing(pl) \in SUBSET Nat
<1>1. \A i \in DOMAIN pl : pl[i] \in PlayerRec
  OBVIOUS
<1> QED BY <1>1, Zenon DEF Standing, PlayerRec

(* Burying players keeps the table's length and type.                      *)
LEMMA BuryType ==
    ASSUME NEW pl \in Seq(PlayerRec), NEW dead
    PROVE  Bury(pl, dead) \in Seq(PlayerRec)
<1>1. \A r \in PlayerRec : [r EXCEPT !.alive = FALSE] \in PlayerRec
  BY Zenon DEF PlayerRec
<1>2. DOMAIN pl = 1..Len(pl) /\ Len(pl) \in Nat /\ \A i \in DOMAIN pl : pl[i] \in PlayerRec
  OBVIOUS
<1> QED BY <1>1, <1>2 DEF Bury

(* The winner is a player id or 0.                                         *)
LEMMA WinnerType ==
    ASSUME NEW pl \in Seq(PlayerRec)
    PROVE  WinnerOf(pl) \in Nat
<1>1. \A i \in DOMAIN pl : pl[i] \in PlayerRec
  OBVIOUS
<1>2. \A r \in PlayerRec : r.id \in Nat
  BY Zenon DEF PlayerRec
<1> QED BY <1>1, <1>2, Zenon DEF WinnerOf

(* The broadcasts keep the type of the queues to the workers.              *)
LEMMA BroadcastType ==
    ASSUME NEW q \in [Slots -> Seq(HubMsg(MasterTypes))], NEW rm,
           NEW pl \in Seq(PlayerRec)
    PROVE  broadcast_roster(q, rm, pl) \in [Slots -> Seq(HubMsg(MasterTypes))]
BY SendType, RosterMsgType, StandingType, Zenon DEF broadcast_roster, Send

(* check_global_end keeps types.                                           *)
LEMMA GlobalEndType ==
    ASSUME MasterTypeOK, NEW q \in [Slots -> Seq(HubMsg(MasterTypes))], NEW rm,
           NEW pl \in Seq(PlayerRec), check_global_end(q, rm, pl)
    PROVE  /\ toWorker' \in [Slots -> Seq(HubMsg(MasterTypes))]
           /\ matchEnded' \in BOOLEAN /\ winner' \in Nat
<1>1. Msg("GAMEOVER", WinnerOf(pl)) \in HubMsg(MasterTypes)
  BY WinnerType, MsgType, Zenon DEF MasterTypes
<1>2. Send(q, Used(rm), Msg("GAMEOVER", WinnerOf(pl))) \in [Slots -> Seq(HubMsg(MasterTypes))]
  BY <1>1, SendType, Zenon DEF Send
<1>3. matchEnded \in BOOLEAN /\ winner \in Nat
  BY Zenon DEF MasterTypeOK
<1>4. CASE ~matchEnded /\ Decided(pl)
  BY <1>2, <1>4, WinnerType, Zenon DEF check_global_end, EndsMatch
<1>5. CASE ~(~matchEnded /\ Decided(pl))
  BY <1>3, <1>5, Zenon DEF check_global_end, EndsMatch
<1> QED BY <1>4, <1>5, Zenon

(* start_all_rooms appends START and ROSTER messages, and nothing else.    *)
LEMMA StartAllShape ==
    ASSUME NEW q \in [Slots -> Seq(HubMsg(MasterTypes))], NEW rm \in [Slots -> Room],
           NEW pl \in Seq(PlayerRec), NEW s \in Slots
    PROVE  \E t \in Seq(HubMsg(MasterTypes)) :
             /\ start_all_rooms(q, rm, pl)[s] = q[s] \o t
             /\ \A i \in DOMAIN t :
                  t[i].type = "START" \/ (t[i].type = "ROSTER" /\ t[i].alive = Standing(pl))
<1> DEFINE starting == Startable(rm)
           n == Cardinality({t \in starting : s \in Running(rm) \/ t >= s})
           rosters == [i \in 1..n |-> RosterMsg(Standing(pl))]
           start == IF s \in starting THEN <<Msg("START", rm[s].redirected)>> ELSE <<>>
<1>1. start \in Seq(HubMsg(MasterTypes)) /\ \A i \in DOMAIN start : start[i].type = "START"
  <2>1. Msg("START", rm[s].redirected) \in HubMsg(MasterTypes) /\ Msg("START", rm[s].redirected).type = "START"
    BY MsgType, Zenon DEF MasterTypes, Room, Msg
  <2> QED BY <2>1
<1>2. /\ rosters \in Seq(HubMsg(MasterTypes))
      /\ \A i \in DOMAIN rosters : rosters[i].type = "ROSTER" /\ rosters[i].alive = Standing(pl)
  <2>1. n \in Nat
    <3>1. {t \in starting : s \in Running(rm) \/ t >= s} \in SUBSET Slots
      BY Zenon DEF Startable, Used
    <3> QED BY <3>1, CountAssumption, Zenon
  <2>2. /\ RosterMsg(Standing(pl)) \in HubMsg(MasterTypes)
        /\ RosterMsg(Standing(pl)).type = "ROSTER" /\ RosterMsg(Standing(pl)).alive = Standing(pl)
    BY StandingType, RosterMsgType, Zenon DEF RosterMsg
  <2>3. \A k \in Nat, m \in HubMsg(MasterTypes) : [i \in 1..k |-> m] \in Seq(HubMsg(MasterTypes))
    OBVIOUS
  <2> HIDE DEF n
  <2> QED BY <2>1, <2>2, <2>3, Zenon
<1> HIDE DEF start, rosters
<1>3. /\ start \o rosters \in Seq(HubMsg(MasterTypes))
      /\ \A i \in DOMAIN (start \o rosters) :
           \/ (start \o rosters)[i].type = "START"
           \/ (start \o rosters)[i].type = "ROSTER" /\ (start \o rosters)[i].alive = Standing(pl)
  BY <1>1, <1>2
<1>4. start_all_rooms(q, rm, pl)[s] \in {q[s] \o (start \o rosters), q[s] \o <<>>}
  <2>1. q[s] = q[s] \o <<>>
    OBVIOUS
  <2> QED BY <2>1, Zenon DEF start_all_rooms, start, rosters
<1>5. <<>> \in Seq(HubMsg(MasterTypes)) /\ DOMAIN <<>> = {}
  OBVIOUS
<1> QED BY <1>3, <1>4, <1>5, Zenon

(* So it keeps the type of the queues.                                     *)
LEMMA StartAllType ==
    ASSUME NEW q \in [Slots -> Seq(HubMsg(MasterTypes))], NEW rm \in [Slots -> Room],
           NEW pl \in Seq(PlayerRec)
    PROVE  /\ start_all_rooms(q, rm, pl) \in [Slots -> Seq(HubMsg(MasterTypes))]
           /\ Started(rm) \in [Slots -> Room]
<1>1. Started(rm) \in [Slots -> Room]
  BY Zenon DEF Started, Room
<1>2. \A s \in Slots : start_all_rooms(q, rm, pl)[s] \in Seq(HubMsg(MasterTypes))
  <2> TAKE s \in Slots
  <2>1. PICK t \in Seq(HubMsg(MasterTypes)) : start_all_rooms(q, rm, pl)[s] = q[s] \o t
    BY StartAllShape, Zenon
  <2> QED BY <2>1
<1>3. start_all_rooms(q, rm, pl) = [s \in Slots |-> start_all_rooms(q, rm, pl)[s]]
  BY Zenon DEF start_all_rooms
<1> QED BY <1>1, <1>2, <1>3, Zenon

(* A session consists of players of the room.                              *)
LEMMA SessionType ==
    ASSUME WkTypeOK, NEW s \in Slots
    PROVE  /\ Session(s) \in SUBSET Nat
           /\ find_player(s) \in SUBSET Nat
           /\ \A p \in Nat : resolve_victim(s, p) \in SUBSET Nat
<1>1. /\ wk[s].members \in Seq(Nat) /\ wk[s].reported \in Nat
      /\ wk[s].reported <= Len(wk[s].members) /\ wk[s].global \in SUBSET Nat
  BY Zenon DEF WkTypeOK, Worker
<1>2. \A i \in 1..wk[s].reported : wk[s].members[i] \in Nat
  BY <1>1, SMTT(30)
<1>3. Session(s) \in SUBSET Nat
  BY <1>2, Zenon DEF Session
<1> QED BY <1>1, <1>3 DEF find_player, resolve_victim

(* Replacing one worker's record by a typed one keeps the workers typed.   *)
LEMMA WkUpdate ==
    ASSUME WkTypeOK, NEW s \in Slots, NEW r \in Worker, r.reported <= Len(r.members),
           wk' = [wk EXCEPT ![s] = r]
    PROVE  WkTypeOK'
BY Zenon DEF WkTypeOK

(* What a worker sends up is typed, whether or not the hub is open.        *)
LEMMA TellType ==
    ASSUME HubTypeOK, NEW s, NEW open, NEW m \in HubMsg(WorkerTypes), Tell(s, open, m)
    PROVE  toMaster' \in [Slots -> Seq(HubMsg(WorkerTypes))]
BY SendType, Zenon DEF Tell, HubTypeOK

(* The head of a queue is a message, and the rest a queue.                 *)
LEMMA QueueType ==
    ASSUME NEW M, NEW q \in [Slots -> Seq(M)], NEW s \in Slots, q[s] # <<>>
    PROVE  Head(q[s]) \in M /\ [q EXCEPT ![s] = Tail(@)] \in [Slots -> Seq(M)]
OBVIOUS

(* The message a worker takes is typed, and so is what it leaves.          *)
LEMMA TookType ==
    ASSUME HubTypeOK, NEW s \in Slots, toWorker[s] # <<>>, Took(s)
    PROVE  /\ Head(toWorker[s]).id \in Nat /\ Head(toWorker[s]).lines \in Nat
           /\ Head(toWorker[s]).alive \in SUBSET Nat
           /\ toWorker' \in [Slots -> Seq(HubMsg(MasterTypes))]
<1>1. /\ Head(toWorker[s]) \in HubMsg(MasterTypes)
      /\ toWorker' \in [Slots -> Seq(HubMsg(MasterTypes))]
  BY QueueType, Zenon DEF HubTypeOK, Took
<1> QED BY <1>1, Zenon DEF HubMsg

(* The end of a worker keeps types.                                        *)
LEMMA ExitType ==
    ASSUME HubTypeOK, WkTypeOK, NEW s \in Slots, Exit(s)
    PROVE  HubTypeOK' /\ WkTypeOK'
<1>1. Process("exited", 0) \in Worker /\ Process("exited", 0).reported <= Len(Process("exited", 0).members)
  BY DEF Process, Worker
<1>2. WkTypeOK'
  BY <1>1, WkUpdate, Zenon DEF Exit
<1>3. <<>> \in Seq(HubMsg(MasterTypes))
  OBVIOUS
<1> QED BY <1>2, <1>3, Zenon DEF Exit, HubTypeOK

(* One more push to a room's kill feeds.                                   *)
LEMMA FeedType ==
    ASSUME FloorTypeOK, NEW s \in Slots, NEW n, broadcast_feed(s, n)
    PROVE  shown' \in [Slots -> [1..MaxAttacks -> Nat]]
<1> DEFINE f == shown[s]
           g == [f EXCEPT ![n] = f[n] + 1]
<1>1. f \in [1..MaxAttacks -> Nat]
  BY Zenon DEF FloorTypeOK
<1>2. g \in [1..MaxAttacks -> Nat]
  <2> HIDE DEF f
  <2>1. CASE n \in 1..MaxAttacks
    BY <1>1, <2>1
  <2>2. CASE n \notin 1..MaxAttacks
    BY <1>1, <2>2, Zenon
  <2> QED BY <2>1, <2>2, Zenon
<1>3. shown' = [shown EXCEPT ![s] = g]
  BY Zenon DEF broadcast_feed
<1> HIDE DEF g
<1> QED BY <1>2, <1>3, Zenon DEF FloorTypeOK

-----------------------------------------------------------------------------
(* Everything a worker does by itself keeps types.                         *)
LEMMA WorkerTypeStep ==
    ASSUME TypeOK, NEW s \in Slots, WorkerStep(s)
    PROVE  TypeOK'
<1> DEFINE w == wk[s]
<1>0. /\ w \in Worker /\ w.reported <= Len(w.members)
      /\ HubTypeOK /\ WkTypeOK /\ FloorTypeOK
  BY Zenon DEF TypeOK, WkTypeOK
<1>m. MasterTypeOK'
  BY Zenon DEF WorkerStep, TypeOK, MasterTypeOK, masterVars
<1>1. CASE Boot(s, MasterEnds)
  <2>1. toMaster' \in [Slots -> Seq(HubMsg(WorkerTypes))]
    BY <1>0, <1>1, MsgType, TellType, Zenon DEF Boot, WorkerTypes
  <2>2. WkTypeOK'
    <3> DEFINE r == [w EXCEPT !.pc = "lobby"]
    <3>1. r \in Worker /\ r.reported <= Len(r.members)
      BY <1>0, Zenon DEF Worker
    <3>2. wk' = [wk EXCEPT ![s] = r]
      BY <1>1, Zenon DEF Boot
    <3> QED BY <1>0, <3>1, <3>2, WkUpdate, Zenon
  <2>3. HubTypeOK' /\ FloorTypeOK'
    BY <1>0, <1>1, <2>1, Zenon DEF Boot, HubTypeOK, FloorTypeOK
  <2> QED BY <1>m, <2>2, <2>3, Zenon DEF TypeOK
<1>2. CASE ReportJoin(s, MasterEnds)
  <2>1. w.members \in Seq(Nat) /\ w.reported \in Nat
    BY <1>0, Zenon DEF Worker
  <2>2. w.members[w.reported + 1] \in Nat
    BY <1>2, <2>1, SMTT(60) DEF ReportJoin
  <2>3. toMaster' \in [Slots -> Seq(HubMsg(WorkerTypes))]
    BY <1>0, <1>2, <2>2, MsgType, TellType, Zenon DEF ReportJoin, WorkerTypes
  <2>4. WkTypeOK'
    <3> DEFINE r == [w EXCEPT !.reported = @ + 1]
    <3>1. w.reported + 1 \in Nat /\ w.reported + 1 <= Len(w.members)
      BY <1>2, <2>1 DEF ReportJoin
    <3>2. r \in Worker /\ r.reported = w.reported + 1 /\ r.members = w.members
      BY <1>0, <3>1, Zenon DEF Worker
    <3>3. wk' = [wk EXCEPT ![s] = r]
      BY <1>2, Zenon DEF ReportJoin
    <3> QED BY <1>0, <3>1, <3>2, <3>3, WkUpdate, Zenon
  <2>5. HubTypeOK' /\ FloorTypeOK'
    BY <1>0, <1>2, <2>3, Zenon DEF ReportJoin, HubTypeOK, FloorTypeOK
  <2> QED BY <1>m, <2>4, <2>5, Zenon DEF TypeOK
<1>3. CASE LobbyRecv(s)
  <2>1. /\ Head(toWorker[s]).id \in Nat /\ Head(toWorker[s]).alive \in SUBSET Nat
        /\ toWorker' \in [Slots -> Seq(HubMsg(MasterTypes))]
    BY <1>0, <1>3, TookType, Zenon DEF LobbyRecv, LobbyTake, Inbox
  <2>2. WkTypeOK'
    <3> DEFINE m == Head(toWorker[s])
               r == CASE m.type = "START"  -> [w EXCEPT !.ordered = TRUE, !.expected = m.id]
                      [] m.type = "ROSTER" -> [w EXCEPT !.global = m.alive]
                      [] OTHER             -> w
    <3>1. r \in Worker /\ r.reported <= Len(r.members)
      BY <1>0, <2>1, Zenon DEF Worker
    <3>2. wk' = [wk EXCEPT ![s] = r]
      BY <1>0, <1>3, Zenon DEF LobbyRecv, LobbyTake, Inbox, WkTypeOK, Worker
    <3> QED BY <1>0, <3>1, <3>2, WkUpdate, Zenon
  <2>3. HubTypeOK' /\ FloorTypeOK'
    BY <1>0, <1>3, <2>1, Zenon DEF LobbyRecv, LobbyTake, HubTypeOK, FloorTypeOK
  <2> QED BY <1>m, <2>2, <2>3, Zenon DEF TypeOK
<1>4. CASE \E graceOver \in BOOLEAN : LobbyStart(s, graceOver)
  <2>1. CASE Exit(s)
    BY <1>0, <1>m, <1>4, <2>1, ExitType, Zenon DEF LobbyStart, FloorTypeOK, TypeOK
  <2>2. CASE ~Exit(s)
    <3> DEFINE r == [w EXCEPT !.pc = "play"]
    <3>1. r \in Worker /\ r.reported <= Len(r.members)
      BY <1>0, Zenon DEF Worker
    <3>2. wk' = [wk EXCEPT ![s] = r] /\ UNCHANGED hubVars
      BY <1>4, <2>2, Zenon DEF LobbyStart
    <3>3. WkTypeOK'
      BY <1>0, <3>1, <3>2, WkUpdate, Zenon
    <3> QED BY <1>0, <1>m, <1>4, <3>2, <3>3, Zenon DEF LobbyStart, TypeOK, HubTypeOK, FloorTypeOK, hubVars
  <2> QED BY <2>1, <2>2, Zenon
<1>5. CASE MasterGone(s, MasterEnds)
  <2>1. CASE wk[s].pc = "lobby"
    BY <1>0, <1>m, <1>5, <2>1, ExitType, Zenon DEF MasterGone, FloorTypeOK, TypeOK
  <2>2. CASE wk[s].pc # "lobby"
    <3> DEFINE r == [w EXCEPT !.pc = "over", !.over = TRUE]
    <3>1. r \in Worker /\ r.reported <= Len(r.members) /\ w.winner \in Nat
      BY <1>0, Zenon DEF Worker
    <3>2. wk' = [wk EXCEPT ![s] = r] /\ announced' \subseteq announced \cup {w.winner} /\ UNCHANGED hubVars
      <4>1. /\ wk' = [wk EXCEPT ![s].pc = "over", ![s].over = TRUE]
            /\ FinalPush(s) /\ UNCHANGED hubVars
        BY <1>5, <2>2, Zenon DEF MasterGone
      <4>2. wk' = [wk EXCEPT ![s] = r]
        BY <1>0, <4>1, Zenon DEF WkTypeOK
      <4> QED BY <4>1, <4>2, Zenon DEF FinalPush
    <3>3. WkTypeOK'
      BY <1>0, <3>1, <3>2, WkUpdate, Zenon
    <3>4. FloorTypeOK'
      BY <1>0, <1>5, <3>1, <3>2, Zenon DEF MasterGone, FloorTypeOK
    <3>5. HubTypeOK'
      BY <1>0, <3>2, Zenon DEF HubTypeOK, hubVars
    <3> QED BY <1>m, <3>3, <3>4, <3>5, Zenon DEF TypeOK
  <2> QED BY <2>1, <2>2, Zenon
<1>6. CASE PlayRecv(s)
  <2>1. /\ Head(toWorker[s]).id \in Nat /\ Head(toWorker[s]).alive \in SUBSET Nat
        /\ toWorker' \in [Slots -> Seq(HubMsg(MasterTypes))]
    BY <1>0, <1>6, TookType, Zenon DEF PlayRecv, PlayTake, Inbox
  <2>2. WkTypeOK'
    <3> DEFINE m == Head(toWorker[s])
               r == CASE m.type = "ROSTER"   -> [w EXCEPT !.global = m.alive]
                      [] m.type = "GAMEOVER" -> [w EXCEPT !.over = TRUE, !.winner = m.id]
                      [] OTHER               -> w
    <3>1. r \in Worker /\ r.reported <= Len(r.members)
      BY <1>0, <2>1, Zenon DEF Worker
    <3>2. wk' = [wk EXCEPT ![s] = r]
      BY <1>0, <1>6, Zenon DEF PlayRecv, PlayTake, Inbox, WkTypeOK, Worker
    <3> QED BY <1>0, <3>1, <3>2, WkUpdate, Zenon
  <2>3. shown' \in [Slots -> [1..MaxAttacks -> Nat]]
    BY <1>0, <1>6, FeedType, Zenon DEF PlayRecv, PlayTake, FloorTypeOK
  <2>4. HubTypeOK' /\ FloorTypeOK'
    BY <1>0, <1>6, <2>1, <2>3, Zenon DEF PlayRecv, PlayTake, HubTypeOK, FloorTypeOK
  <2> QED BY <1>m, <2>2, <2>4, Zenon DEF TypeOK
<1>7. CASE ReportElim(s, MasterEnds)
  <2>1. PICK p \in w.out \ w.told : /\ wk' = [wk EXCEPT ![s].told = @ \cup {p}]
                                    /\ Tell(s, MasterEnds, Msg("ELIMINATED", p))
    BY <1>7, Zenon DEF ReportElim, NewlyOut
  <2> DEFINE r == [w EXCEPT !.told = @ \cup {p}]
  <2>2. p \in Nat /\ r \in Worker /\ r.reported <= Len(r.members)
    BY <1>0, Zenon DEF Worker
  <2>3. toMaster' \in [Slots -> Seq(HubMsg(WorkerTypes))]
    BY <1>0, <2>1, <2>2, MsgType, TellType, Zenon DEF WorkerTypes
  <2>4. WkTypeOK'
    BY <1>0, <2>1, <2>2, WkUpdate, Zenon
  <2>5. HubTypeOK' /\ FloorTypeOK'
    BY <1>0, <1>7, <2>3, Zenon DEF ReportElim, HubTypeOK, FloorTypeOK
  <2> QED BY <1>m, <2>4, <2>5, Zenon DEF TypeOK
<1>8. CASE Route(s, MasterEnds)
  <2>1. PICK g, v : g \in w.garbage /\ v \in resolve_victim(s, g.who) /\
          LET a == [attacker |-> g.who, victim |-> v, lines |-> g.lines]
          IN  /\ wk' = [wk EXCEPT ![s].garbage = @ \ {g}]
              /\ victimOf' = [victimOf EXCEPT ![g.lines] = v]
              /\ broadcast_feed(s, g.lines) \/ UNCHANGED shown
              /\ \/ Tell(s, MasterEnds, AttackMsg("FEED", a))
                 \/ toMaster' = hub_send(hub_send(toMaster, {s} \cap MasterEnds, AttackMsg("ATTACK", a)),
                                         {s} \cap MasterEnds, AttackMsg("FEED", a))
                 \/ UNCHANGED toMaster
    BY <1>8, Zenon DEF Route
  <2> DEFINE a == [attacker |-> g.who, victim |-> v, lines |-> g.lines]
             r == [w EXCEPT !.garbage = @ \ {g}]
  <2>2. g.who \in Nat /\ g.lines \in Nat /\ r \in Worker /\ r.reported <= Len(r.members)
    BY <1>0, <2>1, Zenon DEF Worker
  <2>3. v \in Nat
    BY <1>0, <2>1, <2>2, SessionType, Zenon
  <2>4. AttackMsg("FEED", a) \in HubMsg(WorkerTypes) /\ AttackMsg("ATTACK", a) \in HubMsg(WorkerTypes)
    BY <2>2, <2>3, AttackMsgType, Zenon DEF WorkerTypes
  <2>5. toMaster' \in [Slots -> Seq(HubMsg(WorkerTypes))]
    <3> DEFINE to == {s} \cap MasterEnds
               feed == AttackMsg("FEED", a)
               attack == hub_send(toMaster, to, AttackMsg("ATTACK", a))
    <3>1. toMaster \in [Slots -> Seq(HubMsg(WorkerTypes))]
      BY <1>0, Zenon DEF HubTypeOK
    <3>2. attack \in [Slots -> Seq(HubMsg(WorkerTypes))]
      BY <2>4, <3>1, SendType, Zenon
    <3>3. toMaster' \in {hub_send(toMaster, to, feed), hub_send(attack, to, feed), toMaster}
      BY <2>1, Zenon DEF Tell
    <3> HIDE DEF feed, attack
    <3>4. /\ hub_send(toMaster, to, feed) \in [Slots -> Seq(HubMsg(WorkerTypes))]
          /\ hub_send(attack, to, feed) \in [Slots -> Seq(HubMsg(WorkerTypes))]
      BY <2>4, <3>1, <3>2, SendType, Zenon DEF feed
    <3> QED BY <3>1, <3>3, <3>4, Zenon
  <2>6. WkTypeOK'
    BY <1>0, <2>1, <2>2, WkUpdate, Zenon
  <2>7. shown' \in [Slots -> [1..MaxAttacks -> Nat]]
    BY <1>0, <2>1, FeedType, Zenon DEF FloorTypeOK
  <2>8. victimOf' \in [1..MaxAttacks -> Nat]
    BY <1>0, <2>1, <2>3, Zenon DEF FloorTypeOK
  <2>9. HubTypeOK' /\ FloorTypeOK'
    BY <1>0, <1>8, <2>5, <2>7, <2>8, Zenon DEF Route, HubTypeOK, FloorTypeOK
  <2> QED BY <1>m, <2>6, <2>9, Zenon DEF TypeOK
<1>9. CASE RoomOver(s)
  <2> DEFINE r == [w EXCEPT !.pc = "over"]
  <2>1. r \in Worker /\ r.reported <= Len(r.members) /\ w.winner \in Nat
    BY <1>0, Zenon DEF Worker
  <2>2. wk' = [wk EXCEPT ![s] = r] /\ announced' \subseteq announced \cup {w.winner}
    BY <1>9, Zenon DEF RoomOver, FinalPush
  <2>3. WkTypeOK'
    BY <1>0, <2>1, <2>2, WkUpdate, Zenon
  <2>4. HubTypeOK' /\ FloorTypeOK'
    BY <1>0, <1>9, <2>1, <2>2, Zenon DEF RoomOver, HubTypeOK, FloorTypeOK, hubVars
  <2> QED BY <1>m, <2>3, <2>4, Zenon DEF TypeOK
<1>10. CASE RoomExit(s)
  BY <1>0, <1>m, <1>10, ExitType, Zenon DEF RoomExit, FloorTypeOK, TypeOK
<1> QED BY <1>1, <1>2, <1>3, <1>4, <1>5, <1>6, <1>7, <1>8, <1>9, <1>10, Zenon DEF WorkerStep

(* Clients, players and crashes keep types.                                *)
LEMMA EventTypeStep ==
    ASSUME TypeOK, NEW s \in Slots, WorkerEvent(s)
    PROVE  TypeOK'
<1> DEFINE w == wk[s]
<1>0. /\ w \in Worker /\ w.reported <= Len(w.members)
      /\ HubTypeOK /\ WkTypeOK /\ FloorTypeOK
  BY Zenon DEF TypeOK, WkTypeOK
<1>m. MasterTypeOK'
  BY Zenon DEF WorkerEvent, TypeOK, MasterTypeOK, masterVars
<1>1. CASE Arrive(s)
  <2> DEFINE n == w.nextId + 1
             ms == Append(w.members, w.nextId)
             r == [w EXCEPT !.nextId = n, !.members = ms]
  <2>1. w.members \in Seq(Nat) /\ w.reported \in Nat /\ w.nextId \in Nat
    BY <1>0, Zenon DEF Worker
  <2>2. n \in Nat /\ ms \in Seq(Nat) /\ w.reported <= Len(ms)
    BY <1>0, <2>1
  <2>4. wk' = [wk EXCEPT ![s] = r]
    BY <1>0, <1>1, Zenon DEF Arrive, WkTypeOK, Worker
  <2> HIDE DEF n, ms
  <2>3. r \in Worker /\ r.reported = w.reported /\ r.members = ms
    BY <1>0, <2>2, Zenon DEF Worker
  <2>5. WkTypeOK'
    BY <1>0, <2>2, <2>3, <2>4, WkUpdate, Zenon
  <2>6. HubTypeOK' /\ FloorTypeOK'
    BY <1>0, <1>1 DEF Arrive, HubTypeOK, FloorTypeOK
  <2> QED BY <1>m, <2>5, <2>6, Zenon DEF TypeOK
<1>2. CASE ArriveFails(s)
  <2> DEFINE n == w.nextId + 1
             r == [w EXCEPT !.nextId = n]
  <2>1. n \in Nat
    BY <1>0 DEF Worker
  <2>4. wk' = [wk EXCEPT ![s] = r]
    BY <1>2, Zenon DEF ArriveFails
  <2> HIDE DEF n
  <2>5. r \in Worker /\ r.reported <= Len(r.members)
    BY <1>0, <2>1, Zenon DEF Worker
  <2>2. WkTypeOK'
    BY <1>0, <2>4, <2>5, WkUpdate, Zenon
  <2>3. HubTypeOK' /\ FloorTypeOK'
    BY <1>0, <1>2 DEF ArriveFails, HubTypeOK, FloorTypeOK
  <2> QED BY <1>m, <2>2, <2>3, Zenon DEF TypeOK
<1>3. CASE Crash(s)
  <2>1. FloorTypeOK'
    BY <1>0, <1>3, WorkerAssumption, SMTT(30) DEF Crash, FloorTypeOK
  <2> QED BY <1>0, <1>m, <1>3, <2>1, ExitType, Zenon DEF Crash, TypeOK
<1>4. ASSUME NEW p \in Session(s), Quit(s, p)
      PROVE  TypeOK'
  <2> DEFINE r == [w EXCEPT !.out = @ \cup {p}, !.gone = @ \cup {p}]
  <2>1. p \in Nat
    BY <1>0, SessionType, Zenon
  <2>2. r \in Worker /\ r.reported <= Len(r.members)
    BY <1>0, <2>1, Zenon DEF Worker
  <2>3. wk' = [wk EXCEPT ![s] = r]
    BY <1>0, <1>4, Zenon DEF Quit, WkTypeOK, Worker
  <2>4. WkTypeOK'
    BY <1>0, <2>2, <2>3, WkUpdate, Zenon
  <2>5. HubTypeOK' /\ FloorTypeOK'
    BY <1>0, <1>4, Zenon DEF Quit, HubTypeOK, FloorTypeOK, hubVars
  <2> QED BY <1>m, <2>4, <2>5, Zenon DEF TypeOK
<1>5. ASSUME NEW p \in Session(s), TopOut(s, p)
      PROVE  TypeOK'
  <2> DEFINE r == [w EXCEPT !.out = @ \cup {p}]
  <2>1. p \in Nat
    BY <1>0, SessionType, Zenon
  <2>2. r \in Worker /\ r.reported <= Len(r.members)
    BY <1>0, <2>1, Zenon DEF Worker
  <2>3. WkTypeOK'
    BY <1>0, <1>5, <2>2, WkUpdate, Zenon DEF TopOut
  <2>4. HubTypeOK' /\ FloorTypeOK'
    BY <1>0, <1>5, Zenon DEF TopOut, HubTypeOK, FloorTypeOK, hubVars
  <2> QED BY <1>m, <2>3, <2>4, Zenon DEF TypeOK
<1>6. ASSUME NEW p \in Session(s), NEW toppedOut \in BOOLEAN, ClearLines(s, p, toppedOut)
      PROVE  TypeOK'
  <2> DEFINE n == attacks + 1
             G == {g \in w.garbage : g.who # p} \cup {[who |-> p, lines |-> n]}
             O == IF toppedOut THEN w.out \cup {p} ELSE w.out
             r == [w EXCEPT !.garbage = G, !.out = O]
  <2>1. p \in Nat
    BY <1>0, SessionType, Zenon
  <2>2. n \in 0..MaxAttacks /\ n \in Nat
    BY <1>0, <1>6, WorkerAssumption DEF ClearLines, FloorTypeOK
  <2>3. wk' = [wk EXCEPT ![s] = r]
    BY <1>0, <1>6, Zenon DEF ClearLines, WkTypeOK, Worker
  <2>4. HubTypeOK' /\ FloorTypeOK'
    BY <1>0, <1>6, <2>2, Zenon DEF ClearLines, HubTypeOK, FloorTypeOK, hubVars
  <2>7. G \in SUBSET [who : Nat, lines : Nat] /\ O \in SUBSET Nat
    BY <1>0, <2>1, <2>2 DEF Worker
  <2> HIDE DEF G, O
  <2>5. r \in Worker /\ r.reported <= Len(r.members)
    BY <1>0, <2>7, Zenon DEF Worker
  <2>6. WkTypeOK'
    BY <1>0, <2>3, <2>5, WkUpdate, Zenon
  <2> QED BY <1>m, <2>4, <2>6, Zenon DEF TypeOK
<1> QED BY <1>1, <1>2, <1>3, <1>4, <1>5, <1>6, Zenon DEF WorkerEvent

(* The master hears a typed message.                                       *)
LEMMA HeardType ==
    ASSUME HubTypeOK, NEW s \in Slots, NEW type, Heard(s, type)
    PROVE  /\ Head(toMaster[s]) \in HubMsg(WorkerTypes) /\ Head(toMaster[s]).id \in Nat
           /\ toMaster' \in [Slots -> Seq(HubMsg(WorkerTypes))]
<1>1. Head(toMaster[s]) \in HubMsg(WorkerTypes) /\ toMaster' \in [Slots -> Seq(HubMsg(WorkerTypes))]
  BY QueueType, Zenon DEF HubTypeOK, Heard
<1> QED BY <1>1, Zenon DEF HubMsg

(* Closing a room keeps types.                                             *)
LEMMA CloseType ==
    ASSUME HubTypeOK, MasterTypeOK, NEW s \in Slots, close_room(s)
    PROVE  /\ HubTypeOK' /\ room' \in [Slots -> Room] /\ players' \in Seq(PlayerRec)
           /\ matchEnded' \in BOOLEAN /\ winner' \in Nat
<1> DEFINE rm == [room EXCEPT ![s].used = FALSE]
           dead == {i \in DOMAIN players : players[i].room = s}
           pl == IF matchEnded THEN players ELSE Bury(players, dead)
<1>1. /\ room' = rm /\ players' = pl
      /\ toMaster' = [toMaster EXCEPT ![s] = <<>>]
      /\ reset' = [reset EXCEPT ![s] = Live(s) /\ toMaster[s] # <<>>]
      /\ \/ check_global_end(broadcast_roster(toWorker, rm, pl), rm, pl)
         \/ UNCHANGED <<toWorker, matchEnded, winner>>
  BY Zenon DEF close_room, Occupants
<1>2. rm \in [Slots -> Room]
  BY Zenon DEF MasterTypeOK, Room
<1>3. pl \in Seq(PlayerRec)
  BY BuryType, Zenon DEF MasterTypeOK
<1>4. broadcast_roster(toWorker, rm, pl) \in [Slots -> Seq(HubMsg(MasterTypes))]
  BY <1>3, BroadcastType, Zenon DEF HubTypeOK
<1>5. /\ toWorker' \in [Slots -> Seq(HubMsg(MasterTypes))]
      /\ matchEnded' \in BOOLEAN /\ winner' \in Nat
  <2> HIDE DEF rm, pl
  <2>1. CASE check_global_end(broadcast_roster(toWorker, rm, pl), rm, pl)
    BY <1>3, <1>4, <2>1, GlobalEndType, Zenon
  <2>2. CASE UNCHANGED <<toWorker, matchEnded, winner>>
    BY <2>2, Zenon DEF HubTypeOK, MasterTypeOK
  <2> QED BY <1>1, <2>1, <2>2, Zenon
<1>6. toMaster' \in [Slots -> Seq(HubMsg(WorkerTypes))] /\ reset' \in [Slots -> BOOLEAN]
  <2>1. <<>> \in Seq(HubMsg(WorkerTypes))
    OBVIOUS
  <2> QED BY <1>1, <2>1, Zenon DEF HubTypeOK
<1> QED BY <1>1, <1>2, <1>3, <1>5, <1>6, Zenon DEF HubTypeOK

(* Dealing a client into a room keeps the room table typed.                *)
LEMMA DealType ==
    ASSUME NEW rm \in [Slots -> Room], NEW s \in Slots
    PROVE  Deal(rm, s) \in [Slots -> Room]
<1> DEFINE n == rm[s].redirected + 1
           k == IF rm[s].ready THEN rm[s].pending ELSE rm[s].pending + 1
           r == [rm[s] EXCEPT !.redirected = n, !.pending = k]
<1>1. rm[s] \in Room /\ n \in Nat /\ k \in Nat
  BY DEF Room
<1>2. Deal(rm, s) = [rm EXCEPT ![s] = r]
  BY Zenon DEF Deal, Bound, Room
<1> HIDE DEF n, k
<1>3. r \in Room
  BY <1>1, Zenon DEF Room
<1> QED BY <1>2, <1>3, Zenon

(* Everything the master does keeps types.                                 *)
LEMMA MasterTypeStep ==
    ASSUME TypeOK,
           \/ AcceptClient \/ SpawnRoom \/ PressEnter \/ Interrupt \/ StopRoom
           \/ \E s \in Slots : MasterStep(s)
    PROVE  TypeOK'
<1>0. HubTypeOK /\ WkTypeOK /\ FloorTypeOK /\ MasterTypeOK
  BY Zenon DEF TypeOK
<1>1. CASE AcceptClient
  <2>1. PICK s \in First(Open) :
          /\ room' = Deal(room, s)
          /\ dealt' = [dealt EXCEPT ![s] = IF room[s].ready THEN @ + 1 ELSE @]
    BY <1>1, Zenon DEF AcceptClient, Bound
  <2>2. s \in Slots
    BY Zenon DEF First, Open, Used
  <2>3. room' \in [Slots -> Room]
    BY <1>0, <2>1, <2>2, DealType, Zenon DEF MasterTypeOK
  <2>4. FloorTypeOK'
    <3>1. dealt' \in [Slots -> Nat]
      BY <1>0, <2>1, <2>2 DEF FloorTypeOK
    <3> QED BY <1>0, <1>1, <3>1, Zenon DEF AcceptClient, FloorTypeOK
  <2>5. MasterTypeOK'
    BY <1>0, <1>1, <2>3, MasterAssumption DEF AcceptClient, MasterTypeOK
  <2>6. HubTypeOK' /\ WkTypeOK'
    BY <1>0, <1>1, Zenon DEF AcceptClient, HubTypeOK, WkTypeOK, hubVars
  <2> QED BY <2>4, <2>5, <2>6, Zenon DEF TypeOK
<1>2. CASE SpawnRoom
  <2>1. PICK s \in First(Slots \ Used(room)) :
          /\ room' = Deal([room EXCEPT ![s] = FreshRoom(spawn_base)], s)
          /\ wk' = [wk EXCEPT ![s] = Process("boot", spawn_base)]
          /\ toMaster' = [toMaster EXCEPT ![s] = <<>>]
          /\ toWorker' = [toWorker EXCEPT ![s] = <<>>]
          /\ reset' = [reset EXCEPT ![s] = FALSE]
          /\ shown' = [shown EXCEPT ![s] = [n \in 1..MaxAttacks |-> 0]]
          /\ dealt' = [dealt EXCEPT ![s] = IF StaleClients THEN @ ELSE 0]
    BY <1>2, Zenon DEF SpawnRoom
  <2>2. s \in Slots
    BY Zenon DEF First
  <2>3. spawn_base \in Nat
    BY <1>0, HubAssumption, MasterAssumption DEF spawn_base, MasterTypeOK
  <2>4. FreshRoom(spawn_base) \in Room
    BY <2>3, Zenon DEF FreshRoom, Room
  <2>5. room' \in [Slots -> Room]
    BY <1>0, <2>1, <2>2, <2>4, DealType, Zenon DEF MasterTypeOK
  <2>6. WkTypeOK'
    <3>1. /\ Process("boot", spawn_base) \in Worker
          /\ Process("boot", spawn_base).reported <= Len(Process("boot", spawn_base).members)
      BY <2>3 DEF Process, Worker
    <3> QED BY <1>0, <2>1, <2>2, <3>1, WkUpdate, Zenon
  <2>7. HubTypeOK'
    <3>1. <<>> \in Seq(HubMsg(WorkerTypes)) /\ <<>> \in Seq(HubMsg(MasterTypes))
      OBVIOUS
    <3> QED BY <1>0, <2>1, <2>2, <3>1, Zenon DEF HubTypeOK
  <2>8. FloorTypeOK'
    BY <1>0, <1>2, <2>1, <2>2, Zenon DEF SpawnRoom, FloorTypeOK
  <2>9. MasterTypeOK'
    <3>1. roomSeq' \in 0..MaxSpawns /\ clients' \in 0..MaxClients
      BY <1>0, <1>2, MasterAssumption DEF SpawnRoom, MasterTypeOK
    <3> QED BY <1>0, <1>2, <2>5, <3>1, Zenon DEF SpawnRoom, MasterTypeOK
  <2> QED BY <2>6, <2>7, <2>8, <2>9, Zenon DEF TypeOK
<1>3. CASE PressEnter
  <2>1. start_all_rooms(toWorker, room, players) \in [Slots -> Seq(HubMsg(MasterTypes))]
        /\ Started(room) \in [Slots -> Room]
    BY <1>0, StartAllType, Zenon DEF HubTypeOK, MasterTypeOK
  <2> QED BY <1>0, <1>3, <2>1, Zenon
          DEF PressEnter, TypeOK, HubTypeOK, WkTypeOK, FloorTypeOK, MasterTypeOK, workerVars
<1>4. CASE Interrupt
  BY <1>0, <1>4, Zenon DEF Interrupt, TypeOK, HubTypeOK, WkTypeOK, FloorTypeOK, MasterTypeOK, workerVars, hubVars
<1>5. CASE StopRoom
  <2>1. PICK s \in Slots : close_room(s)
    BY <1>5, Zenon DEF StopRoom, First, Used
  <2>2. /\ HubTypeOK' /\ room' \in [Slots -> Room] /\ players' \in Seq(PlayerRec)
        /\ matchEnded' \in BOOLEAN /\ winner' \in Nat
    BY <1>0, <2>1, CloseType, Zenon
  <2> QED BY <1>0, <1>5, <2>2, Zenon DEF StopRoom, TypeOK, WkTypeOK, FloorTypeOK, MasterTypeOK, workerVars
<1>6. ASSUME NEW s \in Slots, HandleReady(s)
      PROVE  TypeOK'
  <2>1. toMaster' \in [Slots -> Seq(HubMsg(WorkerTypes))]
    BY <1>0, <1>6, HeardType, Zenon DEF HandleReady
  <2>2. room' \in [Slots -> Room] /\ room[s].pending \in Nat
    BY <1>0, <1>6, ZenonT(60) DEF HandleReady, MasterTypeOK, Room
  <2>3. dealt' \in [Slots -> Nat]
    <3>1. dealt[s] + room[s].pending \in Nat
      BY <1>0, <2>2 DEF FloorTypeOK
    <3> QED BY <1>0, <1>6, <3>1, Zenon DEF HandleReady, FloorTypeOK
  <2> QED BY <1>0, <1>6, <2>1, <2>2, <2>3, Zenon
          DEF HandleReady, TypeOK, HubTypeOK, WkTypeOK, FloorTypeOK, MasterTypeOK
<1>7. ASSUME NEW s \in Slots, HandleJoined(s)
      PROVE  TypeOK'
  <2> DEFINE rec == [id |-> Head(toMaster[s]).id, room |-> s, alive |-> TRUE]
             pl  == IF Len(players) < MaxPlayers THEN Append(players, rec) ELSE players
             rm  == [room EXCEPT ![s].joined = @ + 1]
             q   == broadcast_roster(toWorker, rm, pl)
  <2>1. Head(toMaster[s]).id \in Nat /\ toMaster' \in [Slots -> Seq(HubMsg(WorkerTypes))]
    BY <1>0, <1>7, HeardType, Zenon DEF HandleJoined
  <2>2. rec \in PlayerRec
    BY <2>1, Zenon DEF PlayerRec
  <2>3. pl \in Seq(PlayerRec)
    BY <1>0, <2>2 DEF MasterTypeOK
  <2>4. rm \in [Slots -> Room]
    <3> DEFINE n == room[s].joined + 1
    <3>1. room[s] \in Room /\ n \in Nat
      BY <1>0 DEF MasterTypeOK, Room
    <3>2. rm = [room EXCEPT ![s] = [room[s] EXCEPT !.joined = n]]
      BY Zenon
    <3> HIDE DEF n
    <3>3. [room[s] EXCEPT !.joined = n] \in Room
      BY <3>1, Zenon DEF Room
    <3> QED BY <1>0, <3>2, <3>3, Zenon DEF MasterTypeOK
  <2>5. /\ players' = pl
        /\ \/ toWorker' = start_all_rooms(q, rm, pl) /\ room' = Started(rm)
           \/ toWorker' = q /\ room' = rm
        /\ anyStarted' = (anyStarted \/ Startable(rm) # {}) \/ UNCHANGED anyStarted
    BY <1>7, Zenon DEF HandleJoined
  <2> HIDE DEF pl, rm, q
  <2>6. q \in [Slots -> Seq(HubMsg(MasterTypes))]
    BY <1>0, <2>3, BroadcastType, Zenon DEF HubTypeOK, q
  <2>7. toWorker' \in [Slots -> Seq(HubMsg(MasterTypes))] /\ room' \in [Slots -> Room]
    <3>1. start_all_rooms(q, rm, pl) \in [Slots -> Seq(HubMsg(MasterTypes))] /\ Started(rm) \in [Slots -> Room]
      BY <2>3, <2>4, <2>6, StartAllType, Zenon
    <3> QED BY <2>4, <2>5, <2>6, <3>1, Zenon
  <2>8. anyStarted' \in BOOLEAN
    BY <1>0, <2>5, Zenon DEF MasterTypeOK
  <2> QED BY <1>0, <1>7, <2>1, <2>3, <2>5, <2>7, <2>8, Zenon
          DEF HandleJoined, TypeOK, HubTypeOK, WkTypeOK, FloorTypeOK, MasterTypeOK, workerVars
<1>8. ASSUME NEW s \in Slots, HandleEliminated(s)
      PROVE  TypeOK'
  <2> DEFINE dead == {i \in DOMAIN players : players[i].id = Head(toMaster[s]).id}
             pl == Bury(players, dead)
             q  == broadcast_roster(toWorker, room, pl)
  <2>1. toMaster' \in [Slots -> Seq(HubMsg(WorkerTypes))]
    BY <1>0, <1>8, HeardType, Zenon DEF HandleEliminated
  <2>2. pl \in Seq(PlayerRec)
    BY <1>0, BuryType, Zenon DEF MasterTypeOK
  <2>3. players' = pl /\ check_global_end(q, room, pl)
    BY <1>8, Zenon DEF HandleEliminated
  <2> HIDE DEF pl, q
  <2>4. q \in [Slots -> Seq(HubMsg(MasterTypes))]
    BY <1>0, <2>2, BroadcastType, Zenon DEF HubTypeOK, q
  <2>5. /\ toWorker' \in [Slots -> Seq(HubMsg(MasterTypes))]
        /\ matchEnded' \in BOOLEAN /\ winner' \in Nat
    BY <1>0, <2>2, <2>3, <2>4, GlobalEndType, Zenon
  <2> QED BY <1>0, <1>8, <2>1, <2>2, <2>3, <2>5, Zenon
          DEF HandleEliminated, TypeOK, HubTypeOK, WkTypeOK, FloorTypeOK, MasterTypeOK, workerVars
<1>9. ASSUME NEW s \in Slots, HandleAttack(s)
      PROVE  TypeOK'
  <2> DEFINE m == Head(toMaster[s])
             g == [m EXCEPT !.type = "GARBAGE"]
  <2>1. m \in HubMsg(WorkerTypes) /\ toMaster' \in [Slots -> Seq(HubMsg(WorkerTypes))]
    BY <1>0, <1>9, HeardType, Zenon DEF HandleAttack
  <2>2. g \in HubMsg(MasterTypes)
    BY <2>1, Zenon DEF HubMsg, MasterTypes
  <2>3. PICK to : toWorker' = Send(toWorker, to, g)
    BY <1>9, Zenon DEF HandleAttack
  <2> HIDE DEF g
  <2>4. toWorker' \in [Slots -> Seq(HubMsg(MasterTypes))]
    BY <1>0, <2>2, <2>3, SendType, Zenon DEF Send, HubTypeOK
  <2> QED BY <1>0, <1>9, <2>1, <2>4, Zenon
          DEF HandleAttack, TypeOK, HubTypeOK, WkTypeOK, FloorTypeOK, MasterTypeOK, workerVars, masterVars
<1>10. ASSUME NEW s \in Slots, HandleFeed(s)
      PROVE  TypeOK'
  <2> DEFINE m == Head(toMaster[s])
  <2>1. m \in HubMsg(WorkerTypes) /\ toMaster' \in [Slots -> Seq(HubMsg(WorkerTypes))]
    BY <1>0, <1>10, HeardType, Zenon DEF HandleFeed
  <2>2. m \in HubMsg(MasterTypes)
    BY <1>10, <2>1, Zenon DEF HubMsg, MasterTypes, HandleFeed, Heard
  <2>3. \E to : toWorker' = Send(toWorker, to, m)
    BY <1>10, Zenon DEF HandleFeed
  <2>4. toWorker' \in [Slots -> Seq(HubMsg(MasterTypes))]
    BY <1>0, <2>2, <2>3, SendType DEF Send, HubTypeOK
  <2> QED BY <1>0, <1>10, <2>1, <2>4, Zenon
          DEF HandleFeed, TypeOK, HubTypeOK, WkTypeOK, FloorTypeOK, MasterTypeOK, workerVars, masterVars
<1>11. ASSUME NEW s \in Slots, WorkerGone(s)
      PROVE  TypeOK'
  <2>1. /\ HubTypeOK' /\ room' \in [Slots -> Room] /\ players' \in Seq(PlayerRec)
        /\ matchEnded' \in BOOLEAN /\ winner' \in Nat
    BY <1>0, <1>11, CloseType, Zenon DEF WorkerGone
  <2> QED BY <1>0, <1>11, <2>1, Zenon DEF WorkerGone, TypeOK, WkTypeOK, FloorTypeOK, MasterTypeOK, workerVars
<1> QED BY <1>1, <1>2, <1>3, <1>4, <1>5, <1>6, <1>7, <1>8, <1>9, <1>10, <1>11, Zenon DEF MasterStep

-----------------------------------------------------------------------------
(* The daemon's state stays well typed: no queue, table or process record  *)
(* leaves the shape its C type gives it, for any number of rooms.          *)
THEOREM Typing == Spec => []TypeOK
<1>1. Init => TypeOK
  <2> SUFFICES ASSUME Init PROVE TypeOK
    BY Zenon
  <2>1. HubTypeOK
    <3>1. <<>> \in Seq(HubMsg(WorkerTypes)) /\ <<>> \in Seq(HubMsg(MasterTypes))
      OBVIOUS
    <3> QED BY <3>1, Zenon DEF Init, HubTypeOK
  <2>2. WkTypeOK
    <3>1. Process("none", 0) \in Worker /\ Process("none", 0).reported <= Len(Process("none", 0).members)
      BY DEF Process, Worker
    <3> QED BY <3>1, Zenon DEF Init, WkTypeOK
  <2>3. FloorTypeOK
    BY WorkerAssumption DEF Init, FloorTypeOK
  <2>4. MasterTypeOK
    <3>1. [FreshRoom(0) EXCEPT !.used = FALSE] \in Room
      BY Zenon DEF FreshRoom, Room
    <3>2. room \in [Slots -> Room]
      BY <3>1, Zenon DEF Init
    <3>3. players \in Seq(PlayerRec)
      BY DEF Init
    <3>4. roomSeq \in 0..MaxSpawns /\ clients \in 0..MaxClients
      BY MasterAssumption DEF Init
    <3>5. anyStarted \in BOOLEAN /\ matchEnded \in BOOLEAN /\ winner \in Nat /\ mpc \in {"run", "stop", "done"}
      BY Zenon DEF Init
    <3> QED BY <3>2, <3>3, <3>4, <3>5, Zenon DEF MasterTypeOK
  <2> QED BY <2>1, <2>2, <2>3, <2>4, Zenon DEF TypeOK
<1>2. TypeOK /\ [Next]_vars => TypeOK'
  <2> SUFFICES ASSUME TypeOK, [Next]_vars PROVE TypeOK'
    BY Zenon
  <2>1. CASE Next
    BY <2>1, MasterTypeStep, WorkerTypeStep, EventTypeStep, Zenon DEF Next
  <2>2. CASE UNCHANGED vars
    BY <2>2, Zenon DEF vars, hubVars, workerVars, masterVars, TypeOK, HubTypeOK, WkTypeOK, FloorTypeOK, MasterTypeOK
  <2> QED BY <2>1, <2>2, Zenon
<1> QED BY <1>1, <1>2, PTL DEF Spec

-----------------------------------------------------------------------------
(* Bury changes no id.                                                     *)
LEMMA BuryIds ==
    ASSUME NEW pl \in Seq(PlayerRec), NEW dead
    PROVE  /\ DOMAIN Bury(pl, dead) = DOMAIN pl
           /\ \A i \in DOMAIN pl : Bury(pl, dead)[i].id = pl[i].id
<1>1. \A i \in DOMAIN pl : pl[i] \in PlayerRec
  OBVIOUS
<1> QED BY <1>1, Zenon DEF Bury, PlayerRec

-----------------------------------------------------------------------------
(* What a step of worker s does, in the terms the invariants below need.   *)

(* It touches nothing of the master and of the other workers.              *)
Apart(s) ==
    /\ UNCHANGED masterVars
    /\ \A t \in Slots : t # s => /\ wk'[t] = wk[t] /\ dealt'[t] = dealt[t] /\ shown'[t] = shown[t]
                                 /\ toMaster'[t] = toMaster[t] /\ toWorker'[t] = toWorker[t]

(* The message m is put on the way to the master, if the master listens.   *)
Says(s, m) == toMaster'[s] = IF room[s].used THEN Append(toMaster[s], m) ELSE toMaster[s]

(* Who is in the session, and the state of its members.                    *)
Seated(s) == Live(s) /\ Live(s)' /\ Session(s)' = Session(s)
Standings(s) == /\ wk'[s].out = wk[s].out /\ wk'[s].gone = wk[s].gone /\ wk'[s].told = wk[s].told
                /\ wk'[s].garbage = wk[s].garbage

Ends(s) ==
    /\ wk'[s] = Process("exited", 0) /\ toWorker'[s] = <<>>
    /\ UNCHANGED <<toMaster, shown, victimOf, attacks>>

Moves(s) ==
    /\ Seated(s) /\ Standings(s) /\ wk'[s].global = wk[s].global
    /\ UNCHANGED <<toMaster, toWorker, shown, victimOf, attacks>>

Boots(s) ==
    /\ Seated(s) /\ Standings(s) /\ wk'[s].global = wk[s].global
    /\ Says(s, Msg("READY", 0)) /\ UNCHANGED <<toWorker, shown, victimOf, attacks>>

Reads(s) ==
    /\ Seated(s) /\ Standings(s) /\ toWorker[s] # <<>>
    /\ LET m == Head(toWorker[s]) IN
       /\ wk'[s].global = IF m.type = "ROSTER" THEN m.alive ELSE wk[s].global
       /\ \/ UNCHANGED shown
          \/ /\ m.type = "FEED" \/ (m.type = "GARBAGE" /\ m.id \in Session(s))
             /\ broadcast_feed(s, m.lines)
    /\ toWorker'[s] = Tail(toWorker[s]) /\ UNCHANGED <<toMaster, victimOf, attacks>>

Joins(s, p) ==
    /\ Live(s) /\ Live(s)' /\ Session(s)' = Session(s) \cup {p}
    /\ wk[s].reported < Len(wk[s].members) /\ p = wk[s].members[wk[s].reported + 1]
    /\ Standings(s) /\ wk'[s].global = wk[s].global
    /\ Says(s, Msg("JOINED", p)) /\ UNCHANGED <<toWorker, shown, victimOf, attacks>>

Falls(s, p) ==
    /\ Seated(s) /\ p \in Session(s) /\ wk'[s].told = wk[s].told /\ wk'[s].global = wk[s].global
    /\ wk'[s].out = wk[s].out \cup {p} /\ wk'[s].gone \in {wk[s].gone, wk[s].gone \cup {p}}
    /\ wk'[s].garbage = wk[s].garbage
    /\ UNCHANGED <<toMaster, toWorker, shown, victimOf, attacks>>

Clears(s, p) ==
    /\ Seated(s) /\ p \in Session(s) /\ wk'[s].told = wk[s].told /\ wk'[s].global = wk[s].global
    /\ wk'[s].out \in {wk[s].out, wk[s].out \cup {p}} /\ wk'[s].gone = wk[s].gone
    /\ wk'[s].garbage = {g \in wk[s].garbage : g.who # p} \cup {[who |-> p, lines |-> attacks + 1]}
    /\ attacks' = attacks + 1
    /\ UNCHANGED <<toMaster, toWorker, shown, victimOf>>

Tells(s, p) ==
    /\ Seated(s) /\ p \in wk[s].out /\ p \notin wk[s].told /\ wk'[s].told = wk[s].told \cup {p}
    /\ wk'[s].out = wk[s].out /\ wk'[s].gone = wk[s].gone /\ wk'[s].garbage = wk[s].garbage
    /\ wk'[s].global = wk[s].global
    /\ Says(s, Msg("ELIMINATED", p)) /\ UNCHANGED <<toWorker, shown, victimOf, attacks>>

Routes(s, g, v) ==
    /\ Seated(s) /\ wk[s].out \subseteq wk[s].told
    /\ wk'[s].told = wk[s].told /\ wk'[s].out = wk[s].out /\ wk'[s].gone = wk[s].gone
    /\ wk'[s].global = wk[s].global /\ wk'[s].garbage = wk[s].garbage \ {g}
    /\ g \in wk[s].garbage /\ v \in wk[s].global \cup Session(s) \cup {0}
    /\ victimOf' = [victimOf EXCEPT ![g.lines] = v]
    /\ LET a == [attacker |-> g.who, victim |-> v, lines |-> g.lines] IN
       \/ UNCHANGED <<shown, toMaster>>
       \/ broadcast_feed(s, g.lines) /\ Says(s, AttackMsg("FEED", a))
       \/ /\ v \notin find_player(s) /\ v # 0 /\ broadcast_feed(s, g.lines)
          /\ toMaster'[s] = IF room[s].used
                            THEN Append(Append(toMaster[s], AttackMsg("ATTACK", a)), AttackMsg("FEED", a))
                            ELSE toMaster[s]
    /\ UNCHANGED <<toWorker, attacks>>

(* hub_send to the master appends to the queue of the sender, and only if  *)
(* the master's end is open.                                               *)
LEMMA Said ==
    ASSUME NEW s \in Slots, NEW m, Tell(s, MasterEnds, m)
    PROVE  Says(s, m) /\ \A t \in Slots : t # s => toMaster'[t] = toMaster[t]
BY Zenon DEF Tell, hub_send, MasterEnds, Used, Says

(* The same for an attack and its feed (room.c:307-350).                   *)
LEMMA SaidTwo ==
    ASSUME NEW s \in Slots, NEW m, NEW n,
           toMaster' = hub_send(hub_send(toMaster, {s} \cap MasterEnds, m), {s} \cap MasterEnds, n)
    PROVE  /\ toMaster'[s] = IF room[s].used THEN Append(Append(toMaster[s], m), n) ELSE toMaster[s]
           /\ \A t \in Slots : t # s => toMaster'[t] = toMaster[t]
BY Zenon DEF hub_send, MasterEnds, Used

(* Every step of a worker is one of these (room.c).                        *)
LEMMA WorkerMoves ==
    ASSUME TypeOK, NEW s \in Slots, WorkerStep(s) \/ WorkerEvent(s)
    PROVE  /\ Apart(s) /\ wk'[s].pc # "boot" /\ Live(s)
           /\ \/ Ends(s) \/ Moves(s) \/ Boots(s) \/ Reads(s)
              \/ \E p : Joins(s, p) \/ Falls(s, p) \/ Clears(s, p) \/ Tells(s, p)
              \/ \E g, v : Routes(s, g, v)
<1> DEFINE Goal == /\ Apart(s) /\ wk'[s].pc # "boot" /\ Live(s)
                   /\ \/ Ends(s) \/ Moves(s) \/ Boots(s) \/ Reads(s)
                      \/ \E p : Joins(s, p) \/ Falls(s, p) \/ Clears(s, p) \/ Tells(s, p)
                      \/ \E g, v : Routes(s, g, v)
<1>0. /\ wk \in [Slots -> Worker] /\ dealt \in [Slots -> Nat] /\ shown \in [Slots -> [1..MaxAttacks -> Nat]]
      /\ toMaster \in [Slots -> Seq(HubMsg(WorkerTypes))] /\ toWorker \in [Slots -> Seq(HubMsg(MasterTypes))]
      /\ UNCHANGED masterVars
  BY Zenon DEF TypeOK, WkTypeOK, FloorTypeOK, HubTypeOK, WorkerStep, WorkerEvent
<1>r. /\ wk[s].reported \in Nat /\ wk[s].members \in Seq(Nat) /\ wk[s].reported <= Len(wk[s].members)
  BY <1>0, Zenon DEF Worker, TypeOK, WkTypeOK
<1>a. ASSUME \A t \in Slots : t # s => wk'[t] = wk[t] /\ toMaster'[t] = toMaster[t] /\ toWorker'[t] = toWorker[t],
             UNCHANGED dealt \/ dealt' = [dealt EXCEPT ![s] = @ - 1],
             UNCHANGED shown \/ \E n : broadcast_feed(s, n)
      PROVE  Apart(s)
  BY <1>0, <1>a, Zenon DEF Apart, broadcast_feed
<1>s. ASSUME wk'[s].members = wk[s].members, wk'[s].reported = wk[s].reported
      PROVE  Session(s)' = Session(s)
  BY <1>s, Zenon DEF Session
<1>x. ASSUME Exit(s), Live(s), UNCHANGED <<dealt, shown, victimOf, attacks>>
      PROVE  Goal
  <2>1. wk'[s] = Process("exited", 0) /\ toWorker'[s] = <<>> /\ wk'[s].pc = "exited" /\ UNCHANGED toMaster
    BY <1>0, <1>x, Zenon DEF Exit, Process
  <2>2. \A t \in Slots : t # s => wk'[t] = wk[t] /\ toMaster'[t] = toMaster[t] /\ toWorker'[t] = toWorker[t]
    BY <1>0, <1>x, Zenon DEF Exit
  <2> QED  BY <1>a, <1>x, <2>1, <2>2, Zenon DEF Ends
(* A step that changes nothing of the process but where it is.             *)
<1>m. ASSUME Live(s), NEW pc \in {"lobby", "play", "over"}, wk'[s].pc = pc, \A t \in Slots : t # s => wk'[t] = wk[t],
             wk'[s].reported = wk[s].reported, Standings(s), wk'[s].global = wk[s].global,
             \/ wk'[s].members = wk[s].members /\ UNCHANGED dealt
             \/ wk'[s].members = Append(wk[s].members, wk[s].nextId) /\ dealt' = [dealt EXCEPT ![s] = @ - 1]
             \/ wk'[s].members = wk[s].members /\ dealt' = [dealt EXCEPT ![s] = @ - 1],
             UNCHANGED <<toMaster, toWorker, shown, victimOf, attacks>>
      PROVE  Goal
  <2>1. Session(s)' = Session(s)
    <3>1. CASE wk'[s].members = wk[s].members
      BY <1>m, <1>s, <3>1, Zenon
    <3>2. CASE wk'[s].members = Append(wk[s].members, wk[s].nextId)
      <4>1. \A i \in 1..wk[s].reported : Append(wk[s].members, wk[s].nextId)[i] = wk[s].members[i]
        BY <1>r
      <4>2. \A i \in 1..wk[s].reported : wk'[s].members[i] = wk[s].members[i]
        BY <3>2, <4>1, Zenon
      <4>3. Session(s)' = {wk'[s].members[i] : i \in 1..wk[s].reported}
        BY <1>m, Zenon DEF Session
      <4> QED  BY <4>2, <4>3, Zenon DEF Session
    <3> QED  BY <1>m, <3>1, <3>2, ZenonT(40)
  <2>2. Live(s)' /\ wk'[s].pc # "boot"
    BY <1>m, Zenon DEF Live
  <2>3. Moves(s)
    BY <1>m, <2>1, <2>2, Zenon DEF Moves, Seated
  <2>4. Apart(s)
    BY <1>a, <1>m, Zenon
  <2> QED  BY <1>m, <2>2, <2>3, <2>4, Zenon
<1>1. CASE Boot(s, MasterEnds)
  <2>1. /\ wk[s].pc = "boot" /\ wk'[s].pc = "lobby" /\ \A t \in Slots : t # s => wk'[t] = wk[t]
        /\ wk'[s].members = wk[s].members /\ wk'[s].reported = wk[s].reported
        /\ Standings(s) /\ wk'[s].global = wk[s].global
    BY <1>0, <1>1, Zenon DEF Boot, Worker, Standings
  <2>2. /\ Says(s, Msg("READY", 0)) /\ \A t \in Slots : t # s => toMaster'[t] = toMaster[t]
        /\ UNCHANGED <<toWorker, dealt, shown, victimOf, attacks>>
    BY <1>1, Said, Zenon DEF Boot
  <2>3. Session(s)' = Session(s) /\ Live(s) /\ Live(s)'
    BY <1>s, <2>1, Zenon DEF Live
  <2>4. Boots(s)
    BY <2>1, <2>2, <2>3, Zenon DEF Boots, Seated
  <2> QED  BY <1>a, <2>1, <2>2, <2>3, <2>4, Zenon
<1>2. CASE ReportJoin(s, MasterEnds)
  <2>0. PICK p : p = wk[s].members[wk[s].reported + 1]
    BY Zenon
  <2>1. /\ wk[s].pc = "lobby" /\ wk'[s].pc = "lobby" /\ \A t \in Slots : t # s => wk'[t] = wk[t]
        /\ wk'[s].members = wk[s].members /\ wk'[s].reported = wk[s].reported + 1
        /\ Standings(s) /\ wk'[s].global = wk[s].global /\ wk[s].reported < Len(wk[s].members)
    BY <1>0, <1>2, Zenon DEF ReportJoin, Worker, Standings
  <2>2. /\ Says(s, Msg("JOINED", p)) /\ \A t \in Slots : t # s => toMaster'[t] = toMaster[t]
        /\ UNCHANGED <<toWorker, dealt, shown, victimOf, attacks>>
    <3>1. Tell(s, MasterEnds, Msg("JOINED", p)) /\ UNCHANGED <<toWorker, dealt, shown, victimOf, attacks>>
      BY <1>2, <2>0, Zenon DEF ReportJoin
    <3> QED  BY <3>1, Said, Zenon
  <2>3. Session(s)' = Session(s) \cup {p}
    <3>1. \A i : i \in 1..(wk[s].reported + 1) <=> i \in 1..wk[s].reported \/ i = wk[s].reported + 1
      BY <1>r
    <3> QED  BY <2>0, <2>1, <3>1, Zenon DEF Session
  <2>4. Live(s) /\ Live(s)'
    BY <2>1, Zenon DEF Live
  <2>5. Joins(s, p)
    BY <2>0, <2>1, <2>2, <2>3, <2>4, Zenon DEF Joins
  <2> QED  BY <1>a, <2>1, <2>2, <2>4, <2>5, Zenon
<1>3. CASE LobbyRecv(s)
  <2>1. /\ wk[s].pc = "lobby" /\ wk'[s].pc = "lobby" /\ \A t \in Slots : t # s => wk'[t] = wk[t]
        /\ wk'[s].members = wk[s].members /\ wk'[s].reported = wk[s].reported
        /\ Standings(s)
        /\ wk'[s].global = IF Head(toWorker[s]).type = "ROSTER" THEN Head(toWorker[s]).alive ELSE wk[s].global
    BY <1>0, <1>3 DEF LobbyRecv, LobbyTake, Worker, Standings, Inbox
  <2>2. /\ toWorker[s] # <<>> /\ toWorker'[s] = Tail(toWorker[s]) /\ \A t \in Slots : t # s => toWorker'[t] = toWorker[t]
        /\ UNCHANGED <<toMaster, dealt, shown, victimOf, attacks>>
    BY <1>0, <1>3, Zenon DEF LobbyRecv, Took, Inbox
  <2>3. Session(s)' = Session(s) /\ Live(s) /\ Live(s)'
    BY <1>s, <2>1, Zenon DEF Live
  <2>4. Reads(s)
    BY <2>1, <2>2, <2>3, Zenon DEF Reads, Seated
  <2> QED  BY <1>a, <2>1, <2>2, <2>3, <2>4, Zenon
<1>4. CASE PlayRecv(s)
  <2> DEFINE m == Head(toWorker[s])
  <2>1. /\ wk[s].pc = "play" /\ wk'[s].pc = "play" /\ \A t \in Slots : t # s => wk'[t] = wk[t]
        /\ wk'[s].members = wk[s].members /\ wk'[s].reported = wk[s].reported
        /\ Standings(s)
        /\ wk'[s].global = IF m.type = "ROSTER" THEN m.alive ELSE wk[s].global
    BY <1>0, <1>4 DEF PlayRecv, PlayTake, Worker, Standings, Inbox
  <2>2. /\ toWorker[s] # <<>> /\ toWorker'[s] = Tail(toWorker[s]) /\ \A t \in Slots : t # s => toWorker'[t] = toWorker[t]
        /\ UNCHANGED <<toMaster, dealt, victimOf, attacks>>
    BY <1>0, <1>4, Zenon DEF PlayRecv, Took, Inbox
  <2>3. \/ UNCHANGED shown
        \/ /\ m.type = "FEED" \/ (m.type = "GARBAGE" /\ m.id \in Session(s))
           /\ broadcast_feed(s, m.lines)
    BY <1>4, Zenon DEF PlayRecv, Inbox, find_player
  <2>4. Session(s)' = Session(s) /\ Live(s) /\ Live(s)'
    BY <1>s, <2>1, Zenon DEF Live
  <2>5. Reads(s)
    BY <2>1, <2>2, <2>3, <2>4, Zenon DEF Reads, Seated
  <2> QED  BY <1>a, <2>1, <2>2, <2>3, <2>4, <2>5, Zenon
<1>5. CASE \E graceOver \in BOOLEAN : LobbyStart(s, graceOver)
  <2>1. /\ \/ Exit(s)
           \/ wk' = [wk EXCEPT ![s].pc = "play"] /\ UNCHANGED hubVars
        /\ wk[s].pc = "lobby" /\ UNCHANGED <<dealt, shown, victimOf, attacks>>
    BY <1>5, Zenon DEF LobbyStart
  <2>2. CASE wk' = [wk EXCEPT ![s].pc = "play"] /\ UNCHANGED hubVars
    <3>1. /\ wk'[s].pc = "play" /\ \A t \in Slots : t # s => wk'[t] = wk[t]
          /\ wk'[s].members = wk[s].members /\ wk'[s].reported = wk[s].reported
          /\ Standings(s) /\ wk'[s].global = wk[s].global
      BY <1>0, <2>2 DEF Worker, Standings
    <3> QED  BY <1>m, <2>1, <2>2, <3>1, Zenon DEF Live, hubVars
  <2> QED  BY <1>x, <2>1, <2>2, Zenon DEF Live
<1>6. CASE MasterGone(s, MasterEnds)
  <2>1. /\ \/ Exit(s)
           \/ wk' = [wk EXCEPT ![s].pc = "over", ![s].over = TRUE] /\ UNCHANGED hubVars
        /\ wk[s].pc \in {"lobby", "play"} /\ UNCHANGED <<dealt, shown, victimOf, attacks>>
    BY <1>6, Zenon DEF MasterGone, HungUp
  <2>2. CASE wk' = [wk EXCEPT ![s].pc = "over", ![s].over = TRUE] /\ UNCHANGED hubVars
    <3>1. /\ wk'[s].pc = "over" /\ \A t \in Slots : t # s => wk'[t] = wk[t]
          /\ wk'[s].members = wk[s].members /\ wk'[s].reported = wk[s].reported
          /\ Standings(s) /\ wk'[s].global = wk[s].global
      BY <1>0, <2>2 DEF Worker, Standings
    <3> QED  BY <1>m, <2>1, <2>2, <3>1, Zenon DEF Live, hubVars
  <2> QED  BY <1>x, <2>1, <2>2, Zenon DEF Live
<1>7. CASE RoomOver(s)
  <2>1. /\ wk[s].pc = "play" /\ wk' = [wk EXCEPT ![s].pc = "over"] /\ UNCHANGED hubVars
        /\ UNCHANGED <<dealt, shown, victimOf, attacks>>
    BY <1>7, Zenon DEF RoomOver
  <2>2. /\ wk'[s].pc = "over" /\ \A t \in Slots : t # s => wk'[t] = wk[t]
        /\ wk'[s].members = wk[s].members /\ wk'[s].reported = wk[s].reported
        /\ Standings(s) /\ wk'[s].global = wk[s].global
    BY <1>0, <2>1, Zenon DEF Worker, Standings
  <2> QED  BY <1>m, <2>1, <2>2, Zenon DEF Live, hubVars
<1>8. CASE RoomExit(s) \/ Crash(s)
  BY <1>8, <1>x, Zenon DEF RoomExit, Crash, Live
<1>9. CASE Arrive(s) \/ ArriveFails(s)
  <2>1. /\ wk[s].pc = "lobby" /\ dealt' = [dealt EXCEPT ![s] = @ - 1]
        /\ \/ wk' = [wk EXCEPT ![s].nextId = @ + 1, ![s].members = Append(@, wk[s].nextId)]
           \/ wk' = [wk EXCEPT ![s].nextId = @ + 1]
        /\ UNCHANGED <<toMaster, toWorker, shown, victimOf, attacks>>
    BY <1>9, Zenon DEF Arrive, ArriveFails
  <2>2. /\ wk'[s].pc = "lobby" /\ \A t \in Slots : t # s => wk'[t] = wk[t]
        /\ wk'[s].members \in {wk[s].members, Append(wk[s].members, wk[s].nextId)}
        /\ wk'[s].reported = wk[s].reported
        /\ Standings(s) /\ wk'[s].global = wk[s].global
    BY <1>0, <2>1 DEF Worker, Standings
  <2> QED  BY <1>m, <2>1, <2>2, Zenon DEF Live
(* What players do to their own state.                                     *)
<1>p. ASSUME NEW p \in Session(s), Playing(s, p), wk'[s].pc = wk[s].pc,
             wk'[s].members = wk[s].members, wk'[s].reported = wk[s].reported,
             \A t \in Slots : t # s => wk'[t] = wk[t],
             UNCHANGED <<hubVars, dealt, shown, victimOf>>, Falls(s, p) \/ Clears(s, p)
      PROVE  Goal
  <2>1. Live(s) /\ wk'[s].pc # "boot"
    BY <1>p, Zenon DEF Playing, Live
  <2>2. Apart(s)
    BY <1>a, <1>p, Zenon DEF hubVars
  <2> QED  BY <1>p, <2>1, <2>2, Zenon
<1>10. ASSUME NEW p \in Session(s), Quit(s, p) \/ TopOut(s, p)
       PROVE  Goal
  <2>1. /\ Playing(s, p) /\ UNCHANGED <<hubVars, dealt, shown, victimOf, attacks>>
        /\ \/ wk' = [wk EXCEPT ![s].out = @ \cup {p}, ![s].gone = @ \cup {p}]
           \/ wk' = [wk EXCEPT ![s].out = @ \cup {p}]
    BY <1>10, Zenon DEF Quit, TopOut
  <2>2. /\ wk'[s].pc = wk[s].pc /\ \A t \in Slots : t # s => wk'[t] = wk[t]
        /\ wk'[s].members = wk[s].members /\ wk'[s].reported = wk[s].reported
        /\ wk'[s].out = wk[s].out \cup {p} /\ wk'[s].gone \in {wk[s].gone, wk[s].gone \cup {p}}
        /\ wk'[s].told = wk[s].told /\ wk'[s].global = wk[s].global /\ wk'[s].garbage = wk[s].garbage
    BY <1>0, <2>1 DEF Worker
  <2>3. Session(s)' = Session(s) /\ Live(s) /\ Live(s)'
    BY <1>s, <2>1, <2>2, Zenon DEF Live, Playing
  <2>4. Falls(s, p)
    BY <1>10, <2>1, <2>2, <2>3, Zenon DEF Falls, Seated, hubVars
  <2> QED  BY <1>p, <2>1, <2>2, <2>4, Zenon
<1>11. ASSUME NEW p \in Session(s), NEW toppedOut \in BOOLEAN, ClearLines(s, p, toppedOut)
       PROVE  Goal
  <2> DEFINE G == {g \in wk[s].garbage : g.who # p} \cup {[who |-> p, lines |-> attacks + 1]}
             O == IF toppedOut THEN wk[s].out \cup {p} ELSE wk[s].out
  <2>1. /\ Playing(s, p) /\ UNCHANGED <<hubVars, dealt, shown, victimOf>> /\ attacks' = attacks + 1
        /\ wk' = [wk EXCEPT ![s].garbage = G, ![s].out = O]
    BY <1>11, Zenon DEF ClearLines
  <2> HIDE DEF G, O
  <2>2. /\ wk'[s].pc = wk[s].pc /\ \A t \in Slots : t # s => wk'[t] = wk[t]
        /\ wk'[s].members = wk[s].members /\ wk'[s].reported = wk[s].reported
        /\ wk'[s].out = O /\ wk'[s].gone = wk[s].gone
        /\ wk'[s].told = wk[s].told /\ wk'[s].global = wk[s].global /\ wk'[s].garbage = G
    BY <1>0, <2>1 DEF Worker
  <2>3. Session(s)' = Session(s) /\ Live(s) /\ Live(s)'
    BY <1>s, <2>1, <2>2, Zenon DEF Live, Playing
  <2>4. O \in {wk[s].out, wk[s].out \cup {p}}
    BY Zenon DEF O
  <2>5. Clears(s, p)
    BY <1>11, <2>1, <2>2, <2>3, <2>4, Zenon DEF Clears, Seated, hubVars, G
  <2> QED  BY <1>p, <2>1, <2>2, <2>5, Zenon
<1>12. CASE ReportElim(s, MasterEnds)
  <2>1. PICK p \in NewlyOut(s) : /\ wk' = [wk EXCEPT ![s].told = @ \cup {p}]
                                 /\ Tell(s, MasterEnds, Msg("ELIMINATED", p))
    BY <1>12, Zenon DEF ReportElim
  <2>2. wk[s].pc = "play" /\ UNCHANGED <<toWorker, dealt, shown, victimOf, attacks>>
    BY <1>12, Zenon DEF ReportElim
  <2>3. /\ wk'[s].pc = "play" /\ \A t \in Slots : t # s => wk'[t] = wk[t]
        /\ wk'[s].members = wk[s].members /\ wk'[s].reported = wk[s].reported
        /\ wk'[s].out = wk[s].out /\ wk'[s].gone = wk[s].gone /\ wk'[s].told = wk[s].told \cup {p}
        /\ wk'[s].global = wk[s].global /\ wk'[s].garbage = wk[s].garbage
    BY <1>0, <2>1, <2>2 DEF Worker
  <2>4. Says(s, Msg("ELIMINATED", p)) /\ \A t \in Slots : t # s => toMaster'[t] = toMaster[t]
    BY <2>1, Said, Zenon
  <2>5. Session(s)' = Session(s) /\ Live(s) /\ Live(s)' /\ p \in wk[s].out /\ p \notin wk[s].told
    BY <1>s, <2>1, <2>2, <2>3, Zenon DEF Live, NewlyOut
  <2>6. Tells(s, p)
    BY <2>2, <2>3, <2>4, <2>5, Zenon DEF Tells, Seated
  <2> QED  BY <1>a, <2>2, <2>3, <2>4, <2>5, <2>6, Zenon
<1>13. CASE Route(s, MasterEnds)
  <2>1. PICK g, v :
          LET a == [attacker |-> g.who, victim |-> v, lines |-> g.lines] IN
          /\ g \in wk[s].garbage /\ v \in resolve_victim(s, g.who)
          /\ wk' = [wk EXCEPT ![s].garbage = @ \ {g}]
          /\ victimOf' = [victimOf EXCEPT ![g.lines] = v]
          /\ \/ broadcast_feed(s, g.lines) /\ Tell(s, MasterEnds, AttackMsg("FEED", a))
             \/ /\ v \notin find_player(s) /\ v # 0 /\ broadcast_feed(s, g.lines)
                /\ toMaster' = hub_send(hub_send(toMaster, {s} \cap MasterEnds, AttackMsg("ATTACK", a)),
                                        {s} \cap MasterEnds, AttackMsg("FEED", a))
             \/ UNCHANGED <<shown, toMaster>>
    BY <1>13, Zenon DEF Route
  <2>0. PICK atk, feed : /\ atk = AttackMsg("ATTACK", [attacker |-> g.who, victim |-> v, lines |-> g.lines])
                         /\ feed = AttackMsg("FEED", [attacker |-> g.who, victim |-> v, lines |-> g.lines])
    BY Zenon
  <2>2. wk[s].pc = "play" /\ wk[s].out \subseteq wk[s].told /\ UNCHANGED <<toWorker, dealt, attacks>>
    BY <1>13, Zenon DEF Route
  <2>3. /\ wk'[s].pc = "play" /\ \A t \in Slots : t # s => wk'[t] = wk[t]
        /\ wk'[s].members = wk[s].members /\ wk'[s].reported = wk[s].reported
        /\ wk'[s].out = wk[s].out /\ wk'[s].gone = wk[s].gone /\ wk'[s].told = wk[s].told
        /\ wk'[s].global = wk[s].global /\ wk'[s].garbage = wk[s].garbage \ {g}
    BY <1>0, <2>1, <2>2, Zenon DEF Worker
  <2>4. /\ \/ UNCHANGED <<shown, toMaster>>
           \/ broadcast_feed(s, g.lines) /\ Says(s, feed)
           \/ /\ v \notin find_player(s) /\ v # 0 /\ broadcast_feed(s, g.lines)
              /\ toMaster'[s] = IF room[s].used THEN Append(Append(toMaster[s], atk), feed) ELSE toMaster[s]
        /\ \A t \in Slots : t # s => toMaster'[t] = toMaster[t]
    <3>1. CASE broadcast_feed(s, g.lines) /\ Tell(s, MasterEnds, feed)
      BY <3>1, Said, Zenon
    <3>2. CASE /\ v \notin find_player(s) /\ v # 0 /\ broadcast_feed(s, g.lines)
               /\ toMaster' = hub_send(hub_send(toMaster, {s} \cap MasterEnds, atk), {s} \cap MasterEnds, feed)
      BY <3>2, SaidTwo, Zenon
    <3> QED  BY <2>0, <2>1, <3>1, <3>2, ZenonT(40)
  <2>5. Session(s)' = Session(s) /\ Live(s) /\ Live(s)' /\ v \in wk[s].global \cup Session(s) \cup {0}
    BY <1>s, <2>1, <2>2, <2>3, Zenon DEF Live, resolve_victim
  <2>6. Routes(s, g, v)
    BY <2>0, <2>1, <2>2, <2>3, <2>4, <2>5, Zenon DEF Routes, Seated
  <2>7. Apart(s)
    BY <1>a, <2>2, <2>3, <2>4, Zenon
  <2> QED  BY <2>2, <2>3, <2>5, <2>6, <2>7, Zenon
<1> HIDE DEF Goal
<1> QED
  BY <1>1, <1>2, <1>3, <1>4, <1>5, <1>6, <1>7, <1>8, <1>9, <1>10, <1>11, <1>12, <1>13, Zenon
     DEF WorkerStep, WorkerEvent, Goal

-----------------------------------------------------------------------------
(* What the master sends besides garbage and feeds: K is the set of the    *)
(* players it has recorded.                                                *)
Ids(pl) == {pl[i].id : i \in DOMAIN pl}

Notice(m, K) == m.type \in {"START", "ROSTER", "GAMEOVER"} /\ (m.type = "ROSTER" => m.alive \subseteq K)

Longer(q, r, K) ==
    \A t \in Slots : /\ DOMAIN q[t] \subseteq DOMAIN r[t]
                     /\ \A k \in DOMAIN r[t] : IF k \in DOMAIN q[t] THEN r[t][k] = q[t][k]
                                                                   ELSE Notice(r[t][k], K)

(* One such message to some rooms, or to none.                             *)
LEMMA LongerSend ==
    ASSUME NEW M, NEW q \in [Slots -> Seq(M)], NEW S, NEW m \in M, NEW K, Notice(m, K)
    PROVE  Longer(q, hub_send(q, S, m), K)
<1> SUFFICES ASSUME NEW t \in Slots, NEW r, r = hub_send(q, S, m)[t]
             PROVE  /\ DOMAIN q[t] \subseteq DOMAIN r
                    /\ \A k \in DOMAIN r : IF k \in DOMAIN q[t] THEN r[k] = q[t][k] ELSE Notice(r[k], K)
  BY Zenon DEF Longer
<1>1. PICK x \in Seq(M) : x = q[t]
  BY Zenon
<1>2. r = Append(x, m) \/ r = x
  BY <1>1, Zenon DEF hub_send
<1>3. CASE r = Append(x, m)
  <2>1. DOMAIN x = 1..Len(x) /\ DOMAIN r = 1..(Len(x) + 1) /\ r[Len(x) + 1] = m
        /\ \A k \in 1..Len(x) : r[k] = x[k]
    BY <1>3
  <2>2. Len(x) \in Nat
    OBVIOUS
  <2> QED  BY <1>1, <2>1, <2>2
<1> QED  BY <1>1, <1>2, <1>3, Zenon

(* Several of them.                                                        *)
LEMMA LongerTrans ==
    ASSUME NEW p, NEW q, NEW r, NEW K, Longer(p, q, K), Longer(q, r, K)
    PROVE  Longer(p, r, K)
BY Zenon DEF Longer

(* broadcast_roster (main.c:228-242).                                      *)
LEMMA LongerRoster ==
    ASSUME NEW q \in [Slots -> Seq(HubMsg(MasterTypes))], NEW rm, NEW pl \in Seq(PlayerRec)
    PROVE  /\ Longer(q, broadcast_roster(q, rm, pl), Ids(pl))
           /\ broadcast_roster(q, rm, pl) \in [Slots -> Seq(HubMsg(MasterTypes))]
<1>1. RosterMsg(Standing(pl)) \in HubMsg(MasterTypes)
  BY StandingType, RosterMsgType, Zenon
<1>2. Notice(RosterMsg(Standing(pl)), Ids(pl))
  BY Zenon DEF Notice, RosterMsg, Standing, Ids
<1>3. Longer(q, hub_send(q, {s \in Running(rm) : Live(s)}, RosterMsg(Standing(pl))), Ids(pl))
  BY <1>1, <1>2, LongerSend, Zenon
<1> QED  BY <1>3, BroadcastType, Zenon DEF broadcast_roster, Send

(* start_all_rooms (main.c:244-268).                                       *)
LEMMA LongerStart ==
    ASSUME NEW q \in [Slots -> Seq(HubMsg(MasterTypes))], NEW rm \in [Slots -> Room], NEW pl \in Seq(PlayerRec)
    PROVE  Longer(q, start_all_rooms(q, rm, pl), Ids(pl))
<1> SUFFICES ASSUME NEW t \in Slots, NEW r, r = start_all_rooms(q, rm, pl)[t]
             PROVE  /\ DOMAIN q[t] \subseteq DOMAIN r
                    /\ \A k \in DOMAIN r : IF k \in DOMAIN q[t] THEN r[k] = q[t][k] ELSE Notice(r[k], Ids(pl))
  BY Zenon DEF Longer
<1>1. PICK x \in Seq(HubMsg(MasterTypes)) : x = q[t]
  BY Zenon
<1>2. PICK y \in Seq(HubMsg(MasterTypes)) :
        /\ start_all_rooms(q, rm, pl)[t] = q[t] \o y
        /\ \A j \in DOMAIN y : y[j].type = "START" \/ (y[j].type = "ROSTER" /\ y[j].alive = Standing(pl))
  BY StartAllShape, Zenon
<1>3. \A j \in DOMAIN y : Notice(y[j], Ids(pl))
  BY <1>2 DEF Notice, Standing, Ids
<1>4. /\ DOMAIN x = 1..Len(x) /\ DOMAIN y = 1..Len(y) /\ DOMAIN r = 1..(Len(x) + Len(y))
      /\ Len(x) \in Nat /\ Len(y) \in Nat
      /\ \A k \in DOMAIN r : r[k] = IF k <= Len(x) THEN x[k] ELSE y[k - Len(x)]
  BY <1>1, <1>2
<1>5. \A k \in DOMAIN r : k \notin DOMAIN x => k - Len(x) \in DOMAIN y /\ r[k] = y[k - Len(x)]
  BY <1>4
<1>6. \A k \in DOMAIN x : k \in DOMAIN r /\ r[k] = x[k]
  BY <1>4
<1> QED  BY <1>1, <1>3, <1>5, <1>6, Zenon

(* check_global_end (main.c:273-307).                                      *)
LEMMA LongerEnd ==
    ASSUME NEW q \in [Slots -> Seq(HubMsg(MasterTypes))], NEW rm, NEW pl \in Seq(PlayerRec), NEW K,
           check_global_end(q, rm, pl)
    PROVE  Longer(q, toWorker', K) /\ (matchEnded => matchEnded')
<1>1. CASE EndsMatch(pl)
  <2>1. PICK m : m = Msg("GAMEOVER", WinnerOf(pl))
    BY Zenon
  <2>2. m \in HubMsg(MasterTypes) /\ Notice(m, K)
    <3>1. "GAMEOVER" \in MasterTypes
      BY Zenon DEF MasterTypes
    <3> QED  BY <2>1, <3>1, WinnerType, MsgType, Zenon DEF Notice, Msg
  <2>3. toWorker' = hub_send(q, {s \in Used(rm) : Live(s)}, m) /\ matchEnded'
    BY <1>1, <2>1, Zenon DEF check_global_end, Send
  <2> QED  BY <2>2, <2>3, LongerSend, Zenon
<1>2. CASE ~EndsMatch(pl)
  BY <1>2, Zenon DEF check_global_end, Longer
<1> QED  BY <1>1, <1>2, Zenon

-----------------------------------------------------------------------------
(* What a step of the master does, in the same terms.                      *)

Rooms == \A t \in Slots : room'[t].used = room[t].used /\ room'[t].base = room[t].base

Tends ==
    /\ Rooms /\ UNCHANGED <<players, matchEnded>> /\ Longer(toWorker, toWorker', Ids(players))
    /\ UNCHANGED toMaster \/ \E s \in Slots : Heard(s, "READY")

Enrols(s) ==
    /\ Rooms /\ UNCHANGED matchEnded /\ Longer(toWorker, toWorker', Ids(players')) /\ Heard(s, "JOINED")
    /\ \/ players' = players
       \/ players' = Append(players, [id |-> Head(toMaster[s]).id, room |-> s, alive |-> TRUE])

Buries(s) ==
    /\ Rooms /\ Longer(toWorker, toWorker', Ids(players)) /\ Heard(s, "ELIMINATED")
    /\ players' = Bury(players, {i \in DOMAIN players : players[i].id = Head(toMaster[s]).id})
    /\ matchEnded => matchEnded'

Closes(s) ==
    /\ \A t \in Slots : room'[t].base = room[t].base /\ (t # s => room'[t].used = room[t].used)
    /\ ~room'[s].used /\ toMaster' = [toMaster EXCEPT ![s] = <<>>]
    /\ Longer(toWorker, toWorker', Ids(players))
    /\ players' = IF matchEnded THEN players ELSE Bury(players, Occupants(s))
    /\ matchEnded => matchEnded'

(* close_room is a step of that kind (main.c:312-338).                     *)
LEMMA ClosesRoom ==
    ASSUME TypeOK, NEW s \in Slots, close_room(s)
    PROVE  Closes(s)
<1>1. /\ room \in [Slots -> Room] /\ players \in Seq(PlayerRec)
      /\ toWorker \in [Slots -> Seq(HubMsg(MasterTypes))]
  BY Zenon DEF TypeOK, MasterTypeOK, HubTypeOK
<1>2. PICK rm, pl : /\ rm = [room EXCEPT ![s].used = FALSE]
                    /\ pl = IF matchEnded THEN players ELSE Bury(players, Occupants(s))
  BY Zenon
<1>3. /\ room' = rm /\ players' = pl /\ toMaster' = [toMaster EXCEPT ![s] = <<>>]
      /\ \/ check_global_end(broadcast_roster(toWorker, rm, pl), rm, pl)
         \/ UNCHANGED <<toWorker, matchEnded, winner>>
  BY <1>2, Zenon DEF close_room
<1>4. /\ \A t \in Slots : room'[t].base = room[t].base /\ (t # s => room'[t].used = room[t].used)
      /\ ~room'[s].used
  BY <1>1, <1>2, <1>3, Zenon DEF Room
<1>5. pl \in Seq(PlayerRec) /\ Ids(pl) = Ids(players)
  BY <1>1, <1>2, BuryType, BuryIds DEF Ids
<1>6. Longer(toWorker, toWorker', Ids(players)) /\ (matchEnded => matchEnded')
  <2>1. CASE UNCHANGED <<toWorker, matchEnded, winner>>
    BY <2>1, Zenon DEF Longer
  <2>2. CASE check_global_end(broadcast_roster(toWorker, rm, pl), rm, pl)
    <3>1. PICK q : q = broadcast_roster(toWorker, rm, pl)
      BY Zenon
    <3>2. q \in [Slots -> Seq(HubMsg(MasterTypes))] /\ Longer(toWorker, q, Ids(pl))
      BY <1>1, <1>5, <3>1, LongerRoster, Zenon
    <3>3. Longer(q, toWorker', Ids(pl)) /\ (matchEnded => matchEnded')
      BY <1>5, <2>2, <3>1, <3>2, LongerEnd, Zenon
    <3>4. Longer(toWorker, toWorker', Ids(pl))
      BY <3>2, <3>3, LongerTrans, Zenon
    <3> QED  BY <1>5, <3>3, <3>4, Zenon
  <2> QED  BY <1>3, <2>1, <2>2, Zenon
<1> QED  BY <1>2, <1>3, <1>4, <1>6, Zenon DEF Closes

(* Every step of the master is one of these, or forks a worker (main.c).   *)
LEMMA MasterMoves ==
    ASSUME TypeOK,
           \/ AcceptClient \/ SpawnRoom \/ PressEnter \/ Interrupt \/ StopRoom
           \/ \E s \in Slots : MasterStep(s)
           \/ UNCHANGED vars
    PROVE  \/ SpawnRoom
           \/ /\ UNCHANGED <<wk, shown, victimOf, attacks>>
              /\ \/ Tends
                 \/ \E s \in Slots : Enrols(s) \/ Buries(s) \/ HandleAttack(s) \/ HandleFeed(s) \/ Closes(s)
<1> DEFINE Goal == \/ SpawnRoom
                   \/ /\ UNCHANGED <<wk, shown, victimOf, attacks>>
                      /\ \/ Tends
                         \/ \E s \in Slots : \/ Enrols(s) \/ Buries(s) \/ HandleAttack(s)
                                             \/ HandleFeed(s) \/ Closes(s)
<1> USE DEF workerVars, masterVars, hubVars
<1>0. /\ room \in [Slots -> Room] /\ players \in Seq(PlayerRec)
      /\ toWorker \in [Slots -> Seq(HubMsg(MasterTypes))]
  BY Zenon DEF TypeOK, MasterTypeOK, HubTypeOK
<1>l. Longer(toWorker, toWorker, Ids(players))
  BY Zenon DEF Longer
<1>1. CASE AcceptClient
  <2>1. PICK s \in Slots : room' = Deal(room, s)
    BY <1>1, Zenon DEF AcceptClient, First, Open, Used
  <2>2. Rooms
    BY <1>0, <2>1, Zenon DEF Rooms, Deal, Room
  <2> QED  BY <1>1, <1>l, <2>2, Zenon DEF AcceptClient, Tends
<1>2. CASE PressEnter
  <2>1. Rooms
    BY <1>0, <1>2, Zenon DEF PressEnter, Rooms, Started, Room
  <2>2. Longer(toWorker, toWorker', Ids(players))
    BY <1>0, <1>2, LongerStart, Zenon DEF PressEnter
  <2> QED  BY <1>2, <2>1, <2>2, Zenon DEF PressEnter, Tends
<1>3. CASE Interrupt \/ UNCHANGED vars
  BY <1>3, <1>l, Zenon DEF Interrupt, vars, Tends, Rooms
<1>4. CASE StopRoom
  <2>1. PICK s \in Slots : close_room(s)
    BY <1>4, Zenon DEF StopRoom, First, Used
  <2> QED  BY <1>4, <2>1, ClosesRoom, Zenon DEF StopRoom
<1>5. ASSUME NEW s \in Slots, HandleReady(s)
      PROVE  Goal
  <2>1. Rooms
    BY <1>0, <1>5, Zenon DEF HandleReady, Rooms, Room
  <2> QED  BY <1>5, <1>l, <2>1, Zenon DEF HandleReady, Tends
<1>6. ASSUME NEW s \in Slots, HandleJoined(s)
      PROVE  Goal
  <2>r. PICK rec : rec = [id |-> Head(toMaster[s]).id, room |-> s, alive |-> TRUE]
    BY Zenon
  <2>0. PICK pl, rm, q :
          /\ pl = (IF Len(players) < MaxPlayers THEN Append(players, rec) ELSE players)
          /\ rm = [room EXCEPT ![s].joined = @ + 1] /\ q = broadcast_roster(toWorker, rm, pl)
    BY Zenon
  <2>1. /\ pl = players \/ pl = Append(players, rec)
        /\ players' = pl
        /\ \/ toWorker' = start_all_rooms(q, rm, pl) /\ room' = Started(rm)
           \/ toWorker' = q /\ room' = rm
    <3>1. /\ players' = pl
          /\ IF Len(pl) >= RoomSize * MaxRooms
             THEN toWorker' = start_all_rooms(q, rm, pl) /\ room' = Started(rm)
             ELSE toWorker' = q /\ room' = rm
      BY <1>6, <2>r, <2>0, Zenon DEF HandleJoined
    <3> QED  BY <2>0, <3>1, Zenon
  <2>2. pl \in Seq(PlayerRec) /\ rm \in [Slots -> Room]
    <3>1. Head(toMaster[s]).id \in Nat
      BY <1>6, HeardType, Zenon DEF HandleJoined, TypeOK
    <3>2. rec \in PlayerRec
      BY <2>r, <3>1, Zenon DEF PlayerRec
    <3>3. Append(players, rec) \in Seq(PlayerRec)
      BY <1>0, <3>2
    <3>4. pl \in Seq(PlayerRec)
      BY <1>0, <2>1, <3>3, Zenon
    <3>5. PICK n : n = room[s].joined + 1
      BY Zenon
    <3>6. room[s] \in Room /\ n \in Nat
      BY <1>0, <3>5 DEF Room
    <3>7. [room[s] EXCEPT !.joined = n] \in Room
      BY <3>6, Zenon DEF Room
    <3>8. rm = [room EXCEPT ![s] = [room[s] EXCEPT !.joined = n]]
      BY <2>0, <3>5, Zenon
    <3> QED  BY <1>0, <3>4, <3>7, <3>8, Zenon
  <2>3. q \in [Slots -> Seq(HubMsg(MasterTypes))] /\ Longer(toWorker, q, Ids(pl))
    BY <1>0, <2>0, <2>2, LongerRoster, Zenon
  <2>4. Longer(q, start_all_rooms(q, rm, pl), Ids(pl))
    BY <2>2, <2>3, LongerStart, Zenon
  <2>5. Longer(toWorker, toWorker', Ids(players'))
    BY <2>1, <2>3, <2>4, LongerTrans, Zenon
  <2>6. Rooms
    <3>1. \A t \in Slots : rm[t].used = room[t].used /\ rm[t].base = room[t].base
      BY <1>0, <2>0, Zenon DEF Room
    <3>2. \A t \in Slots : Started(rm)[t].used = rm[t].used /\ Started(rm)[t].base = rm[t].base
      BY <2>2, Zenon DEF Started, Room
    <3> QED  BY <2>1, <3>1, <3>2, Zenon DEF Rooms
  <2> QED  BY <1>6, <2>r, <2>1, <2>5, <2>6, Zenon DEF HandleJoined, Enrols
<1>7. ASSUME NEW s \in Slots, HandleEliminated(s)
      PROVE  Goal
  <2>1. PICK dead, pl : /\ dead = {i \in DOMAIN players : players[i].id = Head(toMaster[s]).id}
                        /\ pl = Bury(players, dead) /\ players' = pl
                        /\ check_global_end(broadcast_roster(toWorker, room, pl), room, pl)
    BY <1>7, Zenon DEF HandleEliminated
  <2>2. pl \in Seq(PlayerRec) /\ Ids(pl) = Ids(players)
    <3>1. pl \in Seq(PlayerRec)
      BY <1>0, <2>1, BuryType, Zenon
    <3>2. DOMAIN pl = DOMAIN players /\ \A i \in DOMAIN players : pl[i].id = players[i].id
      BY <1>0, <2>1, BuryIds, Zenon
    <3> QED  BY <3>1, <3>2, Zenon DEF Ids
  <2>3. PICK q : q = broadcast_roster(toWorker, room, pl)
    BY Zenon
  <2>4. q \in [Slots -> Seq(HubMsg(MasterTypes))] /\ Longer(toWorker, q, Ids(pl))
    BY <1>0, <2>2, <2>3, LongerRoster, Zenon
  <2>5. Longer(q, toWorker', Ids(pl)) /\ (matchEnded => matchEnded')
    BY <2>1, <2>2, <2>3, <2>4, LongerEnd, Zenon
  <2>6. Longer(toWorker, toWorker', Ids(players))
    BY <2>2, <2>4, <2>5, LongerTrans, Zenon
  <2> QED  BY <1>7, <2>1, <2>5, <2>6, Zenon DEF HandleEliminated, Buries, Rooms
<1>8. ASSUME NEW s \in Slots, WorkerGone(s)
      PROVE  Goal
  BY <1>8, ClosesRoom, Zenon DEF WorkerGone
<1>9. ASSUME NEW s \in Slots, HandleAttack(s) \/ HandleFeed(s)
      PROVE  Goal
  BY <1>9, Zenon DEF HandleAttack, HandleFeed
<1> QED  BY <1>1, <1>2, <1>3, <1>4, <1>5, <1>6, <1>7, <1>8, <1>9, Zenon DEF MasterStep

(* A worker is forked into a free slot, with nothing but its block.        *)
Spawns(s) ==
    /\ ~room[s].used /\ room'[s].used /\ ~room'[s].ready /\ room'[s].base = spawn_base
    /\ wk'[s] = Process("boot", spawn_base) /\ dealt'[s] = 0
    /\ toMaster'[s] = <<>> /\ toWorker'[s] = <<>> /\ shown'[s] = [n \in 1..MaxAttacks |-> 0]
    /\ \A t \in Slots : t # s => /\ wk'[t] = wk[t] /\ dealt'[t] = dealt[t] /\ shown'[t] = shown[t]
                                 /\ room'[t] = room[t] /\ toMaster'[t] = toMaster[t] /\ toWorker'[t] = toWorker[t]
    /\ UNCHANGED <<players, matchEnded, victimOf, attacks>>

(* spawn_room is a step of that kind (main.c:124-177).                     *)
LEMMA SpawnMoves ==
    ASSUME TypeOK, StaleClients = FALSE, SpawnRoom
    PROVE  \E s \in Slots : Spawns(s)
<1>0. /\ room \in [Slots -> Room] /\ wk \in [Slots -> Worker] /\ dealt \in [Slots -> Nat]
      /\ toMaster \in [Slots -> Seq(HubMsg(WorkerTypes))] /\ toWorker \in [Slots -> Seq(HubMsg(MasterTypes))]
      /\ shown \in [Slots -> [1..MaxAttacks -> Nat]]
  BY Zenon DEF TypeOK, MasterTypeOK, WkTypeOK, FloorTypeOK, HubTypeOK
<1>b. PICK b, f : b = spawn_base /\ f = FreshRoom(b)
  BY Zenon
<1>1. PICK s \in Slots \ Used(room) :
        /\ room' = Deal([room EXCEPT ![s] = f], s)
        /\ wk' = [wk EXCEPT ![s] = Process("boot", b)]
        /\ toMaster' = [toMaster EXCEPT ![s] = <<>>]
        /\ toWorker' = [toWorker EXCEPT ![s] = <<>>]
        /\ shown' = [shown EXCEPT ![s] = [n \in 1..MaxAttacks |-> 0]]
        /\ dealt' = [dealt EXCEPT ![s] = 0]
  BY <1>b, Zenon DEF SpawnRoom, First
<1>2. f.used /\ ~f.ready /\ f.base = b /\ f.redirected = 0 /\ f.pending = 0
  BY <1>b, Zenon DEF FreshRoom
<1>3. PICK rm : rm = [room EXCEPT ![s] = f]
  BY Zenon
<1>4. /\ DOMAIN rm = Slots /\ rm[s] = f /\ \A t \in Slots : t # s => rm[t] = room[t]
  BY <1>0, <1>3, Zenon
<1>5. room' = Deal(rm, s)
  BY <1>1, <1>3, Zenon
<1>6. f \in Room
  <2>1. b \in Nat
    <3>1. roomSeq \in Nat /\ MaxLobby \in Nat
      BY HubAssumption, MasterAssumption DEF TypeOK, MasterTypeOK
    <3>2. \A k, m \in Nat : 1 + k * m \in Nat
      OBVIOUS
    <3> QED  BY <1>b, <3>1, <3>2, Zenon DEF spawn_base
  <2> QED  BY <1>b, <2>1, Zenon DEF FreshRoom, Room
<1>7. PICK r : r = [f EXCEPT !.redirected = 1, !.pending = 1]
  BY Zenon
<1>8. r.used /\ ~r.ready /\ r.base = b
  BY <1>2, <1>6, <1>7, Zenon DEF Room
<1>9. Deal(rm, s) = [rm EXCEPT ![s] = [rm[s] EXCEPT !.redirected = rm[s].redirected + 1,
                                                    !.pending = rm[s].pending + 1]]
  BY <1>1, <1>2, <1>4, <1>6, Zenon DEF Deal, Bound, Room
<1>10. Deal(rm, s) = [rm EXCEPT ![s] = r]
  BY <1>2, <1>4, <1>7, <1>9
<1>11. room'[s] = r /\ \A t \in Slots : t # s => room'[t] = room[t]
  BY <1>4, <1>5, <1>10, Zenon
<1>12. ~room[s].used
  BY <1>1, Zenon DEF Used
<1>13. UNCHANGED <<players, matchEnded, victimOf, attacks>>
  BY Zenon DEF SpawnRoom
<1>14. /\ wk'[s] = Process("boot", spawn_base) /\ dealt'[s] = 0
       /\ toMaster'[s] = <<>> /\ toWorker'[s] = <<>> /\ shown'[s] = [n \in 1..MaxAttacks |-> 0]
       /\ \A t \in Slots : t # s => /\ wk'[t] = wk[t] /\ dealt'[t] = dealt[t] /\ shown'[t] = shown[t]
                                    /\ toMaster'[t] = toMaster[t] /\ toWorker'[t] = toWorker[t]
  BY <1>0, <1>b, <1>1, Zenon
<1>15. Spawns(s)
  BY <1>b, <1>8, <1>11, <1>12, <1>13, <1>14, Zenon DEF Spawns
<1> QED  BY <1>1, <1>15, Zenon

-----------------------------------------------------------------------------
(* A worker that has not bound its ports has said nothing, and nobody has  *)
(* been sent to it.                                                        *)
BootInv == \A s \in Slots : wk[s].pc = "boot" =>
             dealt[s] = 0 /\ (room[s].used => ~room[s].ready /\ toMaster[s] = <<>>)

(* BootInv survives every step: only READY makes a room ready, and only a  *)
(* worker that has left "boot" says it (room.c:109-145).                   *)
LEMMA BootStep ==
    ASSUME StaleClients = FALSE, TypeOK, BootInv, [Next]_vars
    PROVE  BootInv'
<1>0. /\ room \in [Slots -> Room] /\ dealt \in [Slots -> Nat]
      /\ toMaster \in [Slots -> Seq(HubMsg(WorkerTypes))] /\ players \in Seq(PlayerRec)
  BY Zenon DEF TypeOK, MasterTypeOK, FloorTypeOK, HubTypeOK
<1> USE DEF workerVars, masterVars, hubVars
<1>f. ASSUME UNCHANGED <<wk, dealt>>,
             \A t \in Slots : /\ room'[t].used => room[t].used /\ room'[t].ready = room[t].ready
                              /\ toMaster[t] = <<>> => toMaster'[t] = <<>>
      PROVE  BootInv'
  BY <1>f, Zenon DEF BootInv
<1>t. ASSUME NEW s \in Slots, toMaster[s] # <<>>, toMaster' = [toMaster EXCEPT ![s] = Tail(@)]
      PROVE  \A t \in Slots : toMaster[t] = <<>> => toMaster'[t] = <<>>
  BY <1>0, <1>t, Zenon
<1>r. ASSUME NEW rm \in [Slots -> Room]
      PROVE  \A t \in Slots : Started(rm)[t].used = rm[t].used /\ Started(rm)[t].ready = rm[t].ready
  BY <1>r, Zenon DEF Started, Room
<1>c. ASSUME NEW s \in Slots, close_room(s), UNCHANGED <<wk, dealt>>
      PROVE  BootInv'
  <2>1. room' = [room EXCEPT ![s].used = FALSE] /\ toMaster' = [toMaster EXCEPT ![s] = <<>>]
    BY <1>c, Zenon DEF close_room
  <2> QED  BY <1>0, <1>c, <1>f, <2>1, Zenon DEF Room
<1>1. CASE AcceptClient
  <2>1. PICK s \in Slots : /\ room[s].used /\ room' = Deal(room, s) /\ UNCHANGED <<wk, toMaster>>
                           /\ dealt' = [dealt EXCEPT ![s] = IF room[s].ready THEN @ + 1 ELSE @]
    BY <1>1, Zenon DEF AcceptClient, First, Open, Used, Bound
  <2>2. \A t \in Slots : room'[t].used = room[t].used /\ room'[t].ready = room[t].ready
    BY <1>0, <2>1, Zenon DEF Deal, Room
  <2>3. \A t \in Slots : t # s => dealt'[t] = dealt[t]
    BY <1>0, <2>1, Zenon
  <2>4. ~room[s].ready => dealt'[s] = dealt[s]
    BY <1>0, <2>1, Zenon
  <2> QED  BY <2>1, <2>2, <2>3, <2>4 DEF BootInv
<1>2. CASE SpawnRoom
  <2>1. PICK s \in Slots : Spawns(s)
    BY <1>2, SpawnMoves, Zenon
  <2> QED  BY <2>1 DEF Spawns, BootInv
<1>3. CASE PressEnter
  BY <1>0, <1>3, <1>f, <1>r, Zenon DEF PressEnter
<1>4. CASE Interrupt \/ UNCHANGED vars
  BY <1>4, <1>f, Zenon DEF Interrupt, vars
<1>5. CASE StopRoom
  BY <1>5, <1>c, Zenon DEF StopRoom, First, Used
<1>6. ASSUME NEW s \in Slots, HandleReady(s)
      PROVE  BootInv'
  <2>1. /\ wk[s].pc # "boot" /\ UNCHANGED wk
        /\ \A t \in Slots : t # s => dealt'[t] = dealt[t] /\ room'[t] = room[t] /\ toMaster'[t] = toMaster[t]
    BY <1>0, <1>6, Zenon DEF HandleReady, Heard, BootInv
  <2> QED  BY <2>1, Zenon DEF BootInv
<1>7. ASSUME NEW s \in Slots, HandleJoined(s)
      PROVE  BootInv'
  <2>1. PICK rm : /\ rm = [room EXCEPT ![s].joined = @ + 1] /\ (room' = Started(rm) \/ room' = rm)
                  /\ UNCHANGED <<wk, dealt>>
    BY <1>7, Zenon DEF HandleJoined
  <2>2. rm \in [Slots -> Room] /\ \A t \in Slots : rm[t].used = room[t].used /\ rm[t].ready = room[t].ready
    <3>1. PICK n : n = room[s].joined + 1
      BY Zenon
    <3>2. rm = [room EXCEPT ![s] = [room[s] EXCEPT !.joined = n]] /\ n \in Nat /\ room[s] \in Room
      BY <1>0, <2>1, <3>1 DEF Room
    <3>3. PICK x : x = [room[s] EXCEPT !.joined = n]
      BY Zenon
    <3>4. x \in Room /\ x.used = room[s].used /\ x.ready = room[s].ready
      BY <3>2, <3>3, Zenon DEF Room
    <3> QED  BY <1>0, <3>2, <3>3, <3>4, Zenon
  <2>3. \A t \in Slots : room'[t].used = room[t].used /\ room'[t].ready = room[t].ready
    <3>1. \A t \in Slots : Started(rm)[t].used = rm[t].used /\ Started(rm)[t].ready = rm[t].ready
      BY <1>r, <2>2, Zenon
    <3> QED  BY <2>1, <2>2, <3>1, ZenonT(40)
  <2>4. \A t \in Slots : toMaster[t] = <<>> => toMaster'[t] = <<>>
    BY <1>7, <1>t, Zenon DEF HandleJoined, Heard
  <2> QED  BY <1>f, <2>1, <2>3, <2>4, Zenon
<1>8. ASSUME NEW s \in Slots, HandleEliminated(s) \/ HandleAttack(s) \/ HandleFeed(s)
      PROVE  BootInv'
  BY <1>8, <1>f, <1>t, Zenon DEF HandleEliminated, HandleAttack, HandleFeed, Heard
<1>9. ASSUME NEW s \in Slots, WorkerGone(s)
      PROVE  BootInv'
  BY <1>9, <1>c, Zenon DEF WorkerGone
<1>10. ASSUME NEW s \in Slots, WorkerStep(s) \/ WorkerEvent(s)
       PROVE  BootInv'
  BY <1>10, WorkerMoves, Zenon DEF Apart, BootInv
<1> QED  BY <1>1, <1>2, <1>3, <1>4, <1>5, <1>6, <1>7, <1>8, <1>9, <1>10, SMTT(30) DEF Next, MasterStep

(* No client is sent to a port that is not bound yet: a worker reports     *)
(* READY after it has bound its ports, and the master parks the clients    *)
(* until then (room.c:109-145, main.c:191-224).                            *)
THEOREM RedirectsWait == ASSUME StaleClients = FALSE PROVE Spec => []NoEarlyRedirect
<1>1. Init => BootInv
  BY DEF Init, BootInv, Process
<1>2. BootInv => NoEarlyRedirect
  BY DEF BootInv, NoEarlyRedirect
<1>3. TypeOK /\ BootInv /\ [Next]_vars => BootInv'
  BY BootStep, Zenon
<1> QED  BY <1>1, <1>2, <1>3, Typing, PTL DEF Spec

-----------------------------------------------------------------------------
(* In a room only members fall, leave, are reported and attack.            *)
FloorInv == \A s \in Slots :
    /\ wk[s].told \subseteq wk[s].out /\ wk[s].gone \subseteq wk[s].out /\ wk[s].out \subseteq Session(s)
    /\ \A g \in wk[s].garbage : g.who \in Session(s)

(* FloorInv survives every step: the room's lists only grow, and Quit,     *)
(* TopOut and ClearLines are of members (room.c:158-350).                  *)
LEMMA FloorStep ==
    ASSUME StaleClients = FALSE, TypeOK, FloorInv, [Next]_vars
    PROVE  FloorInv'
<1> DEFINE Floor(s) == /\ wk[s].told \subseteq wk[s].out /\ wk[s].gone \subseteq wk[s].out
                       /\ wk[s].out \subseteq Session(s)
                       /\ \A g \in wk[s].garbage : g.who \in Session(s)
<1>f. ASSUME NEW s \in Slots, Floor(s), wk'[s] = wk[s]
      PROVE  Floor(s)'
  BY <1>f, Zenon DEF Session
<1>p. ASSUME NEW s \in Slots, NEW pc, NEW b, wk'[s] = Process(pc, b)
      PROVE  Floor(s)'
  BY <1>p DEF Process
<1>1. ASSUME NEW s \in Slots, Spawns(s)
      PROVE  \A t \in Slots : Floor(t)'
  <2>1. wk'[s] = Process("boot", spawn_base) /\ \A t \in Slots : t # s => wk'[t] = wk[t]
    BY <1>1, Zenon DEF Spawns
  <2>2. \A t \in Slots : Floor(t)
    BY Zenon DEF FloorInv
  <2> HIDE DEF Floor
  <2> QED  BY <1>f, <1>p, <2>1, <2>2, Zenon
<1>2. ASSUME NEW s \in Slots, WorkerStep(s) \/ WorkerEvent(s)
      PROVE  \A t \in Slots : Floor(t)'
  <2>0. /\ Apart(s) /\ Floor(s)
        /\ \/ Ends(s) \/ Moves(s) \/ Boots(s) \/ Reads(s)
           \/ \E p : Joins(s, p) \/ Falls(s, p) \/ Clears(s, p) \/ Tells(s, p)
           \/ \E g, v : Routes(s, g, v)
    BY <1>2, WorkerMoves, Zenon DEF FloorInv
  <2>1. \A t \in Slots : t # s => Floor(t)'
    BY <1>f, <2>0, Zenon DEF Apart, FloorInv
  <2>2. ASSUME Ends(s) PROVE Floor(s)'
    BY <1>p, <2>2, Zenon DEF Ends
  <2>3. ASSUME Moves(s) \/ Boots(s) \/ Reads(s) PROVE Floor(s)'
    <3>1. Session(s)' = Session(s) /\ Standings(s)
      BY <2>3, Zenon DEF Moves, Boots, Reads, Seated
    <3> QED  BY <2>0, <3>1, Zenon DEF Standings
  <2>4. ASSUME NEW p, Joins(s, p) \/ Falls(s, p) \/ Tells(s, p)
        PROVE  Floor(s)'
    <3>1. CASE Joins(s, p)
      <4>1. Session(s)' = Session(s) \cup {p} /\ Standings(s)
        BY <3>1, Zenon DEF Joins
      <4> QED  BY <2>0, <4>1, Zenon DEF Standings
    <3>2. CASE Falls(s, p)
      <4>1. /\ Session(s)' = Session(s) /\ p \in Session(s) /\ wk'[s].told = wk[s].told
            /\ wk'[s].out = wk[s].out \cup {p} /\ wk'[s].gone \subseteq wk[s].gone \cup {p}
            /\ wk'[s].garbage = wk[s].garbage
        BY <3>2, Zenon DEF Falls, Seated
      <4> QED  BY <2>0, <4>1, Zenon
    <3>3. CASE Tells(s, p)
      <4>1. /\ Session(s)' = Session(s) /\ p \in wk[s].out /\ wk'[s].told = wk[s].told \cup {p}
            /\ wk'[s].out = wk[s].out /\ wk'[s].gone = wk[s].gone /\ wk'[s].garbage = wk[s].garbage
        BY <3>3, Zenon DEF Tells, Seated
      <4> QED  BY <2>0, <4>1, Zenon
    <3> QED  BY <2>4, <3>1, <3>2, <3>3, Zenon
  <2>5. ASSUME NEW p, Clears(s, p)
        PROVE  Floor(s)'
    <3>1. /\ Session(s)' = Session(s) /\ p \in Session(s) /\ wk'[s].told = wk[s].told
          /\ wk[s].out \subseteq wk'[s].out /\ wk'[s].out \subseteq wk[s].out \cup {p}
          /\ wk'[s].gone = wk[s].gone
      BY <2>5, Zenon DEF Clears, Seated
    <3>2. \A g \in wk'[s].garbage : g \in wk[s].garbage \/ g.who = p
      BY <2>5 DEF Clears
    <3> QED  BY <2>0, <3>1, <3>2, Zenon
  <2>6. ASSUME NEW g, NEW v, Routes(s, g, v)
        PROVE  Floor(s)'
    <3>1. /\ Session(s)' = Session(s) /\ wk'[s].told = wk[s].told /\ wk'[s].out = wk[s].out
          /\ wk'[s].gone = wk[s].gone /\ wk'[s].garbage = wk[s].garbage \ {g}
      BY <2>6, Zenon DEF Routes, Seated
    <3> QED  BY <2>0, <3>1, Zenon
  <2> HIDE DEF Floor
  <2>7. Floor(s)'
    BY <2>0, <2>2, <2>3, <2>4, <2>5, <2>6, ZenonT(40)
  <2> QED  BY <2>1, <2>7, ZenonT(40)
<1>3. CASE UNCHANGED wk
  BY <1>3, <1>f, Zenon DEF FloorInv
<1>4. SpawnRoom \/ UNCHANGED wk \/ \E s \in Slots : WorkerStep(s) \/ WorkerEvent(s)
  <2>1. CASE \E s \in Slots : WorkerStep(s) \/ WorkerEvent(s)
    BY <2>1, Zenon
  <2>2. CASE \/ AcceptClient \/ SpawnRoom \/ PressEnter \/ Interrupt \/ StopRoom
             \/ \E s \in Slots : MasterStep(s)
             \/ UNCHANGED vars
    BY <2>2, MasterMoves, Zenon
  <2> QED  BY <2>1, <2>2, Zenon DEF Next
<1>5. CASE SpawnRoom
  BY <1>1, <1>5, SpawnMoves, Zenon DEF FloorInv
<1> QED  BY <1>2, <1>3, <1>4, <1>5, Zenon DEF FloorInv

(* Every step of the daemon, in those terms.                               *)
MasterMove ==
    /\ UNCHANGED <<wk, shown, victimOf, attacks>>
    /\ \/ Tends
       \/ \E s \in Slots : Enrols(s) \/ Buries(s) \/ HandleAttack(s) \/ HandleFeed(s) \/ Closes(s)

WorkerMove(s) ==
    /\ Apart(s) /\ Live(s)
    /\ \/ Ends(s) \/ Moves(s) \/ Boots(s) \/ Reads(s)
       \/ \E p : Joins(s, p) \/ Falls(s, p) \/ Clears(s, p) \/ Tells(s, p)
       \/ \E g, v : Routes(s, g, v)

(* The poll loop, the fork of a worker, and the workers (main.c, room.c).  *)
LEMMA AnyMove ==
    ASSUME StaleClients = FALSE, TypeOK, [Next]_vars
    PROVE  MasterMove \/ \E s \in Slots : Spawns(s) \/ WorkerMove(s)
<1>1. CASE \E s \in Slots : WorkerStep(s) \/ WorkerEvent(s)
  BY <1>1, WorkerMoves, Zenon DEF WorkerMove
<1>2. CASE \/ AcceptClient \/ SpawnRoom \/ PressEnter \/ Interrupt \/ StopRoom
           \/ \E s \in Slots : MasterStep(s)
           \/ UNCHANGED vars
  BY <1>2, MasterMoves, SpawnMoves, Zenon DEF MasterMove
<1> QED  BY <1>1, <1>2, Zenon DEF Next
=============================================================================
