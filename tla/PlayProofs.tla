----------------------------- MODULE PlayProofs -----------------------------
(***************************************************************************)
(* Proofs about what crosses the hubs of Tetrisd while the match runs:     *)
(* eliminations and garbage.                                               *)
(***************************************************************************)
EXTENDS MatchProofs

-----------------------------------------------------------------------------
(* Where messages about player p lie in a queue.                           *)
At(q, type, p) == {k \in DOMAIN q : q[k].type = type /\ q[k].id = p}

(* Whether the table has p standing, and whether it has p fallen in room s.*)
Stands(p) == \E i \in DOMAIN players : players[i].id = p /\ players[i].alive
Fallen(s, p) == \E i \in DOMAIN players : players[i].room = s /\ players[i].id = p /\ ~players[i].alive

(* What is on its way about player p from room s: p is announced before it *)
(* is reported, it is reported once, and the report is on its way exactly  *)
(* until the table has p fallen.                                           *)
Tale(s, p) ==
    /\ \A k \in At(toMaster[s], "JOINED", p), l \in At(toMaster[s], "ELIMINATED", p) : k < l
    /\ \A k, l \in At(toMaster[s], "ELIMINATED", p) : k = l
    /\ At(toMaster[s], "ELIMINATED", p) # {} => p \in Block(s) /\ (Live(s) => p \in wk[s].told)
    /\ Live(s) /\ p \in wk[s].told /\ (At(toMaster[s], "JOINED", p) # {} \/ Stands(p)) =>
         At(toMaster[s], "ELIMINATED", p) # {}
    /\ Live(s) /\ p \in Session(s) /\ Fallen(s, p) =>
         p \in wk[s].told /\ At(toMaster[s], "ELIMINATED", p) = {}

TaleInv == \A s \in Slots : room[s].used => \A p \in Nat : Tale(s, p)

(* The messages about p in room s's queue move d places, perhaps fewer     *)
(* JOINED are left.                                                        *)
Slides(s, p, d) ==
    /\ \A k \in At(toMaster'[s], "JOINED", p) : k \in Nat /\ k + d \in At(toMaster[s], "JOINED", p)
    /\ \A k \in At(toMaster'[s], "ELIMINATED", p) : k \in Nat /\ k + d \in At(toMaster[s], "ELIMINATED", p)
    /\ At(toMaster[s], "ELIMINATED", p) # {} => At(toMaster'[s], "ELIMINATED", p) # {}

(* A step that is not about p in room s keeps its tale.                    *)
LEMMA TaleFrame ==
    ASSUME NEW s \in Slots, NEW p, NEW d \in Nat, Tale(s, p), Slides(s, p, d),
           room'[s].base = room[s].base,
           Live(s)' => Live(s) /\ (p \in wk'[s].told <=> p \in wk[s].told) /\ (p \in Session(s)' <=> p \in Session(s)),
           Live(s)' /\ p \in wk'[s].told /\ (At(toMaster'[s], "JOINED", p) # {} \/ Stands(p)') =>
             At(toMaster[s], "JOINED", p) # {} \/ Stands(p),
           Live(s)' /\ p \in Session(s)' /\ Fallen(s, p)' => Fallen(s, p)
    PROVE  Tale(s, p)'
<1>1. PICK J, E, JJ, EE : /\ J = At(toMaster[s], "JOINED", p) /\ E = At(toMaster[s], "ELIMINATED", p)
                          /\ JJ = At(toMaster'[s], "JOINED", p) /\ EE = At(toMaster'[s], "ELIMINATED", p)
  BY Zenon
<1>2. /\ \A k \in JJ : k \in Nat /\ k + d \in J
      /\ \A k \in EE : k \in Nat /\ k + d \in E
      /\ E # {} => EE # {}
  BY <1>1, Zenon DEF Slides
<1>3. /\ \A k \in J, l \in E : k < l
      /\ \A k, l \in E : k = l
      /\ E # {} => p \in Block(s) /\ (Live(s) => p \in wk[s].told)
      /\ Live(s) /\ p \in wk[s].told /\ (J # {} \/ Stands(p)) => E # {}
      /\ Live(s) /\ p \in Session(s) /\ Fallen(s, p) => p \in wk[s].told /\ E = {}
  BY <1>1, Zenon DEF Tale
<1>4. \A k \in JJ, l \in EE : k < l
  BY <1>2, <1>3
<1>5. \A k, l \in EE : k = l
  BY <1>2, <1>3
<1>6. Block(s)' = Block(s)
  BY Zenon DEF Block
<1>7. EE # {} => E # {}
  BY <1>2, Zenon
<1>8. EE # {} => p \in Block(s)' /\ (Live(s)' => p \in wk'[s].told)
  BY <1>3, <1>6, <1>7, Zenon
<1>9. Live(s)' /\ p \in wk'[s].told /\ (JJ # {} \/ Stands(p)') => EE # {}
  BY <1>1, <1>2, <1>3, Zenon
<1>10. Live(s)' /\ p \in Session(s)' /\ Fallen(s, p)' => p \in wk'[s].told /\ EE = {}
  BY <1>3, <1>7, Zenon
<1> QED  BY <1>1, <1>4, <1>5, <1>8, <1>9, <1>10, Zenon DEF Tale

(* A queue that is left alone.                                             *)
LEMMA SlideSame ==
    ASSUME TypeOK, NEW s \in Slots, NEW p, toMaster'[s] = toMaster[s]
    PROVE  Slides(s, p, 0) /\ At(toMaster'[s], "JOINED", p) = At(toMaster[s], "JOINED", p)
<1>1. toMaster[s] \in Seq(HubMsg(WorkerTypes))
  BY Zenon DEF TypeOK, HubTypeOK
<1>2. \A k \in DOMAIN toMaster[s] : k \in Nat /\ k + 0 = k
  BY <1>1
<1> QED  BY <1>2, Zenon DEF Slides, At

(* A message put on the way that does not announce or report p.            *)
LEMMA SlideSay ==
    ASSUME TypeOK, NEW s \in Slots, NEW p, NEW m, Says(s, m),
           m.type \in {"JOINED", "ELIMINATED"} => m.id # p
    PROVE  Slides(s, p, 0) /\ At(toMaster'[s], "JOINED", p) = At(toMaster[s], "JOINED", p)
<1>1. toMaster[s] \in Seq(HubMsg(WorkerTypes))
  BY Zenon DEF TypeOK, HubTypeOK
<1>2. CASE ~room[s].used
  BY <1>2, SlideSame, Zenon DEF Says
<1>3. CASE room[s].used
  <2>1. PICK q, r : q = toMaster[s] /\ r = toMaster'[s]
    BY Zenon
  <2>2. q \in Seq(HubMsg(WorkerTypes)) /\ r = Append(q, m)
    BY <1>1, <1>3, <2>1, Zenon DEF Says
  <2>3. /\ DOMAIN r = DOMAIN q \cup {Len(q) + 1} /\ r[Len(q) + 1] = m
        /\ \A k \in DOMAIN q : k \in Nat /\ k + 0 = k /\ r[k] = q[k]
    BY <2>2
  <2>4. At(r, "JOINED", p) = At(q, "JOINED", p) /\ At(r, "ELIMINATED", p) = At(q, "ELIMINATED", p)
    BY <2>3, Zenon DEF At
  <2>5. \A ty : \A k \in At(q, ty, p) : k \in Nat /\ k + 0 = k
    BY <2>3, Zenon DEF At
  <2> QED  BY <2>1, <2>4, <2>5, Zenon DEF Slides
<1> QED  BY <1>2, <1>3, Zenon

(* The same for an attack and its feed.                                    *)
LEMMA SlideTwo ==
    ASSUME TypeOK, NEW s \in Slots, NEW p, NEW m, NEW n, m.type = "ATTACK", n.type = "FEED",
           toMaster'[s] = IF room[s].used THEN Append(Append(toMaster[s], m), n) ELSE toMaster[s]
    PROVE  Slides(s, p, 0) /\ At(toMaster'[s], "JOINED", p) = At(toMaster[s], "JOINED", p)
<1>1. CASE ~room[s].used
  BY <1>1, SlideSame, Zenon
<1>2. CASE room[s].used
  <2>1. PICK q, r : q = toMaster[s] /\ r = toMaster'[s]
    BY Zenon
  <2>2. q \in Seq(HubMsg(WorkerTypes)) /\ r = Append(Append(q, m), n)
    BY <1>2, <2>1, Zenon DEF TypeOK, HubTypeOK
  <2>3. /\ DOMAIN r = DOMAIN q \cup {Len(q) + 1, Len(q) + 2} /\ r[Len(q) + 1] = m /\ r[Len(q) + 2] = n
        /\ \A k \in DOMAIN q : k \in Nat /\ k + 0 = k /\ r[k] = q[k]
    BY <2>2
  <2>4. At(r, "JOINED", p) = At(q, "JOINED", p) /\ At(r, "ELIMINATED", p) = At(q, "ELIMINATED", p)
    BY <2>3 DEF At
  <2>5. \A ty : \A k \in At(q, ty, p) : k \in Nat /\ k + 0 = k
    BY <2>3, Zenon DEF At
  <2> QED  BY <2>1, <2>4, <2>5, Zenon DEF Slides
<1> QED  BY <1>1, <1>2, Zenon

(* A message taken off a queue.                                            *)
LEMMA TailAt ==
    ASSUME NEW T, NEW q \in Seq(T), q # <<>>, NEW type, NEW p
    PROVE  /\ \A k \in At(Tail(q), type, p) : k \in Nat /\ k + 1 \in At(q, type, p)
           /\ \A k \in At(q, type, p) : k = 1 \/ (k \in Nat /\ k - 1 \in At(Tail(q), type, p))
<1>1. /\ Len(Tail(q)) = Len(q) - 1 /\ Tail(q) \in Seq(T) /\ \A k \in 1..Len(Tail(q)) : Tail(q)[k] = q[k + 1]
      /\ Len(q) \in Nat /\ Len(q) >= 1
  OBVIOUS
<1>2. \A k \in DOMAIN Tail(q) : k \in Nat /\ k + 1 \in DOMAIN q /\ Tail(q)[k] = q[k + 1]
  BY <1>1
<1>3. \A k \in DOMAIN q : k \in Nat /\ (k # 1 => k - 1 \in DOMAIN Tail(q) /\ Tail(q)[k - 1] = q[k])
  BY <1>1
<1> QED  BY <1>2, <1>3, Zenon DEF At

(* Taking a message that does not report p.                                *)
LEMMA SlideTake ==
    ASSUME TypeOK, NEW s \in Slots, NEW p, NEW type, Heard(s, type),
           type = "ELIMINATED" => Head(toMaster[s]).id # p
    PROVE  /\ Slides(s, p, 1)
           /\ At(toMaster'[s], "JOINED", p) # {} => At(toMaster[s], "JOINED", p) # {}
<1>1. PICK q : q = toMaster[s] /\ q \in Seq(HubMsg(WorkerTypes)) /\ q # <<>> /\ toMaster'[s] = Tail(q)
  BY Zenon DEF TypeOK, HubTypeOK, Heard
<1>2. Head(q) = q[1] /\ q[1].type = type
  BY <1>1 DEF Heard
<1>3. 1 \notin At(q, "ELIMINATED", p)
  BY <1>1, <1>2, Zenon DEF At
<1>4. /\ \A k \in At(Tail(q), "JOINED", p) : k \in Nat /\ k + 1 \in At(q, "JOINED", p)
      /\ \A k \in At(Tail(q), "ELIMINATED", p) : k \in Nat /\ k + 1 \in At(q, "ELIMINATED", p)
      /\ \A k \in At(q, "ELIMINATED", p) : k = 1 \/ (k \in Nat /\ k - 1 \in At(Tail(q), "ELIMINATED", p))
  BY <1>1, TailAt, Zenon
<1> QED  BY <1>1, <1>3, <1>4, Zenon DEF Slides

(* A room whose worker and queue a step leaves alone keeps its tale, if    *)
(* the table changes for nobody in it.                                     *)
LEMMA TaleApart ==
    ASSUME TypeOK, NEW s \in Slots, NEW p, Tale(s, p), toMaster'[s] = toMaster[s],
           room'[s].base = room[s].base, wk'[s] = wk[s],
           Live(s) /\ p \in wk[s].told /\ Stands(p)' => Stands(p),
           Live(s) /\ p \in Session(s) /\ Fallen(s, p)' => Fallen(s, p)
    PROVE  Tale(s, p)'
<1>1. Live(s)' = Live(s) /\ Session(s)' = Session(s)
  BY Zenon DEF Live, Session
<1>2. Slides(s, p, 0) /\ At(toMaster'[s], "JOINED", p) = At(toMaster[s], "JOINED", p)
  BY SlideSame, Zenon
<1> QED  BY <1>1, <1>2, TaleFrame, Zenon

(* The members of a room have ids of its block (room.c:158-164).           *)
LEMMA InBlock ==
    ASSUME TypeOK, IdInv, NEW s \in Slots, Live(s), NEW i \in DOMAIN wk[s].members
    PROVE  wk[s].members[i] \in Block(s) /\ wk[s].members[i] \in Nat
<1>1. PICK m, n, d, b, p, r : /\ m = wk[s].members[i] /\ n = wk[s].nextId /\ d = dealt[s]
                              /\ b = room[s].base /\ p = room[s].pending /\ r = room[s].redirected
  BY Zenon
<1>2. m \in b..(n - 1) /\ n + d + p <= b + r /\ r <= RoomSize
  BY <1>1, Zenon DEF IdInv, MembersOrdered, BlockSpent
<1>3. n \in Nat /\ m \in Nat
  <2>1. wk[s].members \in Seq(Nat) /\ wk[s].nextId \in Nat
    BY Zenon DEF TypeOK, WkTypeOK, Worker
  <2> QED  BY <1>1, <2>1
<1>4. d \in Nat /\ b \in Nat /\ p \in Nat /\ r \in Nat
  BY <1>1, Zenon DEF TypeOK, MasterTypeOK, FloorTypeOK, Room
<1>5. RoomSize \in Nat /\ MaxLobby \in Nat /\ RoomSize <= MaxLobby
  BY MasterAssumption, HubAssumption
<1>6. m \in b..(b + MaxLobby - 1)
  BY <1>2, <1>3, <1>4, <1>5
<1> QED  BY <1>1, <1>3, <1>6 DEF Block

(* So has the session, and the next client to be announced is not in it.   *)
LEMMA SessionInBlock ==
    ASSUME TypeOK, IdInv, NEW s \in Slots, Live(s)
    PROVE  /\ \A p \in Session(s) : p \in Block(s) /\ p \in Nat
           /\ \A p : wk[s].reported < Len(wk[s].members) /\ p = wk[s].members[wk[s].reported + 1] =>
                p \notin Session(s) /\ p \in Block(s) /\ p \in Nat
<1>1. wk[s].members \in Seq(Nat) /\ wk[s].reported \in Nat /\ wk[s].reported <= Len(wk[s].members)
  BY Zenon DEF TypeOK, WkTypeOK, Worker
<1>2. \A i \in 1..wk[s].reported : i \in DOMAIN wk[s].members
  BY <1>1
<1>3. \A p \in Session(s) : p \in Block(s) /\ p \in Nat
  BY <1>2, InBlock, Zenon DEF Session
<1>4. ASSUME NEW p, wk[s].reported < Len(wk[s].members), p = wk[s].members[wk[s].reported + 1]
      PROVE  p \notin Session(s) /\ p \in Block(s) /\ p \in Nat
  <2>1. /\ wk[s].reported + 1 \in DOMAIN wk[s].members
        /\ \A i \in 1..wk[s].reported : i < wk[s].reported + 1
    BY <1>1, <1>4
  <2>2. \A i, j \in DOMAIN wk[s].members : i < j => wk[s].members[i] < wk[s].members[j]
    BY Zenon DEF IdInv, MembersOrdered
  <2>3. \A i \in 1..wk[s].reported : wk[s].members[i] < p /\ wk[s].members[i] \in Nat
    <3>1. \A i \in 1..wk[s].reported : wk[s].members[i] \in Nat
      BY <1>1, <1>2
    <3>2. \A i \in 1..wk[s].reported : wk[s].members[i] < p
      BY <1>2, <1>4, <2>1, <2>2, Zenon
    <3> QED  BY <3>1, <3>2, Zenon
  <2>4. p \in Block(s) /\ p \in Nat
    BY <1>4, <2>1, InBlock, Zenon
  <2>5. \A n \in Nat : ~(n < n)
    OBVIOUS
  <2> QED  BY <2>3, <2>4, <2>5 DEF Session
<1> QED  BY <1>3, <1>4, Zenon

(* A client that is about to be announced is in no record (room.c:160).    *)
LEMMA NotRecorded ==
    ASSUME IdInv, NEW s \in Slots, Live(s), room[s].used, NEW p \in Block(s), p \notin Session(s)
    PROVE  ~Stands(p) /\ ~Fallen(s, p)
BY Zenon DEF IdInv, RecordsKnown, Used, Stands, Fallen

(* ReportJoin and ReportElim continue the tale of the player they report.  *)
LEMMA TaleTold ==
    ASSUME TypeOK, IdInv, FloorInv, NEW s \in Slots, NEW p, Tale(s, p), room[s].used, Live(s), UNCHANGED masterVars,
           Joins(s, p) \/ Tells(s, p)
    PROVE  Tale(s, p)'
<1>1. PICK q, r : q = toMaster[s] /\ r = toMaster'[s]
  BY Zenon
<1>2. q \in Seq(HubMsg(WorkerTypes))
  BY <1>1, Zenon DEF TypeOK, HubTypeOK
<1>3. UNCHANGED <<room, players>> /\ Block(s)' = Block(s)
  BY Zenon DEF masterVars, Block
<1>4. p \notin wk[s].told
  BY SessionInBlock, Zenon DEF Joins, Tells, FloorInv
<1>5. At(q, "ELIMINATED", p) = {}
  BY <1>1, <1>4, Zenon DEF Tale
<1>6. \A m : r = Append(q, m) =>
        /\ DOMAIN r = DOMAIN q \cup {Len(q) + 1} /\ r[Len(q) + 1] = m
        /\ \A k \in DOMAIN q : r[k] = q[k] /\ k < Len(q) + 1
  BY <1>2
<1>7. CASE Joins(s, p)
  <2>1. r = Append(q, Msg("JOINED", p)) /\ Msg("JOINED", p).type = "JOINED"
    BY <1>1, <1>7, Zenon DEF Joins, Says, Msg
  <2>2. At(r, "ELIMINATED", p) = {}
    BY <1>5, <1>6, <2>1 DEF At
  <2>3. p \notin wk'[s].told
    BY <1>4, <1>7, Zenon DEF Joins, Standings
  <2>4. ~Fallen(s, p)'
    <3>1. ~Fallen(s, p)
      BY <1>7, SessionInBlock, NotRecorded DEF Joins
    <3> QED  BY <1>3, <3>1, Zenon DEF Fallen
  <2> QED  BY <1>1, <2>2, <2>3, <2>4 DEF Tale
<1>8. CASE Tells(s, p)
  <2>1. r = Append(q, Msg("ELIMINATED", p)) /\ Msg("ELIMINATED", p).type = "ELIMINATED" /\ Msg("ELIMINATED", p).id = p
    BY <1>1, <1>8, Zenon DEF Tells, Says, Msg
  <2>2. At(r, "ELIMINATED", p) = {Len(q) + 1}
    BY <1>5, <1>6, <2>1 DEF At
  <2>3. \A k \in At(r, "JOINED", p) : k < Len(q) + 1
    BY <1>6, <2>1 DEF At
  <2>4. p \in Session(s) /\ p \in wk'[s].told /\ Session(s)' = Session(s) /\ p \in Block(s)'
    BY <1>3, <1>8, SessionInBlock DEF Tells, FloorInv, Seated
  <2>5. ~Fallen(s, p)'
    <3>1. ~Fallen(s, p)
      BY <1>4, <2>4, Zenon DEF Tale
    <3> QED  BY <1>3, <3>1, Zenon DEF Fallen
  <2> QED  BY <1>1, <2>2, <2>3, <2>4, <2>5, Zenon DEF Tale
<1> QED  BY <1>7, <1>8, Zenon

(* What a worker does keeps the tales of all rooms.                        *)
LEMMA TaleWorker ==
    ASSUME TypeOK, IdInv, FloorInv, TaleInv, NEW s \in Slots, WorkerStep(s) \/ WorkerEvent(s)
    PROVE  TaleInv'
<1>0. /\ Apart(s) /\ Live(s)
      /\ \/ Ends(s) \/ Moves(s) \/ Boots(s) \/ Reads(s)
         \/ \E p : Joins(s, p) \/ Falls(s, p) \/ Clears(s, p) \/ Tells(s, p)
         \/ \E g, v : Routes(s, g, v)
  BY WorkerMoves, Zenon
<1>1. UNCHANGED masterVars /\ UNCHANGED <<room, players>>
  BY <1>0, Zenon DEF Apart, masterVars
<1>2. \A t, p : (Stands(p)' <=> Stands(p)) /\ (Fallen(t, p)' <=> Fallen(t, p))
  BY <1>1, Zenon DEF Stands, Fallen
<1>3. ASSUME NEW t \in Slots, t # s, room[t].used, NEW p \in Nat
      PROVE  Tale(t, p)'
  BY <1>0, <1>1, <1>2, <1>3, TaleApart, Zenon DEF TaleInv, Apart
<1>4. ASSUME room[s].used, NEW p \in Nat
      PROVE  Tale(s, p)'
  <2>0. Tale(s, p)
    BY <1>4, Zenon DEF TaleInv
  <2>f. ASSUME Slides(s, p, 0), At(toMaster'[s], "JOINED", p) = At(toMaster[s], "JOINED", p),
               Live(s)' => (p \in wk'[s].told <=> p \in wk[s].told) /\ (p \in Session(s)' <=> p \in Session(s))
        PROVE  Tale(s, p)'
    BY <1>0, <1>1, <1>2, <2>0, <2>f, TaleFrame
  <2>1. CASE Ends(s)
    <3>1. ~Live(s)'
      BY <2>1 DEF Ends, Live, Process
    <3>2. Slides(s, p, 0) /\ At(toMaster'[s], "JOINED", p) = At(toMaster[s], "JOINED", p)
      BY <2>1, SlideSame, Zenon DEF Ends
    <3> QED  BY <2>f, <3>1, <3>2
  <2>2. CASE Moves(s) \/ Reads(s) \/ \E r : Falls(s, r) \/ Clears(s, r)
    <3>1. Slides(s, p, 0) /\ At(toMaster'[s], "JOINED", p) = At(toMaster[s], "JOINED", p)
      BY <2>2, SlideSame, Zenon DEF Moves, Reads, Falls, Clears
    <3>2. wk'[s].told = wk[s].told /\ Session(s)' = Session(s)
      BY <2>2, Zenon DEF Moves, Reads, Falls, Clears, Seated, Standings
    <3> QED  BY <2>f, <3>1, <3>2, Zenon
  <2>3. CASE Boots(s)
    <3>1. Slides(s, p, 0) /\ At(toMaster'[s], "JOINED", p) = At(toMaster[s], "JOINED", p)
      <4>1. Says(s, Msg("READY", 0)) /\ Msg("READY", 0).type = "READY"
        BY <2>3, Zenon DEF Boots, Msg
      <4> QED  BY <4>1, SlideSay, Zenon
    <3>2. wk'[s].told = wk[s].told /\ Session(s)' = Session(s)
      BY <2>3, Zenon DEF Boots, Seated, Standings
    <3> QED  BY <2>f, <3>1, <3>2, Zenon
  <2>4. ASSUME NEW r, Joins(s, r) \/ Tells(s, r)
        PROVE  Tale(s, p)'
    <3>1. CASE r = p
      BY <1>0, <1>1, <1>4, <2>0, <2>4, <3>1, TaleTold
    <3>2. CASE r # p
      <4>1. /\ p \in wk'[s].told <=> p \in wk[s].told
            /\ p \in Session(s)' <=> p \in Session(s)
        BY <2>4, <3>2, Zenon DEF Joins, Tells, Seated, Standings
      <4>2. PICK m : Says(s, m) /\ m.id = r
        BY <2>4 DEF Joins, Tells, Msg
      <4>3. Slides(s, p, 0) /\ At(toMaster'[s], "JOINED", p) = At(toMaster[s], "JOINED", p)
        BY <3>2, <4>2, SlideSay, Zenon
      <4> QED  BY <2>f, <4>1, <4>3, Zenon
    <3> QED  BY <3>1, <3>2, Zenon
  <2>5. ASSUME NEW g, NEW v, Routes(s, g, v)
        PROVE  Tale(s, p)'
    <3>1. wk'[s].told = wk[s].told /\ Session(s)' = Session(s)
      BY <2>5, Zenon DEF Routes, Seated
    <3>2. Slides(s, p, 0) /\ At(toMaster'[s], "JOINED", p) = At(toMaster[s], "JOINED", p)
      <4>1. PICK m, n : /\ m.type = "ATTACK" /\ n.type = "FEED"
                        /\ \/ UNCHANGED toMaster
                           \/ Says(s, n)
                           \/ toMaster'[s] = IF room[s].used THEN Append(Append(toMaster[s], m), n) ELSE toMaster[s]
        <5> DEFINE a == [attacker |-> g.who, victim |-> v, lines |-> g.lines]
        <5>1. AttackMsg("ATTACK", a).type = "ATTACK" /\ AttackMsg("FEED", a).type = "FEED"
          BY Zenon DEF AttackMsg
        <5>2. \/ UNCHANGED toMaster
              \/ Says(s, AttackMsg("FEED", a))
              \/ toMaster'[s] = IF room[s].used THEN Append(Append(toMaster[s], AttackMsg("ATTACK", a)), AttackMsg("FEED", a))
                                                ELSE toMaster[s]
          BY <2>5, Zenon DEF Routes
        <5> HIDE DEF a
        <5> QED  BY <5>1, <5>2, Zenon
      <4>2. CASE UNCHANGED toMaster
        BY <4>2, SlideSame, Zenon
      <4>3. CASE Says(s, n)
        BY <4>1, <4>3, SlideSay, Zenon
      <4>4. CASE toMaster'[s] = IF room[s].used THEN Append(Append(toMaster[s], m), n) ELSE toMaster[s]
        BY <1>4, <4>1, <4>4, SlideTwo, Zenon
      <4> QED  BY <4>1, <4>2, <4>3, <4>4, Zenon
    <3> QED  BY <2>f, <3>1, <3>2, Zenon
  <2> QED  BY <1>0, <2>1, <2>2, <2>3, <2>4, <2>5
<1> QED  BY <1>1, <1>3, <1>4, Zenon DEF TaleInv

(* What Bury does to the table.                                            *)
LEMMA BuryTable ==
    ASSUME TypeOK, NEW dead, players' = Bury(players, dead)
    PROVE  /\ \A p : Stands(p)' => Stands(p) /\ \E i \in DOMAIN players : players[i].id = p /\ i \notin dead
           /\ \A t, p : Fallen(t, p)' =>
                Fallen(t, p) \/ \E i \in DOMAIN players : i \in dead /\ players[i].room = t /\ players[i].id = p
<1>1. /\ players \in Seq(PlayerRec) /\ DOMAIN players' = DOMAIN players
      /\ \A i \in DOMAIN players : players'[i] = IF i \in dead THEN [players[i] EXCEPT !.alive = FALSE] ELSE players[i]
  BY Zenon DEF TypeOK, MasterTypeOK, Bury
<1>2. \A i \in DOMAIN players : players[i] \in PlayerRec
  BY <1>1
<1>3. \A i \in DOMAIN players : /\ players'[i].room = players[i].room /\ players'[i].id = players[i].id
                                /\ i \in dead => ~players'[i].alive
                                /\ i \notin dead => players'[i].alive = players[i].alive
  BY <1>1, <1>2, Zenon DEF PlayerRec
<1> QED  BY <1>1, <1>3 DEF Stands, Fallen

(* What a new record does to the table.                                    *)
LEMMA EnrolTable ==
    ASSUME TypeOK, NEW s, NEW h, \/ players' = players
                                 \/ players' = Append(players, [id |-> h, room |-> s, alive |-> TRUE])
    PROVE  /\ \A p : Stands(p)' => Stands(p) \/ p = h
           /\ \A t, p : Fallen(t, p)' => Fallen(t, p)
<1>1. CASE players' = players
  BY <1>1, Zenon DEF Stands, Fallen
<1>2. CASE players' = Append(players, [id |-> h, room |-> s, alive |-> TRUE])
  <2>1. PICK r : r = [id |-> h, room |-> s, alive |-> TRUE] /\ players' = Append(players, r)
    BY <1>2, Zenon
  <2>2. r.id = h /\ r.alive
    BY <2>1, Zenon
  <2>3. /\ DOMAIN players' = DOMAIN players \cup {Len(players) + 1} /\ players'[Len(players) + 1] = r
        /\ \A i \in DOMAIN players : players'[i] = players[i]
    BY <2>1 DEF TypeOK, MasterTypeOK
  <2> QED  BY <2>2, <2>3, Zenon DEF Stands, Fallen
<1> QED  BY <1>1, <1>2, Zenon

(* What the master does keeps the tales of all rooms.                      *)
LEMMA TaleMaster ==
    ASSUME StaleClients = FALSE, TypeOK, IdInv, FloorInv, TaleInv,
           \/ AcceptClient \/ SpawnRoom \/ PressEnter \/ Interrupt \/ StopRoom
           \/ \E s \in Slots : MasterStep(s)
           \/ UNCHANGED vars
    PROVE  TaleInv'
<1>h. ASSUME NEW s \in Slots, NEW type, Heard(s, type)
      PROVE  /\ room[s].used /\ \A t \in Slots : t # s => toMaster'[t] = toMaster[t]
             /\ 1 \in At(toMaster[s], type, Head(toMaster[s]).id) /\ Head(toMaster[s]).id \in Nat
  <2>1. toMaster[s] \in Seq(HubMsg(WorkerTypes)) /\ toMaster[s] # <<>> /\ DOMAIN toMaster = Slots
    BY <1>h, Zenon DEF TypeOK, HubTypeOK, Heard
  <2>2. 1 \in DOMAIN toMaster[s] /\ Head(toMaster[s]) = toMaster[s][1] /\ Head(toMaster[s]) \in HubMsg(WorkerTypes)
    BY <2>1
  <2> QED  BY <1>h, <2>1, <2>2 DEF Heard, At, HubMsg
(* The player is in the session of no other room than the one it is of.    *)
<1>o. ASSUME NEW s \in Slots, room[s].used, NEW t \in Slots, t # s, room[t].used, Live(t), NEW p \in Block(s)
      PROVE  p \notin Session(t) /\ p \notin wk[t].told
  <2>1. Block(s) \cap Block(t) = {}
    BY <1>o, Zenon DEF IdInv, BlocksApart, Used
  <2>2. p \notin Session(t)
    BY <1>o, <2>1, SessionInBlock
  <2> QED  BY <2>2, Zenon DEF FloorInv
(* A room that the step leaves alone.                                      *)
<1>a. ASSUME UNCHANGED wk, NEW t \in Slots, room[t].used, NEW p \in Nat, toMaster'[t] = toMaster[t],
             room'[t].base = room[t].base,
             Live(t) /\ p \in wk[t].told /\ Stands(p)' => Stands(p),
             Live(t) /\ p \in Session(t) /\ Fallen(t, p)' => Fallen(t, p)
      PROVE  Tale(t, p)'
  BY <1>a, TaleApart, Zenon DEF TaleInv
(* A room whose message is taken.                                          *)
<1>k. ASSUME UNCHANGED wk, NEW s \in Slots, NEW type, Heard(s, type), room'[s].base = room[s].base, NEW p \in Nat,
             type = "ELIMINATED" => Head(toMaster[s]).id # p,
             Live(s) /\ p \in wk[s].told /\ Stands(p)' => At(toMaster[s], "JOINED", p) # {} \/ Stands(p),
             Fallen(s, p)' => Fallen(s, p)
      PROVE  Tale(s, p)'
  <2>1. Slides(s, p, 1) /\ (At(toMaster'[s], "JOINED", p) # {} => At(toMaster[s], "JOINED", p) # {})
    BY <1>k, SlideTake, Zenon
  <2>2. Live(s)' = Live(s) /\ Session(s)' = Session(s) /\ wk'[s].told = wk[s].told
    BY <1>k, Zenon DEF Live, Session
  <2>3. Tale(s, p)
    BY <1>h, <1>k, Zenon DEF TaleInv
  <2> QED  BY <1>k, <2>1, <2>2, <2>3, TaleFrame, Zenon
<1>1. ASSUME NEW s \in Slots, Spawns(s)
      PROVE  TaleInv'
  <2>1. ASSUME NEW t \in Slots, t # s, room[t].used, NEW p \in Nat
        PROVE  Tale(t, p)'
    <3>1. (Stands(p)' <=> Stands(p)) /\ (Fallen(t, p)' <=> Fallen(t, p))
      BY <1>1, Zenon DEF Spawns, Stands, Fallen
    <3> QED  BY <1>1, <2>1, <3>1, TaleApart, Zenon DEF Spawns, TaleInv
  <2>2. ASSUME NEW p \in Nat
        PROVE  Tale(s, p)'
    <3>1. At(toMaster'[s], "JOINED", p) = {} /\ At(toMaster'[s], "ELIMINATED", p) = {}
      BY <1>1 DEF Spawns, At
    <3>2. p \notin wk'[s].told /\ Session(s)' = {}
      <4>1. wk'[s] = Process("boot", spawn_base)
        BY <1>1, Zenon DEF Spawns
      <4>2. wk'[s].told = {} /\ wk'[s].members = <<>> /\ wk'[s].reported = 0
        BY <4>1 DEF Process
      <4> QED  BY <4>2 DEF Session
    <3> QED  BY <3>1, <3>2, Zenon DEF Tale
  <2>3. \A t \in Slots : t # s => room'[t] = room[t]
    BY <1>1, Zenon DEF Spawns
  <2> QED  BY <2>1, <2>2, <2>3, Zenon DEF TaleInv
<1>2. ASSUME Tends \/ \E s \in Slots : HandleAttack(s) \/ HandleFeed(s), UNCHANGED wk
      PROVE  TaleInv'
  <2>1. UNCHANGED players /\ Rooms
    BY <1>2, Zenon DEF Tends, HandleAttack, HandleFeed, masterVars, Rooms
  <2>2. \A t, p : (Stands(p)' <=> Stands(p)) /\ (Fallen(t, p)' <=> Fallen(t, p))
    BY <2>1, Zenon DEF Stands, Fallen
  <2>3. CASE UNCHANGED toMaster
    BY <1>2, <1>a, <2>1, <2>2, <2>3, Zenon DEF TaleInv, Rooms
  <2>4. ASSUME NEW s \in Slots, NEW type \in {"READY", "ATTACK", "FEED"}, Heard(s, type)
        PROVE  TaleInv'
    <3>1. ASSUME NEW p \in Nat PROVE Tale(s, p)'
      BY <1>2, <1>k, <2>1, <2>2, <2>4, Zenon DEF Rooms
    <3>2. ASSUME NEW t \in Slots, t # s, room[t].used, NEW p \in Nat PROVE Tale(t, p)'
      BY <1>2, <1>a, <1>h, <2>1, <2>2, <2>4, <3>2, Zenon DEF Rooms
    <3> QED  BY <2>1, <3>1, <3>2, Zenon DEF TaleInv, Rooms
  <2> QED  BY <1>2, <2>3, <2>4, Zenon DEF Tends, HandleAttack, HandleFeed
<1>3. ASSUME NEW s \in Slots, Enrols(s), UNCHANGED wk
      PROVE  TaleInv'
  <2>0. PICK h : h = Head(toMaster[s]).id
    BY Zenon
  <2>1. Heard(s, "JOINED") /\ Rooms
    BY <1>3, Zenon DEF Enrols
  <2>2. /\ \A p : Stands(p)' => Stands(p) \/ p = h
        /\ \A t, p : Fallen(t, p)' => Fallen(t, p)
    BY <1>3, <2>0, EnrolTable, Zenon DEF Enrols
  <2>3. h \in Block(s) /\ room[s].used /\ 1 \in At(toMaster[s], "JOINED", h)
    BY <1>h, <2>0, <2>1, Zenon DEF IdInv, JoinsFresh, Used, At
  <2>4. ASSUME NEW p \in Nat PROVE Tale(s, p)'
    BY <1>3, <1>k, <2>1, <2>2, <2>3 DEF Rooms
  <2>5. ASSUME NEW t \in Slots, t # s, room[t].used, NEW p \in Nat PROVE Tale(t, p)'
    <3>1. toMaster'[t] = toMaster[t] /\ room'[t].base = room[t].base
      BY <1>h, <2>1, <2>5 DEF Rooms
    <3>2. Live(t) /\ p \in wk[t].told /\ Stands(p)' => Stands(p)
      BY <1>o, <2>2, <2>3, <2>5
    <3> QED  BY <1>3, <1>a, <2>2, <2>5, <3>1, <3>2, Zenon
  <2> QED  BY <2>1, <2>4, <2>5, Zenon DEF TaleInv, Rooms
<1>4. ASSUME NEW s \in Slots, Buries(s), UNCHANGED wk
      PROVE  TaleInv'
  <2>0. PICK h : h = Head(toMaster[s]).id
    BY Zenon
  <2>1. Heard(s, "ELIMINATED") /\ Rooms
    BY <1>4, Zenon DEF Buries
  <2>2. /\ room[s].used /\ 1 \in At(toMaster[s], "ELIMINATED", h) /\ h \in Nat
        /\ \A t \in Slots : t # s => toMaster'[t] = toMaster[t]
    BY <1>h, <2>0, <2>1, Zenon
  <2>3. Tale(s, h) /\ h \in Block(s)
    BY <2>2, Zenon DEF TaleInv, Tale
  <2>4. /\ \A p : Stands(p)' => Stands(p) /\ p # h
        /\ \A t, p : Fallen(t, p)' => Fallen(t, p) \/ p = h
    <3>1. PICK dead : dead = {i \in DOMAIN players : players[i].id = h} /\ players' = Bury(players, dead)
      BY <1>4, <2>0, Zenon DEF Buries
    <3>2. /\ \A p : Stands(p)' => Stands(p) /\ \E i \in DOMAIN players : players[i].id = p /\ i \notin dead
          /\ \A t, p : Fallen(t, p)' =>
               Fallen(t, p) \/ \E i \in DOMAIN players : i \in dead /\ players[i].room = t /\ players[i].id = p
      BY <3>1, BuryTable
    <3> QED  BY <3>1, <3>2
  <2>5. ASSUME NEW p \in Nat, p # h PROVE Tale(s, p)'
    BY <1>4, <1>k, <2>0, <2>1, <2>4, <2>5, Zenon DEF Rooms
  <2>6. ASSUME NEW t \in Slots, t # s, room[t].used, NEW p \in Nat PROVE Tale(t, p)'
    <3>1. Live(t) /\ p \in Session(t) /\ Fallen(t, p)' => Fallen(t, p)
      BY <1>o, <2>2, <2>3, <2>4, <2>6, Zenon
    <3> QED  BY <1>4, <1>a, <2>1, <2>2, <2>4, <2>6, <3>1, Zenon DEF Rooms
  <2>7. Tale(s, h)'
    <3>1. PICK q : q = toMaster[s] /\ q \in Seq(HubMsg(WorkerTypes)) /\ q # <<>> /\ toMaster'[s] = Tail(q)
      BY <2>1, Zenon DEF TypeOK, HubTypeOK, Heard
    <3>2. /\ \A k \in At(Tail(q), "JOINED", h) : k \in Nat /\ k + 1 \in At(q, "JOINED", h)
          /\ \A k \in At(Tail(q), "ELIMINATED", h) : k \in Nat /\ k + 1 \in At(q, "ELIMINATED", h)
      BY <3>1, TailAt, Zenon
    <3>3. /\ \A k \in At(q, "JOINED", h) : k < 1
          /\ \A k \in At(q, "ELIMINATED", h) : k = 1
      BY <2>2, <2>3, <3>1, Zenon DEF Tale
    <3>4. \A k \in Nat : ~(k + 1 < 1) /\ (k + 1 = 1 => k = 0)
      OBVIOUS
    <3>5. 0 \notin At(Tail(q), "ELIMINATED", h)
      BY <3>1 DEF At
    <3>6. At(toMaster'[s], "JOINED", h) = {} /\ At(toMaster'[s], "ELIMINATED", h) = {}
      BY <3>1, <3>2, <3>3, <3>4, <3>5, Zenon
    <3>7. Live(s)' => h \in wk'[s].told
      BY <1>4, <2>2, <2>3, Zenon DEF Tale, Live
    <3>8. ~Stands(h)'
      BY <2>4, Zenon
    <3> QED  BY <3>6, <3>7, <3>8, Zenon DEF Tale
  <2> QED  BY <2>1, <2>5, <2>6, <2>7, Zenon DEF TaleInv, Rooms
<1>5. ASSUME NEW s \in Slots, Closes(s), UNCHANGED wk
      PROVE  TaleInv'
  <2>1. /\ \A p : Stands(p)' => Stands(p)
        /\ \A t, p : Fallen(t, p)' => Fallen(t, p) \/ t = s
    <3>1. CASE players' = players
      BY <3>1, Zenon DEF Stands, Fallen
    <3>2. CASE players' = Bury(players, Occupants(s))
      BY <3>2, BuryTable DEF Occupants
    <3> QED  BY <1>5, <3>1, <3>2, Zenon DEF Closes
  <2>2. \A t \in Slots : t # s => toMaster'[t] = toMaster[t]
    BY <1>5, Zenon DEF Closes, TypeOK, HubTypeOK
  <2>3. ASSUME NEW t \in Slots, t # s, room[t].used, NEW p \in Nat PROVE Tale(t, p)'
    BY <1>5, <1>a, <2>1, <2>2, <2>3, Zenon DEF Closes
  <2> QED  BY <1>5, <2>3, Zenon DEF Closes, TaleInv
<1> QED  BY <1>1, <1>2, <1>3, <1>4, <1>5, MasterMoves, SpawnMoves, Zenon

(* Tales are kept from the first state on, in every daemon whose clients   *)
(* do not outlive their room.                                              *)
THEOREM TalesInductive == ASSUME StaleClients = FALSE PROVE Spec => [](FloorInv /\ TaleInv)
<1>1. Init => FloorInv /\ TaleInv
  <2> SUFFICES ASSUME Init PROVE FloorInv /\ TaleInv
    BY Zenon
  <2>1. \A s \in Slots : wk[s] = Process("none", 0) /\ room[s].used = FALSE
    BY Zenon DEF Init, FreshRoom
  <2> QED  BY <2>1 DEF FloorInv, TaleInv, Process
<1>2. TypeOK /\ IdInv /\ FloorInv /\ TaleInv /\ [Next]_vars => FloorInv' /\ TaleInv'
  <2> SUFFICES ASSUME TypeOK, IdInv, FloorInv, TaleInv, [Next]_vars PROVE FloorInv' /\ TaleInv'
    BY Zenon
  <2>1. FloorInv'
    BY FloorStep, Zenon
  <2>2. CASE \E s \in Slots : WorkerStep(s) \/ WorkerEvent(s)
    BY <2>1, <2>2, TaleWorker
  <2>3. CASE \/ AcceptClient \/ SpawnRoom \/ PressEnter \/ Interrupt \/ StopRoom
             \/ \E s \in Slots : MasterStep(s)
             \/ UNCHANGED vars
    BY <2>1, <2>3, TaleMaster, Zenon
  <2> QED  BY <2>2, <2>3, Zenon DEF Next
<1> QED  BY <1>1, <1>2, Typing, IdsInductive, PTL DEF Spec

(* Eliminations are neither lost, nor invented, nor sent twice: a recorded *)
(* player of a live room is dead in the table exactly when its room has    *)
(* reported it and the report has been read (room.c:295-305, main.c:370).  *)
THEOREM EliminationsConserved == ASSUME StaleClients = FALSE PROVE Spec => []EliminationConserved
<1>1. TypeOK /\ FloorInv /\ TaleInv => EliminationConserved
  <2> SUFFICES ASSUME TypeOK, TaleInv, NEW i \in DOMAIN players, NEW s, NEW p, NEW E,
                      s = players[i].room, p = players[i].id,
                      E = {k \in DOMAIN toMaster[s] : toMaster[s][k].type = "ELIMINATED" /\ toMaster[s][k].id = p},
                      room[s].used, Live(s), p \in Session(s)
               PROVE  /\ p \in wk[s].told => IF players[i].alive THEN \E k \in E : E = {k} ELSE E = {}
                      /\ p \notin wk[s].told => players[i].alive /\ E = {}
    BY Zenon DEF EliminationConserved
  <2>1. players[i] \in PlayerRec
    BY DEF TypeOK, MasterTypeOK
  <2>2. s \in Slots /\ p \in Nat /\ players[i].alive \in BOOLEAN
    BY <2>1, Zenon DEF PlayerRec
  <2>3. Tale(s, p) /\ E = At(toMaster[s], "ELIMINATED", p)
    BY <2>2, Zenon DEF TaleInv, At
  <2>4. /\ \A k, l \in E : k = l
        /\ E # {} => p \in wk[s].told
        /\ p \in wk[s].told /\ Stands(p) => E # {}
        /\ Fallen(s, p) => p \in wk[s].told /\ E = {}
    BY <2>3, Zenon DEF Tale
  <2>5. (players[i].alive => Stands(p)) /\ (~players[i].alive => Fallen(s, p))
    BY Zenon DEF Stands, Fallen
  <2>6. CASE p \in wk[s].told /\ players[i].alive
    <3>1. PICK k : k \in E
      BY <2>4, <2>5, <2>6, Zenon
    <3>2. E = {k}
      BY <2>4, <3>1, Zenon
    <3> QED  BY <2>6, <3>1, <3>2, Zenon
  <2>7. CASE ~(p \in wk[s].told /\ players[i].alive)
    BY <2>4, <2>5, <2>7, Zenon
  <2> QED  BY <2>6, <2>7, Zenon
<1> QED  BY <1>1, TalesInductive, Typing, PTL

(* Who stands when the match is decided is its winner (main.c:279-294).    *)
LEMMA LastStands ==
    ASSUME NEW pl \in Seq(PlayerRec), Decided(pl), NEW i \in DOMAIN pl, pl[i].alive
    PROVE  pl[i].id = WinnerOf(pl)
<1>1. PICK A : A = {k \in DOMAIN pl : pl[k].alive}
  BY Zenon
<1>4. \A x, y \in A : x = y
  BY <1>1, Zenon DEF Decided
<1>5. PICK k : k = CHOOSE j \in DOMAIN pl : pl[j].alive
  BY Zenon
<1>6. k \in A /\ i \in A
  BY <1>1, <1>5
<1> QED  BY <1>4, <1>5, <1>6 DEF WinnerOf

(* The match is decided by check_global_end on the table the step leaves.  *)
LEMMA DecisionStep ==
    ASSUME TypeOK, [Next]_vars, ~matchEnded, matchEnded'
    PROVE  /\ Decided(players') /\ winner' = WinnerOf(players') /\ UNCHANGED wk
           /\ DOMAIN players' = DOMAIN players
           /\ \A i \in DOMAIN players : players'[i].id = players[i].id /\ players'[i].room = players[i].room
<1> USE DEF workerVars, masterVars, hubVars
<1>1. \E s \in Slots : HandleEliminated(s) \/ (close_room(s) /\ UNCHANGED wk)
  <2>1. CASE \E s \in Slots : WorkerStep(s) \/ WorkerEvent(s)
    BY <2>1, Zenon DEF WorkerStep, WorkerEvent
  <2>2. CASE AcceptClient \/ SpawnRoom \/ PressEnter \/ Interrupt \/ UNCHANGED vars
    BY <2>2, Zenon DEF AcceptClient, SpawnRoom, PressEnter, Interrupt, vars
  <2>3. CASE StopRoom
    BY <2>3, Zenon DEF StopRoom, First, Used
  <2>4. CASE \E s \in Slots : MasterStep(s)
    BY <2>4, Zenon DEF MasterStep, HandleReady, HandleJoined, HandleAttack, HandleFeed, WorkerGone
  <2> QED  BY <2>1, <2>2, <2>3, <2>4, Zenon DEF Next
<1>2. PICK q, rm, dead : /\ players' = Bury(players, dead) /\ UNCHANGED wk
                         /\ check_global_end(q, rm, players')
  <2>1. ASSUME NEW s \in Slots, HandleEliminated(s)
        PROVE  \E q, rm, dead : /\ players' = Bury(players, dead) /\ UNCHANGED wk
                                /\ check_global_end(q, rm, players')
    <3>1. PICK dead, pl : /\ dead = {i \in DOMAIN players : players[i].id = Head(toMaster[s]).id}
                          /\ pl = Bury(players, dead) /\ players' = pl
                          /\ check_global_end(broadcast_roster(toWorker, room, pl), room, pl)
      BY <2>1, Zenon DEF HandleEliminated
    <3>2. UNCHANGED wk
      BY <2>1, Zenon DEF HandleEliminated
    <3> QED  BY <3>1, <3>2, Zenon
  <2>2. ASSUME NEW s \in Slots, close_room(s), UNCHANGED wk
        PROVE  \E q, rm, dead : /\ players' = Bury(players, dead) /\ UNCHANGED wk
                                /\ check_global_end(q, rm, players')
    <3>1. PICK pl, rm : /\ pl = IF matchEnded THEN players ELSE Bury(players, Occupants(s))
                        /\ players' = pl
                        /\ IF pl # players
                           THEN check_global_end(broadcast_roster(toWorker, rm, pl), rm, pl)
                           ELSE UNCHANGED <<toWorker, matchEnded, winner>>
      BY <2>2, Zenon DEF close_room
    <3>2. check_global_end(broadcast_roster(toWorker, rm, pl), rm, pl)
      BY <3>1, Zenon
    <3> QED  BY <2>2, <3>1, <3>2
  <2> QED  BY <1>1, <2>1, <2>2
<1>3. EndsMatch(players') /\ winner' = WinnerOf(players')
  BY <1>2, Zenon DEF check_global_end
<1>4. \A i \in DOMAIN players : players[i] \in PlayerRec
  BY DEF TypeOK, MasterTypeOK
<1>5. /\ DOMAIN players' = DOMAIN players
      /\ \A i \in DOMAIN players : players'[i].id = players[i].id /\ players'[i].room = players[i].room
  BY <1>2, <1>4, Zenon DEF Bury, PlayerRec
<1> QED  BY <1>2, <1>3, <1>5, Zenon DEF EndsMatch

(* When the match is decided, every recorded player but the winner is out  *)
(* in the room that plays it, or that room is gone (main.c:273-307).       *)
THEOREM LosersFall == ASSUME StaleClients = FALSE PROVE Spec => LosersAreOut
<1>1. TypeOK /\ TypeOK' /\ FloorInv' /\ TaleInv' /\ [Next]_vars =>
        [~matchEnded /\ matchEnded' =>
           \A i \in DOMAIN players :
             LET r == players[i] IN
             r.id # winner' /\ room'[r.room].used /\ Live(r.room) /\ r.id \in Session(r.room) =>
               r.id \in wk[r.room].out]_vars
  <2> SUFFICES ASSUME TypeOK, TypeOK', FloorInv', TaleInv', [Next]_vars, ~matchEnded, matchEnded',
                      NEW i \in DOMAIN players, NEW s, NEW p, s = players[i].room, p = players[i].id,
                      p # winner', room'[s].used, Live(s), p \in Session(s)
               PROVE  p \in wk[s].out
    BY Zenon
  <2>1. /\ Decided(players') /\ winner' = WinnerOf(players') /\ UNCHANGED wk
        /\ i \in DOMAIN players' /\ players'[i].id = p /\ players'[i].room = s
    BY DecisionStep, Zenon
  <2>2. players' \in Seq(PlayerRec) /\ s \in Slots /\ p \in Nat
    <3>1. players' \in Seq(PlayerRec)
      BY Zenon DEF TypeOK, MasterTypeOK
    <3>2. players'[i] \in PlayerRec
      BY <2>1, <3>1
    <3> QED  BY <2>1, <3>1, <3>2 DEF PlayerRec
  <2>3. ~players'[i].alive
    BY <2>1, <2>2, LastStands
  <2>4. Fallen(s, p)' /\ Live(s)' /\ p \in Session(s)'
    BY <2>1, <2>3, Zenon DEF Fallen, Live, Session
  <2>5. p \in wk'[s].told
    BY <2>2, <2>4, Zenon DEF TaleInv, Tale
  <2>6. p \in wk'[s].out
    BY <2>2, <2>5, Zenon DEF FloorInv
  <2> QED  BY <2>1, <2>6, Zenon
<1> QED  BY <1>1, TalesInductive, Typing, PTL DEF Spec, LosersAreOut

-----------------------------------------------------------------------------
(* Until the match is decided, a standing player's room is up.             *)
Housed == ~matchEnded => \A i \in DOMAIN players : players[i].alive =>
              room[players[i].room].used /\ players[i].id \in Block(players[i].room)

(* A room that goes down buries its players (main.c:312-338).              *)
LEMMA HousedStep ==
    ASSUME StaleClients = FALSE, TypeOK, IdInv, Housed, [Next]_vars
    PROVE  Housed'
<1>0. /\ players \in Seq(PlayerRec) /\ \A i \in DOMAIN players : players[i] \in PlayerRec /\ players[i].room \in Slots
  <2>1. players \in Seq(PlayerRec) /\ \A i \in DOMAIN players : players[i] \in PlayerRec
    BY DEF TypeOK, MasterTypeOK
  <2> QED  BY <2>1, Zenon DEF PlayerRec
<1>b. ASSUME NEW t \in Slots, room'[t].base = room[t].base
      PROVE  Block(t)' = Block(t)
  BY <1>b, Zenon DEF Block
<1>1. ASSUME UNCHANGED <<players, matchEnded>>, Rooms
      PROVE  Housed'
  BY <1>0, <1>1, <1>b, Zenon DEF Housed, Rooms
<1>2. ASSUME NEW s \in Slots, Enrols(s)
      PROVE  Housed'
  <2>1. PICK h : h = Head(toMaster[s]).id
    BY Zenon
  <2>2. h \in Block(s) /\ room[s].used
    <3>1. toMaster[s] \in Seq(HubMsg(WorkerTypes)) /\ toMaster[s] # <<>>
      BY <1>2, Zenon DEF Enrols, Heard, TypeOK, HubTypeOK
    <3>2. 1 \in DOMAIN toMaster[s] /\ Head(toMaster[s]) = toMaster[s][1]
      BY <3>1
    <3> QED  BY <1>2, <2>1, <3>2 DEF Enrols, Heard, IdInv, JoinsFresh, Used
  <2>3. CASE players' = players
    BY <1>1, <1>2, <2>3, Zenon DEF Enrols
  <2>4. CASE players' = Append(players, [id |-> Head(toMaster[s]).id, room |-> s, alive |-> TRUE])
    <3>1. PICK r : r = [id |-> h, room |-> s, alive |-> TRUE] /\ players' = Append(players, r)
      BY <2>1, <2>4, Zenon
    <3>2. r.id = h /\ r.room = s
      BY <3>1, Zenon
    <3>3. /\ DOMAIN players' = DOMAIN players \cup {Len(players) + 1} /\ players'[Len(players) + 1] = r
          /\ \A i \in DOMAIN players : players'[i] = players[i]
      BY <1>0, <3>1
    <3>4. UNCHANGED matchEnded /\ Rooms
      BY <1>2, Zenon DEF Enrols
    <3> QED  BY <1>0, <1>b, <2>2, <3>2, <3>3, <3>4 DEF Housed, Rooms
  <2> QED  BY <1>2, <2>3, <2>4, Zenon DEF Enrols
<1>u. ASSUME NEW dead, players' = Bury(players, dead)
      PROVE  /\ DOMAIN players' = DOMAIN players
             /\ \A i \in DOMAIN players : /\ players'[i].id = players[i].id /\ players'[i].room = players[i].room
                                          /\ players'[i].alive => players[i].alive /\ i \notin dead
  BY <1>0, <1>u, Zenon DEF Bury, PlayerRec
<1>3. ASSUME NEW s \in Slots, Buries(s)
      PROVE  Housed'
  <2>1. PICK dead : players' = Bury(players, dead)
    BY <1>3, Zenon DEF Buries
  <2>2. Rooms /\ (matchEnded => matchEnded')
    BY <1>3, Zenon DEF Buries
  <2>3. /\ DOMAIN players' = DOMAIN players
        /\ \A i \in DOMAIN players : /\ players'[i].id = players[i].id /\ players'[i].room = players[i].room
                                     /\ players'[i].alive => players[i].alive
    BY <1>u, <2>1, Zenon
  <2>4. ASSUME ~matchEnded', NEW i \in DOMAIN players', players'[i].alive
        PROVE  (room[players[i].room].used /\ players[i].id \in Block(players[i].room))'
    <3>1. PICK t \in Slots : t = players[i].room /\ t = players'[i].room
      BY <1>0, <2>3, <2>4, Zenon
    <3>2. room[t].used /\ players[i].id \in Block(t)
      BY <2>2, <2>3, <2>4, <3>1, Zenon DEF Housed
    <3>3. room'[t].used /\ Block(t)' = Block(t)
      BY <1>b, <2>2, <3>2, Zenon DEF Rooms
    <3>4. players'[i].id \in Block(t)'
      BY <2>3, <2>4, <3>2, <3>3, Zenon
    <3>5. Block(players[i].room)' = Block(t)'
      BY <3>1, Zenon DEF Block
    <3> QED  BY <3>1, <3>3, <3>4, <3>5, Zenon
  <2> QED  BY <2>4, Zenon DEF Housed
<1>4. ASSUME NEW s \in Slots, Closes(s)
      PROVE  Housed'
  <2>0. CASE matchEnded'
    BY <2>0, Zenon DEF Housed
  <2>1. CASE ~matchEnded'
    <3>1. ~matchEnded /\ players' = Bury(players, Occupants(s))
      BY <1>4, <2>1, Zenon DEF Closes
    <3>2. /\ DOMAIN players' = DOMAIN players
          /\ \A i \in DOMAIN players : /\ players'[i].id = players[i].id /\ players'[i].room = players[i].room
                                       /\ players'[i].alive => players[i].alive /\ i \notin Occupants(s)
      BY <1>u, <3>1, Zenon
    <3>3. \A t \in Slots : Block(t)' = Block(t) /\ (t # s => room'[t].used = room[t].used)
      BY <1>4, <1>b, Zenon DEF Closes
    <3>4. \A i \in DOMAIN players : i \notin Occupants(s) => players[i].room # s
      BY Zenon DEF Occupants
    <3> QED  BY <1>0, <3>1, <3>2, <3>3, <3>4 DEF Housed
  <2> QED  BY <2>0, <2>1, Zenon
<1>5. ASSUME NEW s \in Slots, Spawns(s)
      PROVE  Housed'
  <2>1. /\ ~room[s].used /\ UNCHANGED <<players, matchEnded>>
        /\ \A t \in Slots : t # s => room'[t] = room[t] /\ Block(t)' = Block(t)
    BY <1>5, <1>b, Zenon DEF Spawns
  <2> QED  BY <1>0, <2>1, Zenon DEF Housed
<1>6. ASSUME NEW s \in Slots, HandleAttack(s) \/ HandleFeed(s) \/ WorkerMove(s)
      PROVE  Housed'
  BY <1>1, <1>6, Zenon DEF HandleAttack, HandleFeed, WorkerMove, Apart, masterVars, Rooms
<1>7. CASE Tends
  BY <1>1, <1>7, Zenon DEF Tends
<1> QED  BY <1>2, <1>3, <1>4, <1>5, <1>6, <1>7, AnyMove, Zenon DEF MasterMove

(* Garbage as the master relays it (main.c:380-396).                       *)
Relay(s, t, m) ==
    /\ HandleAttack(s) /\ t \in Target(Head(toMaster[s])) /\ Live(t)
    /\ m = [Head(toMaster[s]) EXCEPT !.type = "GARBAGE"]

(* What lies in a worker's queue after a step was there, or is a notice, a *)
(* feed, or relayed garbage.                                               *)
LEMMA DownMoves ==
    ASSUME StaleClients = FALSE, TypeOK, [Next]_vars, NEW t \in Slots, NEW k \in DOMAIN toWorker'[t]
    PROVE  \/ \E j \in DOMAIN toWorker[t] : toWorker'[t][k] = toWorker[t][j]
           \/ Notice(toWorker'[t][k], Ids(players))
           \/ Notice(toWorker'[t][k], Ids(players'))
           \/ toWorker'[t][k].type = "FEED"
           \/ \E s \in Slots : Relay(s, t, toWorker'[t][k])
<1>0. /\ toWorker \in [Slots -> Seq(HubMsg(MasterTypes))] /\ toMaster \in [Slots -> Seq(HubMsg(WorkerTypes))]
  BY Zenon DEF TypeOK, HubTypeOK
<1> DEFINE Old == \E j \in DOMAIN toWorker[t] : toWorker'[t][k] = toWorker[t][j]
<1>s. ASSUME toWorker'[t] = toWorker[t]
      PROVE  Old
  BY <1>s, Zenon
<1>n. ASSUME NEW K, Longer(toWorker, toWorker', K)
      PROVE  Old \/ Notice(toWorker'[t][k], K)
  BY <1>n, Zenon DEF Longer
<1>e. ASSUME toWorker'[t] = <<>>
      PROVE  FALSE
  BY <1>e
<1>1. ASSUME NEW s \in Slots, Spawns(s)
      PROVE  Old
  BY <1>1, <1>e, <1>s, Zenon DEF Spawns
<1>2. ASSUME NEW s \in Slots, WorkerMove(s)
      PROVE  Old
  <2>1. CASE t # s
    BY <1>2, <1>s, <2>1, Zenon DEF WorkerMove, Apart
  <2>2. CASE t = s /\ toWorker[s] # <<>> /\ toWorker'[s] = Tail(toWorker[s])
    <3>1. PICK q : q = toWorker[t] /\ q \in Seq(HubMsg(MasterTypes)) /\ q # <<>> /\ toWorker'[t] = Tail(q)
      BY <1>0, <2>2, Zenon
    <3>2. \A j \in DOMAIN Tail(q) : j + 1 \in DOMAIN q /\ Tail(q)[j] = q[j + 1]
      BY <3>1
    <3> QED  BY <3>1, <3>2, Zenon
  <2>3. CASE t = s /\ toWorker'[s] = <<>>
    BY <1>e, <2>3, Zenon
  <2>4. CASE UNCHANGED toWorker
    BY <1>s, <2>4, Zenon
  <2> QED  BY <1>2, <2>1, <2>2, <2>3, <2>4, Zenon
           DEF WorkerMove, Ends, Moves, Boots, Reads, Joins, Falls, Clears, Tells, Routes
<1>3. ASSUME NEW s \in Slots, NEW S, NEW m, toWorker' = Send(toWorker, S, m)
      PROVE  Old \/ (toWorker'[t][k] = m /\ t \in S /\ Live(t))
  <2>1. CASE toWorker'[t] = toWorker[t]
    BY <1>s, <2>1, Zenon
  <2>2. CASE t \in S /\ Live(t) /\ toWorker'[t] = Append(toWorker[t], m)
    <3>1. PICK q : q = toWorker[t] /\ q \in Seq(HubMsg(MasterTypes)) /\ toWorker'[t] = Append(q, m)
      BY <1>0, <2>2, Zenon
    <3>2. \A j \in DOMAIN Append(q, m) : Append(q, m)[j] = m \/ (j \in DOMAIN q /\ Append(q, m)[j] = q[j])
      BY <3>1
    <3> QED  BY <2>2, <3>1, <3>2, Zenon
  <2> QED  BY <1>3, <2>1, <2>2, Zenon DEF Send, hub_send
<1>4. ASSUME NEW s \in Slots, HandleFeed(s)
      PROVE  Old \/ toWorker'[t][k].type = "FEED"
  BY <1>3, <1>4, Zenon DEF HandleFeed, Heard
<1>5. ASSUME NEW s \in Slots, HandleAttack(s)
      PROVE  Old \/ Relay(s, t, toWorker'[t][k])
  BY <1>3, <1>5 DEF HandleAttack, Relay
<1>6. ASSUME NEW s \in Slots, Enrols(s)
      PROVE  Old \/ Notice(toWorker'[t][k], Ids(players'))
  BY <1>6, <1>n, Zenon DEF Enrols
<1>7. ASSUME Tends \/ \E s \in Slots : Buries(s) \/ Closes(s)
      PROVE  Old \/ Notice(toWorker'[t][k], Ids(players))
  BY <1>7, <1>n, Zenon DEF Tends, Buries, Closes
<1> HIDE DEF Old
<1> QED  BY <1>1, <1>2, <1>4, <1>5, <1>6, <1>7, AnyMove, Zenon DEF MasterMove, Old

(* The roster a room holds, and those on their way, name recorded players. *)
RostersKnown ==
    \A s \in Slots : /\ wk[s].global \subseteq Ids(players)
                     /\ \A k \in DOMAIN toWorker[s] : toWorker[s][k].type = "ROSTER" =>
                          toWorker[s][k].alive \subseteq Ids(players)

(* Rosters are sent from the table, which forgets nobody (main.c:228-242). *)
LEMMA RostersStep ==
    ASSUME StaleClients = FALSE, TypeOK, RostersKnown, [Next]_vars
    PROVE  RostersKnown'
<1>0. players \in Seq(PlayerRec)
  BY Zenon DEF TypeOK, MasterTypeOK
<1>1. Ids(players) \subseteq Ids(players')
  <2>1. CASE players' = players
    BY <2>1, Zenon
  <2>2. ASSUME NEW r, players' = Append(players, r)
        PROVE  Ids(players) \subseteq Ids(players')
    <3>1. \A i \in DOMAIN players : i \in DOMAIN players' /\ players'[i] = players[i]
      BY <1>0, <2>2
    <3> QED  BY <3>1, Zenon DEF Ids
  <2>3. ASSUME NEW dead, players' = Bury(players, dead)
        PROVE  Ids(players) \subseteq Ids(players')
    BY <1>0, <2>3, BuryIds DEF Ids
  <2> QED  BY <2>1, <2>2, <2>3, AnyMove, Zenon
           DEF MasterMove, Tends, Enrols, Buries, Closes, HandleAttack, HandleFeed, Spawns, WorkerMove, Apart, masterVars
<1>2. ASSUME NEW t \in Slots, NEW k \in DOMAIN toWorker'[t], toWorker'[t][k].type = "ROSTER"
      PROVE  toWorker'[t][k].alive \subseteq Ids(players')
  <2>1. ASSUME NEW s \in Slots, Relay(s, t, toWorker'[t][k])
        PROVE  FALSE
    <3>1. Head(toMaster[s]) \in HubMsg(WorkerTypes)
      BY <2>1 DEF Relay, HandleAttack, Heard, TypeOK, HubTypeOK
    <3>2. toWorker'[t][k].type = "GARBAGE"
      BY <2>1, <3>1, Zenon DEF Relay, HubMsg
    <3> QED  BY <1>2, <3>2, Zenon
  <2>2. ASSUME NEW j \in DOMAIN toWorker[t], toWorker'[t][k] = toWorker[t][j]
        PROVE  toWorker'[t][k].alive \subseteq Ids(players)
    BY <1>2, <2>2, Zenon DEF RostersKnown
  <2> QED  BY <1>1, <1>2, <2>1, <2>2, DownMoves, Zenon DEF Notice
<1>3. ASSUME NEW t \in Slots
      PROVE  wk'[t].global \subseteq Ids(players')
  <2>1. CASE wk'[t].global = wk[t].global
    BY <1>1, <2>1, Zenon DEF RostersKnown
  <2>2. ASSUME NEW pc, NEW b, wk'[t] = Process(pc, b)
        PROVE  wk'[t].global \subseteq Ids(players')
    BY <2>2 DEF Process
  <2>3. CASE Reads(t)
    <3>1. PICK m : m = Head(toWorker[t]) /\ wk'[t].global = IF m.type = "ROSTER" THEN m.alive ELSE wk[t].global
      BY <2>3, Zenon DEF Reads
    <3>2. 1 \in DOMAIN toWorker[t] /\ m = toWorker[t][1]
      BY <2>3, <3>1 DEF Reads, TypeOK, HubTypeOK
    <3> QED  BY <1>1, <3>1, <3>2, Zenon DEF RostersKnown
  <2>4. CASE MasterMove \/ \E s \in Slots : Spawns(s)
    <3>1. wk' = wk \/ \E s \in Slots : wk'[s] = Process("boot", spawn_base) /\ \A u \in Slots : u # s => wk'[u] = wk[u]
      BY <2>4, Zenon DEF MasterMove, Spawns
    <3> QED  BY <2>1, <2>2, <3>1, Zenon
  <2>5. ASSUME NEW s \in Slots, WorkerMove(s)
        PROVE  wk'[t].global \subseteq Ids(players')
    <3>1. CASE t # s
      BY <2>1, <2>5, <3>1, Zenon DEF WorkerMove, Apart
    <3>2. CASE t = s
      BY <2>1, <2>2, <2>3, <2>5, <3>2, Zenon
         DEF WorkerMove, Ends, Moves, Boots, Joins, Falls, Clears, Tells, Routes
    <3> QED  BY <3>1, <3>2, Zenon
  <2> QED  BY <2>4, <2>5, AnyMove, Zenon
<1> QED  BY <1>2, <1>3, Zenon DEF RostersKnown

(* An attack by b on v at place k of room s's queue is by a player of the  *)
(* room.  Its victim, if of the same room, is reported before it, or else  *)
(* the table does not have the victim standing and never will.             *)
Spent(s, v) == ~Stands(v) /\ At(toMaster[s], "JOINED", v) = {}

Aim(s, k, b, v) ==
    /\ b \in Block(s)
    /\ v \in Block(s) => /\ Live(s) => v \in Session(s)
                         /\ (\E j \in At(toMaster[s], "ELIMINATED", v) : j < k) \/ Spent(s, v)

Attack(m, b, v) == m.type = "ATTACK" /\ m.by = b /\ m.id = v

AimedInv == \A s \in Slots : room[s].used => \A k \in DOMAIN toMaster[s] : \A b, v :
    Attack(toMaster[s][k], b, v) => Aim(s, k, b, v)

(* An attack keeps its aim while its queue moves on.                       *)
LEMMA AimFrame ==
    ASSUME NEW s \in Slots, NEW k \in Nat, NEW d \in Nat, NEW b, NEW v, Aim(s, k + d, b, v), Tale(s, v),
           room'[s].base = room[s].base,
           v \in Block(s) /\ Live(s)' => Live(s) /\ (v \in Session(s) => v \in Session(s)'),
           v \in Block(s) /\ At(toMaster[s], "ELIMINATED", v) # {} => Slides(s, v, d) \/ Spent(s, v)',
           v \in Block(s) /\ Spent(s, v) => Spent(s, v)'
    PROVE  Aim(s, k, b, v)'
<1>1. Block(s)' = Block(s)
  BY Zenon DEF Block
<1>2. CASE v \notin Block(s)
  BY <1>1, <1>2, Zenon DEF Aim
<1>3. CASE v \in Block(s)
  <2>1. /\ b \in Block(s) /\ (Live(s)' => v \in Session(s)')
        /\ (\E j \in At(toMaster[s], "ELIMINATED", v) : j < k + d) \/ Spent(s, v)
    BY <1>3, Zenon DEF Aim
  <2>2. CASE Spent(s, v)'
    BY <1>1, <2>1, <2>2, Zenon DEF Aim
  <2>3. ASSUME NEW j \in At(toMaster[s], "ELIMINATED", v), j < k + d, Slides(s, v, d)
        PROVE  Aim(s, k, b, v)'
    <3>1. PICK i \in At(toMaster'[s], "ELIMINATED", v) : i \in Nat /\ i + d \in At(toMaster[s], "ELIMINATED", v)
      BY <2>3, Zenon DEF Slides
    <3>2. i + d = j
      BY <2>3, <3>1, Zenon DEF Tale
    <3>3. i < k
      <4>1. PICK c : c \in Nat /\ c = i
        BY <3>1, Zenon
      <4>2. c + d < k + d
        BY <2>3, <3>2, <4>1, Zenon
      <4>3. c < k
        BY <4>1, <4>2, SMT
      <4> QED  BY <4>1, <4>3, Zenon
    <3> QED  BY <1>1, <2>1, <3>1, <3>3, Zenon DEF Aim
  <2> QED  BY <1>3, <2>1, <2>2, <2>3, Zenon
<1> QED  BY <1>2, <1>3, Zenon

(* The messages of a queue a worker adds to.                               *)
LEMMA GrownQueue ==
    ASSUME TypeOK, NEW s \in Slots, NEW m,
           toMaster'[s] = toMaster[s] \/ Says(s, m)
    PROVE  \A k \in DOMAIN toMaster'[s] :
             \/ k \in DOMAIN toMaster[s] /\ k \in Nat /\ k + 0 = k /\ toMaster'[s][k] = toMaster[s][k]
             \/ toMaster'[s][k] = m
<1>1. PICK q : q = toMaster[s] /\ q \in Seq(HubMsg(WorkerTypes)) /\ (toMaster'[s] = q \/ toMaster'[s] = Append(q, m))
  BY Zenon DEF TypeOK, HubTypeOK, Says
<1>2. \A k \in DOMAIN q : k \in Nat /\ k + 0 = k
  BY <1>1
<1>3. \A k \in DOMAIN Append(q, m) : (k \in DOMAIN q /\ Append(q, m)[k] = q[k]) \/ Append(q, m)[k] = m
  BY <1>1
<1> QED  BY <1>1, <1>2, <1>3

(* Routing an attack on a player of the room who has left: the room has    *)
(* reported the player before it (room.c:307-350).                         *)
LEMMA AimRouted ==
    ASSUME TypeOK, IdInv, FloorInv, TaleInv, RostersKnown, NEW s \in Slots, Live(s), room[s].used, UNCHANGED <<room, players>>,
           NEW g, NEW v, Routes(s, g, v), v \notin find_player(s), v # 0, NEW m, NEW n, m.type = "ATTACK", n.type = "FEED",
           toMaster'[s] = Append(Append(toMaster[s], m), n), NEW k, k = Len(toMaster[s]) + 1
    PROVE  Aim(s, k, g.who, v)'
<1>1. Block(s)' = Block(s) /\ Session(s)' = Session(s)
  BY Zenon DEF Routes, Seated, Block
<1>2. g.who \in Block(s)
  BY SessionInBlock, Zenon DEF FloorInv, Routes
<1>3. ASSUME v \in Block(s)
      PROVE  v \in Session(s)
  <2>1. CASE v \in wk[s].global
    <3>1. v \in Ids(players)
      BY <2>1, Zenon DEF RostersKnown
    <3>2. PICK i \in DOMAIN players : players[i].id = v
      BY <3>1, Zenon DEF Ids
    <3> QED  BY <1>3, <3>2, Zenon DEF IdInv, RecordsKnown, Used
  <2> QED  BY <2>1, Zenon DEF Routes
<1>4. ASSUME v \in Session(s)
      PROVE  (\E j \in At(toMaster'[s], "ELIMINATED", v) : j < k) \/ Spent(s, v)'
  <2>1. v \in wk[s].told /\ v \in Nat
    BY <1>4, SessionInBlock, Zenon DEF Routes, find_player, FloorInv
  <2>2. At(toMaster[s], "JOINED", v) # {} \/ Stands(v) => At(toMaster[s], "ELIMINATED", v) # {}
    BY <2>1, Zenon DEF TaleInv, Tale
  <2>3. Slides(s, v, 0) /\ At(toMaster'[s], "JOINED", v) = At(toMaster[s], "JOINED", v)
    BY SlideTwo, Zenon
  <2>4. Stands(v)' <=> Stands(v)
    BY Zenon DEF Stands
  <2>5. CASE At(toMaster[s], "ELIMINATED", v) # {}
    <3>1. PICK i \in At(toMaster'[s], "ELIMINATED", v) : i \in Nat /\ i + 0 \in At(toMaster[s], "ELIMINATED", v)
      BY <2>3, <2>5, Zenon DEF Slides
    <3>2. i \in DOMAIN toMaster[s] /\ toMaster[s] \in Seq(HubMsg(WorkerTypes))
      BY <3>1 DEF At, TypeOK, HubTypeOK
    <3>3. i < k
      BY <3>2
    <3> QED  BY <3>1, <3>3, Zenon
  <2>6. CASE At(toMaster[s], "ELIMINATED", v) = {}
    BY <2>2, <2>3, <2>4, <2>6, Zenon DEF Spent
  <2> QED  BY <2>5, <2>6, Zenon
<1> QED  BY <1>1, <1>2, <1>3, <1>4, Zenon DEF Aim

(* What a worker does keeps every attack on its way aimed.                 *)
LEMMA AimWorker ==
    ASSUME TypeOK, IdInv, FloorInv, TaleInv, RostersKnown, AimedInv, NEW s \in Slots, WorkerMove(s)
    PROVE  AimedInv'
<1>0. /\ Apart(s) /\ Live(s) /\ UNCHANGED <<room, players>>
  BY Zenon DEF WorkerMove, Apart, masterVars
<1>1. /\ \A v : Stands(v)' <=> Stands(v)
      /\ \A t \in Slots : Block(t)' = Block(t)
  BY <1>0, Zenon DEF Stands, Block
<1>2. ASSUME NEW t \in Slots, room[t].used, t # s, NEW k \in DOMAIN toMaster'[t], NEW b, NEW v,
             Attack(toMaster'[t][k], b, v)
      PROVE  Aim(t, k, b, v)'
  <2>1. toMaster'[t] = toMaster[t] /\ wk'[t] = wk[t]
    BY <1>0, <1>2, Zenon DEF Apart
  <2>2. Live(t)' = Live(t) /\ Session(t)' = Session(t)
    BY <2>1, Zenon DEF Live, Session
  <2>3. Aim(t, k, b, v)
    BY <1>2, <2>1, Zenon DEF AimedInv
  <2> QED  BY <1>0, <1>1, <2>1, <2>2, <2>3, Zenon DEF Aim, Spent
(* An attack that was there before, at the same place.                     *)
<1>f. ASSUME room[s].used, NEW k \in DOMAIN toMaster[s], toMaster'[s][k] = toMaster[s][k],
             NEW b, NEW v, Attack(toMaster[s][k], b, v),
             Live(s)' => (v \in Session(s) => v \in Session(s)'),
             v \in Block(s) => /\ At(toMaster[s], "ELIMINATED", v) = {} \/ Slides(s, v, 0)
                               /\ At(toMaster'[s], "JOINED", v) = At(toMaster[s], "JOINED", v)
      PROVE  Aim(s, k, b, v)'
  <2>1. k \in Nat /\ k + 0 = k /\ v \in Nat
    <3>1. toMaster[s] \in Seq(HubMsg(WorkerTypes))
      BY Zenon DEF TypeOK, HubTypeOK
    <3>2. toMaster[s][k] \in HubMsg(WorkerTypes) /\ k \in Nat /\ k + 0 = k
      BY <1>f, <3>1
    <3> QED  BY <1>f, <3>2, Zenon DEF HubMsg, Attack
  <2>2. Aim(s, k, b, v) /\ Tale(s, v)
    BY <1>f, <2>1, Zenon DEF AimedInv, TaleInv
  <2>3. Aim(s, k + 0, b, v)
    BY <2>1, <2>2, Zenon
  <2>4. v \in Block(s) /\ Spent(s, v) => Spent(s, v)'
    BY <1>1, <1>f, Zenon DEF Spent
  <2> QED  BY <1>0, <1>f, <2>1, <2>2, <2>3, <2>4, AimFrame, Zenon
<1>3. ASSUME room[s].used, NEW k \in DOMAIN toMaster'[s], NEW b, NEW v, Attack(toMaster'[s][k], b, v)
      PROVE  Aim(s, k, b, v)'
  <2>1. CASE Ends(s) \/ Moves(s) \/ Reads(s) \/ \E r : Falls(s, r) \/ Clears(s, r)
    <3>1. UNCHANGED toMaster /\ (Live(s)' => Session(s)' = Session(s))
      <4>1. CASE Ends(s)
        <5>1. wk'[s].pc = "exited"
          BY <4>1 DEF Ends, Process
        <5>2. ~Live(s)'
          BY <5>1, Zenon DEF Live
        <5> QED  BY <4>1, <5>2, Zenon DEF Ends
      <4>2. CASE Moves(s) \/ Reads(s) \/ \E r : Falls(s, r) \/ Clears(s, r)
        BY <4>2, Zenon DEF Moves, Reads, Falls, Clears, Seated
      <4> QED  BY <2>1, <4>1, <4>2, Zenon
    <3>2. Slides(s, v, 0) /\ At(toMaster'[s], "JOINED", v) = At(toMaster[s], "JOINED", v)
      BY <3>1, SlideSame, Zenon
    <3> QED  BY <1>3, <1>f, <3>1, <3>2, Zenon
  <2>2. CASE Boots(s)
    <3>0. Says(s, Msg("READY", 0))
      BY <2>2, Zenon DEF Boots
    <3>m. Msg("READY", 0).type = "READY"
      BY Zenon DEF Msg
    <3>1. PICK m : Says(s, m) /\ m.type = "READY"
      BY <3>0, <3>m, Zenon
    <3>2. k \in DOMAIN toMaster[s] /\ toMaster'[s][k] = toMaster[s][k]
      BY <1>3, <3>1, GrownQueue DEF Attack
    <3>3. Slides(s, v, 0) /\ At(toMaster'[s], "JOINED", v) = At(toMaster[s], "JOINED", v)
      BY <3>1, SlideSay
    <3>4. Session(s)' = Session(s)
      BY <2>2, Zenon DEF Boots, Seated
    <3> QED  BY <1>3, <1>f, <3>2, <3>3, <3>4, Zenon
  <2>3. ASSUME NEW r, Joins(s, r)
        PROVE  Aim(s, k, b, v)'
    <3>0. Says(s, Msg("JOINED", r))
      BY <2>3, Zenon DEF Joins
    <3>m. Msg("JOINED", r).type = "JOINED" /\ Msg("JOINED", r).id = r
      BY Zenon DEF Msg
    <3>1. PICK m : Says(s, m) /\ m.type = "JOINED" /\ m.id = r
      BY <3>0, <3>m, Zenon
    <3>2. k \in DOMAIN toMaster[s] /\ toMaster'[s][k] = toMaster[s][k]
      BY <1>3, <3>1, GrownQueue DEF Attack
    <3>3. v \in Block(s) => v # r
      <4>1. Aim(s, k, b, v)
        BY <1>3, <3>2, Zenon DEF AimedInv
      <4>2. r \notin Session(s)
        BY <1>0, <2>3, SessionInBlock, Zenon DEF Joins
      <4> QED  BY <1>0, <4>1, <4>2 DEF Aim
    <3>4. v \in Block(s) => Slides(s, v, 0) /\ At(toMaster'[s], "JOINED", v) = At(toMaster[s], "JOINED", v)
      BY <3>1, <3>3, SlideSay, Zenon
    <3>5. Session(s) \subseteq Session(s)'
      BY <2>3, Zenon DEF Joins
    <3> QED  BY <1>3, <1>f, <3>2, <3>4, <3>5, Zenon
  <2>4. ASSUME NEW r, Tells(s, r)
        PROVE  Aim(s, k, b, v)'
    <3>0. Says(s, Msg("ELIMINATED", r))
      BY <2>4, Zenon DEF Tells
    <3>m. Msg("ELIMINATED", r).type = "ELIMINATED" /\ Msg("ELIMINATED", r).id = r
      BY Zenon DEF Msg
    <3>1. PICK m : Says(s, m) /\ m.type = "ELIMINATED" /\ m.id = r
      BY <3>0, <3>m, Zenon
    <3>2. k \in DOMAIN toMaster[s] /\ toMaster'[s][k] = toMaster[s][k]
      BY <1>3, <3>1, GrownQueue, Zenon DEF Attack
    <3>3. At(toMaster'[s], "JOINED", v) = At(toMaster[s], "JOINED", v)
      <4>1. PICK q : q = toMaster[s] /\ q \in Seq(HubMsg(WorkerTypes)) /\ toMaster'[s] = Append(q, m)
        BY <1>3, <3>1 DEF TypeOK, HubTypeOK, Says
      <4>2. /\ DOMAIN Append(q, m) = DOMAIN q \cup {Len(q) + 1} /\ Append(q, m)[Len(q) + 1] = m
            /\ \A i \in DOMAIN q : Append(q, m)[i] = q[i]
        BY <4>1
      <4> QED  BY <3>1, <4>1, <4>2 DEF At
    <3>4. At(toMaster[s], "ELIMINATED", v) = {} \/ Slides(s, v, 0)
      <4>1. CASE v = r
        <5>1. r \in Nat /\ r \notin wk[s].told
          BY <1>0, <2>4, SessionInBlock, Zenon DEF Tells, FloorInv
        <5> QED  BY <1>0, <1>3, <4>1, <5>1, Zenon DEF TaleInv, Tale
      <4>2. CASE v # r
        BY <3>1, <4>2, SlideSay, Zenon
      <4> QED  BY <4>1, <4>2
    <3>5. Session(s)' = Session(s)
      BY <2>4, Zenon DEF Tells, Seated
    <3> QED  BY <1>3, <1>f, <3>2, <3>3, <3>4, <3>5, Zenon
  <2>5. ASSUME NEW g, NEW x, Routes(s, g, x)
        PROVE  Aim(s, k, b, v)'
    <3>0. Session(s)' = Session(s)
      BY <2>5, Zenon DEF Routes, Seated
    <3>1. PICK m, n : /\ m.type = "ATTACK" /\ m.by = g.who /\ m.id = x /\ n.type = "FEED"
                      /\ \/ UNCHANGED toMaster
                         \/ Says(s, n)
                         \/ /\ toMaster'[s] = Append(Append(toMaster[s], m), n)
                            /\ x \notin find_player(s) /\ x # 0
      <4> DEFINE a == [attacker |-> g.who, victim |-> x, lines |-> g.lines]
      <4>1. /\ AttackMsg("ATTACK", a).type = "ATTACK" /\ AttackMsg("FEED", a).type = "FEED"
            /\ AttackMsg("ATTACK", a).by = g.who /\ AttackMsg("ATTACK", a).id = x
        BY Zenon DEF AttackMsg
      <4>2. \/ UNCHANGED toMaster
            \/ Says(s, AttackMsg("FEED", a))
            \/ /\ toMaster'[s] = Append(Append(toMaster[s], AttackMsg("ATTACK", a)), AttackMsg("FEED", a))
               /\ x \notin find_player(s) /\ x # 0
        BY <1>3, <2>5, Zenon DEF Routes
      <4> HIDE DEF a
      <4> QED  BY <4>1, <4>2, Zenon
    <3>2. CASE UNCHANGED toMaster \/ Says(s, n)
      <4>1. k \in DOMAIN toMaster[s] /\ toMaster'[s][k] = toMaster[s][k]
        BY <1>3, <3>1, <3>2, GrownQueue DEF Attack
      <4>2. Slides(s, v, 0) /\ At(toMaster'[s], "JOINED", v) = At(toMaster[s], "JOINED", v)
        BY <3>1, <3>2, SlideSay, SlideSame, Zenon
      <4> QED  BY <1>3, <1>f, <3>0, <4>1, <4>2, Zenon
    <3>3. CASE toMaster'[s] = Append(Append(toMaster[s], m), n) /\ x \notin find_player(s) /\ x # 0
      <4>1. PICK q, l : /\ q = toMaster[s] /\ q \in Seq(HubMsg(WorkerTypes)) /\ toMaster'[s] = Append(Append(q, m), n)
                        /\ l = Len(q) + 1
        BY <3>3, Zenon DEF TypeOK, HubTypeOK
      <4>2. \A i \in DOMAIN Append(Append(q, m), n) :
              \/ i \in DOMAIN q /\ Append(Append(q, m), n)[i] = q[i]
              \/ i = l /\ Append(Append(q, m), n)[i] = m
              \/ Append(Append(q, m), n)[i] = n
        BY <4>1
      <4>3. CASE k \in DOMAIN q /\ toMaster'[s][k] = q[k]
        <5>1. Slides(s, v, 0) /\ At(toMaster'[s], "JOINED", v) = At(toMaster[s], "JOINED", v)
          BY <1>3, <3>1, <3>3, SlideTwo, Zenon
        <5> QED  BY <1>3, <1>f, <3>0, <4>1, <4>3, <5>1, Zenon
      <4>4. CASE k = l /\ toMaster'[s][k] = m
        <5>1. Aim(s, l, g.who, x)'
          BY <1>0, <1>3, <2>5, <3>1, <3>3, <4>1, AimRouted, Zenon
        <5> QED  BY <1>3, <3>1, <4>4, <5>1, Zenon DEF Attack
      <4> QED  BY <1>3, <3>1, <4>1, <4>2, <4>3, <4>4, Zenon DEF Attack
    <3> QED  BY <3>1, <3>2, <3>3, Zenon
  <2> QED  BY <2>1, <2>2, <2>3, <2>4, <2>5 DEF WorkerMove
<1> QED  BY <1>0, <1>2, <1>3, Zenon DEF AimedInv

(* What the master does keeps every attack on its way aimed.               *)
LEMMA AimMaster ==
    ASSUME TypeOK, IdInv, TaleInv, AimedInv, MasterMove \/ \E s \in Slots : Spawns(s)
    PROVE  AimedInv'
<1>t. \A t \in Slots : toMaster[t] \in Seq(HubMsg(WorkerTypes))
  BY Zenon DEF TypeOK, HubTypeOK
(* A room whose queue the step leaves alone.                               *)
<1>a. ASSUME NEW t \in Slots, room[t].used, room'[t].base = room[t].base, wk'[t] = wk[t], toMaster'[t] = toMaster[t],
             \A v \in Block(t) : Stands(v)' => Stands(v),
             NEW k \in DOMAIN toMaster'[t], NEW b, NEW v, Attack(toMaster'[t][k], b, v)
      PROVE  Aim(t, k, b, v)'
  <2>1. Live(t)' = Live(t) /\ Session(t)' = Session(t) /\ Block(t)' = Block(t)
    BY <1>a, Zenon DEF Live, Session, Block
  <2>2. Aim(t, k, b, v)
    BY <1>a, Zenon DEF AimedInv
  <2> QED  BY <1>a, <2>1, <2>2, Zenon DEF Aim, Spent
(* The room whose message is taken.                                        *)
<1>k. ASSUME UNCHANGED wk, NEW s \in Slots, NEW type, Heard(s, type), room'[s].base = room[s].base,
             NEW k \in DOMAIN toMaster'[s], NEW b, NEW v, Attack(toMaster'[s][k], b, v),
             v \in Block(s) => \/ type # "ELIMINATED" \/ Head(toMaster[s]).id # v
                               \/ Spent(s, v)',
             v \in Block(s) /\ Spent(s, v) => ~Stands(v)'
      PROVE  Aim(s, k, b, v)'
  <2>1. PICK q : q = toMaster[s] /\ q \in Seq(HubMsg(WorkerTypes)) /\ q # <<>> /\ toMaster'[s] = Tail(q)
    BY <1>k, <1>t, Zenon DEF Heard, TypeOK, HubTypeOK
  <2>2. k \in Nat /\ k + 1 \in DOMAIN q /\ Tail(q)[k] = q[k + 1] /\ q[k + 1] \in HubMsg(WorkerTypes)
    BY <1>k, <2>1
  <2>3. Aim(s, k + 1, b, v)
    BY <1>k, <2>1, <2>2, Zenon DEF AimedInv, Heard
  <2>4. v \in Nat
    BY <1>k, <2>1, <2>2 DEF HubMsg, Attack
  <2>5. Tale(s, v)
    BY <1>k, <2>4, Zenon DEF TaleInv, Heard
  <2>6. Live(s)' = Live(s) /\ Session(s)' = Session(s)
    BY <1>k, Zenon DEF Live, Session
  <2>7. At(toMaster'[s], "JOINED", v) # {} => At(toMaster[s], "JOINED", v) # {}
    BY <2>1, TailAt
  <2>8. v \in Block(s) => Slides(s, v, 1) \/ Spent(s, v)'
    BY <1>k, SlideTake, Zenon
  <2>9. v \in Block(s) /\ Spent(s, v) => Spent(s, v)'
    BY <1>k, <2>7, Zenon DEF Spent
  <2> QED  BY <1>k, <2>2, <2>3, <2>5, <2>6, <2>8, <2>9, AimFrame, Zenon
<1>h. ASSUME NEW s \in Slots, NEW type, Heard(s, type)
      PROVE  /\ room[s].used /\ \A t \in Slots : t # s => toMaster'[t] = toMaster[t]
             /\ 1 \in At(toMaster[s], type, Head(toMaster[s]).id) /\ Head(toMaster[s]).id \in Nat
  <2>1. toMaster[s] \in Seq(HubMsg(WorkerTypes)) /\ toMaster[s] # <<>> /\ DOMAIN toMaster = Slots
    BY <1>h, Zenon DEF TypeOK, HubTypeOK, Heard
  <2>2. 1 \in DOMAIN toMaster[s] /\ Head(toMaster[s]) = toMaster[s][1] /\ Head(toMaster[s]) \in HubMsg(WorkerTypes)
    BY <2>1
  <2> QED  BY <1>h, <2>1, <2>2 DEF Heard, At, HubMsg
<1>o. ASSUME NEW s \in Slots, room[s].used, NEW t \in Slots, t # s, room[t].used, NEW p \in Block(s)
      PROVE  p \notin Block(t)
  BY <1>o, Zenon DEF IdInv, BlocksApart, Used
<1>1. ASSUME NEW s \in Slots, Spawns(s)
      PROVE  AimedInv'
  <2>1. \A v : Stands(v)' <=> Stands(v)
    BY <1>1, Zenon DEF Spawns, Stands
  <2>2. DOMAIN toMaster'[s] = {}
    BY <1>1 DEF Spawns
  <2>3. \A t \in Slots : t # s => room'[t] = room[t] /\ wk'[t] = wk[t] /\ toMaster'[t] = toMaster[t]
    BY <1>1, Zenon DEF Spawns
  <2> QED  BY <1>a, <2>1, <2>2, <2>3, Zenon DEF AimedInv
<1>2. ASSUME Tends \/ \E s \in Slots : HandleAttack(s) \/ HandleFeed(s), UNCHANGED wk
      PROVE  AimedInv'
  <2>1. UNCHANGED players /\ Rooms
    BY <1>2, Zenon DEF Tends, HandleAttack, HandleFeed, masterVars, Rooms
  <2>2. \A v : Stands(v)' <=> Stands(v)
    BY <2>1, Zenon DEF Stands
  <2>3. CASE UNCHANGED toMaster
    BY <1>2, <1>a, <2>1, <2>2, <2>3, Zenon DEF AimedInv, Rooms
  <2>4. ASSUME NEW s \in Slots, NEW type \in {"READY", "ATTACK", "FEED"}, Heard(s, type)
        PROVE  AimedInv'
    <3>1. ASSUME NEW k \in DOMAIN toMaster'[s], NEW b, NEW v, Attack(toMaster'[s][k], b, v) PROVE Aim(s, k, b, v)'
      BY <1>2, <1>k, <2>1, <2>2, <2>4, <3>1, Zenon DEF Rooms, Spent
    <3>2. ASSUME NEW t \in Slots, t # s, room[t].used, NEW k \in DOMAIN toMaster'[t], NEW b, NEW v,
                 Attack(toMaster'[t][k], b, v)
          PROVE  Aim(t, k, b, v)'
      BY <1>2, <1>a, <1>h, <2>1, <2>2, <2>4, <3>2, Zenon DEF Rooms
    <3> QED  BY <2>1, <3>1, <3>2, Zenon DEF AimedInv, Rooms
  <2> QED  BY <1>2, <2>3, <2>4, Zenon DEF Tends, HandleAttack, HandleFeed
<1>3. ASSUME NEW s \in Slots, Enrols(s), UNCHANGED wk
      PROVE  AimedInv'
  <2>0. PICK h : h = Head(toMaster[s]).id
    BY Zenon
  <2>1. Heard(s, "JOINED") /\ Rooms
    BY <1>3, Zenon DEF Enrols
  <2>2. \A p : Stands(p)' => Stands(p) \/ p = h
    BY <1>3, <2>0, EnrolTable DEF Enrols
  <2>3. h \in Block(s) /\ room[s].used /\ 1 \in At(toMaster[s], "JOINED", h)
    BY <1>h, <2>0, <2>1, Zenon DEF IdInv, JoinsFresh, Used, At
  <2>4. ASSUME NEW k \in DOMAIN toMaster'[s], NEW b, NEW v, Attack(toMaster'[s][k], b, v) PROVE Aim(s, k, b, v)'
    <3>1. Spent(s, v) => ~Stands(v)'
      BY <2>2, <2>3, Zenon DEF Spent
    <3>2. Heard(s, "JOINED") /\ room'[s].base = room[s].base /\ UNCHANGED wk /\ "JOINED" # "ELIMINATED"
      BY <1>3, <2>1 DEF Rooms
    <3> QED  BY <1>k, <2>4, <3>1, <3>2
  <2>5. ASSUME NEW t \in Slots, t # s, room[t].used, NEW k \in DOMAIN toMaster'[t], NEW b, NEW v,
               Attack(toMaster'[t][k], b, v)
        PROVE  Aim(t, k, b, v)'
    <3>1. toMaster'[t] = toMaster[t] /\ room'[t].base = room[t].base
      BY <1>h, <2>1, <2>5, Zenon DEF Rooms
    <3>2. \A p \in Block(t) : Stands(p)' => Stands(p)
      BY <1>o, <2>2, <2>3, <2>5, Zenon
    <3> QED  BY <1>3, <1>a, <2>5, <3>1, <3>2, Zenon
  <2> QED  BY <2>1, <2>4, <2>5, Zenon DEF AimedInv, Rooms
<1>4. ASSUME NEW s \in Slots, Buries(s), UNCHANGED wk
      PROVE  AimedInv'
  <2>0. PICK h : h = Head(toMaster[s]).id
    BY Zenon
  <2>1. Heard(s, "ELIMINATED") /\ Rooms
    BY <1>4, Zenon DEF Buries
  <2>2. /\ room[s].used /\ 1 \in At(toMaster[s], "ELIMINATED", h) /\ h \in Nat
        /\ \A t \in Slots : t # s => toMaster'[t] = toMaster[t]
    BY <1>h, <2>0, <2>1
  <2>3. \A p : Stands(p)' => Stands(p) /\ p # h
    <3>1. PICK dead : dead = {i \in DOMAIN players : players[i].id = h} /\ players' = Bury(players, dead)
      BY <1>4, <2>0, Zenon DEF Buries
    <3>2. \A p : Stands(p)' => Stands(p) /\ \E i \in DOMAIN players : players[i].id = p /\ i \notin dead
      BY <3>1, BuryTable
    <3> QED  BY <3>1, <3>2
  <2>4. Spent(s, h)'
    <3>1. \A k \in At(toMaster[s], "JOINED", h) : k < 1
      BY <2>2, Zenon DEF TaleInv, Tale
    <3>2. \A k \in At(toMaster'[s], "JOINED", h) : k \in Nat /\ k + 1 \in At(toMaster[s], "JOINED", h)
      BY <1>t, <2>1, TailAt DEF Heard, TypeOK, HubTypeOK
    <3>3. \A k \in Nat : ~(k + 1 < 1)
      OBVIOUS
    <3> QED  BY <2>3, <3>1, <3>2, <3>3 DEF Spent
  <2>5. ASSUME NEW k \in DOMAIN toMaster'[s], NEW b, NEW v, Attack(toMaster'[s][k], b, v) PROVE Aim(s, k, b, v)'
    <3>1. Spent(s, v) => ~Stands(v)'
      BY <2>3, Zenon DEF Spent
    <3>2. Head(toMaster[s]).id # v \/ Spent(s, v)'
      BY <2>0, <2>4, Zenon
    <3> QED  BY <1>4, <1>k, <2>1, <2>5, <3>1, <3>2, Zenon DEF Rooms
  <2>6. ASSUME NEW t \in Slots, t # s, room[t].used, NEW k \in DOMAIN toMaster'[t], NEW b, NEW v,
               Attack(toMaster'[t][k], b, v)
        PROVE  Aim(t, k, b, v)'
    BY <1>4, <1>a, <2>1, <2>2, <2>3, <2>6, Zenon DEF Rooms
  <2> QED  BY <2>1, <2>5, <2>6, Zenon DEF AimedInv, Rooms
<1>5. ASSUME NEW s \in Slots, Closes(s), UNCHANGED wk
      PROVE  AimedInv'
  <2>1. \A p : Stands(p)' => Stands(p)
    <3>1. CASE players' = players
      BY <3>1, Zenon DEF Stands
    <3>2. CASE players' = Bury(players, Occupants(s))
      BY <3>2, BuryTable, Zenon
    <3> QED  BY <1>5, <3>1, <3>2, Zenon DEF Closes
  <2>2. \A t \in Slots : t # s => toMaster'[t] = toMaster[t]
    BY <1>5, Zenon DEF Closes, TypeOK, HubTypeOK
  <2> QED  BY <1>5, <1>a, <2>1, <2>2, Zenon DEF Closes, AimedInv
<1> QED  BY <1>1, <1>2, <1>3, <1>4, <1>5 DEF MasterMove

(* Garbage on its way down is for a player of the room, by one of another. *)
RelayedInv == ~matchEnded => \A s \in Slots : Live(s) => \A k \in DOMAIN toWorker[s] :
    toWorker[s][k].type = "GARBAGE" =>
      toWorker[s][k].id \in Session(s) /\ toWorker[s][k].by \notin Block(s)

(* A relayed attack reaches the room of its victim, which is not the room  *)
(* it comes from (main.c:380-396).                                         *)
LEMMA RelayLands ==
    ASSUME TypeOK, IdInv, Housed, AimedInv, ~matchEnded, NEW s \in Slots, NEW t \in Slots, NEW m, Relay(s, t, m)
    PROVE  m.id \in Session(t) /\ m.by \notin Block(t)
<1>1. PICK h : h = Head(toMaster[s]) /\ h \in HubMsg(WorkerTypes) /\ h = toMaster[s][1] /\ 1 \in DOMAIN toMaster[s]
  BY DEF Relay, HandleAttack, Heard, TypeOK, HubTypeOK
<1>2. m.id = h.id /\ m.by = h.by
  BY <1>1, Zenon DEF Relay, HubMsg
<1>3. /\ room[s].used /\ Aim(s, 1, h.by, h.id)
  BY <1>1, Zenon DEF Relay, HandleAttack, Heard, AimedInv, Attack
<1>4. PICK i \in DOMAIN players : players[i].id = h.id /\ players[i].alive /\ players[i].room = t
  BY <1>1, Zenon DEF Relay, Target, First
<1>5. room[t].used /\ h.id \in Block(t)
  BY <1>4, Zenon DEF Housed
<1>6. h.id \in Session(t)
  BY <1>4, <1>5 DEF IdInv, RecordsKnown, Relay, Used
<1>7. s # t
  <2>1. ASSUME s = t
        PROVE  FALSE
    <3>1. Stands(h.id)
      BY <1>4, Zenon DEF Stands
    <3>2. PICK j \in At(toMaster[s], "ELIMINATED", h.id) : j < 1
      BY <1>3, <1>5, <2>1, <3>1 DEF Aim, Spent
    <3>3. j \in DOMAIN toMaster[s] /\ toMaster[s] \in Seq(HubMsg(WorkerTypes))
      BY <3>2, Zenon DEF At, TypeOK, HubTypeOK
    <3> QED  BY <3>2, <3>3
  <2> QED  BY <2>1, Zenon
<1>8. Block(s) \cap Block(t) = {}
  BY <1>3, <1>5, <1>7 DEF IdInv, BlocksApart, Used
<1>9. h.by \in Block(s)
  BY <1>3, Zenon DEF Aim
<1> QED  BY <1>2, <1>6, <1>8, <1>9

(* RelayedInv survives every step.                                         *)
LEMMA RelayedStep ==
    ASSUME StaleClients = FALSE, TypeOK, IdInv, Housed, AimedInv, RelayedInv, [Next]_vars
    PROVE  RelayedInv'
<1>1. ~matchEnded' => ~matchEnded
  BY AnyMove, Zenon DEF MasterMove, Tends, Enrols, Buries, Closes, HandleAttack, HandleFeed, Spawns, WorkerMove, Apart, masterVars
<1>2. ASSUME NEW t \in Slots
      PROVE  \/ toWorker'[t] = <<>>
             \/ (Live(t)' => Live(t)) /\ Session(t) \subseteq Session(t)' /\ Block(t)' = Block(t)
             \/ ~Live(t)'
  <2>1. CASE MasterMove
    <3>1. wk'[t] = wk[t] /\ room'[t].base = room[t].base
      BY <2>1, Zenon DEF MasterMove, Tends, Enrols, Buries, Closes, HandleAttack, HandleFeed, Rooms, masterVars
    <3> QED  BY <3>1, Zenon DEF Live, Session, Block
  <2>2. ASSUME NEW s \in Slots, t # s, wk'[t] = wk[t], room'[t] = room[t]
        PROVE  (Live(t)' => Live(t)) /\ Session(t) \subseteq Session(t)' /\ Block(t)' = Block(t)
    BY <2>2, Zenon DEF Live, Session, Block
  <2>3. ASSUME NEW s \in Slots, Spawns(s)
        PROVE  \/ toWorker'[t] = <<>>
               \/ (Live(t)' => Live(t)) /\ Session(t) \subseteq Session(t)' /\ Block(t)' = Block(t)
    BY <2>2, <2>3, Zenon DEF Spawns
  <2>4. ASSUME NEW s \in Slots, WorkerMove(s), t # s
        PROVE  (Live(t)' => Live(t)) /\ Session(t) \subseteq Session(t)' /\ Block(t)' = Block(t)
    BY <2>2, <2>4, Zenon DEF WorkerMove, Apart, masterVars
  <2>5. CASE WorkerMove(t)
    <3>1. Block(t)' = Block(t) /\ Live(t)
      BY <2>5, Zenon DEF WorkerMove, Apart, masterVars, Block
    <3> QED  BY <2>5, <3>1, Zenon DEF WorkerMove, Ends, Moves, Boots, Reads, Joins, Falls, Clears, Tells, Routes, Seated
  <2> QED  BY <2>1, <2>3, <2>4, <2>5, AnyMove, Zenon
<1>3. ASSUME ~matchEnded', NEW t \in Slots, Live(t)', NEW k \in DOMAIN toWorker'[t],
             toWorker'[t][k].type = "GARBAGE"
      PROVE  toWorker'[t][k].id \in Session(t)' /\ toWorker'[t][k].by \notin Block(t)'
  <2>1. Live(t) /\ Session(t) \subseteq Session(t)' /\ Block(t)' = Block(t)
    BY <1>2, <1>3
  <2>2. ASSUME NEW j \in DOMAIN toWorker[t], toWorker'[t][k] = toWorker[t][j]
        PROVE  toWorker'[t][k].id \in Session(t) /\ toWorker'[t][k].by \notin Block(t)
    BY <1>1, <1>3, <2>1, <2>2, Zenon DEF RelayedInv
  <2>3. ASSUME NEW s \in Slots, Relay(s, t, toWorker'[t][k])
        PROVE  toWorker'[t][k].id \in Session(t) /\ toWorker'[t][k].by \notin Block(t)
    BY <1>1, <1>3, <2>3, RelayLands
  <2> QED  BY <1>3, <2>1, <2>2, <2>3, DownMoves, Zenon DEF Notice
<1> QED  BY <1>3, Zenon DEF RelayedInv

(* The invariant behind the routing of garbage.                            *)
PlayInv == FloorInv /\ TaleInv /\ Housed /\ RostersKnown /\ AimedInv /\ RelayedInv

(* PlayInv holds from the first state on.                                  *)
THEOREM PlayInductive == ASSUME StaleClients = FALSE PROVE Spec => []PlayInv
<1>1. Init => Housed /\ RostersKnown /\ AimedInv /\ RelayedInv
  <2> SUFFICES ASSUME Init PROVE Housed /\ RostersKnown /\ AimedInv /\ RelayedInv
    BY Zenon
  <2>1. \A s \in Slots : wk[s] = Process("none", 0) /\ room[s].used = FALSE /\ toWorker[s] = <<>>
    BY Zenon DEF Init, FreshRoom
  <2>2. players = <<>> /\ \A s \in Slots : ~Live(s) /\ wk[s].global = {}
    BY <2>1, Zenon DEF Init, Live, Process
  <2>3. Housed /\ RelayedInv /\ AimedInv
    BY <2>1, <2>2 DEF Housed, RelayedInv, AimedInv
  <2>4. RostersKnown
    BY <2>1, <2>2 DEF RostersKnown
  <2> QED  BY <2>3, <2>4, Zenon
<1>2. TypeOK /\ IdInv /\ FloorInv /\ TaleInv /\ Housed /\ RostersKnown /\ AimedInv /\ RelayedInv /\ [Next]_vars =>
        Housed' /\ RostersKnown' /\ AimedInv' /\ RelayedInv'
  <2> SUFFICES ASSUME TypeOK, IdInv, FloorInv, TaleInv, Housed, RostersKnown, AimedInv, RelayedInv, [Next]_vars
               PROVE  Housed' /\ RostersKnown' /\ AimedInv' /\ RelayedInv'
    BY Zenon
  <2>1. AimedInv'
    BY AnyMove, AimWorker, AimMaster, Zenon
  <2> QED  BY <2>1, HousedStep, RostersStep, RelayedStep, Zenon
<1> QED  BY <1>1, <1>2, Typing, IdsInductive, TalesInductive, PTL DEF Spec, PlayInv

(* Garbage the master relays lands in the victim's room and never in the   *)
(* attacker's, although workers also send up attacks on their own players  *)
(* who have left (room.c:307, main.c:380-396).                             *)
THEOREM GarbageLands == ASSUME StaleClients = FALSE PROVE Spec => []GarbageRouted
<1>1. TypeOK /\ IdInv /\ PlayInv => GarbageRouted
  <2> SUFFICES ASSUME TypeOK, IdInv, RelayedInv, ~matchEnded, NEW s \in Slots, Live(s),
                      NEW k \in DOMAIN toWorker[s], toWorker[s][k].type = "GARBAGE"
               PROVE  toWorker[s][k].id \in Session(s) /\ toWorker[s][k].by \notin Session(s)
    BY Zenon DEF PlayInv, GarbageRouted, InFlight
  <2>1. toWorker[s][k].id \in Session(s) /\ toWorker[s][k].by \notin Block(s)
    BY Zenon DEF RelayedInv
  <2> QED  BY <2>1, SessionInBlock, Zenon
<1> QED  BY <1>1, PlayInductive, IdsInductive, Typing, PTL
=============================================================================
