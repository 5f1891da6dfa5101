---------------------------- MODULE MatchProofs -----------------------------
(***************************************************************************)
(* Player ids never repeat, and no room overfills, as long as no client    *)
(* keeps the port of a slot beyond the life of the room it was dealt to;   *)
(* and all rooms announce the one verdict of the master.                   *)
(***************************************************************************)
EXTENDS TypeProofs

(* The JOINED messages of queue q are among those of p, in the same order. *)
JoinsShift(p, q) ==
    \A s \in Slots : \E d \in Nat : \A k \in DOMAIN q[s] : q[s][k].type = "JOINED" =>
        k + d \in DOMAIN p[s] /\ q[s][k] = p[s][k + d]

(* What worker s lists and has spent.                                      *)
SameLists(s) == /\ wk'[s].members = wk[s].members /\ wk'[s].reported = wk[s].reported
                /\ wk'[s].nextId >= wk[s].nextId

(* The arithmetic of one room's block.                                     *)
BlockFits(s) == wk[s].nextId + dealt[s] + room[s].pending <= room[s].base + room[s].redirected

(***************************************************************************)
(* A step that lists, reports and records nobody and forks no worker keeps *)
(* the invariant, if every room that is still up has its block balanced.   *)
(***************************************************************************)
LEMMA FrameIds ==
    ASSUME TypeOK, TypeOK', IdInv, roomSeq' = roomSeq,
           \A s \in Slots : /\ room'[s].used => room[s].used
                            /\ room'[s].base = room[s].base
                            /\ room'[s].redirected <= RoomSize,
           \A s \in Slots : /\ Live(s)' => Live(s) /\ SameLists(s) /\ BlockFits(s)'
                            /\ ~Live(s)' => wk'[s].members = <<>>,
           DOMAIN players' = DOMAIN players,
           \A i \in DOMAIN players : players'[i].id = players[i].id,
           JoinsShift(toMaster, toMaster')
    PROVE  IdInv'
<1>1. BlocksApart' /\ IdsUnique'
  <2>1. \A s \in Slots : Block(s)' = Block(s)
    BY Zenon DEF Block
  <2>2. spawn_base' = spawn_base
    BY Zenon DEF spawn_base
  <2>3. BlocksApart'
    BY <2>1, <2>2, Zenon DEF IdInv, BlocksApart, Used
  <2>4. IdsUnique'
    BY DEF IdInv, IdsUnique
  <2> QED BY <2>3, <2>4, Zenon
<1>2. BlockSpent'
  BY Zenon DEF BlockSpent, BlockFits
<1>3. MembersOrdered'
  <2> SUFFICES ASSUME NEW s \in Slots, Live(s)'
               PROVE  /\ Len(wk'[s].members) + room'[s].base <= wk'[s].nextId
                      /\ \A i \in DOMAIN wk'[s].members :
                           wk'[s].members[i] \in room'[s].base..(wk'[s].nextId - 1)
                      /\ \A i, j \in DOMAIN wk'[s].members :
                           i < j => wk'[s].members[i] < wk'[s].members[j]
    BY Zenon DEF MembersOrdered
  <2>1. /\ Len(wk[s].members) + room[s].base <= wk[s].nextId
        /\ \A i \in DOMAIN wk[s].members : wk[s].members[i] \in room[s].base..(wk[s].nextId - 1)
        /\ \A i, j \in DOMAIN wk[s].members : i < j => wk[s].members[i] < wk[s].members[j]
    BY Zenon DEF IdInv, MembersOrdered
  <2>2. /\ wk'[s].members = wk[s].members /\ wk'[s].nextId >= wk[s].nextId
        /\ room'[s].base = room[s].base
    BY Zenon DEF SameLists
  <2>3. wk[s] \in Worker /\ wk'[s] \in Worker /\ room[s] \in Room
    BY Zenon DEF TypeOK, WkTypeOK, MasterTypeOK
  <2>4. wk[s].nextId \in Nat /\ wk'[s].nextId \in Nat /\ room[s].base \in Nat /\ wk[s].members \in Seq(Nat)
    BY <2>3, Zenon DEF Worker, Room
  <2>5. Len(wk[s].members) \in Nat /\ \A i \in DOMAIN wk[s].members : wk[s].members[i] \in Nat
    BY <2>4
  <2>6. Len(wk'[s].members) + room'[s].base <= wk'[s].nextId
    BY <2>1, <2>2, <2>4, <2>5
  <2>7. \A i \in DOMAIN wk'[s].members : wk'[s].members[i] \in room'[s].base..(wk'[s].nextId - 1)
    BY <2>1, <2>2, <2>4, <2>5, SMTT(30)
  <2>8. \A i, j \in DOMAIN wk'[s].members : i < j => wk'[s].members[i] < wk'[s].members[j]
    BY <2>1, <2>2, Zenon
  <2> QED BY <2>6, <2>7, <2>8, Zenon
<1>s. \A s \in Slots : Live(s)' => Live(s) /\ Session(s)' = Session(s)
  BY Zenon DEF SameLists, Session
<1>b. \A s \in Slots : s \in Used(room)' => s \in Used(room) /\ Block(s)' = Block(s)
  BY Zenon DEF Used, Block
<1>4. JoinsFresh'
  <2> SUFFICES ASSUME NEW s \in Used(room)', NEW k \in DOMAIN toMaster'[s],
                      toMaster'[s][k].type = "JOINED"
               PROVE  /\ toMaster'[s][k].id \in Block(s)'
                      /\ Live(s)' => toMaster'[s][k].id \in Session(s)'
                      /\ \A i \in DOMAIN players' : players'[i].id # toMaster'[s][k].id
                      /\ \A j \in DOMAIN toMaster'[s] :
                           toMaster'[s][j].type = "JOINED" /\ toMaster'[s][j].id = toMaster'[s][k].id => j = k
    BY Zenon DEF JoinsFresh
  <2>1. s \in Slots /\ s \in Used(room) /\ Block(s)' = Block(s)
    BY <1>b, Zenon DEF Used
  <2>2. PICK d \in Nat : \A j \in DOMAIN toMaster'[s] : toMaster'[s][j].type = "JOINED" =>
          j + d \in DOMAIN toMaster[s] /\ toMaster'[s][j] = toMaster[s][j + d]
    BY <2>1, Zenon DEF JoinsShift
  <2>3. k + d \in DOMAIN toMaster[s] /\ toMaster'[s][k] = toMaster[s][k + d]
    BY <2>2, Zenon
  <2>4. /\ toMaster[s][k + d].id \in Block(s)
        /\ Live(s) => toMaster[s][k + d].id \in Session(s)
        /\ \A i \in DOMAIN players : players[i].id # toMaster[s][k + d].id
        /\ \A j \in DOMAIN toMaster[s] :
             toMaster[s][j].type = "JOINED" /\ toMaster[s][j].id = toMaster[s][k + d].id => j = k + d
    BY <2>1, <2>3 DEF IdInv, JoinsFresh
  <2>5. ASSUME NEW j \in DOMAIN toMaster'[s], toMaster'[s][j].type = "JOINED",
               toMaster'[s][j].id = toMaster'[s][k].id
        PROVE  j = k
    <3>1. j + d = k + d
      BY <2>2, <2>3, <2>4, <2>5
    <3>2. j \in Int /\ k \in Int
      <4>1. toMaster'[s] \in Seq(HubMsg(WorkerTypes))
        BY <2>1, Zenon DEF TypeOK, HubTypeOK
      <4> QED BY <4>1
    <3> QED BY <3>1, <3>2
  <2> QED BY <1>s, <2>1, <2>3, <2>4, <2>5, Zenon
<1>5. RecordsKnown'
  <2>1. spawn_base' = spawn_base
    BY Zenon DEF spawn_base
  <2> QED BY <1>s, <1>b, <2>1 DEF IdInv, RecordsKnown, Used
<1> QED BY <1>1, <1>2, <1>3, <1>4, <1>5, Zenon DEF IdInv

(* A message that is not a JOINED changes none of them.                    *)
LEMMA SendJoins ==
    ASSUME NEW M, NEW q \in [Slots -> Seq(M)], NEW peers, NEW m, m.type # "JOINED"
    PROVE  JoinsShift(q, hub_send(q, peers, m))
<1> DEFINE r == hub_send(q, peers, m)
<1> SUFFICES ASSUME NEW s \in Slots
             PROVE  \A k \in DOMAIN r[s] : r[s][k].type = "JOINED" =>
                      k + 0 \in DOMAIN q[s] /\ r[s][k] = q[s][k + 0]
  BY Zenon DEF JoinsShift
<1>1. r[s] = q[s] \/ r[s] = Append(q[s], m)
  BY Zenon DEF hub_send
<1>2. q[s] \in Seq(M)
  BY Zenon
<1>3. CASE r[s] = q[s]
  BY <1>2, <1>3
<1>4. CASE r[s] = Append(q[s], m)
  <2> HIDE DEF r
  <2>1. /\ DOMAIN r[s] = 1..(Len(q[s]) + 1) /\ DOMAIN q[s] = 1..Len(q[s]) /\ Len(q[s]) \in Nat
        /\ \A k \in 1..Len(q[s]) : r[s][k] = q[s][k]
        /\ r[s][Len(q[s]) + 1] = m
    BY <1>2, <1>4
  <2> QED BY <2>1
<1> QED BY <1>1, <1>3, <1>4, Zenon

(* Queues that are left alone keep their JOINED messages where they are.   *)
LEMMA SameJoins ==
    ASSUME NEW q \in [Slots -> Seq(HubMsg(WorkerTypes))]
    PROVE  JoinsShift(q, q)
<1> SUFFICES ASSUME NEW s \in Slots
             PROVE  \A k \in DOMAIN q[s] : q[s][k].type = "JOINED" =>
                      k + 0 \in DOMAIN q[s] /\ q[s][k] = q[s][k + 0]
  BY Zenon DEF JoinsShift
<1>1. q[s] \in Seq(HubMsg(WorkerTypes))
  BY Zenon
<1> QED BY <1>1

(* Taking the head of a queue shifts them, emptying it drops them.         *)
LEMMA TakeJoins ==
    ASSUME NEW q \in [Slots -> Seq(HubMsg(WorkerTypes))], NEW s \in Slots, NEW r,
           \/ q[s] # <<>> /\ r = [q EXCEPT ![s] = Tail(@)]
           \/ r = [q EXCEPT ![s] = <<>>]
    PROVE  JoinsShift(q, r)
<1> SUFFICES ASSUME NEW t \in Slots
             PROVE  \E d \in Nat : \A k \in DOMAIN r[t] : r[t][k].type = "JOINED" =>
                      k + d \in DOMAIN q[t] /\ r[t][k] = q[t][k + d]
  BY Zenon DEF JoinsShift
<1>1. q[t] \in Seq(HubMsg(WorkerTypes))
  BY Zenon
<1>2. CASE t # s
  <2>1. \A k \in DOMAIN r[t] : k + 0 \in DOMAIN q[t] /\ r[t][k] = q[t][k + 0]
    BY <1>1, <1>2
  <2> QED BY <2>1, Zenon
<1>3. CASE t = s /\ r[s] = <<>>
  <2>1. \A k \in DOMAIN r[t] : k + 0 \in DOMAIN q[t] /\ r[t][k] = q[t][k + 0]
    BY <1>3
  <2> QED BY <2>1, Zenon
<1>4. CASE t = s /\ q[s] # <<>> /\ r[s] = Tail(q[s])
  <2>1. \A k \in DOMAIN r[t] : k + 1 \in DOMAIN q[t] /\ r[t][k] = q[t][k + 1]
    BY <1>1, <1>4
  <2> QED BY <2>1, Zenon
<1> QED BY <1>2, <1>3, <1>4, Zenon

(* Two shifts in a row are a shift.                                        *)
LEMMA ShiftTrans ==
    ASSUME NEW M, NEW p, NEW q, NEW r \in [Slots -> Seq(M)], JoinsShift(p, q), JoinsShift(q, r)
    PROVE  JoinsShift(p, r)
<1> SUFFICES ASSUME NEW s \in Slots
             PROVE  \E d \in Nat : \A k \in DOMAIN r[s] : r[s][k].type = "JOINED" =>
                      k + d \in DOMAIN p[s] /\ r[s][k] = p[s][k + d]
  BY Zenon DEF JoinsShift
<1>1. PICK d \in Nat : \A k \in DOMAIN q[s] : q[s][k].type = "JOINED" =>
                        k + d \in DOMAIN p[s] /\ q[s][k] = p[s][k + d]
  BY Zenon DEF JoinsShift
<1>2. PICK e \in Nat : \A k \in DOMAIN r[s] : r[s][k].type = "JOINED" =>
                        k + e \in DOMAIN q[s] /\ r[s][k] = q[s][k + e]
  BY Zenon DEF JoinsShift
<1>3. \A k \in DOMAIN r[s] : k \in Nat
  OBVIOUS
<1> DEFINE f == e + d
<1>4. f \in Nat
  OBVIOUS
<1>5. \A k \in DOMAIN r[s] : r[s][k].type = "JOINED" =>
        k + f \in DOMAIN p[s] /\ r[s][k] = p[s][k + f]
  <2> SUFFICES ASSUME NEW k \in DOMAIN r[s], r[s][k].type = "JOINED"
               PROVE  k + f \in DOMAIN p[s] /\ r[s][k] = p[s][k + f]
    BY Zenon
  <2>1. k + f = (k + e) + d
    BY <1>3
  <2>2. k + e \in DOMAIN q[s] /\ r[s][k] = q[s][k + e]
    BY <1>2, Zenon
  <2>3. (k + e) + d \in DOMAIN p[s] /\ q[s][k + e] = p[s][(k + e) + d]
    BY <1>1, <2>2, Zenon
  <2> QED BY <2>1, <2>2, <2>3, Zenon
<1> HIDE DEF f
<1> QED BY <1>4, <1>5, Zenon

(* Two messages in a row.                                                  *)
LEMMA SendTwoJoins ==
    ASSUME NEW q \in [Slots -> Seq(HubMsg(WorkerTypes))], NEW peers,
           NEW m, m.type # "JOINED", NEW n, n.type # "JOINED"
    PROVE  JoinsShift(q, hub_send(hub_send(q, peers, m), peers, n))
<1> DEFINE M == HubMsg(WorkerTypes) \cup {m, n}
           p == hub_send(q, peers, m)
           r == hub_send(p, peers, n)
<1>1. q \in [Slots -> Seq(M)]
  <2>1. \A s \in Slots : q[s] \in Seq(HubMsg(WorkerTypes)) => q[s] \in Seq(M)
    OBVIOUS
  <2> QED BY <2>1, Zenon
<1>2. p \in [Slots -> Seq(M)]
  BY <1>1, SendType, Zenon
<1>3. r \in [Slots -> Seq(M)]
  <2> HIDE DEF p
  <2> QED BY <1>2, SendType, Zenon
<1>4. JoinsShift(q, p)
  BY <1>1, SendJoins, Zenon
<1>5. JoinsShift(p, r)
  <2> HIDE DEF p
  <2> QED BY <1>2, SendJoins, Zenon
<1> HIDE DEF p, r
<1>6. JoinsShift(q, r)
  BY <1>3, <1>4, <1>5, ShiftTrans, Zenon
<1> QED BY <1>6, Zenon DEF p, r

(* A worker that exits, or that spends ids only on clients dealt to it.    *)
LEMMA WorkerFrame ==
    ASSUME TypeOK, TypeOK', IdInv, UNCHANGED masterVars, NEW s \in Slots,
           \A t \in Slots : t # s => wk'[t] = wk[t] /\ dealt'[t] = dealt[t],
           \/ wk'[s].pc = "exited" /\ wk'[s].members = <<>>
           \/ /\ Live(s) /\ Live(s)' /\ SameLists(s)
              /\ wk'[s].nextId + dealt'[s] = wk[s].nextId + dealt[s],
           JoinsShift(toMaster, toMaster')
    PROVE  IdInv'
<1>1. UNCHANGED <<room, players, roomSeq>>
  BY Zenon DEF masterVars
<1>2. /\ \A t \in Slots : room[t].redirected <= RoomSize
      /\ \A t \in Slots : Live(t) => BlockFits(t)
      /\ \A t \in Slots : ~Live(t) => wk[t].members = <<>>
  BY Zenon DEF IdInv, BlockSpent, BlockFits
<1>3. \A t \in Slots : wk[t].nextId \in Nat /\ wk'[t].nextId \in Nat
  BY Zenon DEF TypeOK, WkTypeOK, Worker
<1>4. \A t \in Slots : /\ room[t].pending \in Nat /\ room[t].base \in Nat /\ room[t].redirected \in Nat
                       /\ dealt[t] \in Nat /\ dealt'[t] \in Nat
  BY Zenon DEF TypeOK, MasterTypeOK, FloorTypeOK, Room
<1>5. ASSUME NEW t \in Slots, Live(t)'
      PROVE  Live(t) /\ SameLists(t) /\ BlockFits(t)'
  <2>1. CASE t # s
    BY <1>1, <1>2, <1>3, <1>5, <2>1 DEF Live, SameLists, BlockFits
  <2>2. CASE t = s
    <3>1. /\ Live(s) /\ SameLists(s)
          /\ wk'[s].nextId + dealt'[s] = wk[s].nextId + dealt[s]
      BY <1>5, <2>2, Zenon DEF Live
    <3>2. BlockFits(s)
      BY <1>2, <3>1, Zenon
    <3>3. BlockFits(s)'
      BY <1>1, <1>3, <1>4, <3>1, <3>2, Zenon DEF BlockFits
    <3> QED BY <2>2, <3>1, <3>3, Zenon
  <2> QED BY <2>1, <2>2, Zenon
<1>6. ASSUME NEW t \in Slots, ~Live(t)'
      PROVE  wk'[t].members = <<>>
  BY <1>2, <1>6, Zenon DEF Live, SameLists
<1> QED BY <1>1, <1>2, <1>5, <1>6, FrameIds, Zenon

-----------------------------------------------------------------------------
(* Members stay ordered and inside the part of the block that is spent.    *)
LEMMA AppendOrdered ==
    ASSUME NEW M \in Seq(Nat), NEW n \in Nat, NEW b \in Nat, Len(M) + b <= n,
           \A i \in DOMAIN M : M[i] \in b..(n - 1),
           \A i, j \in DOMAIN M : i < j => M[i] < M[j]
    PROVE  /\ Len(Append(M, n)) + b <= n + 1
           /\ \A i \in DOMAIN Append(M, n) : Append(M, n)[i] \in b..(n + 1 - 1)
           /\ \A i, j \in DOMAIN Append(M, n) : i < j => Append(M, n)[i] < Append(M, n)[j]
<1> DEFINE A == Append(M, n)
<1>1. /\ Len(M) \in Nat /\ DOMAIN M = 1..Len(M) /\ DOMAIN A = 1..(Len(M) + 1) /\ Len(A) = Len(M) + 1
      /\ A[Len(M) + 1] = n /\ \A i \in 1..Len(M) : A[i] = M[i]
  OBVIOUS
<1>2. b <= n
  BY <1>1
<1> HIDE DEF A
<1>3. Len(A) + b <= n + 1
  BY <1>1
<1>4. \A i \in DOMAIN A : A[i] \in b..(n + 1 - 1)
  <2> SUFFICES ASSUME NEW i \in 1..(Len(M) + 1) PROVE A[i] \in b..(n + 1 - 1)
    BY <1>1, Zenon
  <2>1. CASE i = Len(M) + 1
    BY <1>1, <1>2, <2>1
  <2>2. CASE i \in 1..Len(M)
    <3>1. M[i] \in b..(n - 1) /\ A[i] = M[i]
      BY <1>1, <2>2, Zenon
    <3> QED BY <3>1
  <2> QED BY <1>1, <2>1, <2>2
<1>5. \A i, j \in DOMAIN A : i < j => A[i] < A[j]
  <2> SUFFICES ASSUME NEW i \in 1..(Len(M) + 1), NEW j \in 1..(Len(M) + 1), i < j PROVE A[i] < A[j]
    BY <1>1, Zenon
  <2>1. i \in 1..Len(M)
    BY <1>1
  <2>2. A[i] = M[i] /\ M[i] \in b..(n - 1)
    BY <1>1, <2>1, Zenon
  <2>3. CASE j = Len(M) + 1
    BY <1>1, <2>2, <2>3
  <2>4. CASE j \in 1..Len(M)
    <3>1. A[j] = M[j] /\ M[i] < M[j]
      BY <1>1, <2>1, <2>4, Zenon
    <3> QED BY <2>2, <3>1, Zenon
  <2>5. j = Len(M) + 1 \/ j \in 1..Len(M)
    BY SMTT(30)
  <2> QED BY <2>3, <2>4, <2>5, Zenon
<1> QED BY <1>3, <1>4, <1>5, Zenon DEF A

(* Where the messages of a queue are once one more has been appended.      *)
AppendsAt(q, m) ==
    /\ DOMAIN Append(q, m) = 1..(Len(q) + 1)
    /\ Append(q, m)[Len(q) + 1] = m
    /\ \A i \in 1..Len(q) : Append(q, m)[i] = q[i]

(* Appending a message leaves the others where they are.                   *)
LEMMA AppendAt ==
    ASSUME NEW S, NEW q \in Seq(S) PROVE Len(q) \in Nat /\ DOMAIN q = 1..Len(q) /\ \A m : AppendsAt(q, m)
<1>1. Len(q) \in Nat /\ DOMAIN q = 1..Len(q)
  OBVIOUS
<1>2. ASSUME NEW m PROVE AppendsAt(q, m)
  BY <1>1 DEF AppendsAt
<1> QED BY <1>1, <1>2, Zenon

-----------------------------------------------------------------------------
(* The server thread lists a client under the next id of the block.        *)
LEMMA ArriveIds ==
    ASSUME TypeOK, TypeOK', IdInv, UNCHANGED masterVars, NEW s \in Slots, Arrive(s)
    PROVE  IdInv'
<1> DEFINE w == wk[s]  n == wk[s].nextId  M == wk[s].members
<1>1. UNCHANGED <<room, players, roomSeq, toMaster>>
  BY Zenon DEF masterVars, Arrive
<1>2. /\ w \in Worker /\ room[s] \in Room /\ dealt[s] \in Nat /\ w.reported <= Len(w.members)
  BY Zenon DEF TypeOK, WkTypeOK, MasterTypeOK, FloorTypeOK
<1>3. /\ n \in Nat /\ M \in Seq(Nat) /\ w.reported \in Nat
      /\ room[s].base \in Nat /\ room[s].pending \in Nat /\ room[s].redirected \in Nat
  BY <1>2, Zenon DEF Worker, Room
<1>d. dealt[s] \in Nat /\ w.reported <= Len(M)
  BY <1>2, Zenon
<1>4. /\ wk'[s].members = Append(M, n) /\ wk'[s].nextId = n + 1 /\ wk'[s].reported = w.reported
      /\ wk'[s].pc = w.pc /\ dealt'[s] = dealt[s] - 1
      /\ \A t \in Slots : t # s => wk'[t] = wk[t] /\ dealt'[t] = dealt[t]
  <2>1. wk \in [Slots -> Worker] /\ dealt \in [Slots -> Nat]
    BY Zenon DEF TypeOK, WkTypeOK, FloorTypeOK
  <2> QED BY <1>2, <2>1, Zenon DEF Arrive, Worker
<1>5. \A t \in Slots : Live(t)' = Live(t) /\ Session(t)' = Session(t)
  <2>1. \A i \in 1..w.reported : Append(M, n)[i] = M[i]
    BY <1>3, <1>d
  <2>2. Session(s)' = Session(s)
    BY <1>4, <2>1, Zenon DEF Session
  <2>3. \A t \in Slots : t # s => Session(t)' = Session(t)
    BY <1>4, Zenon DEF Session
  <2>4. \A t \in Slots : Live(t)' = Live(t)
    BY <1>4, Zenon DEF Live
  <2> QED BY <2>2, <2>3, <2>4, Zenon
<1>6. Live(s)
  BY Zenon DEF Arrive, Live
<1>7. BlocksApart' /\ IdsUnique' /\ JoinsFresh' /\ RecordsKnown'
  <2>1. Used(room)' = Used(room) /\ \A t \in Slots : Block(t)' = Block(t)
    BY <1>1, Zenon DEF Used, Block
  <2> QED BY <1>1, <1>5, <2>1, SMTT(60)
          DEF IdInv, BlocksApart, IdsUnique, JoinsFresh, RecordsKnown, spawn_base, Used
<1>8. BlockSpent'
  <2>1. ASSUME NEW t \in Slots, t # s
        PROVE  /\ room'[t].redirected <= RoomSize
               /\ Live(t)' => wk'[t].nextId + dealt'[t] + room'[t].pending <= room'[t].base + room'[t].redirected
               /\ ~Live(t)' => wk'[t].members = <<>>
    BY <1>1, <1>4, <1>5, <2>1, Zenon DEF IdInv, BlockSpent
  <2>2. room[s].redirected <= RoomSize /\ n + dealt[s] + room[s].pending <= room[s].base + room[s].redirected
    BY <1>6, Zenon DEF IdInv, BlockSpent
  <2>3. wk'[s].nextId + dealt'[s] + room'[s].pending <= room'[s].base + room'[s].redirected
    <3> DEFINE d == dealt[s]
    <3>1. d \in Nat /\ wk'[s].nextId = n + 1 /\ dealt'[s] = d - 1 /\ room'[s] = room[s]
      BY <1>1, <1>4, <1>d, Zenon
    <3> HIDE DEF d, n
    <3> QED BY <1>3, <2>2, <3>1, SMTT(30) DEF d
  <2> QED BY <1>1, <1>5, <1>6, <2>1, <2>2, <2>3, Zenon DEF BlockSpent
<1>9. MembersOrdered'
  <2>1. ASSUME NEW t \in Slots, t # s, Live(t)'
        PROVE  /\ Len(wk'[t].members) + room'[t].base <= wk'[t].nextId
               /\ \A i \in DOMAIN wk'[t].members :
                    wk'[t].members[i] \in room'[t].base..(wk'[t].nextId - 1)
               /\ \A i, j \in DOMAIN wk'[t].members :
                    i < j => wk'[t].members[i] < wk'[t].members[j]
    BY <1>1, <1>4, <1>5, <2>1, Zenon DEF IdInv, MembersOrdered
  <2>2. /\ Len(M) + room[s].base <= n
        /\ \A i \in DOMAIN M : M[i] \in room[s].base..(n - 1)
        /\ \A i, j \in DOMAIN M : i < j => M[i] < M[j]
    BY <1>6, Zenon DEF IdInv, MembersOrdered
  <2> HIDE DEF M, n
  <2>3. /\ Len(Append(M, n)) + room[s].base <= n + 1
        /\ \A i \in DOMAIN Append(M, n) : Append(M, n)[i] \in room[s].base..(n + 1 - 1)
        /\ \A i, j \in DOMAIN Append(M, n) : i < j => Append(M, n)[i] < Append(M, n)[j]
    BY <1>3, <2>2, AppendOrdered, Zenon
  <2>4. /\ Len(wk'[s].members) + room'[s].base <= wk'[s].nextId
        /\ \A i \in DOMAIN wk'[s].members :
             wk'[s].members[i] \in room'[s].base..(wk'[s].nextId - 1)
        /\ \A i, j \in DOMAIN wk'[s].members :
             i < j => wk'[s].members[i] < wk'[s].members[j]
    BY <1>1, <1>4, <2>3, SMTT(60)
  <2> QED BY <2>1, <2>4, Zenon DEF MembersOrdered
<1> QED BY <1>7, <1>8, <1>9, Zenon DEF IdInv

(***************************************************************************)
(* A reported member is neither recorded nor on its way already: both only *)
(* ever hold ids the room has reported before.                             *)
(***************************************************************************)
LEMMA ReportIds ==
    ASSUME TypeOK, TypeOK', IdInv, UNCHANGED masterVars, NEW s \in Slots, ReportJoin(s, MasterEnds)
    PROVE  IdInv'
<1> DEFINE w == wk[s]  M == wk[s].members  n == wk[s].reported + 1  id == wk[s].members[n]
           q == toMaster[s]
<1>1. UNCHANGED <<room, players, roomSeq, dealt>>
  BY Zenon DEF masterVars, ReportJoin
<1>2. w \in Worker /\ room[s] \in Room /\ w.reported <= Len(w.members) /\ q \in Seq(HubMsg(WorkerTypes))
  BY Zenon DEF TypeOK, WkTypeOK, MasterTypeOK, HubTypeOK
<1>3. /\ M \in Seq(Nat) /\ w.reported \in Nat /\ w.nextId \in Nat
      /\ room[s].base \in Nat /\ room[s].pending \in Nat /\ room[s].redirected \in Nat /\ dealt[s] \in Nat
  BY <1>2, Zenon DEF Worker, Room, TypeOK, FloorTypeOK
<1>4. /\ wk'[s].members = M /\ wk'[s].nextId = w.nextId /\ wk'[s].reported = n /\ wk'[s].pc = w.pc
      /\ \A t \in Slots : t # s => wk'[t] = wk[t]
  <2>1. wk \in [Slots -> Worker]
    BY Zenon DEF TypeOK, WkTypeOK
  <2> QED BY <1>2, <2>1, Zenon DEF ReportJoin, Worker
<1>5. Live(s) /\ n \in DOMAIN M /\ n \notin 1..w.reported
  BY <1>3, SMTT(30) DEF ReportJoin, Live
<1>6. \A t \in Slots : Live(t)' = Live(t)
  BY <1>4, Zenon DEF Live
<1>7. Session(s)' = Session(s) \cup {id} /\ \A t \in Slots : t # s => Session(t)' = Session(t)
  <2>1. 1..n = 1..w.reported \cup {n}
    <3>1. \A k \in Nat : 1..(k + 1) = 1..k \cup {k + 1}
      OBVIOUS
    <3> QED BY <1>3, <3>1, Zenon
  <2>2. Session(s)' = {M[i] : i \in 1..n}
    BY <1>4, Zenon DEF Session
  <2> QED BY <1>4, <2>1, <2>2 DEF Session
<1>8. id \notin Session(s)
  <2>1. \A i, j \in DOMAIN M : i < j => M[i] < M[j]
    BY <1>5, Zenon DEF IdInv, MembersOrdered
  <2>2. \A i \in 1..w.reported : i \in DOMAIN M /\ M[i] < M[n]
    <3> DEFINE r == w.reported
    <3>1. r \in Nat /\ n = r + 1 /\ n \in DOMAIN M /\ M \in Seq(Nat)
      BY <1>3, <1>5, Zenon
    <3> HIDE DEF r, M, n
    <3>2. \A i \in 1..r : i \in DOMAIN M /\ i < n
      BY <3>1
    <3> QED BY <2>1, <3>1, <3>2, Zenon DEF r
  <2>3. M[n] \in Nat
    <3> HIDE DEF M, n
    <3> QED BY <1>3, <1>5
  <2> QED BY <2>2, <2>3 DEF Session
<1>9. id \in Block(s)
  <2>1. id \in room[s].base..(w.nextId - 1)
    BY <1>5, Zenon DEF IdInv, MembersOrdered
  <2>2. /\ room[s].redirected <= RoomSize
        /\ w.nextId + dealt[s] + room[s].pending <= room[s].base + room[s].redirected
    BY <1>5, Zenon DEF IdInv, BlockSpent
  <2>3. RoomSize \in Nat /\ MaxLobby \in Nat /\ RoomSize <= MaxLobby
    BY MasterAssumption, HubAssumption
  <2> HIDE DEF id, w
  <2> QED BY <1>3, <2>1, <2>2, <2>3, SMTT(30) DEF Block
<1>b. Used(room)' = Used(room) /\ \A t \in Slots : Block(t)' = Block(t)
  BY <1>1, Zenon DEF Used, Block
<1>10. BlocksApart' /\ IdsUnique' /\ RecordsKnown'
  BY <1>1, <1>6, <1>7, <1>b, SMTT(30)
     DEF IdInv, BlocksApart, IdsUnique, RecordsKnown, spawn_base, Used
<1>11. BlockSpent' /\ MembersOrdered'
  <2>1. \A t \in Slots : wk'[t].members = wk[t].members /\ wk'[t].nextId = wk[t].nextId
    BY <1>4, Zenon
  <2> QED BY <1>1, <1>6, <2>1, Zenon DEF IdInv, BlockSpent, MembersOrdered
<1>12. JoinsFresh'
  <2>1. ASSUME NEW t \in Used(room), t # s, NEW k \in DOMAIN toMaster'[t],
               toMaster'[t][k].type = "JOINED"
        PROVE  /\ toMaster'[t][k].id \in Block(t)
               /\ Live(t)' => toMaster'[t][k].id \in Session(t)'
               /\ \A i \in DOMAIN players : players[i].id # toMaster'[t][k].id
               /\ \A j \in DOMAIN toMaster'[t] :
                    toMaster'[t][j].type = "JOINED" /\ toMaster'[t][j].id = toMaster'[t][k].id => j = k
    <3>1. t \in Slots /\ toMaster'[t] = toMaster[t]
      BY <2>1, Zenon DEF ReportJoin, Tell, hub_send, Used
    <3> QED BY <1>6, <1>7, <2>1, <3>1 DEF IdInv, JoinsFresh
  <2>2. ASSUME s \in Used(room), NEW k \in DOMAIN toMaster'[s],
               toMaster'[s][k].type = "JOINED"
        PROVE  /\ toMaster'[s][k].id \in Block(s)
               /\ Live(s)' => toMaster'[s][k].id \in Session(s)'
               /\ \A i \in DOMAIN players : players[i].id # toMaster'[s][k].id
               /\ \A j \in DOMAIN toMaster'[s] :
                    toMaster'[s][j].type = "JOINED" /\ toMaster'[s][j].id = toMaster'[s][k].id => j = k
    <3> DEFINE r == toMaster'[s]  L == Len(q)
    <3>1. r = Append(q, Msg("JOINED", id))
      BY <2>2, Zenon DEF ReportJoin, Tell, hub_send, MasterEnds
    <3>2. /\ L \in Nat /\ DOMAIN q = 1..L /\ DOMAIN r = 1..(L + 1)
          /\ r[L + 1].id = id /\ \A i \in 1..L : r[i] = q[i]
      <4>1. Len(q) \in Nat /\ DOMAIN q = 1..Len(q) /\ \A m : AppendsAt(q, m)
        BY <1>2, AppendAt, Zenon
      <4>2. Msg("JOINED", id).id = id
        BY Zenon DEF Msg
      <4> QED BY <3>1, <4>1, <4>2, Zenon DEF AppendsAt
    <3>3. \A i \in 1..L : q[i].type = "JOINED" =>
            /\ q[i].id \in Block(s) /\ q[i].id \in Session(s)
            /\ \A j \in DOMAIN players : players[j].id # q[i].id
            /\ \A j \in 1..L : q[j].type = "JOINED" /\ q[j].id = q[i].id => j = i
      BY <1>5, <2>2, <3>2, Zenon DEF IdInv, JoinsFresh
    <3>4. \A j \in DOMAIN players : players[j].id # id
      BY <1>5, <1>8, <1>9, <2>2, Zenon DEF IdInv, RecordsKnown
    <3> HIDE DEF r, L
    <3>5. r[k].id \in Block(s) /\ r[k].id \in Session(s)'
      BY <1>7, <1>9, <2>2, <3>2, <3>3, SMTT(60) DEF r
    <3>6. \A j \in DOMAIN players : players[j].id # r[k].id
      BY <2>2, <3>2, <3>3, <3>4, SMTT(60) DEF r
    <3>7. \A j \in DOMAIN r : r[j].type = "JOINED" /\ r[j].id = r[k].id => j = k
      BY <1>8, <2>2, <3>2, <3>3, SMTT(60) DEF r
    <3> QED BY <3>5, <3>6, <3>7, Zenon DEF r
  <2> QED
    <3> SUFFICES ASSUME NEW t \in Used(room)', NEW k \in DOMAIN toMaster'[t],
                        toMaster'[t][k].type = "JOINED"
                 PROVE  /\ toMaster'[t][k].id \in Block(t)'
                        /\ Live(t)' => toMaster'[t][k].id \in Session(t)'
                        /\ \A i \in DOMAIN players' : players'[i].id # toMaster'[t][k].id
                        /\ \A j \in DOMAIN toMaster'[t] :
                             toMaster'[t][j].type = "JOINED" /\ toMaster'[t][j].id = toMaster'[t][k].id => j = k
      BY Zenon DEF JoinsFresh
    <3>1. t \in Used(room) /\ t \in Slots /\ Block(t)' = Block(t) /\ players' = players
      BY <1>1, <1>b, Zenon DEF Used
    <3>2. CASE t = s
      BY <2>2, <3>1, <3>2, SMTT(30)
    <3>3. CASE t # s
      BY <2>1, <3>1, <3>3, SMTT(30)
    <3> QED BY <3>2, <3>3, Zenon
<1> QED BY <1>10, <1>11, <1>12, Zenon DEF IdInv

(* What a worker does, and what happens to it, keeps the invariant.        *)
LEMMA WorkerIds ==
    ASSUME TypeOK, TypeOK', IdInv, NEW s \in Slots, WorkerStep(s) \/ WorkerEvent(s)
    PROVE  IdInv'
<1>0. /\ wk \in [Slots -> Worker] /\ dealt \in [Slots -> Nat]
      /\ toMaster \in [Slots -> Seq(HubMsg(WorkerTypes))] /\ UNCHANGED masterVars
  BY Zenon DEF TypeOK, WkTypeOK, FloorTypeOK, HubTypeOK, WorkerStep, WorkerEvent
<1>n. wk[s].nextId \in Nat /\ wk[s].members \in Seq(Nat) /\ wk[s].reported \in Nat
  BY <1>0, Zenon DEF Worker
<1>x. ASSUME Exit(s), UNCHANGED dealt
      PROVE  IdInv'
  <2>1. /\ wk'[s].pc = "exited" /\ wk'[s].members = <<>>
        /\ \A t \in Slots : t # s => wk'[t] = wk[t]
    BY <1>0, <1>x, Zenon DEF Exit, Process
  <2>2. JoinsShift(toMaster, toMaster')
    BY <1>0, <1>x, SameJoins, Zenon DEF Exit
  <2> QED BY <1>0, <1>x, <2>1, <2>2, WorkerFrame, Zenon
<1>q. ASSUME UNCHANGED dealt, Live(s), Live(s)', \A t \in Slots : t # s => wk'[t] = wk[t],
             wk'[s].members = wk[s].members, wk'[s].reported = wk[s].reported,
             wk'[s].nextId = wk[s].nextId, JoinsShift(toMaster, toMaster')
      PROVE  IdInv'
  <2>1. SameLists(s) /\ wk'[s].nextId + dealt'[s] = wk[s].nextId + dealt[s]
    BY <1>n, <1>q DEF SameLists
  <2> QED BY <1>0, <1>q, <2>1, WorkerFrame, Zenon
<1>j. UNCHANGED toMaster => JoinsShift(toMaster, toMaster')
  BY <1>0, SameJoins, Zenon
<1>1. CASE Boot(s, MasterEnds)
  <2>1. JoinsShift(toMaster, toMaster')
    BY <1>0, <1>1, SendJoins, Zenon DEF Boot, Tell, Msg
  <2> QED BY <1>0, <1>1, <1>q, <2>1, Zenon DEF Boot, Worker, Live
<1>2. CASE ReportJoin(s, MasterEnds)
  BY <1>0, <1>2, ReportIds, Zenon
<1>3. CASE LobbyRecv(s)
  <2>1. /\ wk'[s].members = wk[s].members /\ wk'[s].reported = wk[s].reported
        /\ wk'[s].nextId = wk[s].nextId /\ wk'[s].pc = wk[s].pc
        /\ \A t \in Slots : t # s => wk'[t] = wk[t]
    BY <1>0, <1>3, Zenon DEF LobbyRecv, LobbyTake, Worker
  <2>2. Live(s) /\ Live(s)' /\ UNCHANGED <<toMaster, dealt>>
    BY <1>3, <2>1, Zenon DEF LobbyRecv, Live
  <2> QED BY <1>j, <1>q, <2>1, <2>2, Zenon
<1>4. CASE \E graceOver \in BOOLEAN : LobbyStart(s, graceOver)
  <2>1. \/ Exit(s)
        \/ wk' = [wk EXCEPT ![s].pc = "play"] /\ UNCHANGED hubVars
    BY <1>4, Zenon DEF LobbyStart
  <2>2. UNCHANGED dealt /\ Live(s)
    BY <1>4, Zenon DEF LobbyStart, Live
  <2>3. ASSUME wk' = [wk EXCEPT ![s].pc = "play"], UNCHANGED hubVars
        PROVE  IdInv'
    <3>1. /\ wk'[s].members = wk[s].members /\ wk'[s].reported = wk[s].reported
          /\ wk'[s].nextId = wk[s].nextId /\ wk'[s].pc = "play"
          /\ \A t \in Slots : t # s => wk'[t] = wk[t]
      BY <1>0, <2>3 DEF Worker
    <3>2. Live(s)' /\ UNCHANGED toMaster
      BY <2>3, <3>1, Zenon DEF Live, hubVars
    <3> QED BY <1>j, <1>q, <2>2, <3>1, <3>2, Zenon
  <2> QED BY <1>x, <2>1, <2>2, <2>3, Zenon
<1>5. CASE MasterGone(s, MasterEnds)
  <2>1. \/ Exit(s)
        \/ wk' = [wk EXCEPT ![s].pc = "over", ![s].over = TRUE] /\ UNCHANGED hubVars
    BY <1>5, Zenon DEF MasterGone
  <2>2. UNCHANGED dealt /\ Live(s)
    BY <1>5, Zenon DEF MasterGone, HungUp, Live
  <2>3. ASSUME wk' = [wk EXCEPT ![s].pc = "over", ![s].over = TRUE], UNCHANGED hubVars
        PROVE  IdInv'
    <3>1. /\ wk'[s].members = wk[s].members /\ wk'[s].reported = wk[s].reported
          /\ wk'[s].nextId = wk[s].nextId /\ wk'[s].pc = "over"
          /\ \A t \in Slots : t # s => wk'[t] = wk[t]
      BY <1>0, <2>3 DEF Worker
    <3>2. Live(s)' /\ UNCHANGED toMaster
      BY <2>3, <3>1, Zenon DEF Live, hubVars
    <3> QED BY <1>j, <1>q, <2>2, <3>1, <3>2, Zenon
  <2> QED BY <1>x, <2>1, <2>2, <2>3, Zenon
<1>6. CASE PlayRecv(s)
  <2>1. /\ wk'[s].members = wk[s].members /\ wk'[s].reported = wk[s].reported
        /\ wk'[s].nextId = wk[s].nextId /\ wk'[s].pc = wk[s].pc
        /\ \A t \in Slots : t # s => wk'[t] = wk[t]
    BY <1>0, <1>6, Zenon DEF PlayRecv, PlayTake, Worker
  <2>2. Live(s) /\ Live(s)' /\ UNCHANGED <<toMaster, dealt>>
    BY <1>6, <2>1, Zenon DEF PlayRecv, Live
  <2> QED BY <1>j, <1>q, <2>1, <2>2, Zenon
<1>7. CASE ReportElim(s, MasterEnds)
  <2>1. PICK p : /\ wk' = [wk EXCEPT ![s].told = @ \cup {p}]
                 /\ Tell(s, MasterEnds, Msg("ELIMINATED", p))
    BY <1>7, Zenon DEF ReportElim
  <2>2. JoinsShift(toMaster, toMaster')
    BY <1>0, <2>1, SendJoins, Zenon DEF Tell, Msg
  <2>3. /\ wk'[s].members = wk[s].members /\ wk'[s].reported = wk[s].reported
        /\ wk'[s].nextId = wk[s].nextId /\ wk'[s].pc = wk[s].pc
        /\ \A t \in Slots : t # s => wk'[t] = wk[t]
    BY <1>0, <2>1 DEF Worker
  <2>4. Live(s) /\ Live(s)' /\ UNCHANGED dealt
    BY <1>7, <2>3, Zenon DEF ReportElim, Live
  <2> QED BY <1>q, <2>2, <2>3, <2>4, Zenon
<1>8. CASE Route(s, MasterEnds)
  <2>1. PICK g, v : LET a == [attacker |-> g.who, victim |-> v, lines |-> g.lines] IN
          /\ wk' = [wk EXCEPT ![s].garbage = @ \ {g}]
          /\ \/ Tell(s, MasterEnds, AttackMsg("FEED", a))
             \/ toMaster' = hub_send(hub_send(toMaster, {s} \cap MasterEnds, AttackMsg("ATTACK", a)),
                                     {s} \cap MasterEnds, AttackMsg("FEED", a))
             \/ UNCHANGED toMaster
    BY <1>8, Zenon DEF Route
  <2> DEFINE a == [attacker |-> g.who, victim |-> v, lines |-> g.lines]
             q == hub_send(toMaster, {s} \cap MasterEnds, AttackMsg("ATTACK", a))
  <2>2. JoinsShift(toMaster, toMaster')
    <3>1. CASE Tell(s, MasterEnds, AttackMsg("FEED", a))
      BY <1>0, <3>1, SendJoins, Zenon DEF Tell, AttackMsg
    <3>2. CASE toMaster' = hub_send(q, {s} \cap MasterEnds, AttackMsg("FEED", a))
      BY <1>0, <3>2, SendTwoJoins, Zenon DEF AttackMsg
    <3> QED BY <1>j, <2>1, <3>1, <3>2, Zenon
  <2>3. /\ wk'[s].members = wk[s].members /\ wk'[s].reported = wk[s].reported
        /\ wk'[s].nextId = wk[s].nextId /\ wk'[s].pc = wk[s].pc
        /\ \A t \in Slots : t # s => wk'[t] = wk[t]
    BY <1>0, <2>1 DEF Worker
  <2>4. Live(s) /\ Live(s)' /\ UNCHANGED dealt
    BY <1>8, <2>3, Zenon DEF Route, Live
  <2> QED BY <1>q, <2>2, <2>3, <2>4, Zenon
<1>9. CASE RoomOver(s)
  BY <1>0, <1>9, <1>j, <1>q DEF RoomOver, Worker, Live, hubVars
<1>10. CASE RoomExit(s)
  BY <1>10, <1>x, Zenon DEF RoomExit
<1>11. CASE Arrive(s)
  BY <1>0, <1>11, ArriveIds, Zenon
<1>12. CASE ArriveFails(s)
  <2>1. /\ wk' = [wk EXCEPT ![s].nextId = @ + 1] /\ dealt' = [dealt EXCEPT ![s] = @ - 1]
        /\ UNCHANGED toMaster /\ Live(s)
    BY <1>12, Zenon DEF ArriveFails, Live
  <2>2. /\ wk'[s].pc = wk[s].pc /\ SameLists(s) /\ wk'[s].nextId = wk[s].nextId + 1
        /\ dealt'[s] = dealt[s] - 1
        /\ \A t \in Slots : t # s => wk'[t] = wk[t] /\ dealt'[t] = dealt[t]
    BY <1>0, <1>n, <2>1 DEF Worker, SameLists
  <2>3. Live(s)'
    BY <2>1, <2>2, Zenon DEF Live
  <2>4. wk'[s].nextId + dealt'[s] = wk[s].nextId + dealt[s]
    <3> DEFINE d == dealt[s]  n == wk[s].nextId
    <3>1. d \in Nat /\ n \in Nat /\ wk'[s].nextId = n + 1 /\ dealt'[s] = d - 1
      BY <1>0, <1>n, <2>2, Zenon
    <3> HIDE DEF d, n
    <3>2. (n + 1) + (d - 1) = n + d
      BY <3>1
    <3> QED BY <3>1, <3>2, Zenon DEF d, n
  <2> QED BY <1>0, <1>j, <2>1, <2>2, <2>3, <2>4, WorkerFrame
<1>13. CASE Crash(s)
  BY <1>13, <1>x, Zenon DEF Crash
<1>14. ASSUME NEW p \in Session(s), Quit(s, p)
       PROVE  IdInv'
  BY <1>0, <1>14, <1>j, <1>q DEF Quit, Playing, Worker, Live, hubVars
<1>15. ASSUME NEW p \in Session(s), TopOut(s, p)
       PROVE  IdInv'
  BY <1>0, <1>15, <1>j, <1>q DEF TopOut, Playing, Worker, Live, hubVars
<1>16. ASSUME NEW p \in Session(s), NEW toppedOut \in BOOLEAN, ClearLines(s, p, toppedOut)
       PROVE  IdInv'
  <2>1. PICK G, O : wk' = [wk EXCEPT ![s].garbage = G, ![s].out = O]
    BY <1>16, Zenon DEF ClearLines
  <2>2. UNCHANGED <<toMaster, dealt>> /\ Live(s)
    BY <1>16, Zenon DEF ClearLines, Playing, Live, hubVars
  <2> QED BY <1>0, <1>j, <1>q, <2>1, <2>2 DEF Worker, Live
<1> QED BY <1>1, <1>2, <1>3, <1>4, <1>5, <1>6, <1>7, <1>8, <1>9, <1>10, <1>11, <1>12, <1>13,
           <1>14, <1>15, <1>16 DEF WorkerStep, WorkerEvent

-----------------------------------------------------------------------------
(* A step of the master that forks and records nobody.                     *)
LEMMA MasterFrame ==
    ASSUME TypeOK, TypeOK', IdInv, UNCHANGED <<wk, roomSeq>>,
           \A s \in Slots : /\ room'[s].used => room[s].used
                            /\ room'[s].base = room[s].base
                            /\ room'[s].redirected <= RoomSize
                            /\ dealt'[s] + room'[s].pending + room[s].redirected
                                 <= dealt[s] + room[s].pending + room'[s].redirected,
           DOMAIN players' = DOMAIN players,
           \A i \in DOMAIN players : players'[i].id = players[i].id,
           JoinsShift(toMaster, toMaster')
    PROVE  IdInv'
<1>1. \A s \in Slots : wk[s].nextId \in Nat
  BY Zenon DEF TypeOK, WkTypeOK, Worker
<1>2. \A s \in Slots :
        /\ room[s].pending \in Nat /\ room[s].base \in Nat /\ room[s].redirected \in Nat
        /\ room'[s].pending \in Nat /\ room'[s].base \in Nat /\ room'[s].redirected \in Nat
        /\ dealt[s] \in Nat /\ dealt'[s] \in Nat
  BY Zenon DEF TypeOK, MasterTypeOK, FloorTypeOK, Room
<1>3. \A s \in Slots : /\ Live(s)' = Live(s) /\ SameLists(s)
                       /\ ~Live(s) => wk'[s].members = <<>>
                       /\ Live(s) => BlockFits(s)
  BY <1>1 DEF Live, SameLists, IdInv, BlockSpent, BlockFits
<1>4. \A s \in Slots : Live(s) => BlockFits(s)'
  <2> SUFFICES ASSUME NEW s \in Slots, Live(s)
               PROVE  wk'[s].nextId + dealt'[s] + room'[s].pending <= room'[s].base + room'[s].redirected
    BY Zenon DEF BlockFits
  <2> DEFINE n == wk[s].nextId  d == dealt[s]  e == dealt'[s]  b == room[s].base
             p == room[s].pending  q == room'[s].pending  r == room[s].redirected  t == room'[s].redirected
  <2>1. n + d + p <= b + r
    BY <1>3, Zenon DEF BlockFits
  <2>2. e + q + r <= d + p + t /\ wk'[s].nextId = n /\ room'[s].base = b
    BY Zenon
  <2>3. n \in Nat /\ d \in Nat /\ e \in Nat /\ b \in Nat /\ p \in Nat /\ q \in Nat /\ r \in Nat /\ t \in Nat
    BY <1>1, <1>2, Zenon
  <2> HIDE DEF n, d, e, b, p, q, r, t
  <2>4. n + e + q <= b + t
    BY <2>1, <2>2, <2>3
  <2> QED BY <2>2, <2>4, Zenon DEF n, e, b, q, t
<1> QED BY <1>3, <1>4, FrameIds, Zenon

(* close_room frees a slot and drops what its hub still held.              *)
LEMMA CloseIds ==
    ASSUME TypeOK, TypeOK', IdInv, UNCHANGED <<wk, roomSeq, dealt>>, NEW s \in Slots, close_room(s)
    PROVE  IdInv'
<1>1. /\ room \in [Slots -> Room] /\ players \in Seq(PlayerRec)
      /\ toMaster \in [Slots -> Seq(HubMsg(WorkerTypes))] /\ dealt \in [Slots -> Nat]
  BY Zenon DEF TypeOK, MasterTypeOK, HubTypeOK, FloorTypeOK
<1>2. /\ room' = [room EXCEPT ![s].used = FALSE]
      /\ players' = players \/ players' = Bury(players, Occupants(s))
      /\ toMaster' = [toMaster EXCEPT ![s] = <<>>]
  BY Zenon DEF close_room
<1>3. \A t \in Slots : /\ room'[t].used => room[t].used
                       /\ room'[t].base = room[t].base /\ room'[t].redirected = room[t].redirected
                       /\ room'[t].pending = room[t].pending
  BY <1>1, <1>2 DEF Room
<1>4. \A t \in Slots : /\ room[t].redirected <= RoomSize
                       /\ dealt[t] \in Nat /\ room[t].pending \in Nat /\ room[t].redirected \in Nat
  BY <1>1, Zenon DEF IdInv, BlockSpent, Room
<1>5. DOMAIN players' = DOMAIN players /\ \A i \in DOMAIN players : players'[i].id = players[i].id
  BY <1>1, <1>2, BuryIds
<1>6. JoinsShift(toMaster, toMaster')
  BY <1>1, <1>2, TakeJoins, Zenon
<1>7. \A t \in Slots : dealt'[t] + room'[t].pending + room[t].redirected
                         <= dealt[t] + room[t].pending + room'[t].redirected
  BY <1>3, <1>4
<1> QED BY <1>3, <1>4, <1>5, <1>6, <1>7, MasterFrame, Zenon

(* A new worker's block lies above every block and every recorded id.      *)
LEMMA SpawnIds ==
    ASSUME TypeOK, TypeOK', IdInv, StaleClients = FALSE, SpawnRoom
    PROVE  IdInv'
<1> DEFINE b == spawn_base
<1>0. /\ room \in [Slots -> Room] /\ wk \in [Slots -> Worker] /\ dealt \in [Slots -> Nat]
      /\ toMaster \in [Slots -> Seq(HubMsg(WorkerTypes))]
  BY Zenon DEF TypeOK, MasterTypeOK, WkTypeOK, FloorTypeOK, HubTypeOK
<1>1. PICK s \in Slots \ Used(room) :
        /\ room' = Deal([room EXCEPT ![s] = FreshRoom(b)], s)
        /\ wk' = [wk EXCEPT ![s] = Process("boot", b)]
        /\ toMaster' = [toMaster EXCEPT ![s] = <<>>]
        /\ dealt' = [dealt EXCEPT ![s] = 0]
  BY Zenon DEF SpawnRoom, First
<1>2. UNCHANGED players /\ roomSeq' = roomSeq + 1
  BY Zenon DEF SpawnRoom
<1>3. b \in Nat /\ b' = b + MaxLobby /\ MaxLobby \in Nat
  <2>1. roomSeq \in Nat /\ MaxLobby \in Nat
    BY HubAssumption, MasterAssumption DEF TypeOK, MasterTypeOK
  <2>2. \A k, m \in Nat : 1 + k * m \in Nat /\ 1 + (k + 1) * m = (1 + k * m) + m
    OBVIOUS
  <2> QED BY <1>2, <2>1, <2>2, Zenon DEF spawn_base
<1> HIDE DEF b
<1>4. /\ room'[s].used /\ room'[s].base = b /\ room'[s].redirected = 1 /\ room'[s].pending = 1
      /\ \A t \in Slots : t # s => room'[t] = room[t]
  <2> DEFINE f == FreshRoom(b)
             rm == [room EXCEPT ![s] = f]
             r == [f EXCEPT !.redirected = 1, !.pending = 1]
  <2>1. f \in Room
    BY <1>3, Zenon DEF FreshRoom, Room
  <2>2. f.redirected = 0 /\ f.pending = 0 /\ f.ready = FALSE /\ f.used /\ f.base = b
    BY Zenon DEF FreshRoom
  <2> HIDE DEF f
  <2>3. rm \in [Slots -> Room] /\ rm[s] = f /\ \A t \in Slots : t # s => rm[t] = room[t]
    BY <1>0, <2>1, Zenon
  <2>4. r.used /\ r.base = b /\ r.redirected = 1 /\ r.pending = 1
    BY <2>1, <2>2, Zenon DEF Room
  <2> HIDE DEF rm
  <2>5. Deal(rm, s) = [rm EXCEPT ![s] = [rm[s] EXCEPT !.redirected = rm[s].redirected + 1,
                                                      !.pending = rm[s].pending + 1]]
    BY <2>2, <2>3, Zenon DEF Deal, Bound, Room
  <2>6. Deal(rm, s) = [rm EXCEPT ![s] = r]
    BY <2>2, <2>3, <2>5
  <2>7. room' = Deal(rm, s)
    BY <1>1, Zenon DEF rm, f
  <2> HIDE DEF r
  <2> QED BY <2>3, <2>4, <2>6, <2>7, Zenon
<1>5. /\ wk'[s].pc = "boot" /\ wk'[s].members = <<>> /\ wk'[s].nextId = b /\ dealt'[s] = 0
      /\ \A t \in Slots : t # s => wk'[t] = wk[t] /\ dealt'[t] = dealt[t] /\ toMaster'[t] = toMaster[t]
      /\ toMaster'[s] = <<>>
  BY <1>0, <1>1, Zenon DEF Process
<1>6. /\ \A t \in Slots : t # s => Live(t)' = Live(t) /\ Session(t)' = Session(t) /\ Block(t)' = Block(t)
      /\ Live(s)' /\ Block(s)' = b..(b + MaxLobby - 1)
      /\ Used(room)' = Used(room) \cup {s}
  <2>1. \A t \in Slots : t # s => Live(t)' = Live(t) /\ Session(t)' = Session(t) /\ Block(t)' = Block(t)
    <3> SUFFICES ASSUME NEW t \in Slots, t # s
                 PROVE  Live(t)' = Live(t) /\ Session(t)' = Session(t) /\ Block(t)' = Block(t)
      BY Zenon
    <3>1. wk'[t] = wk[t] /\ room'[t] = room[t]
      BY <1>4, <1>5, Zenon
    <3>2. Live(t)' = Live(t)
      BY <3>1, Zenon DEF Live
    <3>3. Session(t)' = Session(t) /\ Block(t)' = Block(t)
      BY <3>1, Zenon DEF Session, Block
    <3> QED  BY <3>2, <3>3, Zenon
  <2>2. Live(s)' /\ Block(s)' = b..(b + MaxLobby - 1)
    BY <1>4, <1>5, Zenon DEF Live, Block
  <2>3. Used(room)' = Used(room) \cup {s}
    <3>1. \A t \in Slots : room'[t].used <=> room[t].used \/ t = s
      BY <1>4, Zenon
    <3> QED  BY <3>1, Zenon DEF Used
  <2> QED  BY <2>1, <2>2, <2>3, Zenon
<1>7. \A t \in Used(room) : /\ t \in Slots /\ t # s
                            /\ room[t].base \in Nat /\ room[t].base + MaxLobby <= b
  BY <1>0, <1>1, Zenon DEF Used, Room, IdInv, BlocksApart, b
<1>8. BlocksApart'
  <2>1. \A t \in Used(room)' : room'[t].base + MaxLobby <= b + MaxLobby
    BY <1>3, <1>4, <1>6, <1>7
  <2>2. \A t \in Used(room) : Block(t)' \cap Block(s)' = {}
    <3> SUFFICES ASSUME NEW t \in Used(room), NEW x \in Block(t)', x \in Block(s)' PROVE FALSE
      BY Zenon
    <3>1. x \in room[t].base..(room[t].base + MaxLobby - 1) /\ x \in b..(b + MaxLobby - 1)
      BY <1>6, <1>7, Zenon DEF Block
    <3> QED BY <1>3, <1>7, <3>1
  <2>3. \A t, u \in Used(room) : t # u => Block(t)' \cap Block(u)' = {}
    BY <1>6, <1>7, Zenon DEF IdInv, BlocksApart
  <2>4. \A t, u \in Used(room)' : t # u => Block(t)' \cap Block(u)' = {}
    BY <1>6, <2>2, <2>3, Zenon
  <2> QED BY <1>3, <2>1, <2>4, Zenon DEF BlocksApart, b
<1>9. BlockSpent'
  <2>1. room'[s].redirected <= RoomSize
    BY <1>4, MasterAssumption
  <2>2. wk'[s].nextId + dealt'[s] + room'[s].pending <= room'[s].base + room'[s].redirected
    BY <1>3, <1>4, <1>5
  <2>3. \A t \in Slots : t # s =>
          /\ room'[t].redirected <= RoomSize
          /\ Live(t)' => wk'[t].nextId + dealt'[t] + room'[t].pending <= room'[t].base + room'[t].redirected
          /\ ~Live(t)' => wk'[t].members = <<>>
    BY <1>4, <1>5, <1>6 DEF IdInv, BlockSpent
  <2> QED BY <1>6, <2>1, <2>2, <2>3, Zenon DEF BlockSpent
<1>10. MembersOrdered'
  <2>0. Len(<<>>) = 0 /\ DOMAIN <<>> = {}
    OBVIOUS
  <2>1. Len(wk'[s].members) + room'[s].base <= wk'[s].nextId /\ DOMAIN wk'[s].members = {}
    <3>1. Len(wk'[s].members) = 0 /\ DOMAIN wk'[s].members = {} /\ room'[s].base = b /\ wk'[s].nextId = b
      BY <1>4, <1>5, <2>0, Zenon
    <3> QED  BY <1>3, <3>1
  <2>2. \A t \in Slots : t # s /\ Live(t)' =>
          /\ Len(wk'[t].members) + room'[t].base <= wk'[t].nextId
          /\ \A i \in DOMAIN wk'[t].members : wk'[t].members[i] \in room'[t].base..(wk'[t].nextId - 1)
          /\ \A i, j \in DOMAIN wk'[t].members : i < j => wk'[t].members[i] < wk'[t].members[j]
    BY <1>4, <1>5, <1>6, Zenon DEF IdInv, MembersOrdered
  <2> QED BY <2>1, <2>2, Zenon DEF MembersOrdered
<1>11. JoinsFresh'
  <2> SUFFICES ASSUME NEW t \in Used(room)', NEW k \in DOMAIN toMaster'[t],
                      toMaster'[t][k].type = "JOINED"
               PROVE  /\ toMaster'[t][k].id \in Block(t)'
                      /\ Live(t)' => toMaster'[t][k].id \in Session(t)'
                      /\ \A i \in DOMAIN players' : players'[i].id # toMaster'[t][k].id
                      /\ \A j \in DOMAIN toMaster'[t] :
                           toMaster'[t][j].type = "JOINED" /\ toMaster'[t][j].id = toMaster'[t][k].id => j = k
    BY Zenon DEF JoinsFresh
  <2>1. t # s /\ t \in Used(room) /\ t \in Slots
    <3>1. DOMAIN <<>> = {}
      OBVIOUS
    <3>2. t # s
      BY <1>5, <3>1, Zenon
    <3> QED  BY <1>6, <1>7, <3>2, Zenon
  <2> QED BY <1>2, <1>5, <1>6, <2>1 DEF IdInv, JoinsFresh
<1>12. RecordsKnown'
  <2>1. \A i \in DOMAIN players : players[i].id \in Nat /\ players[i].id < b
    <3>1. \A i \in DOMAIN players : players[i] \in PlayerRec
      BY DEF TypeOK, MasterTypeOK
    <3> QED BY <3>1, Zenon DEF PlayerRec, IdInv, RecordsKnown, b
  <2>2. \A i \in DOMAIN players' : players'[i].id < spawn_base'
    BY <1>2, <1>3, <2>1 DEF b
  <2>3. \A i \in DOMAIN players' : players'[i].id \notin Block(s)'
    BY <1>2, <1>3, <1>6, <2>1
  <2>4. \A i \in DOMAIN players' : \A t \in Used(room) :
          Live(t)' /\ players'[i].id \in Block(t)' => players'[i].id \in Session(t)'
    BY <1>2, <1>6, <1>7 DEF IdInv, RecordsKnown
  <2> QED BY <1>6, <2>2, <2>3, <2>4, Zenon DEF RecordsKnown
<1>13. IdsUnique'
  BY <1>2 DEF IdInv, IdsUnique
<1> QED BY <1>8, <1>9, <1>10, <1>11, <1>12, <1>13 DEF IdInv

(***************************************************************************)
(* The id of a JOINED message is new to the table, and the room that sent  *)
(* it lists it.                                                            *)
(***************************************************************************)
LEMMA JoinedIds ==
    ASSUME TypeOK, TypeOK', IdInv, NEW s \in Slots, HandleJoined(s)
    PROVE  IdInv'
<1> DEFINE m == toMaster[s][1]
           rec == [id |-> m.id, room |-> s, alive |-> TRUE]
<1>0. /\ room \in [Slots -> Room] /\ players \in Seq(PlayerRec) /\ dealt \in [Slots -> Nat]
      /\ toMaster \in [Slots -> Seq(HubMsg(WorkerTypes))]
  BY Zenon DEF TypeOK, MasterTypeOK, FloorTypeOK, HubTypeOK
<1>1. /\ UNCHANGED <<wk, dealt, roomSeq>> /\ s \in Used(room) /\ toMaster[s] # <<>>
      /\ toMaster' = [toMaster EXCEPT ![s] = Tail(@)]
      /\ Head(toMaster[s]).type = "JOINED"
  BY Zenon DEF HandleJoined, Heard, workerVars, Used
<1>2. m.type = "JOINED" /\ m = Head(toMaster[s]) /\ 1 \in DOMAIN toMaster[s]
  BY <1>0, <1>1
<1>3. players' = players \/ players' = Append(players, rec)
  BY <1>2, Zenon DEF HandleJoined
<1>4. \A t \in Slots : /\ room'[t].used = room[t].used /\ room'[t].base = room[t].base
                       /\ room'[t].redirected = room[t].redirected
                       /\ room'[t].pending = room[t].pending
  <2> DEFINE rm == [room EXCEPT ![s].joined = @ + 1]
  <2>1. room' = rm \/ room' = Started(rm)
    BY Zenon DEF HandleJoined
  <2>2. rm \in [Slots -> Room] /\ \A t \in Slots :
          /\ rm[t].used = room[t].used /\ rm[t].base = room[t].base
          /\ rm[t].redirected = room[t].redirected /\ rm[t].pending = room[t].pending
    <3> DEFINE n == room[s].joined + 1
    <3>1. room[s] \in Room /\ n \in Nat
      BY <1>0 DEF Room
    <3>2. rm = [room EXCEPT ![s] = [room[s] EXCEPT !.joined = n]]
      BY Zenon
    <3> HIDE DEF n, rm
    <3> QED BY <1>0, <3>1, <3>2, Zenon DEF Room
  <2> HIDE DEF rm
  <2>3. \A t \in Slots :
          /\ Started(rm)[t].used = rm[t].used /\ Started(rm)[t].base = rm[t].base
          /\ Started(rm)[t].redirected = rm[t].redirected /\ Started(rm)[t].pending = rm[t].pending
    BY <2>2 DEF Started, Room
  <2> QED BY <2>1, <2>2, <2>3
<1>5. /\ m.id \in Block(s)
      /\ Live(s) => m.id \in Session(s)
      /\ \A i \in DOMAIN players : players[i].id # m.id
      /\ \A k \in DOMAIN toMaster[s] : toMaster[s][k].type = "JOINED" /\ toMaster[s][k].id = m.id => k = 1
  BY <1>1, <1>2, Zenon DEF IdInv, JoinsFresh
<1>6. JoinsShift(toMaster, toMaster')
  BY <1>0, <1>1, TakeJoins, Zenon
<1>7. CASE players' = players
  <2>1. \A t \in Slots : room[t].redirected <= RoomSize
    BY Zenon DEF IdInv, BlockSpent
  <2>2. \A t \in Slots : dealt[t] \in Nat /\ room[t].pending \in Nat /\ room[t].redirected \in Nat
    BY <1>0, Zenon DEF Room
  <2>3. \A t \in Slots : dealt'[t] + room'[t].pending + room[t].redirected
                         <= dealt[t] + room[t].pending + room'[t].redirected
    BY <1>1, <1>4, <2>2
  <2> QED BY <1>1, <1>4, <1>6, <1>7, <2>1, <2>3, MasterFrame
<1>8. CASE players' = Append(players, rec)
  <2> DEFINE L == Len(players)
  <2>1. /\ L \in Nat /\ DOMAIN players = 1..L /\ DOMAIN players' = 1..(L + 1)
        /\ players'[L + 1] = rec /\ \A i \in 1..L : players'[i] = players[i]
    BY <1>0, <1>8
  <2>2. /\ \A i \in 1..L : players'[i].id = players[i].id
        /\ players'[L + 1].id = m.id
    BY <2>1
  <2> HIDE DEF L, rec, m
  <2>3. \A i \in DOMAIN players' : i = L + 1 \/ i \in 1..L
    BY <2>1
  <2>4. /\ Used(room)' = Used(room) /\ spawn_base' = spawn_base
        /\ \A t \in Slots : Block(t)' = Block(t) /\ Live(t)' = Live(t) /\ Session(t)' = Session(t)
    BY <1>1, <1>4 DEF Used, spawn_base, Block, Live, Session
  <2>5. BlocksApart' /\ BlockSpent' /\ MembersOrdered'
    <3>1. BlocksApart'
      BY <1>4, <2>4, Zenon DEF IdInv, BlocksApart, Used
    <3>2. BlockSpent'
      BY <1>1, <1>4, <2>4, Zenon DEF IdInv, BlockSpent
    <3>3. MembersOrdered'
      BY <1>1, <1>4, <2>4, Zenon DEF IdInv, MembersOrdered
    <3> QED BY <3>1, <3>2, <3>3, Zenon
  <2>6. IdsUnique'
    BY <1>5, <2>1, <2>2, <2>3 DEF IdInv, IdsUnique
  <2>7. \A t \in Used(room) : t # s => m.id \notin Block(t)
    BY <1>1, <1>5, Zenon DEF IdInv, BlocksApart
  <2>8. RecordsKnown'
    <3>1. m.id < spawn_base
      <4>1. room[s].base + MaxLobby <= spawn_base /\ m.id \in room[s].base..(room[s].base + MaxLobby - 1)
        BY <1>1, <1>5, Zenon DEF IdInv, BlocksApart, Block
      <4>2. room[s].base \in Nat /\ MaxLobby \in Nat
        BY <1>0, HubAssumption, Zenon DEF Room
      <4>3. spawn_base \in Nat
        <5>1. roomSeq \in Nat
          BY MasterAssumption DEF TypeOK, MasterTypeOK
        <5>2. \A k, n \in Nat : 1 + k * n \in Nat
          OBVIOUS
        <5> QED BY <4>2, <5>1, <5>2, Zenon DEF spawn_base
      <4> HIDE DEF spawn_base
      <4> QED BY <4>1, <4>2, <4>3
    <3>2. \A t \in Used(room) : Live(t) /\ m.id \in Block(t) => m.id \in Session(t)
      BY <1>5, <2>7, Zenon
    <3>3. \A i \in 1..L : /\ players[i].id < spawn_base
                          /\ \A t \in Used(room) : Live(t) /\ players[i].id \in Block(t)
                                                     => players[i].id \in Session(t)
      BY <2>1, Zenon DEF IdInv, RecordsKnown
    <3>4. \A t \in Used(room) : t \in Slots
      BY Zenon DEF Used
    <3>5. \A i \in DOMAIN players' :
            /\ players'[i].id < spawn_base
            /\ \A t \in Used(room) : Live(t) /\ players'[i].id \in Block(t) => players'[i].id \in Session(t)
      BY <2>2, <2>3, <3>1, <3>2, <3>3
    <3> QED BY <2>4, <3>4, <3>5, Zenon DEF RecordsKnown
  <2>9. JoinsFresh'
    <3> SUFFICES ASSUME NEW t \in Used(room)', NEW k \in DOMAIN toMaster'[t],
                        toMaster'[t][k].type = "JOINED"
                 PROVE  /\ toMaster'[t][k].id \in Block(t)'
                        /\ Live(t)' => toMaster'[t][k].id \in Session(t)'
                        /\ \A i \in DOMAIN players' : players'[i].id # toMaster'[t][k].id
                        /\ \A j \in DOMAIN toMaster'[t] :
                             toMaster'[t][j].type = "JOINED" /\ toMaster'[t][j].id = toMaster'[t][k].id => j = k
      BY Zenon DEF JoinsFresh
    <3> DEFINE d == IF t = s THEN 1 ELSE 0
               q == toMaster[t]
    <3>1. t \in Used(room) /\ t \in Slots /\ q \in Seq(HubMsg(WorkerTypes))
      BY <1>0, <2>4, Zenon DEF Used
    <3>2. d \in Nat /\ \A j \in DOMAIN toMaster'[t] :
            j \in Nat \ {0} /\ j + d \in DOMAIN q /\ toMaster'[t][j] = q[j + d]
      <4>1. CASE t = s
        BY <1>0, <1>1, <3>1, <4>1
      <4>2. CASE t # s
        BY <1>0, <1>1, <3>1, <4>2
      <4> QED BY <4>1, <4>2, Zenon
    <3>3. k + d \in DOMAIN q /\ toMaster'[t][k] = q[k + d]
      BY <3>2, Zenon
    <3>4. /\ q[k + d].id \in Block(t)
          /\ Live(t) => q[k + d].id \in Session(t)
          /\ \A i \in DOMAIN players : players[i].id # q[k + d].id
          /\ \A j \in DOMAIN q : q[j].type = "JOINED" /\ q[j].id = q[k + d].id => j = k + d
      BY <3>1, <3>3, Zenon DEF IdInv, JoinsFresh
    <3>5. m.id # q[k + d].id
      <4>1. CASE t = s
        <5>1. k + d # 1
          BY <3>2, <4>1
        <5> QED BY <1>5, <3>3, <4>1, <5>1, Zenon
      <4>2. CASE t # s
        BY <2>7, <3>1, <3>4, <4>2, Zenon
      <4> QED BY <4>1, <4>2, Zenon
    <3>6. \A i \in DOMAIN players' : players'[i].id # q[k + d].id
      BY <2>1, <2>2, <2>3, <3>4, <3>5, Zenon
    <3>7. ASSUME NEW j \in DOMAIN toMaster'[t], toMaster'[t][j].type = "JOINED",
                 toMaster'[t][j].id = toMaster'[t][k].id
          PROVE  j = k
      <4>1. j + d = k + d
        BY <3>2, <3>3, <3>4, <3>7, Zenon
      <4> HIDE DEF d
      <4> QED BY <3>2, <4>1
    <3> HIDE DEF d, q
    <3> QED BY <2>4, <3>1, <3>3, <3>4, <3>6, <3>7, Zenon
  <2> QED BY <2>5, <2>6, <2>8, <2>9, Zenon DEF IdInv
<1> QED BY <1>3, <1>7, <1>8, Zenon

(* What the master does keeps the invariant.                               *)
LEMMA MasterIds ==
    ASSUME TypeOK, TypeOK', IdInv, StaleClients = FALSE,
           \/ AcceptClient \/ SpawnRoom \/ PressEnter \/ Interrupt \/ StopRoom
           \/ \E s \in Slots : MasterStep(s)
    PROVE  IdInv'
<1>0. /\ room \in [Slots -> Room] /\ players \in Seq(PlayerRec) /\ dealt \in [Slots -> Nat]
      /\ toMaster \in [Slots -> Seq(HubMsg(WorkerTypes))]
  BY Zenon DEF TypeOK, MasterTypeOK, FloorTypeOK, HubTypeOK
<1>n. \A t \in Slots : /\ dealt[t] \in Nat /\ room[t].pending \in Nat /\ room[t].redirected \in Nat
                       /\ room[t].redirected <= RoomSize
  BY <1>0, Zenon DEF Room, IdInv, BlockSpent
<1>j. JoinsShift(toMaster, toMaster)
  BY <1>0, SameJoins, Zenon
<1>h. ASSUME NEW s \in Slots, NEW type, Heard(s, type)
      PROVE  JoinsShift(toMaster, toMaster')
  BY <1>0, <1>h, TakeJoins, Zenon DEF Heard
(* A step that deals nobody and keeps the room table but for the flags.    *)
<1>k. ASSUME UNCHANGED <<wk, roomSeq, dealt>>, JoinsShift(toMaster, toMaster'),
             \A t \in Slots : /\ room'[t].used => room[t].used
                              /\ room'[t].base = room[t].base /\ room'[t].pending = room[t].pending
                              /\ room'[t].redirected = room[t].redirected,
             DOMAIN players' = DOMAIN players,
             \A i \in DOMAIN players : players'[i].id = players[i].id
      PROVE  IdInv'
  <2>1. \A t \in Slots : dealt'[t] + room'[t].pending + room[t].redirected
                         <= dealt[t] + room[t].pending + room'[t].redirected
    <3> SUFFICES ASSUME NEW t \in Slots
                 PROVE  dealt'[t] + room'[t].pending + room[t].redirected
                        <= dealt[t] + room[t].pending + room'[t].redirected
      BY Zenon
    <3>1. dealt'[t] = dealt[t] /\ room'[t].pending = room[t].pending /\ room'[t].redirected = room[t].redirected
      BY <1>k, Zenon
    <3>2. dealt[t] \in Nat /\ room[t].pending \in Nat /\ room[t].redirected \in Nat
      BY <1>n, Zenon
    <3> QED  BY <3>1, <3>2
  <2> QED BY <1>k, <1>n, <2>1, MasterFrame, Zenon
<1>1. CASE AcceptClient
  <2>1. PICK s \in Open : /\ room' = Deal(room, s)
                          /\ dealt' = [dealt EXCEPT ![s] = IF room[s].ready THEN @ + 1 ELSE @]
    BY <1>1, Zenon DEF AcceptClient, Bound, First
  <2>2. s \in Slots /\ room[s].redirected < RoomSize
    BY Zenon DEF Open, Used
  <2> DEFINE r == room[s].redirected + 1
             p == IF room[s].ready THEN room[s].pending ELSE room[s].pending + 1
             d == IF room[s].ready THEN dealt[s] + 1 ELSE dealt[s]
  <2>3. room' = [room EXCEPT ![s] = [room[s] EXCEPT !.redirected = r, !.pending = p]] /\ dealt'[s] = d
    BY <1>0, <2>1, <2>2, Zenon DEF Deal, Bound, Room
  <2>4. d + p + room[s].redirected <= dealt[s] + room[s].pending + r /\ r <= RoomSize
    BY <1>n, <2>2, MasterAssumption
  <2> HIDE DEF r, p, d
  <2>5. /\ room'[s].used = room[s].used /\ room'[s].base = room[s].base
        /\ room'[s].redirected = r /\ room'[s].pending = p
        /\ \A t \in Slots : t # s => room'[t] = room[t] /\ dealt'[t] = dealt[t]
    BY <1>0, <2>1, <2>2, <2>3 DEF Room
  <2>6. \A t \in Slots : /\ room'[t].used => room[t].used
                         /\ room'[t].base = room[t].base
                         /\ room'[t].redirected <= RoomSize
                         /\ dealt'[t] + room'[t].pending + room[t].redirected
                              <= dealt[t] + room[t].pending + room'[t].redirected
    <3>1. \A t \in Slots : t # s => /\ room'[t].redirected <= RoomSize
                                    /\ dealt'[t] + room'[t].pending + room[t].redirected
                                         <= dealt[t] + room[t].pending + room'[t].redirected
      BY <1>n, <2>5
    <3> QED BY <2>3, <2>4, <2>5, <3>1, Zenon
  <2> QED BY <1>1, <1>j, <2>6, MasterFrame, Zenon DEF AcceptClient, hubVars
<1>2. CASE SpawnRoom
  BY <1>2, SpawnIds, Zenon
<1>3. CASE PressEnter
  <2>1. \A t \in Slots : /\ room'[t].used = room[t].used /\ room'[t].base = room[t].base
                         /\ room'[t].redirected = room[t].redirected
                         /\ room'[t].pending = room[t].pending
    BY <1>0, <1>3, Zenon DEF PressEnter, Started, Room
  <2> QED BY <1>3, <1>j, <1>k, <2>1, Zenon DEF PressEnter, workerVars
<1>4. CASE Interrupt
  BY <1>4, <1>j, <1>k, Zenon DEF Interrupt, hubVars, workerVars
<1>5. CASE StopRoom
  <2>1. PICK s \in Slots : close_room(s)
    BY <1>5, Zenon DEF StopRoom, First, Used
  <2> QED BY <1>5, <2>1, CloseIds, Zenon DEF StopRoom, workerVars
<1>6. ASSUME NEW s \in Slots, HandleReady(s)
      PROVE  IdInv'
  <2>1. /\ room'[s].used /\ room[s].used /\ room'[s].base = room[s].base /\ room'[s].pending = 0
        /\ room'[s].redirected = room[s].redirected
        /\ dealt'[s] = dealt[s] + room[s].pending
        /\ \A t \in Slots : t # s => room'[t] = room[t] /\ dealt'[t] = dealt[t]
    BY <1>0, <1>6, Zenon DEF HandleReady, Heard, Room
  <2>2. \A t \in Slots : dealt'[t] + room'[t].pending + room[t].redirected
                         <= dealt[t] + room[t].pending + room'[t].redirected
    BY <1>n, <2>1
  <2>3. JoinsShift(toMaster, toMaster') /\ UNCHANGED <<wk, roomSeq, players>>
    BY <1>6, <1>h, Zenon DEF HandleReady
  <2> QED BY <1>n, <2>1, <2>2, <2>3, MasterFrame
<1>7. ASSUME NEW s \in Slots, HandleJoined(s)
      PROVE  IdInv'
  BY <1>7, JoinedIds, Zenon
<1>8. ASSUME NEW s \in Slots, HandleEliminated(s)
      PROVE  IdInv'
  <2>1. PICK dead : players' = Bury(players, dead)
    BY <1>8, Zenon DEF HandleEliminated
  <2>2. DOMAIN players' = DOMAIN players /\ \A i \in DOMAIN players : players'[i].id = players[i].id
    BY <1>0, <2>1, BuryIds, Zenon
  <2>3. JoinsShift(toMaster, toMaster')
    BY <1>8, <1>h, Zenon DEF HandleEliminated
  <2> QED BY <1>8, <1>k, <2>2, <2>3, Zenon DEF HandleEliminated, workerVars
<1>9. ASSUME NEW s \in Slots, HandleAttack(s)
      PROVE  IdInv'
  <2>1. JoinsShift(toMaster, toMaster')
    BY <1>9, <1>h, Zenon DEF HandleAttack
  <2> QED BY <1>9, <1>k, <2>1, Zenon DEF HandleAttack, workerVars, masterVars
<1>10. ASSUME NEW s \in Slots, HandleFeed(s)
       PROVE  IdInv'
  <2>1. JoinsShift(toMaster, toMaster')
    BY <1>10, <1>h, Zenon DEF HandleFeed
  <2> QED BY <1>10, <1>k, <2>1, Zenon DEF HandleFeed, workerVars, masterVars
<1>11. ASSUME NEW s \in Slots, WorkerGone(s)
       PROVE  IdInv'
  BY <1>11, CloseIds, Zenon DEF WorkerGone, workerVars
<1> QED BY <1>1, <1>2, <1>3, <1>4, <1>5, <1>6, <1>7, <1>8, <1>9, <1>10, <1>11 DEF MasterStep

-----------------------------------------------------------------------------
(* The block of a room never runs out before its arrays do.                *)
LEMMA IdsFit ==
    ASSUME TypeOK, IdInv
    PROVE  LobbyFits
<1> SUFFICES ASSUME NEW s \in Slots
             PROVE  Len(wk[s].members) <= MaxLobby
  BY Zenon DEF LobbyFits
<1>1. RoomSize \in Nat /\ MaxLobby \in Nat /\ RoomSize <= MaxLobby
  BY MasterAssumption, HubAssumption
<1>2. CASE Live(s)
  <2> DEFINE L == Len(wk[s].members)  n == wk[s].nextId  d == dealt[s]
             b == room[s].base  p == room[s].pending  r == room[s].redirected
  <2>1. L + b <= n /\ n + d + p <= b + r /\ r <= RoomSize
    BY <1>2, Zenon DEF IdInv, MembersOrdered, BlockSpent
  <2>2. L \in Nat /\ n \in Nat
    <3>1. wk[s].members \in Seq(Nat) /\ wk[s].nextId \in Nat
      BY Zenon DEF TypeOK, WkTypeOK, Worker
    <3> QED BY <3>1
  <2>3. d \in Nat /\ b \in Nat /\ p \in Nat /\ r \in Nat
    BY Zenon DEF TypeOK, MasterTypeOK, FloorTypeOK, Room
  <2> HIDE DEF L, n, d, b, p, r
  <2>4. L <= MaxLobby
    BY <1>1, <2>1, <2>2, <2>3
  <2> QED BY <2>4, Zenon DEF L
<1>3. CASE ~Live(s)
  <2>1. wk[s].members = <<>>
    BY <1>3, Zenon DEF IdInv, BlockSpent
  <2> QED BY <1>1, <2>1
<1> QED BY <1>2, <1>3, Zenon

(***************************************************************************)
(* As long as no client outlives the room it was dealt to, IdInv holds for *)
(* every number of rooms, clients, spawns and crashes.                     *)
(***************************************************************************)
THEOREM IdsInductive == ASSUME StaleClients = FALSE PROVE Spec => []IdInv
<1>1. Init => IdInv
  <2> SUFFICES ASSUME Init PROVE IdInv
    BY Zenon
  <2>1. \A s \in Slots : /\ wk[s].pc = "none" /\ wk[s].members = <<>> /\ toMaster[s] = <<>>
                         /\ room[s].used = FALSE /\ room[s].redirected = 0
    BY Zenon DEF Init, Process, FreshRoom
  <2>2. players = <<>> /\ Used(room) = {} /\ \A s \in Slots : ~Live(s)
    BY <2>1, Zenon DEF Init, Used, Live
  <2>3. 0 <= RoomSize
    BY MasterAssumption
  <2>4. DOMAIN players = {}
    BY <2>2
  <2>5. BlocksApart /\ JoinsFresh
    BY <2>2, Zenon DEF BlocksApart, JoinsFresh
  <2>6. BlockSpent /\ MembersOrdered
    BY <2>1, <2>2, <2>3, Zenon DEF BlockSpent, MembersOrdered
  <2>7. RecordsKnown /\ IdsUnique
    BY <2>4, Zenon DEF RecordsKnown, IdsUnique
  <2> QED BY <2>5, <2>6, <2>7, Zenon DEF IdInv
<1>2. TypeOK /\ TypeOK' /\ IdInv /\ [Next]_vars => IdInv'
  <2> SUFFICES ASSUME TypeOK, TypeOK', IdInv, [Next]_vars PROVE IdInv'
    BY Zenon
  <2>1. CASE Next
    BY <2>1, MasterIds, WorkerIds, Zenon DEF Next
  <2>2. CASE UNCHANGED vars
    <3>1. /\ room' = room /\ players' = players /\ wk' = wk /\ dealt' = dealt
          /\ toMaster' = toMaster /\ roomSeq' = roomSeq
      BY <2>2, Zenon DEF vars, hubVars, workerVars, masterVars
    <3>2. \A s \in Slots : /\ room[s].redirected <= RoomSize /\ room[s].redirected \in Nat
                           /\ dealt[s] \in Nat /\ room[s].pending \in Nat
      BY Zenon DEF IdInv, BlockSpent, TypeOK, MasterTypeOK, FloorTypeOK, Room
    <3>3. \A s \in Slots : dealt'[s] + room'[s].pending + room[s].redirected
                             <= dealt[s] + room[s].pending + room'[s].redirected
      <4>1. \A s \in Slots : dealt[s] + room[s].pending + room[s].redirected
                               <= dealt[s] + room[s].pending + room[s].redirected
        BY <3>2
      <4> QED  BY <3>1, <4>1, Zenon
    <3>4. JoinsShift(toMaster, toMaster')
      BY <3>1, SameJoins, Zenon DEF TypeOK, HubTypeOK
    <3> QED BY <3>1, <3>2, <3>3, <3>4, MasterFrame, Zenon
  <2> QED BY <2>1, <2>2, Zenon
<1> QED BY <1>1, <1>2, Typing, PTL DEF Spec

(* "Grows forever so player ids never repeat" (main.c:50): true of every   *)
(* daemon whose clients do not outlive the room they were dealt to.        *)
THEOREM IdsNeverRepeat == ASSUME StaleClients = FALSE PROVE Spec => []IdsUnique
<1>1. IdInv => IdsUnique
  BY Zenon DEF IdInv
<1> QED BY <1>1, IdsInductive, PTL

(* Under the same condition no lobby outgrows client_ids[MAX_LOBBY_SIZE]   *)
(* (room.c:151), handshakes that fail included.                            *)
THEOREM LobbiesFit == ASSUME StaleClients = FALSE PROVE Spec => []LobbyFits
<1>1. TypeOK /\ IdInv => LobbyFits
  BY IdsFit, Zenon
<1> QED BY <1>1, IdsInductive, Typing, PTL

-----------------------------------------------------------------------------
(* A message that is no GAMEOVER, or carries the verdict, may be sent.     *)
LEMMA SendVerdict ==
    ASSUME NEW M, NEW q \in [Slots -> Seq(M)], NEW S, NEW m \in M, NEW ended, NEW w,
           Verdicts(q, ended, w), m.type # "GAMEOVER" \/ (ended /\ m.id = w)
    PROVE  Verdicts(hub_send(q, S, m), ended, w)
<1> SUFFICES ASSUME NEW s \in Slots, NEW i \in DOMAIN hub_send(q, S, m)[s],
                    hub_send(q, S, m)[s][i].type = "GAMEOVER"
             PROVE  ended /\ hub_send(q, S, m)[s][i].id = w
  BY Zenon DEF Verdicts
<1>1. CASE s \in S
  <2>1. hub_send(q, S, m)[s] = Append(q[s], m) /\ q[s] \in Seq(M)
    BY <1>1, Zenon DEF hub_send
  <2>2. CASE i \in DOMAIN q[s]
    BY <2>1, <2>2 DEF Verdicts
  <2>3. CASE i \notin DOMAIN q[s]
    BY <2>1, <2>3
  <2> QED BY <2>2, <2>3, Zenon
<1>2. CASE s \notin S
  BY <1>2, Zenon DEF hub_send, Verdicts
<1> QED BY <1>1, <1>2, Zenon

(* So may a roster.                                                        *)
LEMMA RosterVerdict ==
    ASSUME NEW q \in [Slots -> Seq(HubMsg(MasterTypes))], NEW rm, NEW pl \in Seq(PlayerRec),
           NEW ended, NEW w, Verdicts(q, ended, w)
    PROVE  Verdicts(broadcast_roster(q, rm, pl), ended, w)
<1>1. RosterMsg(Standing(pl)) \in HubMsg(MasterTypes)
  BY StandingType, RosterMsgType, Zenon
<1>2. RosterMsg(Standing(pl)).type # "GAMEOVER"
  BY Zenon DEF RosterMsg
<1> QED BY <1>1, <1>2, SendVerdict, Zenon DEF broadcast_roster, Send

(* Starting rooms sends no GAMEOVER.                                       *)
LEMMA StartVerdict ==
    ASSUME NEW q \in [Slots -> Seq(HubMsg(MasterTypes))], NEW rm \in [Slots -> Room],
           NEW pl \in Seq(PlayerRec), NEW ended, NEW w, Verdicts(q, ended, w)
    PROVE  Verdicts(start_all_rooms(q, rm, pl), ended, w)
<1> DEFINE r == start_all_rooms(q, rm, pl)
<1> HIDE DEF r
<1> SUFFICES ASSUME NEW s \in Slots, NEW i \in DOMAIN r[s], r[s][i].type = "GAMEOVER"
             PROVE  ended /\ r[s][i].id = w
  BY Zenon DEF Verdicts, r
<1>1. PICK t \in Seq(HubMsg(MasterTypes)) :
        /\ r[s] = q[s] \o t
        /\ \A j \in DOMAIN t : t[j].type = "START" \/ (t[j].type = "ROSTER" /\ t[j].alive = Standing(pl))
  BY StartAllShape, Zenon DEF r
<1>2. q[s] \in Seq(HubMsg(MasterTypes))
  BY Zenon
<1>3. CASE i \in DOMAIN q[s]
  BY <1>1, <1>2, <1>3 DEF Verdicts
<1>4. CASE i \notin DOMAIN q[s]
  <2>1. i - Len(q[s]) \in DOMAIN t /\ r[s][i] = t[i - Len(q[s])]
    BY <1>1, <1>2, <1>4
  <2> QED BY <1>1, <2>1, Zenon
<1> QED BY <1>3, <1>4, Zenon

(* check_global_end sends the verdict it decides, and decides at most once.*)
LEMMA GlobalEndVerdict ==
    ASSUME NEW q \in [Slots -> Seq(HubMsg(MasterTypes))], NEW rm,
           NEW pl \in Seq(PlayerRec), Verdicts(q, matchEnded, winner),
           check_global_end(q, rm, pl)
    PROVE  /\ Verdicts(toWorker', matchEnded', winner')
           /\ matchEnded => matchEnded' /\ winner' = winner
<1>1. CASE ~matchEnded /\ Decided(pl)
  <2> DEFINE m == Msg("GAMEOVER", WinnerOf(pl))
  <2>1. /\ matchEnded' = TRUE /\ winner' = WinnerOf(pl)
        /\ toWorker' = Send(q, Used(rm), m)
    BY <1>1, Zenon DEF check_global_end, EndsMatch
  <2>2. m \in HubMsg(MasterTypes) /\ m.id = WinnerOf(pl)
    BY WinnerType, MsgType, Zenon DEF MasterTypes, Msg
  <2>3. Verdicts(q, TRUE, WinnerOf(pl))
    BY <1>1, Zenon DEF Verdicts
  <2>4. Verdicts(Send(q, Used(rm), m), TRUE, WinnerOf(pl))
    BY <2>2, <2>3, SendVerdict, Zenon DEF Send
  <2> QED BY <1>1, <2>1, <2>4, Zenon
<1>2. CASE ~(~matchEnded /\ Decided(pl))
  BY <1>2, Zenon DEF check_global_end, EndsMatch
<1> QED BY <1>1, <1>2, Zenon

(* Taking messages away keeps the verdicts.                                *)
LEMMA TakeVerdict ==
    ASSUME NEW M, NEW q \in [Slots -> Seq(M)], NEW s \in Slots, NEW ended, NEW w,
           Verdicts(q, ended, w)
    PROVE  /\ Verdicts([q EXCEPT ![s] = <<>>], ended, w)
           /\ q[s] # <<>> => Verdicts([q EXCEPT ![s] = Tail(@)], ended, w)
<1>1. Verdicts([q EXCEPT ![s] = <<>>], ended, w)
  BY DEF Verdicts
<1>2. ASSUME q[s] # <<>>
      PROVE  Verdicts([q EXCEPT ![s] = Tail(@)], ended, w)
  <2>1. q[s] \in Seq(M)
    BY Zenon
  <2>2. \A i \in DOMAIN Tail(q[s]) : i + 1 \in DOMAIN q[s] /\ Tail(q[s])[i] = q[s][i + 1]
    BY <1>2, <2>1
  <2> QED BY <2>2 DEF Verdicts
<1> QED BY <1>1, <1>2, Zenon

-----------------------------------------------------------------------------
(* Worker steps and events keep the invariant: they change no verdict, and *)
(* a room takes its winner from a GAMEOVER.                                *)
LEMMA WorkerVerdict ==
    ASSUME TypeOK, VerdictInv, NEW s \in Slots, WorkerStep(s) \/ WorkerEvent(s)
    PROVE  VerdictInv'
<1>0. /\ wk \in [Slots -> Worker] /\ wk[s] \in Worker
      /\ toWorker \in [Slots -> Seq(HubMsg(MasterTypes))]
      /\ Verdicts(toWorker, matchEnded, winner)
      /\ UNCHANGED <<room, matchEnded, winner, mpc>>
  BY Zenon DEF TypeOK, HubTypeOK, WkTypeOK, VerdictInv, WorkerStep, WorkerEvent, masterVars
<1>e. ASSUME Exit(s), UNCHANGED announced
      PROVE  VerdictInv'
  <2>1. Verdicts(toWorker', matchEnded, winner)
    BY <1>0, <1>e, TakeVerdict, Zenon DEF Exit
  <2>2. wk'[s].pc = "exited" /\ ~wk'[s].over /\ \A t \in Slots : t # s => wk'[t] = wk[t]
    BY <1>0, <1>e, Zenon DEF Exit, Process
  <2> QED BY <1>0, <1>e, <2>1, <2>2, Zenon DEF VerdictInv, Live, OneWinner
(* Steps that leave the messages to the workers, the verdicts taken and    *)
(* the announcements alone.                                                *)
<1>u. ASSUME UNCHANGED <<toWorker, announced>>, \A t \in Slots : t # s => wk'[t] = wk[t],
             wk'[s].over = wk[s].over, wk'[s].winner = wk[s].winner,
             Live(s)' => Live(s), wk'[s].pc # "over" => wk[s].pc # "over"
      PROVE  VerdictInv'
  BY <1>0, <1>u, Zenon DEF VerdictInv, Live, OneWinner
<1>1. CASE Boot(s, MasterEnds)
  BY <1>0, <1>1, <1>u, Zenon DEF Boot, Worker, Live
<1>2. CASE ReportJoin(s, MasterEnds)
  BY <1>0, <1>2, <1>u, Zenon DEF ReportJoin, Worker, Live
<1>3. CASE LobbyRecv(s)
  <2>1. Verdicts(toWorker', matchEnded, winner)
    BY <1>0, <1>3, TakeVerdict, Zenon DEF LobbyRecv, LobbyTake, Took, Inbox
  <2>2. /\ wk'[s].pc = wk[s].pc /\ wk'[s].over = wk[s].over /\ wk'[s].winner = wk[s].winner
        /\ \A t \in Slots : t # s => wk'[t] = wk[t]
    BY <1>0, <1>3, Zenon DEF LobbyRecv, LobbyTake, Inbox, Worker
  <2> QED BY <1>0, <1>3, <2>1, <2>2, Zenon DEF LobbyRecv, LobbyTake, VerdictInv, Live, OneWinner
<1>4. CASE \E graceOver \in BOOLEAN : LobbyStart(s, graceOver)
  <2>1. CASE Exit(s)
    BY <1>4, <1>e, <2>1, Zenon DEF LobbyStart
  <2>2. CASE ~Exit(s)
    BY <1>0, <1>4, <1>u, <2>2 DEF LobbyStart, Worker, Live, hubVars
  <2> QED BY <2>1, <2>2, Zenon
<1>5. CASE MasterGone(s, MasterEnds)
  <2>1. CASE wk[s].pc = "lobby"
    BY <1>5, <1>e, <2>1, Zenon DEF MasterGone
  <2>2. CASE wk[s].pc # "lobby"
    <3>1. mpc = "stop"
      BY <1>5, Zenon DEF MasterGone, HungUp, MasterEnds, VerdictInv, Live, Used
    <3>2. wk'[s].pc = "over" /\ UNCHANGED toWorker /\ \A t \in Slots : t # s => wk'[t] = wk[t]
      BY <1>0, <1>5, <2>2 DEF MasterGone, Worker, hubVars
    <3> QED BY <1>0, <3>1, <3>2, Zenon DEF VerdictInv, OneWinner
  <2> QED BY <2>1, <2>2, Zenon
<1>6. CASE PlayRecv(s)
  <2> DEFINE m == Head(toWorker[s])
  <2>1. Verdicts(toWorker', matchEnded, winner)
    BY <1>0, <1>6, TakeVerdict, Zenon DEF PlayRecv, PlayTake, Took, Inbox
  <2>2. wk'[s].pc = wk[s].pc /\ \A t \in Slots : t # s => wk'[t] = wk[t]
    BY <1>0, <1>6, Zenon DEF PlayRecv, PlayTake, Inbox, Worker
  <2>3. CASE m.type = "GAMEOVER"
    <3>1. wk'[s].winner = m.id
      BY <1>0, <1>6, <2>3, Zenon DEF PlayRecv, PlayTake, Inbox, Worker
    <3>2. matchEnded /\ m.id = winner
      <4>1. toWorker[s] \in Seq(HubMsg(MasterTypes)) /\ toWorker[s] # <<>>
        BY <1>0, <1>6, Zenon DEF PlayRecv, PlayTake, Inbox
      <4>2. 1 \in DOMAIN toWorker[s] /\ m = toWorker[s][1]
        BY <4>1
      <4> QED BY <1>0, <2>3, <4>2, Zenon DEF Verdicts
    <3> QED BY <1>0, <1>6, <2>1, <2>2, <3>1, <3>2 DEF PlayRecv, PlayTake, VerdictInv, Live, OneWinner
  <2>4. CASE m.type # "GAMEOVER"
    <3>1. wk'[s].over = wk[s].over /\ wk'[s].winner = wk[s].winner
      BY <1>0, <1>6, <2>4, Zenon DEF PlayRecv, PlayTake, Inbox, Worker
    <3> QED BY <1>0, <1>6, <2>1, <2>2, <3>1, Zenon DEF PlayRecv, PlayTake, VerdictInv, Live, OneWinner
  <2> QED BY <2>3, <2>4, Zenon
<1>7. CASE ReportElim(s, MasterEnds)
  BY <1>0, <1>7, <1>u DEF ReportElim, Worker, Live
<1>8. CASE Route(s, MasterEnds)
  <2>1. PICK g : wk' = [wk EXCEPT ![s].garbage = @ \ {g}]
    BY <1>8, Zenon DEF Route
  <2>2. UNCHANGED <<toWorker, announced>>
    BY <1>8, Zenon DEF Route
  <2> QED BY <1>0, <1>u, <2>1, <2>2, Zenon DEF Worker, Live
<1>9. CASE RoomOver(s)
  <2>1. wk'[s].pc = "over" /\ UNCHANGED toWorker /\ \A t \in Slots : t # s => wk'[t] = wk[t]
    BY <1>0, <1>9, Zenon DEF RoomOver, Worker, hubVars
  <2>2. matchEnded /\ announced' \in {announced, announced \cup {winner}} /\ Live(s)
    BY <1>9, Zenon DEF RoomOver, FinalPush, VerdictInv, Live
  <2> QED BY <1>0, <2>1, <2>2, Zenon DEF VerdictInv, Live, OneWinner
<1>10. CASE RoomExit(s)
  BY <1>10, <1>e, Zenon DEF RoomExit
<1>11. CASE Arrive(s)
  BY <1>0, <1>11, <1>u, Zenon DEF Arrive, Worker, Live
<1>12. CASE ArriveFails(s)
  BY <1>0, <1>12, <1>u, Zenon DEF ArriveFails, Worker, Live
<1>13. CASE Crash(s)
  BY <1>13, <1>e, Zenon DEF Crash
<1>14. ASSUME NEW p \in Session(s), Quit(s, p)
       PROVE  VerdictInv'
  BY <1>0, <1>14, <1>u, Zenon DEF Quit, Worker, Live, hubVars
<1>15. ASSUME NEW p \in Session(s), TopOut(s, p)
       PROVE  VerdictInv'
  BY <1>0, <1>15, <1>u, Zenon DEF TopOut, Worker, Live, hubVars
<1>16. ASSUME NEW p \in Session(s), NEW toppedOut \in BOOLEAN, ClearLines(s, p, toppedOut)
       PROVE  VerdictInv'
  <2>1. PICK G, O : wk' = [wk EXCEPT ![s].garbage = G, ![s].out = O]
    BY <1>16, Zenon DEF ClearLines
  <2>2. UNCHANGED <<toWorker, announced>>
    BY <1>16, Zenon DEF ClearLines, hubVars
  <2> QED BY <1>0, <1>u, <2>1, <2>2, Zenon DEF Worker, Live
<1> QED BY <1>1, <1>2, <1>3, <1>4, <1>5, <1>6, <1>7, <1>8, <1>9, <1>10, <1>11, <1>12, <1>13,
           <1>14, <1>15, <1>16, Zenon DEF WorkerStep, WorkerEvent

(* close_room keeps the verdicts and decides at most once.                 *)
LEMMA CloseVerdict ==
    ASSUME TypeOK, VerdictInv, NEW s \in Slots, close_room(s)
    PROVE  /\ Verdicts(toWorker', matchEnded', winner')
           /\ matchEnded => matchEnded' /\ winner' = winner
           /\ room' = [room EXCEPT ![s].used = FALSE]
<1> DEFINE rm == [room EXCEPT ![s].used = FALSE]
           dead == {i \in DOMAIN players : players[i].room = s}
           pl == IF matchEnded THEN players ELSE Bury(players, dead)
           q == broadcast_roster(toWorker, rm, pl)
<1>1. /\ room' = rm
      /\ check_global_end(q, rm, pl) \/ UNCHANGED <<toWorker, matchEnded, winner>>
  BY Zenon DEF close_room, Occupants
<1>2. pl \in Seq(PlayerRec) /\ toWorker \in [Slots -> Seq(HubMsg(MasterTypes))]
  BY BuryType, Zenon DEF TypeOK, MasterTypeOK, HubTypeOK
<1>3. Verdicts(toWorker, matchEnded, winner)
  BY Zenon DEF VerdictInv
<1> HIDE DEF pl, rm
<1>4. q \in [Slots -> Seq(HubMsg(MasterTypes))] /\ Verdicts(q, matchEnded, winner)
  BY <1>2, <1>3, BroadcastType, RosterVerdict, Zenon
<1>5. CASE check_global_end(q, rm, pl)
  BY <1>1, <1>2, <1>4, <1>5, GlobalEndVerdict, Zenon DEF rm
<1>6. CASE UNCHANGED <<toWorker, matchEnded, winner>>
  BY <1>1, <1>3, <1>6, Zenon DEF rm
<1> QED BY <1>1, <1>5, <1>6, Zenon

(* What the master does keeps the invariant.                               *)
LEMMA MasterVerdict ==
    ASSUME TypeOK, VerdictInv,
           \/ AcceptClient \/ SpawnRoom \/ PressEnter \/ Interrupt \/ StopRoom
           \/ \E s \in Slots : MasterStep(s)
    PROVE  VerdictInv'
<1>0. /\ room \in [Slots -> Room] /\ players \in Seq(PlayerRec)
      /\ toWorker \in [Slots -> Seq(HubMsg(MasterTypes))]
      /\ Verdicts(toWorker, matchEnded, winner)
  BY Zenon DEF TypeOK, MasterTypeOK, HubTypeOK, VerdictInv
(* A step that keeps the workers and the verdicts, closes no room, and     *)
(* decides at most once.                                                   *)
<1>k. ASSUME UNCHANGED <<wk, announced, mpc>>, Verdicts(toWorker', matchEnded', winner'),
             matchEnded => matchEnded' /\ winner' = winner,
             \A s \in Slots : room[s].used => room'[s].used
      PROVE  VerdictInv'
  BY <1>k, Zenon DEF VerdictInv, Live, OneWinner
<1>1. CASE AcceptClient
  <2>1. PICK s \in Slots : room' = Deal(room, s)
    BY <1>1, Zenon DEF AcceptClient, First, Open, Used
  <2>2. \A t \in Slots : room[t].used => room'[t].used
    BY <1>0, <2>1, Zenon DEF Deal, Room
  <2> QED BY <1>0, <1>1, <1>k, <2>2, Zenon DEF AcceptClient, hubVars
<1>2. CASE SpawnRoom
  <2>1. PICK s \in Slots :
          /\ room' = Deal([room EXCEPT ![s] = FreshRoom(spawn_base)], s)
          /\ wk' = [wk EXCEPT ![s] = Process("boot", spawn_base)]
          /\ toWorker' = [toWorker EXCEPT ![s] = <<>>]
    BY <1>2, Zenon DEF SpawnRoom, First
  <2>2. Verdicts(toWorker', matchEnded, winner)
    BY <1>0, <2>1, TakeVerdict, Zenon
  <2>3. room'[s].used /\ \A t \in Slots : t # s => room'[t] = room[t]
    <3>1. FreshRoom(spawn_base).used
      BY Zenon DEF FreshRoom
    <3> QED BY <1>0, <2>1, <3>1 DEF Deal
  <2>4. ~wk'[s].over /\ \A t \in Slots : t # s => wk'[t] = wk[t]
    BY <2>1, Zenon DEF Process, TypeOK, WkTypeOK
  <2> QED BY <1>2, <2>2, <2>3, <2>4, Zenon DEF SpawnRoom, VerdictInv, Live, OneWinner
<1>3. CASE PressEnter
  <2>1. Verdicts(toWorker', matchEnded, winner)
    BY <1>0, <1>3, StartVerdict, Zenon DEF PressEnter
  <2>2. \A t \in Slots : room[t].used => room'[t].used
    BY <1>0, <1>3, Zenon DEF PressEnter, Started, Room
  <2> QED BY <1>3, <1>k, <2>1, <2>2, Zenon DEF PressEnter, workerVars
<1>4. CASE Interrupt
  BY <1>4, Zenon DEF Interrupt, VerdictInv, Live, OneWinner, hubVars, workerVars
<1>5. CASE StopRoom
  <2>1. PICK s \in Slots : close_room(s)
    BY <1>5, Zenon DEF StopRoom, First, Used
  <2>2. /\ Verdicts(toWorker', matchEnded', winner')
        /\ matchEnded => matchEnded' /\ winner' = winner
    BY <2>1, CloseVerdict, Zenon
  <2> QED BY <1>5, <2>2, Zenon DEF StopRoom, VerdictInv, OneWinner, workerVars
<1>6. ASSUME NEW s \in Slots, HandleReady(s)
      PROVE  VerdictInv'
  <2>1. \A t \in Slots : room[t].used => room'[t].used
    BY <1>0, <1>6, Zenon DEF HandleReady, Room
  <2> QED BY <1>0, <1>6, <1>k, <2>1, Zenon DEF HandleReady
<1>7. ASSUME NEW s \in Slots, HandleJoined(s)
      PROVE  VerdictInv'
  <2> DEFINE rec == [id |-> Head(toMaster[s]).id, room |-> s, alive |-> TRUE]
             pl  == IF Len(players) < MaxPlayers THEN Append(players, rec) ELSE players
             rm  == [room EXCEPT ![s].joined = @ + 1]
             q   == broadcast_roster(toWorker, rm, pl)
  <2>1. players' = pl /\ players' \in Seq(PlayerRec)
    <3>1. MasterStep(s)
      BY <1>7, Zenon DEF MasterStep
    <3> QED BY <1>7, <3>1, MasterTypeStep, Zenon DEF HandleJoined, TypeOK, MasterTypeOK
  <2>2. \/ toWorker' = start_all_rooms(q, rm, pl) /\ room' = Started(rm)
        \/ toWorker' = q /\ room' = rm
    BY <1>7, Zenon DEF HandleJoined
  <2>3. rm \in [Slots -> Room] /\ \A t \in Slots : rm[t].used = room[t].used
    <3> DEFINE n == room[s].joined + 1
    <3>1. room[s] \in Room /\ n \in Nat
      BY <1>0 DEF Room
    <3>2. rm = [room EXCEPT ![s] = [room[s] EXCEPT !.joined = n]]
      BY Zenon
    <3> HIDE DEF n, rm
    <3> QED BY <1>0, <3>1, <3>2, Zenon DEF Room
  <2> HIDE DEF pl, rm
  <2>4. q \in [Slots -> Seq(HubMsg(MasterTypes))] /\ Verdicts(q, matchEnded, winner)
    BY <1>0, <2>1, BroadcastType, RosterVerdict, Zenon
  <2> HIDE DEF q
  <2>5. Verdicts(toWorker', matchEnded, winner)
    BY <2>1, <2>2, <2>3, <2>4, StartVerdict, Zenon
  <2>6. \A t \in Slots : Started(rm)[t].used = rm[t].used
    BY <2>3, Zenon DEF Started, Room
  <2>7. \A t \in Slots : room[t].used => room'[t].used
    BY <2>2, <2>3, <2>6, Zenon
  <2> QED BY <1>7, <1>k, <2>5, <2>7, Zenon DEF HandleJoined, workerVars
<1>8. ASSUME NEW s \in Slots, HandleEliminated(s)
      PROVE  VerdictInv'
  <2> DEFINE dead == {i \in DOMAIN players : players[i].id = Head(toMaster[s]).id}
             pl == Bury(players, dead)
             q  == broadcast_roster(toWorker, room, pl)
  <2>1. pl \in Seq(PlayerRec)
    BY <1>0, BuryType, Zenon
  <2>2. check_global_end(q, room, pl)
    BY <1>8, Zenon DEF HandleEliminated
  <2> HIDE DEF pl
  <2>3. q \in [Slots -> Seq(HubMsg(MasterTypes))] /\ Verdicts(q, matchEnded, winner)
    BY <1>0, <2>1, BroadcastType, RosterVerdict, Zenon
  <2> HIDE DEF q
  <2>4. /\ Verdicts(toWorker', matchEnded', winner')
        /\ matchEnded => matchEnded' /\ winner' = winner
    BY <2>1, <2>2, <2>3, GlobalEndVerdict, Zenon
  <2> QED BY <1>8, <1>k, <2>4, Zenon DEF HandleEliminated, workerVars
<1>9. ASSUME NEW s \in Slots, HandleAttack(s)
      PROVE  VerdictInv'
  <2> DEFINE m == Head(toMaster[s])
             g == [m EXCEPT !.type = "GARBAGE"]
  <2>1. m \in HubMsg(WorkerTypes)
    BY <1>9, HeardType, Zenon DEF HandleAttack, TypeOK
  <2>2. g \in HubMsg(MasterTypes) /\ g.type # "GAMEOVER"
    BY <2>1, Zenon DEF HubMsg, MasterTypes
  <2>3. PICK to : toWorker' = Send(toWorker, to, g)
    BY <1>9, Zenon DEF HandleAttack
  <2> HIDE DEF g
  <2>4. Verdicts(toWorker', matchEnded, winner)
    BY <1>0, <2>2, <2>3, SendVerdict, Zenon DEF Send
  <2> QED BY <1>9, <1>k, <2>4, Zenon DEF HandleAttack, workerVars, masterVars
<1>10. ASSUME NEW s \in Slots, HandleFeed(s)
       PROVE  VerdictInv'
  <2> DEFINE m == Head(toMaster[s])
  <2>1. m \in HubMsg(WorkerTypes) /\ m.type = "FEED"
    BY <1>10, HeardType, Zenon DEF HandleFeed, Heard, TypeOK
  <2>2. m \in HubMsg(MasterTypes)
    BY <2>1, Zenon DEF HubMsg, MasterTypes
  <2>3. PICK to : toWorker' = Send(toWorker, to, m)
    BY <1>10, Zenon DEF HandleFeed
  <2>4. Verdicts(toWorker', matchEnded, winner)
    BY <1>0, <2>1, <2>2, <2>3, SendVerdict, Zenon DEF Send
  <2> QED BY <1>10, <1>k, <2>4, Zenon DEF HandleFeed, workerVars, masterVars
<1>11. ASSUME NEW s \in Slots, WorkerGone(s)
       PROVE  VerdictInv'
  <2>1. /\ Verdicts(toWorker', matchEnded', winner')
        /\ matchEnded => matchEnded' /\ winner' = winner
        /\ room' = [room EXCEPT ![s].used = FALSE]
    BY <1>11, CloseVerdict, Zenon DEF WorkerGone
  <2>2. \A t \in Slots : t # s => room'[t] = room[t]
    BY <1>0, <2>1, Zenon
  <2>3. ~Live(s) /\ mpc = "run" /\ mpc' # "stop" /\ UNCHANGED <<wk, announced>>
    BY <1>11, Zenon DEF WorkerGone, workerVars
  <2> QED BY <2>1, <2>2, <2>3, Zenon DEF VerdictInv, Live, OneWinner
<1> QED BY <1>1, <1>2, <1>3, <1>4, <1>5, <1>6, <1>7, <1>8, <1>9, <1>10, <1>11 DEF MasterStep

-----------------------------------------------------------------------------
(* Every GAMEOVER under way, and every room that took one, carries the     *)
(* master's one verdict (main.c:270-307), for every number of rooms,       *)
(* players, crashes and attacks.                                           *)
THEOREM VerdictsInductive == Spec => []VerdictInv
<1>1. Init => VerdictInv
  BY DEF Init, VerdictInv, Verdicts, OneWinner, Live, Process
<1>2. TypeOK /\ VerdictInv /\ [Next]_vars => VerdictInv'
  <2> SUFFICES ASSUME TypeOK, VerdictInv, [Next]_vars PROVE VerdictInv'
    BY Zenon
  <2>1. CASE Next
    BY <2>1, MasterVerdict, WorkerVerdict, Zenon DEF Next
  <2>2. CASE UNCHANGED vars
    BY <2>2, Zenon DEF vars, hubVars, workerVars, masterVars, VerdictInv, Verdicts, Live, OneWinner
  <2> QED BY <2>1, <2>2, Zenon
<1> QED BY <1>1, <1>2, Typing, PTL DEF Spec

(* Until SIGINT, every room that has announced a result announced the one  *)
(* verdict of the master, whatever crashes, joins or eliminations race     *)
(* with it (check_global_end, main.c:270-307).                             *)
THEOREM RoomsAgree == Spec => []OneWinner
<1>1. VerdictInv => OneWinner
  BY Zenon DEF VerdictInv
<1> QED BY <1>1, VerdictsInductive, PTL
=============================================================================
