----------------------------- MODULE FeedProofs -----------------------------
(***************************************************************************)
(* Proofs about what rooms show and are ordered: an attack is in the kill  *)
(* feed at most once in every room but the victim's, and a room that       *)
(* starts has players.                                                     *)
(***************************************************************************)
EXTENDS TypeProofs

-----------------------------------------------------------------------------
(* Where attack n lies in a queue, and which rooms hold it.                *)
On(q, type, n) == {k \in DOMAIN q : q[k].type = type /\ q[k].lines = n}
Held(s, n) == \E g \in wk[s].garbage : g.lines = n

(* A room that the victim plays in may show the attack once more.          *)
Excused(s, n) == victimOf[n] \in Session(s) \/ ~Live(s)
ShownMost(s, n, most) == shown[s][n] <= most \/ Excused(s, n)

(* An attack that nobody has routed yet has left no trace.                 *)
Traceless(s, n) ==
    /\ On(toMaster[s], "ATTACK", n) = {} /\ On(toMaster[s], "FEED", n) = {}
    /\ On(toWorker[s], "GARBAGE", n) = {} /\ On(toWorker[s], "FEED", n) = {}
    /\ shown[s][n] = 0

(* At most one room holds attack n, once, and then it has left no trace.   *)
Holders(n) ==
    /\ \A s \in Slots : Held(s, n) => n <= attacks
    /\ \A s, t \in Slots : \A g \in wk[s].garbage, h \in wk[t].garbage :
         g.lines = n /\ h.lines = n => s = t /\ g = h
    /\ n > attacks \/ (\E s \in Slots : Held(s, n)) => \A s \in Slots : Traceless(s, n)

(* What is on its way names the victim that was drawn.                     *)
Victims(n) ==
    \A s \in Slots : /\ \A k \in On(toMaster[s], "ATTACK", n) : toMaster[s][k].id = victimOf[n]
                     /\ \A k \in On(toWorker[s], "GARBAGE", n) : toWorker[s][k].id = victimOf[n]

(* One feed goes up, before any comes down and before others show it.      *)
FeedUp(n) ==
    /\ \A s, t \in Slots : \A k \in On(toMaster[s], "FEED", n), l \in On(toMaster[t], "FEED", n) : s = t /\ k = l
    /\ \A s, t \in Slots : On(toMaster[t], "FEED", n) # {} =>
         On(toWorker[s], "FEED", n) = {} /\ (s # t => ShownMost(s, n, 0))

(* One feed comes down to each room that has not shown it.                 *)
FeedDown(n) ==
    \A s \in Slots : /\ \A k, l \in On(toWorker[s], "FEED", n) : k = l
                     /\ ShownMost(s, n, 1)
                     /\ On(toWorker[s], "FEED", n) # {} => ShownMost(s, n, 0)

Feeds(n) == Holders(n) /\ Victims(n) /\ FeedUp(n) /\ FeedDown(n)

FeedInv == \A n \in 1..MaxAttacks : Feeds(n)

(* The messages about attack n in queue q are among those of p, in the     *)
(* same order.                                                             *)
Thins(p, q, n) ==
    \E d \in Nat : \A k \in DOMAIN q : q[k].type \in {"ATTACK", "FEED", "GARBAGE"} /\ q[k].lines = n =>
        k \in Nat /\ k + d \in DOMAIN p /\ q[k] = p[k + d]

(* What is left of such a queue.                                           *)
LEMMA ThinOn ==
    ASSUME NEW p, NEW q, NEW n, Thins(p, q, n), NEW type \in {"ATTACK", "FEED", "GARBAGE"}
    PROVE  \E d \in Nat : \A k \in On(q, type, n) : k \in Nat /\ k + d \in On(p, type, n) /\ q[k] = p[k + d]
BY Zenon DEF Thins, On

(* A queue that is left alone, cut off, or emptied.                        *)
LEMMA ThinSame ==
    ASSUME NEW T, NEW p \in Seq(T), NEW n
    PROVE  /\ Thins(p, p, n) /\ Thins(p, <<>>, n)
           /\ p # <<>> => Thins(p, Tail(p), n)
<1>1. \A k \in DOMAIN p : k \in Nat /\ k + 0 = k
  OBVIOUS
<1>2. Thins(p, p, n)
  BY <1>1, Zenon DEF Thins
<1>3. Thins(p, <<>>, n)
  BY DEF Thins
<1>4. ASSUME p # <<>>
      PROVE  Thins(p, Tail(p), n)
  <2>1. \A k \in DOMAIN Tail(p) : k \in Nat /\ k + 1 \in DOMAIN p /\ Tail(p)[k] = p[k + 1]
    BY <1>4
  <2> QED  BY <2>1, Zenon DEF Thins
<1> QED  BY <1>2, <1>3, <1>4, Zenon

(* A message that is not about attack n is added.                          *)
LEMMA ThinAppend ==
    ASSUME NEW T, NEW p \in Seq(T), NEW m, NEW n, m.type \notin {"ATTACK", "FEED", "GARBAGE"} \/ m.lines # n
    PROVE  Thins(p, Append(p, m), n)
<1>1. \A k \in DOMAIN Append(p, m) : \/ k \in Nat /\ k + 0 = k /\ k \in DOMAIN p /\ Append(p, m)[k] = p[k]
                                     \/ Append(p, m)[k] = m
  OBVIOUS
<1> QED  BY <1>1, Zenon DEF Thins

(* The same for an attack and its feed.                                    *)
LEMMA ThinTwo ==
    ASSUME NEW T, NEW p \in Seq(T), NEW m, NEW r, NEW n, m.lines # n, r.lines # n
    PROVE  Thins(p, Append(Append(p, m), r), n)
<1>1. \A k \in DOMAIN Append(Append(p, m), r) :
        \/ k \in Nat /\ k + 0 = k /\ k \in DOMAIN p /\ Append(Append(p, m), r)[k] = p[k]
        \/ Append(Append(p, m), r)[k] \in {m, r}
  OBVIOUS
<1> QED  BY <1>1, Zenon DEF Thins

(* Notices are not about attacks.                                          *)
LEMMA ThinLonger ==
    ASSUME NEW M, NEW p \in [Slots -> Seq(M)], NEW q, NEW K, Longer(p, q, K), NEW t \in Slots, NEW n
    PROVE  Thins(p[t], q[t], n)
<1>1. \A k \in DOMAIN p[t] : k \in Nat /\ k + 0 = k
  OBVIOUS
<1>2. \A k \in DOMAIN q[t] : \/ k \in DOMAIN p[t] /\ q[t][k] = p[t][k]
                             \/ q[t][k].type \notin {"ATTACK", "FEED", "GARBAGE"}
  BY Zenon DEF Longer, Notice
<1> QED  BY <1>1, <1>2, Zenon DEF Thins

(* An attack that has left no trace, held in one place at most.            *)
LEMMA FeedTraceless ==
    ASSUME NEW n,
           \A s \in Slots : Traceless(s, n)', \A s \in Slots : Held(s, n)' => n <= attacks',
           \A s, t \in Slots : \A g \in wk'[s].garbage, h \in wk'[t].garbage :
             g.lines = n /\ h.lines = n => s = t /\ g = h
    PROVE  Feeds(n)'
<1>1. \A s \in Slots : shown'[s][n] <= 0 /\ shown'[s][n] <= 1
  BY DEF Traceless
<1>2. Holders(n)'
  BY Zenon DEF Holders
<1>3. Victims(n)'
  BY Zenon DEF Victims, Traceless
<1>4. FeedUp(n)'
  BY Zenon DEF FeedUp, Traceless
<1>5. FeedDown(n)'
  BY <1>1, Zenon DEF FeedDown, Traceless, ShownMost
<1> QED  BY <1>2, <1>3, <1>4, <1>5, Zenon DEF Feeds

(* A room shows the feed it was due, or the garbage of its own player.     *)
ShowsAsDue(s, n) ==
    /\ ~Traceless(s, n) /\ ShownMost(s, n, 1)'
    /\ \/ ShownMost(s, n, 0)'
       \/ On(toWorker'[s], "FEED", n) = {} /\ \A t \in Slots : On(toMaster[t], "FEED", n) = {}

(* A step that adds nothing about attack n to a queue or to what is held.  *)
Aside(n) ==
    /\ victimOf'[n] = victimOf[n] /\ (n > attacks' => n > attacks) /\ (n <= attacks => n <= attacks')
    /\ \A s \in Slots : /\ Thins(toMaster[s], toMaster'[s], n) /\ Thins(toWorker[s], toWorker'[s], n)
                        /\ \A g \in wk'[s].garbage : g.lines = n => g \in wk[s].garbage
                        /\ \/ shown'[s][n] = shown[s][n] /\ (Excused(s, n) => Excused(s, n)')
                           \/ shown'[s][n] = 0
                           \/ ShowsAsDue(s, n)

(* Such a step leaves what is known about n as it is.                      *)
LEMMA FeedFrame ==
    ASSUME NEW n, Feeds(n), Aside(n)
    PROVE  Feeds(n)'
<1>u. \A s \in Slots : \A type \in {"ATTACK", "FEED", "GARBAGE"} : \E d \in Nat :
        \A k \in On(toMaster'[s], type, n) :
          k \in Nat /\ k + d \in On(toMaster[s], type, n) /\ toMaster'[s][k] = toMaster[s][k + d]
  BY ThinOn DEF Aside
<1>d. \A s \in Slots : \A type \in {"ATTACK", "FEED", "GARBAGE"} : \E d \in Nat :
        \A k \in On(toWorker'[s], type, n) :
          k \in Nat /\ k + d \in On(toWorker[s], type, n) /\ toWorker'[s][k] = toWorker[s][k + d]
  BY ThinOn DEF Aside
<1>e. \A s \in Slots : /\ On(toMaster[s], "ATTACK", n) = {} => On(toMaster'[s], "ATTACK", n) = {}
                       /\ On(toMaster[s], "FEED", n) = {} => On(toMaster'[s], "FEED", n) = {}
                       /\ On(toWorker[s], "GARBAGE", n) = {} => On(toWorker'[s], "GARBAGE", n) = {}
                       /\ On(toWorker[s], "FEED", n) = {} => On(toWorker'[s], "FEED", n) = {}
  <2> TAKE s \in Slots
  <2>1. On(toMaster[s], "ATTACK", n) = {} => On(toMaster'[s], "ATTACK", n) = {}
    BY <1>u, Zenon
  <2>2. On(toMaster[s], "FEED", n) = {} => On(toMaster'[s], "FEED", n) = {}
    BY <1>u, Zenon
  <2>3. On(toWorker[s], "GARBAGE", n) = {} => On(toWorker'[s], "GARBAGE", n) = {}
    BY <1>d, Zenon
  <2>4. On(toWorker[s], "FEED", n) = {} => On(toWorker'[s], "FEED", n) = {}
    BY <1>d, Zenon
  <2> QED  BY <2>1, <2>2, <2>3, <2>4, Zenon
<1>m. \A s \in Slots : \/ ShownMost(s, n, 0) => ShownMost(s, n, 0)'
                       \/ On(toWorker'[s], "FEED", n) = {} /\ \A t \in Slots : On(toMaster[t], "FEED", n) = {}
  BY DEF Aside, ShownMost, ShowsAsDue
<1>n. \A s \in Slots : ShownMost(s, n, 1)'
  BY DEF Aside, ShownMost, ShowsAsDue, Feeds, FeedDown
<1>s. \A s \in Slots : Traceless(s, n) => shown'[s][n] = 0
  BY Zenon DEF Aside, ShowsAsDue, Traceless
<1>t. \A s \in Slots : Traceless(s, n) => Traceless(s, n)'
  BY <1>e, <1>s, Zenon DEF Traceless
<1>h. \A s \in Slots : Held(s, n)' => Held(s, n)
  BY Zenon DEF Held, Aside
<1>1. Holders(n)'
  <2>1. \A s \in Slots : Held(s, n)' => n <= attacks'
    BY <1>h, Zenon DEF Feeds, Holders, Aside
  <2>2. \A s, t \in Slots : \A g \in wk'[s].garbage, h \in wk'[t].garbage :
          g.lines = n /\ h.lines = n => s = t /\ g = h
    BY Zenon DEF Feeds, Holders, Aside
  <2>3. n > attacks' \/ (\E s \in Slots : Held(s, n)') => \A s \in Slots : Traceless(s, n)'
    BY <1>h, <1>t, Zenon DEF Feeds, Holders, Aside
  <2> QED  BY <2>1, <2>2, <2>3, Zenon DEF Holders
<1>2. Victims(n)'
  <2> SUFFICES ASSUME NEW s \in Slots
               PROVE  /\ \A k \in On(toMaster'[s], "ATTACK", n) : toMaster'[s][k].id = victimOf'[n]
                      /\ \A k \in On(toWorker'[s], "GARBAGE", n) : toWorker'[s][k].id = victimOf'[n]
    BY Zenon DEF Victims
  <2>1. \A k \in On(toMaster'[s], "ATTACK", n) : toMaster'[s][k].id = victimOf'[n]
    BY <1>u DEF Feeds, Victims, Aside
  <2>2. \A k \in On(toWorker'[s], "GARBAGE", n) : toWorker'[s][k].id = victimOf'[n]
    BY <1>d DEF Feeds, Victims, Aside
  <2> QED  BY <2>1, <2>2, Zenon
<1>3. FeedUp(n)'
  <2>1. ASSUME NEW s \in Slots, NEW t \in Slots,
               NEW k \in On(toMaster'[s], "FEED", n), NEW l \in On(toMaster'[t], "FEED", n)
        PROVE  s = t /\ k = l
    <3>1. On(toMaster[s], "FEED", n) # {} /\ On(toMaster[t], "FEED", n) # {}
      BY <1>e, <2>1, Zenon
    <3>2. s = t
      BY <3>1, Zenon DEF Feeds, FeedUp
    <3>3. PICK d \in Nat : k \in Nat /\ l \in Nat /\ k + d \in On(toMaster[s], "FEED", n) /\ l + d \in On(toMaster[s], "FEED", n)
      BY <1>u, <2>1, <3>2, Zenon
    <3>4. k + d = l + d
      BY <3>3, Zenon DEF Feeds, FeedUp
    <3> QED  BY <3>2, <3>3, <3>4
  <2>2. ASSUME NEW s \in Slots, NEW t \in Slots, On(toMaster'[t], "FEED", n) # {}
        PROVE  On(toWorker'[s], "FEED", n) = {} /\ (s # t => ShownMost(s, n, 0)')
    BY <1>e, <1>m, <2>2, Zenon DEF Feeds, FeedUp
  <2> QED  BY <2>1, <2>2, Zenon DEF FeedUp
<1>4. FeedDown(n)'
  <2>1. ASSUME NEW s \in Slots, NEW k \in On(toWorker'[s], "FEED", n), NEW l \in On(toWorker'[s], "FEED", n)
        PROVE  k = l
    <3>3. PICK d \in Nat : k \in Nat /\ l \in Nat /\ k + d \in On(toWorker[s], "FEED", n) /\ l + d \in On(toWorker[s], "FEED", n)
      BY <1>d, <2>1, Zenon
    <3>4. k + d = l + d
      BY <3>3, Zenon DEF Feeds, FeedDown
    <3> QED  BY <3>3, <3>4
  <2>2. \A s \in Slots : ShownMost(s, n, 1)' /\ (On(toWorker'[s], "FEED", n) # {} => ShownMost(s, n, 0)')
    BY <1>e, <1>m, <1>n, Zenon DEF Feeds, FeedDown
  <2> QED  BY <2>1, <2>2, Zenon DEF FeedDown
<1> QED  BY <1>1, <1>2, <1>3, <1>4, Zenon DEF Feeds

(* The same for a step of one worker, who keeps to its own room.           *)
LEMMA FeedAside ==
    ASSUME TypeOK, NEW n \in 1..MaxAttacks, Feeds(n), NEW s \in Slots, Apart(s),
           victimOf'[n] = victimOf[n], attacks' \in {attacks, attacks + 1},
           Thins(toMaster[s], toMaster'[s], n), Thins(toWorker[s], toWorker'[s], n),
           \A g \in wk'[s].garbage : g.lines = n => g \in wk[s].garbage,
           (shown'[s][n] = shown[s][n] /\ (Excused(s, n) => Excused(s, n)')) \/ ShowsAsDue(s, n)
    PROVE  Feeds(n)'
<1>1. /\ toMaster \in [Slots -> Seq(HubMsg(WorkerTypes))] /\ toWorker \in [Slots -> Seq(HubMsg(MasterTypes))]
      /\ attacks \in Nat
  BY DEF TypeOK, HubTypeOK, FloorTypeOK
<1>2. (n > attacks' => n > attacks) /\ (n <= attacks => n <= attacks')
  BY <1>1
<1>3. ASSUME NEW t \in Slots
      PROVE  /\ Thins(toMaster[t], toMaster'[t], n) /\ Thins(toWorker[t], toWorker'[t], n)
             /\ \A g \in wk'[t].garbage : g.lines = n => g \in wk[t].garbage
             /\ (shown'[t][n] = shown[t][n] /\ (Excused(t, n) => Excused(t, n)')) \/ ShowsAsDue(t, n)
  <2>1. CASE t = s
    BY <2>1, Zenon
  <2>2. CASE t # s
    <3>1. toMaster'[t] = toMaster[t] /\ toWorker'[t] = toWorker[t] /\ wk'[t] = wk[t] /\ shown'[t] = shown[t]
      BY <2>2, Zenon DEF Apart
    <3>2. toMaster[t] \in Seq(HubMsg(WorkerTypes)) /\ toWorker[t] \in Seq(HubMsg(MasterTypes))
      BY <1>1, Zenon
    <3>3. Thins(toMaster[t], toMaster'[t], n) /\ Thins(toWorker[t], toWorker'[t], n)
      BY <3>1, <3>2, ThinSame, Zenon
    <3>4. Excused(t, n) => Excused(t, n)'
      BY <3>1, Zenon DEF Excused, Session, Live
    <3> QED  BY <3>1, <3>3, <3>4, Zenon
  <2> QED  BY <2>1, <2>2, Zenon
<1> QED  BY <1>2, <1>3, FeedFrame, Zenon DEF Aside

(* What a worker sends besides attacks and feeds.                          *)
LEMMA ThinSays ==
    ASSUME TypeOK, NEW n \in 1..MaxAttacks, NEW s \in Slots, NEW type, NEW id, Says(s, Msg(type, id))
    PROVE  Thins(toMaster[s], toMaster'[s], n)
<1>1. toMaster[s] \in Seq(HubMsg(WorkerTypes)) /\ Msg(type, id).lines # n
  BY DEF TypeOK, HubTypeOK, Msg
<1> QED  BY <1>1, ThinSame, ThinAppend, Zenon DEF Says

(* A room that stays as it is excuses what it excused.                     *)
LEMMA ExcusedSame ==
    ASSUME NEW n, NEW s \in Slots, Seated(s), victimOf'[n] = victimOf[n]
    PROVE  Excused(s, n) => Excused(s, n)'
BY Zenon DEF Excused, Seated

(* A line clear starts the next attack, of which nothing is known          *)
(* (engine.c:44-108).                                                      *)
LEMMA FeedClears ==
    ASSUME TypeOK, NEW n \in 1..MaxAttacks, Feeds(n), NEW s \in Slots, NEW p, Apart(s), Clears(s, p)
    PROVE  Feeds(n)'
<1>1. /\ toMaster[s] \in Seq(HubMsg(WorkerTypes)) /\ toWorker[s] \in Seq(HubMsg(MasterTypes))
      /\ attacks \in Nat /\ attacks' = attacks + 1
      /\ UNCHANGED <<toMaster, toWorker, shown, victimOf>>
  BY DEF TypeOK, HubTypeOK, FloorTypeOK, Clears
<1>2. CASE n # attacks + 1
  <2>1. \A g \in wk'[s].garbage : g.lines = n => g \in wk[s].garbage
    BY <1>2 DEF Clears
  <2>2. Excused(s, n) => Excused(s, n)'
    BY <1>1, ExcusedSame, Zenon DEF Clears
  <2>3. Thins(toMaster[s], toMaster'[s], n) /\ Thins(toWorker[s], toWorker'[s], n)
    BY <1>1, ThinSame, Zenon
  <2> QED  BY <1>1, <2>1, <2>2, <2>3, FeedAside, Zenon
<1>3. CASE n = attacks + 1
  <2>1. n > attacks /\ ~(n <= attacks) /\ n <= attacks'
    BY <1>1, <1>3
  <2>2. \A t \in Slots : Traceless(t, n)
    BY <2>1, Zenon DEF Feeds, Holders
  <2>3. \A t \in Slots : Traceless(t, n)'
    BY <1>1, <2>2, Zenon DEF Traceless
  <2>4. \A t \in Slots : \A g \in wk[t].garbage : g.lines # n
    BY <2>1, Zenon DEF Feeds, Holders, Held
  <2>5. \A t \in Slots : \A g \in wk'[t].garbage : g.lines = n => t = s /\ g = [who |-> p, lines |-> attacks + 1]
    BY <2>4, Zenon DEF Apart, Clears
  <2> QED  BY <2>1, <2>3, <2>5, FeedTraceless, Zenon
<1> QED  BY <1>2, <1>3, Zenon

(* What the room's end shows is what it was due (room.c:166-176, 260-280). *)
LEMMA FeedReads ==
    ASSUME TypeOK, NEW n \in 1..MaxAttacks, Feeds(n), NEW s \in Slots, Apart(s), Reads(s)
    PROVE  Feeds(n)'
<1>1. /\ toMaster[s] \in Seq(HubMsg(WorkerTypes)) /\ toWorker[s] \in Seq(HubMsg(MasterTypes))
      /\ shown \in [Slots -> [1..MaxAttacks -> Nat]]
      /\ toWorker[s] # <<>> /\ toWorker'[s] = Tail(toWorker[s]) /\ UNCHANGED <<toMaster, victimOf, attacks>>
  BY Zenon DEF TypeOK, HubTypeOK, FloorTypeOK, Reads
<1>2. Thins(toMaster[s], toMaster'[s], n) /\ Thins(toWorker[s], toWorker'[s], n)
  BY <1>1, ThinSame, Zenon
<1>3. \A g \in wk'[s].garbage : g.lines = n => g \in wk[s].garbage
  BY Zenon DEF Reads, Standings
<1>4. Excused(s, n) => Excused(s, n)'
  BY <1>1, ExcusedSame, Zenon DEF Reads
<1>h. Head(toWorker[s]) = toWorker[s][1] /\ 1 \in DOMAIN toWorker[s]
  BY <1>1
<1>5. PICK m : m = Head(toWorker[s]) /\ m = toWorker[s][1] /\ 1 \in DOMAIN toWorker[s]
  BY <1>h, Zenon
<1>6. CASE shown'[s][n] = shown[s][n]
  BY <1>1, <1>2, <1>3, <1>4, <1>6, FeedAside, Zenon
<1>7. CASE shown'[s][n] # shown[s][n]
  <2>1. /\ m.type = "FEED" \/ (m.type = "GARBAGE" /\ m.id \in Session(s))
        /\ m.lines = n /\ shown'[s][n] = shown[s][n] + 1 /\ shown[s][n] \in Nat
    <3>1. PICK l : l = m.lines
      BY Zenon
    <3>2. /\ m.type = "FEED" \/ (m.type = "GARBAGE" /\ m.id \in Session(s))
          /\ shown' = [shown EXCEPT ![s][l] = @ + 1]
      BY <1>5, <1>7, <3>1, Zenon DEF Reads, broadcast_feed
    <3>3. l = n /\ shown'[s][n] = shown[s][n] + 1 /\ shown[s][n] \in Nat
      BY <1>1, <1>7, <3>2, Zenon
    <3> QED  BY <3>1, <3>2, <3>3, Zenon
  <2>2. 1 \in On(toWorker[s], m.type, n)
    BY <1>5, <2>1, Zenon DEF On
  <2>3. ~Traceless(s, n)
    BY <2>1, <2>2, Zenon DEF Traceless
  <2>4. CASE m.type = "GARBAGE"
    <3>1. Excused(s, n)
      BY <1>5, <2>1, <2>2, <2>4 DEF Feeds, Victims, Excused
    <3>2. ShowsAsDue(s, n)
      BY <1>4, <2>3, <3>1, Zenon DEF ShowsAsDue, ShownMost
    <3> QED  BY <1>1, <1>2, <1>3, <3>2, FeedAside, Zenon
  <2>5. CASE m.type = "FEED"
    <3>1. 1 \in On(toWorker[s], "FEED", n)
      BY <2>2, <2>5, Zenon
    <3>2. \A k \in On(toWorker[s], "FEED", n) : k = 1
      BY <3>1, Zenon DEF Feeds, FeedDown
    <3>3. On(toWorker'[s], "FEED", n) = {}
      <4>1. \A k \in DOMAIN Tail(toWorker[s]) : k \in Nat /\ k # 0 /\ k + 1 # 1
                                                /\ k + 1 \in DOMAIN toWorker[s] /\ Tail(toWorker[s])[k] = toWorker[s][k + 1]
        BY <1>1
      <4> QED  BY <1>1, <3>2, <4>1 DEF On
    <3>4. \A t \in Slots : On(toMaster[t], "FEED", n) = {}
      BY <3>1, Zenon DEF Feeds, FeedUp
    <3>5. ShownMost(s, n, 0)
      BY <3>1, Zenon DEF Feeds, FeedDown
    <3>6. ShownMost(s, n, 1)'
      BY <1>4, <2>1, <3>5 DEF ShownMost
    <3>7. ShowsAsDue(s, n)
      BY <2>3, <3>3, <3>4, <3>6, Zenon DEF ShowsAsDue
    <3> QED  BY <1>1, <1>2, <1>3, <3>7, FeedAside, Zenon
  <2> QED  BY <2>1, <2>4, <2>5, Zenon
<1> QED  BY <1>6, <1>7, Zenon

(* An attack is routed: its one feed goes up, after the attack if the      *)
(* victim is elsewhere (room.c:307-350).                                   *)
LEMMA FeedRoutes ==
    ASSUME TypeOK, NEW n \in 1..MaxAttacks, Feeds(n), NEW s \in Slots, NEW g, NEW v, Apart(s), Routes(s, g, v)
    PROVE  Feeds(n)'
<1>1. /\ toMaster[s] \in Seq(HubMsg(WorkerTypes)) /\ toWorker[s] \in Seq(HubMsg(MasterTypes))
      /\ shown \in [Slots -> [1..MaxAttacks -> Nat]] /\ victimOf \in [1..MaxAttacks -> Nat]
      /\ UNCHANGED <<toWorker, attacks>> /\ g \in wk[s].garbage /\ wk'[s].garbage = wk[s].garbage \ {g}
  BY Zenon DEF TypeOK, HubTypeOK, FloorTypeOK, Routes
<1>2. PICK l, a, f : l = g.lines /\ a = AttackMsg("ATTACK", [attacker |-> g.who, victim |-> v, lines |-> g.lines])
                     /\ f = AttackMsg("FEED", [attacker |-> g.who, victim |-> v, lines |-> g.lines])
  BY Zenon
<1>3. a.type = "ATTACK" /\ a.lines = l /\ a.id = v /\ f.type = "FEED" /\ f.lines = l
  BY <1>2, Zenon DEF AttackMsg
<1>4. victimOf' = [victimOf EXCEPT ![l] = v]
  BY <1>2, Zenon DEF Routes
<1>5. \/ UNCHANGED <<shown, toMaster>>
      \/ /\ shown' = [shown EXCEPT ![s][l] = @ + 1]
         /\ toMaster'[s] \in {toMaster[s], Append(toMaster[s], f), Append(Append(toMaster[s], a), f)}
  BY <1>2, Zenon DEF Routes, Says, broadcast_feed
<1>6. CASE l # n
  <2>1. victimOf'[n] = victimOf[n] /\ shown'[s][n] = shown[s][n]
    BY <1>1, <1>4, <1>5, <1>6, Zenon
  <2>2. Thins(toMaster[s], toMaster'[s], n)
    <3>1. Thins(toMaster[s], toMaster[s], n)
      BY <1>1, ThinSame, Zenon
    <3>2. Thins(toMaster[s], Append(toMaster[s], f), n)
      BY <1>1, <1>3, <1>6, ThinAppend, Zenon
    <3>3. Thins(toMaster[s], Append(Append(toMaster[s], a), f), n)
      BY <1>1, <1>3, <1>6, ThinTwo, Zenon
    <3>4. toMaster'[s] \in {toMaster[s], Append(toMaster[s], f), Append(Append(toMaster[s], a), f)}
      BY <1>5, Zenon
    <3> QED  BY <3>1, <3>2, <3>3, <3>4, Zenon
  <2>3. Thins(toWorker[s], toWorker'[s], n)
    BY <1>1, ThinSame, Zenon
  <2>4. Excused(s, n) => Excused(s, n)'
    BY <2>1, ExcusedSame, Zenon DEF Routes
  <2> QED  BY <1>1, <2>1, <2>2, <2>3, <2>4, FeedAside, Zenon
<1>7. CASE l = n
  <2>1. /\ n <= attacks' /\ \A t \in Slots : Traceless(t, n)
    BY <1>1, <1>2, <1>7, Zenon DEF Feeds, Holders, Held
  <2>2. \A t \in Slots : \A h \in wk'[t].garbage : h.lines # n
    <3>1. \A t \in Slots : \A h \in wk[t].garbage : h.lines = n => t = s /\ h = g
      BY <1>1, <1>2, <1>7, Zenon DEF Feeds, Holders
    <3> QED  BY <1>1, <3>1, Zenon DEF Apart
  <2>3. CASE UNCHANGED <<shown, toMaster>>
    <3>1. \A t \in Slots : Traceless(t, n)'
      BY <1>1, <2>1, <2>3, Zenon DEF Traceless
    <3> QED  BY <2>1, <2>2, <3>1, FeedTraceless, Zenon
  <2>4. CASE ~UNCHANGED <<shown, toMaster>>
    <3>1. /\ shown'[s][n] = shown[s][n] + 1
          /\ toMaster'[s] \in {toMaster[s], Append(toMaster[s], f), Append(Append(toMaster[s], a), f)}
      <4>1. /\ shown' = [shown EXCEPT ![s][n] = @ + 1]
            /\ toMaster'[s] \in {toMaster[s], Append(toMaster[s], f), Append(Append(toMaster[s], a), f)}
        BY <1>5, <1>7, <2>4, Zenon
      <4> QED  BY <1>1, <4>1, Zenon
    <3>2. PICK q \in Seq(HubMsg(WorkerTypes)) : q = toMaster[s]
      BY <1>1, Zenon
    <3>3. \A k \in DOMAIN toMaster'[s] : \/ k \in DOMAIN q /\ toMaster'[s][k] = q[k]
                                         \/ toMaster'[s][k] = a
                                         \/ toMaster'[s][k] = f /\ k = Len(toMaster'[s])
      <4>1. PICK r : r = toMaster'[s]
        BY Zenon
      <4>2. CASE r = q
        BY <4>1, <4>2, Zenon
      <4>3. CASE r = Append(q, f)
        <5>1. \A k \in DOMAIN r : (k \in DOMAIN q /\ r[k] = q[k]) \/ (r[k] = f /\ k = Len(r))
          BY <4>3
        <5> QED  BY <4>1, <5>1, Zenon
      <4>4. CASE r = Append(Append(q, a), f)
        <5>1. \A k \in DOMAIN r : (k \in DOMAIN q /\ r[k] = q[k]) \/ r[k] = a \/ (r[k] = f /\ k = Len(r))
          BY <4>4
        <5> QED  BY <4>1, <5>1, Zenon
      <4> QED  BY <3>1, <3>2, <4>1, <4>2, <4>3, <4>4, Zenon
    <3>4. On(q, "ATTACK", n) = {} /\ On(q, "FEED", n) = {} /\ shown[s][n] = 0
      BY <2>1, <3>2, Zenon DEF Traceless
    <3>5. \A k \in On(toMaster'[s], "ATTACK", n) : toMaster'[s][k].id = v
      BY <1>3, <3>3, <3>4, Zenon DEF On
    <3>6. \A k \in On(toMaster'[s], "FEED", n) : k = Len(toMaster'[s])
      BY <1>3, <3>3, <3>4, Zenon DEF On
    <3>7. \A t \in Slots : On(toWorker'[t], "GARBAGE", n) = {} /\ On(toWorker'[t], "FEED", n) = {}
      BY <1>1, <2>1, Zenon DEF Traceless
    <3>8. \A t \in Slots : t # s => /\ On(toMaster'[t], "ATTACK", n) = {} /\ On(toMaster'[t], "FEED", n) = {}
                                    /\ shown'[t][n] = 0
      BY <2>1, Zenon DEF Traceless, Apart
    <3>9. Holders(n)'
      <4>1. ~(n > attacks')
        BY <1>1, <2>1 DEF TypeOK, FloorTypeOK
      <4>2. \A t \in Slots : ~Held(t, n)'
        BY <2>2, Zenon DEF Held
      <4> QED  BY <2>2, <4>1, <4>2, Zenon DEF Holders
    <3>10. Victims(n)'
      <4>1. victimOf'[n] = v
        BY <1>1, <1>4, <1>7, Zenon
      <4> QED  BY <3>5, <3>7, <3>8, <4>1, Zenon DEF Victims
    <3>11. FeedUp(n)'
      <4>1. \A t, u \in Slots : \A k \in On(toMaster'[t], "FEED", n), j \in On(toMaster'[u], "FEED", n) : t = u /\ k = j
        BY <3>6, <3>8, Zenon
      <4>2. \A t \in Slots : t # s => ShownMost(t, n, 0)'
        BY <3>8 DEF ShownMost
      <4>3. \A t, u \in Slots : On(toMaster'[u], "FEED", n) # {} /\ t # u => t # s
        BY <3>8, Zenon
      <4> QED  BY <3>7, <4>1, <4>2, <4>3, Zenon DEF FeedUp
    <3>12. FeedDown(n)'
      <4>1. \A t \in Slots : shown'[t][n] <= 1
        BY <3>1, <3>4, <3>8
      <4> QED  BY <3>7, <4>1, Zenon DEF FeedDown, ShownMost
    <3> QED  BY <3>9, <3>10, <3>11, <3>12, Zenon DEF Feeds
  <2> QED  BY <2>3, <2>4, Zenon
<1> QED  BY <1>6, <1>7, Zenon

(* FeedInv survives every step of a worker (room.c).                       *)
LEMMA FeedWorker ==
    ASSUME TypeOK, FeedInv, NEW s \in Slots, WorkerMove(s)
    PROVE  FeedInv'
<1> SUFFICES ASSUME NEW n \in 1..MaxAttacks
             PROVE  Feeds(n)'
  BY Zenon DEF FeedInv
<1>0. Feeds(n) /\ Apart(s)
  BY Zenon DEF FeedInv, WorkerMove
<1>1. toMaster[s] \in Seq(HubMsg(WorkerTypes)) /\ toWorker[s] \in Seq(HubMsg(MasterTypes))
  BY Zenon DEF TypeOK, HubTypeOK
<1>2. ASSUME UNCHANGED <<shown, victimOf, attacks>>, Thins(toMaster[s], toMaster'[s], n),
             Thins(toWorker[s], toWorker'[s], n), wk'[s].garbage \subseteq wk[s].garbage,
             Excused(s, n) => Excused(s, n)'
      PROVE  Feeds(n)'
  BY <1>0, <1>2, FeedAside, Zenon
<1>3. ASSUME UNCHANGED toMaster PROVE Thins(toMaster[s], toMaster'[s], n)
  BY <1>1, <1>3, ThinSame, Zenon
<1>4. ASSUME UNCHANGED toWorker PROVE Thins(toWorker[s], toWorker'[s], n)
  BY <1>1, <1>4, ThinSame, Zenon
<1>5. CASE Ends(s)
  <2>1. wk'[s].garbage = {} /\ Excused(s, n)'
    BY <1>5 DEF Ends, Process, Excused, Live
  <2>2. Thins(toWorker[s], toWorker'[s], n)
    BY <1>1, <1>5, ThinSame, Zenon DEF Ends
  <2>3. UNCHANGED <<toMaster, shown, victimOf, attacks>>
    BY <1>5, Zenon DEF Ends
  <2> QED  BY <1>2, <1>3, <2>1, <2>2, <2>3, Zenon
<1>6. ASSUME Seated(s), wk'[s].garbage = wk[s].garbage, UNCHANGED <<toWorker, shown, victimOf, attacks>>,
             UNCHANGED toMaster \/ \E type, id : Says(s, Msg(type, id))
      PROVE  Feeds(n)'
  <2>1. Excused(s, n) => Excused(s, n)'
    BY <1>6, ExcusedSame, Zenon
  <2>2. Thins(toMaster[s], toMaster'[s], n)
    BY <1>3, <1>6, ThinSays, Zenon
  <2> QED  BY <1>2, <1>4, <1>6, <2>1, <2>2, Zenon
<1>7. CASE Moves(s)
  BY <1>6, <1>7, Zenon DEF Moves, Standings
<1>8. CASE Boots(s)
  BY <1>6, <1>8, Zenon DEF Boots, Standings
<1>9. CASE Reads(s)
  BY <1>0, <1>9, FeedReads, Zenon
<1>10. ASSUME NEW p, Joins(s, p)
       PROVE  Feeds(n)'
  <2>1. /\ UNCHANGED <<toWorker, shown, victimOf, attacks>> /\ Says(s, Msg("JOINED", p))
        /\ wk'[s].garbage = wk[s].garbage /\ Live(s) /\ Live(s)' /\ Session(s) \subseteq Session(s)'
    BY <1>10, Zenon DEF Joins, Standings
  <2>2. Excused(s, n) => Excused(s, n)'
    BY <2>1, Zenon DEF Excused
  <2>3. Thins(toMaster[s], toMaster'[s], n)
    BY <2>1, ThinSays, Zenon
  <2> QED  BY <1>2, <1>4, <2>1, <2>2, <2>3, Zenon
<1>11. ASSUME NEW p, Falls(s, p)
       PROVE  Feeds(n)'
  BY <1>6, <1>11, Zenon DEF Falls
<1>12. ASSUME NEW p, Tells(s, p)
       PROVE  Feeds(n)'
  BY <1>6, <1>12, Zenon DEF Tells
<1>13. ASSUME NEW p, Clears(s, p)
       PROVE  Feeds(n)'
  BY <1>0, <1>13, FeedClears, Zenon
<1>14. ASSUME NEW g, NEW v, Routes(s, g, v)
       PROVE  Feeds(n)'
  BY <1>0, <1>14, FeedRoutes, Zenon
<1> QED  BY <1>5, <1>7, <1>8, <1>9, <1>10, <1>11, <1>12, <1>13, <1>14 DEF WorkerMove

(* Where attack n lies once a message is added to the queue of room t.     *)
LEMMA OnAppend ==
    ASSUME TypeOK, NEW n, NEW t \in Slots, NEW m, toWorker'[t] = Append(toWorker[t], m)
    PROVE  \A type \in {"FEED", "GARBAGE"} :
             /\ \A k \in On(toWorker'[t], type, n) :
                  \/ k \in On(toWorker[t], type, n) /\ toWorker'[t][k] = toWorker[t][k]
                  \/ k = Len(toWorker[t]) + 1 /\ toWorker'[t][k] = m
             /\ m.type # type => /\ On(toWorker'[t], type, n) = On(toWorker[t], type, n)
                                 /\ \A k \in On(toWorker[t], type, n) : toWorker'[t][k] = toWorker[t][k]
<1>1. toWorker[t] \in Seq(HubMsg(MasterTypes))
  BY Zenon DEF TypeOK, HubTypeOK
<1>2. PICK q, r : /\ q = toWorker[t] /\ r = toWorker'[t]
                  /\ q \in Seq(HubMsg(MasterTypes)) /\ r = Append(q, m)
  BY <1>1, Zenon
<1>3. /\ \A k \in DOMAIN r : (k \in DOMAIN q /\ r[k] = q[k]) \/ (k = Len(q) + 1 /\ r[k] = m)
      /\ \A k \in DOMAIN q : k \in DOMAIN r /\ r[k] = q[k]
  BY <1>2
<1>4. ASSUME NEW type \in {"FEED", "GARBAGE"}
      PROVE  \A k \in On(r, type, n) : (k \in On(q, type, n) /\ r[k] = q[k]) \/ (k = Len(q) + 1 /\ r[k] = m)
  BY <1>3, Zenon DEF On
<1>5. ASSUME NEW type \in {"FEED", "GARBAGE"}, m.type # type
      PROVE  On(r, type, n) = On(q, type, n) /\ \A k \in On(q, type, n) : r[k] = q[k]
  BY <1>3, <1>5, Zenon DEF On
<1> QED  BY <1>2, <1>4, <1>5, Zenon

(* What the master hears, and the queue of a room it closes.               *)
LEMMA ThinHeard ==
    ASSUME TypeOK, NEW n, NEW s \in Slots, NEW t \in Slots,
           \/ \E type : Heard(s, type)
           \/ toMaster' = [toMaster EXCEPT ![s] = <<>>]
           \/ UNCHANGED toMaster
    PROVE  Thins(toMaster[t], toMaster'[t], n)
<1>1. toMaster \in [Slots -> Seq(HubMsg(WorkerTypes))] /\ toMaster[t] \in Seq(HubMsg(WorkerTypes))
  BY Zenon DEF TypeOK, HubTypeOK
<1>2. \/ toMaster'[t] = toMaster[t] \/ toMaster'[t] = <<>>
      \/ toMaster[t] # <<>> /\ toMaster'[t] = Tail(toMaster[t])
  BY <1>1, Zenon DEF Heard
<1> QED  BY <1>1, <1>2, ThinSame, Zenon

(* A step of the master that is not about attack n.                        *)
LEMMA FeedMasterAside ==
    ASSUME NEW n, Feeds(n), UNCHANGED <<wk, shown, victimOf, attacks>>,
           \A t \in Slots : Thins(toMaster[t], toMaster'[t], n) /\ Thins(toWorker[t], toWorker'[t], n)
    PROVE  Feeds(n)'
<1>1. \A t \in Slots : Excused(t, n) => Excused(t, n)'
  BY Zenon DEF Excused, Session, Live
<1> QED  BY <1>1, FeedFrame, Zenon DEF Aside

(* A message about attack n reached the master: nobody holds n any more.   *)
LEMMA HeldNoMore ==
    ASSUME TypeOK, NEW n \in 1..MaxAttacks, Feeds(n), UNCHANGED <<wk, attacks>>, NEW s \in Slots,
           On(toMaster[s], "ATTACK", n) # {} \/ On(toMaster[s], "FEED", n) # {}
    PROVE  Holders(n)'
<1>1. ~Traceless(s, n)
  BY Zenon DEF Traceless
<1>2. ~(n > attacks) /\ \A t \in Slots : ~Held(t, n)
  BY <1>1, Zenon DEF Feeds, Holders
<1>3. ~(n > attacks') /\ \A t \in Slots : ~Held(t, n)'
  BY <1>2, Zenon DEF Held
<1> QED  BY <1>3, Zenon DEF Holders, Held

(* The master relays attack n to the room of its victim (main.c:380-396).  *)
LEMMA FeedAttack ==
    ASSUME TypeOK, NEW n \in 1..MaxAttacks, Feeds(n), UNCHANGED <<wk, shown, victimOf, attacks>>,
           NEW s \in Slots, HandleAttack(s)
    PROVE  Feeds(n)'
<1>1. /\ toMaster[s] \in Seq(HubMsg(WorkerTypes)) /\ toMaster[s] # <<>>
      /\ \A t \in Slots : toWorker[t] \in Seq(HubMsg(MasterTypes))
  BY Zenon DEF TypeOK, HubTypeOK, HandleAttack, Heard
<1>2. Head(toMaster[s]) = toMaster[s][1] /\ 1 \in DOMAIN toMaster[s] /\ Head(toMaster[s]) \in HubMsg(WorkerTypes)
  BY <1>1
<1>3. PICK h, g : h = Head(toMaster[s]) /\ g = [h EXCEPT !.type = "GARBAGE"]
  BY Zenon
<1>4. h = toMaster[s][1] /\ h.type = "ATTACK" /\ g.type = "GARBAGE" /\ g.lines = h.lines /\ g.id = h.id
  BY <1>2, <1>3, Zenon DEF HubMsg, HandleAttack, Heard
<1>5. \A t \in Slots : toWorker'[t] = toWorker[t] \/ toWorker'[t] = Append(toWorker[t], g)
  BY <1>3, Zenon DEF HandleAttack, Send, hub_send
<1>6. \A t \in Slots : Thins(toMaster[t], toMaster'[t], n)
  BY ThinHeard, Zenon DEF HandleAttack
<1>7. CASE h.lines # n
  <2>1. \A t \in Slots : Thins(toWorker[t], toWorker'[t], n)
    <3> TAKE t \in Slots
    <3>1. Thins(toWorker[t], toWorker[t], n)
      BY <1>1, ThinSame, Zenon
    <3>2. Thins(toWorker[t], Append(toWorker[t], g), n)
      BY <1>1, <1>4, <1>7, ThinAppend, Zenon
    <3> QED  BY <1>5, <3>1, <3>2, Zenon
  <2> QED  BY <1>6, <2>1, FeedMasterAside, Zenon
<1>8. CASE h.lines = n
  <2>1. 1 \in On(toMaster[s], "ATTACK", n)
    BY <1>2, <1>4, <1>8, Zenon DEF On
  <2>2. g.id = victimOf[n]
    BY <1>4, <2>1, Zenon DEF Feeds, Victims
  <2>3. Holders(n)'
    BY <2>1, HeldNoMore, Zenon
  <2>4. \A t \in Slots : \A type \in {"ATTACK", "FEED"} : \E d \in Nat : \A k \in On(toMaster'[t], type, n) :
          k \in Nat /\ k + d \in On(toMaster[t], type, n) /\ toMaster'[t][k] = toMaster[t][k + d]
    BY <1>6, ThinOn
  <2>5. \A t \in Slots : On(toWorker'[t], "FEED", n) = On(toWorker[t], "FEED", n)
    <3> TAKE t \in Slots
    <3>1. g.type # "FEED" /\ toWorker[t] \in Seq(HubMsg(MasterTypes))
      BY <1>1, <1>4, Zenon
    <3>2. toWorker'[t] = Append(toWorker[t], g) => On(toWorker'[t], "FEED", n) = On(toWorker[t], "FEED", n)
      BY <3>1, OnAppend, Zenon
    <3> QED  BY <1>5, <3>2, Zenon
  <2>6. \A t \in Slots : \A k \in On(toWorker'[t], "GARBAGE", n) : toWorker'[t][k].id = victimOf[n]
    <3> SUFFICES ASSUME NEW t \in Slots, NEW k \in On(toWorker'[t], "GARBAGE", n)
                 PROVE  toWorker'[t][k].id = victimOf[n]
      BY Zenon
    <3>1. (k \in On(toWorker[t], "GARBAGE", n) /\ toWorker'[t][k] = toWorker[t][k]) \/ toWorker'[t][k] = g
      <4>1. toWorker[t] \in Seq(HubMsg(MasterTypes))
        BY <1>1, Zenon
      <4>2. CASE toWorker'[t] = toWorker[t]
        BY <4>2, Zenon
      <4>3. CASE toWorker'[t] = Append(toWorker[t], g)
        BY <4>1, <4>3, OnAppend, Zenon
      <4> QED  BY <1>5, <4>2, <4>3, Zenon
    <3> QED  BY <2>2, <3>1, Zenon DEF Feeds, Victims
  <2>7. Victims(n)'
    BY <2>4, <2>6 DEF Feeds, Victims
  <2>8. \A t \in Slots : ShownMost(t, n, 0) = ShownMost(t, n, 0)' /\ ShownMost(t, n, 1) = ShownMost(t, n, 1)'
    BY Zenon DEF ShownMost, Excused, Session, Live
  <2>9. FeedUp(n)'
    <3>1. \A t \in Slots : On(toMaster'[t], "FEED", n) # {} => On(toMaster[t], "FEED", n) # {}
      BY <2>4, Zenon
    <3>2. ASSUME NEW t \in Slots, NEW u \in Slots,
                 NEW k \in On(toMaster'[t], "FEED", n), NEW l \in On(toMaster'[u], "FEED", n)
          PROVE  t = u /\ k = l
      <4>1. t = u
        BY <3>1, <3>2 DEF Feeds, FeedUp
      <4>2. PICK d \in Nat : k \in Nat /\ l \in Nat /\ k + d \in On(toMaster[t], "FEED", n) /\ l + d \in On(toMaster[t], "FEED", n)
        BY <2>4, <3>2, <4>1, Zenon
      <4>3. k + d = l + d
        BY <4>2, Zenon DEF Feeds, FeedUp
      <4> QED  BY <4>1, <4>2, <4>3
    <3>3. \A t, u \in Slots : On(toMaster'[u], "FEED", n) # {} =>
            On(toWorker'[t], "FEED", n) = {} /\ (t # u => ShownMost(t, n, 0)')
      BY <2>5, <2>8, <3>1, Zenon DEF Feeds, FeedUp
    <3> QED  BY <3>2, <3>3, Zenon DEF FeedUp
  <2>10. FeedDown(n)'
    BY <2>5, <2>8, Zenon DEF Feeds, FeedDown
  <2> QED  BY <2>3, <2>7, <2>9, <2>10, Zenon DEF Feeds
<1> QED  BY <1>7, <1>8, Zenon

(* The master passes the one feed of attack n to every other room          *)
(* (main.c:398-410).                                                       *)
LEMMA FeedFeed ==
    ASSUME TypeOK, NEW n \in 1..MaxAttacks, Feeds(n), UNCHANGED <<wk, shown, victimOf, attacks>>,
           NEW s \in Slots, HandleFeed(s)
    PROVE  Feeds(n)'
<1>1. /\ toMaster[s] \in Seq(HubMsg(WorkerTypes)) /\ toMaster[s] # <<>>
      /\ \A t \in Slots : toWorker[t] \in Seq(HubMsg(MasterTypes))
  BY Zenon DEF TypeOK, HubTypeOK, HandleFeed, Heard
<1>2. Head(toMaster[s]) = toMaster[s][1] /\ 1 \in DOMAIN toMaster[s]
  BY <1>1
<1>3. PICK h : h = Head(toMaster[s]) /\ h = toMaster[s][1] /\ h.type = "FEED"
  BY <1>2, Zenon DEF HandleFeed, Heard
<1>4. /\ \A t \in Slots : toWorker'[t] = toWorker[t] \/ toWorker'[t] = Append(toWorker[t], h)
      /\ toWorker'[s] = toWorker[s]
  BY <1>3, Zenon DEF HandleFeed, Send, hub_send, Elsewhere
<1>5. \A t \in Slots : Thins(toMaster[t], toMaster'[t], n)
  BY ThinHeard, Zenon DEF HandleFeed
<1>6. CASE h.lines # n
  <2>1. \A t \in Slots : Thins(toWorker[t], toWorker'[t], n)
    <3> TAKE t \in Slots
    <3>1. Thins(toWorker[t], toWorker[t], n)
      BY <1>1, ThinSame, Zenon
    <3>2. Thins(toWorker[t], Append(toWorker[t], h), n)
      BY <1>1, <1>6, ThinAppend, Zenon
    <3> QED  BY <1>4, <3>1, <3>2, Zenon
  <2> QED  BY <1>5, <2>1, FeedMasterAside, Zenon
<1>7. CASE h.lines = n
  <2>1. 1 \in On(toMaster[s], "FEED", n)
    BY <1>2, <1>3, <1>7, Zenon DEF On
  <2>2. Holders(n)'
    BY <2>1, HeldNoMore, Zenon
  <2>3. \A t \in Slots : On(toMaster'[t], "FEED", n) = {}
    <3> SUFFICES ASSUME NEW t \in Slots, NEW k \in On(toMaster'[t], "FEED", n)
                 PROVE  FALSE
      BY Zenon
    <3>1. CASE t # s
      <4>1. toMaster'[t] = toMaster[t]
        BY <3>1, Zenon DEF HandleFeed, Heard, TypeOK, HubTypeOK
      <4> QED  BY <2>1, <3>1, <4>1, Zenon DEF Feeds, FeedUp
    <3>2. CASE t = s
      <4>1. toMaster'[s] = Tail(toMaster[s])
        BY Zenon DEF HandleFeed, Heard, TypeOK, HubTypeOK
      <4>2. \A j \in DOMAIN Tail(toMaster[s]) :
              j + 1 # 1 /\ j + 1 \in DOMAIN toMaster[s] /\ Tail(toMaster[s])[j] = toMaster[s][j + 1]
        BY <1>1
      <4>3. k + 1 # 1 /\ k + 1 \in On(toMaster[s], "FEED", n)
        BY <3>2, <4>1, <4>2, Zenon DEF On
      <4> QED  BY <2>1, <4>3, Zenon DEF Feeds, FeedUp
    <3> QED  BY <3>1, <3>2, Zenon
  <2>4. \A t \in Slots : On(toWorker[t], "FEED", n) = {} /\ (t # s => ShownMost(t, n, 0))
    BY <2>1, Zenon DEF Feeds, FeedUp
  <2>5. \A t \in Slots : ShownMost(t, n, 0) = ShownMost(t, n, 0)' /\ ShownMost(t, n, 1) = ShownMost(t, n, 1)'
    BY Zenon DEF ShownMost, Excused, Session, Live
  <2>6. ASSUME NEW t \in Slots
        PROVE  /\ \A k \in On(toWorker'[t], "FEED", n) : k = Len(toWorker[t]) + 1
               /\ \A k \in On(toWorker'[t], "GARBAGE", n) : toWorker'[t][k].id = victimOf[n]
    <3>1. toWorker[t] \in Seq(HubMsg(MasterTypes)) /\ h.type # "GARBAGE"
      BY <1>1, <1>3, Zenon
    <3>2. \A k \in On(toWorker[t], "GARBAGE", n) : toWorker[t][k].id = victimOf[n]
      BY Zenon DEF Feeds, Victims
    <3>3. CASE toWorker'[t] = toWorker[t]
      BY <2>4, <3>2, <3>3, Zenon
    <3>4. CASE toWorker'[t] = Append(toWorker[t], h)
      <4>1. /\ On(toWorker'[t], "GARBAGE", n) = On(toWorker[t], "GARBAGE", n)
            /\ \A k \in On(toWorker[t], "GARBAGE", n) : toWorker'[t][k] = toWorker[t][k]
        BY <3>1, <3>4, OnAppend, Zenon
      <4>2. \A k \in On(toWorker'[t], "FEED", n) : k \in On(toWorker[t], "FEED", n) \/ k = Len(toWorker[t]) + 1
        BY <3>1, <3>4, OnAppend, Zenon
      <4> QED  BY <2>4, <3>2, <4>1, <4>2, Zenon
    <3> QED  BY <1>4, <3>3, <3>4, Zenon
  <2>7. Victims(n)'
    <3>1. \A t \in Slots : \A k \in On(toMaster'[t], "ATTACK", n) : toMaster'[t][k].id = victimOf[n]
      <4> SUFFICES ASSUME NEW t \in Slots, NEW k \in On(toMaster'[t], "ATTACK", n)
                   PROVE  toMaster'[t][k].id = victimOf[n]
        BY Zenon
      <4>1. \E j \in On(toMaster[t], "ATTACK", n) : toMaster'[t][k] = toMaster[t][j]
        BY <1>5, ThinOn
      <4> QED  BY <4>1, Zenon DEF Feeds, Victims
    <3> QED  BY <2>6, <3>1, Zenon DEF Victims
  <2>8. FeedUp(n)'
    BY <2>3, Zenon DEF FeedUp
  <2>9. FeedDown(n)'
    <3>1. \A t \in Slots : ShownMost(t, n, 1)'
      BY <2>5, Zenon DEF Feeds, FeedDown
    <3>2. \A t \in Slots : On(toWorker'[t], "FEED", n) # {} => ShownMost(t, n, 0)'
      BY <1>4, <2>4, <2>5, Zenon
    <3> QED  BY <2>6, <3>1, <3>2, Zenon DEF FeedDown
  <2> QED  BY <2>2, <2>7, <2>8, <2>9, Zenon DEF Feeds
<1> QED  BY <1>6, <1>7, Zenon

(* FeedInv survives every step of the master (main.c).                     *)
LEMMA FeedMaster ==
    ASSUME TypeOK, FeedInv, MasterMove
    PROVE  FeedInv'
<1> SUFFICES ASSUME NEW n \in 1..MaxAttacks
             PROVE  Feeds(n)'
  BY Zenon DEF FeedInv
<1>0. Feeds(n) /\ UNCHANGED <<wk, shown, victimOf, attacks>> /\ toWorker \in [Slots -> Seq(HubMsg(MasterTypes))]
  BY Zenon DEF FeedInv, MasterMove, TypeOK, HubTypeOK
<1>1. ASSUME NEW K, Longer(toWorker, toWorker', K), NEW s \in Slots,
             \/ \E type : Heard(s, type)
             \/ toMaster' = [toMaster EXCEPT ![s] = <<>>]
             \/ UNCHANGED toMaster
      PROVE  Feeds(n)'
  <2>1. \A t \in Slots : Thins(toMaster[t], toMaster'[t], n)
    BY <1>1, ThinHeard, Zenon
  <2>2. \A t \in Slots : Thins(toWorker[t], toWorker'[t], n)
    BY <1>0, <1>1, ThinLonger, Zenon
  <2> QED  BY <1>0, <2>1, <2>2, FeedMasterAside, Zenon
<1>2. CASE Tends
  <2>1. CASE \E s \in Slots : Heard(s, "READY")
    BY <1>1, <1>2, <2>1, Zenon DEF Tends
  <2>2. CASE UNCHANGED toMaster
    <3>1. \A t \in Slots : Thins(toMaster[t], toMaster'[t], n)
      BY <2>2, ThinHeard, Zenon
    <3>2. \A t \in Slots : Thins(toWorker[t], toWorker'[t], n)
      BY <1>0, <1>2, ThinLonger, Zenon DEF Tends
    <3> QED  BY <1>0, <3>1, <3>2, FeedMasterAside, Zenon
  <2> QED  BY <1>2, <2>1, <2>2, Zenon DEF Tends
<1>3. ASSUME NEW s \in Slots, Enrols(s)
      PROVE  Feeds(n)'
  BY <1>1, <1>3, Zenon DEF Enrols
<1>4. ASSUME NEW s \in Slots, Buries(s)
      PROVE  Feeds(n)'
  BY <1>1, <1>4, Zenon DEF Buries
<1>5. ASSUME NEW s \in Slots, Closes(s)
      PROVE  Feeds(n)'
  BY <1>1, <1>5, Zenon DEF Closes
<1>6. ASSUME NEW s \in Slots, HandleAttack(s)
      PROVE  Feeds(n)'
  BY <1>0, <1>6, FeedAttack, Zenon
<1>7. ASSUME NEW s \in Slots, HandleFeed(s)
      PROVE  Feeds(n)'
  BY <1>0, <1>7, FeedFeed, Zenon
<1> QED  BY <1>2, <1>3, <1>4, <1>5, <1>6, <1>7, Zenon DEF MasterMove

(* A forked worker finds empty queues and has shown nothing                *)
(* (main.c:124-177).                                                       *)
LEMMA FeedSpawns ==
    ASSUME TypeOK, FeedInv, NEW s \in Slots, Spawns(s)
    PROVE  FeedInv'
<1> SUFFICES ASSUME NEW n \in 1..MaxAttacks
             PROVE  Feeds(n)'
  BY Zenon DEF FeedInv
<1>1. /\ Feeds(n) /\ UNCHANGED <<victimOf, attacks>>
      /\ \A t \in Slots : toMaster[t] \in Seq(HubMsg(WorkerTypes)) /\ toWorker[t] \in Seq(HubMsg(MasterTypes))
  BY Zenon DEF FeedInv, TypeOK, HubTypeOK, Spawns
<1>2. ASSUME NEW t \in Slots, t # s
      PROVE  /\ Thins(toMaster[t], toMaster'[t], n) /\ Thins(toWorker[t], toWorker'[t], n)
             /\ \A g \in wk'[t].garbage : g.lines = n => g \in wk[t].garbage
             /\ shown'[t][n] = shown[t][n] /\ (Excused(t, n) => Excused(t, n)')
  <2>1. toMaster'[t] = toMaster[t] /\ toWorker'[t] = toWorker[t] /\ wk'[t] = wk[t] /\ shown'[t] = shown[t]
    BY <1>2, Zenon DEF Spawns
  <2>2. Thins(toMaster[t], toMaster'[t], n) /\ Thins(toWorker[t], toWorker'[t], n)
    BY <1>1, <2>1, ThinSame, Zenon
  <2>3. Excused(t, n) => Excused(t, n)'
    BY <1>1, <2>1, Zenon DEF Excused, Session, Live
  <2> QED  BY <2>1, <2>2, <2>3, Zenon
<1>3. /\ Thins(toMaster[s], toMaster'[s], n) /\ Thins(toWorker[s], toWorker'[s], n)
      /\ \A g \in wk'[s].garbage : g.lines = n => g \in wk[s].garbage
      /\ shown'[s][n] = 0
  <2>1. toMaster'[s] = <<>> /\ toWorker'[s] = <<>> /\ wk'[s].garbage = {} /\ shown'[s][n] = 0
    BY DEF Spawns, Process
  <2> QED  BY <1>1, <2>1, ThinSame, Zenon
<1>4. Aside(n)
  BY <1>1, <1>2, <1>3, Zenon DEF Aside
<1> QED  BY <1>1, <1>4, FeedFrame, Zenon

(* FeedInv holds from the first state on: an attack's feed goes up once,   *)
(* comes down once to every other room, and no room shows it twice.        *)
THEOREM FeedsInductive == ASSUME StaleClients = FALSE PROVE Spec => []FeedInv
<1>1. Init => FeedInv
  <2> SUFFICES ASSUME Init, NEW n \in 1..MaxAttacks PROVE Feeds(n)
    BY Zenon DEF FeedInv
  <2>1. attacks = 0 /\ \A s \in Slots : /\ wk[s] = Process("none", 0) /\ shown[s][n] = 0
                                        /\ toMaster[s] = <<>> /\ toWorker[s] = <<>>
    BY Zenon DEF Init
  <2>2. \A s \in Slots : Traceless(s, n) /\ ~Held(s, n) /\ wk[s].garbage = {}
    BY <2>1 DEF Traceless, On, Held, Process
  <2>3. \A s \in Slots : ShownMost(s, n, 0) /\ ShownMost(s, n, 1)
    BY <2>1 DEF ShownMost
  <2> QED  BY <2>2, <2>3, Zenon DEF Feeds, Holders, Victims, FeedUp, FeedDown, Traceless
<1>2. TypeOK /\ FeedInv /\ [Next]_vars => FeedInv'
  BY AnyMove, FeedWorker, FeedMaster, FeedSpawns, Zenon
<1> QED  BY <1>1, <1>2, Typing, PTL DEF Spec

(* The kill feed shows an attack once, in every room but the victim's      *)
(* (room.c:307-350, main.c:398-410).                                       *)
THEOREM FeedsShowOnce == ASSUME StaleClients = FALSE PROVE Spec => []FeedOnce
<1>1. TypeOK /\ FeedInv => FeedOnce
  <2> SUFFICES ASSUME TypeOK, FeedInv, NEW s \in Slots, NEW n \in 1..MaxAttacks, shown[s][n] > 1
               PROVE  victimOf[n] \in Session(s) \/ ~Live(s)
    BY Zenon DEF FeedOnce
  <2>1. shown[s][n] \in Nat
    BY Zenon DEF TypeOK, FloorTypeOK
  <2>2. ShownMost(s, n, 1)
    BY Zenon DEF FeedInv, Feeds, FeedDown
  <2> QED  BY <2>1, <2>2 DEF ShownMost, Excused
<1> QED  BY <1>1, FeedsInductive, Typing, PTL

-----------------------------------------------------------------------------
(* Rooms that start have players.                                          *)

Has(q, type) == \E i \in DOMAIN q : q[i].type = type

(* Room s has reported a player, or it is not ordered to start and the     *)
(* master has heard, and will hear, of none.                               *)
Peopled(s) ==
    \/ wk[s].reported > 0
    \/ /\ ~wk[s].ordered /\ ~Has(toWorker[s], "START")
       /\ Live(s) /\ room[s].used => ~(room[s].joined >= 1 \/ Has(toMaster[s], "JOINED"))

PeopleInv == \A s \in Slots : Peopled(s)

(* What a queue has after a send, and after the head was taken.            *)
LEMMA HasQueue ==
    ASSUME NEW M, NEW q \in Seq(M), NEW m \in M, NEW type
    PROVE  /\ m.type # type /\ Has(Append(q, m), type) => Has(q, type)
           /\ q # <<>> /\ Has(Tail(q), type) => Has(q, type)
           /\ q # <<>> /\ Head(q).type = type => Has(q, type)
<1>1. ASSUME m.type # type, Has(Append(q, m), type) PROVE Has(q, type)
  BY <1>1 DEF Has
<1>2. ASSUME q # <<>>, Has(Tail(q), type) PROVE Has(q, type)
  <2>1. PICK i \in DOMAIN Tail(q) : Tail(q)[i].type = type
    BY <1>2, Zenon DEF Has
  <2>2. i + 1 \in DOMAIN q /\ q[i + 1] = Tail(q)[i]
    BY <1>2
  <2> QED BY <2>1, <2>2, Zenon DEF Has
<1>3. ASSUME q # <<>>, Head(q).type = type PROVE Has(q, type)
  <2>1. 1 \in DOMAIN q /\ q[1] = Head(q)
    BY <1>3
  <2> QED BY <1>3, <2>1, Zenon DEF Has
<1> QED BY <1>1, <1>2, <1>3, Zenon

(* hub_send leaves no queue with a type that it does not send.             *)
LEMMA HasSend ==
    ASSUME NEW M, NEW q \in [Slots -> Seq(M)], NEW m \in M, NEW dest, NEW s \in Slots,
           NEW type, m.type # type, Has(hub_send(q, dest, m)[s], type)
    PROVE  Has(q[s], type)
<1>1. hub_send(q, dest, m)[s] \in {q[s], Append(q[s], m)} /\ q[s] \in Seq(M)
  BY Zenon DEF hub_send
<1> QED BY <1>1, HasQueue, Zenon

(* Only the rooms with players that it starts get a START.                 *)
LEMMA HasStart ==
    ASSUME NEW q \in [Slots -> Seq(HubMsg(MasterTypes))], NEW rm \in [Slots -> Room],
           NEW pl \in Seq(PlayerRec), NEW s \in Slots,
           Has(start_all_rooms(q, rm, pl)[s], "START")
    PROVE  Has(q[s], "START") \/ (Live(s) /\ rm[s].used /\ rm[s].joined >= 1)
<1> SUFFICES ASSUME ~(Live(s) /\ s \in Startable(rm)) PROVE Has(q[s], "START")
  BY Zenon DEF Startable, Used
<1>1. CASE ~(s \in Startable(rm) \cup Running(rm) /\ Live(s))
  BY <1>1, Zenon DEF start_all_rooms
<1>2. CASE s \in Startable(rm) \cup Running(rm) /\ Live(s)
  <2> DEFINE n == Cardinality({t \in Startable(rm) : s \in Running(rm) \/ t >= s})
             rosters == [i \in 1..n |-> RosterMsg(Standing(pl))]
  <2>1. start_all_rooms(q, rm, pl)[s] = q[s] \o (<<>> \o rosters)
    BY <1>2, Zenon DEF start_all_rooms
  <2>2. n \in Nat
    <3>1. {t \in Startable(rm) : s \in Running(rm) \/ t >= s} \in SUBSET Slots
      BY Zenon DEF Startable, Used
    <3> QED BY <3>1, CountAssumption, Zenon
  <2>3. RosterMsg(Standing(pl)) \in HubMsg(MasterTypes) /\ RosterMsg(Standing(pl)).type = "ROSTER"
    BY StandingType, RosterMsgType, Zenon DEF RosterMsg
  <2> HIDE DEF n
  <2>4. /\ rosters \in Seq(HubMsg(MasterTypes)) /\ \A i \in DOMAIN rosters : rosters[i].type = "ROSTER"
    BY <2>2, <2>3
  <2> HIDE DEF rosters
  <2>5. PICK t \in Seq(HubMsg(MasterTypes)) :
          t = <<>> \o rosters /\ \A i \in DOMAIN t : t[i].type = "ROSTER"
    BY <2>4
  <2>6. PICK i \in DOMAIN (q[s] \o t) : (q[s] \o t)[i].type = "START"
    BY <2>1, <2>5, Zenon DEF Has
  <2>7. i \in DOMAIN q[s] /\ (q[s] \o t)[i] = q[s][i]
    <3>1. q[s] \in Seq(HubMsg(MasterTypes))
      BY Zenon
    <3>2. i \notin DOMAIN q[s] => i - Len(q[s]) \in DOMAIN t /\ (q[s] \o t)[i] = t[i - Len(q[s])]
      BY <3>1, <2>5
    <3>3. i \in DOMAIN q[s]
      BY <2>5, <2>6, <3>2, Zenon
    <3> QED BY <2>5, <3>1, <3>3
  <2> QED BY <2>6, <2>7, Zenon DEF Has
<1> QED BY <1>1, <1>2, Zenon

(* A worker keeps the players it has reported until it exits.              *)
LEMMA WorkerPeople ==
    ASSUME TypeOK, PeopleInv, NEW s \in Slots, WorkerStep(s) \/ WorkerEvent(s)
    PROVE  PeopleInv'
<1>0. /\ wk \in [Slots -> Worker] /\ wk[s] \in Worker /\ wk[s].reported \in Nat
      /\ toWorker \in [Slots -> Seq(HubMsg(MasterTypes))] /\ toWorker[s] \in Seq(HubMsg(MasterTypes))
      /\ toMaster \in [Slots -> Seq(HubMsg(WorkerTypes))] /\ toMaster[s] \in Seq(HubMsg(WorkerTypes))
      /\ UNCHANGED room
  BY Zenon DEF TypeOK, HubTypeOK, WkTypeOK, WorkerStep, WorkerEvent, masterVars, Worker
<1> DEFINE Same(t) == wk'[t] = wk[t] /\ toWorker'[t] = toWorker[t] /\ toMaster'[t] = toMaster[t]
<1>s. ASSUME \A t \in Slots : t # s => Same(t), Peopled(s)' PROVE PeopleInv'
  <2> SUFFICES ASSUME NEW t \in Slots, t # s PROVE Peopled(t)'
    BY <1>s, Zenon DEF PeopleInv
  <2>1. Peopled(t) /\ Same(t)
    BY <1>s, Zenon DEF PeopleInv
  <2> QED BY <1>0, <2>1, Zenon DEF Peopled, Live
<1>e. ASSUME Exit(s) PROVE PeopleInv'
  <2>1. wk'[s] = Process("exited", 0) /\ toWorker'[s] = <<>>
    BY <1>0, <1>e, Zenon DEF Exit
  <2>x. wk'[s].pc = "exited" /\ wk'[s].ordered = FALSE /\ ~Has(toWorker'[s], "START")
    BY <2>1 DEF Process, Has
  <2>2. Peopled(s)'
    BY <2>x, Zenon DEF Peopled, Live
  <2>3. \A t \in Slots : t # s => Same(t)
    BY <1>0, <1>e, Zenon DEF Exit
  <2> QED BY <1>s, <2>2, <2>3, Zenon
(* A step that says nothing of new players and is ordered nothing new.     *)
<1>p. ASSUME \A t \in Slots : t # s => Same(t), Live(s),
             wk'[s].reported = wk[s].reported,
             wk'[s].ordered => wk[s].ordered \/ Has(toWorker[s], "START"),
             Has(toWorker'[s], "START") => Has(toWorker[s], "START"),
             Has(toMaster'[s], "JOINED") => Has(toMaster[s], "JOINED")
      PROVE  PeopleInv'
  <2>1. Peopled(s)
    BY Zenon DEF PeopleInv
  <2>2. Peopled(s)'
    BY <1>0, <1>p, <2>1, Zenon DEF Peopled
  <2> QED BY <1>p, <1>s, <2>2, Zenon
<1> HIDE DEF Same
<1>u. ASSUME UNCHANGED <<toWorker, toMaster>>, \A t \in Slots : t # s => wk'[t] = wk[t], Live(s),
             wk'[s].reported = wk[s].reported, wk'[s].ordered = wk[s].ordered
      PROVE  PeopleInv'
  BY <1>p, <1>u, Zenon DEF Same
(* One message that is not a JOINED goes up.                               *)
<1>t. ASSUME NEW m \in HubMsg(WorkerTypes), m.type # "JOINED", Tell(s, MasterEnds, m),
             UNCHANGED toWorker, \A t \in Slots : t # s => wk'[t] = wk[t], Live(s),
             wk'[s].reported = wk[s].reported, wk'[s].ordered = wk[s].ordered
      PROVE  PeopleInv'
  <2>1. \A t \in Slots : t # s => Same(t)
    BY <1>0, <1>t, Zenon DEF Tell, hub_send, Same
  <2>2. Has(toMaster'[s], "JOINED") => Has(toMaster[s], "JOINED")
    BY <1>0, <1>t, HasSend, Zenon DEF Tell
  <2> QED BY <1>p, <1>t, <2>1, <2>2, Zenon
<1>h. ASSUME toWorker[s] # <<>>, Took(s), UNCHANGED toMaster, Live(s),
             \A t \in Slots : t # s => wk'[t] = wk[t], wk'[s].reported = wk[s].reported,
             wk'[s].ordered => wk[s].ordered \/ Head(toWorker[s]).type = "START"
      PROVE  PeopleInv'
  <2>1. toWorker'[s] = Tail(toWorker[s]) /\ \A t \in Slots : t # s => Same(t)
    BY <1>0, <1>h, Zenon DEF Took, Same
  <2>2. Head(toWorker[s]) \in HubMsg(MasterTypes)
    BY <1>0, <1>h
  <2>3. /\ Has(toWorker'[s], "START") => Has(toWorker[s], "START")
        /\ Head(toWorker[s]).type = "START" => Has(toWorker[s], "START")
    BY <1>0, <1>h, <2>1, <2>2, HasQueue
  <2> QED BY <1>h, <1>p, <2>1, <2>3, Zenon
<1>1. CASE Boot(s, MasterEnds)
  <2>1. Msg("READY", 0) \in HubMsg(WorkerTypes) /\ Msg("READY", 0).type # "JOINED"
    BY MsgType, Zenon DEF WorkerTypes, Msg
  <2>2. /\ \A t \in Slots : t # s => wk'[t] = wk[t]
        /\ wk'[s].reported = wk[s].reported /\ wk'[s].ordered = wk[s].ordered
    BY <1>0, <1>1, Zenon DEF Boot, Worker
  <2> QED BY <1>1, <1>t, <2>1, <2>2, Zenon DEF Boot, Live
<1>2. CASE ReportJoin(s, MasterEnds)
  <2>1. wk'[s].reported > 0 /\ \A t \in Slots : t # s => wk'[t] = wk[t]
    BY <1>0, <1>2 DEF ReportJoin, Worker
  <2>2. \A t \in Slots : t # s => toWorker'[t] = toWorker[t] /\ toMaster'[t] = toMaster[t]
    BY <1>0, <1>2, Zenon DEF ReportJoin, Tell, hub_send
  <2> QED BY <1>s, <2>1, <2>2, Zenon DEF Peopled, Same
<1>3. CASE LobbyRecv(s)
  <2>1. /\ \A t \in Slots : t # s => wk'[t] = wk[t]
        /\ wk'[s].reported = wk[s].reported
        /\ wk'[s].ordered => wk[s].ordered \/ Head(toWorker[s]).type = "START"
    BY <1>0, <1>3, Zenon DEF LobbyRecv, LobbyTake, Inbox, Worker
  <2> QED BY <1>3, <1>h, <2>1, Zenon DEF LobbyRecv, Inbox, Live
<1>4. CASE \E graceOver \in BOOLEAN : LobbyStart(s, graceOver)
  <2>1. CASE Exit(s)
    BY <1>e, <2>1, Zenon
  <2>2. CASE ~Exit(s)
    <3>1. wk' = [wk EXCEPT ![s].pc = "play"] /\ UNCHANGED <<toWorker, toMaster>> /\ Live(s)
      BY <1>4, <2>2, Zenon DEF LobbyStart, Live, hubVars
    <3> QED BY <1>0, <1>u, <3>1, Zenon DEF Worker
  <2> QED BY <2>1, <2>2, Zenon
<1>5. CASE MasterGone(s, MasterEnds)
  <2>1. CASE wk[s].pc = "lobby"
    BY <1>5, <1>e, <2>1, Zenon DEF MasterGone
  <2>2. CASE wk[s].pc # "lobby"
    BY <1>0, <1>5, <1>u, <2>2 DEF MasterGone, HungUp, Worker, Live, hubVars
  <2> QED BY <2>1, <2>2, Zenon
<1>6. CASE PlayRecv(s)
  <2>1. /\ \A t \in Slots : t # s => wk'[t] = wk[t]
        /\ wk'[s].reported = wk[s].reported /\ wk'[s].ordered = wk[s].ordered
    BY <1>0, <1>6, Zenon DEF PlayRecv, PlayTake, Inbox, Worker
  <2> QED BY <1>6, <1>h, <2>1, Zenon DEF PlayRecv, Inbox, Live
<1>7. CASE ReportElim(s, MasterEnds)
  <2>1. PICK p \in NewlyOut(s) : /\ wk' = [wk EXCEPT ![s].told = @ \cup {p}]
                                 /\ Tell(s, MasterEnds, Msg("ELIMINATED", p))
    BY <1>7, Zenon DEF ReportElim
  <2>2. p \in Nat
    BY <1>0, Zenon DEF NewlyOut, Worker
  <2>3. Msg("ELIMINATED", p) \in HubMsg(WorkerTypes) /\ Msg("ELIMINATED", p).type # "JOINED"
    BY <2>2, MsgType, Zenon DEF WorkerTypes, Msg
  <2>4. /\ \A t \in Slots : t # s => wk'[t] = wk[t]
        /\ wk'[s].reported = wk[s].reported /\ wk'[s].ordered = wk[s].ordered
    BY <1>0, <2>1, Zenon DEF Worker
  <2> QED BY <1>7, <1>t, <2>1, <2>3, <2>4 DEF ReportElim, Live
<1>8. CASE Route(s, MasterEnds)
  <2>1. PICK g, v : g \in wk[s].garbage /\ v \in resolve_victim(s, g.who) /\
          LET a == [attacker |-> g.who, victim |-> v, lines |-> g.lines]
          IN  /\ wk' = [wk EXCEPT ![s].garbage = @ \ {g}]
              /\ \/ Tell(s, MasterEnds, AttackMsg("FEED", a))
                 \/ toMaster' = hub_send(hub_send(toMaster, {s} \cap MasterEnds, AttackMsg("ATTACK", a)),
                                         {s} \cap MasterEnds, AttackMsg("FEED", a))
                 \/ UNCHANGED toMaster
    BY <1>8, Zenon DEF Route
  <2>2. PICK a : a = [attacker |-> g.who, victim |-> v, lines |-> g.lines]
    BY Zenon
  <2>3. PICK feed, attack, to : /\ feed = AttackMsg("FEED", a) /\ attack = AttackMsg("ATTACK", a)
                                /\ to = {s} \cap MasterEnds
    BY Zenon
  <2>4. a \in [attacker : Nat, victim : Nat, lines : Nat]
    <3>1. g.who \in Nat /\ g.lines \in Nat
      BY <1>0, <2>1, Zenon DEF Worker
    <3>2. resolve_victim(s, g.who) \in SUBSET Nat
      BY <3>1, SessionType, Zenon DEF TypeOK
    <3>3. v \in Nat
      BY <2>1, <3>2, Zenon
    <3> QED BY <2>2, <3>1, <3>3, Zenon
  <2>5. /\ feed \in HubMsg(WorkerTypes) /\ feed.type # "JOINED"
        /\ attack \in HubMsg(WorkerTypes) /\ attack.type # "JOINED"
    <3>1. feed.type = "FEED" /\ attack.type = "ATTACK"
      BY <2>3, Zenon DEF AttackMsg
    <3> QED BY <2>3, <2>4, <3>1, AttackMsgType, Zenon DEF WorkerTypes
  <2>6. /\ \A t \in Slots : t # s => wk'[t] = wk[t]
        /\ wk'[s].reported = wk[s].reported /\ wk'[s].ordered = wk[s].ordered
    BY <1>0, <2>1, Zenon DEF Worker
  <2>7. UNCHANGED toWorker /\ Live(s)
    BY <1>8, Zenon DEF Route, Live
  <2>8. CASE Tell(s, MasterEnds, feed)
    BY <1>t, <2>5, <2>6, <2>7, <2>8, Zenon
  <2>9. CASE UNCHANGED toMaster
    BY <1>u, <2>6, <2>7, <2>9, Zenon
  <2>10. CASE toMaster' = hub_send(hub_send(toMaster, to, attack), to, feed)
    <3>0. PICK q : q = hub_send(toMaster, to, attack)
      BY Zenon
    <3>1. /\ q \in [Slots -> Seq(HubMsg(WorkerTypes))]
          /\ Has(q[s], "JOINED") => Has(toMaster[s], "JOINED")
      BY <1>0, <2>5, <3>0, SendType, HasSend, Zenon
    <3>2. Has(toMaster'[s], "JOINED") => Has(q[s], "JOINED")
      <4>1. toMaster' = hub_send(q, to, feed)
        BY <2>10, <3>0, Zenon
      <4> QED BY <2>5, <3>1, <4>1, HasSend, Zenon
    <3>3. \A t \in Slots : t # s => toMaster'[t] = toMaster[t]
      BY <1>0, <2>3, <2>10, Zenon DEF hub_send
    <3> QED BY <1>p, <2>6, <2>7, <3>1, <3>2, <3>3, Zenon DEF Same
  <2> QED BY <2>1, <2>2, <2>3, <2>8, <2>9, <2>10
<1>9. CASE RoomOver(s)
  BY <1>0, <1>9, <1>u, Zenon DEF RoomOver, Worker, Live, hubVars
<1>10. CASE RoomExit(s)
  BY <1>10, <1>e, Zenon DEF RoomExit
<1>11. CASE Arrive(s)
  BY <1>0, <1>11, <1>u, Zenon DEF Arrive, Worker, Live
<1>12. CASE ArriveFails(s)
  BY <1>0, <1>12, <1>u, Zenon DEF ArriveFails, Worker, Live
<1>13. CASE Crash(s)
  BY <1>13, <1>e, Zenon DEF Crash
<1>14. ASSUME NEW p \in Session(s), Quit(s, p)
       PROVE  PeopleInv'
  BY <1>0, <1>14, <1>u, Zenon DEF Quit, Playing, Worker, Live, hubVars
<1>15. ASSUME NEW p \in Session(s), TopOut(s, p)
       PROVE  PeopleInv'
  BY <1>0, <1>15, <1>u, Zenon DEF TopOut, Playing, Worker, Live, hubVars
<1>16. ASSUME NEW p \in Session(s), NEW toppedOut \in BOOLEAN, ClearLines(s, p, toppedOut)
       PROVE  PeopleInv'
  <2>1. PICK G, O : wk' = [wk EXCEPT ![s].garbage = G, ![s].out = O]
    BY <1>16, Zenon DEF ClearLines
  <2>2. UNCHANGED <<toWorker, toMaster>> /\ Live(s)
    BY <1>16, Zenon DEF ClearLines, Playing, Live, hubVars
  <2> QED BY <1>0, <1>u, <2>1, <2>2, Zenon DEF Worker
<1> QED BY <1>1, <1>2, <1>3, <1>4, <1>5, <1>6, <1>7, <1>8, <1>9, <1>10, <1>11, <1>12, <1>13,
           <1>14, <1>15, <1>16, Zenon DEF WorkerStep, WorkerEvent

(* check_global_end sends no START.                                        *)
LEMMA HasEnd ==
    ASSUME NEW q \in [Slots -> Seq(HubMsg(MasterTypes))], NEW rm, NEW pl \in Seq(PlayerRec),
           check_global_end(broadcast_roster(q, rm, pl), rm, pl),
           NEW s \in Slots, Has(toWorker'[s], "START")
    PROVE  Has(q[s], "START")
<1>1. PICK b, m, r : /\ b = broadcast_roster(q, rm, pl) /\ m = Msg("GAMEOVER", WinnerOf(pl))
                     /\ r = RosterMsg(Standing(pl))
  BY Zenon
<1>2. /\ b \in [Slots -> Seq(HubMsg(MasterTypes))]
      /\ m \in HubMsg(MasterTypes) /\ m.type # "START"
      /\ r \in HubMsg(MasterTypes) /\ r.type # "START"
  <2>1. m \in HubMsg(MasterTypes) /\ m.type # "START"
    BY <1>1, WinnerType, MsgType, Zenon DEF MasterTypes, Msg
  <2>2. r \in HubMsg(MasterTypes) /\ r.type # "START"
    BY <1>1, StandingType, RosterMsgType, Zenon DEF RosterMsg
  <2> QED BY <1>1, <2>1, <2>2, BroadcastType, Zenon
<1>3. toWorker' = b \/ toWorker' = Send(b, Used(rm), m)
  BY <1>1, Zenon DEF check_global_end
<1>4. Has(b[s], "START")
  BY <1>2, <1>3, HasSend, Zenon DEF Send
<1> QED BY <1>1, <1>2, <1>4, HasSend, Zenon DEF Send, broadcast_roster

(* The master starts rooms with players it has heard of, and hears only of *)
(* players their rooms have reported.                                      *)
LEMMA MasterPeople ==
    ASSUME TypeOK, PeopleInv,
           \/ AcceptClient \/ SpawnRoom \/ PressEnter \/ Interrupt \/ StopRoom
           \/ \E s \in Slots : MasterStep(s)
    PROVE  PeopleInv'
<1>0. /\ room \in [Slots -> Room] /\ players \in Seq(PlayerRec) /\ HubTypeOK
      /\ toWorker \in [Slots -> Seq(HubMsg(MasterTypes))]
      /\ toMaster \in [Slots -> Seq(HubMsg(WorkerTypes))]
  BY Zenon DEF TypeOK, MasterTypeOK, HubTypeOK
<1> DEFINE Told(rm, up, t) == rm[t].used /\ (rm[t].joined >= 1 \/ Has(up[t], "JOINED"))
<1>k. ASSUME UNCHANGED wk,
             \A t \in Slots : Has(toWorker'[t], "START") =>
                                Has(toWorker[t], "START") \/ (Live(t) /\ Told(room, toMaster, t)),
             \A t \in Slots : Told(room', toMaster', t) => Told(room, toMaster, t)
      PROVE  PeopleInv'
  <2> SUFFICES ASSUME NEW t \in Slots PROVE Peopled(t)'
    BY Zenon DEF PeopleInv
  <2>1. Peopled(t)
    BY Zenon DEF PeopleInv
  <2> QED BY <1>k, <2>1, Zenon DEF Peopled, Live
(* Taking a message brings no JOINED.                                      *)
<1>h. ASSUME NEW s \in Slots, NEW type, Heard(s, type)
      PROVE  /\ \A t \in Slots : Has(toMaster'[t], "JOINED") => Has(toMaster[t], "JOINED")
             /\ type = "JOINED" => Told(room, toMaster, s)
             /\ toMaster[s] # <<>> /\ Head(toMaster[s]) \in HubMsg(WorkerTypes)
             /\ Head(toMaster[s]).type = type /\ Head(toMaster[s]).id \in Nat
  <2>1. toMaster[s] # <<>> /\ Head(toMaster[s]) \in HubMsg(WorkerTypes) /\ Head(toMaster[s]).id \in Nat
    BY <1>0, <1>h, HeardType, Zenon DEF Heard
  <2>2. /\ toMaster'[s] = Tail(toMaster[s]) /\ toMaster[s] \in Seq(HubMsg(WorkerTypes))
        /\ \A t \in Slots : t # s => toMaster'[t] = toMaster[t]
    BY <1>0, <1>h, Zenon DEF Heard
  <2>3. Head(toMaster[s]).type = type /\ room[s].used
    BY <1>h, Zenon DEF Heard
  <2>4. /\ Has(toMaster'[s], "JOINED") => Has(toMaster[s], "JOINED")
        /\ type = "JOINED" => Has(toMaster[s], "JOINED")
    BY <2>1, <2>2, <2>3, HasQueue, Zenon
  <2> QED BY <2>1, <2>2, <2>3, <2>4, Zenon
<1> HIDE DEF Told
<1>c. ASSUME NEW s \in Slots, close_room(s), UNCHANGED wk PROVE PeopleInv'
  <2>1. PICK rm, pl : /\ rm = [room EXCEPT ![s].used = FALSE]
                      /\ pl = IF matchEnded THEN players ELSE Bury(players, Occupants(s))
    BY Zenon
  <2>2. /\ room' = rm /\ toMaster' = [toMaster EXCEPT ![s] = <<>>]
        /\ \/ check_global_end(broadcast_roster(toWorker, rm, pl), rm, pl)
           \/ UNCHANGED toWorker
    BY <1>c, <2>1, Zenon DEF close_room
  <2>3. pl \in Seq(PlayerRec)
    BY <1>0, <2>1, BuryType, Zenon
  <2>4. \A t \in Slots : Has(toWorker'[t], "START") => Has(toWorker[t], "START")
    BY <1>0, <2>2, <2>3, HasEnd, Zenon
  <2>5. \A t \in Slots : Told(room', toMaster', t) => Told(room, toMaster, t)
    <3>1. ~room'[s].used /\ \A t \in Slots : t # s => room'[t] = room[t] /\ toMaster'[t] = toMaster[t]
      BY <1>0, <2>1, <2>2, Zenon DEF Room
    <3> QED BY <3>1, Zenon DEF Told
  <2> QED BY <1>c, <1>k, <2>4, <2>5, Zenon
<1>1. CASE AcceptClient
  <2>1. PICK s \in Slots : room' = Deal(room, s)
    BY <1>1, Zenon DEF AcceptClient, First, Open, Used
  <2>2. \A t \in Slots : room'[t].used = room[t].used /\ room'[t].joined = room[t].joined
    BY <1>0, <2>1, Zenon DEF Deal, Room
  <2> QED BY <1>1, <1>k, <2>2, Zenon DEF AcceptClient, hubVars, Told
<1>2. CASE SpawnRoom
  <2>1. PICK s \in Slots : /\ room' = Deal([room EXCEPT ![s] = FreshRoom(spawn_base)], s)
                           /\ wk' = [wk EXCEPT ![s] = Process("boot", spawn_base)]
                           /\ toMaster' = [toMaster EXCEPT ![s] = <<>>]
                           /\ toWorker' = [toWorker EXCEPT ![s] = <<>>]
    BY <1>2, Zenon DEF SpawnRoom, First
  <2>2. /\ wk'[s].ordered = FALSE /\ toWorker'[s] = <<>> /\ toMaster'[s] = <<>>
        /\ \A t \in Slots : t # s => /\ wk'[t] = wk[t] /\ toWorker'[t] = toWorker[t]
                                     /\ toMaster'[t] = toMaster[t]
    BY <1>0, <2>1, Zenon DEF TypeOK, WkTypeOK, Process
  <2>3. room'[s].joined = 0 /\ \A t \in Slots : t # s => room'[t] = room[t]
    <3>1. PICK f : f = FreshRoom(spawn_base)
      BY Zenon
    <3>2. f.joined = 0 /\ DOMAIN f = {"used", "ready", "started", "redirected", "joined", "pending", "base"}
      BY <3>1, Zenon DEF FreshRoom
    <3> QED BY <1>0, <2>1, <3>1, <3>2, Zenon DEF Deal
  <2>4. Peopled(s)'
    <3>1. ~Has(<<>>, "START") /\ ~Has(<<>>, "JOINED") /\ ~(0 >= 1)
      BY DEF Has
    <3>2. ~wk'[s].ordered /\ ~Has(toWorker'[s], "START") /\ ~Has(toMaster'[s], "JOINED")
          /\ ~(room'[s].joined >= 1)
      BY <2>2, <2>3, <3>1, Zenon
    <3> QED BY <3>2, Zenon DEF Peopled
  <2>5. \A t \in Slots : t # s => Peopled(t)'
    BY <2>2, <2>3, Zenon DEF PeopleInv, Peopled, Live
  <2> QED BY <2>4, <2>5, Zenon DEF PeopleInv
<1>3. CASE PressEnter
  <2>1. \A t \in Slots : Has(toWorker'[t], "START") =>
                           Has(toWorker[t], "START") \/ (Live(t) /\ Told(room, toMaster, t))
    BY <1>0, <1>3, HasStart, Zenon DEF PressEnter, Told
  <2>2. \A t \in Slots : room'[t].used = room[t].used /\ room'[t].joined = room[t].joined
    BY <1>0, <1>3, Zenon DEF PressEnter, Started, Room
  <2> QED BY <1>3, <1>k, <2>1, <2>2, Zenon DEF PressEnter, workerVars, Told
<1>4. CASE Interrupt
  BY <1>4, <1>k, Zenon DEF Interrupt, hubVars, workerVars
<1>5. CASE StopRoom
  <2>1. PICK s \in Slots : close_room(s)
    BY <1>5, Zenon DEF StopRoom, First, Used
  <2> QED BY <1>5, <1>c, <2>1, Zenon DEF StopRoom, workerVars
<1>6. ASSUME NEW s \in Slots, HandleReady(s)
      PROVE  PeopleInv'
  <2>1. \A t \in Slots : room'[t].used = room[t].used /\ room'[t].joined = room[t].joined
    BY <1>0, <1>6, Zenon DEF HandleReady, Room
  <2>2. \A t \in Slots : Told(room', toMaster', t) => Told(room, toMaster, t)
    BY <1>6, <1>h, <2>1, Zenon DEF HandleReady, Told
  <2> QED BY <1>6, <1>k, <2>2, Zenon DEF HandleReady
<1>7. ASSUME NEW s \in Slots, HandleJoined(s)
      PROVE  PeopleInv'
  <2>1. PICK rec, rm : /\ rec = [id |-> Head(toMaster[s]).id, room |-> s, alive |-> TRUE]
                       /\ rm = [room EXCEPT ![s].joined = @ + 1]
    BY Zenon
  <2>2. PICK pl : pl = IF Len(players) < MaxPlayers THEN Append(players, rec) ELSE players
    BY Zenon
  <2>3. PICK q : q = broadcast_roster(toWorker, rm, pl)
    BY Zenon
  <2>4. \/ toWorker' = start_all_rooms(q, rm, pl) /\ room' = Started(rm)
        \/ toWorker' = q /\ room' = rm
    BY <1>7, <2>1, <2>2, <2>3, Zenon DEF HandleJoined
  <2>5. /\ Head(toMaster[s]).id \in Nat /\ Told(room, toMaster, s)
        /\ \A t \in Slots : Has(toMaster'[t], "JOINED") => Has(toMaster[t], "JOINED")
    BY <1>7, <1>h, Zenon DEF HandleJoined
  <2>6. pl \in Seq(PlayerRec)
    <3>1. rec \in PlayerRec
      BY <2>1, <2>5, Zenon DEF PlayerRec
    <3> QED BY <1>0, <2>2, <3>1
  <2>7. rm \in [Slots -> Room]
    <3>1. PICK n : n = room[s].joined + 1
      BY Zenon
    <3>2. room[s] \in Room /\ n \in Nat
      BY <1>0, <3>1 DEF Room
    <3>3. [room[s] EXCEPT !.joined = n] \in Room
      BY <3>2, Zenon DEF Room
    <3> QED BY <1>0, <2>1, <3>1, <3>3, Zenon
  <2>8. /\ q \in [Slots -> Seq(HubMsg(MasterTypes))]
        /\ \A t \in Slots : Has(q[t], "START") => Has(toWorker[t], "START")
    <3>1. PICK r : r = RosterMsg(Standing(pl))
      BY Zenon
    <3>2. r \in HubMsg(MasterTypes) /\ r.type # "START"
      BY <2>6, <3>1, StandingType, RosterMsgType, Zenon DEF RosterMsg
    <3> QED BY <1>0, <2>3, <2>6, <3>1, <3>2, BroadcastType, HasSend, Zenon DEF broadcast_roster, Send
  <2>9. \A t \in Slots : t # s => rm[t] = room[t]
    BY <1>0, <2>1, Zenon
  <2>10. \A t \in Slots : rm[t].used /\ rm[t].joined >= 1 => Told(room, toMaster, t)
    BY <2>5, <2>9, Zenon DEF Told
  <2>11. \A t \in Slots : room'[t].used = rm[t].used /\ room'[t].joined = rm[t].joined
    <3>1. \A t \in Slots : Started(rm)[t].used = rm[t].used /\ Started(rm)[t].joined = rm[t].joined
      BY <2>7, Zenon DEF Started, Room
    <3> QED BY <2>4, <3>1, Zenon
  <2>12. \A t \in Slots : Told(room', toMaster', t) => Told(room, toMaster, t)
    BY <2>5, <2>9, <2>10, <2>11, Zenon DEF Told
  <2>13. \A t \in Slots : Has(toWorker'[t], "START") =>
                            Has(toWorker[t], "START") \/ (Live(t) /\ Told(room, toMaster, t))
    BY <2>4, <2>6, <2>7, <2>8, <2>10, HasStart, Zenon
  <2> QED BY <1>7, <1>k, <2>12, <2>13, Zenon DEF HandleJoined, workerVars
<1>8. ASSUME NEW s \in Slots, HandleEliminated(s)
      PROVE  PeopleInv'
  <2>1. PICK dead : /\ players' = Bury(players, dead)
                    /\ check_global_end(broadcast_roster(toWorker, room, players'), room, players')
    BY <1>8, Zenon DEF HandleEliminated
  <2>2. PICK pl : pl = players'
    BY Zenon
  <2>3. pl \in Seq(PlayerRec) /\ check_global_end(broadcast_roster(toWorker, room, pl), room, pl)
    BY <1>0, <2>1, <2>2, BuryType, Zenon
  <2>4. \A t \in Slots : Has(toWorker'[t], "START") => Has(toWorker[t], "START")
    BY <1>0, <2>3, HasEnd, Zenon
  <2>5. \A t \in Slots : Told(room', toMaster', t) => Told(room, toMaster, t)
    BY <1>8, <1>h, Zenon DEF HandleEliminated, Told
  <2> QED BY <1>8, <1>k, <2>4, <2>5, Zenon DEF HandleEliminated, workerVars
<1>9. ASSUME NEW s \in Slots, HandleAttack(s)
      PROVE  PeopleInv'
  <2>1. PICK m, g : m = Head(toMaster[s]) /\ g = [m EXCEPT !.type = "GARBAGE"]
    BY Zenon
  <2>2. m \in HubMsg(WorkerTypes)
    BY <1>9, <1>h, <2>1, Zenon DEF HandleAttack
  <2>3. g \in HubMsg(MasterTypes) /\ g.type # "START"
    BY <2>1, <2>2, Zenon DEF HubMsg, MasterTypes
  <2>4. PICK to : toWorker' = Send(toWorker, to, g)
    BY <1>9, <2>1, Zenon DEF HandleAttack
  <2>5. \A t \in Slots : Has(toWorker'[t], "START") => Has(toWorker[t], "START")
    BY <1>0, <2>3, <2>4, HasSend, Zenon DEF Send
  <2>6. \A t \in Slots : Told(room', toMaster', t) => Told(room, toMaster, t)
    BY <1>9, <1>h, Zenon DEF HandleAttack, Told, masterVars
  <2> QED BY <1>9, <1>k, <2>5, <2>6, Zenon DEF HandleAttack, workerVars
<1>10. ASSUME NEW s \in Slots, HandleFeed(s)
       PROVE  PeopleInv'
  <2>1. PICK m : m = Head(toMaster[s])
    BY Zenon
  <2>2. m \in HubMsg(WorkerTypes) /\ m.type = "FEED"
    BY <1>10, <1>h, <2>1, Zenon DEF HandleFeed
  <2>3. m \in HubMsg(MasterTypes)
    BY <2>2, Zenon DEF HubMsg, MasterTypes
  <2>4. PICK to : toWorker' = Send(toWorker, to, m)
    BY <1>10, <2>1, Zenon DEF HandleFeed
  <2>5. \A t \in Slots : Has(toWorker'[t], "START") => Has(toWorker[t], "START")
    BY <1>0, <2>2, <2>3, <2>4, HasSend, Zenon DEF Send
  <2>6. \A t \in Slots : Told(room', toMaster', t) => Told(room, toMaster, t)
    BY <1>10, <1>h, Zenon DEF HandleFeed, Told, masterVars
  <2> QED BY <1>10, <1>k, <2>5, <2>6, Zenon DEF HandleFeed, workerVars
<1>11. ASSUME NEW s \in Slots, WorkerGone(s)
       PROVE  PeopleInv'
  BY <1>11, <1>c, Zenon DEF WorkerGone, workerVars
<1> QED BY <1>1, <1>2, <1>3, <1>4, <1>5, <1>6, <1>7, <1>8, <1>9, <1>10, <1>11 DEF MasterStep

(* No room is ordered to start empty, for every number of rooms, clients   *)
(* and crashes, whoever starts it: ENTER, or the JOINED that fills the     *)
(* last place (start_all_rooms, main.c:263-268).  So the exit for          *)
(* lobby_size == 0 (room.c:188) is never taken.                            *)
THEOREM StartsHavePlayers == Spec => []NoEmptyStart
<1>1. Init => PeopleInv
  <2> SUFFICES ASSUME Init, NEW s \in Slots PROVE Peopled(s)
    BY Zenon DEF PeopleInv
  <2>1. toWorker[s] = <<>> /\ ~wk[s].ordered /\ ~Live(s)
    BY Zenon DEF Init, Process, Live
  <2> QED BY <2>1 DEF Peopled, Has
<1>2. TypeOK /\ PeopleInv /\ [Next]_vars => PeopleInv'
  <2> SUFFICES ASSUME TypeOK, PeopleInv, [Next]_vars PROVE PeopleInv'
    BY Zenon
  <2>1. CASE Next
    BY <2>1, WorkerPeople, MasterPeople, Zenon DEF Next
  <2>2. CASE UNCHANGED vars
    <3>1. UNCHANGED <<wk, room, toMaster, toWorker>>
      BY <2>2, Zenon DEF vars, hubVars, workerVars, masterVars
    <3> QED BY <3>1, Zenon DEF PeopleInv, Peopled, Live
  <2> QED BY <2>1, <2>2, Zenon
<1>3. PeopleInv => NoEmptyStart
  <2> SUFFICES ASSUME PeopleInv, NEW s \in Slots,
                      wk[s].ordered \/ InFlight(toWorker[s], "START") # {}
               PROVE  wk[s].reported > 0
    BY Zenon DEF NoEmptyStart
  <2>1. InFlight(toWorker[s], "START") # {} => Has(toWorker[s], "START")
    BY Zenon DEF InFlight, Has
  <2> QED BY <2>1, Zenon DEF PeopleInv, Peopled
<1> QED BY <1>1, <1>2, <1>3, Typing, PTL DEF Spec
=============================================================================
