----------------------------- MODULE BoardProofs ----------------------------
(***************************************************************************)
(* What players see of a match, for any room and any number of changes,    *)
(* keys and batches under way: the mirror of a client only moves forward,  *)
(* and a survivor is shown the winner that the room was told.              *)
(*                                                                         *)
(* And what happens on a board, of any size, with any pieces and speeds:   *)
(* the piece of a running game never overlaps the stack unless hold put it *)
(* there, pieces are dealt from whole bags, and each piece is swapped at   *)
(* most once.                                                              *)
(***************************************************************************)
EXTENDS ClientView, Brain, WellFoundedInduction, FiniteSetTheorems, TLAPS

(* Every snapshot of a batch is of the slot it is filed under.             *)
Labelled == \A c \in Clients : \A i \in 1..Len(wire[c]) :
                \A p \in DOMAIN wire[c][i] : wire[c][i][p].who = p

(* Whoever has pressed Q is known, a client is in the lobby until START,   *)
(* and only a game that is over lets it leave its loop.                    *)
Loops ==
    /\ \A c \in Clients : \A i \in 1..Len(keys[c]) : keys[c][i] = "quit" => c \in quit
    /\ \A c \in Clients : pc[c] = "done" => view[c].over
    /\ \A c \in Clients : pc[c] = "lobby" <=> c \notin started

(* The boards of c, from the mirror over the batches to the slot, only     *)
(* grow.                                                                   *)
Forward ==
    \A c \in Clients :
        /\ view[c].who = c /\ view[c].board <= slot[c].board
        /\ \A i \in 1..Len(wire[c]) : c \in DOMAIN wire[c][i] =>
              /\ view[c].board <= wire[c][i][c].board
              /\ wire[c][i][c].board <= slot[c].board
        /\ \A i, j \in 1..Len(wire[c]) :
              i < j /\ c \in DOMAIN wire[c][i] /\ c \in DOMAIN wire[c][j] =>
                wire[c][i][c].board <= wire[c][j][c].board

(* A board of p that is over, of a player who neither fell nor pressed Q:  *)
(* the room has been told its winner, and the board names it.              *)
Final(p, b) == b.over /\ p \notin fell \cup quit => stage = "over" /\ b.winner = winner_id

Verdicts ==
    /\ \A p \in Players : Final(p, slot[p])
    /\ \A c \in Clients : Final(c, view[c])
    /\ \A c \in Clients : \A i \in 1..Len(wire[c]) :
          c \in DOMAIN wire[c][i] => Final(c, wire[c][i][c])

ViewInv == ViewTypeOK /\ Labelled /\ Loops /\ Forward /\ Verdicts

-----------------------------------------------------------------------------
(* A set of positions of a sequence has a last one.                        *)
LEMMA LastPosition ==
    ASSUME NEW n \in Nat, NEW S \in SUBSET (1..n), S # {}
    PROVE  \E i \in S : \A j \in S : j <= i
<1> DEFINE R == {ss \in Nat \X Nat : ss[1] < ss[2]}
           T == {n - i : i \in S}
<1>1. IsWellFoundedOn(R, Nat)
  BY NatLessThanWellFounded, Zenon DEF OpToRel
<1>2. T \subseteq Nat /\ T # {}
  <2>1. \A i \in S : n - i \in Nat
    OBVIOUS
  <2>2. PICK i : i \in S
    BY Zenon
  <2> QED  BY <2>1, <2>2, Zenon
<1>3. PICK x \in T : \A y \in T : ~(<<y, x>> \in R)
  <2> HIDE DEF R, T
  <2> QED  BY <1>1, <1>2, WFMin, Zenon
<1>4. PICK i \in S : x = n - i
  BY Zenon
<1>5. ASSUME NEW j \in S PROVE j <= i
  <2>1. n - j \in T /\ n - j \in Nat /\ x \in Nat
    BY <1>2, Zenon
  <2>2. ~(n - j < x)
    BY <1>3, <2>1, Zenon
  <2> QED  BY <1>4, <2>1, <2>2
<1> QED  BY <1>5, Zenon

(* What the drain of a frame leaves in the mirror: the mirror it was, or a *)
(* snapshot of the own board that waited.                                  *)
LEMMA MirrorShape ==
    ASSUME ViewTypeOK, Labelled, NEW c \in Clients
    PROVE  \/ Mirror(c, wire[c]) = view[c]
           \/ \E i \in 1..Len(wire[c]) : c \in DOMAIN wire[c][i] /\ Mirror(c, wire[c]) = wire[c][i][c]
<1> DEFINE q == wire[c]
           hits == {i \in DOMAIN q : Heeded(c, q[i]) # {}}
           last == CHOOSE i \in hits : \A j \in hits : j <= i
<1>1. q \in Seq(Batch) /\ DOMAIN q = 1..Len(q) /\ Len(q) \in Nat
  BY DEF ViewTypeOK
<1>2. CASE hits = {}
  BY <1>2, Zenon DEF Mirror
<1>3. CASE hits # {}
  <2>1. last \in hits
    <3>1. \E i \in hits : \A j \in hits : j <= i
      <4>1. hits \in SUBSET (1..Len(q))
        BY <1>1, Zenon
      <4> HIDE DEF hits
      <4> QED  BY <1>1, <1>3, <4>1, LastPosition, Zenon
    <3> QED  BY <3>1, Zenon
  <2>2. Mirror(c, q) = apply_state_payload(c, q[last])
    BY <1>3, Zenon DEF Mirror
  <2>3. PICK l : l = last
    BY Zenon
  <2>4. l \in 1..Len(q) /\ Heeded(c, q[l]) # {}
    BY <1>1, <2>1, <2>3, Zenon
  <2>5. Heeded(c, q[l]) = {c} /\ c \in DOMAIN q[l]
    BY <2>4 DEF Heeded, Mine, Labelled
  <2>6. apply_state_payload(c, q[l]) = q[l][c]
    <3>1. c \in Nat
      BY ViewAssumption, Zenon
    <3>2. (CHOOSE p \in {c} : \A o \in {c} : o <= p) = c
      BY <3>1
    <3> QED  BY <2>5, <3>2, Zenon DEF apply_state_payload
  <2> QED  BY <2>2, <2>3, <2>4, <2>5, <2>6, Zenon
<1> QED  BY <1>2, <1>3, Zenon

-----------------------------------------------------------------------------
(* What a step of the room does for the slots and the batches: boards only *)
(* grow, a slot that is over has a reason, and what is pushed lies between *)
(* the boards before and after the step.                                   *)
Fresh(c, b) ==
    /\ \A p \in DOMAIN b : b[p].who = p
    /\ c \in DOMAIN b => /\ slot[c].board <= b[c].board /\ b[c].board <= slot'[c].board
                         /\ Final(c, b[c])'

RoomStep ==
    /\ slot' \in [Players -> PlayerSlot] /\ \A p \in Players : slot[p].board <= slot'[p].board /\ Final(p, slot[p])'
    /\ fell \subseteq fell' /\ fell' \subseteq Players
    /\ stage' \in {"input", "hub", "over"} /\ winner_id' \in Winners \cup {0}
    /\ stage # "over" /\ told' \subseteq started
    /\ wire' \in [Clients -> Seq(Batch)]
    /\ \A c \in Clients : \/ wire'[c] = wire[c]
                          \/ Len(wire[c]) < MaxLag /\ \E b \in Batch : wire'[c] = Append(wire[c], b) /\ Fresh(c, b)
    /\ UNCHANGED <<started, clientVars>>

(* A slot keeps its shape, and its board does not go back.                 *)
Keeps(s, t) == t \in PlayerSlot /\ s.board <= t.board

(* Every change game.c makes to a slot is one of those: the tick, the      *)
(* death, the exit and the marks of a push (game.c:122-159).               *)
LEMMA SlotChanges ==
    ASSUME NEW s \in PlayerSlot
    PROVE  /\ s.board \in Nat /\ Keeps(s, s)
           /\ Keeps(s, Die(s)) /\ Keeps(s, Leave(s))
           /\ s.board <= MaxChanges => Keeps(s, Change(s))
           /\ Change(s).over = s.over /\ Change(s).winner = s.winner
           /\ \A w \in Winners \cup {0} : Keeps(s, Finish(s, w)) /\ Finish(s, w).winner = w
<1> USE ViewAssumption DEF PlayerSlot
<1>1. s.board \in Nat
  OBVIOUS
<1>2. Die(s) \in PlayerSlot /\ Die(s).board = s.board /\ Leave(s) \in PlayerSlot /\ Leave(s).board = s.board
  BY Zenon DEF Die, Leave
<1>3. s.board <= MaxChanges => Change(s) \in PlayerSlot
  <2>1. s.board <= MaxChanges => s.board + 1 \in 1..(MaxChanges + 1)
    OBVIOUS
  <2> QED  BY <2>1, Zenon DEF Change
<1>4. Change(s).board = s.board + 1 /\ Change(s).over = s.over /\ Change(s).winner = s.winner
  BY Zenon DEF Change
<1>5. \A w \in Winners \cup {0} : Finish(s, w) \in PlayerSlot /\ Finish(s, w).board = s.board /\ Finish(s, w).winner = w
  BY Zenon DEF Finish
<1> QED  BY <1>1, <1>2, <1>3, <1>4, <1>5 DEF Keeps

(* The flags that a push sets leave the board as it is.                    *)
LEMMA SlotFlags ==
    ASSUME NEW s \in PlayerSlot,
           NEW t \in {[s EXCEPT !.dirty = TRUE], [s EXCEPT !.dirty = FALSE, !.idle = 0], [s EXCEPT !.idle = @ + 1]},
           t = [s EXCEPT !.idle = @ + 1] => s.idle < KeepaliveTicks
    PROVE  Keeps(s, t) /\ t.board = s.board /\ t.over = s.over /\ t.winner = s.winner
<1> USE ViewAssumption DEF PlayerSlot
<1>1. s.board \in Nat /\ 0 \in 0..KeepaliveTicks
  OBVIOUS
<1>2. t.board = s.board /\ t.over = s.over /\ t.winner = s.winner
  BY Zenon
<1>3. t \in PlayerSlot
  <2>1. [s EXCEPT !.dirty = TRUE] \in PlayerSlot /\ [s EXCEPT !.dirty = FALSE] \in PlayerSlot
    BY Zenon
  <2>2. [s EXCEPT !.dirty = FALSE, !.idle = 0] \in PlayerSlot
    BY <1>1, <2>1, Zenon
  <2>3. s.idle < KeepaliveTicks => s.idle + 1 \in 0..KeepaliveTicks
    OBVIOUS
  <2>4. s.idle < KeepaliveTicks => [s EXCEPT !.idle = @ + 1] \in PlayerSlot
    BY <2>3, Zenon
  <2> QED  BY <2>1, <2>2, <2>4, Zenon
<1> QED  BY <1>1, <1>2, <1>3 DEF Keeps

(* build_state_payload makes a snapshot of a slot.                         *)
LEMMA PayloadShape ==
    ASSUME NEW p \in Players, NEW s \in PlayerSlot
    PROVE  build_state_payload(p, s) \in Snapshot
BY ViewAssumption DEF build_state_payload, Snapshot, PlayerSlot

(* What is pushed is appended, as one batch, or not sent at all.           *)
LEMMA PushedShape ==
    ASSUME ViewTypeOK, Room, NEW ps \in SUBSET Players, NEW slots, \A p \in ps : slots[p] \in PlayerSlot
    PROVE  LET b == [p \in ps |-> build_state_payload(p, slots[p])] IN
             /\ Pushed(ps, slots) \in [Clients -> Seq(Batch)]
             /\ \A c \in Clients : \/ Pushed(ps, slots)[c] = wire[c]
                                   \/ Len(wire[c]) < MaxLag /\ Pushed(ps, slots)[c] = Append(wire[c], b)
<1> DEFINE b == [p \in ps |-> build_state_payload(p, slots[p])]
<1>1. b \in Batch
  <2>1. \A p \in ps : build_state_payload(p, slots[p]) \in Snapshot
    BY PayloadShape, Zenon
  <2>2. b \in [ps -> Snapshot]
    BY <2>1, Zenon
  <2> HIDE DEF b
  <2> QED  BY <2>2, Zenon DEF Batch
<1>2. \A c \in Clients : Pushed(ps, slots)[c] = IF ps # {} /\ c \in started /\ pc[c] # "done"
                                                THEN Append(wire[c], b) ELSE wire[c]
  BY Zenon DEF Pushed
<1>3. Pushed(ps, slots) = [c \in Clients |-> Pushed(ps, slots)[c]]
  BY Zenon DEF Pushed
<1>4. \A c \in Clients : wire[c] \in Seq(Batch) /\ Len(wire[c]) < MaxLag
  BY Zenon DEF Room, ViewTypeOK
<1> HIDE DEF b
<1>5. \A c \in Clients : Append(wire[c], b) \in Seq(Batch)
  BY <1>1, <1>4
<1>6. \A c \in Clients : Pushed(ps, slots)[c] \in Seq(Batch)
  BY <1>2, <1>4, <1>5, Zenon
<1>7. Pushed(ps, slots) \in [Clients -> Seq(Batch)]
  BY <1>3, <1>6, Zenon
<1> QED  BY <1>2, <1>4, <1>7, Zenon DEF b

-----------------------------------------------------------------------------
(* A key that is taken, or ignored, is a step of the room.                 *)
LEMMA InputRoomStep ==
    ASSUME ViewInv, NEW c \in Clients, TakeInput(c)
    PROVE  RoomStep
<1> USE ViewAssumption
<1>t. /\ c \in Players /\ slot \in [Players -> PlayerSlot] /\ slot[c] \in PlayerSlot /\ fell \subseteq Players
      /\ winner_id \in Winners \cup {0} /\ told \subseteq started /\ wire \in [Clients -> Seq(Batch)]
      /\ keys[c] \in Seq({"act", "quit"}) /\ \A p \in Players : slot[p].board \in Nat
  BY SlotChanges, Zenon DEF ViewInv, ViewTypeOK
<1>1. stage = "input" /\ UNCHANGED <<stage, winner_id, started, told, wire, clientVars>>
  BY Zenon DEF TakeInput
<1>2. fell \subseteq fell' /\ fell' \subseteq Players
  BY <1>t, Zenon DEF TakeInput
<1>3. \A p \in Players : Final(p, slot[p])
  BY Zenon DEF ViewInv, Verdicts
<1>4. CASE UNCHANGED slot
  <2>1. \A p \in Players : Final(p, slot[p])'
    BY <1>1, <1>2, <1>3, <1>4, Zenon DEF Final, clientVars
  <2> QED  BY <1>t, <1>1, <1>2, <1>4, <2>1 DEF RoomStep
<1>5. ASSUME NEW s, Keeps(slot[c], s), slot' = [slot EXCEPT ![c] = s],
             s.over => c \in fell' \cup quit \/ (slot[c].over /\ s.winner = slot[c].winner)
      PROVE  RoomStep
  <2>1. slot' \in [Players -> PlayerSlot] /\ slot'[c] = s /\ \A p \in Players : p # c => slot'[p] = slot[p]
    BY <1>t, <1>5, Zenon DEF Keeps
  <2>2. \A p \in Players : slot[p].board <= slot'[p].board
    BY <1>t, <1>5, <2>1 DEF Keeps
  <2>3. \A p \in Players : Final(p, slot[p])'
    BY <1>1, <1>2, <1>3, <1>5, <2>1, Zenon DEF Final, clientVars
  <2> QED  BY <1>t, <1>1, <1>2, <2>1, <2>2, <2>3, Zenon DEF RoomStep
<1>6. CASE Running(c) /\ Head(keys[c]) = "quit" /\ slot' = [slot EXCEPT ![c] = Leave(@)]
  <2>1. c \in quit
    <3>1. keys[c] # <<>>
      BY Zenon DEF TakeInput
    <3>2. 1 \in 1..Len(keys[c]) /\ Head(keys[c]) = keys[c][1]
      BY <1>t, <3>1
    <3> QED  BY <1>6, <3>2, Zenon DEF ViewInv, Loops
  <2>2. Keeps(slot[c], Leave(slot[c]))
    BY <1>t, SlotChanges, Zenon
  <2>3. slot' = [slot EXCEPT ![c] = Leave(slot[c])]
    BY <1>6, Zenon
  <2>4. PICK s : s = Leave(slot[c])
    BY Zenon
  <2> QED  BY <1>5, <2>1, <2>2, <2>3, <2>4, Zenon
<1>7. CASE Changeable(c) /\ slot' = [slot EXCEPT ![c] = Change(@)]
  <2>1. Keeps(slot[c], Change(slot[c]))
    BY <1>t, <1>7, SlotChanges, Zenon DEF Changeable
  <2>2. Change(slot[c]).over = slot[c].over /\ Change(slot[c]).winner = slot[c].winner
    BY <1>t, SlotChanges, Zenon
  <2>3. slot' = [slot EXCEPT ![c] = Change(slot[c])]
    BY <1>7, Zenon
  <2> QED  BY <1>5, <2>1, <2>2, <2>3, Zenon
<1>8. CASE slot' = [slot EXCEPT ![c] = Die(@)] /\ fell' = fell \cup {c}
  <2>1. Keeps(slot[c], Die(slot[c]))
    BY <1>t, SlotChanges, Zenon
  <2>2. slot' = [slot EXCEPT ![c] = Die(slot[c])]
    BY <1>8, Zenon
  <2>3. PICK s : s = Die(slot[c])
    BY Zenon
  <2>4. c \in fell'
    BY <1>8, Zenon
  <2> QED  BY <1>5, <2>1, <2>2, <2>3, <2>4, Zenon
<1>9. CASE slot' = [slot EXCEPT ![c].dirty = TRUE]
  <2>1. PICK s : s = [slot[c] EXCEPT !.dirty = TRUE]
    BY Zenon
  <2>2. s # [slot[c] EXCEPT !.idle = @ + 1]
    <3>1. slot[c] \in PlayerSlot /\ slot[c].idle \in Nat
      BY <1>t DEF PlayerSlot
    <3>2. PICK t : t = [slot[c] EXCEPT !.idle = @ + 1]
      BY Zenon
    <3>3. s.idle = slot[c].idle /\ t.idle = slot[c].idle + 1
      BY <2>1, <3>1, <3>2, Zenon DEF PlayerSlot
    <3>4. s # t
      BY <3>1, <3>3
    <3> QED  BY <3>2, <3>4, Zenon
  <2>3. Keeps(slot[c], s) /\ s.over = slot[c].over /\ s.winner = slot[c].winner
    BY <1>t, <2>1, <2>2, SlotFlags, Zenon
  <2>4. slot' = [slot EXCEPT ![c] = s]
    BY <1>9, <2>1, Zenon
  <2> QED  BY <1>5, <2>3, <2>4, Zenon
<1> QED  BY <1>4, <1>6, <1>7, <1>8, <1>9, Zenon DEF TakeInput

(* A tick is one: what it pushes are the boards that it leaves.            *)
LEMMA TickRoomStep ==
    ASSUME ViewInv, Tick
    PROVE  RoomStep
<1> USE ViewAssumption
<1>t. /\ slot \in [Players -> PlayerSlot] /\ fell \subseteq Players /\ Clients \subseteq Players
      /\ winner_id \in Winners \cup {0} /\ told \subseteq started /\ ViewTypeOK
  BY Zenon DEF ViewInv, ViewTypeOK
<1>1. PICK changed \in SUBSET {p \in Players : Changeable(p)}, dead \in SUBSET {p \in Players : Running(p)} :
        LET ticked == [p \in Players |->
                          IF p \in dead THEN Die(slot[p])
                          ELSE IF p \in changed THEN Change(slot[p]) ELSE slot[p]]
            due == PushTo(ticked)
        IN  /\ slot' = [p \in Players |->
                          IF p \in due THEN [ticked[p] EXCEPT !.dirty = FALSE, !.idle = 0]
                          ELSE [ticked[p] EXCEPT !.idle = @ + 1]]
            /\ wire' = Pushed(due, ticked)
            /\ fell' = fell \cup dead
  BY Zenon DEF Tick
<1>2. PICK ticked : ticked = [p \in Players |->
                                IF p \in dead THEN Die(slot[p])
                                ELSE IF p \in changed THEN Change(slot[p]) ELSE slot[p]]
  BY Zenon
<1>3. PICK due : due = {p \in Players : Due(ticked[p])}
  BY Zenon
<1>4. /\ slot' = [p \in Players |->
                    IF p \in due THEN [ticked[p] EXCEPT !.dirty = FALSE, !.idle = 0]
                    ELSE [ticked[p] EXCEPT !.idle = @ + 1]]
      /\ wire' = Pushed(due, ticked)
      /\ fell' = fell \cup dead
  BY <1>1, <1>2, <1>3, Zenon DEF PushTo
<1>5. Room /\ stage = "hub" /\ stage' = "input" /\ UNCHANGED <<winner_id, keys, started, told, clientVars>>
  BY Zenon DEF Tick
<1>6. ASSUME NEW p \in Players
      PROVE  Keeps(slot[p], ticked[p]) /\ Final(p, ticked[p])'
  <2>1. slot[p] \in PlayerSlot /\ Final(p, slot[p]) /\ Keeps(slot[p], slot[p])
    BY <1>t, SlotChanges, Zenon DEF ViewInv, Verdicts
  <2>2. CASE p \in dead
    <3>1. ticked[p] = Die(slot[p])
      BY <1>2, <2>2, Zenon
    <3>2. p \in fell'
      BY <1>4, <2>2, Zenon
    <3>3. Keeps(slot[p], ticked[p])
      BY <2>1, <3>1, SlotChanges
    <3> QED  BY <3>2, <3>3, Zenon DEF Final
  <2>3. CASE p \notin dead /\ p \in changed
    <3>1. ticked[p] = Change(slot[p]) /\ slot[p].board <= MaxChanges
      BY <1>2, <2>3, Zenon DEF Changeable
    <3>2. Keeps(slot[p], ticked[p])
      BY <2>1, <3>1, SlotChanges
    <3>3. ticked[p].over = slot[p].over /\ ticked[p].winner = slot[p].winner
      BY <2>1, <3>1, SlotChanges, Zenon
    <3> QED  BY <1>4, <1>5, <2>1, <3>2, <3>3, Zenon DEF Final, clientVars
  <2>4. CASE p \notin dead /\ p \notin changed
    <3>1. ticked[p] = slot[p]
      BY <1>2, <2>4, Zenon
    <3>2. Final(p, slot[p]) => (slot[p].over /\ p \notin fell' \cup quit' => FALSE)
      BY <1>4, <1>5, Zenon DEF Final, clientVars
    <3> QED  BY <2>1, <3>1, <3>2, Zenon DEF Final
  <2> QED  BY <2>2, <2>3, <2>4, Zenon
<1>7. ASSUME NEW p \in Players
      PROVE  /\ Keeps(ticked[p], slot'[p]) /\ slot'[p].board = ticked[p].board
             /\ slot'[p].over = ticked[p].over /\ slot'[p].winner = ticked[p].winner
  <2>1. ticked[p] \in PlayerSlot /\ ticked[p].idle \in 0..KeepaliveTicks
    BY <1>6, Zenon DEF Keeps, PlayerSlot
  <2>2. CASE p \in due
    <3>1. slot'[p] = [ticked[p] EXCEPT !.dirty = FALSE, !.idle = 0]
      BY <1>4, <2>2, Zenon
    <3>2. slot'[p] # [ticked[p] EXCEPT !.idle = @ + 1]
      <4>1. PICK o : o = [ticked[p] EXCEPT !.idle = @ + 1]
        BY Zenon
      <4>2. slot'[p].idle = 0 /\ o.idle = ticked[p].idle + 1
        BY <2>1, <3>1, <4>1, Zenon DEF PlayerSlot
      <4>3. slot'[p].idle # o.idle
        BY <2>1, <4>2
      <4> QED  BY <4>1, <4>3, Zenon
    <3> QED  BY <2>1, <3>1, <3>2, SlotFlags, Zenon
  <2>3. CASE p \notin due
    <3>1. slot'[p] = [ticked[p] EXCEPT !.idle = @ + 1]
      BY <1>4, <2>3, Zenon
    <3>2. ticked[p].idle < KeepaliveTicks
      BY <1>3, <2>1, <2>3 DEF Due
    <3> QED  BY <2>1, <3>1, <3>2, SlotFlags, Zenon
  <2> QED  BY <2>2, <2>3, Zenon
<1>8. \A p \in Players : Final(p, slot[p])'
  BY <1>6, <1>7, Zenon DEF Final
<1>9. PICK b : b = [p \in due |-> build_state_payload(p, ticked[p])]
  BY Zenon
<1>10. /\ b \in Batch /\ DOMAIN b = due
       /\ \A p \in due : /\ b[p].who = p /\ b[p].board = ticked[p].board
                         /\ b[p].over = ticked[p].over /\ b[p].winner = ticked[p].winner
  <2>1. due \in SUBSET Players /\ \A p \in due : ticked[p] \in PlayerSlot
    BY <1>3, <1>6, Zenon DEF Keeps
  <2>2. b \in [due -> Snapshot]
    BY <1>9, <2>1, PayloadShape, Zenon
  <2> QED  BY <1>9, <2>1, <2>2, Zenon DEF Batch, build_state_payload
<1>11. /\ wire' \in [Clients -> Seq(Batch)]
       /\ \A c \in Clients : wire'[c] = wire[c] \/ (Len(wire[c]) < MaxLag /\ wire'[c] = Append(wire[c], b))
  <2>1. due \in SUBSET Players /\ \A p \in due : ticked[p] \in PlayerSlot
    BY <1>3, <1>6, Zenon DEF Keeps
  <2>2. /\ Pushed(due, ticked) \in [Clients -> Seq(Batch)]
        /\ \A c \in Clients : \/ Pushed(due, ticked)[c] = wire[c]
                              \/ /\ Len(wire[c]) < MaxLag
                                 /\ Pushed(due, ticked)[c] = Append(wire[c], [p \in due |-> build_state_payload(p, ticked[p])])
    BY <1>t, <1>5, <2>1, PushedShape, Zenon
  <2> QED  BY <1>4, <1>9, <2>2, Zenon
<1>12. ASSUME NEW c \in Clients PROVE Fresh(c, b)
  <2>1. c \in due => Final(c, b[c])'
    BY <1>t, <1>6, <1>10, Zenon DEF Final
  <2>2. c \in due => slot[c].board <= b[c].board /\ b[c].board <= slot'[c].board
    BY <1>t, <1>6, <1>7, <1>10, Zenon DEF Keeps
  <2> QED  BY <1>10, <2>1, <2>2, Zenon DEF Fresh
<1>13. slot' \in [Players -> PlayerSlot] /\ \A p \in Players : slot[p].board <= slot'[p].board
  <2>1. \A p \in Players : slot'[p] \in PlayerSlot /\ slot[p].board <= slot'[p].board
    BY <1>6, <1>7, Zenon DEF Keeps
  <2> QED  BY <1>4, <2>1, Zenon
<1> QED  BY <1>t, <1>4, <1>5, <1>8, <1>10, <1>11, <1>12, <1>13, Zenon DEF RoomStep

(* The end of the match is one: the final boards name the winner.          *)
LEMMA OverRoomStep ==
    ASSUME ViewInv, GameOver
    PROVE  RoomStep
<1> USE ViewAssumption
<1>t. slot \in [Players -> PlayerSlot] /\ fell \subseteq Players /\ Clients \subseteq Players /\ ViewTypeOK
  BY Zenon DEF ViewInv, ViewTypeOK
<1>1. PICK w \in Winners : w = winner_id'
  BY Zenon DEF GameOver
<1>2. PICK last : last = Finalists
  BY Zenon
<1>3. /\ Room /\ stage = "hub" /\ stage' = "over" /\ told' = started /\ UNCHANGED <<fell, keys, started, clientVars>>
      /\ slot' = [p \in Players |-> IF p \in last THEN Finish(slot[p], w) ELSE slot[p]]
      /\ wire' = Pushed(last, slot') /\ last \in SUBSET Players
  BY <1>1, <1>2, Zenon DEF GameOver, Finalists
<1>4. ASSUME NEW p \in Players
      PROVE  /\ Keeps(slot[p], slot'[p]) /\ Final(p, slot[p])'
             /\ p \in last => slot'[p].winner = w
  <2>1. slot[p] \in PlayerSlot /\ Final(p, slot[p]) /\ Keeps(slot[p], slot[p])
    BY <1>t, SlotChanges, Zenon DEF ViewInv, Verdicts
  <2>2. CASE p \in last
    <3>1. slot'[p] = Finish(slot[p], w)
      BY <1>3, <2>2, Zenon
    <3>2. Keeps(slot[p], slot'[p]) /\ slot'[p].winner = w
      BY <2>1, <3>1, SlotChanges
    <3> QED  BY <1>1, <1>3, <3>2, Zenon DEF Final
  <2>3. CASE p \notin last
    <3>1. slot'[p] = slot[p]
      BY <1>3, <2>3, Zenon
    <3>2. ~(slot[p].over /\ p \notin fell' \cup quit')
      BY <1>3, <2>1, Zenon DEF Final, clientVars
    <3> QED  BY <2>1, <2>3, <3>1, <3>2, Zenon DEF Final
  <2> QED  BY <2>2, <2>3, Zenon
<1>5. \A p \in Players : slot'[p] \in PlayerSlot /\ slot[p].board <= slot'[p].board /\ slot'[p].board \in Nat
  BY <1>4, SlotChanges, Zenon DEF Keeps
<1>6. PICK new, b : new = slot' /\ b = [p \in last |-> build_state_payload(p, new[p])]
  BY Zenon
<1>7. \A p \in last : new[p] \in PlayerSlot
  BY <1>3, <1>5, <1>6, Zenon
<1>8. /\ b \in Batch /\ DOMAIN b = last
      /\ \A p \in last : /\ b[p].who = p /\ b[p].board = new[p].board
                         /\ b[p].over = new[p].over /\ b[p].winner = new[p].winner
  <2>1. last \in SUBSET Players /\ \A p \in last : new[p] \in PlayerSlot
    BY <1>3, <1>7, Zenon
  <2>2. b = [p \in last |-> build_state_payload(p, new[p])]
    BY <1>6, Zenon
  <2>3. \A p \in last : build_state_payload(p, new[p]) \in Snapshot
    BY <2>1 DEF build_state_payload, Snapshot, PlayerSlot
  <2>4. b \in [last -> Snapshot]
    BY <2>2, <2>3, Zenon
  <2>5. b \in Batch /\ DOMAIN b = last
    BY <2>1, <2>4, Zenon DEF Batch
  <2> QED  BY <2>2, <2>5, Zenon DEF build_state_payload
<1>9. /\ wire' \in [Clients -> Seq(Batch)]
      /\ \A c \in Clients : wire'[c] = wire[c] \/ (Len(wire[c]) < MaxLag /\ wire'[c] = Append(wire[c], b))
  <2>1. /\ Pushed(last, new) \in [Clients -> Seq(Batch)]
        /\ \A c \in Clients : \/ Pushed(last, new)[c] = wire[c]
                              \/ /\ Len(wire[c]) < MaxLag
                                 /\ Pushed(last, new)[c] = Append(wire[c], [p \in last |-> build_state_payload(p, new[p])])
    BY <1>t, <1>3, <1>7, PushedShape, Zenon
  <2> QED  BY <1>3, <1>6, <2>1, Zenon
<1>10. ASSUME NEW c \in Clients PROVE Fresh(c, b)
  <2>1. c \in Players
    BY <1>t, Zenon
  <2>2. c \in last => Final(c, b[c])'
    <3>1. c \in last => b[c].winner = winner_id'
      BY <1>1, <1>4, <1>6, <1>8, <2>1
    <3> QED  BY <1>3, <3>1, Zenon DEF Final
  <2>3. c \in last => b[c].board = slot'[c].board /\ slot[c].board <= slot'[c].board /\ slot'[c].board <= slot'[c].board
    <3>1. c \in last => b[c].board = slot'[c].board
      BY <1>6, <1>8, Zenon
    <3>2. slot[c].board <= slot'[c].board /\ slot'[c].board \in Nat
      BY <1>5, <2>1, Zenon
    <3>3. slot'[c].board <= slot'[c].board
      BY <3>2
    <3> QED  BY <3>1, <3>2, <3>3, Zenon
  <2> QED  BY <1>8, <2>2, <2>3, Zenon DEF Fresh
<1>11. slot' \in [Players -> PlayerSlot]
  BY <1>3, <1>5, Zenon
<1> QED  BY <1>t, <1>1, <1>3, <1>4, <1>5, <1>8, <1>9, <1>10, <1>11, Zenon DEF RoomStep

(* A step of the room keeps everything but what it does to the keys.       *)
LEMMA RoomKeeps ==
    ASSUME ViewInv, RoomStep, keys' \in [Clients -> Seq({"act", "quit"})]
    PROVE  ViewTypeOK' /\ Labelled' /\ Forward' /\ Verdicts'
<1>t. /\ ViewTypeOK /\ Clients \subseteq Players /\ UNCHANGED <<started, clientVars>>
      /\ \A c \in Clients : wire[c] \in Seq(Batch) /\ Len(wire[c]) \in Nat /\ slot[c].board \in Nat /\ slot'[c].board \in Nat
  <2>1. ViewTypeOK /\ Clients \subseteq Players /\ UNCHANGED <<started, clientVars>>
    BY ViewAssumption, Zenon DEF ViewInv, RoomStep
  <2>2. slot \in [Players -> PlayerSlot] /\ wire \in [Clients -> Seq(Batch)] /\ slot' \in [Players -> PlayerSlot]
    BY <2>1, Zenon DEF ViewTypeOK, RoomStep
  <2>3. \A s \in PlayerSlot : s.board \in Nat
    BY SlotChanges, Zenon
  <2>4. ASSUME NEW c \in Clients
        PROVE  wire[c] \in Seq(Batch) /\ Len(wire[c]) \in Nat /\ slot[c].board \in Nat /\ slot'[c].board \in Nat
    <3>1. wire[c] \in Seq(Batch) /\ slot[c] \in PlayerSlot /\ slot'[c] \in PlayerSlot
      BY <2>1, <2>2, Zenon
    <3> QED  BY <2>3, <3>1
  <2> QED  BY <2>1, <2>4, Zenon
<1>n. MaxLag \in Nat
  BY ViewAssumption, Zenon
<1>1. ASSUME NEW c \in Clients
      PROVE  /\ Len(wire'[c]) <= MaxLag
             /\ \A i \in 1..Len(wire'[c]) : \A p \in DOMAIN wire'[c][i] : wire'[c][i][p].who = p
             /\ \A i \in 1..Len(wire'[c]) : c \in DOMAIN wire'[c][i] =>
                  /\ view[c].board <= wire'[c][i][c].board
                  /\ wire'[c][i][c].board <= slot'[c].board
                  /\ \A o : o = wire'[c][i][c] => Final(c, o)'
             /\ \A i, j \in 1..Len(wire'[c]) :
                  i < j /\ c \in DOMAIN wire'[c][i] /\ c \in DOMAIN wire'[c][j] =>
                    wire'[c][i][c].board <= wire'[c][j][c].board
  <2> DEFINE q == wire[c]
             board(b) == b[c].board
  <2>1. /\ q \in Seq(Batch) /\ Len(q) \in Nat /\ Len(q) <= MaxLag
        /\ \A i \in 1..Len(q) : q[i] \in Batch
    BY <1>t DEF ViewTypeOK
  <2>2. \A b \in Batch : c \in DOMAIN b => board(b) \in Nat
    <3> TAKE b \in Batch
    <3>1. PICK ps \in SUBSET Players : b \in [ps -> Snapshot]
      BY Zenon DEF Batch
    <3>2. c \in DOMAIN b => b[c] \in Snapshot
      BY <3>1, Zenon
    <3> QED  BY <3>2, ViewAssumption DEF Snapshot
  <2>3. view[c].board \in Nat /\ slot[c].board \in Nat /\ slot'[c].board \in Nat /\ slot[c].board <= slot'[c].board
    <3>1. view[c] \in Snapshot
      BY <1>t, Zenon DEF ViewTypeOK
    <3> QED  BY <1>t, <3>1, ViewAssumption DEF Snapshot, RoomStep
  <2>4. /\ view[c].board <= slot[c].board
        /\ \A i \in 1..Len(q) : c \in DOMAIN q[i] => view[c].board <= board(q[i]) /\ board(q[i]) <= slot[c].board
        /\ \A i, j \in 1..Len(q) : i < j /\ c \in DOMAIN q[i] /\ c \in DOMAIN q[j] => board(q[i]) <= board(q[j])
    BY Zenon DEF ViewInv, Forward
  <2>5. \A i \in 1..Len(q) : \A p \in DOMAIN q[i] : q[i][p].who = p
    BY Zenon DEF ViewInv, Labelled
  <2>6. \A i \in 1..Len(q) : c \in DOMAIN q[i] => \A o : o = q[i][c] => Final(c, o)'
    <3>1. \A i \in 1..Len(q) : c \in DOMAIN q[i] => \A o : o = q[i][c] => Final(c, o)
      BY Zenon DEF ViewInv, Verdicts
    <3>2. \A o : Final(c, o) => Final(c, o)'
      BY <1>t, Zenon DEF Final, RoomStep, clientVars
    <3> QED  BY <3>1, <3>2, Zenon
  <2> HIDE DEF board
  <2>7. CASE wire'[c] = q
    <3>1. \A i \in 1..Len(q) : c \in DOMAIN q[i] => board(q[i]) <= slot'[c].board
      <4> TAKE i \in 1..Len(q)
      <4>1. c \in DOMAIN q[i] => board(q[i]) \in Nat /\ board(q[i]) <= slot[c].board
        BY <2>1, <2>2, <2>4, Zenon
      <4>2. PICK n, m : n = slot[c].board /\ m = slot'[c].board
        BY Zenon
      <4>3. n \in Nat /\ m \in Nat /\ n <= m /\ (c \in DOMAIN q[i] => board(q[i]) \in Nat /\ board(q[i]) <= n)
        BY <2>3, <4>1, <4>2, Zenon
      <4>4. c \in DOMAIN q[i] => board(q[i]) <= m
        BY <4>3
      <4> QED  BY <4>2, <4>4, Zenon
    <3>2. \A i \in 1..Len(q) : c \in DOMAIN q[i] => view[c].board <= q[i][c].board /\ q[i][c].board <= slot'[c].board
      BY <2>4, <3>1, Zenon DEF board
    <3>3. \A i, j \in 1..Len(q) : i < j /\ c \in DOMAIN q[i] /\ c \in DOMAIN q[j] => q[i][c].board <= q[j][c].board
      BY <2>4, Zenon DEF board
    <3> HIDE DEF q
    <3> QED  BY <2>1, <2>5, <2>6, <2>7, <3>2, <3>3, Zenon
  <2>8. CASE Len(q) < MaxLag /\ \E b \in Batch : wire'[c] = Append(q, b) /\ Fresh(c, b)
    <3>1. PICK b \in Batch : wire'[c] = Append(q, b) /\ Fresh(c, b)
      BY <2>8, Zenon
    <3>2. PICK r : r = Append(q, b)
      BY Zenon
    <3>3. Len(r) = Len(q) + 1 /\ \A i \in 1..Len(r) : (i \in 1..Len(q) /\ r[i] = q[i]) \/ (i = Len(q) + 1 /\ r[i] = b)
      <4>1. Len(r) = Len(q) + 1 /\ \A i \in 1..Len(r) : r[i] = IF i <= Len(q) THEN q[i] ELSE b
        BY <2>1, <3>2
      <4> QED  BY <2>1, <4>1
    <3>4. /\ \A p \in DOMAIN b : b[p].who = p
          /\ c \in DOMAIN b => /\ slot[c].board <= board(b) /\ board(b) <= slot'[c].board
                               /\ \A o : o = b[c] => Final(c, o)'
      BY <3>1, Zenon DEF Fresh, board
    <3> HIDE DEF q
    <3>5. \A i \in 1..Len(r) : \A p \in DOMAIN r[i] : r[i][p].who = p
      BY <2>5, <3>3, <3>4, Zenon
    <3>6. \A i \in 1..Len(r) : c \in DOMAIN r[i] => \A o : o = r[i][c] => Final(c, o)'
      BY <2>6, <3>3, <3>4, Zenon
    <3>7. \A i \in 1..Len(q) : c \in DOMAIN q[i] => board(q[i]) \in Nat
      BY <2>1, <2>2, Zenon
    <3>8. c \in DOMAIN b => board(b) \in Nat
      BY <2>2, Zenon
    <3>9. ASSUME NEW i \in 1..Len(r), c \in DOMAIN r[i]
          PROVE  view[c].board <= board(r[i]) /\ board(r[i]) <= slot'[c].board
      <4>1. CASE i \in 1..Len(q) /\ r[i] = q[i]
        BY <2>3, <2>4, <3>7, <3>9, <4>1, SMTT(30)
      <4>2. CASE r[i] = b
        BY <2>3, <2>4, <3>4, <3>8, <3>9, <4>2
      <4> QED  BY <3>3, <4>1, <4>2, Zenon
    <3>10. ASSUME NEW i \in 1..Len(r), NEW j \in 1..Len(r), i < j, c \in DOMAIN r[i], c \in DOMAIN r[j]
           PROVE  board(r[i]) <= board(r[j])
      <4>1. i \in 1..Len(q) /\ r[i] = q[i]
        BY <2>1, <3>3, <3>10
      <4>2. CASE j \in 1..Len(q) /\ r[j] = q[j]
        BY <2>4, <3>10, <4>1, <4>2, Zenon
      <4>3. CASE r[j] = b
        BY <2>3, <2>4, <3>4, <3>7, <3>8, <3>10, <4>1, <4>3, SMTT(30)
      <4> QED  BY <3>3, <4>2, <4>3, Zenon
    <3>11. Len(r) <= MaxLag
      BY <1>n, <2>1, <2>8, <3>3, SMTT(30) DEF q
    <3> QED  BY <3>1, <3>2, <3>5, <3>6, <3>9, <3>10, <3>11, Zenon DEF board, q
  <2> QED  BY <2>7, <2>8, Zenon DEF RoomStep
<1>2. ViewTypeOK'
  BY <1>t, <1>1, Zenon DEF ViewTypeOK, RoomStep, clientVars
<1>3. Labelled'
  BY <1>1, Zenon DEF Labelled
<1>4. Forward'
  <2>1. \A c \in Clients : view[c].who = c /\ view[c].board <= slot[c].board /\ view[c].board \in Nat
    <3>1. \A c \in Clients : view[c] \in Snapshot
      BY <1>t, Zenon DEF ViewTypeOK
    <3> QED  BY <3>1, ViewAssumption DEF Snapshot, ViewInv, Forward
  <2>2. ASSUME NEW c \in Clients PROVE view[c].board <= slot'[c].board
    <3>1. slot[c].board <= slot'[c].board
      BY <1>t, Zenon DEF RoomStep
    <3> QED  BY <1>t, <2>1, <3>1
  <2>3. view' = view
    BY <1>t, Zenon DEF clientVars
  <2> QED  BY <1>1, <2>1, <2>2, <2>3, Zenon DEF Forward
<1>5. Verdicts'
  <2>1. \A c \in Clients : Final(c, view[c])'
    <3>1. \A c \in Clients : Final(c, view[c])
      BY Zenon DEF ViewInv, Verdicts
    <3> QED  BY <1>t, <3>1, Zenon DEF Final, RoomStep, clientVars
  <2>2. \A c \in Clients : \A i \in 1..Len(wire'[c]) : c \in DOMAIN wire'[c][i] => Final(c, wire[c][i][c])'
    BY <1>1, Zenon DEF Final
  <2> QED  BY <2>1, <2>2, Zenon DEF Verdicts, RoomStep
<1> QED  BY <1>2, <1>3, <1>4, <1>5, Zenon

-----------------------------------------------------------------------------
(* A session starts with fresh slots, mirrors and nothing under way        *)
(* (game.c:10-33).                                                         *)
LEMMA ViewInit == Init => ViewInv
<1> SUFFICES ASSUME Init PROVE ViewInv
  BY Zenon
<1> USE ViewAssumption DEF Init
<1>1. ViewTypeOK
  <2>1. 1 \in 1..(MaxChanges + 1) /\ 0 \in 0..KeepaliveTicks /\ 0 \in 0..(MaxChanges + 1) /\ 0 \in 0..MaxKeys
    OBVIOUS
  <2>2. slot \in [Players -> PlayerSlot]
    BY <2>1, Zenon DEF PlayerSlot
  <2>3. view \in [Clients -> Snapshot]
    BY <2>1, Zenon DEF Snapshot
  <2>4. <<>> \in Seq(Batch) /\ <<>> \in Seq({"act", "quit"}) /\ Len(<<>>) = 0 /\ 0 <= MaxLag
    OBVIOUS
  <2> QED  BY <2>1, <2>2, <2>3, <2>4, Zenon DEF ViewTypeOK
<1>2. \A c \in Clients : \A i \in 1..Len(wire[c]) : FALSE
  OBVIOUS
<1>3. \A c \in Clients : \A i \in 1..Len(keys[c]) : FALSE
  OBVIOUS
<1>4. Forward
  BY <1>2 DEF Forward
<1> QED  BY <1>1, <1>2, <1>3, <1>4, Zenon DEF ViewInv, Labelled, Loops, Verdicts, Final

(* A step of a client, or START, leaves the room alone: the mirror may only*)
(* become a snapshot that waited, or be told over by the player's Q.       *)
LEMMA ViewStep == ViewInv /\ [Next]_vars => ViewInv'
<1> SUFFICES ASSUME ViewInv, [Next]_vars PROVE ViewInv'
  BY Zenon
<1> USE ViewAssumption
<1>t. /\ ViewTypeOK /\ Labelled /\ Loops /\ Forward /\ Verdicts /\ Clients \subseteq Players
      /\ \A c \in Clients : keys[c] \in Seq({"act", "quit"}) /\ view[c] \in Snapshot
  BY Zenon DEF ViewInv, ViewTypeOK
<1>1. ASSUME NEW c \in Clients, TakeInput(c) PROVE ViewInv'
  <2>1. keys[c] # <<>> /\ keys' = [keys EXCEPT ![c] = Tail(@)] /\ UNCHANGED <<started, clientVars>>
    BY <1>1, Zenon DEF TakeInput
  <2>2. /\ Tail(keys[c]) \in Seq({"act", "quit"}) /\ Len(Tail(keys[c])) = Len(keys[c]) - 1 /\ Len(keys[c]) \in Nat
        /\ \A i \in 1..Len(Tail(keys[c])) : Tail(keys[c])[i] = keys[c][i + 1]
    <3>1. PICK q : q = keys[c]
      BY Zenon
    <3>2. q \in Seq({"act", "quit"}) /\ q # <<>>
      BY <1>t, <2>1, <3>1, Zenon
    <3>3. /\ Tail(q) \in Seq({"act", "quit"}) /\ Len(Tail(q)) = Len(q) - 1 /\ Len(q) \in Nat
          /\ \A i \in 1..Len(Tail(q)) : Tail(q)[i] = q[i + 1]
      BY <3>2
    <3> QED  BY <3>1, <3>3, Zenon
  <2>3. keys' \in [Clients -> Seq({"act", "quit"})] /\ keys'[c] = Tail(keys[c]) /\ \A d \in Clients : d # c => keys'[d] = keys[d]
    BY <1>t, <2>1, <2>2, Zenon DEF ViewTypeOK
  <2>4. RoomStep
    BY <1>1, InputRoomStep, Zenon
  <2>5. \A i \in 1..Len(keys'[c]) : keys'[c][i] = "quit" => c \in quit
    <3>1. \A i \in 1..Len(Tail(keys[c])) : i + 1 \in 1..Len(keys[c])
      BY <2>2
    <3> QED  BY <1>t, <2>2, <2>3, <3>1, Zenon DEF Loops
  <2>6. Loops'
    BY <1>t, <2>1, <2>3, <2>5, Zenon DEF Loops, clientVars
  <2> QED  BY <2>3, <2>4, <2>6, RoomKeeps, Zenon DEF ViewInv
<1>2. CASE Tick \/ GameOver
  <2>1. RoomStep
    BY <1>2, TickRoomStep, OverRoomStep, Zenon
  <2>2. keys' = keys
    BY <1>2, Zenon DEF Tick, GameOver
  <2>3. Loops'
    BY <1>t, <2>1, <2>2, Zenon DEF Loops, RoomStep, clientVars
  <2> QED  BY <1>t, <2>1, <2>2, <2>3, RoomKeeps, Zenon DEF ViewInv, ViewTypeOK
<1>3. CASE EndInputs \/ UNCHANGED vars
  <2>1. /\ UNCHANGED <<slot, winner_id, fell, keys, started, told, wire, pc, view, pressed, quit>>
        /\ stage' = stage \/ (stage = "input" /\ stage' = "hub")
    BY <1>3, Zenon DEF EndInputs, clientVars, vars
  <2>2. ViewTypeOK'
    BY <1>t, <2>1, Zenon DEF ViewTypeOK
  <2>3. Labelled' /\ Loops' /\ Forward'
    BY <1>t, <2>1, Zenon DEF Labelled, Loops, Forward
  <2>4. Verdicts'
    BY <1>t, <2>1, Zenon DEF Verdicts, Final
  <2> QED  BY <2>2, <2>3, <2>4, Zenon DEF ViewInv
<1>4. ASSUME NEW c \in Clients, Start(c) PROVE ViewInv'
  <2>1. /\ c \notin started /\ started' = started \cup {c} /\ pc' = [pc EXCEPT ![c] = "keys"]
        /\ UNCHANGED <<slot, stage, winner_id, fell, told, keys, wire, view, pressed, quit>>
    BY <1>4, Zenon DEF Start, roomVars
  <2>2. ViewTypeOK'
    BY <1>t, <2>1, Zenon DEF ViewTypeOK
  <2>3. pc'[c] = "keys" /\ \A d \in Clients : d # c => pc'[d] = pc[d]
    BY <1>t, <2>1, Zenon DEF ViewTypeOK
  <2>4. Loops'
    BY <1>t, <2>1, <2>3, Zenon DEF Loops
  <2>5. Labelled' /\ Forward' /\ Verdicts'
    BY <1>t, <2>1, Zenon DEF Labelled, Forward, Verdicts, Final
  <2> QED  BY <2>2, <2>4, <2>5, Zenon DEF ViewInv
<1>5. ASSUME NEW c \in Clients, Key(c) \/ PressQ(c) PROVE ViewInv'
  <2>1. PICK action \in {"act", "quit"} : Press(c, action) /\ (action = "quit" => c \in quit') /\ quit \subseteq quit' /\ quit' \subseteq quit \cup {c}
    BY <1>5, Zenon DEF Key, PressQ
  <2>2. /\ pc[c] = "keys" /\ pressed[c] < MaxKeys /\ pressed' = [pressed EXCEPT ![c] = @ + 1]
        /\ keys' = [keys EXCEPT ![c] = Append(@, action)]
        /\ UNCHANGED <<slot, stage, winner_id, fell, told, started, wire>>
    BY <2>1, Zenon DEF Press, roomVars
  <2>3. /\ view' = view \/ (c \in quit' /\ view' = [view EXCEPT ![c].over = TRUE])
        /\ pc' = pc \/ pc' = [pc EXCEPT ![c] = "drain"]
    BY <1>5, Zenon DEF Key, PressQ
  <2>4. PICK k : k = keys[c]
    BY Zenon
  <2>5. /\ k \in Seq({"act", "quit"}) /\ Append(k, action) \in Seq({"act", "quit"}) /\ Len(k) \in Nat /\ Len(Append(k, action)) = Len(k) + 1
        /\ \A i \in 1..Len(Append(k, action)) : Append(k, action)[i] = IF i <= Len(k) THEN k[i] ELSE action
    BY <1>t, <2>4
  <2>6. keys' \in [Clients -> Seq({"act", "quit"})] /\ keys'[c] = Append(k, action) /\ \A d \in Clients : d # c => keys'[d] = keys[d]
    BY <1>t, <2>2, <2>4, <2>5, Zenon DEF ViewTypeOK
  <2>7. \A d \in Clients : /\ view'[d].board = view[d].board /\ view'[d].who = view[d].who /\ view'[d].winner = view[d].winner
                           /\ view'[d].over = view[d].over \/ d \in quit'
                           /\ view[d].over => view'[d].over
    <3>1. CASE view' = view
      BY <3>1, Zenon
    <3>2. CASE c \in quit' /\ view' = [view EXCEPT ![c].over = TRUE]
      <4>1. view'[c] = [view[c] EXCEPT !.over = TRUE] /\ \A d \in Clients : d # c => view'[d] = view[d]
        BY <1>t, <3>2, Zenon DEF ViewTypeOK
      <4>2. /\ view'[c].board = view[c].board /\ view'[c].who = view[c].who /\ view'[c].winner = view[c].winner
            /\ view'[c].over
        BY <1>t, <4>1, Zenon DEF Snapshot
      <4> QED  BY <3>2, <4>1, <4>2, Zenon
    <3> QED  BY <2>3, <3>1, <3>2, Zenon
  <2>8. view' \in [Clients -> Snapshot]
    <3>1. [view[c] EXCEPT !.over = TRUE] \in Snapshot
      BY <1>t, Zenon DEF Snapshot
    <3> QED  BY <1>t, <2>3, <3>1, ZenonT(40) DEF ViewTypeOK
  <2>9. pc' \in [Clients -> {"lobby", "keys", "drain", "done"}] /\ \A d \in Clients : pc'[d] = pc[d] \/ (pc'[d] = "drain" /\ d = c)
    BY <1>t, <2>3, Zenon DEF ViewTypeOK
  <2>10. pressed' \in [Clients -> 0..MaxKeys]
    <3>1. pressed[c] + 1 \in 0..MaxKeys
      BY <1>t, <2>2 DEF ViewTypeOK
    <3> QED  BY <1>t, <2>2, <3>1, Zenon DEF ViewTypeOK
  <2>11. ViewTypeOK'
    BY <1>t, <2>1, <2>2, <2>6, <2>8, <2>9, <2>10, Zenon DEF ViewTypeOK
  <2>12. Loops'
    <3>1. \A i \in 1..Len(keys'[c]) : keys'[c][i] = "quit" => c \in quit'
      <4> TAKE i \in 1..Len(keys'[c])
      <4>1. CASE i \in 1..Len(k) /\ keys'[c][i] = k[i]
        BY <1>t, <2>1, <2>4, <4>1, Zenon DEF Loops
      <4>2. CASE keys'[c][i] = action
        BY <2>1, <4>2, Zenon
      <4> QED  BY <2>5, <2>6, <4>1, <4>2
    <3>2. \A d \in Clients : \A i \in 1..Len(keys'[d]) : keys'[d][i] = "quit" => d \in quit'
      BY <1>t, <2>1, <2>6, <3>1, Zenon DEF Loops
    <3>3. \A d \in Clients : pc'[d] = "done" => view'[d].over
      BY <1>t, <2>7, <2>9, Zenon DEF Loops
    <3>4. \A d \in Clients : pc'[d] = "lobby" <=> d \notin started'
      BY <1>t, <2>2, <2>9, Zenon DEF Loops
    <3> QED  BY <3>2, <3>3, <3>4, Zenon DEF Loops
  <2>13. Labelled' /\ Forward'
    BY <1>t, <2>2, <2>7 DEF Labelled, Forward
  <2>14. Verdicts'
    BY <1>t, <2>1, <2>2, <2>7, Zenon DEF Verdicts, Final
  <2> QED  BY <2>11, <2>12, <2>13, <2>14, Zenon DEF ViewInv
<1>6. ASSUME NEW c \in Clients, EndKeys(c) PROVE ViewInv'
  <2>1. /\ pc[c] = "keys" /\ pc' = [pc EXCEPT ![c] = "drain"]
        /\ UNCHANGED <<slot, stage, winner_id, fell, told, keys, started, wire, view, pressed, quit>>
    BY <1>6, Zenon DEF EndKeys, roomVars
  <2>2. ViewTypeOK'
    BY <1>t, <2>1, Zenon DEF ViewTypeOK
  <2>3. pc'[c] = "drain" /\ \A d \in Clients : d # c => pc'[d] = pc[d]
    BY <1>t, <2>1, Zenon DEF ViewTypeOK
  <2>4. Loops'
    BY <1>t, <2>1, <2>3, Zenon DEF Loops
  <2>5. Labelled' /\ Forward' /\ Verdicts'
    BY <1>t, <2>1, Zenon DEF Labelled, Forward, Verdicts, Final
  <2> QED  BY <2>2, <2>4, <2>5, Zenon DEF ViewInv
<1>7. ASSUME NEW c \in Clients, Frame(c) PROVE ViewInv'
  <2>1. PICK m : m = Mirror(c, wire[c])
    BY Zenon
  <2>2. /\ pc[c] = "drain" /\ view' = [view EXCEPT ![c] = m] /\ wire' = [wire EXCEPT ![c] = <<>>]
        /\ pc' = [pc EXCEPT ![c] = IF view'[c].over THEN "done" ELSE "keys"]
        /\ UNCHANGED <<slot, stage, winner_id, fell, told, keys, started, pressed, quit>>
    BY <1>7, <2>1, Zenon DEF Frame, roomVars
  <2>3. \/ m = view[c]
        \/ \E i \in 1..Len(wire[c]) : c \in DOMAIN wire[c][i] /\ m = wire[c][i][c]
    BY <1>t, <2>1, MirrorShape, Zenon
  <2>4. m \in Snapshot /\ m.who = c /\ m.board <= slot[c].board /\ Final(c, m)
    <3>1. CASE m = view[c]
      BY <1>t, <3>1, Zenon DEF Forward, Verdicts
    <3>2. CASE \E i \in 1..Len(wire[c]) : c \in DOMAIN wire[c][i] /\ m = wire[c][i][c]
      <4>1. PICK i \in 1..Len(wire[c]) : c \in DOMAIN wire[c][i] /\ m = wire[c][i][c]
        BY <3>2, Zenon
      <4>2. wire[c][i] \in Batch
        BY <1>t DEF ViewTypeOK
      <4>3. PICK ps \in SUBSET Players : wire[c][i] \in [ps -> Snapshot]
        BY <4>2, Zenon DEF Batch
      <4> QED  BY <1>t, <4>1, <4>3, Zenon DEF Forward, Verdicts, Labelled
    <3> QED  BY <2>3, <3>1, <3>2, Zenon
  <2>5. /\ view' \in [Clients -> Snapshot] /\ view'[c] = m /\ wire'[c] = <<>>
        /\ \A d \in Clients : d # c => view'[d] = view[d] /\ wire'[d] = wire[d] /\ pc'[d] = pc[d]
    BY <1>t, <2>2, <2>4, Zenon DEF ViewTypeOK
  <2>6. <<>> \in Seq(Batch) /\ Len(<<>>) = 0 /\ 0 <= MaxLag /\ \A i \in 1..Len(wire'[c]) : FALSE
    BY <2>5
  <2>7. pc' \in [Clients -> {"lobby", "keys", "drain", "done"}] /\ pc'[c] = IF m.over THEN "done" ELSE "keys"
    BY <1>t, <2>2, <2>5, Zenon DEF ViewTypeOK
  <2>8. ViewTypeOK'
    BY <1>t, <2>2, <2>5, <2>6, <2>7, Zenon DEF ViewTypeOK
  <2>9. Labelled'
    BY <1>t, <2>5, <2>6, Zenon DEF Labelled
  <2>10. Loops'
    BY <1>t, <2>2, <2>5, <2>7, SMTT(30) DEF Loops
  <2>11. Forward'
    <3>1. ASSUME NEW d \in Clients, d # c
          PROVE  view'[d] = view[d] /\ wire'[d] = wire[d] /\ slot'[d] = slot[d]
      BY <2>2, <2>5, <3>1, Zenon
    <3>2. slot'[c] = slot[c]
      BY <2>2, Zenon
    <3> QED  BY <1>t, <2>4, <2>5, <2>6, <3>1, <3>2 DEF Forward
  <2>12. Verdicts'
    <3>2. ASSUME NEW d \in Clients
          PROVE  /\ Final(d, view[d])'
                 /\ \A i \in 1..Len(wire'[d]) : d \in DOMAIN wire'[d][i] => Final(d, wire[d][i][d])'
      <4>1. CASE d = c
        BY <2>2, <2>4, <2>5, <2>6, <4>1, Zenon DEF Final
      <4>2. CASE d # c
        <5>1. view'[d] = view[d] /\ wire'[d] = wire[d]
          BY <2>5, <4>2, Zenon
        <5> QED  BY <1>t, <2>2, <5>1 DEF Verdicts, Final
      <4> QED  BY <4>1, <4>2, Zenon
    <3>3. \A p \in Players : Final(p, slot[p])'
      BY <1>t, <2>2, Zenon DEF Verdicts, Final
    <3> QED  BY <3>2, <3>3, Zenon DEF Verdicts
  <2> QED  BY <2>8, <2>9, <2>10, <2>11, <2>12, Zenon DEF ViewInv
<1> QED  BY <1>1, <1>2, <1>3, <1>4, <1>5, <1>6, <1>7, Zenon DEF Next, Client

(* A frame shows the mirror or a later board of the player, and no other   *)
(* step changes the board that is shown.                                   *)
LEMMA ForwardStep ==
    ASSUME ViewInv, ViewInv', [Next]_vars
    PROVE  \A c \in Clients : /\ view'[c].who = c /\ view'[c].board <= slot'[c].board
                              /\ view[c].board <= view'[c].board
<1> TAKE c \in Clients
<1>1. view'[c].who = c /\ view'[c].board <= slot'[c].board
  BY Zenon DEF ViewInv, Forward
<1>2. view[c] \in Snapshot /\ view[c].board \in Nat /\ view \in [Clients -> Snapshot]
  BY ViewAssumption DEF ViewInv, ViewTypeOK, Snapshot
<1>3. CASE view'[c].board = view[c].board
  BY <1>1, <1>2, <1>3
<1>4. CASE Frame(c)
  <2>1. view'[c] = Mirror(c, wire[c])
    BY <1>2, <1>4, Zenon DEF Frame
  <2>2. \/ Mirror(c, wire[c]) = view[c]
        \/ \E i \in 1..Len(wire[c]) : c \in DOMAIN wire[c][i] /\ Mirror(c, wire[c]) = wire[c][i][c]
    BY MirrorShape, Zenon DEF ViewInv
  <2>3. \A i \in 1..Len(wire[c]) : c \in DOMAIN wire[c][i] => view[c].board <= wire[c][i][c].board
    BY Zenon DEF ViewInv, Forward
  <2>4. CASE view'[c] = view[c]
    BY <1>1, <1>2, <2>4, SMTT(30)
  <2>5. CASE view'[c] # view[c]
    BY <1>1, <2>1, <2>2, <2>3, <2>5, Zenon
  <2> QED  BY <2>4, <2>5, Zenon
<1>5. CASE ~Frame(c)
  <2>1. ASSUME NEW d \in Clients, Frame(d) PROVE view'[c].board = view[c].board
    <3>1. d # c
      BY <1>5, <2>1, Zenon
    <3> QED  BY <1>2, <2>1, <3>1, Zenon DEF Frame
  <2>2. ASSUME NEW d \in Clients, PressQ(d) PROVE view'[c].board = view[c].board
    BY <1>2, <2>2, Zenon DEF PressQ, Snapshot
  <2>3. \/ view' = view \/ \E d \in Clients : Frame(d) \/ PressQ(d)
    BY Zenon DEF Next, Client, EndInputs, Tick, GameOver, TakeInput, Start, Key, EndKeys, clientVars, vars
  <2> QED  BY <1>3, <2>1, <2>2, <2>3, Zenon
<1> QED  BY <1>4, <1>5, Zenon

-----------------------------------------------------------------------------
(* The shapes of slots, mirrors, keys and batches, and the bound on how far*)
(* a client is behind.                                                     *)
THEOREM ViewTyping == Spec => []ViewTypeOK
<1>1. ViewInv => ViewTypeOK
  BY Zenon DEF ViewInv
<1> QED  BY ViewInit, ViewStep, <1>1, PTL DEF Spec

(* A mirror shows the player's own board, never goes back to an earlier one*)
(* and never runs ahead of the room, although the snapshots of all players *)
(* go to every client.                                                     *)
THEOREM MirrorMovesForward == Spec => MirrorForward
<1>1. ViewInv /\ ViewInv' /\ [Next]_vars =>
        [\A c \in Clients : /\ view'[c].who = c /\ view'[c].board <= slot'[c].board
                            /\ view[c].board <= view'[c].board]_vars
  BY ForwardStep, Zenon
<1> QED  BY ViewInit, ViewStep, <1>1, PTL DEF Spec, MirrorForward

(* A player who neither topped out nor pressed Q leaves the game only after*)
(* the end of the match, and is shown the winner that the room was told.   *)
THEOREM WinnerShown == Spec => []SurvivorSeesWinner
<1>1. ViewInv => SurvivorSeesWinner
  <2> SUFFICES ASSUME ViewInv, NEW c \in Clients, pc[c] = "done", c \notin fell \cup quit
               PROVE  stage = "over" /\ view[c].winner = winner_id
    <3>1. \A c \in Clients : c # 0
      BY ViewAssumption, Zenon
    <3>2. \A c \in Clients : Banner(c) = IF view[c].winner = 0 THEN "no winner"
                                         ELSE IF view[c].winner = c THEN "you won" ELSE "other"
      BY <3>1, Zenon DEF Banner
    <3> QED  BY <3>2, Zenon DEF SurvivorSeesWinner
  <2>1. view[c].over /\ Final(c, view[c])
    BY Zenon DEF ViewInv, Loops, Verdicts
  <2> QED  BY <2>1, Zenon DEF Final
<1> QED  BY ViewInit, ViewStep, <1>1, PTL DEF Spec

-----------------------------------------------------------------------------
(* The game.                                                               *)

(* The C struct GameState: a record with these fields and no others.       *)
Fields == {"board", "cur", "held", "has_held", "bag", "bag_index", "pending", "outgoing",
           "combo", "b2b", "last_rot", "lock", "grav", "over", "placed", "lines"}
Game(s) == s = [f \in Fields |-> s[f]]

(* Two halves of the bag, each a permutation, and the draw in the first.   *)
Dealt(s) == s.bag_index \in 0..(N - 1) /\ \E b, c \in Bags : s.bag = b \o c

Good(s) == Game(s) /\ s.placed \in Nat /\ Dealt(s)

Safe(s) == ~s.over /\ ~s.has_held => Fits(s, s.cur)

HoldStep(s, t) ==
    /\ t.held # s.held => ~s.has_held /\ t.has_held
    /\ s.has_held /\ t.placed = s.placed => t.has_held

(* What every step from s to t has to do.                                  *)
Fair(s, t) == Good(t) /\ Safe(t) /\ HoldStep(s, t)

(* t is s as far as the theorems go.                                       *)
Same(s, t) ==
    /\ Game(t) /\ t.board = s.board /\ t.cur = s.cur /\ t.over = s.over /\ t.placed = s.placed
    /\ t.held = s.held /\ t.has_held = s.has_held /\ t.bag = s.bag /\ t.bag_index = s.bag_index

-----------------------------------------------------------------------------
(* A bag is a sequence of as many pieces as there are kinds.               *)
LEMMA BagFacts ==
    /\ N \in Nat \ {0}
    /\ \A b \in Bags : b \in Seq(Kinds) /\ Len(b) = N
<1>1. IsFiniteSet(1..7)
  <2>1. 1 \in Int /\ 7 \in Int
    OBVIOUS
  <2> QED BY <2>1, FS_Interval, Zenon
<1>2. IsFiniteSet(Kinds)
  BY <1>1, FS_Subset, BrainAssumption, Zenon
<1>3. N \in Nat /\ N # 0
  BY <1>2, FS_CardinalityType, FS_EmptySet, BrainAssumption, Zenon DEF N
<1>4. \A b \in Bags : b \in [1..N -> Kinds]
  BY Zenon DEF Bags
<1> QED BY <1>3, <1>4

(* The halves of two bags in a row are the two bags.                       *)
LEMMA Halves ==
    ASSUME NEW b \in Bags, NEW c \in Bags
    PROVE  SubSeq(b \o c, 1, N) = b /\ SubSeq(b \o c, N + 1, 2 * N) = c
<1>1. /\ N \in Nat \ {0} /\ b \in Seq(Kinds) /\ Len(b) = N /\ c \in Seq(Kinds) /\ Len(c) = N
  BY BagFacts, Zenon
<1>2. /\ b \o c \in Seq(Kinds) /\ Len(b \o c) = 2 * N
      /\ \A i \in 1..N : (b \o c)[i] = b[i]
      /\ \A i \in (N + 1)..(2 * N) : (b \o c)[i] = c[i - N]
  BY <1>1
<1>3. SubSeq(b \o c, 1, N) = b
  <2>1. /\ SubSeq(b \o c, 1, N) \in Seq(Kinds) /\ Len(SubSeq(b \o c, 1, N)) = N
        /\ \A i \in 1..N : SubSeq(b \o c, 1, N)[i] = b[i]
    BY <1>1, <1>2
  <2> QED BY <1>1, <2>1
<1>4. SubSeq(b \o c, N + 1, 2 * N) = c
  <2>1. /\ SubSeq(b \o c, N + 1, 2 * N) \in Seq(Kinds) /\ Len(SubSeq(b \o c, N + 1, 2 * N)) = N
        /\ \A i \in 1..N : SubSeq(b \o c, N + 1, 2 * N)[i] = c[i]
    BY <1>1, <1>2
  <2> QED BY <1>1, <2>1
<1> QED BY <1>3, <1>4, Zenon

(* spawn_new_piece (bag.c:32-51) deals from the first half, and refills it *)
(* with a whole bag when it is spent; only the piece and the flag change.  *)
LEMMA Spawned ==
    ASSUME NEW s, Good(s), NEW t \in spawn_new_piece(s)
    PROVE  /\ Good(t) /\ t.board = s.board /\ t.over = s.over /\ t.held = s.held
           /\ t.placed = s.placed /\ t.has_held = FALSE
           /\ t.cur = AtTop(s.bag[s.bag_index + 1])
<1> DEFINE d == [s EXCEPT !.cur = AtTop(s.bag[s.bag_index + 1]), !.has_held = FALSE,
                          !.bag_index = @ + 1]
<1>1. Game(s) /\ s.placed \in Nat /\ Dealt(s)
  BY Zenon DEF Good
<1>2. /\ Game(d) /\ d.board = s.board /\ d.over = s.over /\ d.held = s.held
      /\ d.placed = s.placed /\ d.has_held = FALSE /\ d.bag = s.bag
      /\ d.bag_index = s.bag_index + 1 /\ d.cur = AtTop(s.bag[s.bag_index + 1])
  BY <1>1, Zenon DEF Game, Fields
<1>3. t \in IF BagSpent(d.bag_index) THEN refill_bag(d) ELSE {d}
  BY Zenon DEF spawn_new_piece
<1> HIDE DEF d
<1>4. CASE BagSpent(d.bag_index)
  <2>1. PICK a \in Bags : t = [d EXCEPT !.bag = SubSeq(@, N + 1, 2 * N) \o a, !.bag_index = 0]
    BY <1>3, <1>4, Zenon DEF refill_bag
  <2>2. PICK b \in Bags, c \in Bags : s.bag = b \o c
    BY <1>1, Zenon DEF Dealt
  <2>3. SubSeq(d.bag, N + 1, 2 * N) = c
    <3>1. d.bag = b \o c
      BY <1>2, <2>2, Zenon
    <3> QED BY <3>1, Halves, ZenonT(60)
  <2>4. /\ Game(t) /\ t.board = d.board /\ t.over = d.over /\ t.held = d.held
        /\ t.placed = d.placed /\ t.has_held = d.has_held /\ t.cur = d.cur
        /\ t.bag = c \o a /\ t.bag_index = 0
    BY <1>2, <2>1, <2>3, Zenon DEF Game, Fields
  <2>5. Dealt(t)
    <3>1. t.bag_index \in 0..(N - 1)
      BY <2>4, BagFacts
    <3> QED BY <2>4, <3>1, Zenon DEF Dealt
  <2> QED BY <1>1, <1>2, <2>4, <2>5, Zenon DEF Good
<1>5. CASE ~BagSpent(d.bag_index)
  <2>1. t = d
    BY <1>3, <1>5, Zenon
  <2>2. Dealt(d)
    <3>1. d.bag_index \in 0..(N - 1)
      BY <1>1, <1>2, <1>5, BagFacts DEF Dealt, BagSpent
    <3> QED BY <1>1, <1>2, <3>1, Zenon DEF Dealt
  <2> QED BY <1>1, <1>2, <2>1, <2>2, Zenon DEF Good
<1> QED BY <1>4, <1>5, Zenon

(* A change of timers, meters or counters is no matter.                    *)
LEMMA SameFair ==
    ASSUME NEW s, NEW t, NEW u, Fair(s, t), Same(t, u)
    PROVE  Fair(s, u)
BY Zenon DEF Fair, Good, Safe, HoldStep, Same, Dealt, Fits

(* From a good state to itself.                                            *)
LEMMA FairSelf ==
    ASSUME NEW s, Good(s), Safe(s)
    PROVE  Fair(s, s)
BY Zenon DEF Fair, HoldStep

(* Moves and rotations (movement.c, board_control.c:65-137) change the     *)
(* piece to one that was checked, and nothing that hold or the bag uses.   *)
Placed(s, t) ==
    /\ Game(t) /\ t.board = s.board /\ t.over = s.over /\ t.placed = s.placed
    /\ t.held = s.held /\ t.has_held = s.has_held /\ t.bag = s.bag /\ t.bag_index = s.bag_index
    /\ (t.cur = s.cur \/ Fits(s, t.cur))

(* Such a change is fair.                                                  *)
LEMMA PlacedFair ==
    ASSUME NEW s, NEW t, Good(s), Safe(s), Placed(s, t)
    PROVE  Fair(s, t)
BY Zenon DEF Fair, Good, Safe, HoldStep, Placed, Dealt, Fits

(* A shift is one.                                                         *)
LEMMA Shifted ==
    ASSUME NEW s, Game(s), NEW p
    PROVE  Placed(s, Shift(s, p))
BY Zenon DEF Placed, Shift, Game, Fields

(* And so is a rotation, whichever of its kicks is taken.                  *)
LEMMA Rotated ==
    ASSUME NEW s, Game(s), NEW next
    PROVE  Placed(s, test_rotate(s, next))
<1> DEFINE ok == {i \in 1..5 : KickFits(s, next, i)}
<1>1. CASE ok = {}
  BY <1>1, Zenon DEF test_rotate, Placed
<1>2. CASE ok # {}
  <2>1. Min(ok) \in ok
    <3>1. \E i \in ok : \A j \in ok : i <= j
      <4>1. \E i \in {1, 2, 3, 4, 5} : i \in ok /\ \A j \in {1, 2, 3, 4, 5} : j \in ok => i <= j
        BY <1>2
      <4> QED BY <4>1
    <3> QED BY <3>1, Zenon DEF Min
  <2>2. Fits(s, Kicked(s.cur, next, Min(ok)))
    BY <2>1, Zenon DEF KickFits
  <2>3. test_rotate(s, next) = [s EXCEPT !.cur = Kicked(s.cur, next, Min(ok)), !.last_rot = TRUE]
    BY <1>2, Zenon DEF test_rotate
  <2> QED BY <2>2, <2>3, Zenon DEF Placed, Game, Fields
<1> QED BY <1>1, <1>2, Zenon

(* hold_piece (hold.c:5-30) swaps at most once, and spends the right to.   *)
LEMMA Held ==
    ASSUME NEW s, Good(s), Safe(s), NEW t \in hold_piece(s)
    PROVE  Fair(s, t)
<1>1. CASE s.has_held
  BY <1>1, FairSelf, Zenon DEF hold_piece
<1>2. CASE ~s.has_held
  <2>1. PICK k \in IF s.held = 0 THEN spawn_new_piece([s EXCEPT !.held = s.cur.type])
                   ELSE {[s EXCEPT !.cur = AtTop(s.held), !.held = s.cur.type]} :
          t = [k EXCEPT !.has_held = TRUE]
    BY <1>2, Zenon DEF hold_piece
  <2>2. Good(k)
    <3>1. CASE s.held = 0
      <4> DEFINE h == [s EXCEPT !.held = s.cur.type]
      <4>1. Good(h)
        BY Zenon DEF Good, Game, Fields, Dealt
      <4> QED BY <2>1, <3>1, <4>1, Spawned, Zenon
    <3>2. CASE s.held # 0
      BY <2>1, <3>2, Zenon DEF Good, Game, Fields, Dealt
    <3> QED BY <3>1, <3>2, Zenon
  <2>3. Good(t) /\ t.has_held = TRUE
    BY <2>1, <2>2, Zenon DEF Good, Game, Fields, Dealt
  <2> QED BY <1>2, <2>3, Zenon DEF Fair, Safe, HoldStep
<1> QED BY <1>1, <1>2, Zenon

(* Locking a piece (engine.c:44-108) counts it, and leaves hold and bag.   *)
LEMMA LockedPiece ==
    ASSUME NEW s, Good(s), NEW k \in Settled(s, Locked(s))
    PROVE  /\ Good(k) /\ k.placed = s.placed + 1
           /\ k.held = s.held /\ k.has_held = s.has_held
<1> DEFINE l == Locked(s)
<1>2. /\ Game(l) /\ l.placed = s.placed + 1 /\ l.held = s.held /\ l.has_held = s.has_held
      /\ l.bag = s.bag /\ l.bag_index = s.bag_index
  BY ZenonT(60) DEF Locked, Good, Game, Fields
<1> HIDE DEF l
<1>3. k = l \/ \E b : k = [l EXCEPT !.board = b, !.pending = 0]
  BY Zenon DEF Settled, l
<1>4. /\ Game(k) /\ k.placed = l.placed /\ k.held = l.held /\ k.has_held = l.has_held
      /\ k.bag = l.bag /\ k.bag_index = l.bag_index
  BY <1>2, <1>3, Zenon DEF Game, Fields
<1>5. s.placed + 1 \in Nat
  BY DEF Good
<1>6. Dealt(k)
  BY <1>2, <1>4, Zenon DEF Good, Dealt
<1> QED BY <1>2, <1>4, <1>5, <1>6, Zenon DEF Good

(* tick_game (engine.c:44-108): a piece that cannot fall is locked and the *)
(* next one is checked, so the result is safe wherever the piece was.      *)
LEMMA Ticked ==
    ASSUME NEW s, Good(s), NEW t \in tick_game(s)
    PROVE  Fair(s, t)
<1>1. CASE Fits(s, Down(s.cur))
  <2>1. t = [s EXCEPT !.cur = Down(@)]
    BY <1>1, Zenon DEF tick_game
  <2>2. /\ Game(t) /\ t.board = s.board /\ t.cur = Down(s.cur) /\ t.placed = s.placed
        /\ t.held = s.held /\ t.has_held = s.has_held /\ t.bag = s.bag /\ t.bag_index = s.bag_index
    BY <2>1, Zenon DEF Good, Game, Fields
  <2> QED BY <1>1, <2>2, Zenon DEF Fair, Good, Safe, HoldStep, Dealt, Fits
<1>2. CASE ~Fits(s, Down(s.cur)) /\ s.cur.y < 0
  <2>1. t = [s EXCEPT !.over = TRUE]
    BY <1>2, Zenon DEF tick_game
  <2>2. /\ Game(t) /\ t.over = TRUE /\ t.placed = s.placed
        /\ t.held = s.held /\ t.has_held = s.has_held /\ t.bag = s.bag /\ t.bag_index = s.bag_index
    BY <2>1, Zenon DEF Good, Game, Fields
  <2> QED BY <2>2, Zenon DEF Fair, Good, Safe, HoldStep, Dealt
<1>3. CASE ~Fits(s, Down(s.cur)) /\ ~(s.cur.y < 0)
  <2>1. PICK k \in Settled(s, Locked(s)) : \E n \in spawn_new_piece(k) :
                                             t = [n EXCEPT !.over = ~Fits(n, n.cur)]
    BY <1>3 DEF tick_game
  <2>2. PICK n \in spawn_new_piece(k) : t = [n EXCEPT !.over = ~Fits(n, n.cur)]
    BY <2>1, Zenon
  <2>3. /\ Good(k) /\ k.placed = s.placed + 1
        /\ k.held = s.held /\ k.has_held = s.has_held
    BY <2>1, LockedPiece, Zenon
  <2>4. Good(n) /\ n.held = k.held /\ n.placed = k.placed
    BY <2>2, <2>3, Spawned, Zenon
  <2>5. /\ Game(t) /\ t.board = n.board /\ t.cur = n.cur /\ t.over = ~Fits(n, n.cur)
        /\ t.placed = n.placed /\ t.held = n.held /\ t.bag = n.bag /\ t.bag_index = n.bag_index
    BY <2>2, <2>4, Zenon DEF Good, Game, Fields
  <2>6. Good(t)
    BY <2>4, <2>5, Zenon DEF Good, Dealt
  <2>7. Safe(t)
    BY <2>5, Zenon DEF Safe, Fits
  <2>8. s.placed \in Nat
    BY Zenon DEF Good
  <2>9. HoldStep(s, t)
    <3>1. t.held = s.held /\ t.placed = s.placed + 1
      BY <2>3, <2>4, <2>5, Zenon
    <3>2. t.placed # s.placed
      BY <2>8, <3>1
    <3> QED  BY <3>1, <3>2, Zenon DEF HoldStep
  <2> QED BY <2>6, <2>7, <2>9, Zenon DEF Fair
<1> QED BY <1>1, <1>2, <1>3, Zenon

(* update_timers (engine.c:110-142), which may call it.                    *)
LEMMA Updated ==
    ASSUME NEW s, Good(s), Safe(s), NEW t \in update_timers(s)
    PROVE  Fair(s, t)
<1>1. CASE ~Fits(s, Down(s.cur))
  <2>1. CASE LockDue(s.lock + 1)
    <3>1. PICK k \in tick_game(s) : t = [k EXCEPT !.lock = 0, !.grav = 0]
      BY <1>1, <2>1, Zenon DEF update_timers
    <3>2. Fair(s, k)
      BY <3>1, Ticked, Zenon
    <3>3. Same(k, t)
      BY <3>1, <3>2, Zenon DEF Fair, Good, Same, Game, Fields
    <3> QED BY <3>2, <3>3, SameFair, Zenon
  <2>2. CASE ~LockDue(s.lock + 1)
    <3>1. t = [s EXCEPT !.lock = s.lock + 1]
      BY <1>1, <2>2, Zenon DEF update_timers
    <3>2. Same(s, t)
      BY <3>1, Zenon DEF Good, Same, Game, Fields
    <3> QED BY <3>2, FairSelf, SameFair, Zenon
  <2> QED BY <2>1, <2>2, Zenon
<1>2. CASE Fits(s, Down(s.cur))
  <2> DEFINE u == [s EXCEPT !.lock = 0, !.grav = @ + 1]
  <2>1. Same(s, u)
    BY Zenon DEF Good, Same, Game, Fields
  <2>2. Fair(s, u) /\ Good(u)
    BY <2>1, FairSelf, SameFair DEF Fair
  <2>3. t = u \/ \E k \in tick_game(u) : t = [k EXCEPT !.grav = 0]
    BY <1>2 DEF update_timers
  <2> HIDE DEF u
  <2>4. CASE t = u
    BY <2>2, <2>4, Zenon
  <2>5. ASSUME NEW k \in tick_game(u), t = [k EXCEPT !.grav = 0]
        PROVE  Fair(s, t)
    <3>1. Fair(u, k)
      BY <2>2, Ticked, Zenon
    <3>2. Fair(s, k)
      BY <2>1, <3>1, Zenon DEF Fair, HoldStep, Same
    <3>3. Same(k, t)
      BY <2>5, <3>1, Zenon DEF Fair, Good, Same, Game, Fields
    <3> QED BY <3>2, <3>3, SameFair, Zenon
  <2> QED BY <2>3, <2>4, <2>5, Zenon
<1> QED BY <1>1, <1>2, Zenon

-----------------------------------------------------------------------------
(* A move, with or without the reset of the lock timer (game.c:59-104).    *)
LEMMA MovedFair ==
    ASSUME NEW s, Good(s), Safe(s), NEW x, Placed(s, x), NEW t, t = x \/ t = Unlocked(x)
    PROVE  Fair(s, t)
<1>1. Fair(s, x)
  BY PlacedFair, Zenon
<1>2. Same(x, Unlocked(x)) /\ Same(x, x)
  BY DEF Placed, Same, Unlocked, Game, Fields
<1> QED BY <1>1, <1>2, SameFair, Zenon

(* Every action of a player, every attack and every tick (game.c:59-168).  *)
LEMMA EveryStep ==
    ASSUME Good(g), Safe(g), BrainNext
    PROVE  Fair(g, g')
<1>0. Game(g)
  BY Zenon DEF Good
<1>1. CASE MoveLeft \/ MoveRight \/ SoftDrop
  <2>1. PICK p : g' = Shift(g, p) \/ g' = Unlocked(Shift(g, p))
    BY <1>1, Zenon DEF MoveLeft, MoveRight, SoftDrop, move_left, move_right, soft_drop, Act, Moved
  <2> QED BY <1>0, <2>1, Shifted, MovedFair, Zenon
<1>2. CASE RotateCW \/ RotateCCW
  <2>1. PICK n : g' = Unlocked(test_rotate(g, n))
    BY <1>2, Zenon DEF RotateCW, RotateCCW, rotate_current_piece, rotate_counter_clockwise, Act
  <2> QED BY <1>0, <2>1, Rotated, MovedFair, Zenon
<1>3. CASE HardDrop
  <2>1. PICK h : h = hard_drop(g)
    BY Zenon
  <2>2. PICK k \in tick_game(h) : g' = [k EXCEPT !.lock = 0, !.grav = 0]
    BY <1>3, <2>1, Zenon DEF HardDrop, Act
  <2>3. /\ Game(h) /\ h.placed = g.placed /\ h.held = g.held /\ h.has_held = g.has_held
        /\ h.bag = g.bag /\ h.bag_index = g.bag_index
    <3>1. PICK q : h = [g EXCEPT !.cur = q]
      BY <2>1, Zenon DEF hard_drop
    <3> QED BY <1>0, <3>1, Zenon DEF Game, Fields
  <2>4. Good(h)
    BY <2>3, Zenon DEF Good, Dealt
  <2>5. Fair(h, k)
    BY <2>4, Ticked, Zenon
  <2>6. Fair(g, k)
    BY <2>3, <2>5, Zenon DEF Fair, HoldStep
  <2>7. Same(k, g')
    BY <2>2, <2>5, Zenon DEF Fair, Good, Same, Game, Fields
  <2> QED BY <2>6, <2>7, SameFair, Zenon
<1>4. CASE Hold
  <2>1. PICK k \in hold_piece(g) : g' = [k EXCEPT !.grav = IF g.has_held THEN @ ELSE 0]
    BY <1>4, Zenon DEF Hold, Act
  <2>2. Fair(g, k)
    BY Held, Zenon
  <2>3. Same(k, g')
    BY <2>1, <2>2, Zenon DEF Fair, Good, Same, Game, Fields
  <2> QED BY <2>2, <2>3, SameFair, Zenon
<1>5. CASE Quit
  <2>1. g' = [g EXCEPT !.over = TRUE]
    BY <1>5, Zenon DEF Quit, Act
  <2>2. /\ Game(g') /\ g'.over = TRUE /\ g'.placed = g.placed /\ g'.held = g.held
        /\ g'.has_held = g.has_held /\ g'.bag = g.bag /\ g'.bag_index = g.bag_index
    BY <1>0, <2>1, Zenon DEF Game, Fields
  <2> QED BY <2>2, Zenon DEF Fair, Good, Safe, HoldStep, Dealt
<1>6. CASE Other
  <2>1. g' = g
    BY <1>6, Zenon DEF Other, Act
  <2> QED BY <2>1, FairSelf, Zenon
<1>7. CASE Attacked
  <2>1. PICK n : g' = [g EXCEPT !.pending = n]
    BY <1>7, Zenon DEF Attacked, queue_garbage
  <2>2. Same(g, g')
    BY <1>0, <2>1, Zenon DEF Same, Game, Fields
  <2> QED BY <2>2, FairSelf, SameFair, Zenon
<1>8. CASE TickSession
  <2>1. PICK k \in IF g.over THEN {g} ELSE update_timers(g) : g' = [k EXCEPT !.outgoing = 0]
    BY <1>8, Zenon DEF TickSession
  <2>2. Fair(g, k)
    BY <2>1, FairSelf, Updated, Zenon
  <2>3. Same(k, g')
    BY <2>1, <2>2, Zenon DEF Fair, Good, Same, Game, Fields
  <2> QED BY <2>2, <2>3, SameFair, Zenon
<1> QED BY <1>1, <1>2, <1>3, <1>4, <1>5, <1>6, <1>7, <1>8, Zenon DEF BrainNext

(* A new piece fits an empty board: the highest index of a solid cell is   *)
(* 11, so its rows are -1 and 0 (board_control.c, bag.c:32-51).            *)
LEMMA NewFits ==
    ASSUME NEW s, s.board = {}, NEW type \in 1..7
    PROVE  Fits(s, AtTop(type))
<1>1. TETROMINOES[type] \subseteq 0..11
  <2>1. type \in {1, 2, 3, 4, 5, 6, 7}
    OBVIOUS
  <2> QED BY <2>1 DEF TETROMINOES
<1>2. PICK p : p = AtTop(type)
  BY Zenon
<1>3. p.type = type /\ p.rot = 0 /\ p.x = BoardWidth \div 2 - 2 /\ p.y = -2
  BY <1>2, Zenon DEF AtTop
<1>4. p.x \in Int /\ 0 <= p.x /\ p.x + 3 <= BoardWidth - 1 /\ p.y = 0 - 2
  BY <1>3, BoardAssumption, SMTT(30)
<1>5. ASSUME NEW c \in Cells(p)
      PROVE  c[1] \in Columns /\ c[2] < BoardHeight
  <2>1. PICK d \in Solid[type][0] : c = <<p.x + d[1], p.y + d[2]>>
    BY <1>3, <1>5, Zenon DEF Cells
  <2>2. Solid[type][0] = {e \in Box : get_rotation_index(e[1], e[2], 0) \in TETROMINOES[type]}
    BY DEF Solid
  <2>3. d[1] \in 0..3 /\ d[2] \in 0..3
    BY <2>1, <2>2, Zenon DEF Box
  <2>4. get_rotation_index(d[1], d[2], 0) = d[1] + 4 * d[2]
    BY DEF get_rotation_index
  <2>5. d[1] + 4 * d[2] <= 11
    BY <1>1, <2>1, <2>2, <2>4
  <2>6. d[2] <= 2
    BY <2>3, <2>5
  <2>7. c[1] = p.x + d[1] /\ c[2] = p.y + d[2]
    BY <2>1, Zenon
  <2> QED BY <1>4, <2>3, <2>6, <2>7, BoardAssumption, SMTT(30) DEF Columns
<1> QED BY <1>2, <1>5, Zenon DEF Fits, is_valid_pos

(* The game before its first piece is drawn.                               *)
FreshBags(b, c) ==
    [board |-> {}, cur |-> AtTop(1), held |-> 0, has_held |-> FALSE,
     bag |-> b \o c, bag_index |-> 0, pending |-> 0, outgoing |-> 0,
     combo |-> -1, b2b |-> FALSE, last_rot |-> FALSE,
     lock |-> 0, grav |-> 0, over |-> FALSE, placed |-> 0, lines |-> 0]

(* start_game (state.c, bag.c:16-29).                                      *)
LEMMA StartFair == BrainInit => Good(g) /\ Safe(g)
<1> SUFFICES ASSUME BrainInit PROVE Good(g) /\ Safe(g)
  BY Zenon
<1>0. PICK b \in Bags, c \in Bags : g \in spawn_new_piece(FreshBags(b, c))
  BY Zenon DEF BrainInit, FreshBags
<1>1. PICK s : s = FreshBags(b, c)
  BY Zenon
<1>2. Game(s) /\ s.placed = 0 /\ s.board = {} /\ s.bag = b \o c /\ s.bag_index = 0
  BY <1>1, Zenon DEF FreshBags, Game, Fields
<1>3. Dealt(s)
  <2>1. 0 \in 0..(N - 1)
    BY BagFacts
  <2> QED BY <1>2, <2>1, Zenon DEF Dealt
<1>4. Good(s)
  BY <1>2, <1>3 DEF Good
<1>5. Good(g) /\ g.board = {} /\ g.cur = AtTop(s.bag[1])
  <2>1. s.bag_index + 1 = 1
    BY <1>2, SMTT(30)
  <2>2. Good(g) /\ g.board = s.board /\ g.cur = AtTop(s.bag[s.bag_index + 1])
    BY <1>0, <1>1, <1>4, Spawned, Zenon
  <2> QED BY <1>2, <2>1, <2>2, Zenon
<1>6. s.bag[1] \in 1..7
  <2>1. /\ b \in Seq(Kinds) /\ c \in Seq(Kinds) /\ Len(b) >= 1
    BY BagFacts
  <2>2. (b \o c)[1] = b[1] /\ b[1] \in Kinds
    BY <2>1
  <2> QED BY <1>2, <2>2, BrainAssumption, Zenon
<1> QED BY <1>5, <1>6, NewFits, Zenon DEF Safe

(* So every step keeps the state good and safe, and is fair.               *)
LEMMA Kept == Good(g) /\ Safe(g) /\ [BrainNext]_brainVars => (Good(g) /\ Safe(g))' /\ (Fair(g, g') \/ g' = g)
<1> SUFFICES ASSUME Good(g), Safe(g), [BrainNext]_brainVars
             PROVE  (Good(g) /\ Safe(g))' /\ (Fair(g, g') \/ g' = g)
  BY Zenon
<1>1. CASE BrainNext
  BY <1>1, EveryStep, Zenon DEF Fair
<1>2. CASE UNCHANGED brainVars
  BY <1>2, Zenon DEF brainVars
<1> QED BY <1>1, <1>2, Zenon

(* Collision checks are complete (board_control.c:142-169): on any board,  *)
(* with any gravity, lock delay, garbage and input, the piece of a running *)
(* game is inside the board and clear of the stack, unless hold, which     *)
(* does not check, has just put it there.                                  *)
THEOREM PiecesFit == BrainSpec => []PieceFits
<1>1. Good(g) /\ Safe(g) /\ [BrainNext]_brainVars => (Good(g) /\ Safe(g))'
  BY Kept, Zenon
<1>2. Safe(g) => PieceFits
  BY Zenon DEF Safe, PieceFits
<1> QED BY <1>1, <1>2, StartFair, PTL DEF BrainSpec

(* The two bags ahead are always whole, whatever mix of locks and holds    *)
(* draws from them (bag.c:16-51).                                          *)
THEOREM BagsFair == BrainSpec => []BagFair
<1>1. Good(g) /\ Safe(g) /\ [BrainNext]_brainVars => (Good(g) /\ Safe(g))'
  BY Kept, Zenon
<1>2. Good(g) => BagFair
  BY Halves, Zenon DEF Good, Dealt, BagFair
<1> QED BY <1>1, <1>2, StartFair, PTL DEF BrainSpec

(* "One swap per piece" (game.c:106), in every interleaving of actions,    *)
(* attacks and ticks.                                                      *)
THEOREM HoldsOnce == BrainSpec => HoldOnce
<1>1. Good(g) /\ Safe(g) /\ [BrainNext]_brainVars => (Good(g) /\ Safe(g))'
  BY Kept, Zenon
<1>2. Good(g) /\ Safe(g) /\ [BrainNext]_brainVars =>
        [/\ g'.held # g.held => ~g.has_held /\ g'.has_held
         /\ g.has_held /\ g'.placed = g.placed => g'.has_held]_brainVars
  BY Kept, Zenon DEF Fair, HoldStep
<1> QED BY <1>1, <1>2, StartFair, PTL DEF BrainSpec, HoldOnce
=============================================================================
