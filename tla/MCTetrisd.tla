----------------------------- MODULE MCTetrisd -----------------------------
(***************************************************************************)
(* Run attack looks at a match in several rooms.  The ways to its first    *)
(* tick are what the other runs explore, so it starts there: n rooms play, *)
(* the first one full, each other one with one player.  The last room of a *)
(* full house was dealt that player only; in the others the last client    *)
(* dealt connected and failed its handshake, so ENTER and the grace window *)
(* started the match without it, and all messages have been read.          *)
(***************************************************************************)
EXTENDS Tetrisd

IdBase(s) == 1 + (s - 1) * MaxLobby
Redirected(s) == IF s < MaxRooms THEN RoomSize ELSE 1
Seated(s) == IF s = 1 THEN RoomSize ELSE 1

(* The players of the first room, then one for each other room.            *)
Table(n) ==
    [i \in 1..(RoomSize + n - 1) |->
       LET s == IF i <= RoomSize THEN 1 ELSE i - RoomSize + 1
       IN  [id |-> IF s = 1 THEN i ELSE IdBase(s), room |-> s, alive |-> TRUE]]

RunningRoom(s) == [FreshRoom(IdBase(s)) EXCEPT !.ready = TRUE, !.started = TRUE,
                                               !.redirected = Redirected(s), !.joined = Seated(s)]

PlayingWorker(s, standing) ==
    [Process("play", IdBase(s) + Redirected(s)) EXCEPT
       !.members = [i \in 1..Seated(s) |-> IdBase(s) + i - 1], !.reported = Seated(s),
       !.ordered = TRUE, !.expected = Redirected(s), !.global = standing]

FirstTick(n) ==
    /\ toMaster = [s \in Slots |-> <<>>] /\ toWorker = [s \in Slots |-> <<>>]
    /\ reset = [s \in Slots |-> FALSE]
    /\ wk = [s \in Slots |-> IF s <= n THEN PlayingWorker(s, Standing(Table(n)))
                                       ELSE Process("none", 0)]
    /\ dealt = [s \in Slots |-> 0] /\ announced = {}
    /\ shown = [s \in Slots |-> [a \in 1..MaxAttacks |-> 0]]
    /\ victimOf = [a \in 1..MaxAttacks |-> 0]
    /\ attacks = 0 /\ crashes = 0
    /\ room = [s \in Slots |-> IF s <= n THEN RunningRoom(s)
                                         ELSE [FreshRoom(0) EXCEPT !.used = FALSE]]
    /\ players = Table(n)
    /\ roomSeq = n /\ anyStarted = TRUE /\ matchEnded = FALSE /\ winner = 0
    /\ mpc = "run" /\ clients = IF n < MaxRooms THEN n * RoomSize ELSE (n - 1) * RoomSize + 1

(* Bound: players out, attacks and crashes together.                       *)
MaxStir == 2

Stir == Cardinality(UNION {wk[s].out : s \in Slots}) + attacks + crashes

(* The match up to its verdict, without SIGINT.  What the master relays of *)
(* attacks counts for nothing in Stir, and goes on after the verdict.      *)
PlayStep ==
    \/ /\ ~matchEnded
       /\ \/ AcceptClient \/ SpawnRoom \/ PressEnter
          \/ \E s \in Slots : \/ HandleReady(s) \/ HandleJoined(s) \/ HandleEliminated(s)
                             \/ WorkerGone(s) \/ WorkerStep(s) \/ WorkerEvent(s)
       /\ Stir' <= MaxStir
    \/ \E s \in Slots : HandleAttack(s) \/ HandleFeed(s)

PlaySpec == (\E n \in 2..MaxRooms : FirstTick(n)) /\ [][PlayStep]_vars
=============================================================================
