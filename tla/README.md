# A TLA+ verification of tetriSH

tetriSH is a battle-royale Tetris for terminals. This directory holds TLA+
models of its server, its clients' game loop, its game rules and its log channel,
TLC configurations that check them on small instances, and proofs, checked by
TLAPS, of the results that matter most, for instances of every size.

Paths below are relative to `src/tetris/src/` (the game) or, where they say
libbattleroyale, `src/corestack/src/lib/libbattleroyale/`.

## The system

* **tetrisd, the master** (`tetrisd/main.c`) accepts clients on one port, deals
  them into rooms, forks one worker process per room, keeps the table of all
  players, starts rooms, relays garbage and kill feeds between rooms, and
  decides when the match is over.
* **A room worker** (`tetrisd/room.c`, `tetrisd/game.c`) holds a lobby, then runs
  the games of its players tick by tick. It talks to the master over a **hub**
  (`tetrisd/hub.c`), a SEQPACKET socketpair, and to its clients through
  **libbattleroyale**, whose server thread runs beside the tick loop.
* **libtetrisbrain** is the game: board, rotation, bag, hold, garbage, locking.
* **tetrisu** is the client: it sends keys and shows snapshots of the boards, which
  **libtetrisprotocol** converts.
* **libtetrislog** and **tetrislogd** are the log channel: each process numbers its
  records, queues them and drains the queue into the datagram socket of the daemon.

## The modules

| Module | Models | State and actions |
|---|---|---|
| `Hub` | `tetrisd/hub.c`, `hub.h` | two FIFO queues per slot; `hub_send`, the end of a closed hub, and a reset that overtakes queued messages |
| `RoomWorker` | `tetrisd/room.c` | one record per worker; an action per step of the lobby loop and the tick loop, arrivals, failed handshakes, exits and crashes |
| `Master` | `tetrisd/main.c` | room table, player table, verdict; an action per hub message type, per way of accepting a client, for ENTER, SIGINT and a worker's death |
| `Tetrisd` | the composition | `Init`, `Next`, fairness, and the properties of the whole daemon |
| `Match` | what the daemon promises | players join, fall, the match is decided once, results are told |
| `BRServer` | libbattleroyale `server.c`, `client.c`, `message.c`, and how `room.c` and `tetrisu` call them | the server thread's states, the worker's main thread, listener threads of the clients; TCP streams at the grain of a `send` |
| `ClientView` | `game.c`, the push and wind-down parts of `room.c`, `tetrisu/main.c`, `input_handler.c`, libtetrisprotocol | session slots, snapshots in flight, the client's mirror |
| `Board`, `Brain` | libtetrisbrain and the way `game.c` drives it | a `GameState` as one record; the C functions as operators on it, tick and input as actions |
| `Queue` | `utils/queue.h` | the queue that `LogChannel` and `BRServer` use |
| `LogChannel` | libtetrislog, tetrislogd | per-process queues and counters, the socket, trackers and file of the daemon |

The `MC*` modules instantiate these for TLC. Names follow the C code. A definition
called `Faulty...` stands before the definition it distorts: a slip that somebody
might make there, used to see that the properties notice it. `PROJECT.json` maps
every definition to the lines it models.

What the abstractions are:

* In `RoomWorker` a board is whether its player is out, has left, or has garbage to
  send; any of these may change at any time while the room plays. `Brain` looks at
  one board in full, and `ClientView` at the slots and snapshots of one room.
* The records of an attack, a snapshot or a log message carry what the receivers
  act on. An attack has a number of its own in place of its lines.
* `resolve_victim` may give any id that the code's targeting modes can reach.
* In `BRServer` a stream is a sequence of four-byte cells and the fixed-size content
  of a message is `Body` equal cells, so that two interleaved messages are read as the
  code would read them.
* The state of a board in `Brain` is the set of its filled cells.

## The runs

Passing runs:

| Run | What it checks |
|---|---|
| `crash` | Rooms of one player, three spawns over two slots (so a slot is reused), one crash at any point, SIGINT at any point. Ids never repeat; no room is started empty; eliminations are neither lost nor invented (`EliminationConserved`); a running room's newest roster is the master's table; one winner; and `Tetrisd` refines `Match`. |
| `attack` | A match in two rooms and one in three, the first room with two players, from the first tick to the verdict: an attack on a player of the same room, of another one, or on one who has left, players who fall or quit, a crash, and a new room that takes the crashed one's slot and is started. Garbage lands in the victim's room only (`GarbageRouted`), no kill feed but the victim's shows an attack twice (`FeedOnce`), and when the match is decided the others really are out (`LosersAreOut`). |
| `pair` | Rooms of two: no redirect before the port is bound, no lobby over its size, and a start order is obeyed although dealt clients stay away. |
| `live` | Eliminations are heard, GAMEOVER ends a room that plays, SIGINT ends every worker. |
| `room` | Both threads write to two clients' connections while the clients join, play and leave. Streams recover their framing, a handshake is private, a started room stays started, inputs are applied in order and once, from a queue where two can wait and a third is dropped. |
| `roomlive` | With fair worker threads, and clients that owe nothing, a starting room sends START unless one connected client never answers its handshake, and it hears its players. |
| `view` | A client in a running match, its keys, Q, and a START that comes late: the mirror only moves forward, every board comes to be shown, it leaves when its game is over, and a survivor is shown the right winner. |
| `brain` | A board under every order of moves, rotations, drops, holds, attacks (up to and beyond the cap of the pending meter) and ticks. |
| `log` | Two processes log while tetrislogd stops and starts: every record is accounted for, each sender's lines are in order, the gap count is exact, and the master's queue never blocks. |

Runs that TLC must refute, because the code does not keep what it says:

* `stale`: "A forever-growing base keeps ids unique even when slots are reused"
  (`main.c:143`). A client that was redirected to an earlier room of a slot, and
  connects when the slot has a new worker, takes an id there. The next room's ids
  follow directly, and an id repeats.
* `lostgameover`: "The daemon's job is done once a match ran and every room wound
  down" (`main.c:522`). A room still in its lobby reads GAMEOVER and discards it
  (`room.c:168`), starts, and is never told again.
* `start`: "all clients are sent an START packet to change their state into a game
  state" (libbattleroyale `server.c:314`). A message is four sends and nothing keeps
  the START of the server thread apart from the roster of the main thread. Mixed,
  both are misread, and the player stays in the lobby.

### Bounds

Constants with names like `MaxCrashes`, `MaxSpawns`, `MaxAttacks`, `MaxRecords`,
`MaxKeys`, `MaxPieces` appear only in guards and stop the enumeration; the others are
the code's own sizes made small.

* Two slots show what a room has to do with another one, and three spawns make one
  slot serve twice. `crash` has one player per room, so that the schedules of three
  workers fit; `pair` has rooms of two, for what happens between players of one lobby.
* A kill-feed event relates three rooms (the attacker's, the victim's, any other), and
  an attack may also stay in its room, so `attack` has three slots and a room of two.
  To fit, it starts at the first tick of a match (`FirstTick` in `MCTetrisd`, a state
  that `Tetrisd` reaches: TLC finds it from `Init`), stops at the verdict, leaves SIGINT to
  the other runs, and bounds players out, attacks and crashes together
  (`MaxStir`).
* The theorems below hold for all of these numbers, so the small instances matter
  most for the properties that are only model-checked.
* Queues of one or two places fill at once, which makes the full-queue paths
  common in `log` and `room`. `MaxTracked = 1` makes the sender table overflow.
* `brain` has a board four wide and three high, up to three I and T pieces (the two kick
  tables) and two attacks of one or two lines: lines fill, garbage rises and is capped,
  holds swap and pieces top out. The theorems about `Brain` are
  for every set of pieces and every board.
* In `room` only one snapshot is pushed, but its sends interleave with those of the
  server thread; `roomlive` takes a message as one send, a coarser instance whose
  two properties are about the server thread, which mixed output does not hold up.

### Fairness

* `Tetrisd`: weak fairness of each worker's own steps, of the master's handling of
  each slot and of the closing of hubs at a shutdown. The master polls all hubs in
  each pass and the loops of a worker sleep for at most 100 ms. Players, the operator,
  signals and crashes owe nothing. Of clients one thing is assumed: a push to a client
  is a blocking `send`, so they read their sockets, or at least never leave so much
  unread that the send buffer stays full.
* `BRServer`: the threads of the worker run. Clients need not read, answer or leave; in
  particular the server thread waits for the answers of a handshake without a timeout
  (`server.c:248-253`, `266-271`), so one connected client that stays silent holds back
  START and every later arrival. `StartSent` says that this is the only thing that can.
  Sends never block here, as above.
* `ClientView`: room loop and frame loop run on and START is sent; a key under way is
  taken (strong fairness, since the drain stops at a bounded number of messages in each
  tick and goes on in the next one).
* `LogChannel`: only the master drains, in each pass of its loop. tetrislogd may be
  down for ever.

Deadlock is not checked: matches end, processes exit and the bounds run out.

## The proofs

All proofs are of the specifications that TLC runs, without fairness. Every safety
property of the passing runs is proved but three of the board (below).

| Theorem | Module | Statement |
|---|---|---|
| `Typing` | `TypeProofs` | `Spec => []TypeOK` |
| `RedirectsWait` | `TypeProofs` | `NoEarlyRedirect` is an invariant |
| `IdsInductive`, `IdsNeverRepeat`, `LobbiesFit` | `MatchProofs` | `IdInv`, `IdsUnique`, `LobbyFits` are invariants |
| `VerdictsInductive`, `RoomsAgree` | `MatchProofs` | `Spec => []VerdictInv`, `Spec => []OneWinner` |
| `DaemonImplementsMatch` | `RosterProofs` | `Spec => ImplementsMatch` |
| `RostersFresh` | `RosterProofs` | `Spec => []RosterFresh` |
| `TalesInductive`, `EliminationsConserved`, `LosersFall` | `PlayProofs` | `TaleInv`, `EliminationConserved` are invariants, `LosersAreOut` an action property |
| `PlayInductive`, `GarbageLands` | `PlayProofs` | `PlayInv`, `GarbageRouted` are invariants |
| `FeedsInductive`, `FeedsShowOnce` | `FeedProofs` | `FeedInv`, `FeedOnce` are invariants |
| `StartsHavePlayers` | `FeedProofs` | `Spec => []NoEmptyStart` |
| `RoomTyping`, `StartIsFinal`, `HandshakeKept` | `BRProofs` | `BRTypeOK`, `NoRevert`, `HandshakePrivate` are invariants of a room's network side |
| `StreamsRealign`, `ActionsInOrder` | `BRProofs` | `Realigned`, `InputOrder` are invariants of it |
| `ViewTyping`, `MirrorMovesForward`, `WinnerShown` | `BoardProofs` | `ViewTypeOK`, `SurvivorSeesWinner` are invariants, `MirrorForward` an action property of the client's mirror |
| `LogTyping`, `LogInOrder`, `RecordsKept`, `GapsCounted` | `LogProofs` | `LogTypeOK`, `LogOrdered`, `RecordsAccounted`, `GapsExact` are invariants of the log channel |
| `PiecesFit`, `BagsFair`, `HoldsOnce` | `BoardProofs` | `PieceFits`, `BagFair` are invariants of the board, `HoldOnce` an action property |

They hold for every number of rooms, players, clients, crashes and attacks, every
queue, batch and table size, every board at least four wide and every set of pieces:
the `ASSUME`s in the modules only say that these are numbers of the right sign, and
that sets of room slots can be counted (`CountAssumption` in `Hub`, which lemma
`SlotsCount` of `LogProofs` proves for every interval). `RedirectsWait`, the three
theorems about ids, `DaemonImplementsMatch`, those of `PlayProofs` and the two about
feeds also assume `StaleClients = FALSE`, that no client connects with the port of an
earlier room of the slot; run `stale` shows that without it ids repeat.

The proofs about the daemon share a frame. `TypeProofs` ends with `AnyMove`: every step
is one of a few moves (a member joins, falls, is told of, clears lines; an attack is
routed; the master hears, buries, enrols, relays, spawns or closes), each with what it
leaves alone, and the invariants after it are followed from move to move.

* **Redirects.** `BootInv`: a worker that has not bound its ports has sent nothing, its
  room is not ready, and nobody was dealt to it. READY is the only way out.
* **One winner.** `OneWinner` speaks of rooms that finished; what makes it true is
  upstream. `VerdictInv` adds that every GAMEOVER under way, and every room that took
  one, carries the master's verdict, and that until SIGINT the hub of a live worker is
  open, so no room ends by EOF with a verdict of its own.
* **Ids.** Two processes hand out ids: the master gives blocks, the worker gives ids
  to connections. `IdInv` says that blocks are disjoint and below `spawn_base`, that
  ids spent, clients dealt and clients parked never exceed what was redirected, that a
  worker's members are in order, and that each JOINED under way is the only one of its
  id and not yet in the table. `LobbiesFit` follows by arithmetic.
* **Refinement.** `known` is the ids in the player table, `standing` those alive,
  `decided` and `champion` the verdict, `told` what final pushes announced. Counting
  living records (`Decided`) agrees with `Match!Over` because ids are unique
  (`DecidedIsOver`); burying records is a `Fall` (`BuryIsFall`); a final push is an
  `Announce` by `VerdictInv`, and an `Abandon` after SIGINT, for which a room without
  a verdict must name nobody (`NoWord`); 0 is no player's id (`Based`, `NoZero`).
* **Rosters.** A room's view is what it holds and what is queued for it. `RosterInv`
  says of each running room that its last queued ROSTER, or else the one it holds, is
  the master's table: taking a message keeps that, each change of the table is followed
  by a broadcast in the same handler, and `start_all_rooms` ends with a roster.
* **Starts.** `PeopleInv` follows a player from the worker's count over the JOINED under
  way to the master's count, and from there over START back to the worker.
* **Eliminations.** For each player and room, `Tale` orders what is under way: JOINED
  before ELIMINATED, one ELIMINATED at most, and it is under way exactly from when the
  room reports the player until the table has it fallen. With `FloorInv` (only members
  fall and are reported) this gives `EliminationConserved`. At the step that decides the
  match only the winner's record is alive, so the others were reported, and who is
  reported is out (`LosersAreOut`).
* **Garbage.** A worker also sends up attacks on its own players who have left. `AimedInv`
  says that such an attack is behind the ELIMINATED of its victim, so the master has
  the victim fallen when it reads the attack and relays nothing. The rest of `PlayInv`
  says that standing players are in rooms that are up (`Housed`), that rosters name
  recorded players (`RostersKnown`), and that garbage under way is for a member of its
  room, from another room (`RelayedInv`).
* **Feeds.** For each attack, `Feeds` says where it is: one room holds it, or one feed
  goes up, or one comes down to each room that has not shown it. Queues move, so
  positions are compared up to a shift (`Thins`).
* **Rooms.** The invariant of `BRServer` has four layers. `Control`: what the two
  threads are doing, and that a started room has somebody listed. `Lists`: a client
  that is not listed is still in the handshake, and has been sent nothing else.
  `Framing`: the length of a client's stream is a whole number of messages plus what
  the two threads have sent of one more each. `Order`: the inputs of a client rise
  along its socket, the queue and the match.
* **Mirrors.** Boards under way to a client are numbered between its mirror and the
  slot, in order (`Forward`), final snapshots carry the room's verdict (`Verdicts`), and
  a client's loop ends only after a final one (`Loops`). That a batch has a last
  snapshot of a player is the well-foundedness of the naturals (`LastPosition`).
* **Log.** File, socket and queue together hold each sender's records in increasing
  order, all below its next number (`LogInv`); a drain under way has a record to send.
  `RecordsKept` counts them: what each step takes from one place it adds to another.
  `GapsCounted` shows that the total of tetrislogd is the cardinality of the set of
  numbers missing (`Lost`), since a tracker's last number is the greatest it has heard.
* **Board.** `Good(g) /\ Safe(g)`: the record has its shape, the bag is two whole
  bags, and the piece fits unless a hold has just placed it. Each C function is
  shown to keep it, one lemma per function.

Only model-checked: the liveness properties, which need fairness and `ENABLED`
(`StartObeyed`, `ElimHeard`, `GameOverEndsRoom`, `StopEndsRooms`, `MasterDrains`,
`StartSent`, `InputHeard`, `BoardShown`, `OverLeaves`, `QuitLeaves`); and what the
recursion of `clear_lines` computes, which needs induction over the rows:
`ClearCompacts`, `CellsConserved`, and `BrainTypeOK`, which bounds the board it returns.

## Disagreements met without a run of their own

* `engine.c:89`, "Send remaining generated damage to opponent": a second hard drop in
  the same tick assigns `outgoing_garbage` again, before the first is routed.
* `game.c:118`, "the server's roster, which is always the real one": only
  `tick_session` and QUIT mark it, so a player who tops out in a hard drop stays a target.
* `game.c:67`, "Successful moves reset the lock timer": rotations reset it also when
  they fail.
* `room.c:393`, "Already gone, nothing listening": a client that pressed Q may have had
  its local `game_over` taken back by a waiting snapshot. If QUIT and GAMEOVER are taken
  in the same tick it gets no final snapshot and stays in its loop. `QuitLeaves` therefore
  only speaks of a match that goes on.
* `room.c:344` says the feed goes to "every OTHER, uninvolved room"; `main.c:405`
  also sends it to the victim's room, which shows the attack twice. `FeedOnce` allows
  exactly that.
* `main.c:270`, "The match ends when one player stands": the winner is the one the
  master still has alive, and its elimination may be under way.
* `main.c:459`, "Full rooms start automatically": they start when all rooms are full.
* `main.c:540`: the shutdown closes the rooms one by one, and the living players of
  closed rooms count as dead, so it may declare a winner.
* `logclient.c:51`, "Ring buffer full": the queue does not reuse places until it has
  run empty, so records are dropped with fewer than its size waiting.
* `tetrisu/main.c:208` prints "No survivors" to a player who loses while others play on.
* `engine.c:15-16` takes `y + 1` for the centre of the T, whose cells in the box have
  their centre at row 2, and `last_action_rotation` may be left from an earlier piece.
* `hold.c:23-25` puts the held piece at the top without a collision check; `PieceFits`
  does not speak of it.

## Not modelled

* A send that blocks because the socket buffer is full, to the hub or to a client that
  stopped reading: queues and streams are unbounded. (A worker held up in such a send
  ticks no board and reports nothing to the master.)
* Connections to a room's port that the master did not send there. The port takes any of
  them (`server.c:191-206`); `Arrive` only lets clients in that were dealt the port, which
  is how `tetrisu` finds it. What is said of ids, lobbies and rosters is said of such
  clients. (`stale` shows what one connection more than dealt does to the ids.)
* Back-pressure in `ClientView`: the room waits for a client that is `MaxLag` behind. The
  code does not wait; it drops snapshots once the 500 places of the client's queue are
  taken, which no run reaches.
* Which target the targeting modes choose (`cycle_manual_target`,
  `resolve_target_id`); score, level and statistics; the client's kill feed list.
* A client that goes on after its server closed the connection, and UDP, which tetrisd
  does not use.
* libhtttp and libhypertext (text of single messages, no state), the OpenSSL wrappers,
  libeventbus (a callback table filled once), drawing, terminal settings, reading of
  `.tetrishrc`, opening of sockets and files.
