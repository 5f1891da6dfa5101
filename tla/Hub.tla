-------------------------------- MODULE Hub --------------------------------
(***************************************************************************)
(* The control channel between the tetrisd master and its room workers     *)
(* (tetrisd/hub.h, hub.c): one SOCK_SEQPACKET socketpair per room slot, so  *)
(* two FIFO queues of whole HubMsg structs per slot.                       *)
(***************************************************************************)
EXTENDS Integers, Sequences, FiniteSets

CONSTANTS MaxRooms,     \* MAX_ROOMS: room slots of the master
          MaxLobby      \* MAX_LOBBY_SIZE: players one room may hold

ASSUME HubAssumption == MaxRooms \in Nat \ {0} /\ MaxLobby \in Nat \ {0}

Slots == 1..MaxRooms

(* Sets of slots can be counted.  This follows from HubAssumption (lemma   *)
(* SlotsCount of LogProofs); it is stated here for the proofs that only    *)
(* need this much about finite sets.                                       *)
ASSUME CountAssumption ==
    \A S \in SUBSET Slots : Cardinality(S) \in Nat /\ (Cardinality(S) = 0 <=> S = {})

MaxPlayers == MaxRooms * MaxLobby          \* HUB_MAX_PLAYERS

VARIABLES toMaster,     \* [Slots -> Seq(HubMsg)], worker -> master
          toWorker,     \* [Slots -> Seq(HubMsg)], master -> worker
          reset         \* [Slots -> BOOLEAN], the end that closed first left
                        \* unread messages behind, so its peer may see the
                        \* error before the messages still queued for it

hubVars == <<toMaster, toWorker, reset>>

-----------------------------------------------------------------------------
(* HubMsg: the union is flattened.  id is player_id, expected_players,     *)
(* winner_id or attack.victim_id; by is attack.attacker_id; lines stands   *)
(* for the rest of the attack (every attack carries a value of its own);   *)
(* alive is the roster, as the set of ids whose alive[] byte is 1 (the     *)
(* workers read nothing else of it).                                       *)

WorkerTypes == {"READY", "JOINED", "ATTACK", "ELIMINATED", "FEED"}
MasterTypes == {"START", "GARBAGE", "ROSTER", "GAMEOVER", "FEED"}

HubMsg(types) == [type : types, id : Nat, by : Nat, lines : Nat, alive : SUBSET Nat]

Msg(type, id) == [type |-> type, id |-> id, by |-> 0, lines |-> 0, alive |-> {}]

AttackMsg(type, a) ==
    [type |-> type, id |-> a.victim, by |-> a.attacker, lines |-> a.lines, alive |-> {}]

RosterMsg(standing) ==
    [type |-> "ROSTER", id |-> 0, by |-> 0, lines |-> 0, alive |-> standing]

-----------------------------------------------------------------------------
(* hub_send: a message to a peer that has closed its end fails, and no     *)
(* caller looks at the result.                                             *)
hub_send(queue, peers, m) ==
    [s \in Slots |-> IF s \in peers THEN Append(queue[s], m) ELSE queue[s]]

(* hub_recv, as its callers see it: 1 takes the head of the queue, -1 is    *)
(* the end of the peer.                                                    *)
hub_recv_closed(queue, s) == queue[s] = <<>> \/ reset[s]
=============================================================================
