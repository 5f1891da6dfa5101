------------------------------ MODULE BRServer ------------------------------
(***************************************************************************)
(* The network side of one room (libbattleroyale): the server thread with  *)
(* its states IDLE, LOBBY, GAME and END, the worker's main thread that     *)
(* calls the brserver functions, and the listener threads of the clients.  *)
(* The two threads of the worker share the state, the client list and the  *)
(* client sockets without a lock, and a message leaves in four send calls. *)
(*                                                                         *)
(* A TCP stream is a sequence of four-byte cells.  The content of a        *)
(* message is Body cells (512 in the code), all alike.  (A Faulty          *)
(* definition is a slip in what the definition right after it models.)     *)
(***************************************************************************)
EXTENDS Queue, FiniteSetsExt

CONSTANTS Clients, NoClient,
          Body,         \* cells of a message's content
          QueueMax,     \* messages a MessageQueue holds (500)
          Split,        \* bound: the sends of two threads mix (FALSE: a coarser
                        \* instance in which a message leaves in one send)
          MaxInputs,    \* bound: inputs of the clients together
          MaxPushes     \* bound: states pushed before the last one

ASSUME BRAssumption ==
    /\ NoClient \notin Clients /\ Body \in Nat \ {0} /\ Split \in BOOLEAN
    /\ QueueMax \in Nat \ {0} /\ MaxInputs \in Nat /\ MaxPushes \in Nat

VARIABLES state,        \* server->self->state
          thread,       \* what the server thread is doing
          backlog,      \* connections not accepted yet
          cur,          \* the client it shakes hands with
          clients,      \* server->clients
          sjob,         \* the server thread's send_broadcast_tcp
          polled,       \* listen_fd_tcp
          messages,     \* server_messages
          main,         \* what the main thread is doing
          lobby,        \* client_ids[0..lobby_size-1]
          mjob,         \* the main thread's send_broadcast_tcp
          pushes,       \* states pushed
          taken,        \* actions applied
          cstate,       \* [Clients -> ...], the client's own state
          stream,       \* [Clients -> Seq(cell)], bytes under way to it
          inbox,        \* [Clients -> Seq(message)], under way from it
          inputs        \* [Clients -> Nat], inputs it has sent

serverVars == <<thread, backlog, cur, clients, sjob, polled, messages>>
mainVars == <<main, lobby, mjob, pushes, taken>>
clientVars == <<cstate, inputs>>
brVars == <<state, serverVars, mainVars, clientVars, stream, inbox>>

Rng(s) == {s[i] : i \in DOMAIN s}

-----------------------------------------------------------------------------
(* message.c                                                               *)

MsgType(m) == IF m \in {"ROSTER", "STATE"} THEN "APP" ELSE m

Content(m) == [i \in 1..Body |-> IF MsgType(m) = "APP" THEN m ELSE "0"]

FaultyPieces(m) ==          \* no content sent where there is none
    <<<<"0">>, <<"0">>, <<MsgType(m)>>, IF MsgType(m) = "APP" THEN Content(m) ELSE <<>>>>

(* What the four send_bytes of send_message_tcp write: the server's id and *)
(* the length, both 0, the type, the content.                              *)
Pieces(m) == <<<<"0">>, <<"0">>, <<MsgType(m)>>, Content(m)>>

FrameLen == 3 + Body

(* A message in one piece.                                                 *)
Frame(m) == Pieces(m)[1] \o Pieces(m)[2] \o Pieces(m)[3] \o Pieces(m)[4]

(* receive_message_tcp: the next FrameLen cells, whatever they are.        *)
Readable(c) == Len(stream[c]) >= FrameLen
ReadType(c) == stream[c][3]
Rest(c) == SubSeq(stream[c], FrameLen + 1, Len(stream[c]))

(* One send of send_broadcast_tcp, which reads the list as it goes.        *)
NoJob == [msg |-> "none", to |-> 0, piece |-> 0]
Broadcast(m) == [msg |-> m, to |-> 1, piece |-> 1]
Gone(c) == cstate[c] \in {"gone", "reset"}

Write(c, cells) == IF Gone(c) THEN stream ELSE [stream EXCEPT ![c] = @ \o cells]

(* A write to a client that is gone resets the connection.                 *)
Answered(c) == IF Gone(c) THEN [cstate EXCEPT ![c] = "reset"] ELSE cstate

SendPiece(job) ==
    Write(clients[job.to], IF Split THEN Pieces(job.msg)[job.piece] ELSE Frame(job.msg))

NextPiece(job) ==
    IF Split /\ job.piece < 4 /\ ~Gone(clients[job.to]) THEN [job EXCEPT !.piece = @ + 1]
    ELSE IF job.to < Len(clients) THEN [job EXCEPT !.to = @ + 1, !.piece = 1]
    ELSE NoJob

-----------------------------------------------------------------------------
BRInit ==
    /\ state = "IDLE" /\ thread = "loop" /\ backlog = <<>> /\ cur = NoClient
    /\ clients = <<>> /\ sjob = NoJob /\ polled = {} /\ messages = q_init
    /\ main = "open" /\ lobby = <<>> /\ mjob = NoJob /\ pushes = 0 /\ taken = <<>>
    /\ cstate = [c \in Clients |-> "away"]
    /\ stream = [c \in Clients |-> <<>>] /\ inbox = [c \in Clients |-> <<>>]
    /\ inputs = [c \in Clients |-> 0]

Alive == main # "exit"

(* The worker's main thread.                                               *)

brserver_open ==
    /\ main = "open"
    /\ state' = "LOBBY" /\ main' = "lobby"
    /\ UNCHANGED <<serverVars, lobby, mjob, pushes, taken, clientVars, stream, inbox>>

(* The list only grows, and a node is counted once it is filled in.        *)
brserver_client_info ==
    /\ main = "lobby" /\ lobby # clients
    /\ lobby' = clients
    /\ UNCHANGED <<state, serverVars, main, mjob, pushes, taken, clientVars, stream, inbox>>

MayStart == lobby # <<>> /\ state = "LOBBY"

(* The start order came, and the lobby is complete or out of time; then    *)
(* the roster goes out.                                                    *)
StartOrder ==
    /\ main = "lobby"
    /\ IF MayStart
       THEN state' = "GAME" /\ main' = "roster" /\ mjob' = Broadcast("ROSTER")
       ELSE main' = "exit" /\ UNCHANGED <<state, mjob>>
    /\ UNCHANGED <<serverVars, lobby, pushes, taken, clientVars, stream, inbox>>

MainSend ==
    /\ main \in {"roster", "push", "final"}
    /\ stream' = SendPiece(mjob) /\ mjob' = NextPiece(mjob) /\ cstate' = Answered(clients[mjob.to])
    /\ main' = IF mjob' # NoJob THEN main ELSE IF main = "final" THEN "over" ELSE "play"
    /\ UNCHANGED <<state, serverVars, lobby, pushes, taken, inputs, inbox>>

(* A tick that pushes a board.                                             *)
Push ==
    /\ main = "play" /\ pushes < MaxPushes
    /\ main' = "push" /\ mjob' = Broadcast("STATE") /\ pushes' = pushes + 1
    /\ UNCHANGED <<state, serverVars, lobby, taken, clientVars, stream, inbox>>

FaultyTakeNext == messages              \* read, but left in the queue

TakeNext == q_dequeue(messages)

(* brserver_get_app_msg and apply_action, which knows the session only.    *)
brserver_get_app_msg ==
    /\ main = "play" /\ ~q_empty(messages)
    /\ messages' = TakeNext
    /\ taken' = IF q_peek(messages).from \in Rng(lobby)
                THEN Append(taken, q_peek(messages)) ELSE taken
    /\ UNCHANGED <<state, thread, backlog, cur, clients, sjob, polled, main, lobby, mjob, pushes,
                   clientVars, stream, inbox>>

(* The match is over: a last state for every player who has not quit, none *)
(* when all have.  All but the last of these broadcasts are Pushes.        *)
MatchOver ==
    /\ main = "play"
    /\ \/ main' = "final" /\ mjob' = Broadcast("STATE")
       \/ main' = "over" /\ UNCHANGED mjob
    /\ UNCHANGED <<state, serverVars, lobby, pushes, taken, clientVars, stream, inbox>>

(* brserver_end, and right after it exit.                                  *)
brserver_end ==
    /\ main = "over"
    /\ state' = IF state = "GAME" THEN "END" ELSE state
    /\ main' = "ended"
    /\ UNCHANGED <<serverVars, lobby, mjob, pushes, taken, clientVars, stream, inbox>>

(* exit ends the server thread, too; the hub may be closed in the lobby.   *)
Exit ==
    /\ main \in {"lobby", "ended"}
    /\ main' = "exit"
    /\ UNCHANGED <<state, serverVars, lobby, mjob, pushes, taken, clientVars, stream, inbox>>

-----------------------------------------------------------------------------
(* The server thread.                                                      *)

(* server_thread_func picks the function of the state it reads: here the   *)
(* lobby's, below the game's and the end's.                                *)
EnterLobby ==
    /\ Alive /\ thread = "loop" /\ state = "LOBBY"
    /\ thread' = "LOBBY"
    /\ UNCHANGED <<state, backlog, cur, clients, sjob, polled, messages, mainVars, clientVars, stream, inbox>>

LeaveState ==
    /\ Alive /\ thread \in {"LOBBY", "POLL"}
    /\ state # IF thread = "LOBBY" THEN "LOBBY" ELSE "GAME"
    /\ thread' = "loop"
    /\ UNCHANGED <<state, backlog, cur, clients, sjob, polled, messages, mainVars, clientVars, stream, inbox>>

FaultyListed(c) == Append(clients, c)           \* listed before the handshake

Listed(c) == clients

(* accept in the lobby: the client gets its id and the certificate.        *)
Accept ==
    /\ Alive /\ thread = "LOBBY" /\ state = "LOBBY" /\ backlog # <<>>
    /\ LET c == Head(backlog)
       IN  /\ cur' = c /\ clients' = Listed(c)
           /\ stream' = Write(c, <<"id">> \o Frame("CERT"))
    /\ backlog' = Tail(backlog) /\ thread' = "AUTH"
    /\ UNCHANGED <<state, sjob, polled, messages, mainVars, clientVars, inbox>>

FaultyHandshakeFails == FALSE                   \* a read error is read again

(* A read of the handshake fails once the client is gone.                  *)
HandshakeFails == Gone(cur) /\ inbox[cur] = <<>>

(* The two waits of the handshake, for AUTH and for KEY; any other message *)
(* is skipped.  The client is listed last.                                 *)
Handshake ==
    /\ Alive /\ thread \in {"AUTH", "KEY"}
    /\ \/ /\ HandshakeFails
          /\ thread' = "LOBBY" /\ cur' = NoClient
          /\ UNCHANGED <<clients, stream, inbox>>
       \/ /\ inbox[cur] # <<>>
          /\ inbox' = [inbox EXCEPT ![cur] = Tail(@)]
          /\ IF Head(inbox[cur]) # thread
             THEN UNCHANGED <<thread, cur, clients, stream>>
             ELSE IF thread = "AUTH"
             THEN /\ thread' = "KEY"
                  /\ stream' = Write(cur, Frame("AUTH"))
                  /\ UNCHANGED <<cur, clients>>
             ELSE /\ thread' = "LOBBY" /\ cur' = NoClient
                  /\ clients' = Append(clients, cur)
                  /\ UNCHANGED stream
    /\ UNCHANGED <<state, backlog, sjob, polled, messages, mainVars, clientVars>>

FaultyDeserted == Len(clients) <= 1             \* count <= 1

Deserted == clients = <<>>

(* server_game_state begins with START for everyone listed, and a lobby    *)
(* without clients is a lobby again.                                       *)
EnterGame ==
    /\ Alive /\ thread = "loop" /\ state = "GAME"
    /\ IF Deserted
       THEN state' = "LOBBY" /\ UNCHANGED <<thread, sjob>>
       ELSE thread' = "START" /\ sjob' = Broadcast("START") /\ UNCHANGED state
    /\ UNCHANGED <<backlog, cur, clients, polled, messages, mainVars, clientVars, stream, inbox>>

EnterEnd ==
    /\ Alive /\ thread = "loop" /\ state = "END"
    /\ thread' = "CLOSE" /\ sjob' = Broadcast("END")
    /\ UNCHANGED <<state, backlog, cur, clients, polled, messages, mainVars, clientVars, stream, inbox>>

FaultyPollSet == Rng(Tail(clients))             \* from the node after the head

PollSet == Rng(clients)

(* After START every listed client is polled, after END the thread is done.*)
ServerSend ==
    /\ Alive /\ thread \in {"START", "CLOSE"}
    /\ stream' = SendPiece(sjob) /\ sjob' = NextPiece(sjob) /\ cstate' = Answered(clients[sjob.to])
    /\ IF sjob' # NoJob THEN UNCHANGED <<thread, polled>>
       ELSE /\ thread' = IF thread = "START" THEN "POLL" ELSE "done"
            /\ polled' = PollSet
    /\ UNCHANGED <<state, backlog, cur, clients, messages, mainVars, inputs, inbox>>

FaultyQueued(m) == [messages EXCEPT !.items = Append(@, m)]    \* no check of full
FaultyQueuedFirst(m) ==                                        \* ahead of those that wait
    IF q_full(messages, QueueMax) THEN messages
    ELSE [messages EXCEPT !.items = SubSeq(@, 1, messages.taken) \o <<m>> \o Waiting(messages)]

Queued(m) == q_enqueue(messages, QueueMax, m)

(* A client's message is queued when it is for the application; a client   *)
(* that closed its connection is polled no more.  One whose connection was *)
(* reset stays in the set and is never read: revents is not just POLLIN.   *)
Poll(c) ==
    /\ Alive /\ thread = "POLL" /\ state = "GAME" /\ c \in polled /\ cstate[c] # "reset"
    /\ \/ /\ inbox[c] # <<>>
          /\ inbox' = [inbox EXCEPT ![c] = Tail(@)]
          /\ messages' = Queued([from |-> c, input |-> Head(inbox[c])])
          /\ UNCHANGED polled
       \/ /\ inbox[c] = <<>> /\ Gone(c)
          /\ polled' = polled \ {c}
          /\ UNCHANGED <<messages, inbox>>
    /\ UNCHANGED <<state, thread, backlog, cur, clients, sjob, mainVars, clientVars, stream>>

-----------------------------------------------------------------------------
(* The clients.  What they do after the room's process has ended, but for  *)
(* reading what it sent, changes nothing.                                  *)

(* brclient_join connects to the room the master dealt.                    *)
Connect(c) ==
    /\ cstate[c] = "away" /\ main \notin {"open", "exit"}
    /\ cstate' = [cstate EXCEPT ![c] = "CERT"]
    /\ backlog' = Append(backlog, c)
    /\ UNCHANGED <<state, thread, cur, clients, sjob, polled, messages, mainVars, stream, inbox,
                   inputs>>

(* The client's part of the handshake: its id, then the message it waits   *)
(* for, any other skipped, and its answer.                                 *)
Answer(c) ==
    /\ cstate[c] \in {"CERT", "AUTH"}
    /\ LET s == IF stream[c] # <<>> /\ Head(stream[c]) = "id" THEN Tail(stream[c]) ELSE stream[c]
       IN  /\ Len(s) >= FrameLen
           /\ stream' = [stream EXCEPT ![c] = SubSeq(s, FrameLen + 1, Len(s))]
           /\ IF s[3] # cstate[c] THEN UNCHANGED <<cstate, inbox>>
              ELSE /\ cstate' = [cstate EXCEPT ![c] = IF @ = "CERT" THEN "AUTH" ELSE "LOBBY"]
                   /\ inbox' = [inbox EXCEPT ![c] =
                                 Append(@, IF cstate[c] = "CERT" THEN "AUTH" ELSE "KEY")]
    /\ UNCHANGED <<state, serverVars, mainVars, inputs>>

(* client_lobby_state: only START counts.                                  *)
client_lobby_state(c) ==
    /\ cstate[c] = "LOBBY" /\ Readable(c)
    /\ stream' = [stream EXCEPT ![c] = Rest(c)]
    /\ cstate' = [cstate EXCEPT ![c] = IF ReadType(c) = "START" THEN "GAME" ELSE @]
    /\ UNCHANGED <<state, serverVars, mainVars, inbox, inputs>>

(* client_game_state: only END changes the state; what the program makes   *)
(* of the boards it is sent is left out.                                   *)
client_game_state(c) ==
    /\ cstate[c] = "GAME" /\ Readable(c)
    /\ stream' = [stream EXCEPT ![c] = Rest(c)]
    /\ cstate' = [cstate EXCEPT ![c] = IF ReadType(c) = "END" THEN "END" ELSE @]
    /\ UNCHANGED <<state, serverVars, mainVars, inbox, inputs>>

brclient_send_msg(c) ==
    /\ Alive /\ cstate[c] = "GAME" /\ MapThenSumSet(LAMBDA d : inputs[d], Clients) < MaxInputs
    /\ inputs' = [inputs EXCEPT ![c] = @ + 1]
    /\ inbox' = [inbox EXCEPT ![c] = Append(@, inputs[c] + 1)]
    /\ UNCHANGED <<state, serverVars, mainVars, cstate, stream>>

(* The program ends or the connection breaks; a connection closed with     *)
(* bytes unread is reset.                                                  *)
Leave(c) ==
    /\ Alive /\ cstate[c] # "away" /\ ~Gone(c)
    /\ cstate' = [cstate EXCEPT ![c] = IF stream[c] = <<>> THEN "gone" ELSE "reset"]
    /\ stream' = [stream EXCEPT ![c] = <<>>]
    /\ UNCHANGED <<state, serverVars, mainVars, inbox, inputs>>

-----------------------------------------------------------------------------
ServerStep == \/ EnterLobby \/ LeaveState \/ Accept \/ Handshake
              \/ EnterGame \/ EnterEnd \/ ServerSend \/ \E c \in Clients : Poll(c)

MainStep == \/ brserver_open \/ brserver_client_info \/ StartOrder \/ MainSend \/ Push
            \/ brserver_get_app_msg \/ MatchOver \/ brserver_end \/ Exit

ClientRead(c) == Answer(c) \/ client_lobby_state(c) \/ client_game_state(c)

BRNext == ServerStep \/ MainStep
          \/ \E c \in Clients : Connect(c) \/ ClientRead(c) \/ brclient_send_msg(c) \/ Leave(c)

BRSpec == BRInit /\ [][BRNext]_brVars

(* The threads of the worker run.  Clients owe nothing, not even an answer *)
(* in the handshake, for which the server thread waits without a timeout;  *)
(* when the start order comes and when the match ends is left open.        *)
BRLiveSpec ==
    /\ BRSpec
    /\ WF_brVars(ServerStep)
    /\ WF_brVars(MainSend) /\ WF_brVars(brserver_get_app_msg)
    /\ \A c \in Clients : WF_brVars(Poll(c))

-----------------------------------------------------------------------------
Job == [msg : {"none", "START", "END", "ROSTER", "STATE"}, to : Nat, piece : 0..4]

(* Every variable has the shape its C type gives it, and the message queue *)
(* stays within its array.                                                 *)
BRTypeOK ==
    /\ state \in {"IDLE", "LOBBY", "GAME", "END"}
    /\ thread \in {"loop", "LOBBY", "AUTH", "KEY", "START", "POLL", "CLOSE", "done"}
    /\ backlog \in Seq(Clients) /\ cur \in Clients \cup {NoClient}
    /\ clients \in Seq(Clients) /\ sjob \in Job /\ polled \subseteq Clients
    /\ Len(messages.items) <= QueueMax
    /\ main \in {"open", "lobby", "roster", "play", "push", "final", "over", "ended", "exit"}
    /\ lobby \in Seq(Clients) /\ mjob \in Job /\ pushes \in Nat
    /\ cstate \in [Clients -> {"away", "CERT", "AUTH", "LOBBY", "GAME", "END", "gone", "reset"}]
    /\ inputs \in [Clients -> Nat]

Mid(job, c) == job.piece > 1 /\ clients[job.to] = c

(* Two sends that mix on a connection garble no more than their own two    *)
(* messages: once neither thread is inside a message to c, c reads on at   *)
(* the start of one (message.c:149-173, the length is always the same).    *)
Realigned ==
    \A c \in Clients : Gone(c) \/ Mid(sjob, c) \/ Mid(mjob, c)
                       \/ Len(stream[c]) % FrameLen = 0
                       \/ (Head(stream[c]) = "id" /\ Len(stream[c]) % FrameLen = 1)

(* A client in the handshake is sent nothing else: what it skips there     *)
(* (client.c:354-370) is never its START or its roster.                    *)
HandshakePrivate ==
    \A c \in Clients : cstate[c] \in {"CERT", "AUTH"} =>
                        /\ c \notin Rng(clients)
                        /\ Rng(stream[c]) \cap {"START", "APP", "END"} = {}

(* A room that started never falls back to its lobby, although the server  *)
(* thread writes the state behind the main thread (server.c:323-327).      *)
NoRevert == main \notin {"open", "lobby", "exit"} => state \in {"GAME", "END"}

(* Each player's actions are applied in the order they were made and none  *)
(* twice, whatever the queue drops.                                        *)
InputOrder ==
    \A i, j \in DOMAIN taken : i < j /\ taken[i].from = taken[j].from => taken[i].input < taken[j].input

(* The server thread waits in receive_message_tcp for a client that is     *)
(* connected.                                                              *)
HeldUp == thread \in {"AUTH", "KEY"} /\ ~Gone(cur)

(* A room that plays sends START, or one client that stays connected and   *)
(* never answers keeps the server thread in its handshake (server.c:248,   *)
(* 266): nothing else does, neither handshakes that end or break off, nor  *)
(* connections still waiting, nor the order in which the threads see the   *)
(* state change.                                                           *)
StartSent ==
    main = "play" ~> thread = "POLL" \/ main \notin {"play", "push"} \/ []HeldUp

(* What a player of the match does is heard as long as the match lasts and *)
(* the player stays.                                                       *)
InputHeard ==
    \A c \in Clients :
      inbox[c] # <<>> /\ thread = "POLL" /\ c \in Rng(clients) ~> inbox[c] = <<>> \/ Gone(c) \/ state = "END"

-----------------------------------------------------------------------------
(* Statements of the repository that the room does not keep.               *)

Quiet(c) == cstate[c] # "away" /\ ~Gone(c) /\ ~Mid(sjob, c) /\ ~Mid(mjob, c) /\ stream[c] = <<>>

(* server.c:314, "all clients are sent an START packet to change their     *)
(* state into a game state".                                               *)
StartHeard == \A c \in Rng(clients) : thread = "POLL" /\ Quiet(c) => cstate[c] # "LOBBY"
=============================================================================
