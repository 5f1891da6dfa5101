------------------------------ MODULE BRProofs ------------------------------
(***************************************************************************)
(* Proofs about BRServer, the network side of a room.  The invariant is    *)
(* built in layers, each proved with the help of those before it: what the *)
(* two threads of the worker are doing (Control), where a client stands in *)
(* the handshake (Lists), where in the stream of a client a message begins *)
(* (Framing), and how the inputs of a client line up between its socket,   *)
(* the queue and the match (Order).                                        *)
(***************************************************************************)
EXTENDS BRServer, TLAPS

(* Two facts about sequences: what a concatenation and a tail hold.        *)
LEMMA JoinedSeq ==
    ASSUME NEW T, NEW s \in Seq(T), NEW t \in Seq(T)
    PROVE  /\ s \o t \in Seq(T) /\ Len(s \o t) = Len(s) + Len(t)
           /\ \A i \in 1..(Len(s) + Len(t)) : (s \o t)[i] = IF i <= Len(s) THEN s[i] ELSE t[i - Len(s)]
OBVIOUS

(* The tail of a queue that is not empty.                                  *)
LEMMA TailSeq ==
    ASSUME NEW T, NEW s \in Seq(T), s # <<>>
    PROVE  /\ Tail(s) \in Seq(T) /\ Len(s) \in Nat \ {0} /\ Len(Tail(s)) = Len(s) - 1
           /\ \A i \in 1..Len(Tail(s)) : Tail(s)[i] = s[i + 1]
OBVIOUS

-----------------------------------------------------------------------------
(* The first layer.                                                        *)

Cell == {"id", "0", "CERT", "AUTH", "START", "END", "APP", "ROSTER", "STATE"}
Word == {"AUTH", "KEY"} \cup Nat
Action == [from : Clients, input : Word]

(* A thread has a broadcast exactly while it sends one, to a client that   *)
(* is listed; it is past a first piece only when the sends are split.      *)
Sending(job, msgs) ==
    /\ job.msg \in msgs /\ job.to \in 1..Len(clients) /\ job.piece \in 1..4
    /\ job.piece > 1 => Split

Control ==
    /\ BRTypeOK
    /\ stream \in [Clients -> Seq(Cell)] /\ inbox \in [Clients -> Seq(Word)]
    /\ messages \in Queue(Action) /\ taken \in Seq(Action)
    /\ thread \in {"AUTH", "KEY"} <=> cur # NoClient
    /\ IF thread \in {"START", "CLOSE"} THEN Sending(sjob, {"START", "END"}) ELSE sjob = NoJob
    /\ IF main \in {"roster", "push", "final"} THEN Sending(mjob, {"ROSTER", "STATE"}) ELSE mjob = NoJob
    /\ lobby # <<>> => clients # <<>>
    /\ state \in {"GAME", "END"} => lobby # <<>>
    /\ NoRevert

Msgs == {"CERT", "AUTH", "START", "END", "ROSTER", "STATE"}

(* The four sends of send_message_tcp: three single cells and a body, and  *)
(* none of them looks like the id that a new connection begins with.       *)
LEMMA PieceShape ==
    ASSUME NEW m \in Msgs, NEW p \in 1..4
    PROVE  /\ Pieces(m)[p] \in Seq(Cell)
           /\ Len(Pieces(m)[p]) = IF p < 4 THEN 1 ELSE Body
           /\ \A i \in 1..Len(Pieces(m)[p]) : Pieces(m)[p][i] # "id"
<1>1. MsgType(m) \in Cell /\ MsgType(m) # "id" /\ m # "id"
  BY Zenon DEF MsgType, Msgs, Cell
<1>2. /\ Content(m) \in Seq(Cell) /\ Len(Content(m)) = Body
      /\ \A i \in 1..Body : Content(m)[i] # "id"
  <2>1. \A i \in 1..Body : Content(m)[i] \in Cell /\ Content(m)[i] # "id"
    BY <1>1, Zenon DEF Content, Msgs, Cell
  <2>2. DOMAIN Content(m) = 1..Body /\ Content(m) = [i \in 1..Body |-> Content(m)[i]]
    BY Zenon DEF Content
  <2> QED  BY <2>1, <2>2, BRAssumption
<1>3. p = 4 => Pieces(m)[p] = Content(m)
  BY DEF Pieces
<1>4. p = 1 \/ p = 2 \/ p = 3 \/ p = 4
  OBVIOUS
<1>5. CASE p = 4
  BY <1>2, <1>3, <1>5, BRAssumption
<1>6. CASE p = 3
  <2>1. Pieces(m)[p] = <<MsgType(m)>>
    BY <1>6, Zenon DEF Pieces
  <2> QED  BY <1>1, <1>6, <2>1
<1>7. CASE p \in {1, 2}
  <2>1. Pieces(m)[p] = <<"0">>
    BY <1>7 DEF Pieces
  <2>2. <<"0">> \in Seq(Cell) /\ Len(<<"0">>) = 1 /\ <<"0">>[1] # "id"
    BY DEF Cell
  <2> QED  BY <1>7, <2>1, <2>2
<1> QED  BY <1>4, <1>5, <1>6, <1>7, Zenon

(* A whole message is FrameLen cells, with its type in the third.          *)
LEMMA FrameShape ==
    ASSUME NEW m \in Msgs
    PROVE  /\ Frame(m) \in Seq(Cell) /\ Len(Frame(m)) = FrameLen
           /\ \A i \in 1..FrameLen : Frame(m)[i] # "id"
           /\ m \in {"CERT", "AUTH"} => \A i \in 1..FrameLen : Frame(m)[i] \in {"0", m}
<1> DEFINE a == Pieces(m)[1]
           b == Pieces(m)[2]
           t == Pieces(m)[3]
           d == Pieces(m)[4]
<1>1. /\ a \in Seq(Cell) /\ Len(a) = 1 /\ a[1] # "id"
      /\ b \in Seq(Cell) /\ Len(b) = 1 /\ b[1] # "id"
      /\ t \in Seq(Cell) /\ Len(t) = 1 /\ t[1] # "id"
  BY PieceShape
<1>2. d \in Seq(Cell) /\ Len(d) = Body /\ \A i \in 1..Body : d[i] # "id"
  BY PieceShape
<1>3. m \in {"CERT", "AUTH"} =>
        a[1] \in {"0", m} /\ b[1] \in {"0", m} /\ t[1] \in {"0", m} /\ \A i \in 1..Body : d[i] \in {"0", m}
  BY Zenon DEF Pieces, Content, MsgType
<1>4. Frame(m) = ((a \o b) \o t) \o d
  BY Zenon DEF Frame
<1> HIDE DEF a, b, t, d
<1>5. a \o b \in Seq(Cell) /\ Len(a \o b) = 2 /\ (a \o b)[1] = a[1] /\ (a \o b)[2] = b[1]
  <2>1. /\ a \o b \in Seq(Cell) /\ Len(a \o b) = Len(a) + Len(b)
        /\ \A i \in 1..(Len(a) + Len(b)) : (a \o b)[i] = IF i <= Len(a) THEN a[i] ELSE b[i - Len(a)]
    BY <1>1, JoinedSeq, Zenon
  <2> QED  BY <1>1, <2>1
<1> DEFINE e == a \o b
<1> HIDE DEF e
<1>6. /\ e \o t \in Seq(Cell) /\ Len(e \o t) = 3
      /\ (e \o t)[1] = a[1] /\ (e \o t)[2] = b[1] /\ (e \o t)[3] = t[1]
  BY <1>1, <1>5 DEF e
<1> DEFINE f == e \o t
<1> HIDE DEF f
<1>7. /\ f \o d \in Seq(Cell) /\ Len(f \o d) = 3 + Body
      /\ \A i \in 1..(3 + Body) : (f \o d)[i] = IF i <= 3 THEN f[i] ELSE d[i - 3]
  BY <1>2, <1>6, BRAssumption, SMTT(30) DEF f
<1>8. Frame(m) = f \o d
  BY <1>4, Zenon DEF e, f
<1>9. \A i \in 1..3 : f[i] = a[1] \/ f[i] = b[1] \/ f[i] = t[1]
  BY <1>6 DEF f
<1> QED  BY <1>1, <1>2, <1>3, <1>7, <1>8, <1>9, BRAssumption, SMTT(30) DEF FrameLen

(* q_enqueue (queue.h:48-56) keeps a queue a queue within its array.       *)
LEMMA Enqueued ==
    ASSUME NEW T, NEW q \in Queue(T), NEW v \in T, NEW max \in Nat, Len(q.items) <= max,
           NEW r, r = q_enqueue(q, max, v)
    PROVE  /\ r \in Queue(T) /\ Len(r.items) <= max /\ r.taken = q.taken
           /\ (r.items = q.items \/ r.items = Append(q.items, v))
<1>1. q \in [items : Seq(T), taken : Nat] /\ q.taken <= Len(q.items)
  BY Zenon DEF Queue
<1>2. CASE q_full(q, max)
  BY <1>2, Zenon DEF q_enqueue
<1>3. CASE ~q_full(q, max)
  <2>1. r = [q EXCEPT !.items = Append(@, v)]
    BY <1>3, Zenon DEF q_enqueue
  <2>2. Append(q.items, v) \in Seq(T) /\ q.taken \in Nat
    BY <1>1
  <2>3. r = [items |-> Append(q.items, v), taken |-> q.taken]
    BY <1>1, <2>1, Zenon
  <2>4. Len(r.items) = Len(q.items) + 1 /\ Len(q.items) # max /\ Len(q.items) \in Nat
    BY <1>1, <1>3, <2>3 DEF q_full
  <2> QED  BY <1>1, <2>2, <2>3, <2>4 DEF Queue
<1> QED  BY <1>2, <1>3, Zenon

(* q_dequeue (queue.h:57-67) takes the oldest item and moves no other.     *)
LEMMA Dequeued ==
    ASSUME NEW T, NEW q \in Queue(T), ~q_empty(q), NEW r, r = q_dequeue(q)
    PROVE  /\ r \in Queue(T) /\ Len(r.items) <= Len(q.items)
           /\ q_peek(q) \in T /\ q.taken + 1 \in 1..Len(q.items) /\ q_peek(q) = q.items[q.taken + 1]
           /\ (r.items = <<>> \/ (r.items = q.items /\ r.taken = q.taken + 1))
BY DEF Queue, q_dequeue, q_init, q_empty, q_peek

(* One send of a broadcast (message.c:149-173, server.c:93-105): the       *)
(* stream stays a stream, and the thread goes on to a piece of a listed    *)
(* client or is done.                                                      *)
LEMMA SendStep ==
    ASSUME Control, NEW job \in Job, NEW msgs \in SUBSET {"START", "END", "ROSTER", "STATE"}, Sending(job, msgs)
    PROVE  /\ clients[job.to] \in Clients
           /\ SendPiece(job) \in [Clients -> Seq(Cell)]
           /\ NextPiece(job) \in Job
           /\ NextPiece(job) # NoJob => Sending(NextPiece(job), msgs)
           /\ Answered(clients[job.to]) \in
                [Clients -> {"away", "CERT", "AUTH", "LOBBY", "GAME", "END", "gone", "reset"}]
<1> DEFINE c == clients[job.to]
           cells == IF Split THEN Pieces(job.msg)[job.piece] ELSE Frame(job.msg)
<1>1. c \in Clients
  BY DEF Control, BRTypeOK, Sending
<1>2. job.msg \in Msgs /\ job.piece \in 1..4 /\ job.to \in 1..Len(clients)
  BY Zenon DEF Sending, Msgs
<1>3. cells \in Seq(Cell)
  BY <1>2, PieceShape, FrameShape, Zenon
<1>4. SendPiece(job) = Write(c, cells)
  BY Zenon DEF SendPiece
<1>5. stream \in [Clients -> Seq(Cell)]
  BY Zenon DEF Control
<1> HIDE DEF cells
<1>6. stream[c] \o cells \in Seq(Cell)
  <2> HIDE DEF c
  <2>1. stream[c] \in Seq(Cell)
    BY <1>1, <1>5, Zenon
  <2> QED  BY <1>3, <2>1, JoinedSeq, Zenon
<1>7. SendPiece(job) \in [Clients -> Seq(Cell)]
  <2> HIDE DEF c
  <2> QED  BY <1>1, <1>4, <1>5, <1>6, Zenon DEF Write
<1>8. clients \in Seq(Clients) /\ Len(clients) \in Nat
  BY DEF Control, BRTypeOK
<1>9. NextPiece(job) \in Job /\ (NextPiece(job) # NoJob => Sending(NextPiece(job), msgs))
  <2>1. job = [msg |-> job.msg, to |-> job.to, piece |-> job.piece]
    BY Zenon DEF Job
  <2> DEFINE more == [msg |-> job.msg, to |-> job.to, piece |-> job.piece + 1]
             next == [msg |-> job.msg, to |-> job.to + 1, piece |-> 1]
  <2>2. CASE Split /\ job.piece < 4 /\ ~Gone(c)
    <3>1. NextPiece(job) = more
      BY <2>1, <2>2, Zenon DEF NextPiece
    <3>2. more \in Job /\ Sending(more, msgs)
      BY <1>2, <2>2 DEF Job, Sending
    <3> QED  BY <3>1, <3>2, Zenon
  <2>3. CASE ~(Split /\ job.piece < 4 /\ ~Gone(c)) /\ job.to < Len(clients)
    <3>1. NextPiece(job) = next
      BY <2>1, <2>3, Zenon DEF NextPiece
    <3>2. next \in Job /\ Sending(next, msgs)
      BY <1>2, <1>8, <2>3 DEF Job, Sending
    <3> QED  BY <3>1, <3>2, Zenon
  <2>4. CASE ~(Split /\ job.piece < 4 /\ ~Gone(c)) /\ ~(job.to < Len(clients))
    <3>1. NextPiece(job) = NoJob
      BY <2>4, Zenon DEF NextPiece
    <3> QED  BY <3>1 DEF Job, NoJob
  <2> QED  BY <2>2, <2>3, <2>4, Zenon
<1>10. Answered(c) \in [Clients -> {"away", "CERT", "AUTH", "LOBBY", "GAME", "END", "gone", "reset"}]
  BY <1>1, Zenon DEF Control, BRTypeOK, Answered
<1> QED  BY <1>1, <1>7, <1>9, <1>10, Zenon

(* The worker starts with nothing under way.                               *)
LEMMA ControlInit == BRInit => Control
<1> SUFFICES ASSUME BRInit PROVE Control
  BY Zenon
<1>1. q_init \in Queue(Action) /\ Len(q_init.items) = 0
  BY DEF Queue, q_init
<1>2. BRTypeOK
  BY <1>1, BRAssumption DEF BRInit, BRTypeOK, Job, NoJob
<1> QED  BY <1>1, <1>2 DEF BRInit, Control, NoRevert

(* The server thread accepts a connection and greets it                    *)
(* (server.c:192-246).                                                     *)
LEMMA ControlAccept ==
    ASSUME Control, Accept
    PROVE  Control'
<1> USE DEF serverVars, mainVars, clientVars
<1>t. /\ BRTypeOK /\ stream \in [Clients -> Seq(Cell)] /\ inbox \in [Clients -> Seq(Word)]
      /\ messages \in Queue(Action) /\ taken \in Seq(Action) /\ NoRevert
  BY Zenon DEF Control
<1>k. \A job, msgs : UNCHANGED clients => (Sending(job, msgs) <=> Sending(job, msgs)')
  BY Zenon DEF Sending
<1> DEFINE c == Head(backlog)
           cells == <<"id">> \o Frame("CERT")
<1>1. c \in Clients /\ Tail(backlog) \in Seq(Clients)
  BY <1>t DEF Accept, BRTypeOK
<1>2. cells \in Seq(Cell)
  <2>1. <<"id">> \in Seq(Cell)
    BY DEF Cell
  <2>2. Frame("CERT") \in Seq(Cell)
    BY FrameShape, Zenon DEF Msgs
  <2> QED  BY <2>1, <2>2, JoinedSeq, Zenon
<1>3. stream' = Write(c, cells) /\ cur' = c /\ clients' = clients
  BY Zenon DEF Accept, Listed
<1> HIDE DEF c, cells
<1>4. stream[c] \o cells \in Seq(Cell)
  BY <1>t, <1>1, <1>2, JoinedSeq, Zenon
<1>5. stream' \in [Clients -> Seq(Cell)]
  BY <1>t, <1>1, <1>3, <1>4, Zenon DEF Write
<1>6. BRTypeOK'
  BY <1>t, <1>1, <1>3, Zenon DEF Accept, BRTypeOK
<1> QED  BY <1>k, <1>1, <1>3, <1>5, <1>6, BRAssumption, Zenon DEF Accept, Control, NoRevert, Sending

(* The server thread reads an answer of the client it talks to             *)
(* (server.c:247-308).                                                     *)
LEMMA ControlHandshake ==
    ASSUME Control, Handshake
    PROVE  Control'
<1> USE DEF serverVars, mainVars, clientVars
<1>t. /\ BRTypeOK /\ stream \in [Clients -> Seq(Cell)] /\ inbox \in [Clients -> Seq(Word)]
      /\ messages \in Queue(Action) /\ taken \in Seq(Action) /\ NoRevert
  BY Zenon DEF Control
<1>k. \A job, msgs : UNCHANGED clients => (Sending(job, msgs) <=> Sending(job, msgs)')
  BY Zenon DEF Sending
<1>1. thread \in {"AUTH", "KEY"} /\ cur \in Clients /\ Alive
  BY Zenon DEF Handshake, Control, BRTypeOK
<1>2. CASE HandshakeFails /\ thread' = "LOBBY" /\ cur' = NoClient /\ UNCHANGED <<clients, stream, inbox>>
  BY <1>k, <1>2, Zenon DEF Handshake, Control, BRTypeOK, NoRevert, Sending
<1>3. CASE inbox[cur] # <<>> /\ inbox' = [inbox EXCEPT ![cur] = Tail(@)]
  <2>1. inbox' \in [Clients -> Seq(Word)]
    BY <1>t, <1>1, <1>3
  <2>2. CASE UNCHANGED <<thread, cur, clients, stream>>
    BY <1>k, <2>1, <2>2, Zenon DEF Handshake, Control, BRTypeOK, NoRevert, Sending
  <2>3. CASE thread' = "KEY" /\ stream' = Write(cur, Frame("AUTH")) /\ UNCHANGED <<cur, clients>>
    <3>1. Frame("AUTH") \in Seq(Cell)
      BY FrameShape, Zenon DEF Msgs
    <3>2. stream[cur] \o Frame("AUTH") \in Seq(Cell)
      BY <1>t, <1>1, <3>1, JoinedSeq, Zenon
    <3>3. stream' \in [Clients -> Seq(Cell)]
      BY <1>t, <1>1, <2>3, <3>2, Zenon DEF Write
    <3> QED  BY <1>k, <1>1, <2>1, <2>3, <3>3, Zenon DEF Handshake, Control, BRTypeOK, NoRevert, Sending
  <2>4. CASE thread' = "LOBBY" /\ cur' = NoClient /\ clients' = Append(clients, cur) /\ UNCHANGED stream
    <3>1. /\ clients' \in Seq(Clients) /\ clients' # <<>> /\ Len(clients') = Len(clients) + 1
          /\ Len(clients) \in Nat
      <4>1. clients \in Seq(Clients)
        BY <1>t, Zenon DEF BRTypeOK
      <4>2. Append(clients, cur) \in Seq(Clients) /\ Len(Append(clients, cur)) = Len(clients) + 1 /\ Len(clients) \in Nat
        BY <1>1, <4>1
      <4> QED  BY <2>4, <4>2
    <3>3. sjob' = NoJob
      BY <1>1, Zenon DEF Control, Handshake
    <3>4. BRTypeOK'
      BY <1>t, <2>4, <3>1, Zenon DEF Handshake, BRTypeOK
    <3>5. UNCHANGED <<main, mjob, lobby, state, messages, taken>>
      BY Zenon DEF Handshake
    <3>6. Sending(mjob, {"ROSTER", "STATE"}) => Sending(mjob, {"ROSTER", "STATE"})'
      BY <3>1, <3>5 DEF Sending
    <3>7. IF main' \in {"roster", "push", "final"} THEN Sending(mjob, {"ROSTER", "STATE"})' ELSE mjob' = NoJob
      BY <3>5, <3>6, Zenon DEF Control
    <3>8. NoRevert' /\ (state' \in {"GAME", "END"} => lobby' # <<>>)
      BY <3>5, Zenon DEF Control, NoRevert
    <3>9. /\ stream' \in [Clients -> Seq(Cell)] /\ messages' \in Queue(Action) /\ taken' \in Seq(Action)
          /\ (thread' \in {"AUTH", "KEY"}) <=> (cur' # NoClient)
          /\ thread' \notin {"START", "CLOSE"}
      BY <1>t, <2>4, <3>5, Zenon
    <3> QED  BY <2>1, <3>1, <3>3, <3>4, <3>7, <3>8, <3>9, Zenon DEF Control
  <2> QED  BY <1>2, <1>3, <2>2, <2>3, <2>4, Zenon DEF Handshake
<1> QED  BY <1>2, <1>3, Zenon DEF Handshake

(* One send of START or END to a listed client.                            *)
LEMMA ControlServerSend ==
    ASSUME Control, ServerSend
    PROVE  Control'
<1> USE DEF serverVars, mainVars, clientVars
<1>t. /\ BRTypeOK /\ stream \in [Clients -> Seq(Cell)] /\ inbox \in [Clients -> Seq(Word)]
      /\ messages \in Queue(Action) /\ taken \in Seq(Action) /\ NoRevert
  BY Zenon DEF Control
<1>k. \A job, msgs : UNCHANGED clients => (Sending(job, msgs) <=> Sending(job, msgs)')
  BY Zenon DEF Sending
<1>1. sjob \in Job /\ Sending(sjob, {"START", "END"})
  BY Zenon DEF Control, BRTypeOK, ServerSend
<1>2. /\ stream' \in [Clients -> Seq(Cell)] /\ sjob' \in Job
      /\ sjob' # NoJob => Sending(sjob', {"START", "END"})
      /\ cstate' \in [Clients -> {"away", "CERT", "AUTH", "LOBBY", "GAME", "END", "gone", "reset"}]
  BY <1>1, SendStep, Zenon DEF ServerSend
<1>3. PollSet \subseteq Clients
  BY <1>t DEF BRTypeOK, PollSet, Rng
<1>4. /\ polled' \subseteq Clients
      /\ thread' \in {"START", "CLOSE", "POLL", "done"} /\ (thread' \in {"START", "CLOSE"} <=> sjob' # NoJob)
  BY <1>t, <1>3, Zenon DEF ServerSend, BRTypeOK
<1>5. BRTypeOK'
  BY <1>t, <1>2, <1>4, Zenon DEF BRTypeOK, ServerSend
<1>6. Sending(sjob', {"START", "END"}) => Sending(sjob, {"START", "END"})'
  BY Zenon DEF Sending, ServerSend
<1> QED  BY <1>k, <1>2, <1>4, <1>5, <1>6, Zenon DEF ServerSend, Control, NoRevert

(* The server thread reads an input of a listed client, or finds none      *)
(* (server.c:356-406).                                                     *)
LEMMA ControlPoll ==
    ASSUME Control, NEW c \in Clients, Poll(c)
    PROVE  Control'
<1> USE DEF serverVars, mainVars, clientVars
<1>t. /\ BRTypeOK /\ stream \in [Clients -> Seq(Cell)] /\ inbox \in [Clients -> Seq(Word)]
      /\ messages \in Queue(Action) /\ taken \in Seq(Action) /\ NoRevert
  BY Zenon DEF Control
<1>k. \A job, msgs : UNCHANGED clients => (Sending(job, msgs) <=> Sending(job, msgs)')
  BY Zenon DEF Sending
<1>1. CASE inbox[c] = <<>> /\ polled' = polled \ {c} /\ UNCHANGED <<messages, inbox>>
  BY <1>k, <1>1, Zenon DEF Poll, Control, BRTypeOK, NoRevert
<1>2. CASE /\ inbox[c] # <<>> /\ inbox' = [inbox EXCEPT ![c] = Tail(@)]
           /\ messages' = Queued([from |-> c, input |-> Head(inbox[c])]) /\ UNCHANGED polled
  <2>1. inbox[c] \in Seq(Word) /\ Head(inbox[c]) \in Word /\ Tail(inbox[c]) \in Seq(Word)
    BY <1>t, <1>2
  <2>2. [from |-> c, input |-> Head(inbox[c])] \in Action
    BY <2>1, Zenon DEF Action
  <2>3. messages' \in Queue(Action) /\ Len(messages'.items) <= QueueMax
    <3>1. QueueMax \in Nat /\ Len(messages.items) <= QueueMax
      BY <1>t, BRAssumption, Zenon DEF BRTypeOK
    <3>2. messages' = q_enqueue(messages, QueueMax, [from |-> c, input |-> Head(inbox[c])])
      BY <1>2, Zenon DEF Queued
    <3>3. messages \in Queue(Action)
      BY <1>t, Zenon
    <3> HIDE DEF Action
    <3> QED  BY <2>2, <3>1, <3>2, <3>3, Enqueued
  <2>4. inbox' \in [Clients -> Seq(Word)]
    BY <1>t, <1>2, <2>1, Zenon
  <2> QED  BY <1>k, <1>2, <2>3, <2>4, Zenon DEF Poll, Control, BRTypeOK, NoRevert
<1> QED  BY <1>1, <1>2, Zenon DEF Poll

(* One send of a roster or a state to a listed client.                     *)
LEMMA ControlMainSend ==
    ASSUME Control, MainSend
    PROVE  Control'
<1> USE DEF serverVars, mainVars, clientVars
<1>t. /\ BRTypeOK /\ stream \in [Clients -> Seq(Cell)] /\ inbox \in [Clients -> Seq(Word)]
      /\ messages \in Queue(Action) /\ taken \in Seq(Action) /\ NoRevert
  BY Zenon DEF Control
<1>k. \A job, msgs : UNCHANGED clients => (Sending(job, msgs) <=> Sending(job, msgs)')
  BY Zenon DEF Sending
<1>1. mjob \in Job /\ Sending(mjob, {"ROSTER", "STATE"})
  BY Zenon DEF Control, BRTypeOK, MainSend
<1>2. /\ stream' \in [Clients -> Seq(Cell)] /\ mjob' \in Job
      /\ mjob' # NoJob => Sending(mjob', {"ROSTER", "STATE"})
      /\ cstate' \in [Clients -> {"away", "CERT", "AUTH", "LOBBY", "GAME", "END", "gone", "reset"}]
  BY <1>1, SendStep, Zenon DEF MainSend
<1>4. /\ main' \in {"roster", "push", "final", "over", "play"}
      /\ (main' \in {"roster", "push", "final"} <=> mjob' # NoJob)
  BY Zenon DEF MainSend
<1>5. BRTypeOK'
  BY <1>t, <1>2, <1>4, Zenon DEF BRTypeOK, MainSend
<1>6. Sending(mjob', {"ROSTER", "STATE"}) => Sending(mjob, {"ROSTER", "STATE"})'
  BY Zenon DEF Sending, MainSend
<1> QED  BY <1>k, <1>2, <1>4, <1>5, <1>6, Zenon DEF MainSend, Control, NoRevert

(* The main thread takes an input off the queue.                           *)
LEMMA ControlTake ==
    ASSUME Control, brserver_get_app_msg
    PROVE  Control'
<1> USE DEF serverVars, mainVars, clientVars
<1>t. /\ BRTypeOK /\ stream \in [Clients -> Seq(Cell)] /\ inbox \in [Clients -> Seq(Word)]
      /\ messages \in Queue(Action) /\ taken \in Seq(Action) /\ NoRevert
  BY Zenon DEF Control
<1>k. \A job, msgs : UNCHANGED clients => (Sending(job, msgs) <=> Sending(job, msgs)')
  BY Zenon DEF Sending
<1>1. /\ messages' \in Queue(Action) /\ Len(messages'.items) <= Len(messages.items)
      /\ q_peek(messages) \in Action
  BY <1>t, Dequeued, Zenon DEF brserver_get_app_msg, TakeNext
<1>2. Len(messages.items) <= QueueMax /\ Len(messages.items) \in Nat /\ Len(messages'.items) \in Nat
  BY <1>t, <1>1 DEF BRTypeOK, Queue
<1>3. taken' \in Seq(Action)
  BY <1>t, <1>1 DEF brserver_get_app_msg
<1>4. BRTypeOK'
  <2>1. Len(messages'.items) <= QueueMax
    BY <1>1, <1>2, BRAssumption
  <2> QED  BY <1>t, <2>1, Zenon DEF brserver_get_app_msg, BRTypeOK
<1> QED  BY <1>k, <1>1, <1>3, <1>4, Zenon DEF brserver_get_app_msg, Control, NoRevert

(* A client answers the server in the handshake (client.c:333-435).        *)
LEMMA ControlAnswer ==
    ASSUME Control, NEW c \in Clients, Answer(c)
    PROVE  Control'
<1> USE DEF serverVars, mainVars, clientVars
<1>t. /\ BRTypeOK /\ stream \in [Clients -> Seq(Cell)] /\ inbox \in [Clients -> Seq(Word)]
      /\ messages \in Queue(Action) /\ taken \in Seq(Action) /\ NoRevert
  BY Zenon DEF Control
<1>k. \A job, msgs : UNCHANGED clients => (Sending(job, msgs) <=> Sending(job, msgs)')
  BY Zenon DEF Sending
<1> DEFINE s == IF stream[c] # <<>> /\ Head(stream[c]) = "id" THEN Tail(stream[c]) ELSE stream[c]
<1>1. stream[c] \in Seq(Cell) /\ s \in Seq(Cell)
  BY <1>t
<1>2. Len(s) >= FrameLen /\ stream' = [stream EXCEPT ![c] = SubSeq(s, FrameLen + 1, Len(s))]
  BY Zenon DEF Answer
<1> HIDE DEF s
<1>3. SubSeq(s, FrameLen + 1, Len(s)) \in Seq(Cell)
  BY <1>1, <1>2, BRAssumption DEF FrameLen
<1>4. stream' \in [Clients -> Seq(Cell)]
  BY <1>t, <1>2, <1>3, Zenon
<1>5. /\ inbox' = inbox \/ inbox' = [inbox EXCEPT ![c] = Append(@, "AUTH")]
                        \/ inbox' = [inbox EXCEPT ![c] = Append(@, "KEY")]
      /\ cstate' = cstate \/ cstate' = [cstate EXCEPT ![c] = "AUTH"] \/ cstate' = [cstate EXCEPT ![c] = "LOBBY"]
      /\ UNCHANGED <<state, serverVars, mainVars, inputs>>
  BY Zenon DEF Answer
<1>6. inbox' \in [Clients -> Seq(Word)]
  <2>1. "AUTH" \in Word /\ "KEY" \in Word
    BY Zenon DEF Word
  <2>2. Append(inbox[c], "AUTH") \in Seq(Word) /\ Append(inbox[c], "KEY") \in Seq(Word)
    BY <1>t, <2>1
  <2> QED  BY <1>t, <1>5, <2>2, Zenon
<1>7. BRTypeOK'
  <2>1. cstate' \in [Clients -> {"away", "CERT", "AUTH", "LOBBY", "GAME", "END", "gone", "reset"}]
    <3>1. cstate \in [Clients -> {"away", "CERT", "AUTH", "LOBBY", "GAME", "END", "gone", "reset"}]
      BY <1>t, Zenon DEF BRTypeOK
    <3> QED  BY <1>5, <3>1, Zenon
  <2> QED  BY <1>t, <1>5, <2>1 DEF BRTypeOK
<1> QED  BY <1>k, <1>4, <1>5, <1>6, <1>7, Zenon DEF Control, NoRevert

(* A client reads a message in the lobby or in the match.                  *)
LEMMA ControlRead ==
    ASSUME Control, NEW c \in Clients, client_lobby_state(c) \/ client_game_state(c)
    PROVE  Control'
<1> USE DEF serverVars, mainVars, clientVars
<1>t. /\ BRTypeOK /\ stream \in [Clients -> Seq(Cell)] /\ inbox \in [Clients -> Seq(Word)]
      /\ messages \in Queue(Action) /\ taken \in Seq(Action) /\ NoRevert
  BY Zenon DEF Control
<1>k. \A job, msgs : UNCHANGED clients => (Sending(job, msgs) <=> Sending(job, msgs)')
  BY Zenon DEF Sending
<1>1. /\ stream' = [stream EXCEPT ![c] = Rest(c)] /\ Readable(c)
      /\ \E x \in {"LOBBY", "GAME", "END"} : cstate' = [cstate EXCEPT ![c] = x]
      /\ UNCHANGED <<state, serverVars, mainVars, inbox, inputs>>
  BY <1>t, Zenon DEF client_lobby_state, client_game_state, BRTypeOK
<1>2. Rest(c) \in Seq(Cell)
  BY <1>t, <1>1, BRAssumption DEF Rest, FrameLen, Readable
<1>3. stream' \in [Clients -> Seq(Cell)] /\ BRTypeOK'
  BY <1>t, <1>1, <1>2, SMTT(30) DEF BRTypeOK
<1> QED  BY <1>k, <1>1, <1>3, Zenon DEF Control, NoRevert

(* Each step of the threads and of the clients keeps what the threads are  *)
(* doing in order; above all a thread that sends has a listed client to    *)
(* send to, and a lobby that started does not empty.                       *)
LEMMA ControlStep == Control /\ [BRNext]_brVars => Control'
<1> SUFFICES ASSUME Control, [BRNext]_brVars PROVE Control'
  BY Zenon
<1> USE DEF serverVars, mainVars, clientVars
<1>t. /\ BRTypeOK /\ stream \in [Clients -> Seq(Cell)] /\ inbox \in [Clients -> Seq(Word)]
      /\ messages \in Queue(Action) /\ taken \in Seq(Action) /\ NoRevert
  BY Zenon DEF Control
<1>j. \A m \in {"START", "END", "ROSTER", "STATE"} : Broadcast(m) \in Job
  BY DEF Broadcast, Job
<1>b. clients # <<>> => /\ Sending(Broadcast("START"), {"START", "END"}) /\ Sending(Broadcast("END"), {"START", "END"})
                        /\ Sending(Broadcast("ROSTER"), {"ROSTER", "STATE"})
                        /\ Sending(Broadcast("STATE"), {"ROSTER", "STATE"})
  BY <1>t DEF Broadcast, Sending, BRTypeOK
<1>c. state \in {"GAME", "END"} => clients # <<>>
  BY Zenon DEF Control
<1>k. \A job, msgs : UNCHANGED clients => (Sending(job, msgs) <=> Sending(job, msgs)')
  BY Zenon DEF Sending
<1>1. CASE EnterLobby
  BY <1>1, <1>k, Zenon DEF EnterLobby, Control, BRTypeOK, NoRevert, Sending
<1>2. CASE LeaveState
  BY <1>2, <1>k, Zenon DEF LeaveState, Control, BRTypeOK, NoRevert, Sending
<1>5. CASE EnterGame
  <2>1. clients # <<>>
    BY <1>5, <1>c, Zenon DEF EnterGame
  <2>2. /\ thread' = "START" /\ sjob' = Broadcast("START")
        /\ UNCHANGED <<state, backlog, cur, clients, polled, messages, main, lobby, mjob, pushes, taken, cstate,
                       inputs, stream, inbox>>
    BY <1>5, <2>1, Zenon DEF EnterGame, Deserted
  <2>3. BRTypeOK'
    BY <1>t, <1>j, <2>2, Zenon DEF BRTypeOK
  <2> QED  BY <1>5, <1>b, <1>k, <2>1, <2>2, <2>3, Zenon DEF EnterGame, Control, NoRevert
<1>6. CASE EnterEnd
  <2>1. BRTypeOK'
    BY <1>6, <1>t, <1>j, Zenon DEF BRTypeOK, EnterEnd
  <2> QED  BY <1>6, <1>b, <1>c, <1>k, <2>1, Zenon DEF EnterEnd, Control, NoRevert
<1>9. CASE brserver_open
  BY <1>9, <1>k, Zenon DEF brserver_open, Control, BRTypeOK, NoRevert
<1>10. CASE brserver_client_info
  BY <1>10, <1>k, Zenon DEF brserver_client_info, Control, BRTypeOK, NoRevert
<1>11. CASE StartOrder
  <2>1. CASE MayStart
    <3>1. BRTypeOK'
      BY <1>11, <1>t, <1>j, <2>1, Zenon DEF StartOrder, BRTypeOK
    <3> QED  BY <1>11, <1>b, <1>k, <2>1, <3>1, Zenon DEF StartOrder, MayStart, Control, NoRevert
  <2>2. CASE ~MayStart
    BY <1>11, <1>k, <2>2, Zenon DEF StartOrder, Control, BRTypeOK, NoRevert
  <2> QED  BY <2>1, <2>2, Zenon
<1>13. CASE Push
  <2>1. BRTypeOK' /\ clients # <<>>
    <3>1. main \in {"play", "push"} /\ pushes' \in Nat
      BY <1>13, <1>t DEF Push, BRTypeOK
    <3>2. clients # <<>>
      BY <1>t, <1>c, <3>1, Zenon DEF NoRevert
    <3>3. mjob' \in Job /\ main' \in {"play", "push"}
      BY <1>13, <1>t, <1>j, Zenon DEF Push, BRTypeOK
    <3>4. BRTypeOK'
      BY <1>13, <1>t, <3>1, <3>3, Zenon DEF Push, BRTypeOK
    <3> QED  BY <3>2, <3>4, Zenon
  <2> QED  BY <1>13, <1>b, <1>k, <2>1, Zenon DEF Push, Control, NoRevert
<1>15. CASE MatchOver
  <2>1. clients # <<>> /\ mjob' \in Job /\ main' \in {"final", "over"}
    BY <1>15, <1>t, <1>j, <1>c, Zenon DEF MatchOver, BRTypeOK, NoRevert
  <2>2. BRTypeOK'
    BY <1>15, <1>t, <2>1, Zenon DEF MatchOver, BRTypeOK
  <2>3. CASE main' = "final" /\ mjob' = Broadcast("STATE")
    BY <1>15, <1>b, <1>k, <2>1, <2>2, <2>3, Zenon DEF MatchOver, Control, NoRevert
  <2>4. CASE main' = "over" /\ UNCHANGED mjob
    BY <1>15, <1>k, <2>1, <2>2, <2>4, Zenon DEF MatchOver, Control, NoRevert
  <2> QED  BY <1>15, <2>3, <2>4, Zenon DEF MatchOver
<1>16. CASE brserver_end
  BY <1>16, <1>k, Zenon DEF brserver_end, Control, BRTypeOK, NoRevert
<1>17. CASE Exit
  BY <1>17, <1>k, Zenon DEF Exit, Control, BRTypeOK, NoRevert
<1>18. ASSUME NEW c \in Clients, Connect(c) PROVE Control'
  <2>1. Append(backlog, c) \in Seq(Clients)
    BY <1>18, <1>t DEF BRTypeOK
  <2>2. BRTypeOK'
    BY <1>18, <1>t, <2>1 DEF Connect, BRTypeOK
  <2> QED  BY <1>18, <1>k, <2>2, Zenon DEF Connect, Control, NoRevert
<1>21. ASSUME NEW c \in Clients, brclient_send_msg(c) PROVE Control'
  <2>1. inbox' \in [Clients -> Seq(Word)] /\ inputs' \in [Clients -> Nat]
    <3>1. /\ inputs' = [inputs EXCEPT ![c] = inputs[c] + 1]
          /\ inbox' = [inbox EXCEPT ![c] = Append(inbox[c], inputs[c] + 1)]
      BY <1>21, Zenon DEF brclient_send_msg
    <3>2. inputs[c] + 1 \in Nat /\ inputs[c] + 1 \in Word
      BY <1>t DEF BRTypeOK, Word
    <3>3. Append(inbox[c], inputs[c] + 1) \in Seq(Word)
      BY <1>t, <3>2
    <3>4. inputs \in [Clients -> Nat] /\ inbox \in [Clients -> Seq(Word)]
      BY <1>t, Zenon DEF BRTypeOK
    <3> QED  BY <3>1, <3>2, <3>3, <3>4, Zenon
  <2> QED  BY <1>21, <1>k, <2>1, ZenonT(40) DEF brclient_send_msg, Control, BRTypeOK, NoRevert
<1>22. ASSUME NEW c \in Clients, Leave(c) PROVE Control'
  <2>1. stream' \in [Clients -> Seq(Cell)] /\ BRTypeOK'
    BY <1>22, <1>t DEF Leave, BRTypeOK
  <2> QED  BY <1>22, <1>k, <2>1, Zenon DEF Leave, Control, NoRevert
<1>23. CASE UNCHANGED brVars
  BY <1>23, <1>k, ZenonT(40) DEF brVars, Control, BRTypeOK, NoRevert
<1> QED
  BY <1>1, <1>2, ControlAccept, ControlHandshake, <1>5, <1>6, ControlServerSend, ControlPoll, <1>9, <1>10, <1>11,
     ControlMainSend, <1>13, ControlTake, <1>15, <1>16, <1>17, <1>18, ControlAnswer, ControlRead, <1>21, <1>22,
     <1>23 DEF BRNext, ServerStep, MainStep, ClientRead

(* The room's control is in order in every reachable state; with it, the   *)
(* message queue stays within its array.                                   *)
THEOREM RoomTyping == BRSpec => []BRTypeOK
<1>1. Control => BRTypeOK
  BY Zenon DEF Control
<1> QED  BY ControlInit, ControlStep, <1>1, PTL DEF BRSpec

(* A room whose match was started never goes back to its lobby, although   *)
(* the server thread writes the state unasked when it finds nobody listed  *)
(* (server.c:323-327): a start needs a player, and the list only grows.    *)
THEOREM StartIsFinal == BRSpec => []NoRevert
<1>1. Control => NoRevert
  BY Zenon DEF Control
<1> QED  BY ControlInit, ControlStep, <1>1, PTL DEF BRSpec

-----------------------------------------------------------------------------
(* The second layer.                                                       *)

Greetings == {<<>>, <<"AUTH">>, <<"KEY">>, <<"AUTH", "KEY">>}

(* Where a client stands in the handshake: it waits to be accepted, is the *)
(* one the server thread talks to, or is listed.  Until it is listed it is *)
(* sent nothing but the handshake and answers nothing else.                *)
Place(c) ==
    /\ c \in Rng(backlog) => /\ c \notin Rng(clients) /\ c # cur /\ (cstate[c] = "CERT" \/ Gone(c))
                             /\ stream[c] = <<>>
    /\ c = cur => c \notin Rng(clients) /\ cstate[c] # "away"
    /\ c \in Rng(clients) => cstate[c] \notin {"away", "CERT", "AUTH"}
    /\ c \notin Rng(clients) => /\ cstate[c] \notin {"GAME", "END"} /\ inbox[c] \in Greetings
                                /\ \A i \in 1..Len(stream[c]) : stream[c][i] \notin {"START", "APP", "END"}
    /\ cstate[c] \in {"away", "CERT"} => inbox[c] = <<>>
    /\ cstate[c] = "away" => stream[c] = <<>>
    /\ cstate[c] = "AUTH" => inbox[c] \in {<<>>, <<"AUTH">>}

Lists ==
    /\ \A i, j \in 1..Len(backlog) : backlog[i] = backlog[j] => i = j
    /\ polled \subseteq Rng(clients)
    /\ \A c \in Clients : Place(c)

(* The id a new connection begins with.                                    *)
HasId(s) == s # <<>> /\ s[1] = "id"
Off(c) == IF HasId(stream[c]) THEN 1 ELSE 0

(* A cell of a concatenation is a cell of one of its two parts.            *)
LEMMA ConcatCells ==
    ASSUME NEW T, NEW s \in Seq(T), NEW t \in Seq(T)
    PROVE  /\ s \o t \in Seq(T) /\ Len(s \o t) = Len(s) + Len(t) /\ Len(s) \in Nat /\ Len(t) \in Nat
           /\ \A i \in 1..Len(s \o t) : \/ i \in 1..Len(s) /\ (s \o t)[i] = s[i]
                                        \/ i - Len(s) \in 1..Len(t) /\ (s \o t)[i] = t[i - Len(s)]
<1>1. Len(s) \in Nat /\ Len(t) \in Nat
  OBVIOUS
<1>2. /\ s \o t \in Seq(T) /\ Len(s \o t) = Len(s) + Len(t)
      /\ \A i \in 1..(Len(s) + Len(t)) : (s \o t)[i] = IF i <= Len(s) THEN s[i] ELSE t[i - Len(s)]
  BY JoinedSeq, Zenon
<1>3. ASSUME NEW i \in 1..Len(s \o t)
      PROVE  \/ i \in 1..Len(s) /\ (s \o t)[i] = s[i]
             \/ i - Len(s) \in 1..Len(t) /\ (s \o t)[i] = t[i - Len(s)]
  <2>1. CASE i <= Len(s)
    BY <1>1, <1>2, <1>3, <2>1
  <2>2. CASE ~(i <= Len(s))
    BY <1>1, <1>2, <1>3, <2>2
  <2> QED  BY <2>1, <2>2, Zenon
<1> QED  BY <1>1, <1>2, <1>3, Zenon

(* What is left of a sequence behind its first n elements.                 *)
LEMMA Remainder ==
    ASSUME NEW T, NEW s \in Seq(T), NEW n \in Nat, n <= Len(s), NEW r, r = SubSeq(s, n + 1, Len(s))
    PROVE  r \in Seq(T) /\ Len(r) = Len(s) - n /\ \A i \in 1..Len(r) : r[i] = s[i + n]
<1>1. Len(s) \in Nat /\ \A i \in (n + 1)..Len(s) : s[i] \in T
  OBVIOUS
<1>2. /\ r \in Seq(T) /\ Len(r) = IF n + 1 <= Len(s) THEN Len(s) - (n + 1) + 1 ELSE 0
      /\ \A i \in 1..(Len(s) - (n + 1) + 1) : r[i] = s[(n + 1) + i - 1]
  BY <1>1
<1>3. Len(r) = Len(s) - n
  BY <1>1, <1>2
<1>4. \A i \in 1..Len(r) : r[i] = s[i + n]
  <2> TAKE i \in 1..Len(r)
  <2>1. i \in 1..(Len(s) - (n + 1) + 1) /\ (n + 1) + i - 1 = i + n
    BY <1>1, <1>3
  <2> QED  BY <1>2, <2>1, Zenon
<1> QED  BY <1>2, <1>3, <1>4, Zenon

(* A read of receive_message_tcp takes FrameLen cells off the stream.      *)
LEMMA ReadLobbyGame ==
    ASSUME Control, NEW c \in Clients, client_lobby_state(c) \/ client_game_state(c)
    PROVE  \E r \in Seq(Cell) :
             /\ stream' = [stream EXCEPT ![c] = r] /\ Len(r) = Len(stream[c]) - FrameLen
             /\ \A i \in 1..Len(r) : r[i] = stream[c][i + FrameLen]
<1>1. stream[c] \in Seq(Cell) /\ FrameLen \in Nat
  BY BRAssumption DEF Control, FrameLen
<1>2. stream' = [stream EXCEPT ![c] = Rest(c)] /\ FrameLen <= Len(stream[c])
  BY <1>1, Zenon DEF client_lobby_state, client_game_state, Readable
<1>3. /\ Rest(c) \in Seq(Cell) /\ Len(Rest(c)) = Len(stream[c]) - FrameLen
      /\ \A i \in 1..Len(Rest(c)) : Rest(c)[i] = stream[c][i + FrameLen]
  BY <1>1, <1>2, Remainder DEF Rest
<1> QED  BY <1>2, <1>3, Zenon

(* So does one of the client's part of the handshake (client.c:354-370),   *)
(* and the first one the id before them.                                   *)
LEMMA ReadAnswer ==
    ASSUME Control, NEW c \in Clients, Answer(c)
    PROVE  \E r \in Seq(Cell) :
             /\ stream' = [stream EXCEPT ![c] = r] /\ Len(r) = Len(stream[c]) - FrameLen - Off(c)
             /\ Len(stream[c]) >= FrameLen + Off(c)
             /\ \A i \in 1..Len(r) : r[i] = stream[c][i + FrameLen + Off(c)]
<1> DEFINE s == IF stream[c] # <<>> /\ Head(stream[c]) = "id" THEN Tail(stream[c]) ELSE stream[c]
           r == SubSeq(s, FrameLen + 1, Len(s))
           o == Off(c)
<1>1. stream[c] \in Seq(Cell) /\ FrameLen \in Nat /\ Len(stream[c]) \in Nat
  BY BRAssumption DEF Control, FrameLen
<1>2. o \in {0, 1} /\ s \in Seq(Cell) /\ Len(s) = Len(stream[c]) - o /\ \A i \in 1..Len(s) : s[i] = stream[c][i + o]
  <2>1. CASE stream[c] # <<>> /\ stream[c][1] = "id"
    <3>1. s = Tail(stream[c]) /\ o = 1
      BY <1>1, <2>1 DEF Off, HasId
    <3> HIDE DEF s, o
    <3>2. /\ Tail(stream[c]) \in Seq(Cell) /\ Len(Tail(stream[c])) = Len(stream[c]) - 1
          /\ \A i \in 1..Len(Tail(stream[c])) : Tail(stream[c])[i] = stream[c][i + 1]
      BY <1>1, <2>1, TailSeq, Zenon
    <3> QED  BY <3>1, <3>2, Zenon
  <2>2. CASE ~(stream[c] # <<>> /\ stream[c][1] = "id")
    <3>1. s = stream[c] /\ o = 0
      BY <1>1, <2>2 DEF Off, HasId
    <3> HIDE DEF s, o
    <3> QED  BY <1>1, <3>1
  <2> QED  BY <2>1, <2>2, Zenon
<1>3. Len(s) >= FrameLen /\ stream' = [stream EXCEPT ![c] = r]
  BY Zenon DEF Answer
<1> HIDE DEF s, o
<1>4. r \in Seq(Cell) /\ Len(r) = Len(s) - FrameLen /\ \A i \in 1..Len(r) : r[i] = s[i + FrameLen]
  <2>1. FrameLen <= Len(s) /\ FrameLen \in Nat /\ s \in Seq(Cell)
    BY <1>1, <1>2, <1>3, Zenon
  <2> HIDE DEF FrameLen
  <2>2. PICK x : x = r
    BY Zenon
  <2>3. x \in Seq(Cell) /\ Len(x) = Len(s) - FrameLen /\ \A i \in 1..Len(x) : x[i] = s[i + FrameLen]
    BY <2>1, <2>2, Remainder
  <2> QED  BY <2>2, <2>3, Zenon
<1> HIDE DEF r
<1>5. \A i \in 1..Len(r) : r[i] = stream[c][i + FrameLen + o]
  <2> TAKE i \in 1..Len(r)
  <2>1. i + FrameLen \in 1..Len(s) /\ (i + FrameLen) + o = i + FrameLen + o
    BY <1>1, <1>2, <1>4
  <2> QED  BY <1>2, <1>4, <2>1, Zenon
<1>6. Len(r) = Len(stream[c]) - FrameLen - o /\ Len(stream[c]) >= FrameLen + o
  BY <1>1, <1>2, <1>3, <1>4
<1> QED  BY <1>3, <1>4, <1>5, <1>6, Zenon DEF o

(* A client that a step does not touch keeps its place.                    *)
LEMMA PlaceFrame ==
    ASSUME NEW d \in Clients, Place(d), d \in Rng(backlog)' <=> d \in Rng(backlog),
           d \in Rng(clients)' <=> d \in Rng(clients), d = cur' => d = cur,
           cstate'[d] = cstate[d], inbox'[d] = inbox[d], stream'[d] = stream[d]
    PROVE  Place(d)'
BY Zenon DEF Place, Gone, Rng

(* Nobody has connected yet.                                               *)
LEMMA ListsInit == BRInit => Lists
<1> SUFFICES ASSUME BRInit PROVE Lists
  BY Zenon
<1>1. Rng(backlog) = {} /\ Rng(clients) = {} /\ Len(backlog) = 0 /\ polled = {}
  BY DEF BRInit, Rng
<1>2. \A c \in Clients : cstate[c] = "away" /\ inbox[c] = <<>> /\ stream[c] = <<>> /\ c # cur
  BY BRAssumption, Zenon DEF BRInit
<1>3. \A c \in Clients : Place(c)
  BY <1>1, <1>2 DEF Place, Greetings
<1> QED  BY <1>1, <1>3 DEF Lists

(* A write to a listed client (server.c:93-105) changes no one's place.    *)
LEMMA PlaceSend ==
    ASSUME Control, Lists, NEW c \in Clients, c \in Rng(clients), NEW cells,
           stream' = Write(c, cells), cstate' = Answered(c), UNCHANGED <<backlog, clients, cur, inbox>>
    PROVE  \A d \in Clients : Place(d)'
<1> TAKE d \in Clients
<1>1. Place(d) /\ Place(c)
  BY Zenon DEF Lists
<1>2. stream \in [Clients -> Seq(Cell)] /\ DOMAIN cstate = Clients
  BY Zenon DEF Control, BRTypeOK
<1>3. CASE d # c
  <2>1. stream'[d] = stream[d] /\ cstate'[d] = cstate[d]
    BY <1>2, <1>3, Zenon DEF Write, Answered
  <2> QED  BY <1>1, <2>1, PlaceFrame, Zenon DEF Rng
<1>4. CASE d = c
  <2>1. cstate'[c] = cstate[c] \/ cstate'[c] = "reset"
    BY <1>2, Zenon DEF Answered
  <2>2. c \notin Rng(backlog) /\ c # cur
    BY <1>1, Zenon DEF Place
  <2> QED  BY <1>1, <1>4, <2>1, <2>2, Zenon DEF Place, Rng
<1> QED  BY <1>3, <1>4, Zenon

(* The shapes of what the lists are about.                                 *)
LEMMA ListsTypes ==
    ASSUME Control
    PROVE  /\ stream \in [Clients -> Seq(Cell)] /\ inbox \in [Clients -> Seq(Word)]
           /\ cstate \in [Clients -> {"away", "CERT", "AUTH", "LOBBY", "GAME", "END", "gone", "reset"}]
           /\ backlog \in Seq(Clients) /\ clients \in Seq(Clients)
BY Zenon DEF Control, BRTypeOK

(* What a list holds when a client is put at its end.                      *)
LEMMA Appended ==
    ASSUME NEW s \in Seq(Clients), NEW v \in Clients, NEW r, r = Append(s, v)
    PROVE  \A x : x \in Rng(r) <=> x \in Rng(s) \/ x = v
<1>1. /\ r \in Seq(Clients) /\ Len(s) \in Nat /\ Len(r) = Len(s) + 1
      /\ DOMAIN s = 1..Len(s) /\ DOMAIN r = 1..Len(r)
      /\ \A i \in 1..Len(r) : r[i] = IF i <= Len(s) THEN s[i] ELSE v
  OBVIOUS
<1>2. ASSUME NEW x \in Rng(s) PROVE x \in Rng(r)
  <2>1. PICK i \in 1..Len(s) : x = s[i]
    BY <1>1, Zenon DEF Rng
  <2> QED  BY <1>1, <2>1 DEF Rng
<1>3. v \in Rng(r)
  <2>1. Len(s) + 1 \in DOMAIN r /\ r[Len(s) + 1] = v
    BY <1>1
  <2> QED  BY <2>1, Zenon DEF Rng
<1>4. ASSUME NEW x \in Rng(r) PROVE x \in Rng(s) \/ x = v
  <2>1. PICK i \in 1..Len(r) : x = r[i]
    BY <1>1, Zenon DEF Rng
  <2> QED  BY <1>1, <2>1 DEF Rng
<1> QED  BY <1>1, <1>2, <1>3, <1>4, Zenon

(* A step that leaves both lists as they are and polls no other client.    *)
LEMMA ListsKept ==
    ASSUME Lists, UNCHANGED <<backlog, clients>>, polled' \subseteq Rng(clients), \A d \in Clients : Place(d)'
    PROVE  Lists'
<1>1. Rng(clients)' = Rng(clients)
  BY Zenon DEF Rng
<1>2. \A i, j \in 1..Len(backlog') : backlog'[i] = backlog'[j] => i = j
  BY Zenon DEF Lists
<1> QED  BY <1>1, <1>2, Zenon DEF Lists

(* A client that is accepted leaves the backlog and becomes the one the    *)
(* server thread talks to.                                                 *)
LEMMA ListsAccept ==
    ASSUME Control, Lists, Accept
    PROVE  Lists'
<1> USE DEF serverVars, mainVars, clientVars
<1>t. /\ stream \in [Clients -> Seq(Cell)] /\ inbox \in [Clients -> Seq(Word)]
      /\ cstate \in [Clients -> {"away", "CERT", "AUTH", "LOBBY", "GAME", "END", "gone", "reset"}]
      /\ backlog \in Seq(Clients) /\ clients \in Seq(Clients)
  BY ListsTypes, Zenon
<1>l. /\ \A i, j \in 1..Len(backlog) : backlog[i] = backlog[j] => i = j
      /\ polled \subseteq Rng(clients) /\ \A x \in Clients : Place(x)
  BY Zenon DEF Lists
<1> DEFINE c == Head(backlog)
           cells == <<"id">> \o Frame("CERT")
<1>1. /\ backlog # <<>> /\ backlog' = Tail(backlog) /\ cur' = c /\ clients' = clients /\ stream' = Write(c, cells)
      /\ UNCHANGED <<polled, cstate, inbox>> /\ cur = NoClient
  BY Zenon DEF Accept, Listed, Control
<1>2. /\ c \in Clients /\ c = backlog[1] /\ Len(backlog) \in Nat \ {0} /\ Tail(backlog) \in Seq(Clients)
      /\ Len(Tail(backlog)) = Len(backlog) - 1
      /\ \A i \in 1..Len(Tail(backlog)) : Tail(backlog)[i] = backlog[i + 1]
  BY <1>t, <1>1, TailSeq
<1>3. \A i \in 1..FrameLen : Frame("CERT")[i] \in {"0", "CERT"}
  BY FrameShape, Zenon DEF Msgs
<1>4. cells \in Seq(Cell) /\ \A i \in 1..Len(cells) : cells[i] \in {"id", "0", "CERT"}
  <2>1. <<"id">> \in Seq(Cell) /\ Len(<<"id">>) = 1 /\ <<"id">>[1] = "id"
    BY DEF Cell
  <2>2. Frame("CERT") \in Seq(Cell) /\ Len(Frame("CERT")) = FrameLen /\ FrameLen \in Nat
    BY FrameShape, BRAssumption DEF Msgs, FrameLen
  <2>3. /\ cells \in Seq(Cell)
        /\ \A i \in 1..Len(cells) : \/ i \in 1..Len(<<"id">>) /\ cells[i] = <<"id">>[i]
                                    \/ i - Len(<<"id">>) \in 1..Len(Frame("CERT")) /\ cells[i] = Frame("CERT")[i - Len(<<"id">>)]
    BY <2>1, <2>2, ConcatCells, Zenon
  <2>4. \A i \in 1..Len(<<"id">>) : <<"id">>[i] = "id"
    OBVIOUS
  <2> HIDE DEF cells
  <2>5. \A i \in 1..Len(cells) : cells[i] \in {"id", "0", "CERT"}
    <3> TAKE i \in 1..Len(cells)
    <3>1. CASE i \in 1..Len(<<"id">>) /\ cells[i] = <<"id">>[i]
      BY <2>4, <3>1, Zenon
    <3>2. CASE i - Len(<<"id">>) \in 1..Len(Frame("CERT")) /\ cells[i] = Frame("CERT")[i - Len(<<"id">>)]
      BY <1>3, <2>2, <3>2, Zenon
    <3> QED  BY <2>3, <3>1, <3>2, Zenon
  <2> QED  BY <2>3, <2>5, Zenon
<1> HIDE DEF c, cells
<1>5. \A i, j \in 1..Len(backlog') : backlog'[i] = backlog'[j] => i = j
  BY <1>l, <1>1, <1>2
<1>6. \A d \in Clients : d \in Rng(backlog)' <=> d \in Rng(backlog) /\ d # c
  <2> TAKE d \in Clients
  <2>1. d \in Rng(backlog) <=> \E i \in 1..Len(backlog) : backlog[i] = d
    BY <1>t DEF Rng
  <2>2. d \in Rng(backlog)' <=> \E i \in 1..Len(Tail(backlog)) : Tail(backlog)[i] = d
    <3>1. DOMAIN Tail(backlog) = 1..Len(Tail(backlog))
      BY <1>2
    <3>2. Rng(backlog)' = {Tail(backlog)[i] : i \in 1..Len(Tail(backlog))}
      BY <1>1, <3>1, Zenon DEF Rng
    <3> QED  BY <3>2, Zenon
  <2>3. ASSUME NEW i \in 1..Len(backlog), backlog[i] = d, d # c
        PROVE  d \in Rng(backlog)'
    <3>1. i - 1 \in 1..Len(Tail(backlog)) /\ (i - 1) + 1 = i
      BY <1>2, <2>3
    <3> QED  BY <1>2, <2>2, <2>3, <3>1, Zenon
  <2>4. ASSUME NEW i \in 1..Len(Tail(backlog)), Tail(backlog)[i] = d
        PROVE  d \in Rng(backlog) /\ d # c
    <3>1. i + 1 \in 1..Len(backlog) /\ 1 \in 1..Len(backlog) /\ i + 1 # 1 /\ backlog[i + 1] = d
      BY <1>2, <2>4
    <3> QED  BY <1>l, <1>2, <2>1, <3>1, Zenon
  <2> QED  BY <2>1, <2>2, <2>3, <2>4, Zenon
<1>7. ASSUME NEW d \in Clients PROVE Place(d)'
  <2>1. CASE d # c
    <3>1. stream'[d] = stream[d]
      BY <1>t, <1>1, <2>1, Zenon DEF Write
    <3>2. d \in Rng(clients)' <=> d \in Rng(clients)
      BY <1>1, Zenon DEF Rng
    <3>3. (d = cur') <=> (d = cur)
      BY <1>1, <2>1, BRAssumption, Zenon
    <3> QED  BY <1>l, <1>1, <1>6, <2>1, <3>1, <3>2, <3>3, PlaceFrame, Zenon
  <2>2. CASE d = c
    <3>1. c \in Rng(backlog) /\ Place(c)
      <4>1. 1 \in DOMAIN backlog
        BY <1>t, <1>2
      <4>2. c \in Rng(backlog)
        BY <1>2, <4>1, Zenon DEF Rng
      <4> QED  BY <1>l, <1>2, <4>2, Zenon
    <3>2. c \notin Rng(clients) /\ (cstate[c] = "CERT" \/ Gone(c))
      BY <3>1, Zenon DEF Place
    <3>3. \A i \in 1..Len(stream[c]) : stream[c][i] \notin {"START", "APP", "END"}
      BY <3>1, <3>2, Zenon DEF Place
    <3>4. \A i \in 1..Len(stream'[c]) : stream'[c][i] \notin {"START", "APP", "END"}
      <4>1. CASE Gone(c)
        BY <1>1, <3>3, <4>1, Zenon DEF Write
      <4>2. CASE ~Gone(c)
        <5>1. stream'[c] = stream[c] \o cells /\ stream[c] \in Seq(Cell)
          BY <1>t, <1>1, <1>2, <4>2, Zenon DEF Write
        <5>2. \A i \in 1..Len(stream'[c]) : \/ i \in 1..Len(stream[c]) /\ stream'[c][i] = stream[c][i]
                                            \/ /\ i - Len(stream[c]) \in 1..Len(cells)
                                               /\ stream'[c][i] = cells[i - Len(stream[c])]
          BY <1>4, <5>1, ConcatCells
        <5> QED  BY <1>4, <3>3, <5>2, Zenon
      <4> QED  BY <4>1, <4>2, Zenon
    <3>5. c \notin Rng(clients)' /\ c \notin Rng(backlog)'
      BY <1>1, <1>2, <1>6, <3>2, Zenon DEF Rng
    <3> QED  BY <1>1, <2>2, <3>1, <3>2, <3>4, <3>5, Zenon DEF Place, Gone
  <2> QED  BY <2>1, <2>2, Zenon
<1>8. polled' \subseteq Rng(clients)'
  BY <1>l, <1>1, Zenon DEF Rng
<1> QED  BY <1>5, <1>7, <1>8, Zenon DEF Lists

(* The server thread lists a client on a KEY (server.c:268-297), and only  *)
(* a client past AUTH has sent one.                                        *)
LEMMA ListsHandshake ==
    ASSUME Control, Lists, Handshake
    PROVE  Lists'
<1> USE DEF serverVars, mainVars, clientVars
<1>t. /\ stream \in [Clients -> Seq(Cell)] /\ inbox \in [Clients -> Seq(Word)]
      /\ cstate \in [Clients -> {"away", "CERT", "AUTH", "LOBBY", "GAME", "END", "gone", "reset"}]
      /\ backlog \in Seq(Clients) /\ clients \in Seq(Clients)
  BY ListsTypes, Zenon
<1>l. /\ \A i, j \in 1..Len(backlog) : backlog[i] = backlog[j] => i = j
      /\ polled \subseteq Rng(clients) /\ \A x \in Clients : Place(x)
  BY Zenon DEF Lists
<1>1. /\ thread \in {"AUTH", "KEY"} /\ cur \in Clients /\ Place(cur) /\ UNCHANGED <<backlog, polled, cstate>>
      /\ cur \notin Rng(clients) /\ cur \notin Rng(backlog) /\ cur # NoClient
  BY <1>l, Zenon DEF Handshake, Control, BRTypeOK, Place
<1>2. CASE cur' = NoClient /\ UNCHANGED <<clients, stream, inbox>>
  <2>1. ASSUME NEW d \in Clients PROVE Place(d)'
    <3>1. /\ d \in Rng(backlog)' <=> d \in Rng(backlog)
          /\ d \in Rng(clients)' <=> d \in Rng(clients)
      BY <1>1, <1>2, Zenon DEF Rng
    <3>2. d = cur' => d = cur
      BY <1>2, BRAssumption, Zenon
    <3> QED  BY <1>l, <1>1, <1>2, <3>1, <3>2, PlaceFrame, Zenon
  <2> QED  BY <1>l, <1>1, <1>2, <2>1, ListsKept, Zenon
<1>3. CASE inbox[cur] # <<>> /\ inbox' = [inbox EXCEPT ![cur] = Tail(@)] /\ UNCHANGED <<cur, clients>>
           /\ (stream' = stream \/ stream' = Write(cur, Frame("AUTH")))
  <2>1. ASSUME NEW d \in Clients, d # cur PROVE Place(d)'
    <3>1. stream'[d] = stream[d] /\ inbox'[d] = inbox[d]
      BY <1>t, <1>3, <2>1, Zenon DEF Write
    <3> QED  BY <1>l, <1>1, <1>3, <3>1, PlaceFrame, Zenon DEF Rng
  <2>2. inbox[cur] \in Greetings \ {<<>>} /\ (cstate[cur] \in {"away", "CERT", "AUTH"} => inbox[cur] = <<"AUTH">>)
        /\ cstate[cur] \notin {"away", "CERT"}
    BY <1>1, <1>3, Zenon DEF Place
  <2>3. inbox'[cur] = Tail(inbox[cur])
    BY <1>t, <1>1, <1>3, Zenon
  <2>4. inbox'[cur] \in Greetings /\ (cstate[cur] = "AUTH" => inbox'[cur] = <<>>)
    <3>1. /\ Tail(<<"AUTH">>) = <<>> /\ Tail(<<"KEY">>) = <<>> /\ Tail(<<"AUTH", "KEY">>) = <<"KEY">>
          /\ <<"AUTH", "KEY">> # <<>> /\ <<"KEY">> # <<>> /\ <<"AUTH">> # <<>>
      OBVIOUS
    <3> QED  BY <2>2, <2>3, <3>1, Zenon DEF Greetings
  <2>5. \A i \in 1..Len(stream'[cur]) : stream'[cur][i] \notin {"START", "APP", "END"}
    <3>1. \A i \in 1..Len(stream[cur]) : stream[cur][i] \notin {"START", "APP", "END"}
      BY <1>1, Zenon DEF Place
    <3>2. CASE Gone(cur) \/ stream' = stream
      BY <1>3, <3>1, <3>2, Zenon DEF Write
    <3>3. CASE ~Gone(cur) /\ stream' = Write(cur, Frame("AUTH"))
      <4> DEFINE cells == Frame("AUTH")
      <4>1. cells \in Seq(Cell) /\ Len(cells) = FrameLen /\ \A i \in 1..FrameLen : cells[i] \in {"0", "AUTH"}
        BY FrameShape, Zenon DEF Msgs
      <4> HIDE DEF cells
      <4>2. stream'[cur] = stream[cur] \o cells /\ stream[cur] \in Seq(Cell)
        BY <1>t, <1>1, <3>3, Zenon DEF Write, cells
      <4>3. \A i \in 1..Len(stream'[cur]) : \/ i \in 1..Len(stream[cur]) /\ stream'[cur][i] = stream[cur][i]
                                            \/ /\ i - Len(stream[cur]) \in 1..Len(cells)
                                               /\ stream'[cur][i] = cells[i - Len(stream[cur])]
        BY <4>1, <4>2, ConcatCells
      <4> QED  BY <3>1, <4>1, <4>3, Zenon
    <3> QED  BY <1>3, <3>2, <3>3, Zenon
  <2>6. Place(cur)'
    BY <1>1, <1>3, <2>2, <2>4, <2>5, Zenon DEF Place, Rng
  <2>7. \A d \in Clients : Place(d)'
    BY <1>3, <2>1, <2>6, Zenon
  <2> QED  BY <1>l, <1>1, <1>3, <2>7, ListsKept, Zenon
<1>4. CASE /\ inbox[cur] # <<>> /\ inbox' = [inbox EXCEPT ![cur] = Tail(@)] /\ Head(inbox[cur]) = "KEY"
           /\ cur' = NoClient /\ clients' = Append(clients, cur) /\ UNCHANGED stream
  <2>1. cstate[cur] \notin {"away", "CERT", "AUTH"}
    BY <1>1, <1>4 DEF Place
  <2>2. \A d \in Clients : d \in Rng(clients)' <=> d \in Rng(clients) \/ d = cur
    <3> TAKE d \in Clients
    <3>1. /\ Len(clients) \in Nat /\ Len(clients') = Len(clients) + 1 /\ DOMAIN clients' = 1..Len(clients')
          /\ DOMAIN clients = 1..Len(clients)
          /\ \A i \in 1..Len(clients') : clients'[i] = IF i <= Len(clients) THEN clients[i] ELSE cur
      BY <1>t, <1>1, <1>4, SMTT(30)
    <3> QED  BY <3>1 DEF Rng
  <2>3. ASSUME NEW d \in Clients, d # cur PROVE Place(d)'
    <3>1. inbox'[d] = inbox[d]
      BY <1>t, <1>4, <2>3, Zenon
    <3>2. (d = cur') <=> (d = cur)
      BY <1>4, <2>3, BRAssumption, Zenon
    <3>3. d \in Rng(backlog)' <=> d \in Rng(backlog)
      BY <1>1, Zenon DEF Rng
    <3> QED  BY <1>l, <1>1, <1>4, <2>2, <2>3, <3>1, <3>2, <3>3, PlaceFrame, Zenon
  <2>4. \A d \in Clients : d = cur => Place(d)'
    <3>1. cur \notin Rng(backlog)' /\ cur \in Rng(clients)' /\ cur # cur'
      BY <1>1, <1>4, <2>2, Zenon DEF Rng
    <3> QED  BY <1>1, <1>4, <2>1, <3>1, Zenon DEF Place
  <2>5. polled' \subseteq Rng(clients)'
    <3>1. Rng(clients) \subseteq Clients
      BY <1>t DEF Rng
    <3> QED  BY <1>l, <1>1, <2>2, <3>1, Zenon
  <2>6. \A i, j \in 1..Len(backlog') : backlog'[i] = backlog'[j] => i = j
    BY <1>l, <1>1, Zenon
  <2> QED  BY <2>3, <2>4, <2>5, <2>6, Zenon DEF Lists
<1> QED
  BY <1>1, <1>2, <1>3, <1>4, Zenon DEF Handshake

(* A broadcast reaches listed clients only.                                *)
LEMMA ListsSend ==
    ASSUME Control, Lists, NEW job \in Job, NEW msgs \in SUBSET {"START", "END", "ROSTER", "STATE"}, Sending(job, msgs),
           stream' = SendPiece(job), cstate' = Answered(clients[job.to]),
           UNCHANGED <<backlog, clients, cur, inbox>>, polled' \subseteq Rng(clients)
    PROVE  Lists'
<1> USE DEF serverVars, mainVars, clientVars
<1>t. /\ stream \in [Clients -> Seq(Cell)] /\ inbox \in [Clients -> Seq(Word)]
      /\ cstate \in [Clients -> {"away", "CERT", "AUTH", "LOBBY", "GAME", "END", "gone", "reset"}]
      /\ backlog \in Seq(Clients) /\ clients \in Seq(Clients)
  BY ListsTypes, Zenon
<1>l. /\ \A i, j \in 1..Len(backlog) : backlog[i] = backlog[j] => i = j
      /\ polled \subseteq Rng(clients) /\ \A x \in Clients : Place(x)
  BY Zenon DEF Lists
<1>1. clients[job.to] \in Clients /\ clients[job.to] \in Rng(clients)
  BY <1>t DEF Sending, Rng
<1>2. \A d \in Clients : Place(d)'
  BY <1>1, PlaceSend, Zenon DEF SendPiece
<1> QED  BY <1>l, <1>2, ListsKept, Zenon

(* Reading an input takes it off the socket of a listed client.            *)
LEMMA ListsPoll ==
    ASSUME Control, Lists, NEW c \in Clients, Poll(c)
    PROVE  Lists'
<1> USE DEF serverVars, mainVars, clientVars
<1>t. /\ stream \in [Clients -> Seq(Cell)] /\ inbox \in [Clients -> Seq(Word)]
      /\ cstate \in [Clients -> {"away", "CERT", "AUTH", "LOBBY", "GAME", "END", "gone", "reset"}]
      /\ backlog \in Seq(Clients) /\ clients \in Seq(Clients)
  BY ListsTypes, Zenon
<1>l. /\ \A i, j \in 1..Len(backlog) : backlog[i] = backlog[j] => i = j
      /\ polled \subseteq Rng(clients) /\ \A x \in Clients : Place(x)
  BY Zenon DEF Lists
<1>1. c \in Rng(clients) /\ UNCHANGED <<backlog, clients, cur, cstate, stream>> /\ polled' \subseteq polled
      /\ (inbox' = inbox \/ inbox' = [inbox EXCEPT ![c] = Tail(@)])
  BY <1>l, Zenon DEF Poll
<1>2. ASSUME NEW d \in Clients, d # c PROVE Place(d)'
  <2>1. inbox'[d] = inbox[d]
    BY <1>t, <1>1, <1>2, Zenon
  <2>2. d \in Rng(backlog)' <=> d \in Rng(backlog)
    BY <1>1, Zenon DEF Rng
  <2>3. d \in Rng(clients)' <=> d \in Rng(clients)
    BY <1>1, Zenon DEF Rng
  <2> QED  BY <1>l, <1>1, <2>1, <2>2, <2>3, PlaceFrame, Zenon
<1>3. Place(c)'
  <2>1. c \notin Rng(backlog)' /\ c \in Rng(clients)' /\ c # cur'
    <3>1. c \notin Rng(backlog) /\ c # cur
      BY <1>l, <1>1, Zenon DEF Place
    <3> QED  BY <1>1, <3>1, Zenon DEF Rng
  <2>2. cstate'[c] \notin {"away", "CERT", "AUTH"}
    BY <1>l, <1>1, Zenon DEF Place
  <2> QED  BY <2>1, <2>2, Zenon DEF Place
<1> QED  BY <1>l, <1>1, <1>2, <1>3, ListsKept, Zenon

(* A client that connects waits at the end of the backlog, once.           *)
LEMMA ListsConnect ==
    ASSUME Control, Lists, NEW c \in Clients, Connect(c)
    PROVE  Lists'
<1> USE DEF serverVars, mainVars, clientVars
<1>t. /\ stream \in [Clients -> Seq(Cell)] /\ inbox \in [Clients -> Seq(Word)]
      /\ cstate \in [Clients -> {"away", "CERT", "AUTH", "LOBBY", "GAME", "END", "gone", "reset"}]
      /\ backlog \in Seq(Clients) /\ clients \in Seq(Clients)
  BY ListsTypes, Zenon
<1>l. /\ \A i, j \in 1..Len(backlog) : backlog[i] = backlog[j] => i = j
      /\ polled \subseteq Rng(clients) /\ \A x \in Clients : Place(x)
  BY Zenon DEF Lists
<1>1. /\ cstate[c] = "away" /\ cstate' = [cstate EXCEPT ![c] = "CERT"] /\ backlog' = Append(backlog, c)
      /\ UNCHANGED <<clients, cur, inbox, stream, polled>> /\ Place(c)
  BY <1>l, Zenon DEF Connect
<1>2. c \notin Rng(backlog) /\ c \notin Rng(clients) /\ c # cur /\ inbox[c] = <<>>
  BY <1>1, Zenon DEF Place, Gone
<1>3. /\ Len(backlog) \in Nat /\ Len(backlog') = Len(backlog) + 1 /\ DOMAIN backlog' = 1..Len(backlog')
      /\ DOMAIN backlog = 1..Len(backlog)
      /\ \A i \in 1..Len(backlog') : backlog'[i] = IF i <= Len(backlog) THEN backlog[i] ELSE c
  BY <1>t, <1>1
<1>4. \A d \in Clients : d \in Rng(backlog)' <=> d \in Rng(backlog) \/ d = c
  <2>1. Rng(backlog)' = Rng(backlog')
    BY Zenon DEF Rng
  <2>2. \A d : d \in Rng(backlog') <=> d \in Rng(backlog) \/ d = c
    BY <1>t, <1>1, Appended, Zenon
  <2> QED  BY <2>1, <2>2, Zenon
<1>5. \A i, j \in 1..Len(backlog') : backlog'[i] = backlog'[j] => i = j
  <2>1. ASSUME NEW i \in 1..Len(backlog) PROVE backlog[i] # c
    BY <1>2, <1>3, <2>1, Zenon DEF Rng
  <2>2. ASSUME NEW i \in 1..Len(backlog')
        PROVE  \/ i \in 1..Len(backlog) /\ backlog'[i] = backlog[i]
               \/ i = Len(backlog') /\ backlog'[i] = c
    BY <1>3
  <2> QED  BY <1>l, <2>1, <2>2, Zenon
<1>6. ASSUME NEW d \in Clients, d # c PROVE Place(d)'
  <2>1. cstate'[d] = cstate[d]
    BY <1>t, <1>1, <1>6, Zenon
  <2>2. d \in Rng(clients)' <=> d \in Rng(clients)
    BY <1>1, Zenon DEF Rng
  <2> QED  BY <1>l, <1>1, <1>4, <1>6, <2>1, <2>2, PlaceFrame, Zenon
<1>7. Place(c)'
  <2>1. cstate'[c] = "CERT"
    BY <1>t, <1>1, Zenon
  <2> QED  BY <1>1, <1>2, <2>1, Zenon DEF Place, Rng
<1>8. polled' \subseteq Rng(clients)'
  BY <1>l, <1>1, Zenon DEF Rng
<1> QED  BY <1>5, <1>6, <1>7, <1>8, Zenon DEF Lists

(* A client that answers in the handshake is not listed yet.               *)
LEMMA ListsAnswer ==
    ASSUME Control, Lists, NEW c \in Clients, Answer(c)
    PROVE  Lists'
<1> USE DEF serverVars, mainVars, clientVars
<1>t. /\ stream \in [Clients -> Seq(Cell)] /\ inbox \in [Clients -> Seq(Word)]
      /\ cstate \in [Clients -> {"away", "CERT", "AUTH", "LOBBY", "GAME", "END", "gone", "reset"}]
      /\ backlog \in Seq(Clients) /\ clients \in Seq(Clients)
  BY ListsTypes, Zenon
<1>l. /\ \A i, j \in 1..Len(backlog) : backlog[i] = backlog[j] => i = j
      /\ polled \subseteq Rng(clients) /\ \A x \in Clients : Place(x)
  BY Zenon DEF Lists
<1>1. PICK r \in Seq(Cell) :
           /\ stream' = [stream EXCEPT ![c] = r] /\ Len(r) = Len(stream[c]) - FrameLen - Off(c)
           /\ Len(stream[c]) >= FrameLen + Off(c)
           /\ \A i \in 1..Len(r) : r[i] = stream[c][i + FrameLen + Off(c)]
  BY ReadAnswer, Zenon
<1>2. /\ cstate[c] \in {"CERT", "AUTH"} /\ UNCHANGED <<backlog, polled, clients, cur>>
      /\ \/ cstate' = cstate /\ inbox' = inbox
         \/ /\ cstate[c] = "CERT" /\ cstate' = [cstate EXCEPT ![c] = "AUTH"]
            /\ inbox' = [inbox EXCEPT ![c] = Append(@, "AUTH")]
         \/ /\ cstate[c] = "AUTH" /\ cstate' = [cstate EXCEPT ![c] = "LOBBY"]
            /\ inbox' = [inbox EXCEPT ![c] = Append(@, "KEY")]
  BY Zenon DEF Answer
<1>3. ASSUME NEW d \in Clients, d # c PROVE Place(d)'
  <2>1. cstate'[d] = cstate[d] /\ inbox'[d] = inbox[d] /\ stream'[d] = stream[d]
    BY <1>t, <1>1, <1>2, <1>3, Zenon
  <2> QED  BY <1>l, <1>2, <2>1, PlaceFrame, Zenon DEF Rng
<1>4. Place(c) /\ c \notin Rng(clients) /\ Len(stream[c]) \in Nat /\ Off(c) \in {0, 1} /\ FrameLen \in Nat
  <2>1. Place(c) /\ c \notin Rng(clients)
    BY <1>l, <1>2, Zenon DEF Place
  <2>2. Len(stream[c]) \in Nat /\ FrameLen \in Nat
    BY <1>t, BRAssumption DEF FrameLen
  <2> QED  BY <2>1, <2>2, Zenon DEF Off
<1>5. \A i \in 1..Len(stream'[c]) : stream'[c][i] \notin {"START", "APP", "END"}
  <2>1. stream'[c] = r
    BY <1>t, <1>1, Zenon
  <2>2. \A i \in 1..Len(r) : i + FrameLen + Off(c) \in 1..Len(stream[c])
    BY <1>1, <1>4
  <2>3. \A i \in 1..Len(stream[c]) : stream[c][i] \notin {"START", "APP", "END"}
    BY <1>4, Zenon DEF Place
  <2> QED  BY <1>1, <2>1, <2>2, <2>3, Zenon
<1>6. /\ inbox'[c] \in Greetings /\ cstate'[c] \in {"CERT", "AUTH", "LOBBY"}
      /\ cstate'[c] = "CERT" => cstate[c] = "CERT" /\ inbox'[c] = <<>>
      /\ cstate'[c] = "AUTH" => inbox'[c] \in {<<>>, <<"AUTH">>}
  <2>1. cstate[c] = "CERT" => inbox[c] = <<>>
    BY <1>4, Zenon DEF Place
  <2>2. cstate[c] = "AUTH" => inbox[c] \in {<<>>, <<"AUTH">>}
    BY <1>4, Zenon DEF Place
  <2>3. CASE cstate' = cstate /\ inbox' = inbox
    BY <1>2, <1>4, <2>1, <2>2, <2>3, Zenon DEF Greetings
  <2>4. CASE cstate[c] = "CERT" /\ cstate' = [cstate EXCEPT ![c] = "AUTH"] /\ inbox' = [inbox EXCEPT ![c] = Append(@, "AUTH")]
    <3>1. inbox'[c] = <<"AUTH">> /\ cstate'[c] = "AUTH"
      BY <1>t, <2>1, <2>4
    <3> QED  BY <3>1, Zenon DEF Greetings
  <2>5. CASE cstate[c] = "AUTH" /\ cstate' = [cstate EXCEPT ![c] = "LOBBY"] /\ inbox' = [inbox EXCEPT ![c] = Append(@, "KEY")]
    <3>1. inbox'[c] \in {<<"KEY">>, <<"AUTH", "KEY">>} /\ cstate'[c] = "LOBBY"
      <4>1. Append(<<>>, "KEY") = <<"KEY">>
        OBVIOUS
      <4>3. Append(<<"AUTH">>, "KEY") = <<"AUTH", "KEY">>
        <5> DEFINE s == Append(<<"AUTH">>, "KEY")
                   w == <<"AUTH", "KEY">>
        <5>1. <<"AUTH">> \in Seq(Word) /\ "KEY" \in Word /\ "AUTH" \in Word
          BY DEF Word
        <5>2. s \in Seq(Word) /\ Len(s) = 2 /\ s[1] = "AUTH" /\ s[2] = "KEY"
          BY <5>1
        <5>3. w \in Seq(Word) /\ Len(w) = 2 /\ w[1] = "AUTH" /\ w[2] = "KEY"
          BY <5>1
        <5> HIDE DEF s, w
        <5>4. \A i \in 1..Len(s) : s[i] = w[i]
          BY <5>2, <5>3
        <5>5. s = w
          BY <5>2, <5>3, <5>4
        <5> QED  BY <5>5, Zenon DEF s, w
      <4>2. inbox'[c] = Append(inbox[c], "KEY") /\ cstate'[c] = "LOBBY"
        BY <1>t, <2>5, Zenon
      <4> QED  BY <2>2, <2>5, <4>1, <4>2, <4>3, Zenon
    <3> QED  BY <3>1, Zenon DEF Greetings
  <2> QED  BY <1>2, <2>3, <2>4, <2>5, Zenon
<1>7. Place(c)'
  <2>1. c \notin Rng(backlog)
    <3>1. c \in Rng(backlog) => stream[c] = <<>>
      BY <1>4, Zenon DEF Place
    <3>2. stream[c] # <<>>
      BY <1>1, <1>4, BRAssumption DEF FrameLen
    <3> QED  BY <3>1, <3>2, Zenon
  <2>2. c \notin Rng(backlog)' /\ c \notin Rng(clients)'
    BY <1>2, <1>4, <2>1, Zenon DEF Rng
  <2> QED  BY <1>5, <1>6, <2>2, Zenon DEF Place
<1> QED  BY <1>l, <1>2, <1>3, <1>7, ListsKept, Zenon

(* What a client reads before it is listed is no START.                    *)
LEMMA ListsRead ==
    ASSUME Control, Lists, NEW c \in Clients, client_lobby_state(c) \/ client_game_state(c)
    PROVE  Lists'
<1> USE DEF serverVars, mainVars, clientVars
<1>t. /\ stream \in [Clients -> Seq(Cell)] /\ inbox \in [Clients -> Seq(Word)]
      /\ cstate \in [Clients -> {"away", "CERT", "AUTH", "LOBBY", "GAME", "END", "gone", "reset"}]
      /\ backlog \in Seq(Clients) /\ clients \in Seq(Clients)
  BY ListsTypes, Zenon
<1>l. /\ \A i, j \in 1..Len(backlog) : backlog[i] = backlog[j] => i = j
      /\ polled \subseteq Rng(clients) /\ \A x \in Clients : Place(x)
  BY Zenon DEF Lists
<1>1. PICK r \in Seq(Cell) :
           /\ stream' = [stream EXCEPT ![c] = r] /\ Len(r) = Len(stream[c]) - FrameLen
           /\ \A i \in 1..Len(r) : r[i] = stream[c][i + FrameLen]
  BY ReadLobbyGame, Zenon
<1>2. /\ cstate[c] \in {"LOBBY", "GAME"} /\ UNCHANGED <<backlog, polled, clients, cur, inbox>> /\ Readable(c)
      /\ \E x \in {"LOBBY", "GAME", "END"} : cstate' = [cstate EXCEPT ![c] = x]
      /\ cstate[c] = "LOBBY" => cstate' = [cstate EXCEPT ![c] = IF stream[c][3] = "START" THEN "GAME" ELSE @]
  BY Zenon DEF client_lobby_state, client_game_state, ReadType
<1>3. ASSUME NEW d \in Clients, d # c PROVE Place(d)'
  <2>1. cstate'[d] = cstate[d] /\ inbox'[d] = inbox[d] /\ stream'[d] = stream[d]
    BY <1>t, <1>1, <1>2, <1>3, Zenon
  <2> QED  BY <1>l, <1>2, <2>1, PlaceFrame DEF Rng
<1>4. Place(c) /\ Len(stream[c]) \in Nat /\ FrameLen \in Nat /\ FrameLen >= 3
  BY <1>l, <1>t, BRAssumption DEF FrameLen
<1>5. c \notin Rng(backlog) /\ cstate'[c] \in {"LOBBY", "GAME", "END"}
  BY <1>t, <1>2, <1>4, Zenon DEF Place, Gone
<1>6. CASE c \in Rng(clients)
  <2>1. c \notin Rng(backlog)' /\ c \in Rng(clients)' /\ c # cur'
    BY <1>2, <1>4, <1>5, <1>6 DEF Rng, Place
  <2>2. Place(c)'
    BY <1>5, <2>1, Zenon DEF Place
  <2> QED  BY <1>l, <1>2, <1>3, <2>2, ListsKept, Zenon
<1>7. CASE c \notin Rng(clients)
  <2>1. \A i \in 1..Len(stream[c]) : stream[c][i] \notin {"START", "APP", "END"}
    BY <1>4, <1>7, Zenon DEF Place
  <2>2. 3 \in 1..Len(stream[c]) /\ \A i \in 1..Len(r) : i + FrameLen \in 1..Len(stream[c])
    BY <1>1, <1>2, <1>4 DEF Readable
  <2>3. \A i \in 1..Len(stream'[c]) : stream'[c][i] \notin {"START", "APP", "END"}
    BY <1>t, <1>1, <2>1, <2>2, Zenon
  <2>4. cstate[c] = "LOBBY" /\ cstate'[c] = "LOBBY"
    BY <1>t, <1>2, <1>4, <1>7, <2>1, <2>2, Zenon DEF Place
  <2>5. c \notin Rng(backlog)' /\ c \notin Rng(clients)'
    BY <1>2, <1>5, <1>7, Zenon DEF Rng
  <2>6. Place(c)'
    BY <1>2, <1>4, <1>7, <2>3, <2>4, <2>5, Zenon DEF Place
  <2> QED  BY <1>l, <1>2, <1>3, <2>6, ListsKept, Zenon
<1> QED  BY <1>6, <1>7, Zenon

(* Only a listed client is in the match and sends inputs.                  *)
LEMMA ListsInput ==
    ASSUME Control, Lists, NEW c \in Clients, brclient_send_msg(c)
    PROVE  Lists'
<1> USE DEF serverVars, mainVars, clientVars
<1>t. /\ stream \in [Clients -> Seq(Cell)] /\ inbox \in [Clients -> Seq(Word)]
      /\ cstate \in [Clients -> {"away", "CERT", "AUTH", "LOBBY", "GAME", "END", "gone", "reset"}]
      /\ backlog \in Seq(Clients) /\ clients \in Seq(Clients)
  BY ListsTypes, Zenon
<1>l. /\ \A i, j \in 1..Len(backlog) : backlog[i] = backlog[j] => i = j
      /\ polled \subseteq Rng(clients) /\ \A x \in Clients : Place(x)
  BY Zenon DEF Lists
<1>1. /\ cstate[c] = "GAME" /\ UNCHANGED <<backlog, polled, clients, cur, cstate, stream>>
      /\ inbox' = [inbox EXCEPT ![c] = Append(@, inputs[c] + 1)]
  BY Zenon DEF brclient_send_msg
<1>2. ASSUME NEW d \in Clients, d # c PROVE Place(d)'
  BY <1>l, <1>t, <1>1, <1>2, PlaceFrame, Zenon DEF Rng
<1>3. Place(c)'
  BY <1>l, <1>1 DEF Place, Rng, Gone
<1> QED  BY <1>l, <1>1, <1>2, <1>3, ListsKept, Zenon

(* A client that leaves keeps its place.                                   *)
LEMMA ListsLeave ==
    ASSUME Control, Lists, NEW c \in Clients, Leave(c)
    PROVE  Lists'
<1> USE DEF serverVars, mainVars, clientVars
<1>t. /\ stream \in [Clients -> Seq(Cell)] /\ inbox \in [Clients -> Seq(Word)]
      /\ cstate \in [Clients -> {"away", "CERT", "AUTH", "LOBBY", "GAME", "END", "gone", "reset"}]
      /\ backlog \in Seq(Clients) /\ clients \in Seq(Clients)
  BY ListsTypes, Zenon
<1>l. /\ \A i, j \in 1..Len(backlog) : backlog[i] = backlog[j] => i = j
      /\ polled \subseteq Rng(clients) /\ \A x \in Clients : Place(x)
  BY Zenon DEF Lists
<1>1. /\ cstate[c] # "away" /\ UNCHANGED <<backlog, polled, clients, cur, inbox>>
      /\ \E x \in {"gone", "reset"} : cstate' = [cstate EXCEPT ![c] = x]
      /\ stream' = [stream EXCEPT ![c] = <<>>]
  BY Zenon DEF Leave
<1>2. ASSUME NEW d \in Clients, d # c PROVE Place(d)'
  <2>1. cstate'[d] = cstate[d] /\ stream'[d] = stream[d]
    BY <1>t, <1>1, <1>2, Zenon
  <2> QED  BY <1>l, <1>1, <2>1, PlaceFrame, Zenon DEF Rng
<1>3. Place(c)'
  <2>1. cstate'[c] \in {"gone", "reset"} /\ stream'[c] = <<>>
    BY <1>t, <1>1, Zenon
  <2>2. Place(c)
    BY <1>l, Zenon
  <2>3. /\ c \in Rng(backlog)' <=> c \in Rng(backlog)
        /\ c \in Rng(clients)' <=> c \in Rng(clients)
        /\ Gone(c)'
    BY <1>1, <2>1, Zenon DEF Rng, Gone
  <2>4. \A i \in 1..Len(stream'[c]) : stream'[c][i] \notin {"START", "APP", "END"}
    BY <2>1
  <2> QED  BY <1>1, <2>1, <2>2, <2>3, <2>4, Zenon DEF Place
<1> QED  BY <1>l, <1>1, <1>2, <1>3, ListsKept, Zenon

(* Every step keeps every client in its place.  The one that matters is    *)
(* the last of the handshake (server.c:268-297): the server thread lists   *)
(* a client on a KEY, and only a client past AUTH has sent one.            *)
LEMMA ListsStep == Control /\ Lists /\ [BRNext]_brVars => Lists'
<1> SUFFICES ASSUME Control, Lists, [BRNext]_brVars PROVE Lists'
  BY Zenon
<1> USE DEF serverVars, mainVars, clientVars
<1>l. /\ \A i, j \in 1..Len(backlog) : backlog[i] = backlog[j] => i = j
      /\ polled \subseteq Rng(clients) /\ \A x \in Clients : Place(x)
  BY Zenon DEF Lists
<1>1. CASE UNCHANGED <<backlog, polled, clients, cur, cstate, inbox, stream>>
  BY <1>1 DEF Lists, Place, Rng, Gone
<1>5. CASE ServerSend
  <2>1. sjob \in Job /\ Sending(sjob, {"START", "END"}) /\ polled' \subseteq Rng(clients)
    BY <1>5, <1>l, Zenon DEF Control, BRTypeOK, ServerSend, PollSet
  <2> QED  BY ListsSend, <1>5, <2>1, Zenon DEF ServerSend
<1>6. CASE MainSend
  <2>1. mjob \in Job /\ Sending(mjob, {"ROSTER", "STATE"})
    BY <1>6, Zenon DEF Control, BRTypeOK, MainSend
  <2> QED  BY ListsSend, <1>6, <1>l, <2>1, Zenon DEF MainSend
<1>13. CASE \/ EnterLobby \/ LeaveState \/ EnterGame \/ EnterEnd \/ brserver_open \/ brserver_client_info \/ StartOrder
            \/ Push \/ brserver_get_app_msg \/ MatchOver \/ brserver_end \/ Exit \/ UNCHANGED brVars
  BY <1>1, <1>13, Zenon DEF EnterLobby, LeaveState, EnterGame, EnterEnd, brserver_open, brserver_client_info, StartOrder,
                     Push, brserver_get_app_msg, MatchOver, brserver_end, Exit, brVars
<1> QED
  BY ListsAccept, ListsHandshake, <1>5, <1>6, ListsPoll, ListsConnect, ListsAnswer, ListsRead,
     ListsInput, ListsLeave, <1>13, Zenon DEF BRNext, ServerStep, MainStep, ClientRead

(* A client in the handshake is not listed and is sent nothing else, so    *)
(* what it skips there (client.c:354-370) is never its START or its        *)
(* roster, whatever the main thread sends meanwhile.                       *)
THEOREM HandshakeKept == BRSpec => []HandshakePrivate
<1>1. Control /\ Lists => HandshakePrivate
  <2> SUFFICES ASSUME Control, Lists, NEW c \in Clients, cstate[c] \in {"CERT", "AUTH"}
               PROVE  c \notin Rng(clients) /\ Rng(stream[c]) \cap {"START", "APP", "END"} = {}
    BY Zenon DEF HandshakePrivate
  <2>1. Place(c) /\ DOMAIN stream[c] = 1..Len(stream[c])
    BY DEF Lists, Control
  <2>2. c \notin Rng(clients) /\ \A i \in 1..Len(stream[c]) : stream[c][i] \notin {"START", "APP", "END"}
    BY <2>1, Zenon DEF Place
  <2> QED  BY <2>1, <2>2, Zenon DEF Rng
<1> QED  BY ControlInit, ControlStep, ListsInit, ListsStep, <1>1, PTL DEF BRSpec

-----------------------------------------------------------------------------
(* The third layer.                                                        *)

(* The cells a thread has sent of the message to c that it is inside of,   *)
(* and the lengths of whole messages.                                      *)
Sent(job, c) == IF Mid(job, c) THEN job.piece - 1 ELSE 0
Frames == {k * FrameLen : k \in Int}
Whole(len, off, a, b) == len - off - a - b \in Frames

(* Under way to a client are whole messages, the id before them and what   *)
(* the two threads have sent of one more each.                             *)
Framed(c) ==
    /\ Gone(c) => stream[c] = <<>>
    /\ \A i \in 1..Len(stream[c]) : stream[c][i] = "id" => i = 1 /\ cstate[c] = "CERT"
    /\ Gone(c) \/ Whole(Len(stream[c]), Off(c), Sent(sjob, c), Sent(mjob, c))

Framing == \A c \in Clients : Framed(c)

(* Whole messages stay whole when one is added or taken away.              *)
LEMMA FramesRing ==
    /\ Frames \subseteq Int /\ 0 \in Frames /\ FrameLen \in Nat /\ FrameLen >= 4
    /\ \A m \in Frames : m + FrameLen \in Frames /\ m - FrameLen \in Frames
<1>1. FrameLen \in Nat /\ FrameLen >= 4
  BY BRAssumption DEF FrameLen
<1> HIDE DEF FrameLen
<1>2. Frames \subseteq Int
  BY <1>1 DEF Frames
<1>3. 0 = 0 * FrameLen
  BY <1>1
<1>4. ASSUME NEW m \in Frames PROVE m + FrameLen \in Frames /\ m - FrameLen \in Frames
  <2>1. PICK k \in Int : m = k * FrameLen
    BY Zenon DEF Frames
  <2>2. m + FrameLen = (k + 1) * FrameLen /\ m - FrameLen = (k - 1) * FrameLen
    BY <1>1, <2>1
  <2>3. k + 1 \in Int /\ k - 1 \in Int
    OBVIOUS
  <2> QED  BY <2>2, <2>3, Zenon DEF Frames
<1> QED  BY <1>1, <1>2, <1>3, <1>4 DEF Frames

(* What is under way stays whole when its parts move between the terms of  *)
(* the sum, and when a message is added or taken away.                     *)
LEMMA WholeMove ==
    ASSUME NEW len \in Int, NEW off \in Int, NEW a \in Int, NEW b \in Int, Whole(len, off, a, b),
           NEW len2 \in Int, NEW off2 \in Int, NEW a2 \in Int, NEW b2 \in Int,
           \/ len2 - off2 - a2 - b2 = len - off - a - b
           \/ len2 - off2 - a2 - b2 = len - off - a - b + FrameLen
           \/ len2 - off2 - a2 - b2 = len - off - a - b - FrameLen
    PROVE  Whole(len2, off2, a2, b2)
<1> DEFINE m == len - off - a - b
           n == len2 - off2 - a2 - b2
<1>1. m \in Frames /\ (n = m \/ n = m + FrameLen \/ n = m - FrameLen)
  BY Zenon DEF Whole
<1> HIDE DEF m, n
<1>2. n \in Frames
  BY <1>1, FramesRing, Zenon
<1> QED  BY <1>2, Zenon DEF n, Whole

(* The remainder that Realigned speaks of.                                 *)
LEMMA FramesMod ==
    ASSUME NEW m \in Frames, NEW r \in {0, 1}
    PROVE  (m + r) % FrameLen = r
<1>1. FrameLen \in Nat /\ FrameLen >= 4
  BY FramesRing, Zenon
<1>2. PICK k \in Int : m = k * FrameLen
  BY Zenon DEF Frames
<1> HIDE DEF FrameLen
<1> DEFINE x == m + r
           q == x \div FrameLen
           t == x % FrameLen
<1>3. x \in Int /\ q \in Int /\ t \in 0..(FrameLen - 1) /\ x = FrameLen * q + t
  BY <1>1, <1>2
<1>4. FrameLen * (k - q) = t - r
  <2> HIDE DEF q, t
  <2> QED  BY <1>1, <1>2, <1>3
<1> HIDE DEF x, q, t
<1>5. k - q = 0
  <2> DEFINE y == k - q
  <2>1. y \in Int /\ FrameLen * y = t - r
    BY <1>3, <1>4
  <2>2. t - r > -FrameLen /\ t - r < FrameLen
    BY <1>1, <1>3
  <2> HIDE DEF y
  <2>3. ~(y >= 1)
    <3>1. y >= 1 => FrameLen * y >= FrameLen
      BY <1>1, <2>1
    <3> QED  BY <1>1, <1>3, <2>1, <2>2, <3>1
  <2>4. ~(y <= -1)
    <3>1. y <= -1 => FrameLen * y <= -FrameLen
      BY <1>1, <2>1
    <3> QED  BY <1>1, <1>3, <2>1, <2>2, <3>1
  <2> QED  BY <2>1, <2>3, <2>4 DEF y
<1>6. t = r
  BY <1>1, <1>3, <1>4, <1>5
<1> QED  BY <1>6, Zenon DEF t, x

(* What a thread has sent of a message, as a number.                       *)
LEMMA SentRange ==
    ASSUME Control, NEW c \in Clients
    PROVE  Sent(sjob, c) \in 0..3 /\ Sent(mjob, c) \in 0..3 /\ Off(c) \in 0..1 /\ Len(stream[c]) \in Nat
<1>1. sjob.piece \in 0..4 /\ mjob.piece \in 0..4 /\ stream[c] \in Seq(Cell)
  BY Zenon DEF Control, BRTypeOK, Job
<1> QED  BY <1>1 DEF Sent, Mid, Off, HasId

(* The list of clients only grows at its end, so a thread that is inside   *)
(* of a message stays inside of it while the other one lists a client.     *)
LEMMA SentSame ==
    ASSUME Control, UNCHANGED <<sjob, mjob>>, clients' = clients \/ \E x \in Clients : clients' = Append(clients, x),
           NEW c \in Clients
    PROVE  Sent(sjob, c)' = Sent(sjob, c) /\ Sent(mjob, c)' = Sent(mjob, c)
<1>1. clients \in Seq(Clients) /\ Len(clients) \in Nat
  BY DEF Control, BRTypeOK
<1>2. \A i \in 1..Len(clients) : clients'[i] = clients[i]
  BY <1>1
<1>3. sjob.piece > 1 => sjob.to \in 1..Len(clients)
  BY DEF Control, Sending, NoJob
<1>4. mjob.piece > 1 => mjob.to \in 1..Len(clients)
  BY DEF Control, Sending, NoJob
<1> QED  BY <1>2, <1>3, <1>4, Zenon DEF Sent, Mid

(* A client that a step sends nothing to and that reads nothing.           *)
LEMMA FramedFrame ==
    ASSUME NEW d \in Clients, Framed(d), stream'[d] = stream[d], cstate'[d] = cstate[d],
           Sent(sjob, d)' = Sent(sjob, d), Sent(mjob, d)' = Sent(mjob, d)
    PROVE  Framed(d)'
<1>1. Off(d)' = Off(d) /\ (Gone(d)' <=> Gone(d))
  BY Zenon DEF Off, HasId, Gone
<1> QED  BY <1>1, Zenon DEF Framed

(* Writing cells behind what is under way leaves the id where it is.       *)
LEMMA WriteKeepsId ==
    ASSUME NEW s \in Seq(Cell), NEW cells \in Seq(Cell), \A i \in 1..Len(cells) : cells[i] # "id"
    PROVE  /\ Len(s \o cells) = Len(s) + Len(cells)
           /\ \A i \in 1..Len(s \o cells) : (s \o cells)[i] = "id" => i \in 1..Len(s) /\ s[i] = "id"
           /\ HasId(s \o cells) <=> HasId(s)
<1> DEFINE r == s \o cells
<1>1. /\ r \in Seq(Cell) /\ Len(r) = Len(s) + Len(cells) /\ Len(s) \in Nat /\ Len(cells) \in Nat
      /\ \A i \in 1..Len(r) : \/ i \in 1..Len(s) /\ r[i] = s[i]
                              \/ i - Len(s) \in 1..Len(cells) /\ r[i] = cells[i - Len(s)]
  BY ConcatCells, Zenon
<1> HIDE DEF r
<1>2. \A i \in 1..Len(r) : r[i] = "id" => i \in 1..Len(s) /\ s[i] = "id"
  BY <1>1, Zenon
<1>3. (s # <<>> <=> 1 \in 1..Len(s)) /\ (r # <<>> <=> 1 \in 1..Len(r))
  BY <1>1
<1>4. 1 \in 1..Len(s) => 1 \in 1..Len(r)
  BY <1>1
<1>5. 1 \in 1..Len(s) => r[1] = s[1]
  BY <1>1, <1>4
<1>6. HasId(r) <=> HasId(s)
  BY <1>1, <1>2, <1>3, <1>4, <1>5, Zenon DEF HasId
<1> QED  BY <1>1, <1>2, <1>6, Zenon DEF r

(* One send of a broadcast (message.c:149-173), seen from client d: the    *)
(* last of the four sends makes the message whole.  o is what the other    *)
(* thread has sent, which stays as it is.                                  *)
LEMMA FramedSend ==
    ASSUME Control, NEW job \in Job, NEW msgs \in SUBSET {"START", "END", "ROSTER", "STATE"}, Sending(job, msgs),
           stream' = SendPiece(job), cstate' = Answered(clients[job.to]), clients' = clients,
           NEW d \in Clients, NEW o \in 0..3, NEW next, next = NextPiece(job),
           Gone(d) => stream[d] = <<>>,
           \A i \in 1..Len(stream[d]) : stream[d][i] = "id" => i = 1 /\ cstate[d] = "CERT",
           Gone(d) \/ Whole(Len(stream[d]), Off(d), Sent(job, d), o)
    PROVE  /\ Gone(d)' => stream'[d] = <<>>
           /\ \A i \in 1..Len(stream'[d]) : stream'[d][i] = "id" => i = 1 /\ cstate'[d] = "CERT"
           /\ Gone(d)' \/ Whole(Len(stream'[d]), Off(d)', Sent(next, d)', o)
<1> DEFINE c == clients[job.to]
           cells == IF Split THEN Pieces(job.msg)[job.piece] ELSE Frame(job.msg)
<1>1. c \in Clients /\ job.to \in Nat /\ job.piece \in 1..4 /\ job.msg \in Msgs /\ (job.piece > 1 => Split)
  BY SendStep, Zenon DEF Sending, Msgs, Job
<1>2. stream \in [Clients -> Seq(Cell)] /\ DOMAIN cstate = Clients /\ stream[d] \in Seq(Cell)
  BY Zenon DEF Control, BRTypeOK
<1>3. stream' = Write(c, cells)
  BY Zenon DEF SendPiece
<1>4. /\ cells \in Seq(Cell) /\ \A i \in 1..Len(cells) : cells[i] # "id"
      /\ Len(cells) = IF Split THEN (IF job.piece < 4 THEN 1 ELSE Body) ELSE FrameLen
  BY <1>1, PieceShape, FrameShape, Zenon
<1>5. cstate'[d] = cstate[d] \/ (Gone(d) /\ cstate'[d] = "reset")
  BY <1>2, Zenon DEF Answered
<1>6. Gone(d)' <=> Gone(d)
  BY <1>5, Zenon DEF Gone
<1>7. job = [msg |-> job.msg, to |-> job.to, piece |-> job.piece]
  BY Zenon DEF Job
<1>8. next = IF Split /\ job.piece < 4 /\ ~Gone(c) THEN [msg |-> job.msg, to |-> job.to, piece |-> job.piece + 1]
             ELSE IF job.to < Len(clients) THEN [msg |-> job.msg, to |-> job.to + 1, piece |-> 1] ELSE NoJob
  <2>1. CASE Split /\ job.piece < 4 /\ ~Gone(c)
    BY <1>7, <2>1 DEF NextPiece
  <2>2. CASE ~(Split /\ job.piece < 4 /\ ~Gone(c)) /\ job.to < Len(clients)
    <3>1. next = [job EXCEPT !.to = @ + 1, !.piece = 1]
      BY <2>2, Zenon DEF NextPiece
    <3>2. next = [msg |-> job.msg, to |-> job.to + 1, piece |-> 1]
      BY <1>7, <3>1, Zenon
    <3> QED  BY <2>2, <3>2, Zenon
  <2>3. CASE ~(Split /\ job.piece < 4 /\ ~Gone(c)) /\ ~(job.to < Len(clients))
    BY <1>7, <2>3, Zenon DEF NextPiece
  <2> QED  BY <2>1, <2>2, <2>3, Zenon
<1>9. Sent(next, d)' = IF Split /\ job.piece < 4 /\ ~Gone(c) /\ c = d THEN job.piece ELSE 0
  BY <1>1, <1>8 DEF Sent, Mid, NoJob
<1> HIDE DEF cells
<1>10. CASE d # c \/ Gone(d)
  <2>1. stream'[d] = stream[d]
    BY <1>2, <1>3, <1>10, Zenon DEF Write
  <2>2. Off(d)' = Off(d)
    BY <2>1, Zenon DEF Off, HasId
  <2>3. ~Gone(d) => Sent(next, d)' = 0 /\ Sent(job, d) = 0
    BY <1>9, <1>10, Zenon DEF Sent, Mid
  <2>4. ~Gone(d) => cstate'[d] = cstate[d]
    BY <1>5, Zenon
  <2>5. \A i \in 1..Len(stream'[d]) : stream'[d][i] = "id" => i = 1 /\ cstate'[d] = "CERT"
    <3>1. CASE Gone(d)
      BY <2>1, <3>1
    <3>2. CASE ~Gone(d)
      BY <2>1, <2>4, <3>2, Zenon
    <3> QED  BY <3>1, <3>2, Zenon
  <2> QED  BY <1>6, <2>1, <2>2, <2>3, <2>5, Zenon
<1>11. CASE d = c /\ ~Gone(d)
  <2>1. stream'[d] = stream[d] \o cells /\ cstate'[d] = cstate[d]
    BY <1>1, <1>2, <1>3, <1>5, <1>11, Zenon DEF Write
  <2>2. /\ Len(stream'[d]) = Len(stream[d]) + Len(cells)
        /\ \A i \in 1..Len(stream'[d]) : stream'[d][i] = "id" => i \in 1..Len(stream[d]) /\ stream[d][i] = "id"
        /\ HasId(stream'[d]) <=> HasId(stream[d])
    <3>1. stream'[d] \in Seq(Cell)
      BY <1>2, <1>4, <2>1, ConcatCells
    <3> DEFINE old == stream[d]
               new == stream'[d]
    <3>2. old \in Seq(Cell) /\ new \in Seq(Cell) /\ new = old \o cells
      BY <1>2, <2>1, <3>1, Zenon
    <3> HIDE DEF old, new
    <3>3. /\ Len(new) = Len(old) + Len(cells)
          /\ \A i \in 1..Len(new) : new[i] = "id" => i \in 1..Len(old) /\ old[i] = "id"
          /\ HasId(new) <=> HasId(old)
      <4>1. cells \in Seq(Cell) /\ \A i \in 1..Len(cells) : cells[i] # "id"
        BY <1>4, Zenon
      <4> QED  BY <3>2, <4>1, WriteKeepsId
    <3> QED  BY <3>3, Zenon DEF old, new
  <2>3. Off(d)' = Off(d)
    BY <2>2, Zenon DEF Off, HasId
  <2>4. Sent(job, d) = job.piece - 1
    BY <1>1, <1>11 DEF Sent, Mid
  <2>5. PICK l, f, p, n, s : /\ l = Len(stream[d]) /\ f = Off(d) /\ p = Sent(job, d)
                             /\ n = Len(stream'[d]) /\ s = Sent(next, d)'
    BY Zenon
  <2>6. /\ l \in Int /\ f \in Int /\ o \in Int /\ p \in Int /\ Body \in Int /\ FrameLen = 3 + Body
        /\ Whole(l, f, p, o)
    BY <1>1, <1>2, <1>11, <2>4, <2>5, BRAssumption DEF Off, HasId, FrameLen
  <2>7. \/ n = l + 1 /\ s = p + 1
        \/ n = l + Body /\ s = 0 /\ p = 3
        \/ n = l + FrameLen /\ s = 0 /\ p = 0
    <3>0. PICK k : k = job.piece
      BY Zenon
    <3>a. /\ n = l + Len(cells) /\ k \in 1..4 /\ (k > 1 => Split) /\ p = k - 1
          /\ Len(cells) = IF Split THEN (IF k < 4 THEN 1 ELSE Body) ELSE FrameLen
          /\ s = IF Split /\ k < 4 THEN k ELSE 0
      BY <1>1, <1>4, <1>9, <1>11, <2>2, <2>4, <2>5, <3>0, Zenon
    <3>1. CASE Split /\ k < 4
      BY <3>a, <3>1
    <3>2. CASE Split /\ ~(k < 4)
      <4>1. k = 4
        BY <3>a, <3>2
      <4> QED  BY <3>a, <3>2, <4>1
    <3>3. CASE ~Split
      <4>1. k = 1
        BY <3>a, <3>3
      <4> QED  BY <3>a, <3>3, <4>1
    <3> QED  BY <3>1, <3>2, <3>3, Zenon
  <2>8. Whole(n, f, s, o)
    <3>1. CASE n = l + 1 /\ s = p + 1
      BY <2>6, <3>1, WholeMove
    <3>2. CASE n = l + Body /\ s = 0 /\ p = 3
      BY <2>6, <3>2, WholeMove
    <3>3. CASE n = l + FrameLen /\ s = 0 /\ p = 0
      BY <2>6, <3>3, WholeMove
    <3> QED  BY <2>7, <3>1, <3>2, <3>3, Zenon
  <2> QED  BY <1>6, <1>11, <2>1, <2>2, <2>3, <2>5, <2>8, Zenon
<1> QED  BY <1>10, <1>11, Zenon

(* Nothing is under way yet.                                               *)
LEMMA FramingInit == BRInit => Framing
<1> SUFFICES ASSUME BRInit, NEW c \in Clients PROVE Framed(c)
  BY Zenon DEF Framing
<1>1. stream[c] = <<>> /\ ~Gone(c) /\ Off(c) = 0 /\ Sent(sjob, c) = 0 /\ Sent(mjob, c) = 0
  BY DEF BRInit, Gone, Off, HasId, Sent, Mid, NoJob
<1>2. Whole(0, 0, 0, 0)
  BY FramesRing DEF Whole
<1> QED  BY <1>1, <1>2 DEF Framed

(* A client that is not listed gets no part of a broadcast.                *)
LEMMA UnlistedUnsent ==
    ASSUME Control, NEW c \in Clients, c \notin Rng(clients)
    PROVE  Sent(sjob, c) = 0 /\ Sent(mjob, c) = 0
<1>1. DOMAIN clients = 1..Len(clients)
  BY DEF Control, BRTypeOK
<1>2. sjob.piece > 1 => sjob.to \in 1..Len(clients)
  BY DEF Control, Sending, NoJob
<1>3. mjob.piece > 1 => mjob.to \in 1..Len(clients)
  BY DEF Control, Sending, NoJob
<1> QED  BY <1>1, <1>2, <1>3, Zenon DEF Sent, Mid, Rng

(* A whole message written to a client that is not listed.                 *)
LEMMA FramedGreeting ==
    ASSUME Control, NEW c \in Clients, c \notin Rng(clients), Framed(c), ~Gone(c), NEW m \in Msgs,
           stream'[c] = stream[c] \o Frame(m), cstate'[c] = cstate[c],
           Sent(sjob, c)' = Sent(sjob, c), Sent(mjob, c)' = Sent(mjob, c)
    PROVE  Framed(c)'
<1> DEFINE old == stream[c]
           cells == Frame(m)
           len == Len(stream[c])
           off == Off(c)
           len2 == Len(stream'[c])
           off2 == Off(c)'
<1>1. /\ old \in Seq(Cell) /\ cells \in Seq(Cell) /\ Len(cells) = FrameLen
      /\ \A i \in 1..Len(cells) : cells[i] # "id"
  BY FrameShape, Zenon DEF Control
<1>2. Sent(sjob, c) = 0 /\ Sent(mjob, c) = 0
  BY UnlistedUnsent, Zenon
<1>3. ~Gone(c)' /\ len \in Int /\ off \in Int
  BY SentRange DEF Gone
<1>4. Whole(len, off, 0, 0)
  BY <1>2, Zenon DEF Framed
<1> HIDE DEF cells
<1>5. /\ Len(old \o cells) = len + FrameLen
      /\ \A i \in 1..Len(old \o cells) : (old \o cells)[i] = "id" => i \in 1..Len(old) /\ old[i] = "id"
      /\ HasId(old \o cells) <=> HasId(old)
  BY <1>1, WriteKeepsId, Zenon
<1>6. stream'[c] = old \o cells
  BY Zenon DEF cells
<1>7. len2 = len + FrameLen /\ off2 = off
  BY <1>5, <1>6, Zenon DEF Off
<1>8. \A i \in 1..Len(stream'[c]) : stream'[c][i] = "id" => i = 1 /\ cstate'[c] = "CERT"
  BY <1>5, <1>6, Zenon DEF Framed
<1>9. Whole(len2, off2, 0, 0)
  <2> HIDE DEF len, off, len2, off2
  <2>1. FrameLen \in Nat
    BY FramesRing, Zenon
  <2>2. /\ len2 \in Int /\ off2 \in Int /\ 0 \in Int
        /\ len2 - off2 - 0 - 0 = len - off - 0 - 0 + FrameLen
    BY <1>3, <1>7, <2>1
  <2> QED  BY <1>3, <1>4, <2>2, WholeMove, Zenon
<1> QED  BY <1>2, <1>3, <1>8, <1>9, Zenon DEF Framed

(* A client that takes FrameLen cells, and the id if it is there, off the  *)
(* stream leaves whole messages.                                           *)
LEMMA FramedRead ==
    ASSUME Control, NEW c \in Clients, Framed(c), ~Gone(c), ~Gone(c)', NEW r \in Seq(Cell), stream'[c] = r,
           Len(r) = Len(stream[c]) - FrameLen - Off(c),
           \A i \in 1..Len(r) : r[i] = stream[c][i + FrameLen + Off(c)],
           Sent(sjob, c)' = Sent(sjob, c), Sent(mjob, c)' = Sent(mjob, c)
    PROVE  Framed(c)'
<1> DEFINE len == Len(stream[c])
           off == Off(c)
           a == Sent(sjob, c)
           b == Sent(mjob, c)
<1>1. len \in Nat /\ off \in 0..1 /\ a \in 0..3 /\ b \in 0..3
  BY SentRange, Zenon
<1>2. FrameLen \in Nat /\ FrameLen >= 4
  BY FramesRing, Zenon
<1>3. Whole(len, off, a, b) /\ \A i \in 1..len : stream[c][i] = "id" => i = 1
  BY Zenon DEF Framed
<1>4. \A i \in 1..Len(r) : r[i] # "id"
  <2> TAKE i \in 1..Len(r)
  <2>1. i + FrameLen + off \in 1..len /\ i + FrameLen + off # 1
    BY <1>1, <1>2
  <2> QED  BY <1>3, <2>1, Zenon
<1>5. Off(c)' = 0
  BY <1>4 DEF Off, HasId
<1>6. Whole(Len(r), 0, a, b)
  <2> HIDE DEF len, off, a, b
  <2>1. Len(r) = len - FrameLen - off
    BY Zenon DEF len, off
  <2>2. PICK n, l, f, x, y : n = Len(r) /\ l = len /\ f = off /\ x = a /\ y = b
    BY Zenon
  <2>3. l \in Int /\ f \in Int /\ x \in Int /\ y \in Int /\ FrameLen \in Int /\ n = l - FrameLen - f
    BY <1>1, <1>2, <2>1, <2>2
  <2>4. n \in Int /\ n - 0 - x - y = l - f - x - y - FrameLen /\ 0 \in Int
    BY <2>3
  <2>5. Whole(l, f, x, y)
    BY <1>3, <2>2, Zenon
  <2> HIDE <2>2
  <2>6. Whole(n, 0, x, y)
    BY <2>3, <2>4, <2>5, WholeMove
  <2> QED  BY <2>2, <2>6, Zenon
<1> QED  BY <1>4, <1>5, <1>6, Zenon DEF Framed

(* A step that no stream takes part in.                                    *)
LEMMA FramingSame ==
    ASSUME Control, Lists, Framing, UNCHANGED <<cstate, stream>>,
           \A d \in Clients : Sent(sjob, d)' = Sent(sjob, d) /\ Sent(mjob, d)' = Sent(mjob, d)
    PROVE  Framing'
<1> USE DEF serverVars, mainVars, clientVars
<1>l. \A x \in Clients : Place(x) /\ Framed(x)
  BY Zenon DEF Lists, Framing
<1> QED  BY <1>l, FramedFrame, Zenon DEF Framing

(* A new connection gets its id and a whole message.                       *)
LEMMA FramingAccept ==
    ASSUME Control, Lists, Framing, Accept
    PROVE  Framing'
<1> USE DEF serverVars, mainVars, clientVars
<1>t. /\ stream \in [Clients -> Seq(Cell)]
      /\ cstate \in [Clients -> {"away", "CERT", "AUTH", "LOBBY", "GAME", "END", "gone", "reset"}]
      /\ backlog \in Seq(Clients) /\ clients \in Seq(Clients)
  BY Zenon DEF Control, BRTypeOK
<1>l. \A x \in Clients : Place(x) /\ Framed(x)
  BY Zenon DEF Lists, Framing
<1>0. PICK c : c = Head(backlog)
  BY Zenon
<1>1. /\ backlog # <<>> /\ clients' = clients /\ stream' = Write(c, <<"id">> \o Frame("CERT"))
      /\ UNCHANGED <<sjob, mjob, cstate>>
  BY <1>0, Zenon DEF Accept, Listed
<1>2. c \in Clients /\ c \in Rng(backlog)
  BY <1>t, <1>0, <1>1 DEF Rng
<1>3. c \notin Rng(clients) /\ stream[c] = <<>> /\ (cstate[c] = "CERT" \/ Gone(c))
  BY <1>l, <1>2, Zenon DEF Place
<1>4. \A d \in Clients : Sent(sjob, d)' = Sent(sjob, d) /\ Sent(mjob, d)' = Sent(mjob, d)
  BY <1>1, SentSame, Zenon
<1>5. ASSUME NEW d \in Clients, d # c \/ Gone(c) PROVE Framed(d)'
  <2>1. stream'[d] = stream[d]
    BY <1>t, <1>1, <1>5, Zenon DEF Write
  <2> QED  BY <1>l, <1>1, <1>4, <2>1, FramedFrame, Zenon
<1>6. CASE ~Gone(c)
  <2> DEFINE body == Frame("CERT")
             cells == <<"id">> \o body
  <2>1. <<"id">> \in Seq(Cell) /\ Len(<<"id">>) = 1 /\ <<"id">>[1] = "id" /\ \A i \in 1..Len(<<"id">>) : i = 1
    BY DEF Cell
  <2>2. body \in Seq(Cell) /\ Len(body) = FrameLen /\ \A i \in 1..Len(body) : body[i] # "id"
    BY FrameShape, Zenon DEF Msgs
  <2> HIDE DEF body
  <2>3. /\ Len(cells) = 1 + FrameLen /\ cells \in Seq(Cell)
        /\ \A i \in 1..Len(cells) : cells[i] = "id" => i \in 1..Len(<<"id">>)
        /\ HasId(cells) <=> HasId(<<"id">>)
    BY <2>1, <2>2, WriteKeepsId, ConcatCells, Zenon
  <2>4. HasId(<<"id">>)
    BY <2>1, Zenon DEF HasId
  <2>5. stream'[c] = <<>> \o cells
    BY <1>t, <1>1, <1>2, <1>3, <1>6, Zenon DEF Write, body
  <2> HIDE DEF cells
  <2>6. stream'[c] = cells
    BY <2>3, <2>5
  <2>7. Off(c)' = 1 /\ Sent(sjob, c)' = 0 /\ Sent(mjob, c)' = 0
    BY <1>2, <1>3, <1>4, <2>3, <2>4, <2>6, UnlistedUnsent, Zenon DEF Off
  <2>8. Whole(0, 0, 0, 0) /\ FrameLen \in Nat
    BY FramesRing DEF Whole
  <2>9. Whole(1 + FrameLen, 1, 0, 0)
    BY <2>8, WholeMove
  <2>10. cstate'[c] = "CERT" /\ ~Gone(c)'
    BY <1>1, <1>3, <1>6, Zenon DEF Gone
  <2>11. Framed(c)'
    BY <2>1, <2>3, <2>6, <2>7, <2>9, <2>10, Zenon DEF Framed
  <2> QED  BY <1>5, <2>11, Zenon DEF Framing
<1> QED  BY <1>5, <1>6, Zenon DEF Framing

(* The greetings are whole messages, to a client no broadcast goes to.     *)
LEMMA FramingHandshake ==
    ASSUME Control, Lists, Framing, Handshake
    PROVE  Framing'
<1> USE DEF serverVars, mainVars, clientVars
<1>t. /\ stream \in [Clients -> Seq(Cell)]
      /\ cstate \in [Clients -> {"away", "CERT", "AUTH", "LOBBY", "GAME", "END", "gone", "reset"}]
      /\ backlog \in Seq(Clients) /\ clients \in Seq(Clients)
  BY Zenon DEF Control, BRTypeOK
<1>l. \A x \in Clients : Place(x) /\ Framed(x)
  BY Zenon DEF Lists, Framing
<1>0. PICK c : c = cur
  BY Zenon
<1>1. /\ c \in Clients /\ UNCHANGED <<cstate, sjob, mjob>>
      /\ clients' = clients \/ clients' = Append(clients, c)
      /\ stream' = stream \/ stream' = Write(c, Frame("AUTH"))
  BY <1>0, Zenon DEF Handshake, Control, BRTypeOK
<1>2. \A d \in Clients : Sent(sjob, d)' = Sent(sjob, d) /\ Sent(mjob, d)' = Sent(mjob, d)
  BY <1>1, SentSame, Zenon
<1>3. ASSUME NEW d \in Clients, d # c \/ Gone(c) \/ stream' = stream PROVE Framed(d)'
  <2>1. stream'[d] = stream[d]
    BY <1>t, <1>1, <1>3, Zenon DEF Write
  <2> QED  BY <1>l, <1>1, <1>2, <2>1, FramedFrame, Zenon
<1>4. CASE ~Gone(c) /\ stream' = Write(c, Frame("AUTH"))
  <2>1. stream'[c] = stream[c] \o Frame("AUTH") /\ cstate'[c] = cstate[c]
    BY <1>t, <1>1, <1>4, Zenon DEF Write
  <2>2. c \notin Rng(clients)
    BY <1>l, <1>0, <1>1, Zenon DEF Place
  <2>3. "AUTH" \in Msgs
    BY Zenon DEF Msgs
  <2>4. Framed(c)'
    BY <1>l, <1>1, <1>2, <1>4, <2>1, <2>2, <2>3, FramedGreeting, Zenon
  <2> QED  BY <1>3, <2>4, Zenon DEF Framing
<1> QED  BY <1>1, <1>3, <1>4, Zenon DEF Framing

(* One send of the server thread.                                          *)
LEMMA FramingServerSend ==
    ASSUME Control, Lists, Framing, ServerSend
    PROVE  Framing'
<1> USE DEF serverVars, mainVars, clientVars
<1>l. \A x \in Clients : Place(x) /\ Framed(x)
  BY Zenon DEF Lists, Framing
<1>1. /\ sjob \in Job /\ Sending(sjob, {"START", "END"}) /\ UNCHANGED <<clients, mjob>>
      /\ stream' = SendPiece(sjob) /\ cstate' = Answered(clients[sjob.to]) /\ sjob' = NextPiece(sjob)
  BY Zenon DEF Control, BRTypeOK, ServerSend
<1>2. ASSUME NEW d \in Clients PROVE Framed(d)'
  <2>1. Framed(d) /\ Sent(mjob, d)' = Sent(mjob, d) /\ Sent(mjob, d) \in 0..3 /\ Sent(sjob, d) \in 0..3
        /\ Off(d) \in 0..1 /\ Len(stream[d]) \in Nat
    BY <1>l, <1>1, SentRange, Zenon DEF Sent, Mid
  <2>2. PICK job, o, next : job = sjob /\ o = Sent(mjob, d) /\ next = NextPiece(sjob)
    BY Zenon
  <2>3. Gone(d) \/ Whole(Len(stream[d]), Off(d), Sent(job, d), o)
    BY <2>1, <2>2, Zenon DEF Framed
  <2>4. /\ Gone(d) => stream[d] = <<>>
        /\ \A i \in 1..Len(stream[d]) : stream[d][i] = "id" => i = 1 /\ cstate[d] = "CERT"
    BY <2>1, Zenon DEF Framed
  <2>5. /\ job \in Job /\ Sending(job, {"START", "END"}) /\ stream' = SendPiece(job) /\ cstate' = Answered(clients[job.to])
        /\ clients' = clients /\ o \in 0..3 /\ next = NextPiece(job)
    BY <1>1, <2>1, <2>2, Zenon
  <2>6. /\ Gone(d)' => stream'[d] = <<>>
        /\ \A i \in 1..Len(stream'[d]) : stream'[d][i] = "id" => i = 1 /\ cstate'[d] = "CERT"
        /\ Gone(d)' \/ Whole(Len(stream'[d]), Off(d)', Sent(next, d)', o)
    <3>1. {"START", "END"} \in SUBSET {"START", "END", "ROSTER", "STATE"}
      BY Zenon
    <3> QED  BY <2>3, <2>4, <2>5, <3>1, FramedSend, Zenon
  <2>7. Sent(sjob, d)' = Sent(next, d)' /\ Sent(mjob, d)' = o
    BY <1>1, <2>1, <2>2, Zenon DEF Sent, Mid
  <2> QED  BY <2>6, <2>7, Zenon DEF Framed
<1> QED  BY <1>2, Zenon DEF Framing

(* One send of the main thread, while the server thread may be inside of   *)
(* a message to the same client.                                           *)
LEMMA FramingMainSend ==
    ASSUME Control, Lists, Framing, [BRNext]_brVars, MainSend
    PROVE  Framing'
<1> USE DEF serverVars, mainVars, clientVars
<1>l. \A x \in Clients : Place(x) /\ Framed(x)
  BY Zenon DEF Lists, Framing
<1>1. /\ mjob \in Job /\ Sending(mjob, {"ROSTER", "STATE"}) /\ UNCHANGED <<clients, sjob>>
      /\ stream' = SendPiece(mjob) /\ cstate' = Answered(clients[mjob.to]) /\ mjob' = NextPiece(mjob)
  BY Zenon DEF Control, BRTypeOK, MainSend
<1>2. ASSUME NEW d \in Clients PROVE Framed(d)'
  <2>1. Framed(d) /\ Sent(sjob, d)' = Sent(sjob, d) /\ Sent(sjob, d) \in 0..3 /\ Sent(mjob, d) \in 0..3
        /\ Off(d) \in 0..1 /\ Len(stream[d]) \in Nat
    BY <1>l, <1>1, SentRange, Zenon DEF Sent, Mid
  <2>2. PICK job, o, next : job = mjob /\ o = Sent(sjob, d) /\ next = NextPiece(mjob)
    BY Zenon
  <2>3. Gone(d) \/ Whole(Len(stream[d]), Off(d), Sent(job, d), o)
    <3>1. Gone(d) \/ Whole(Len(stream[d]), Off(d), o, Sent(job, d))
      BY <2>1, <2>2, Zenon DEF Framed
    <3>2. Len(stream[d]) \in Int /\ Off(d) \in Int /\ o \in Int /\ Sent(job, d) \in Int
      BY <2>1, <2>2
    <3> QED  BY <3>1, <3>2, WholeMove
  <2>4. /\ Gone(d) => stream[d] = <<>>
        /\ \A i \in 1..Len(stream[d]) : stream[d][i] = "id" => i = 1 /\ cstate[d] = "CERT"
    BY <2>1, Zenon DEF Framed
  <2>5. /\ job \in Job /\ Sending(job, {"ROSTER", "STATE"}) /\ stream' = SendPiece(job) /\ cstate' = Answered(clients[job.to])
        /\ clients' = clients /\ o \in 0..3 /\ next = NextPiece(job)
    BY <1>1, <2>1, <2>2, Zenon
  <2>6. /\ Gone(d)' => stream'[d] = <<>>
        /\ \A i \in 1..Len(stream'[d]) : stream'[d][i] = "id" => i = 1 /\ cstate'[d] = "CERT"
        /\ Gone(d)' \/ Whole(Len(stream'[d]), Off(d)', Sent(next, d)', o)
    <3>1. {"ROSTER", "STATE"} \in SUBSET {"START", "END", "ROSTER", "STATE"}
      BY Zenon
    <3> QED  BY <2>3, <2>4, <2>5, <3>1, FramedSend, Zenon
  <2>7. Sent(mjob, d)' = Sent(next, d)' /\ Sent(sjob, d)' = o
    BY <1>1, <2>1, <2>2, Zenon DEF Sent, Mid
  <2>8. Off(d)' \in Int /\ Len(stream'[d]) \in Int /\ Sent(mjob, d)' \in Int
    <3>1. Control'
      BY ControlStep, Zenon
    <3>2. mjob'.piece \in 0..4 /\ stream'[d] \in Seq(Cell)
      BY <3>1, Zenon DEF Control, BRTypeOK, Job
    <3> QED  BY <3>2 DEF Off, Sent, Mid
  <2>9. PICK len, off, s : len = Len(stream'[d]) /\ off = Off(d)' /\ s = Sent(mjob, d)'
    BY Zenon
  <2>10. Gone(d)' \/ Whole(len, off, o, s)
    <3>1. len \in Int /\ off \in Int /\ s \in Int /\ o \in Int
      BY <2>5, <2>8, <2>9
    <3>2. CASE ~Gone(d)'
      <4>1. Whole(len, off, s, o)
        BY <2>6, <2>7, <2>9, <3>2, Zenon
      <4>2. len - off - o - s = len - off - s - o
        BY <3>1
      <4> QED  BY <3>1, <4>1, <4>2, WholeMove
    <3> QED  BY <3>2, Zenon
  <2> QED  BY <2>6, <2>7, <2>9, <2>10, Zenon DEF Framed
<1> QED  BY <1>2, Zenon DEF Framing

(* Nothing is under way to a client that connects.                         *)
LEMMA FramingConnect ==
    ASSUME Control, Lists, Framing, NEW c \in Clients, Connect(c)
    PROVE  Framing'
<1> USE DEF serverVars, mainVars, clientVars
<1>t. /\ stream \in [Clients -> Seq(Cell)]
      /\ cstate \in [Clients -> {"away", "CERT", "AUTH", "LOBBY", "GAME", "END", "gone", "reset"}]
      /\ backlog \in Seq(Clients) /\ clients \in Seq(Clients)
  BY Zenon DEF Control, BRTypeOK
<1>l. \A x \in Clients : Place(x) /\ Framed(x)
  BY Zenon DEF Lists, Framing
<1>1. /\ cstate[c] = "away" /\ cstate' = [cstate EXCEPT ![c] = "CERT"] /\ UNCHANGED <<clients, sjob, mjob, stream>>
  BY Zenon DEF Connect
<1>2. \A d \in Clients : Sent(sjob, d)' = Sent(sjob, d) /\ Sent(mjob, d)' = Sent(mjob, d)
  BY <1>1, SentSame, Zenon
<1>3. ASSUME NEW d \in Clients, d # c PROVE Framed(d)'
  <2>1. cstate'[d] = cstate[d]
    BY <1>t, <1>1, <1>3, Zenon
  <2> QED  BY <1>l, <1>1, <1>2, <2>1, FramedFrame, Zenon
<1>4. Framed(c)'
  <2>1. stream[c] = <<>> /\ ~Gone(c) /\ Framed(c)
    BY <1>l, <1>1, Zenon DEF Place, Gone
  <2>2. ~Gone(c)' /\ Off(c)' = Off(c)
    BY <1>t, <1>1, Zenon DEF Gone, Off
  <2>3. Whole(Len(stream[c]), Off(c), Sent(sjob, c), Sent(mjob, c))
    BY <2>1, Zenon DEF Framed
  <2>4. \A i \in 1..Len(stream'[c]) : FALSE
    BY <1>1, <2>1
  <2> QED  BY <1>1, <1>2, <2>2, <2>3, <2>4, Zenon DEF Framed
<1> QED  BY <1>3, <1>4, Zenon DEF Framing

(* A client reads one message off its stream.                              *)
LEMMA FramingRead ==
    ASSUME Control, Lists, Framing, NEW c \in Clients, NEW r \in Seq(Cell),
           stream' = [stream EXCEPT ![c] = r], ~Gone(c), ~Gone(c)',
           Len(r) = Len(stream[c]) - FrameLen - Off(c), \A i \in 1..Len(r) : r[i] = stream[c][i + FrameLen + Off(c)],
           \A d \in Clients : d # c => cstate'[d] = cstate[d], UNCHANGED <<clients, sjob, mjob>>
    PROVE  Framing'
<1> USE DEF serverVars, mainVars, clientVars
<1>t. /\ stream \in [Clients -> Seq(Cell)]
      /\ cstate \in [Clients -> {"away", "CERT", "AUTH", "LOBBY", "GAME", "END", "gone", "reset"}]
      /\ backlog \in Seq(Clients) /\ clients \in Seq(Clients)
  BY Zenon DEF Control, BRTypeOK
<1>l. \A x \in Clients : Place(x) /\ Framed(x)
  BY Zenon DEF Lists, Framing
<1>1. \A d \in Clients : Sent(sjob, d)' = Sent(sjob, d) /\ Sent(mjob, d)' = Sent(mjob, d)
  BY SentSame, Zenon
<1>2. ASSUME NEW d \in Clients, d # c PROVE Framed(d)'
  <2>1. stream'[d] = stream[d]
    BY <1>t, <1>2, Zenon
  <2> QED  BY <1>l, <1>1, <1>2, <2>1, FramedFrame, Zenon
<1>3. Framed(c)'
  <2>1. stream'[c] = r /\ Framed(c)
    BY <1>t, <1>l, Zenon
  <2> QED  BY <1>1, <2>1, FramedRead, Zenon
<1> QED  BY <1>2, <1>3, Zenon DEF Framing

(* A client in the handshake skips the id and reads one message.           *)
LEMMA FramingAnswer ==
    ASSUME Control, Lists, Framing, NEW c \in Clients, Answer(c)
    PROVE  Framing'
<1> USE DEF serverVars, mainVars, clientVars
<1>t. /\ stream \in [Clients -> Seq(Cell)]
      /\ cstate \in [Clients -> {"away", "CERT", "AUTH", "LOBBY", "GAME", "END", "gone", "reset"}]
      /\ backlog \in Seq(Clients) /\ clients \in Seq(Clients)
  BY Zenon DEF Control, BRTypeOK
<1>1. PICK r \in Seq(Cell) :
           /\ stream' = [stream EXCEPT ![c] = r] /\ Len(r) = Len(stream[c]) - FrameLen - Off(c)
           /\ Len(stream[c]) >= FrameLen + Off(c)
           /\ \A i \in 1..Len(r) : r[i] = stream[c][i + FrameLen + Off(c)]
  BY ReadAnswer, Zenon
<1>2. /\ cstate[c] \in {"CERT", "AUTH"} /\ UNCHANGED <<clients, sjob, mjob>>
      /\ cstate' = cstate \/ \E x \in {"AUTH", "LOBBY"} : cstate' = [cstate EXCEPT ![c] = x]
  BY Zenon DEF Answer
<1>3. ~Gone(c) /\ ~Gone(c)' /\ \A d \in Clients : d # c => cstate'[d] = cstate[d]
  BY <1>t, <1>2, Zenon DEF Gone
<1> QED  BY FramingRead, <1>1, <1>2, <1>3, Zenon

(* A client in the lobby or in the match reads one message.                *)
LEMMA FramingMatch ==
    ASSUME Control, Lists, Framing, NEW c \in Clients, client_lobby_state(c) \/ client_game_state(c)
    PROVE  Framing'
<1> USE DEF serverVars, mainVars, clientVars
<1>t. /\ stream \in [Clients -> Seq(Cell)]
      /\ cstate \in [Clients -> {"away", "CERT", "AUTH", "LOBBY", "GAME", "END", "gone", "reset"}]
      /\ backlog \in Seq(Clients) /\ clients \in Seq(Clients)
  BY Zenon DEF Control, BRTypeOK
<1>l. \A x \in Clients : Place(x) /\ Framed(x)
  BY Zenon DEF Lists, Framing
<1>1. PICK r \in Seq(Cell) :
           /\ stream' = [stream EXCEPT ![c] = r] /\ Len(r) = Len(stream[c]) - FrameLen
           /\ \A i \in 1..Len(r) : r[i] = stream[c][i + FrameLen]
  BY ReadLobbyGame, Zenon
<1>2. /\ cstate[c] \in {"LOBBY", "GAME"} /\ UNCHANGED <<clients, sjob, mjob>>
      /\ \E x \in {"LOBBY", "GAME", "END"} : cstate' = [cstate EXCEPT ![c] = x]
  BY <1>t, Zenon DEF client_lobby_state, client_game_state
<1>3. ~Gone(c) /\ ~Gone(c)' /\ \A d \in Clients : d # c => cstate'[d] = cstate[d]
  BY <1>t, <1>2, Zenon DEF Gone
<1>4. Off(c) = 0
  <2>1. \A i \in 1..Len(stream[c]) : stream[c][i] # "id"
    BY <1>l, <1>2, Zenon DEF Framed
  <2> QED  BY <1>t, <2>1 DEF Off, HasId
<1>5. Len(stream[c]) \in Nat /\ FrameLen \in Nat
  BY <1>t, FramesRing
<1>6. Len(r) = Len(stream[c]) - FrameLen - Off(c) /\ \A i \in 1..Len(r) : r[i] = stream[c][i + FrameLen + Off(c)]
  <2>1. \A i \in 1..Len(r) : i + FrameLen + 0 = i + FrameLen
    BY <1>5
  <2>2. Len(r) = Len(stream[c]) - FrameLen - 0
    BY <1>1, <1>5
  <2> QED  BY <1>1, <1>4, <2>1, <2>2, Zenon
<1> QED  BY FramingRead, <1>1, <1>2, <1>3, <1>6, Zenon

(* A client that leaves drops what was under way to it.                    *)
LEMMA FramingLeave ==
    ASSUME Control, Lists, Framing, NEW c \in Clients, Leave(c)
    PROVE  Framing'
<1> USE DEF serverVars, mainVars, clientVars
<1>t. /\ stream \in [Clients -> Seq(Cell)]
      /\ cstate \in [Clients -> {"away", "CERT", "AUTH", "LOBBY", "GAME", "END", "gone", "reset"}]
      /\ backlog \in Seq(Clients) /\ clients \in Seq(Clients)
  BY Zenon DEF Control, BRTypeOK
<1>l. \A x \in Clients : Place(x) /\ Framed(x)
  BY Zenon DEF Lists, Framing
<1>1. /\ UNCHANGED <<clients, sjob, mjob>> /\ stream' = [stream EXCEPT ![c] = <<>>]
      /\ \E x \in {"gone", "reset"} : cstate' = [cstate EXCEPT ![c] = x]
  BY Zenon DEF Leave
<1>2. \A d \in Clients : Sent(sjob, d)' = Sent(sjob, d) /\ Sent(mjob, d)' = Sent(mjob, d)
  BY <1>1, SentSame, Zenon
<1>3. ASSUME NEW d \in Clients, d # c PROVE Framed(d)'
  <2>1. cstate'[d] = cstate[d] /\ stream'[d] = stream[d]
    BY <1>t, <1>1, <1>3, Zenon
  <2> QED  BY <1>l, <1>2, <2>1, FramedFrame, Zenon
<1>4. stream'[c] = <<>> /\ Gone(c)'
  BY <1>t, <1>1, Zenon DEF Gone
<1>5. Framed(c)'
  BY <1>4 DEF Framed
<1> QED  BY <1>3, <1>5, Zenon DEF Framing

(* Every step keeps the stream of every client in whole messages, but for  *)
(* those the two threads are inside of.                                    *)
LEMMA FramingStep == Control /\ Lists /\ Framing /\ [BRNext]_brVars => Framing'
<1> SUFFICES ASSUME Control, Lists, Framing, [BRNext]_brVars PROVE Framing'
  BY Zenon
<1> USE DEF serverVars, mainVars, clientVars
<1>12. CASE EnterGame \/ EnterEnd
  <2>1. /\ UNCHANGED <<cstate, stream, clients, mjob>> /\ sjob = NoJob
        /\ sjob' = sjob \/ sjob' = Broadcast("START") \/ sjob' = Broadcast("END")
    BY <1>12, Zenon DEF EnterGame, EnterEnd, Control
  <2>2. \A d \in Clients : Sent(sjob, d)' = Sent(sjob, d) /\ Sent(mjob, d)' = Sent(mjob, d)
    BY <2>1 DEF Sent, Mid, NoJob, Broadcast
  <2> QED  BY FramingSame, <2>1, <2>2, Zenon
<1>13. CASE StartOrder \/ Push \/ MatchOver
  <2>1. /\ UNCHANGED <<cstate, stream, clients, sjob>> /\ mjob = NoJob
        /\ mjob' = mjob \/ mjob' = Broadcast("ROSTER") \/ mjob' = Broadcast("STATE")
    BY <1>13, Zenon DEF StartOrder, Push, MatchOver, Control
  <2>2. \A d \in Clients : Sent(sjob, d)' = Sent(sjob, d) /\ Sent(mjob, d)' = Sent(mjob, d)
    BY <2>1 DEF Sent, Mid, NoJob, Broadcast
  <2> QED  BY FramingSame, <2>1, <2>2, Zenon
<1>14. CASE UNCHANGED <<cstate, stream, clients, sjob, mjob>>
  BY FramingSame, <1>14, SentSame, Zenon
<1>15. CASE \/ EnterLobby \/ LeaveState \/ (\E c \in Clients : Poll(c)) \/ brserver_open \/ brserver_client_info
            \/ brserver_get_app_msg \/ brserver_end \/ Exit \/ (\E c \in Clients : brclient_send_msg(c)) \/ UNCHANGED brVars
  BY <1>14, <1>15, Zenon DEF EnterLobby, LeaveState, Poll, brserver_open, brserver_client_info, brserver_get_app_msg,
                      brserver_end, Exit, brclient_send_msg, brVars
<1> QED
  BY FramingAccept, FramingHandshake, FramingServerSend, FramingMainSend, FramingConnect, FramingAnswer,
     FramingMatch, FramingLeave, <1>12, <1>13, <1>15, Zenon DEF BRNext, ServerStep, MainStep, ClientRead

(* Two sends that mix on a connection (message.c:149-173, by two threads   *)
(* without a lock) garble no more than their own two messages: between     *)
(* them a client always finds the start of one where it reads on.          *)
THEOREM StreamsRealign == BRSpec => []Realigned
<1>1. Control /\ Framing => Realigned
  <2> SUFFICES ASSUME Control, Framing, NEW c \in Clients, ~Gone(c), ~Mid(sjob, c), ~Mid(mjob, c)
               PROVE  \/ Len(stream[c]) % FrameLen = 0
                      \/ (Head(stream[c]) = "id" /\ Len(stream[c]) % FrameLen = 1)
    BY Zenon DEF Realigned
  <2>1. Sent(sjob, c) = 0 /\ Sent(mjob, c) = 0 /\ Off(c) \in {0, 1} /\ Len(stream[c]) \in Nat
    BY SentRange, Zenon DEF Sent, Off
  <2>2. Len(stream[c]) - Off(c) - 0 - 0 \in Frames
    BY <2>1, Zenon DEF Framing, Framed, Whole
  <2>3. Off(c) = 1 => Head(stream[c]) = "id"
    BY DEF Off, HasId, Control
  <2> DEFINE len == Len(stream[c])
             off == Off(c)
             whole == len - off - 0 - 0
  <2>4. (whole + off) % FrameLen = off
    BY <2>1, <2>2, FramesMod, Zenon
  <2>5. whole + off = len
    <3> HIDE DEF len, off
    <3>1. len \in Nat /\ off \in {0, 1}
      BY <2>1, Zenon DEF len, off
    <3> QED  BY <3>1
  <2>6. len % FrameLen = off
    <3> HIDE DEF len, off, whole
    <3> QED  BY <2>4, <2>5, Zenon
  <2> QED  BY <2>1, <2>3, <2>6, Zenon
<1> QED  BY ControlInit, ControlStep, ListsInit, ListsStep, FramingInit, FramingStep, <1>1, PTL DEF BRSpec

-----------------------------------------------------------------------------
(* The fourth layer.                                                       *)

(* Of any two inputs of a client the earlier one is smaller, wherever they *)
(* are: applied, in the queue (from front on or before it) or in the       *)
(* client's socket.                                                        *)
Rising(s) == \A i, j \in 1..Len(s) : i < j /\ s[i].from = s[j].from => s[i].input < s[j].input

Before(act) ==
    /\ act.from \in Rng(clients) /\ act.input \in Nat /\ act.input <= inputs[act.from]
    /\ \A j \in 1..Len(inbox[act.from]) : act.input < inbox[act.from][j]

Socket(c) ==
    /\ inbox[c] \in Seq(Nat)
    /\ \A i, j \in 1..Len(inbox[c]) : i < j => inbox[c][i] < inbox[c][j]
    /\ \A i \in 1..Len(inbox[c]) : inbox[c][i] <= inputs[c]

Order ==
    /\ \A c \in Rng(clients) : Socket(c)
    /\ Rising(taken) /\ Rising(messages.items)
    /\ \A i \in 1..Len(taken) : Before(taken[i])
    /\ \A i \in 1..Len(messages.items) : Before(messages.items[i])
    /\ \A i \in 1..Len(taken), j \in (messages.taken + 1)..Len(messages.items) :
         taken[i].from = messages.items[j].from => taken[i].input < messages.items[j].input

(* A queue or a match that takes on an action which is later than all of   *)
(* its player's keeps them in order.                                       *)
LEMMA RisingAppend ==
    ASSUME NEW s \in Seq(Action), Rising(s), NEW v \in Action,
           \A i \in 1..Len(s) : s[i].from = v.from => s[i].input < v.input
    PROVE  Rising(Append(s, v))
<1> DEFINE t == Append(s, v)
<1>1. /\ Len(s) \in Nat /\ Len(t) = Len(s) + 1
      /\ \A i \in 1..Len(t) : t[i] = IF i <= Len(s) THEN s[i] ELSE v
  OBVIOUS
<1> HIDE DEF t
<1>2. ASSUME NEW i \in 1..Len(t), NEW j \in 1..Len(t), i < j, t[i].from = t[j].from
      PROVE  t[i].input < t[j].input
  <2>1. i \in 1..Len(s) /\ t[i] = s[i]
    BY <1>1, <1>2
  <2>2. CASE j \in 1..Len(s)
    BY <1>1, <1>2, <2>1, <2>2, Zenon DEF Rising
  <2>3. CASE j \notin 1..Len(s)
    BY <1>1, <1>2, <2>1, <2>3
  <2> QED  BY <2>2, <2>3, Zenon
<1>3. Rising(t)
  BY <1>2, Zenon DEF Rising
<1> QED  BY <1>3, Zenon DEF t

(* No one has sent an input yet.                                           *)
LEMMA OrderInit == BRInit => Order
BY DEF BRInit, Order, Rng, Rising, q_init

(* The shapes of what an input passes through.                             *)
LEMMA OrderTypes ==
    ASSUME Control
    PROVE  /\ inbox \in [Clients -> Seq(Word)] /\ inputs \in [Clients -> Nat] /\ clients \in Seq(Clients)
           /\ messages \in Queue(Action) /\ taken \in Seq(Action)
           /\ messages.items \in Seq(Action) /\ messages.taken \in Nat
           /\ Rng(clients) \subseteq Clients
<1>1. messages \in Queue(Action) /\ clients \in Seq(Clients)
  BY Zenon DEF Control, BRTypeOK
<1>2. messages.items \in Seq(Action) /\ messages.taken \in Nat
  BY <1>1, Zenon DEF Queue
<1>3. Rng(clients) \subseteq Clients
  BY <1>1 DEF Rng
<1> QED  BY <1>1, <1>2, <1>3, Zenon DEF Control, BRTypeOK

(* A step that no input takes part in.                                     *)
LEMMA OrderSame ==
    ASSUME Order, UNCHANGED <<clients, inbox, messages, taken, inputs>>
    PROVE  Order'
BY Zenon DEF Order, Socket, Before, Rng

(* A step of the handshake, which is about a client not yet listed.        *)
LEMMA OrderUnlisted ==
    ASSUME Control, Lists, Order, NEW c \in Clients, c \notin Rng(clients), \A d \in Clients : d # c => inbox'[d] = inbox[d],
           UNCHANGED <<messages, taken, inputs>>,
           clients' = clients \/ (clients' = Append(clients, c) /\ inbox'[c] = <<>>)
    PROVE  Order'
<1> USE DEF serverVars, mainVars, clientVars
<1> DEFINE items == messages.items
<1>t. /\ inbox \in [Clients -> Seq(Word)] /\ inputs \in [Clients -> Nat] /\ clients \in Seq(Clients)
      /\ messages \in Queue(Action) /\ taken \in Seq(Action) /\ items \in Seq(Action) /\ messages.taken \in Nat
      /\ Rng(clients) \subseteq Clients
  BY OrderTypes, Zenon
<1>o. /\ \A x \in Rng(clients) : Socket(x)
      /\ Rising(taken) /\ Rising(items)
      /\ \A i \in 1..Len(taken) : Before(taken[i])
      /\ \A i \in 1..Len(items) : Before(items[i])
      /\ \A i \in 1..Len(taken), j \in (messages.taken + 1)..Len(items) :
           taken[i].from = items[j].from => taken[i].input < items[j].input
  BY Zenon DEF Order
<1>1. /\ Rng(clients) \subseteq Rng(clients') /\ \A d \in Rng(clients') : d # c => d \in Rng(clients)
      /\ c \in Rng(clients') => inbox'[c] = <<>>
  <2>1. CASE clients' = clients
    BY <2>1, Zenon
  <2>2. CASE clients' = Append(clients, c) /\ inbox'[c] = <<>>
    <3>1. /\ Len(clients) \in Nat /\ Len(clients') = Len(clients) + 1 /\ DOMAIN clients' = 1..Len(clients')
          /\ DOMAIN clients = 1..Len(clients)
          /\ \A i \in 1..Len(clients') : clients'[i] = IF i <= Len(clients) THEN clients[i] ELSE c
      BY <1>t, <2>2
    <3>2. Rng(clients) \subseteq Rng(clients')
      BY <3>1 DEF Rng
    <3>3. \A d \in Rng(clients') : d # c => d \in Rng(clients)
      BY <3>1 DEF Rng
    <3> QED  BY <2>2, <3>2, <3>3, Zenon
  <2> QED  BY <2>1, <2>2, Zenon
<1>2. \A act : Before(act) => Before(act)'
  <2> SUFFICES ASSUME NEW act, Before(act) PROVE Before(act)'
    BY Zenon
  <2>1. act.from \in Rng(clients) /\ act.from # c /\ inbox'[act.from] = inbox[act.from]
    BY <1>t, Zenon DEF Before
  <2> QED  BY <1>1, <2>1, Zenon DEF Before, Rng
<1>3. ASSUME NEW d \in Rng(clients') PROVE Socket(d)'
  <2>1. CASE d = c
    <3>1. inbox'[d] = <<>> /\ <<>> \in Seq(Nat) /\ Len(<<>>) = 0
      BY <1>1, <1>3, <2>1
    <3>2. \A i \in 1..Len(inbox'[d]) : FALSE
      BY <3>1
    <3> QED  BY <3>1, <3>2, Zenon DEF Socket
  <2>2. CASE d # c
    <3>1. d \in Rng(clients) /\ inbox'[d] = inbox[d] /\ Socket(d)
      BY <1>o, <1>t, <1>1, <1>3, <2>2, Zenon
    <3> QED  BY <3>1, Zenon DEF Socket
  <2> QED  BY <2>1, <2>2, Zenon
<1>4. \A d \in Rng(clients)' : Socket(d)'
  BY <1>3, Zenon DEF Rng
<1>5. /\ \A i \in 1..Len(taken) : Before(taken[i])'
      /\ \A i \in 1..Len(items) : Before(items[i])'
  <2>1. \A i \in 1..Len(taken) : \A act : act = taken[i] => Before(act)'
    BY <1>o, <1>2, Zenon
  <2>2. \A i \in 1..Len(items) : \A act : act = items[i] => Before(act)'
    BY <1>o, <1>2, Zenon
  <2> QED  BY <2>1, <2>2, Zenon DEF Before
<1> QED  BY <1>o, <1>4, <1>5, Zenon DEF Order

(* The server thread reads an answer of the handshake.                     *)
LEMMA OrderHandshake ==
    ASSUME Control, Lists, Order, Handshake
    PROVE  Order'
<1> USE DEF serverVars, mainVars, clientVars
<1> DEFINE items == messages.items
<1>t. /\ inbox \in [Clients -> Seq(Word)] /\ inputs \in [Clients -> Nat] /\ clients \in Seq(Clients)
      /\ messages \in Queue(Action) /\ taken \in Seq(Action) /\ items \in Seq(Action) /\ messages.taken \in Nat
      /\ Rng(clients) \subseteq Clients
  BY OrderTypes, Zenon
<1>0. PICK c : c = cur
  BY Zenon
<1>1. /\ c \in Clients /\ Place(c) /\ c \notin Rng(clients) /\ UNCHANGED <<messages, taken, inputs>>
      /\ inbox' = inbox \/ inbox' = [inbox EXCEPT ![c] = Tail(@)]
      /\ clients' = clients \/ (clients' = Append(clients, c) /\ inbox[c] # <<>> /\ Head(inbox[c]) = "KEY"
                                /\ inbox' = [inbox EXCEPT ![c] = Tail(@)])
  BY <1>0, Zenon DEF Handshake, Control, BRTypeOK, Lists, Place
<1>2. \A d \in Clients : d # c => inbox'[d] = inbox[d]
  BY <1>t, <1>1, Zenon
<1>3. inbox[c] \in Greetings
  BY <1>1, Zenon DEF Place
<1>4. inbox[c] # <<>> /\ Head(inbox[c]) = "KEY" => inbox[c] = <<"KEY">>
  BY <1>3 DEF Greetings
<1>5. clients' = clients \/ (clients' = Append(clients, c) /\ inbox'[c] = <<>>)
  <2>1. Tail(<<"KEY">>) = <<>>
    OBVIOUS
  <2>2. inbox' = [inbox EXCEPT ![c] = Tail(@)] => inbox'[c] = Tail(inbox[c])
    BY <1>t, <1>1, Zenon
  <2> QED  BY <1>1, <1>4, <2>1, <2>2, Zenon
<1> QED  BY OrderUnlisted, <1>1, <1>2, <1>5, Zenon

(* A client answers in the handshake.                                      *)
LEMMA OrderAnswer ==
    ASSUME Control, Lists, Order, NEW c \in Clients, Answer(c)
    PROVE  Order'
<1> USE DEF serverVars, mainVars, clientVars
<1> DEFINE items == messages.items
<1>t. /\ inbox \in [Clients -> Seq(Word)] /\ inputs \in [Clients -> Nat] /\ clients \in Seq(Clients)
      /\ messages \in Queue(Action) /\ taken \in Seq(Action) /\ items \in Seq(Action) /\ messages.taken \in Nat
      /\ Rng(clients) \subseteq Clients
  BY OrderTypes, Zenon
<1>1. /\ cstate[c] \in {"CERT", "AUTH"} /\ UNCHANGED <<clients, messages, taken, inputs>>
      /\ inbox' = inbox \/ \E x \in {"AUTH", "KEY"} : inbox' = [inbox EXCEPT ![c] = Append(@, x)]
  BY Zenon DEF Answer
<1>2. c \notin Rng(clients)
  BY <1>1, Zenon DEF Lists, Place
<1>3. \A d \in Clients : d # c => inbox'[d] = inbox[d]
  BY <1>t, <1>1, Zenon
<1> QED  BY OrderUnlisted, <1>1, <1>2, <1>3, Zenon

(* A client sends its next input.                                          *)
LEMMA OrderInput ==
    ASSUME Control, Lists, Order, NEW c \in Clients, brclient_send_msg(c)
    PROVE  Order'
<1> USE DEF serverVars, mainVars, clientVars
<1> DEFINE items == messages.items
<1>t. /\ inbox \in [Clients -> Seq(Word)] /\ inputs \in [Clients -> Nat] /\ clients \in Seq(Clients)
      /\ messages \in Queue(Action) /\ taken \in Seq(Action) /\ items \in Seq(Action) /\ messages.taken \in Nat
      /\ Rng(clients) \subseteq Clients
  BY OrderTypes, Zenon
<1>o. /\ \A x \in Rng(clients) : Socket(x)
      /\ Rising(taken) /\ Rising(items)
      /\ \A i \in 1..Len(taken) : Before(taken[i])
      /\ \A i \in 1..Len(items) : Before(items[i])
      /\ \A i \in 1..Len(taken), j \in (messages.taken + 1)..Len(items) :
           taken[i].from = items[j].from => taken[i].input < items[j].input
  BY Zenon DEF Order
<1>1. /\ cstate[c] = "GAME" /\ UNCHANGED <<clients, messages, taken>>
      /\ inputs' = [inputs EXCEPT ![c] = @ + 1] /\ inbox' = [inbox EXCEPT ![c] = Append(@, inputs[c] + 1)]
  BY Zenon DEF brclient_send_msg
<1>2. c \in Rng(clients) /\ Socket(c)
  BY <1>o, <1>1, Zenon DEF Lists, Place
<1>3. /\ inputs'[c] = inputs[c] + 1 /\ inputs[c] \in Nat /\ inbox'[c] = Append(inbox[c], inputs[c] + 1)
      /\ inbox[c] \in Seq(Nat) /\ \A d \in Clients : d # c => inbox'[d] = inbox[d] /\ inputs'[d] = inputs[d]
  BY <1>t, <1>1, <1>2, Zenon DEF Socket
<1>4. /\ inbox'[c] \in Seq(Nat) /\ Len(inbox[c]) \in Nat /\ Len(inbox'[c]) = Len(inbox[c]) + 1
      /\ \A i \in 1..Len(inbox'[c]) : inbox'[c][i] = IF i <= Len(inbox[c]) THEN inbox[c][i] ELSE inputs[c] + 1
  <2>1. PICK x, r, v : x = inbox[c] /\ r = inbox'[c] /\ v = inputs[c] + 1
    BY Zenon
  <2>2. x \in Seq(Nat) /\ v \in Nat /\ r = Append(x, v)
    BY <1>3, <2>1
  <2>3. /\ r \in Seq(Nat) /\ Len(x) \in Nat /\ Len(r) = Len(x) + 1
        /\ \A i \in 1..Len(r) : r[i] = IF i <= Len(x) THEN x[i] ELSE v
    BY <2>2
  <2> QED  BY <2>1, <2>3, Zenon
<1>5. \A i \in 1..Len(inbox[c]) : inbox[c][i] \in Nat /\ inbox[c][i] <= inputs[c]
  BY <1>2, <1>3 DEF Socket
<1>6. Socket(c)'
  <2>1. \A i \in 1..Len(inbox'[c]) : inbox'[c][i] <= inputs'[c]
    BY <1>3, <1>4, <1>5
  <2>2. ASSUME NEW i \in 1..Len(inbox'[c]), NEW j \in 1..Len(inbox'[c]), i < j PROVE inbox'[c][i] < inbox'[c][j]
    <3>1. i \in 1..Len(inbox[c]) /\ inbox'[c][i] = inbox[c][i]
      BY <1>4, <2>2
    <3>2. CASE j \in 1..Len(inbox[c])
      BY <1>2, <1>4, <2>2, <3>1, <3>2 DEF Socket
    <3>3. CASE j \notin 1..Len(inbox[c])
      <4>1. ~(j <= Len(inbox[c])) /\ inbox'[c][j] = inputs[c] + 1
        BY <1>4, <2>2, <3>3
      <4>2. inbox[c][i] \in Nat /\ inbox[c][i] <= inputs[c]
        BY <1>5, <3>1, Zenon
      <4> QED  BY <1>3, <3>1, <4>1, <4>2
    <3> QED  BY <3>2, <3>3, Zenon
  <2> QED  BY <1>4, <2>1, <2>2, Zenon DEF Socket
<1>7. \A d \in Rng(clients)' : Socket(d)'
  <2> SUFFICES ASSUME NEW d \in Rng(clients), d # c PROVE Socket(d)'
    BY <1>1, <1>6, Zenon DEF Rng
  <2>1. inbox'[d] = inbox[d] /\ inputs'[d] = inputs[d] /\ Socket(d)
    BY <1>o, <1>t, <1>3, Zenon
  <2> QED  BY <2>1, Zenon DEF Socket
<1>8. ASSUME NEW act, Before(act) PROVE Before(act)'
  <2>1. act.from \in Rng(clients) /\ act.from \in Clients /\ act.input \in Nat /\ act.input <= inputs[act.from]
    BY <1>t, <1>8, Zenon DEF Before
  <2>2. CASE act.from = c
    <3>1. act.input <= inputs'[c]
      BY <1>3, <2>1, <2>2
    <3>2. \A j \in 1..Len(inbox'[c]) : act.input < inbox'[c][j]
      BY <1>3, <1>4, <1>8, <2>1, <2>2 DEF Before
    <3> QED  BY <1>1, <2>1, <2>2, <3>1, <3>2, Zenon DEF Before, Rng
  <2>3. CASE act.from # c
    <3>1. inbox'[act.from] = inbox[act.from] /\ inputs'[act.from] = inputs[act.from]
      BY <1>3, <2>1, <2>3, Zenon
    <3> QED  BY <1>1, <1>8, <3>1, Zenon DEF Before, Rng
  <2> QED  BY <2>2, <2>3, Zenon
<1>9. /\ \A i \in 1..Len(taken) : Before(taken[i])'
      /\ \A i \in 1..Len(items) : Before(items[i])'
  <2>1. \A i \in 1..Len(taken) : \A act : act = taken[i] => Before(act)'
    BY <1>o, <1>8, Zenon
  <2>2. \A i \in 1..Len(items) : \A act : act = items[i] => Before(act)'
    BY <1>o, <1>8, Zenon
  <2> QED  BY <1>1, <2>1, <2>2, Zenon DEF Before
<1> QED  BY <1>o, <1>1, <1>7, <1>9, Zenon DEF Order

(* The server thread moves an input from the socket to the queue.          *)
LEMMA OrderPoll ==
    ASSUME Control, Lists, Order, NEW c \in Clients, Poll(c)
    PROVE  Order'
<1> USE DEF serverVars, mainVars, clientVars
<1> DEFINE items == messages.items
<1>t. /\ inbox \in [Clients -> Seq(Word)] /\ inputs \in [Clients -> Nat] /\ clients \in Seq(Clients)
      /\ messages \in Queue(Action) /\ taken \in Seq(Action) /\ items \in Seq(Action) /\ messages.taken \in Nat
      /\ Rng(clients) \subseteq Clients
  BY OrderTypes, Zenon
<1>o. /\ \A x \in Rng(clients) : Socket(x)
      /\ Rising(taken) /\ Rising(items)
      /\ \A i \in 1..Len(taken) : Before(taken[i])
      /\ \A i \in 1..Len(items) : Before(items[i])
      /\ \A i \in 1..Len(taken), j \in (messages.taken + 1)..Len(items) :
           taken[i].from = items[j].from => taken[i].input < items[j].input
  BY Zenon DEF Order
<1>1. CASE inbox[c] = <<>> /\ UNCHANGED <<messages, inbox>>
  BY <1>1, OrderSame, Zenon DEF Poll
<1>2. CASE /\ inbox[c] # <<>> /\ inbox' = [inbox EXCEPT ![c] = Tail(@)]
           /\ messages' = Queued([from |-> c, input |-> Head(inbox[c])])
  <2>1. c \in Rng(clients) /\ Socket(c) /\ UNCHANGED <<clients, taken, inputs>>
    BY <1>o, Zenon DEF Poll, Lists
  <2>2. PICK v : v = [from |-> c, input |-> Head(inbox[c])]
    BY Zenon
  <2>3. PICK s : s = inbox[c]
    BY Zenon
  <2>4. s \in Seq(Nat) /\ s # <<>> /\ Len(s) \in Nat \ {0} /\ Head(s) = s[1] /\ s[1] \in Nat
    BY <1>2, <2>1, <2>3 DEF Socket
  <2>5. Tail(s) \in Seq(Nat) /\ Len(Tail(s)) = Len(s) - 1 /\ \A i \in 1..Len(Tail(s)) : Tail(s)[i] = s[i + 1]
    BY <2>4, TailSeq, Zenon
  <2>6. inbox'[c] = Tail(s) /\ \A d \in Clients : d # c => inbox'[d] = inbox[d]
    BY <1>t, <1>2, <2>3, Zenon
  <2>7. v \in Action /\ v.from = c /\ v.input = s[1]
    BY <2>2, <2>3, <2>4, Zenon DEF Action, Word
  <2>8. \A i, j \in 1..Len(s) : i < j => s[i] < s[j]
    BY <2>1, <2>3, Zenon DEF Socket
  <2>9. \A i \in 1..Len(s) : s[i] <= inputs[c]
    BY <2>1, <2>3, Zenon DEF Socket
  <2>10. \A i \in 1..Len(Tail(s)) : i + 1 \in 1..Len(s) /\ 1 \in 1..Len(s) /\ 1 < i + 1
    BY <2>4, <2>5
  <2>11. Socket(c)'
    <3>1. \A i \in 1..Len(Tail(s)) : Tail(s)[i] <= inputs[c]
      BY <2>5, <2>9, <2>10, Zenon
    <3>2. ASSUME NEW i \in 1..Len(Tail(s)), NEW j \in 1..Len(Tail(s)), i < j PROVE Tail(s)[i] < Tail(s)[j]
      BY <2>5, <2>8, <2>10, <3>2
    <3> QED  BY <2>1, <2>5, <2>6, <3>1, <3>2, Zenon DEF Socket
  <2>12. \A d \in Rng(clients)' : Socket(d)'
    <3> SUFFICES ASSUME NEW d \in Rng(clients), d # c PROVE Socket(d)'
      BY <2>1, <2>11, Zenon DEF Rng
    <3>1. inbox'[d] = inbox[d] /\ Socket(d)
      BY <1>o, <1>t, <2>6, Zenon
    <3> QED  BY <2>1, <3>1, Zenon DEF Socket
  <2>13. ASSUME NEW act, Before(act) PROVE Before(act)' /\ (act.from = c => act.input < v.input)
    <3>1. act.from \in Rng(clients) /\ act.from \in Clients
      BY <1>t, <2>13, Zenon DEF Before
    <3>2. CASE act.from = c
      <4>1. \A j \in 1..Len(s) : act.input < s[j]
        BY <2>3, <2>13, <3>2, Zenon DEF Before
      <4>2. \A j \in 1..Len(Tail(s)) : act.input < Tail(s)[j]
        BY <2>5, <2>10, <4>1, Zenon
      <4>3. act.input < s[1]
        BY <2>4, <4>1
      <4> QED  BY <2>1, <2>6, <2>7, <2>13, <3>2, <4>2, <4>3, Zenon DEF Before, Rng
    <3>3. CASE act.from # c
      <4>1. inbox'[act.from] = inbox[act.from]
        BY <2>6, <3>1, <3>3, Zenon
      <4> QED  BY <2>1, <2>13, <3>3, <4>1, Zenon DEF Before, Rng
    <3> QED  BY <3>2, <3>3, Zenon
  <2>14. /\ \A i \in 1..Len(taken) : Before(taken[i])' /\ (taken[i].from = c => taken[i].input < v.input)
         /\ \A i \in 1..Len(items) : \A act : act = items[i] => Before(act)' /\ (act.from = c => act.input < v.input)
    <3>1. \A i \in 1..Len(taken) : \A act : act = taken[i] => Before(act)' /\ (act.from = c => act.input < v.input)
      BY <1>o, <2>13, Zenon
    <3>2. \A i \in 1..Len(items) : \A act : act = items[i] => Before(act)' /\ (act.from = c => act.input < v.input)
      BY <1>o, <2>13, Zenon
    <3> QED  BY <2>1, <3>1, <3>2, Zenon DEF Before
  <2>15. Before(v)'
    <3>1. v.input \in Nat /\ v.input <= inputs'[c]
      BY <2>1, <2>4, <2>7, <2>9
    <3>2. \A j \in 1..Len(Tail(s)) : v.input < Tail(s)[j]
      BY <2>5, <2>7, <2>8, <2>10, Zenon
    <3> QED  BY <2>1, <2>6, <2>7, <3>1, <3>2, Zenon DEF Before, Rng
  <2>16. CASE messages'.items = items /\ messages'.taken = messages.taken
    <3>1. \A i \in 1..Len(messages'.items) : Before(messages.items[i])'
      BY <2>14, <2>16, Zenon DEF Before
    <3>2. Rising(taken)' /\ Rising(messages.items)'
      BY <1>o, <2>1, <2>16, Zenon DEF Rising
    <3> QED  BY <1>o, <2>1, <2>12, <2>14, <2>16, <3>1, <3>2, Zenon DEF Order
  <2>17. CASE messages'.items = Append(items, v) /\ messages'.taken = messages.taken
    <3>1. PICK new : new = Append(items, v)
      BY Zenon
    <3>2. /\ Len(items) \in Nat /\ Len(new) = Len(items) + 1
          /\ \A i \in 1..Len(new) : new[i] = IF i <= Len(items) THEN items[i] ELSE v
      <4>1. items \in Seq(Action) /\ v \in Action
        BY <1>t, <2>7, Zenon
      <4> HIDE DEF Action, items
      <4> QED  BY <3>1, <4>1
    <3>3. Rising(new)
      BY <1>o, <1>t, <2>7, <2>14, <3>1, RisingAppend, Zenon
    <3>4. \A i \in 1..Len(new) : \A act : act = new[i] => Before(act)'
      <4> TAKE i \in 1..Len(new)
      <4>1. CASE i <= Len(items)
        BY <2>14, <3>2, <4>1
      <4>2. CASE ~(i <= Len(items))
        BY <2>15, <3>2, <4>2, Zenon
      <4> QED  BY <4>1, <4>2, Zenon
    <3>5. \A i \in 1..Len(messages'.items) : Before(messages.items[i])'
      BY <2>17, <3>1, <3>4, Zenon DEF Before
    <3>6. ASSUME NEW i \in 1..Len(taken), NEW j \in (messages.taken + 1)..Len(new), taken[i].from = new[j].from
          PROVE  taken[i].input < new[j].input
      <4>0. messages.taken \in Nat /\ j \in Int /\ j >= messages.taken + 1 /\ j \in 1..Len(new)
        BY <1>t, <3>2, <3>6
      <4> HIDE DEF items
      <4>1. CASE j <= Len(items)
        <5>1. j \in (messages.taken + 1)..Len(items) /\ new[j] = items[j]
          BY <3>2, <4>0, <4>1
        <5> QED  BY <1>o, <3>6, <5>1, Zenon
      <4>2. CASE ~(j <= Len(items))
        <5>1. new[j] = v
          BY <3>2, <4>0, <4>2, Zenon
        <5> QED  BY <2>7, <2>14, <3>6, <5>1
      <4> QED  BY <4>1, <4>2, Zenon
    <3>7. Rising(taken)' /\ Rising(messages.items)'
      BY <1>o, <2>1, <2>17, <3>1, <3>3, Zenon DEF Rising
    <3> QED  BY <2>1, <2>12, <2>14, <2>17, <3>1, <3>5, <3>6, <3>7, Zenon DEF Order
  <2>18. /\ messages'.taken = messages.taken
         /\ messages'.items = items \/ messages'.items = Append(items, v)
    <3>1. QueueMax \in Nat /\ Len(messages.items) <= QueueMax
      BY BRAssumption, Zenon DEF Control, BRTypeOK
    <3>2. messages' = q_enqueue(messages, QueueMax, v)
      BY <1>2, <2>2, Zenon DEF Queued
    <3>3. messages \in Queue(Action) /\ v \in Action
      BY <1>t, <2>7, Zenon
    <3> HIDE DEF Action
    <3> QED  BY <3>1, <3>2, <3>3, Enqueued
  <2> QED  BY <2>16, <2>17, <2>18, Zenon
<1> QED  BY <1>1, <1>2, Zenon DEF Poll

(* The main thread moves an input from the queue to the match.             *)
LEMMA OrderTake ==
    ASSUME Control, Lists, Order, brserver_get_app_msg
    PROVE  Order'
<1> USE DEF serverVars, mainVars, clientVars
<1> DEFINE items == messages.items
<1>t. /\ inbox \in [Clients -> Seq(Word)] /\ inputs \in [Clients -> Nat] /\ clients \in Seq(Clients)
      /\ messages \in Queue(Action) /\ taken \in Seq(Action) /\ items \in Seq(Action) /\ messages.taken \in Nat
      /\ Rng(clients) \subseteq Clients
  BY OrderTypes, Zenon
<1>o. /\ \A x \in Rng(clients) : Socket(x)
      /\ Rising(taken) /\ Rising(items)
      /\ \A i \in 1..Len(taken) : Before(taken[i])
      /\ \A i \in 1..Len(items) : Before(items[i])
      /\ \A i \in 1..Len(taken), j \in (messages.taken + 1)..Len(items) :
           taken[i].from = items[j].from => taken[i].input < items[j].input
  BY Zenon DEF Order
<1>1. /\ ~q_empty(messages) /\ messages' = q_dequeue(messages) /\ UNCHANGED <<clients, inbox, inputs>>
      /\ taken' = taken \/ taken' = Append(taken, q_peek(messages))
  BY Zenon DEF brserver_get_app_msg, TakeNext
<1>2. PICK n, v : n = messages.taken + 1 /\ v = messages.items[n]
  BY Zenon
<1>3. /\ v \in Action /\ n \in 1..Len(items) /\ q_peek(messages) = v
      /\ messages'.items = <<>> \/ (messages'.items = items /\ messages'.taken = n)
  BY <1>t, <1>1, <1>2, Dequeued, Zenon
<1>4. \A act : Before(act) <=> Before(act)'
  BY <1>1, Zenon DEF Before, Rng
<1>5. \A d \in Rng(clients)' : Socket(d)'
  BY <1>o, <1>1, Zenon DEF Socket, Rng
<1>6. Rising(messages.items)' /\ \A i \in 1..Len(messages'.items) : Before(messages.items[i])'
  <2>1. CASE messages'.items = <<>>
    BY <2>1 DEF Rising
  <2>2. CASE messages'.items = items
    <3>1. \A i \in 1..Len(items) : \A act : act = items[i] => Before(act)'
      BY <1>o, <1>4, Zenon
    <3> QED  BY <1>o, <2>2, <3>1, Zenon DEF Rising, Before
  <2> QED  BY <1>3, <2>1, <2>2, Zenon
<1>7. \A i \in 1..Len(taken) : taken[i].from = v.from => taken[i].input < v.input
  <2>1. n \in (messages.taken + 1)..Len(items)
    BY <1>t, <1>2, <1>3
  <2> QED  BY <1>o, <1>2, <2>1, Zenon
<1>8. PICK new : new = taken'
  BY Zenon
<1>9. /\ Len(taken) \in Nat /\ new \in Seq(Action)
      /\ \A i \in 1..Len(new) : new[i] = v \/ (i \in 1..Len(taken) /\ new[i] = taken[i])
  <2>1. CASE new = taken
    BY <1>t, <2>1
  <2>2. CASE new = Append(taken, v)
    <3>1. /\ Len(taken) \in Nat /\ new \in Seq(Action) /\ Len(new) = Len(taken) + 1
          /\ \A i \in 1..Len(new) : new[i] = IF i <= Len(taken) THEN taken[i] ELSE v
      BY <1>t, <1>3, <2>2
    <3> QED  BY <3>1
  <2> QED  BY <1>1, <1>3, <1>8, <2>1, <2>2, Zenon
<1>10. Rising(new)
  BY <1>o, <1>t, <1>1, <1>3, <1>7, <1>8, RisingAppend, Zenon
<1>11. \A i \in 1..Len(new) : \A act : act = new[i] => Before(act)'
  BY <1>o, <1>2, <1>3, <1>4, <1>9, Zenon
<1>12. ASSUME NEW i \in 1..Len(new), NEW j \in (messages'.taken + 1)..Len(messages'.items),
              new[i].from = messages'.items[j].from
       PROVE  new[i].input < messages'.items[j].input
  <2>1. messages'.items = items /\ messages'.taken = n
    <3>1. messages' \in Queue(Action)
      BY <1>t, <1>1, Dequeued, Zenon
    <3>2. messages'.taken \in Nat
      BY <3>1, Zenon DEF Queue
    <3>3. messages'.items # <<>>
      BY <1>12, <3>2
    <3> QED  BY <1>3, <3>3, Zenon
  <2>2. j \in 1..Len(items) /\ n < j /\ j \in (messages.taken + 1)..Len(items)
    <3>1. messages.taken \in Nat /\ Len(items) \in Nat /\ n = messages.taken + 1
      BY <1>t, <1>2
    <3>2. j \in (n + 1)..Len(items)
      BY <1>12, <2>1, Zenon
    <3> QED  BY <3>1, <3>2
  <2>3. CASE new[i] = v
    <3>1. \A k, l \in 1..Len(items) : k < l /\ items[k].from = items[l].from => items[k].input < items[l].input
      BY <1>o, Zenon DEF Rising
    <3> QED  BY <1>2, <1>3, <1>12, <2>1, <2>2, <2>3, <3>1, Zenon
  <2>4. CASE i \in 1..Len(taken) /\ new[i] = taken[i]
    BY <1>o, <1>12, <2>1, <2>2, <2>4, Zenon
  <2> QED  BY <1>9, <2>3, <2>4, Zenon
<1>13. \A i \in 1..Len(taken') : Before(taken[i])'
  BY <1>8, <1>11, Zenon DEF Before
<1>14. Rising(taken)'
  BY <1>8, <1>10, Zenon DEF Rising
<1> QED  BY <1>5, <1>6, <1>8, <1>12, <1>13, <1>14, Zenon DEF Order

(* Each step keeps every player's inputs in the order they were made in:   *)
(* the socket and the queue are first in, first out, and the server thread *)
(* reads nobody's socket twice (server.c:356-406).                         *)
LEMMA OrderStep == Control /\ Lists /\ Order /\ [BRNext]_brVars => Order'
<1> SUFFICES ASSUME Control, Lists, Order, [BRNext]_brVars PROVE Order'
  BY Zenon
<1> USE DEF serverVars, mainVars, clientVars
<1>1. CASE \/ EnterLobby \/ LeaveState \/ Accept \/ EnterGame \/ EnterEnd \/ ServerSend \/ brserver_open
           \/ brserver_client_info \/ StartOrder \/ MainSend \/ Push \/ MatchOver \/ brserver_end \/ Exit
           \/ \E c \in Clients : Connect(c) \/ client_lobby_state(c) \/ client_game_state(c) \/ Leave(c)
           \/ UNCHANGED brVars
  BY <1>1, OrderSame, Zenon DEF EnterLobby, LeaveState, Accept, Listed, EnterGame, EnterEnd, ServerSend, brserver_open,
                    brserver_client_info, StartOrder, MainSend, Push, MatchOver, brserver_end, Exit, Connect,
                    client_lobby_state, client_game_state, Leave, brVars
<1> QED
  BY OrderHandshake, OrderAnswer, OrderInput, OrderPoll, OrderTake, <1>1, Zenon DEF BRNext, ServerStep, MainStep, ClientRead

(* Each player's actions are applied in the order they were made, and none *)
(* twice, whatever the queue drops and whenever the player leaves.         *)
THEOREM ActionsInOrder == BRSpec => []InputOrder
<1>1. Control /\ Order => InputOrder
  <2> SUFFICES ASSUME Control, Order PROVE InputOrder
    BY Zenon
  <2>1. DOMAIN taken = 1..Len(taken)
    BY OrderTypes
  <2>2. Rising(taken)
    BY Zenon DEF Order
  <2> QED  BY <2>1, <2>2, Zenon DEF Rising, InputOrder
<1> QED  BY ControlInit, ControlStep, ListsInit, ListsStep, OrderInit, OrderStep, <1>1, PTL DEF BRSpec

=============================================================================
