----------------------------- MODULE LogProofs ------------------------------
(***************************************************************************)
(* The log file keeps every sender's records in order and without repeats, *)
(* whatever is dropped, and however often tetrislogd stops and starts; no  *)
(* record is lost without being counted, and the gaps that tetrislogd      *)
(* counts are exactly those in the file.                                   *)
(***************************************************************************)
EXTENDS LogChannel, FiniteSetTheorems, TLAPS

(* Sets of room slots can be counted: what Hub assumes of Slots holds of   *)
(* every interval (rooms[MAX_ROOMS], main.c:47).                           *)
LEMMA SlotsCount ==
    \A n \in Nat : \A S \in SUBSET (1..n) : Cardinality(S) \in Nat /\ (Cardinality(S) = 0 <=> S = {})
<1> TAKE n \in Nat
<1> TAKE S \in SUBSET (1..n)
<1>1. IsFiniteSet(1..n)
  BY FS_Interval
<1>2. IsFiniteSet(S)
  BY <1>1, FS_Subset, Zenon
<1> QED  BY <1>2, FS_CardinalityType, FS_EmptySet, Zenon

-----------------------------------------------------------------------------
(* The log channel.                                                        *)

(* q_enqueue (queue.h:48-56) keeps a queue a queue, and what waits in it   *)
(* afterwards waited before or is the new item.                            *)
LEMMA Enqueued ==
    ASSUME NEW T, NEW q \in Queue(T), NEW v \in T, NEW max \in Nat, Len(q.items) <= max,
           NEW r, r = q_enqueue(q, max, v)
    PROVE  /\ r \in Queue(T) /\ Len(r.items) <= max /\ r.taken = q.taken
           /\ (r.items = q.items \/ r.items = Append(q.items, v))
<1>1. q \in [items : Seq(T), taken : Nat] /\ q.taken <= Len(q.items)
  BY Zenon DEF Queue
<1>2. CASE q_full(q, max)
  BY <1>2, Zenon DEF q_enqueue
<1>3. CASE ~q_full(q, max)
  <2>1. r = [q EXCEPT !.items = Append(@, v)]
    BY <1>3, Zenon DEF q_enqueue
  <2>2. Append(q.items, v) \in Seq(T) /\ q.taken \in Nat
    BY <1>1
  <2>4. r = [items |-> Append(q.items, v), taken |-> q.taken]
    BY <1>1, <2>1, Zenon
  <2>3. Len(r.items) = Len(q.items) + 1 /\ Len(q.items) # max /\ Len(q.items) \in Nat
    BY <1>1, <1>3, <2>4 DEF q_full
  <2> QED BY <1>1, <2>2, <2>3, <2>4 DEF Queue
<1> QED BY <1>2, <1>3, Zenon

(* q_dequeue (queue.h:57-67) takes the oldest item, and leaves the others  *)
(* where they are or, when none is left, an empty queue.                   *)
LEMMA Dequeued ==
    ASSUME NEW T, NEW q \in Queue(T), ~q_empty(q), NEW r, r = q_dequeue(q)
    PROVE  /\ r \in Queue(T) /\ Len(r.items) <= Len(q.items)
           /\ q_peek(q) \in T /\ q.taken + 1 \in DOMAIN q.items
           /\ (r.items = <<>> \/ (r.items = q.items /\ r.taken = q.taken + 1))
BY DEF Queue, q_dequeue, q_init, q_empty, q_peek

(* The processes and tetrislogd start in states of the right shape.        *)
LEMMA TypeInit == LogInit => LogTypeOK
<1> SUFFICES ASSUME LogInit PROVE LogTypeOK
  BY Zenon
<1>1. q_init \in Queue(Record) /\ Len(q_init.items) = 0
  BY DEF Queue, q_init
<1>2. /\ queue \in [Senders -> Queue(Record)]
      /\ \A p \in Senders : Len(queue[p].items) <= QueueSize
  BY <1>1, LogAssumption DEF LogInit
<1>3. /\ pc \in [Senders -> {"unborn", "run", "drain", "close", "closed"}]
      /\ nextSeq \in [Senders -> Nat] /\ base \in [Senders -> Nat]
      /\ dropped \in [Senders -> Nat] /\ budget \in [Senders -> 0..Batch]
      /\ unread \in [Senders -> Nat]
  BY LogAssumption DEF LogInit
<1>4. wire \in Seq(Record) /\ trackers \in Seq(Tracker) /\ log \in Seq(Record)
  BY DEF LogInit
<1>5. lives \in Nat /\ total \in Nat /\ period \in Nat /\ since \in Nat
  BY Zenon DEF LogInit
<1>6. up \in BOOLEAN
  BY Zenon DEF LogInit
<1>7. Len(trackers) <= MaxTracked
  BY LogAssumption DEF LogInit
<1> QED BY <1>2, <1>3, <1>4, <1>5, <1>6, <1>7, Zenon DEF LogTypeOK

(* Nothing is numbered, queued or written yet.                             *)
LEMMA InvInit == LogInit => LogInv
BY LogAssumption DEF LogInit, LogInv, q_init, DrainHasWork, QueueOwn, QueueOrdered, SentBefore,
                     WireOrdered, LogBeforeWire, LogOrdered

(* Appending to the queue of one process, or taking from it, keeps every   *)
(* queue in its array (logclient.c:41-53, 86).                             *)
LEMMA PushedQueues ==
    ASSUME LogTypeOK, NEW p \in Senders, log_client_push(p)
    PROVE  /\ queue' \in [Senders -> Queue(Record)]
           /\ \A q \in Senders : Len(queue'[q].items) <= QueueSize
<1> DEFINE r == q_enqueue(queue[p], QueueSize, build_log_record(p))
<1>1. build_log_record(p) \in Record
  BY Zenon DEF LogTypeOK, build_log_record, Record
<1>2. queue[p] \in Queue(Record) /\ Len(queue[p].items) <= QueueSize
  BY Zenon DEF LogTypeOK
<1>3. r \in Queue(Record) /\ Len(r.items) <= QueueSize
  BY <1>1, <1>2, Enqueued, LogAssumption
<1>4. queue \in [Senders -> Queue(Record)] /\ queue' = [queue EXCEPT ![p] = r]
  BY Zenon DEF LogTypeOK, log_client_push
<1>5. \A q \in Senders : Len(queue[q].items) <= QueueSize
  BY Zenon DEF LogTypeOK
<1> HIDE DEF r
<1> QED BY <1>3, <1>4, <1>5, Zenon

(* The same when a record is taken, which is always one of the queue's.    *)
LEMMA DrainedQueues ==
    ASSUME LogTypeOK, NEW p \in Senders, DrainHasWork(p), DrainOne(p)
    PROVE  /\ queue' \in [Senders -> Queue(Record)]
           /\ \A q \in Senders : Len(queue'[q].items) <= QueueSize
           /\ q_peek(queue[p]) \in Record
<1> DEFINE r == q_dequeue(queue[p])
<1>1. ~q_empty(queue[p])
  BY Zenon DEF DrainHasWork, DrainOne
<1>2. queue[p] \in Queue(Record) /\ Len(queue[p].items) <= QueueSize
  BY Zenon DEF LogTypeOK
<1>3. /\ r \in Queue(Record) /\ Len(r.items) <= Len(queue[p].items)
      /\ q_peek(queue[p]) \in Record
  BY <1>1, <1>2, Dequeued, Zenon
<1>4. queue \in [Senders -> Queue(Record)] /\ queue' = [queue EXCEPT ![p] = r]
  BY Zenon DEF LogTypeOK, DrainOne, AfterSend
<1>5. \A q \in Senders : Len(queue[q].items) <= QueueSize
  BY Zenon DEF LogTypeOK
<1>6. Len(r.items) \in Nat /\ Len(queue[p].items) \in Nat /\ QueueSize \in Nat
  BY <1>2, <1>3, LogAssumption DEF Queue
<1>7. Len(r.items) <= QueueSize
  BY <1>2, <1>3, <1>6
<1> HIDE DEF r
<1> QED BY <1>3, <1>4, <1>5, <1>7, Zenon

(* The gap tetrislogd computes for a record is not negative, and its table *)
(* of senders never outgrows its array (tetrislogd/main.c:56-73, 289-299). *)
LEMMA Tracking ==
    ASSUME LogTypeOK, NEW r \in Record, Track(r)
    PROVE  /\ trackers' \in Seq(Tracker) /\ Len(trackers') <= MaxTracked
           /\ total' \in Nat /\ period' \in Nat
<1> DEFINE known == find_tracker(r.pid)
           gap == IF known = {} THEN 0 ELSE Gap(trackers[CHOOSE i \in known : TRUE], r)
<1>1. /\ trackers \in Seq(Tracker) /\ Len(trackers) <= MaxTracked
      /\ total \in Nat /\ period \in Nat
  BY Zenon DEF LogTypeOK
<1>2. known \subseteq DOMAIN trackers
  BY Zenon DEF find_tracker
<1>3. gap \in Nat
  <2>1. CASE known = {}
    BY <2>1, Zenon
  <2>2. CASE known # {}
    <3>1. (CHOOSE i \in known : TRUE) \in DOMAIN trackers
      BY <1>2, <2>2, Zenon
    <3> DEFINE t == trackers[CHOOSE i \in known : TRUE]
    <3>2. t \in Tracker
      BY <1>1, <3>1
    <3>3. t.last \in Nat /\ r.seq \in Nat
      BY <3>2, Zenon DEF Tracker, Record
    <3>4. Gap(t, r) \in Nat
      <4> HIDE DEF t
      <4> QED BY <3>3 DEF Gap
    <3> QED BY <2>2, <3>4, Zenon
  <2> QED BY <2>1, <2>2, Zenon
<1>4. total' = total + gap /\ period' = period + gap
  BY Zenon DEF Track
<1>5. total' \in Nat /\ period' \in Nat
  <2> HIDE DEF gap
  <2> QED BY <1>1, <1>3, <1>4
<1>6. r.pid \in Senders /\ r.seq \in Nat
  BY Zenon DEF Record
<1>7. trackers' \in Seq(Tracker) /\ Len(trackers') <= MaxTracked
  <2>1. CASE known # {}
    <3>1. trackers' = [i \in DOMAIN trackers |->
                         IF i \in known THEN [trackers[i] EXCEPT !.last = r.seq] ELSE trackers[i]]
      BY <2>1, Zenon DEF Track
    <3>2. \A t \in Tracker : [t EXCEPT !.last = r.seq] \in Tracker
      BY <1>6, Zenon DEF Tracker
    <3>3. \A i \in DOMAIN trackers : trackers'[i] \in Tracker
      BY <1>1, <3>1, <3>2
    <3>4. DOMAIN trackers = 1..Len(trackers) /\ Len(trackers) \in Nat
      BY <1>1
    <3>5. trackers' \in [1..Len(trackers) -> Tracker]
      BY <3>1, <3>3, <3>4, Zenon
    <3>6. trackers' \in Seq(Tracker) /\ Len(trackers') = Len(trackers)
      BY <3>4, <3>5
    <3> QED BY <1>1, <3>6, Zenon
  <2>2. CASE known = {} /\ HasRoom
    <3>1. trackers' = Append(trackers, [pid |-> r.pid, last |-> r.seq])
      BY <2>2, Zenon DEF Track
    <3>2. [pid |-> r.pid, last |-> r.seq] \in Tracker
      BY <1>6, Zenon DEF Tracker
    <3> QED BY <1>1, <2>2, <3>1, <3>2, LogAssumption DEF HasRoom
  <2>3. CASE known = {} /\ ~HasRoom
    BY <1>1, <2>3, Zenon DEF Track
  <2> QED BY <2>1, <2>2, <2>3, Zenon
<1> QED BY <1>5, <1>7, Zenon

(* A drain's whole batch is a budget.                                      *)
LEMMA BatchType == Batch \in 0..Batch /\ Batch \in Nat /\ Batch > 0
BY LogAssumption

(* What a sender does keeps the shape of its state; a drain has records    *)
(* and budget left, so neither goes below zero (logclient.c:56-88).        *)
LEMMA SenderTypes ==
    ASSUME LogTypeOK, LogInv, NEW p \in Senders,
           \/ Fork(p) \/ log_client_push(p) \/ Close(p) \/ DrainBegin(p) \/ DrainOne(p) \/ Die(p)
    PROVE  LogTypeOK'
<1>1. CASE Fork(p)
  BY <1>1, LogAssumption, Zenon DEF Fork, LogTypeOK, daemonVars
<1>2. CASE log_client_push(p)
  <2>1. /\ nextSeq' \in [Senders -> Nat] /\ dropped' \in [Senders -> Nat]
    BY <1>2, SMTT(30) DEF log_client_push, LogTypeOK
  <2> QED BY <1>2, <2>1, PushedQueues, Zenon DEF log_client_push, LogTypeOK, daemonVars
<1>3. CASE Close(p)
  <2>1. budget' \in [Senders -> 0..Batch]
    BY <1>3, BatchType, Zenon DEF Close, LogTypeOK
  <2>2. pc' \in [Senders -> {"unborn", "run", "drain", "close", "closed"}]
    BY <1>3, Zenon DEF Close, LogTypeOK
  <2> QED BY <1>3, <2>1, <2>2, Zenon DEF Close, LogTypeOK, daemonVars
<1>4. CASE DrainBegin(p)
  <2>1. budget' \in [Senders -> 0..Batch]
    BY <1>4, BatchType, Zenon DEF DrainBegin, LogTypeOK
  <2>2. pc' \in [Senders -> {"unborn", "run", "drain", "close", "closed"}]
    BY <1>4, Zenon DEF DrainBegin, LogTypeOK
  <2> QED BY <1>4, <2>1, <2>2, Zenon DEF DrainBegin, LogTypeOK, daemonVars
<1>5. CASE DrainOne(p)
  <2>1. DrainHasWork(p) /\ budget[p] > 0
    BY <1>5, Zenon DEF LogInv, DrainHasWork, DrainOne
  <2>2. /\ queue' \in [Senders -> Queue(Record)]
        /\ \A q \in Senders : Len(queue'[q].items) <= QueueSize
        /\ q_peek(queue[p]) \in Record
    BY <1>5, <2>1, DrainedQueues, Zenon
  <2>3. budget' \in [Senders -> 0..Batch]
    <3>1. budget[p] - 1 \in 0..Batch
      BY <2>1, BatchType DEF LogTypeOK
    <3> QED BY <1>5, <3>1, Zenon DEF DrainOne, LogTypeOK
  <2>4. pc' \in [Senders -> {"unborn", "run", "drain", "close", "closed"}]
    BY <1>5, Zenon DEF DrainOne, LogTypeOK
  <2>5. wire' \in Seq(Record)
    BY <1>5, <2>2 DEF DrainOne, LogTypeOK
  <2>6. dropped' \in [Senders -> Nat]
    BY <1>5 DEF DrainOne, Refused, LogTypeOK
  <2> QED BY <1>5, <2>2, <2>3, <2>4, <2>5, <2>6, Zenon DEF DrainOne, LogTypeOK, daemonVars
<1>6. CASE Die(p)
  BY <1>6, Zenon DEF Die, LogTypeOK, daemonVars
<1> QED BY <1>1, <1>2, <1>3, <1>4, <1>5, <1>6, Zenon

(* So does what tetrislogd does.                                           *)
LEMMA DaemonTypes ==
    ASSUME LogTypeOK, Start \/ Receive \/ Summary \/ Terminate
    PROVE  LogTypeOK'
<1>1. CASE Start
  <2>1. Len(log) \in Nat /\ Len(<<>>) = 0
    BY DEF LogTypeOK
  <2>2. since' \in Nat /\ lives' \in Nat /\ total' \in Nat /\ period' \in Nat
    BY <1>1, <2>1 DEF Start, LogTypeOK
  <2>3. trackers' \in Seq(Tracker) /\ Len(trackers') <= MaxTracked
    BY <1>1, <2>1, LogAssumption DEF Start
  <2>4. up' \in BOOLEAN
    BY <1>1, Zenon DEF Start
  <2> QED BY <1>1, <2>2, <2>3, <2>4, Zenon DEF Start, LogTypeOK, clientVars
<1>2. CASE Receive
  <2>1. wire \in Seq(Record) /\ wire # <<>> /\ log \in Seq(Record)
    BY <1>2, Zenon DEF Receive, LogTypeOK
  <2>2. Head(wire) \in Record /\ Tail(wire) \in Seq(Record)
    BY <2>1
  <2>3. Append(log, Head(wire)) \in Seq(Record)
    BY <2>1, <2>2
  <2>4. /\ trackers' \in Seq(Tracker) /\ Len(trackers') <= MaxTracked
        /\ total' \in Nat /\ period' \in Nat
    BY <1>2, <2>2, Tracking, Zenon DEF Receive
  <2> QED BY <1>2, <2>2, <2>3, <2>4, Zenon DEF Receive, LogTypeOK, clientVars
<1>3. CASE Summary
  BY <1>3, Zenon DEF Summary, LogTypeOK, clientVars
<1>4. CASE Terminate
  <2>1. \A p \in Senders : Cardinality({i \in DOMAIN wire : wire[i].pid = p}) \in Nat
    <3> TAKE p \in Senders
    <3>1. DOMAIN wire = 1..Len(wire) /\ Len(wire) \in Nat
      BY DEF LogTypeOK
    <3>2. IsFiniteSet(DOMAIN wire)
      BY <3>1, FS_Interval
    <3>3. IsFiniteSet({i \in DOMAIN wire : wire[i].pid = p})
      BY <3>2, FS_Subset, Zenon
    <3> QED BY <3>3, FS_CardinalityType, Zenon
  <2>2. unread' \in [Senders -> Nat]
    <3> DEFINE left(p) == Cardinality({i \in DOMAIN wire : wire[i].pid = p})
    <3>1. unread' = [p \in Senders |-> unread[p] + left(p)] /\ unread \in [Senders -> Nat]
      BY <1>4, Zenon DEF Terminate, LogTypeOK
    <3> HIDE DEF left
    <3>2. \A p \in Senders : left(p) \in Nat
      BY <2>1, Zenon DEF left
    <3> QED BY <3>1, <3>2
  <2>3. wire' \in Seq(Record)
    BY <1>4 DEF Terminate
  <2>4. up' \in BOOLEAN
    BY <1>4, Zenon DEF Terminate
  <2> QED BY <1>4, <2>2, <2>3, <2>4, Zenon DEF Terminate, LogTypeOK, clientVars
<1> QED BY <1>1, <1>2, <1>3, <1>4, Zenon

(* Every record in a queue, in the socket or in the file is one.           *)
LEMMA Records ==
    ASSUME LogTypeOK
    PROVE  /\ \A k \in DOMAIN wire : wire[k].pid \in Senders /\ wire[k].seq \in Nat
           /\ \A k \in DOMAIN log : log[k].pid \in Senders /\ log[k].seq \in Nat
           /\ \A p \in Senders :
                /\ nextSeq[p] \in Nat /\ queue[p].taken \in Nat /\ queue[p].items \in Seq(Record)
                /\ \A i \in DOMAIN queue[p].items : queue[p].items[i].seq \in Nat
<1>1. \A k \in DOMAIN wire : wire[k] \in Record
  BY DEF LogTypeOK
<1>2. \A k \in DOMAIN log : log[k] \in Record
  BY DEF LogTypeOK
<1>3. \A p \in Senders :
         queue[p].taken \in Nat /\ queue[p].items \in Seq(Record) /\ nextSeq[p] \in Nat
  BY Zenon DEF LogTypeOK, Queue
<1>4. \A p \in Senders : \A i \in DOMAIN queue[p].items : queue[p].items[i] \in Record
  BY <1>3
<1> QED BY <1>1, <1>2, <1>3, <1>4, Zenon DEF Record

(* What Append leaves in a sequence.                                       *)
LEMMA Appended ==
    ASSUME NEW T, NEW s \in Seq(T), NEW v \in T
    PROVE  /\ \A i \in DOMAIN Append(s, v) :
                \/ i \in DOMAIN s /\ Append(s, v)[i] = s[i]
                \/ i = Len(s) + 1 /\ Append(s, v)[i] = v
           /\ \A i \in DOMAIN s : i \in Nat /\ i < Len(s) + 1
OBVIOUS

(* The order of what is queued, sent and written.                          *)
Ordered ==
    /\ \A p \in Senders : QueueOwn(p) /\ QueueOrdered(p)
    /\ SentBefore /\ WireOrdered /\ LogBeforeWire /\ LogOrdered

(* A step that moves no record keeps the order, also when a process gets   *)
(* a higher next number (the fork, main.c:147).                            *)
LEMMA OrderedStays ==
    ASSUME LogTypeOK, Ordered, UNCHANGED <<queue, wire, log>>,
           \A p \in Senders : nextSeq'[p] \in Nat /\ nextSeq[p] <= nextSeq'[p]
    PROVE  Ordered'
<1>1. \A p \in Senders : QueueOwn(p)' /\ QueueOrdered(p)'
  BY Records, SMTT(30) DEF Ordered, QueueOwn, QueueOrdered
<1>2. SentBefore'
  <2>1. ASSUME NEW r, r.pid \in Senders, r.seq \in Nat, Before(r) PROVE Before(r)'
    <3>1. nextSeq[r.pid] \in Nat /\ nextSeq'[r.pid] \in Nat /\ nextSeq[r.pid] <= nextSeq'[r.pid]
      BY <2>1, Records, Zenon
    <3>2. r.seq < nextSeq[r.pid]
      BY <2>1, Zenon DEF Before
    <3>3. r.seq < nextSeq'[r.pid]
      BY <2>1, <3>1, <3>2
    <3> QED  BY <2>1, <3>3, Zenon DEF Before
  <2>2. /\ \A k \in DOMAIN wire : wire[k].pid \in Senders /\ wire[k].seq \in Nat
        /\ \A k \in DOMAIN log : log[k].pid \in Senders /\ log[k].seq \in Nat
    BY Records, Zenon
  <2>3. /\ \A k \in DOMAIN wire : Before(wire[k])'
        /\ \A k \in DOMAIN log : Before(log[k])'
    <3>1. ASSUME NEW k \in DOMAIN wire PROVE Before(wire[k])'
      <4>1. Before(wire[k]) /\ wire'[k] = wire[k]
        BY Zenon DEF Ordered, SentBefore
      <4> QED  BY <2>1, <2>2, <4>1, Zenon DEF Before
    <3>2. ASSUME NEW k \in DOMAIN log PROVE Before(log[k])'
      <4>1. Before(log[k]) /\ log'[k] = log[k]
        BY Zenon DEF Ordered, SentBefore
      <4> QED  BY <2>1, <2>2, <4>1, Zenon DEF Before
    <3> QED  BY <3>1, <3>2, Zenon
  <2> QED  BY <2>3, Zenon DEF SentBefore
<1>3. WireOrdered' /\ LogBeforeWire' /\ LogOrdered'
  BY Zenon DEF Ordered, WireOrdered, LogBeforeWire, LogOrdered
<1> QED BY <1>1, <1>2, <1>3, Zenon DEF Ordered

(* A new record is younger than all of its sender's (logclient.c:41-53).   *)
LEMMA OrderedPush ==
    ASSUME LogTypeOK, Ordered, NEW p \in Senders, log_client_push(p)
    PROVE  Ordered'
<1> DEFINE v == build_log_record(p)
<1>1. v \in Record /\ v.pid = p /\ v.seq = nextSeq[p]
  BY Records, Zenon DEF build_log_record, Record
<1>2. queue[p] \in Queue(Record) /\ Len(queue[p].items) <= QueueSize
  BY Zenon DEF LogTypeOK
<1>3. queue'[p] = q_enqueue(queue[p], QueueSize, v)
  BY Zenon DEF log_client_push, LogTypeOK
<1>4. /\ queue'[p].taken = queue[p].taken
      /\ (queue'[p].items = queue[p].items \/ queue'[p].items = Append(queue[p].items, v))
  <2> HIDE DEF v
  <2>1. QueueSize \in Nat
    BY LogAssumption, Zenon
  <2> QED BY <1>1, <1>2, <1>3, <2>1, Enqueued, SMTT(30)
<1>5. /\ nextSeq'[p] = nextSeq[p] + 1 /\ wire' = wire /\ log' = log
      /\ \A q \in Senders : q # p => nextSeq'[q] = nextSeq[q] /\ queue'[q] = queue[q]
  BY Zenon DEF log_client_push, LogTypeOK, daemonVars
<1> HIDE DEF v
<1>6. \A i \in DOMAIN queue'[p].items :
         \/ i \in DOMAIN queue[p].items /\ queue'[p].items[i] = queue[p].items[i]
         \/ i = Len(queue[p].items) + 1 /\ queue'[p].items[i] = v
  BY <1>1, <1>4, Records, Appended, SMTT(30)
<1>7. \A q \in Senders : QueueOwn(q)'
  <2>1. QueueOwn(p)'
    BY <1>1, <1>5, <1>6, Records, SMTT(30) DEF Ordered, QueueOwn
  <2> QED BY <1>5, <2>1, Zenon DEF Ordered, QueueOwn
<1>8. \A q \in Senders : QueueOrdered(q)'
  <2>1. QueueOrdered(p)'
    BY <1>1, <1>6, Records, SMTT(30) DEF Ordered, QueueOwn, QueueOrdered
  <2> QED BY <1>5, <2>1, Zenon DEF Ordered, QueueOrdered
<1>9. ASSUME NEW r, r.pid \in Senders, r.seq \in Nat, Before(r)
      PROVE  Before(r)'
  <2>1. CASE r.pid = p
    <3>1. /\ r.seq < nextSeq[p] /\ \A i \in DOMAIN queue[p].items :
                                         i > queue[p].taken => r.seq < queue[p].items[i].seq
      BY <1>9, <2>1, Zenon DEF Before
    <3>2. nextSeq[p] \in Nat /\ r.seq \in Nat
      BY <1>9, Records, Zenon
    <3>3. r.seq < nextSeq'[p]
      BY <1>5, <3>1, <3>2
    <3>4. r.seq < v.seq
      BY <1>1, <3>1, Zenon
    <3>5. \A i \in DOMAIN queue'[p].items : i > queue'[p].taken => r.seq < queue'[p].items[i].seq
      BY <1>4, <1>6, <3>1, <3>4, Zenon
    <3> QED  BY <2>1, <3>3, <3>5, Zenon DEF Before
  <2>2. CASE r.pid # p
    BY <1>5, <1>9, <2>2, Zenon DEF Before
  <2> QED BY <2>1, <2>2, Zenon
<1>10. SentBefore'
  BY <1>5, <1>9, Records, Zenon DEF Ordered, SentBefore
<1>11. WireOrdered' /\ LogBeforeWire' /\ LogOrdered'
  BY <1>5, Zenon DEF Ordered, WireOrdered, LogBeforeWire, LogOrdered
<1> QED BY <1>7, <1>8, <1>10, <1>11, Zenon DEF Ordered

(* The record a drain sends is older than those left in the queue, and     *)
(* younger than those of its sender in the socket and in the file          *)
(* (logclient.c:56-88).                                                    *)
LEMMA OrderedDrain ==
    ASSUME LogTypeOK, Ordered, NEW p \in Senders, DrainHasWork(p), DrainOne(p)
    PROVE  Ordered'
<1>0. PICK v, k : v = q_peek(queue[p]) /\ k = queue[p].taken + 1
  BY Zenon
<1>1. ~q_empty(queue[p]) /\ queue[p] \in Queue(Record)
  BY Zenon DEF DrainHasWork, DrainOne, LogTypeOK
<1>2. queue'[p] = q_dequeue(queue[p])
  BY Zenon DEF DrainOne, AfterSend, LogTypeOK
<1>3. /\ v \in Record /\ k \in DOMAIN queue[p].items
      /\ (queue'[p].items = <<>> \/ (queue'[p].items = queue[p].items /\ queue'[p].taken = k))
  BY <1>0, <1>1, <1>2, Dequeued
<1>4. v = queue[p].items[k] /\ k > queue[p].taken /\ k \in Nat
  BY <1>0, Records DEF q_peek
<1>5. /\ nextSeq' = nextSeq /\ log' = log
      /\ (wire' = wire \/ wire' = Append(wire, v))
      /\ \A q \in Senders : q # p => queue'[q] = queue[q]
  BY <1>0, Zenon DEF DrainOne, LogTypeOK, daemonVars
<1>6. v.pid = p /\ v.seq \in Nat
  BY <1>3, <1>4, Zenon DEF Ordered, QueueOwn, Record
<1>7. \A i \in DOMAIN queue'[p].items :
         i \in DOMAIN queue[p].items /\ queue'[p].items[i] = queue[p].items[i]
  BY <1>3
<1>8. \A q \in Senders : QueueOwn(q)' /\ QueueOrdered(q)'
  <2>1. QueueOwn(p)' /\ QueueOrdered(p)'
    BY <1>5, <1>7 DEF Ordered, QueueOwn, QueueOrdered
  <2> QED BY <1>5, <2>1 DEF Ordered, QueueOwn, QueueOrdered
<1>9. ASSUME NEW r, r.pid \in Senders, Before(r)
      PROVE  Before(r)'
  <2>1. CASE r.pid = p
    <3>1. /\ r.seq < nextSeq[p] /\ \A i \in DOMAIN queue[p].items :
                                         i > queue[p].taken => r.seq < queue[p].items[i].seq
      BY <1>9, <2>1, Zenon DEF Before
    <3>2. queue[p].taken \in Nat /\ queue[p].items \in Seq(Record)
      BY Records, Zenon
    <3>3. \A i \in DOMAIN queue'[p].items : i > queue'[p].taken => r.seq < queue'[p].items[i].seq
      <4>1. CASE queue'[p].items = <<>>
        BY <4>1
      <4>2. CASE queue'[p].items = queue[p].items /\ queue'[p].taken = k
        <5>1. \A i \in DOMAIN queue[p].items : i > k => i > queue[p].taken
          BY <1>4, <3>2
        <5> QED  BY <3>1, <4>2, <5>1, Zenon
      <4> QED  BY <1>3, <4>1, <4>2, Zenon
    <3> QED  BY <1>5, <2>1, <3>1, <3>3, Zenon DEF Before
  <2>2. CASE r.pid # p
    BY <1>5, <1>9, <2>2, Zenon DEF Before
  <2> QED BY <2>1, <2>2, Zenon
<1>10. Before(v)'
  <2>1. v.seq < nextSeq'[p]
    BY <1>3, <1>4, <1>5, Zenon DEF Ordered, QueueOwn
  <2>2. \A i \in DOMAIN queue'[p].items : i > queue'[p].taken => v.seq < queue'[p].items[i].seq
    BY <1>3, <1>4, <1>7, Records, SMTT(30) DEF Ordered, QueueOrdered
  <2> QED BY <1>6, <2>1, <2>2, Zenon DEF Before
<1>11. /\ \A i \in DOMAIN wire' : \/ i \in DOMAIN wire /\ wire'[i] = wire[i]
                                  \/ i = Len(wire) + 1 /\ wire'[i] = v
       /\ \A i \in DOMAIN wire : i \in Nat /\ i < Len(wire) + 1
       /\ Len(wire) \in Nat
  <2>1. wire \in Seq(Record) /\ Len(wire) \in Nat
    BY DEF LogTypeOK
  <2> QED BY <1>3, <1>5, <2>1, Appended, SMTT(60)
<1>12. SentBefore'
  <2>1. ASSUME NEW i \in DOMAIN wire' PROVE Before(wire[i])'
    <3>1. PICK r : r = wire'[i]
      BY Zenon
    <3>2. r = v \/ (i \in DOMAIN wire /\ r = wire[i])
      BY <1>11, <3>1, Zenon
    <3>3. Before(r)'
      BY <1>9, <1>10, <3>2, Records, Zenon DEF Ordered, SentBefore
    <3> QED BY <3>1, <3>3, Zenon DEF Before
  <2>2. ASSUME NEW i \in DOMAIN log' PROVE Before(log[i])'
    <3>1. PICK r : r = log[i] /\ i \in DOMAIN log
      BY <1>5, Zenon
    <3>2. Before(r)'
      BY <1>9, <3>1, Records, Zenon DEF Ordered, SentBefore
    <3> QED BY <1>5, <3>1, <3>2, Zenon DEF Before
  <2> QED BY <2>1, <2>2, Zenon DEF SentBefore
<1>13. /\ \A i \in DOMAIN wire : wire[i].pid = p => wire[i].seq < v.seq
       /\ \A i \in DOMAIN log : log[i].pid = p => log[i].seq < v.seq
  BY <1>3, <1>4, Zenon DEF Ordered, SentBefore, Before
<1>14. WireOrdered'
  BY <1>6, <1>11, <1>13 DEF Ordered, WireOrdered
<1>15. LogBeforeWire'
  BY <1>5, <1>6, <1>11, <1>13, SMTT(30) DEF Ordered, LogBeforeWire
<1>16. LogOrdered'
  BY <1>5, Zenon DEF Ordered, LogOrdered
<1> QED BY <1>8, <1>12, <1>14, <1>15, <1>16, Zenon DEF Ordered

(* tetrislogd moves the oldest datagram to the end of the file.            *)
LEMMA OrderedReceive ==
    ASSUME LogTypeOK, Ordered, Receive
    PROVE  Ordered'
<1>1. wire \in Seq(Record) /\ wire # <<>> /\ log \in Seq(Record)
  BY Zenon DEF Receive, LogTypeOK
<1>2. /\ wire' = Tail(wire) /\ log' = Append(log, wire[1])
      /\ nextSeq' = nextSeq /\ queue' = queue
  BY <1>1 DEF Receive, clientVars
<1>3. wire[1] \in Record /\ 1 \in DOMAIN wire
  BY <1>1
<1>4. \A i \in DOMAIN wire' : /\ i + 1 \in DOMAIN wire /\ wire'[i] = wire[i + 1]
                              /\ i \in Nat /\ 1 < i + 1
  BY <1>1, <1>2
<1>5. /\ \A i \in DOMAIN log' : \/ i \in DOMAIN log /\ log'[i] = log[i]
                                \/ i = Len(log) + 1 /\ log'[i] = wire[1]
      /\ \A i \in DOMAIN log : i \in Nat /\ i < Len(log) + 1
      /\ Len(log) \in Nat
  BY <1>1, <1>2, <1>3, Appended
<1>6. \A q \in Senders : QueueOwn(q)' /\ QueueOrdered(q)'
  BY <1>2, Zenon DEF Ordered, QueueOwn, QueueOrdered
<1>7. SentBefore'
  <2>1. ASSUME NEW r PROVE Before(r)' = Before(r)
    BY <1>2, Zenon DEF Before
  <2> QED BY <1>3, <1>4, <1>5, <2>1, Zenon DEF Ordered, SentBefore
<1>8. WireOrdered'
  BY <1>4 DEF Ordered, WireOrdered
<1>9. LogBeforeWire'
  BY <1>3, <1>4, <1>5 DEF Ordered, LogBeforeWire, WireOrdered
<1>10. LogOrdered'
  BY <1>3, <1>5 DEF Ordered, LogOrdered, LogBeforeWire
<1> QED BY <1>6, <1>7, <1>8, <1>9, <1>10, Zenon DEF Ordered

(* Closing the socket only loses datagrams.                                *)
LEMMA OrderedTerminate ==
    ASSUME LogTypeOK, Ordered, Terminate
    PROVE  Ordered'
<1>1. wire' = <<>> /\ UNCHANGED <<queue, nextSeq, log>> /\ DOMAIN <<>> = {}
  BY DEF Terminate, clientVars
<1>2. \A q \in Senders : QueueOwn(q)' /\ QueueOrdered(q)'
  BY <1>1, Zenon DEF Ordered, QueueOwn, QueueOrdered
<1>3. SentBefore'
  BY <1>1 DEF Ordered, SentBefore, Before
<1>4. WireOrdered' /\ LogBeforeWire' /\ LogOrdered'
  BY <1>1, Zenon DEF Ordered, WireOrdered, LogBeforeWire, LogOrdered
<1> QED BY <1>2, <1>3, <1>4, Zenon DEF Ordered

(* The parts of LogInv that are about what a process does.                 *)
Busy(p) == (pc[p] = "unborn" => nextSeq[p] = 0) /\ DrainHasWork(p)

(* A sender that is left alone stays as it is.                             *)
LEMMA BusyStays ==
    ASSUME \A q \in Senders : Busy(q), UNCHANGED clientVars
    PROVE  (\A q \in Senders : Busy(q))'
BY Zenon DEF Busy, DrainHasWork, clientVars

(* A drain only starts, and only goes on, with a record and with budget;   *)
(* only the master, which runs, counts before others are forked.           *)
LEMMA BusySender ==
    ASSUME LogTypeOK, \A q \in Senders : Busy(q), NEW p \in Senders,
           \/ Fork(p) \/ log_client_push(p) \/ Close(p) \/ DrainBegin(p) \/ DrainOne(p) \/ Die(p)
    PROVE  (\A q \in Senders : Busy(q))'
<1> SUFFICES ASSUME NEW q \in Senders PROVE Busy(q)'
  BY Zenon
<1>0. Busy(q) /\ Busy(p)
  BY Zenon
<1> USE DEF Busy, DrainHasWork
<1>1. CASE Fork(p)
  BY <1>0, <1>1, Zenon DEF Fork, LogTypeOK
<1>2. CASE log_client_push(p)
  BY <1>0, <1>2, Zenon DEF log_client_push, LogTypeOK
<1>3. CASE Close(p)
  BY <1>0, <1>3, BatchType, Zenon DEF Close, LogTypeOK
<1>4. CASE DrainBegin(p)
  BY <1>0, <1>4, BatchType, Zenon DEF DrainBegin, DrainDue, LogTypeOK
<1>5. CASE DrainOne(p)
  <2>1. CASE q # p
    BY <1>0, <1>5, <2>1, Zenon DEF DrainOne, LogTypeOK
  <2>2. CASE q = p
    <3>1. /\ budget'[p] = budget[p] - 1 /\ queue'[p] = AfterSend(queue[p])
          /\ pc'[p] \in {"run", "closed", pc[p]} /\ budget[p] \in Nat /\ budget[p] > 0
          /\ pc[p] \in {"drain", "close"}
      BY <1>0, <1>5, BatchType DEF DrainOne, LogTypeOK
    <3>2. pc'[p] \in {"drain", "close"} => budget[p] # 1 /\ ~q_empty(AfterSend(queue[p]))
      BY <1>5, Zenon DEF DrainOne, LogTypeOK
    <3> QED BY <2>2, <3>1, <3>2, SMTT(30)
  <2> QED BY <2>1, <2>2, Zenon
<1>6. CASE Die(p)
  BY <1>0, <1>6, Zenon DEF Die, LogTypeOK
<1> QED BY <1>1, <1>2, <1>3, <1>4, <1>5, <1>6, Zenon

(* LogInv is those two.                                                    *)
LEMMA InvParts == LogInv = (Ordered /\ \A p \in Senders : Busy(p))
BY Zenon DEF LogInv, Ordered, Busy

(* Every step of a sender or of tetrislogd keeps the shape of the state    *)
(* and the order of the records.                                           *)
LEMMA LogStep == LogTypeOK /\ LogInv /\ [LogNext]_logVars => LogTypeOK' /\ LogInv'
<1> SUFFICES ASSUME LogTypeOK, LogInv, [LogNext]_logVars PROVE LogTypeOK' /\ LogInv'
  BY Zenon
<1>0. Ordered /\ \A p \in Senders : Busy(p)
  BY InvParts, Zenon
<1>1. ASSUME NEW p \in Senders,
             \/ Fork(p) \/ log_client_push(p) \/ Close(p)
             \/ DrainBegin(p) \/ DrainOne(p) \/ Die(p)
      PROVE  LogTypeOK' /\ Ordered' /\ (\A q \in Senders : Busy(q))'
  <2>1. LogTypeOK' /\ (\A q \in Senders : Busy(q))'
    BY <1>0, <1>1, SenderTypes, BusySender, Zenon
  <2>2. CASE Fork(p)
    <3>1. UNCHANGED <<queue, wire, log>>
      BY <2>2, Zenon DEF Fork, daemonVars
    <3>2. \A q \in Senders : nextSeq'[q] \in Nat /\ nextSeq[q] <= nextSeq'[q]
      <4>1. nextSeq \in [Senders -> Nat] /\ Master \in Senders /\ nextSeq[p] = 0
        BY <1>0, <2>2, LogAssumption, Zenon DEF Fork, LogTypeOK, Busy
      <4>2. nextSeq' = [nextSeq EXCEPT ![p] = nextSeq[Master]]
        BY <2>2, Zenon DEF Fork
      <4> QED BY <4>1, <4>2
    <3> QED BY <1>0, <2>1, <3>1, <3>2, OrderedStays, Zenon
  <2>3. CASE log_client_push(p)
    BY <1>0, <2>1, <2>3, OrderedPush, Zenon
  <2>4. CASE DrainOne(p)
    BY <1>0, <2>1, <2>4, OrderedDrain, Zenon DEF Busy
  <2>5. CASE Close(p) \/ DrainBegin(p) \/ Die(p)
    <3>1. UNCHANGED <<queue, wire, log, nextSeq>>
      BY <2>5, Zenon DEF Close, DrainBegin, Die, daemonVars
    <3>2. \A q \in Senders : nextSeq'[q] \in Nat /\ nextSeq[q] <= nextSeq'[q]
      BY <3>1 DEF LogTypeOK
    <3> QED BY <1>0, <2>1, <3>1, <3>2, OrderedStays, Zenon
  <2> QED BY <1>1, <2>2, <2>3, <2>4, <2>5, Zenon
<1>2. ASSUME Start \/ Summary \/ UNCHANGED logVars
      PROVE  LogTypeOK' /\ Ordered' /\ (\A q \in Senders : Busy(q))'
  <2>1. UNCHANGED clientVars /\ UNCHANGED <<queue, wire, log, nextSeq>>
    BY <1>2, Zenon DEF Start, Summary, logVars, clientVars, daemonVars
  <2>2. LogTypeOK'
    <3>1. CASE Start \/ Summary
      BY <3>1, DaemonTypes, Zenon
    <3>2. CASE UNCHANGED logVars
      BY <3>2, Zenon DEF LogTypeOK, logVars, clientVars, daemonVars
    <3> QED BY <1>2, <3>1, <3>2, Zenon
  <2>3. \A q \in Senders : nextSeq'[q] \in Nat /\ nextSeq[q] <= nextSeq'[q]
    BY <2>1 DEF LogTypeOK
  <2> QED BY <1>0, <2>1, <2>2, <2>3, OrderedStays, BusyStays, Zenon
<1>3. ASSUME Receive \/ Terminate
      PROVE  LogTypeOK' /\ Ordered' /\ (\A q \in Senders : Busy(q))'
  <2>1. UNCHANGED clientVars
    BY <1>3, Zenon DEF Receive, Terminate
  <2> QED BY <1>0, <1>3, <2>1, DaemonTypes, OrderedReceive, OrderedTerminate, BusyStays, Zenon
<1>4. LogTypeOK' /\ Ordered' /\ (\A q \in Senders : Busy(q))'
  BY <1>1, <1>2, <1>3, Zenon DEF LogNext, SenderStep
<1> QED BY <1>4, Zenon DEF LogInv, Ordered, Busy

(* However many processes log, whatever the sizes of their queues, batches *)
(* and socket buffer, and however often tetrislogd is restarted: the       *)
(* state keeps its shape and no queue or table outgrows its array.         *)
THEOREM LogTyping == LogSpec => []LogTypeOK
<1>1. LogTypeOK /\ LogInv /\ [LogNext]_logVars => (LogTypeOK /\ LogInv)'
  BY LogStep, Zenon
<1> QED BY <1>1, TypeInit, InvInit, PTL DEF LogSpec

(* And the log file holds each process's records in the order in which it  *)
(* numbered them, none of them twice.                                      *)
THEOREM LogInOrder == LogSpec => []LogOrdered
<1>1. LogTypeOK /\ LogInv /\ [LogNext]_logVars => (LogTypeOK /\ LogInv)'
  BY LogStep, Zenon
<1>2. LogInv => LogOrdered
  BY Zenon DEF LogInv
<1> QED BY <1>1, <1>2, TypeInit, InvInit, PTL DEF LogSpec

-----------------------------------------------------------------------------
(* The records of one sender in a file or socket are counted.              *)
LEMMA FromFinite ==
    ASSUME NEW s \in Seq(Record), NEW p
    PROVE  IsFiniteSet(From(s, p)) /\ Cardinality(From(s, p)) \in Nat
<1>1. DOMAIN s = 1..Len(s) /\ Len(s) \in Nat
  OBVIOUS
<1>2. IsFiniteSet(DOMAIN s)
  BY <1>1, FS_Interval
<1>3. IsFiniteSet(From(s, p))
  BY <1>2, FS_Subset, Zenon DEF From
<1> QED  BY <1>3, FS_CardinalityType, Zenon

(* One more record at the end.                                             *)
LEMMA FromAppend ==
    ASSUME NEW s \in Seq(Record), NEW r \in Record, NEW p
    PROVE  Cardinality(From(Append(s, r), p)) = Cardinality(From(s, p)) + (IF r.pid = p THEN 1 ELSE 0)
<1>1. PICK t : t = Append(s, r)
  BY Zenon
<1>2. /\ DOMAIN t = DOMAIN s \cup {Len(s) + 1} /\ Len(s) + 1 \notin DOMAIN s
      /\ t[Len(s) + 1] = r /\ \A i \in DOMAIN s : t[i] = s[i]
  BY <1>1
<1>3. From(t, p) = IF r.pid = p THEN From(s, p) \cup {Len(s) + 1} ELSE From(s, p)
  BY <1>2, Zenon DEF From
<1>4. Len(s) + 1 \notin From(s, p)
  BY <1>2, Zenon DEF From
<1>5. Cardinality(From(s, p) \cup {Len(s) + 1}) = Cardinality(From(s, p)) + 1
  BY <1>4, FromFinite, FS_AddElement, Zenon
<1> QED  BY <1>1, <1>3, <1>5, FromFinite

(* The first record taken away.                                            *)
LEMMA FromTail ==
    ASSUME NEW s \in Seq(Record), s # <<>>, NEW p
    PROVE  Cardinality(From(s, p)) = Cardinality(From(Tail(s), p)) + (IF Head(s).pid = p THEN 1 ELSE 0)
<1>0. PICK t : t = Tail(s)
  BY Zenon
<1>1. t = Tail(s) /\ t \in Seq(Record)
  BY <1>0
<1>2. /\ \A i \in DOMAIN t : i \in Nat /\ i # 0 /\ i + 1 \in DOMAIN s /\ t[i] = s[i + 1]
      /\ \A j \in DOMAIN s : j \in Nat /\ (j # 1 => j - 1 \in DOMAIN t)
      /\ 1 \in DOMAIN s /\ s[1] = Head(s)
  BY <1>1
<1>3. PICK f : f = [i \in From(t, p) |-> i + 1]
  BY Zenon
<1>4. f \in [From(t, p) -> From(s, p) \ {1}]
  <2>1. \A i \in From(t, p) : i + 1 \in From(s, p) /\ i + 1 # 1
    BY <1>2 DEF From
  <2> QED  BY <1>3, <2>1, Zenon
<1>5. \A i, j \in From(t, p) : f[i] = f[j] => i = j
  <2>1. \A i \in From(t, p) : i \in Nat /\ f[i] = i + 1
    BY <1>2, <1>3, Zenon DEF From
  <2> QED  BY <2>1
<1>6. \A j \in From(s, p) \ {1} : \E i \in From(t, p) : f[i] = j
  <2> TAKE j \in From(s, p) \ {1}
  <2>1. j \in Nat /\ j - 1 \in DOMAIN t /\ (j - 1) + 1 = j
    BY <1>2 DEF From
  <2>2. j - 1 \in From(t, p)
    BY <1>2, <2>1, Zenon DEF From
  <2> QED  BY <1>3, <2>1, <2>2, Zenon
<1>7. ExistsBijection(From(t, p), From(s, p) \ {1})
  BY <1>4, <1>5, <1>6, Zenon DEF ExistsBijection, Bijection, Injection, Surjection, IsInjective
<1>8. IsFiniteSet(From(t, p)) /\ IsFiniteSet(From(s, p)) /\ Cardinality(From(t, p)) \in Nat /\ Cardinality(From(s, p)) \in Nat
  BY <1>1, FromFinite, Zenon
<1>9. Cardinality(From(s, p) \ {1}) = Cardinality(From(t, p))
  BY <1>7, <1>8, FS_Bijection, Zenon
<1>10. Cardinality(From(s, p) \ {1}) = IF 1 \in From(s, p) THEN Cardinality(From(s, p)) - 1 ELSE Cardinality(From(s, p))
  BY <1>8, FS_RemoveElement, Zenon
<1>11. 1 \in From(s, p) <=> Head(s).pid = p
  BY <1>2, Zenon DEF From
<1> QED  BY <1>1, <1>8, <1>9, <1>10, <1>11

(* What waits in a queue.                                                  *)
LEMMA WaitingLen ==
    ASSUME NEW q \in Queue(Record)
    PROVE  Len(Waiting(q)) = Len(q.items) - q.taken /\ Len(q.items) \in Nat /\ q.taken \in Nat
BY SMTT(30) DEF Queue, Waiting

(* Everything RecordsAccounted adds up is a number.                        *)
LEMMA Amounts ==
    ASSUME LogTypeOK, NEW p \in Senders
    PROVE  /\ nextSeq[p] \in Nat /\ base[p] \in Nat /\ dropped[p] \in Nat /\ unread[p] \in Nat
           /\ Cardinality(From(log, p)) \in Nat /\ Cardinality(From(wire, p)) \in Nat
           /\ Len(Waiting(queue[p])) \in Nat /\ queue[p] \in Queue(Record)
<1>1. log \in Seq(Record) /\ wire \in Seq(Record) /\ queue[p] \in Queue(Record)
  BY Zenon DEF LogTypeOK
<1>2. Len(Waiting(queue[p])) \in Nat
  <2>1. /\ Len(Waiting(queue[p])) = Len(queue[p].items) - queue[p].taken
        /\ Len(queue[p].items) \in Nat /\ queue[p].taken \in Nat
    BY <1>1, WaitingLen, Zenon
  <2>2. queue[p].taken <= Len(queue[p].items)
    BY <1>1, Zenon DEF Queue
  <2> QED  BY <2>1, <2>2
<1>3. nextSeq[p] \in Nat /\ base[p] \in Nat /\ dropped[p] \in Nat /\ unread[p] \in Nat
  BY Zenon DEF LogTypeOK
<1> QED  BY <1>1, <1>2, <1>3, FromFinite, Zenon

(* A forked worker has numbered nothing yet (main.c:147).                  *)
LEMMA AccountFork ==
    ASSUME LogTypeOK, LogInv, RecordsAccounted, NEW p \in Senders, Fork(p)
    PROVE  RecordsAccounted'
<1> SUFFICES ASSUME NEW q \in Senders
             PROVE  nextSeq'[q] - base'[q] = Cardinality(From(log', q)) + Cardinality(From(wire', q))
                                             + Len(Waiting(queue'[q])) + dropped'[q] + unread'[q]
  BY Zenon DEF RecordsAccounted
<1>0. /\ nextSeq[q] \in Nat /\ base[q] \in Nat /\ dropped[q] \in Nat /\ unread[q] \in Nat
      /\ Cardinality(From(log, q)) \in Nat /\ Cardinality(From(wire, q)) \in Nat
      /\ Len(Waiting(queue[q])) \in Nat
  BY Amounts, Zenon
<1>1. UNCHANGED <<log, wire, queue, dropped, unread>>
  BY Zenon DEF Fork, daemonVars
<1>2. nextSeq[q] - base[q] = Cardinality(From(log, q)) + Cardinality(From(wire, q))
                             + Len(Waiting(queue[q])) + dropped[q] + unread[q]
  BY Zenon DEF RecordsAccounted
<1>3. CASE q = p
  <2>1. nextSeq[q] = 0
    BY <1>3, Zenon DEF Fork, LogInv
  <2>2. Master \in Senders /\ nextSeq'[q] = nextSeq[Master] /\ base'[q] = nextSeq[Master]
    BY <1>3, LogAssumption, Zenon DEF Fork, LogTypeOK
  <2>3. nextSeq[Master] \in Nat
    BY <2>2, Amounts, Zenon
  <2>4. Cardinality(From(log, q)) + Cardinality(From(wire, q))
          + Len(Waiting(queue[q])) + dropped[q] + unread[q] = 0
    BY <1>2, <2>1, <1>0, SMTT(30)
  <2> QED  BY <1>1, <2>2, <2>3, <2>4
<1>4. CASE q # p
  BY <1>1, <1>2, <1>4, Zenon DEF Fork, LogTypeOK
<1> QED  BY <1>3, <1>4, Zenon

(* A numbered record is queued or counted as dropped (logclient.c:41-53).  *)
LEMMA AccountPush ==
    ASSUME LogTypeOK, LogTypeOK', RecordsAccounted, NEW p \in Senders, log_client_push(p)
    PROVE  RecordsAccounted'
<1> SUFFICES ASSUME NEW q \in Senders
             PROVE  nextSeq'[q] - base'[q] = Cardinality(From(log', q)) + Cardinality(From(wire', q))
                                             + Len(Waiting(queue'[q])) + dropped'[q] + unread'[q]
  BY Zenon DEF RecordsAccounted
<1>0. /\ nextSeq[q] \in Nat /\ base[q] \in Nat /\ dropped[q] \in Nat /\ unread[q] \in Nat
      /\ Cardinality(From(log, q)) \in Nat /\ Cardinality(From(wire, q)) \in Nat
      /\ Len(Waiting(queue[q])) \in Nat
  BY Amounts, Zenon
<1>1. UNCHANGED <<log, wire, base, unread>>
  BY Zenon DEF log_client_push, daemonVars
<1>2. nextSeq[q] - base[q] = Cardinality(From(log, q)) + Cardinality(From(wire, q))
                             + Len(Waiting(queue[q])) + dropped[q] + unread[q]
  BY Zenon DEF RecordsAccounted
<1>3. CASE q = p
  <2>1. nextSeq'[q] = nextSeq[q] + 1
    BY <1>3, Zenon DEF log_client_push, LogTypeOK
  <2>2. \/ dropped'[q] = dropped[q] + 1 /\ Len(Waiting(queue'[q])) = Len(Waiting(queue[q]))
        \/ dropped'[q] = dropped[q] /\ Len(Waiting(queue'[q])) = Len(Waiting(queue[q])) + 1
    <3>1. CASE q_full(queue[q], QueueSize)
      <4>1. dropped'[q] = dropped[q] + 1 /\ queue'[q] = queue[q]
        BY <1>3, <3>1, Zenon DEF log_client_push, LogTypeOK, q_enqueue
      <4> QED  BY <4>1, <1>0, Zenon
    <3>2. CASE ~q_full(queue[q], QueueSize)
      <4>1. dropped'[q] = dropped[q]
        BY <1>3, <3>2, Zenon DEF log_client_push, LogTypeOK
      <4>2. queue'[q] = [queue[q] EXCEPT !.items = Append(@, build_log_record(p))]
        BY <1>3, <3>2, Zenon DEF log_client_push, LogTypeOK, q_enqueue
      <4>3. queue[q] \in Queue(Record) /\ queue'[q] \in Queue(Record)
        BY Zenon DEF LogTypeOK
      <4>4. queue[q] \in [items : Seq(Record), taken : Nat]
        BY <4>3, Zenon DEF Queue
      <4>5. queue'[q].items = Append(queue[q].items, build_log_record(p)) /\ queue'[q].taken = queue[q].taken
        BY <4>2, <4>4, Zenon
      <4>6. Len(queue'[q].items) = Len(queue[q].items) + 1
        BY <4>4, <4>5
      <4>7. /\ Len(Waiting(queue[q])) = Len(queue[q].items) - queue[q].taken
            /\ Len(queue[q].items) \in Nat /\ queue[q].taken \in Nat
        BY <4>3, WaitingLen, Zenon
      <4>8. Len(Waiting(queue'[q])) = Len(queue'[q].items) - queue'[q].taken
        BY <4>3, WaitingLen, Zenon
      <4>9. Len(Waiting(queue'[q])) = Len(Waiting(queue[q])) + 1
        BY <4>5, <4>6, <4>7, <4>8
      <4> QED  BY <4>1, <4>9, Zenon
    <3> QED  BY <3>1, <3>2, Zenon
  <2>3. /\ base'[q] = base[q] /\ unread'[q] = unread[q]
        /\ Cardinality(From(log', q)) = Cardinality(From(log, q))
        /\ Cardinality(From(wire', q)) = Cardinality(From(wire, q))
    BY <1>1, Zenon
  <2>4. PICK n, b, f, s, w, d, u :
          /\ n = nextSeq[q] /\ b = base[q] /\ f = Cardinality(From(log, q)) /\ s = Cardinality(From(wire, q))
          /\ w = Len(Waiting(queue[q])) /\ d = dropped[q] /\ u = unread[q]
    BY Zenon
  <2>5. /\ n \in Nat /\ b \in Nat /\ f \in Nat /\ s \in Nat /\ w \in Nat /\ d \in Nat /\ u \in Nat
        /\ n - b = f + s + w + d + u
    BY <1>0, <1>2, <2>4, Zenon
  <2>6. (n + 1) - b = f + s + (w + 1) + d + u /\ (n + 1) - b = f + s + w + (d + 1) + u
    BY <2>5
  <2> QED  BY <2>1, <2>2, <2>3, <2>4, <2>6, Zenon
<1>4. CASE q # p
  BY <1>1, <1>2, <1>4, Zenon DEF log_client_push, LogTypeOK
<1> QED  BY <1>3, <1>4, Zenon

(* A record a drain takes is in the socket, or counted (logclient.c:56-88).*)
LEMMA AccountDrain ==
    ASSUME LogTypeOK, LogTypeOK', LogInv, RecordsAccounted, NEW p \in Senders, DrainOne(p)
    PROVE  RecordsAccounted'
<1> SUFFICES ASSUME NEW q \in Senders
             PROVE  nextSeq'[q] - base'[q] = Cardinality(From(log', q)) + Cardinality(From(wire', q))
                                             + Len(Waiting(queue'[q])) + dropped'[q] + unread'[q]
  BY Zenon DEF RecordsAccounted
<1>0. /\ nextSeq[q] \in Nat /\ base[q] \in Nat /\ dropped[q] \in Nat /\ unread[q] \in Nat
      /\ Cardinality(From(log, q)) \in Nat /\ Cardinality(From(wire, q)) \in Nat
      /\ Len(Waiting(queue[q])) \in Nat
  BY Amounts, Zenon
<1>1. UNCHANGED <<log, nextSeq, base, unread>>
  BY Zenon DEF DrainOne, daemonVars
<1>2. nextSeq[q] - base[q] = Cardinality(From(log, q)) + Cardinality(From(wire, q))
                             + Len(Waiting(queue[q])) + dropped[q] + unread[q]
  BY Zenon DEF RecordsAccounted
<1>3. PICK v : v = q_peek(queue[p])
  BY Zenon
<1>4. /\ ~q_empty(queue[p]) /\ queue[p] \in Queue(Record) /\ queue'[p] \in Queue(Record)
      /\ queue'[p] = q_dequeue(queue[p])
  BY Zenon DEF DrainOne, AfterSend, LogTypeOK, LogInv, DrainHasWork
<1>5. v \in Record /\ v.pid = p
  <2>1. v \in Record /\ queue[p].taken + 1 \in DOMAIN queue[p].items
    BY <1>3, <1>4, Dequeued, Zenon
  <2> QED  BY <1>3, <2>1, Zenon DEF LogInv, QueueOwn, q_peek
<1>6. wire' = IF Accepted THEN Append(wire, v) ELSE wire
  BY <1>3, Zenon DEF DrainOne
<1>7. wire \in Seq(Record)
  BY Zenon DEF LogTypeOK
<1>8. Cardinality(From(wire', q)) = Cardinality(From(wire, q)) + (IF Accepted /\ p = q THEN 1 ELSE 0)
  <2>1. CASE Accepted
    BY <1>5, <1>6, <1>7, <2>1, FromAppend, Zenon
  <2>2. CASE ~Accepted
    BY <1>6, <2>2, <1>0
  <2> QED  BY <2>1, <2>2, Zenon
<1>9. dropped'[q] = dropped[q] + (IF ~Accepted /\ p = q THEN 1 ELSE 0)
  <2>1. dropped \in [Senders -> Nat] /\ dropped' = Refused(p)
    BY Zenon DEF DrainOne, LogTypeOK
  <2> QED  BY <2>1 DEF Refused
<1>10. Len(Waiting(queue'[q])) = Len(Waiting(queue[q])) - (IF p = q THEN 1 ELSE 0)
  <2>1. CASE q = p
    <3>1. /\ Len(Waiting(queue[p])) = Len(queue[p].items) - queue[p].taken
          /\ Len(queue[p].items) \in Nat /\ queue[p].taken \in Nat
      BY <1>4, WaitingLen, Zenon
    <3>2. Len(Waiting(queue'[p])) = Len(queue'[p].items) - queue'[p].taken
      BY <1>4, WaitingLen, Zenon
    <3>3. Len(queue'[p].items) - queue'[p].taken = Len(queue[p].items) - queue[p].taken - 1
      <4>1. CASE queue[p].taken + 1 = Len(queue[p].items)
        BY <1>4, <3>1, <4>1 DEF q_dequeue, q_init
      <4>2. CASE queue[p].taken + 1 # Len(queue[p].items)
        BY <1>4, <3>1, <4>2 DEF q_dequeue, Queue
      <4> QED  BY <4>1, <4>2, Zenon
    <3> QED  BY <2>1, <3>1, <3>2, <3>3, Zenon
  <2>2. CASE q # p
    <3>1. queue'[q] = queue[q]
      BY <2>2, Zenon DEF DrainOne, LogTypeOK
    <3>2. \A n \in Nat : n = n - 0
      OBVIOUS
    <3>3. Len(Waiting(queue[q])) = Len(Waiting(queue[q])) - 0
      BY <1>0, <3>2, Zenon
    <3> QED  BY <2>2, <3>1, <3>3, Zenon
  <2> QED  BY <2>1, <2>2, Zenon
<1>11. /\ nextSeq'[q] = nextSeq[q] /\ base'[q] = base[q] /\ unread'[q] = unread[q]
       /\ Cardinality(From(log', q)) = Cardinality(From(log, q))
  BY <1>1, Zenon
<1>12. PICK n, b, f, w, l, d, u :
         /\ n = nextSeq[q] /\ b = base[q] /\ f = Cardinality(From(log, q)) /\ w = Cardinality(From(wire, q))
         /\ l = Len(Waiting(queue[q])) /\ d = dropped[q] /\ u = unread[q]
  BY Zenon
<1>13. /\ n \in Nat /\ b \in Nat /\ f \in Nat /\ w \in Nat /\ l \in Nat /\ d \in Nat /\ u \in Nat
       /\ n - b = f + w + l + d + u
  BY <1>0, <1>2, <1>12, Zenon
<1>14. PICK w1, l1, d1 :
         w1 = Cardinality(From(wire', q)) /\ l1 = Len(Waiting(queue'[q])) /\ d1 = dropped'[q]
  BY Zenon
<1>15. /\ w1 = w + (IF Accepted /\ p = q THEN 1 ELSE 0) /\ l1 = l - (IF p = q THEN 1 ELSE 0)
       /\ d1 = d + (IF ~Accepted /\ p = q THEN 1 ELSE 0)
  BY <1>8, <1>9, <1>10, <1>12, <1>14, Zenon
<1>16. n - b = f + w1 + l1 + d1 + u
  BY <1>13, <1>15
<1> QED  BY <1>11, <1>12, <1>14, <1>16, Zenon

(* The datagram tetrislogd reads is in the file (tetrislogd/main.c:279-308).*)
LEMMA AccountReceive ==
    ASSUME LogTypeOK, RecordsAccounted, Receive
    PROVE  RecordsAccounted'
<1> SUFFICES ASSUME NEW q \in Senders
             PROVE  nextSeq'[q] - base'[q] = Cardinality(From(log', q)) + Cardinality(From(wire', q))
                                             + Len(Waiting(queue'[q])) + dropped'[q] + unread'[q]
  BY Zenon DEF RecordsAccounted
<1>0. /\ nextSeq[q] \in Nat /\ base[q] \in Nat /\ dropped[q] \in Nat /\ unread[q] \in Nat
      /\ Cardinality(From(log, q)) \in Nat /\ Cardinality(From(wire, q)) \in Nat
      /\ Len(Waiting(queue[q])) \in Nat
  BY Amounts, Zenon
<1>1. UNCHANGED <<nextSeq, base, queue, dropped, unread>>
  BY Zenon DEF Receive, clientVars
<1>2. nextSeq[q] - base[q] = Cardinality(From(log, q)) + Cardinality(From(wire, q))
                             + Len(Waiting(queue[q])) + dropped[q] + unread[q]
  BY Zenon DEF RecordsAccounted
<1>3. /\ wire \in Seq(Record) /\ wire # <<>> /\ log \in Seq(Record)
      /\ wire' = Tail(wire) /\ log' = Append(log, Head(wire))
  BY Zenon DEF Receive, LogTypeOK
<1>4. Head(wire) \in Record /\ Tail(wire) \in Seq(Record)
  BY <1>3
<1>5. Cardinality(From(log', q)) = Cardinality(From(log, q)) + (IF Head(wire).pid = q THEN 1 ELSE 0)
  BY <1>3, <1>4, FromAppend, Zenon
<1>6. Cardinality(From(wire, q)) = Cardinality(From(wire', q)) + (IF Head(wire).pid = q THEN 1 ELSE 0)
  BY <1>3, FromTail, Zenon
<1>7. Cardinality(From(wire', q)) \in Nat
  BY <1>3, <1>4, FromFinite, Zenon
<1>8. PICK n, b, f, w, l, d, u, f1, w1 :
         /\ n = nextSeq[q] /\ b = base[q] /\ f = Cardinality(From(log, q)) /\ w = Cardinality(From(wire, q))
         /\ l = Len(Waiting(queue[q])) /\ d = dropped[q] /\ u = unread[q]
         /\ f1 = Cardinality(From(log', q)) /\ w1 = Cardinality(From(wire', q))
  BY Zenon
<1>9. /\ n \in Nat /\ b \in Nat /\ f \in Nat /\ w \in Nat /\ l \in Nat /\ d \in Nat /\ u \in Nat /\ w1 \in Nat
      /\ n - b = f + w + l + d + u
  BY <1>0, <1>2, <1>7, <1>8, Zenon
<1>10. PICK e : e = IF Head(wire).pid = q THEN 1 ELSE 0
  BY Zenon
<1>11. e \in {0, 1} /\ f1 = f + e /\ w = w1 + e
  BY <1>5, <1>6, <1>8, <1>10, Zenon
<1>12. n - b = f1 + w1 + l + d + u
  BY <1>9, <1>11, SMTT(30)
<1> QED  BY <1>1, <1>8, <1>12, Zenon

(* What the closed socket held is what the daemon left unread.             *)
LEMMA AccountTerminate ==
    ASSUME LogTypeOK, RecordsAccounted, Terminate
    PROVE  RecordsAccounted'
<1> SUFFICES ASSUME NEW q \in Senders
             PROVE  nextSeq'[q] - base'[q] = Cardinality(From(log', q)) + Cardinality(From(wire', q))
                                             + Len(Waiting(queue'[q])) + dropped'[q] + unread'[q]
  BY Zenon DEF RecordsAccounted
<1>0. /\ nextSeq[q] \in Nat /\ base[q] \in Nat /\ dropped[q] \in Nat /\ unread[q] \in Nat
      /\ Cardinality(From(log, q)) \in Nat /\ Cardinality(From(wire, q)) \in Nat
      /\ Len(Waiting(queue[q])) \in Nat
  BY Amounts, Zenon
<1>1. UNCHANGED <<nextSeq, base, queue, dropped, log>>
  BY Zenon DEF Terminate, clientVars
<1>2. nextSeq[q] - base[q] = Cardinality(From(log, q)) + Cardinality(From(wire, q))
                             + Len(Waiting(queue[q])) + dropped[q] + unread[q]
  BY Zenon DEF RecordsAccounted
<1>3. unread'[q] = unread[q] + Cardinality(From(wire, q))
  BY Zenon DEF Terminate, From
<1>4. From(wire', q) = {}
  BY DEF Terminate, From
<1>5. Cardinality(From(wire', q)) = 0
  BY <1>4, FS_EmptySet, Zenon
<1> QED  BY <1>1, <1>2, <1>3, <1>5, <1>0, SMTT(30)

(* A step that moves no record keeps the account.                          *)
LEMMA AccountStays ==
    ASSUME RecordsAccounted, UNCHANGED <<nextSeq, base, log, wire, queue, dropped, unread>>
    PROVE  RecordsAccounted'
BY Zenon DEF RecordsAccounted

(* No record vanishes: every number a process has used is the number of a  *)
(* record that is in the file, in the socket or in its queue, or that its  *)
(* sender counted as dropped, or that tetrislogd left in its socket.       *)
THEOREM RecordsKept == LogSpec => []RecordsAccounted
<1> DEFINE Inv == LogTypeOK /\ LogInv /\ RecordsAccounted
<1>1. LogInit => RecordsAccounted
  <2> SUFFICES ASSUME LogInit, NEW p \in Senders
               PROVE  nextSeq[p] - base[p] = Cardinality(From(log, p)) + Cardinality(From(wire, p))
                                             + Len(Waiting(queue[p])) + dropped[p] + unread[p]
    BY Zenon DEF RecordsAccounted
  <2>1. From(log, p) = {} /\ From(wire, p) = {}
    BY DEF LogInit, From
  <2>2. Cardinality({}) = 0
    BY FS_EmptySet, Zenon
  <2>3. queue[p] = q_init /\ q_init \in Queue(Record)
    BY DEF LogInit, Queue, q_init
  <2>4. Len(Waiting(queue[p])) = Len(queue[p].items) - queue[p].taken
    BY <2>3, WaitingLen, Zenon
  <2>5. Len(Waiting(queue[p])) = 0
    BY <2>3, <2>4 DEF q_init
  <2>6. nextSeq[p] = 0 /\ base[p] = 0 /\ dropped[p] = 0 /\ unread[p] = 0
    BY Zenon DEF LogInit
  <2>7. Cardinality(From(log, p)) = 0 /\ Cardinality(From(wire, p)) = 0
    BY <2>1, <2>2, Zenon
  <2> QED  BY <2>5, <2>6, <2>7
<1>2. Inv /\ [LogNext]_logVars => Inv'
  <2> SUFFICES ASSUME LogTypeOK, LogInv, RecordsAccounted, [LogNext]_logVars
               PROVE  LogTypeOK' /\ LogInv' /\ RecordsAccounted'
    BY Zenon DEF Inv
  <2>1. LogTypeOK' /\ LogInv'
    BY LogStep, Zenon
  <2>2. CASE UNCHANGED logVars
    BY <2>1, <2>2, AccountStays, Zenon DEF logVars, clientVars, daemonVars
  <2>3. CASE Start \/ Summary
    BY <2>1, <2>3, AccountStays, Zenon DEF Start, Summary, clientVars
  <2>4. ASSUME NEW p \in Senders, Close(p) \/ DrainBegin(p) \/ Die(p)
        PROVE  RecordsAccounted'
    BY <2>4, AccountStays, Zenon DEF Close, DrainBegin, Die, daemonVars
  <2>5. ASSUME NEW p \in Senders, Fork(p) \/ log_client_push(p) \/ DrainOne(p)
        PROVE  RecordsAccounted'
    BY <2>1, <2>5, AccountFork, AccountPush, AccountDrain, Zenon
  <2>6. CASE Receive \/ Terminate
    BY <2>1, <2>6, AccountReceive, AccountTerminate, Zenon
  <2> QED  BY <2>1, <2>2, <2>3, <2>4, <2>5, <2>6, Zenon DEF LogNext, SenderStep
<1> QED  BY <1>1, <1>2, TypeInit, InvInit, PTL DEF LogSpec

-----------------------------------------------------------------------------
(* tetrislogd's table of senders: one tracker per pid, which holds the     *)
(* highest number this daemon wrote for it; while the table has room,      *)
(* every sender heard of is in it.  Lost is what GapsExact counts.         *)
Lost == UNION {{p} \X Missing(p) : p \in Tracked}

TracksLast(i) ==
    /\ trackers[i].last \in Heard(trackers[i].pid)
    /\ \A n \in Heard(trackers[i].pid) : n <= trackers[i].last

TrackInv ==
    /\ since <= Len(log)
    /\ \A p \in Senders : nextSeq[p] <= MaxRecords
    /\ \A i, j \in DOMAIN trackers : trackers[i].pid = trackers[j].pid => i = j
    /\ \A i \in DOMAIN trackers : TracksLast(i)
    /\ HasRoom => \A p \in Senders : Heard(p) # {} => p \in Tracked
    /\ IsFiniteSet(Lost) /\ total = Cardinality(Lost)

(* The numbers missing between those of a set, as in Missing.              *)
Between(H) == {n \in 0..MaxRecords : n \notin H /\ \E a, b \in H : a < n /\ n < b}

(* A number above all others opens the gap from the highest so far, and    *)
(* no other.                                                               *)
LEMMA BetweenGrows ==
    ASSUME NEW H \in SUBSET Nat, NEW l \in H, \A n \in H : n <= l,
           NEW m \in Nat, l < m, m <= MaxRecords
    PROVE  /\ Between(H \cup {m}) = Between(H) \cup ((l + 1)..(m - 1))
           /\ Between(H) \cap ((l + 1)..(m - 1)) = {}
<1>0. MaxRecords \in Nat /\ l \in Nat
  BY LogAssumption, Zenon
<1>1. ASSUME NEW n \in Between(H \cup {m}), n \notin Between(H)
      PROVE  n \in (l + 1)..(m - 1)
  <2>1. n \in 0..MaxRecords /\ n \notin H /\ n # m
    BY <1>1, Zenon DEF Between
  <2>2. PICK a, b \in H \cup {m} : a < n /\ n < b
    BY <1>1, Zenon DEF Between
  <2>3. a \in H
    BY <1>0, <2>1, <2>2
  <2>4. b \notin H
    BY <1>1, <2>1, <2>2, <2>3, Zenon DEF Between
  <2>5. l < n
    BY <1>0, <1>1, <2>1, <2>2, <2>3 DEF Between
  <2> QED  BY <1>0, <2>1, <2>2, <2>4, <2>5
<1>2. ASSUME NEW n \in Between(H)
      PROVE  n \in Between(H \cup {m}) /\ n \notin (l + 1)..(m - 1)
  <2>1. n \in 0..MaxRecords /\ n \notin H
    BY <1>2, Zenon DEF Between
  <2>2. PICK a, b \in H : a < n /\ n < b
    BY <1>2, Zenon DEF Between
  <2>3. n < l
    BY <1>0, <2>1, <2>2
  <2>4. n # m
    BY <1>0, <2>1, <2>3
  <2>5. n \in Between(H \cup {m})
    BY <2>1, <2>2, <2>4, Zenon DEF Between
  <2> QED  BY <1>0, <2>1, <2>3, <2>5
<1>3. ASSUME NEW n \in (l + 1)..(m - 1)
      PROVE  n \in Between(H \cup {m})
  <2>1. n \in 0..MaxRecords /\ l < n /\ n < m
    BY <1>0
  <2>2. n \notin H \cup {m}
    BY <1>0, <2>1
  <2> QED  BY <2>1, <2>2, Zenon DEF Between
<1>4. Between(H \cup {m}) \subseteq Between(H) \cup ((l + 1)..(m - 1))
  BY <1>1, Zenon
<1>5. Between(H) \cup ((l + 1)..(m - 1)) \subseteq Between(H \cup {m})
  BY <1>2, <1>3, Zenon
<1>6. Between(H) \cap ((l + 1)..(m - 1)) = {}
  BY <1>2, Zenon
<1> QED  BY <1>4, <1>5, <1>6, Zenon

(* Nothing is missing below or above a single number.                      *)
LEMMA BetweenOne ==
    ASSUME NEW m \in Nat
    PROVE  Between({m}) = {}
<1>1. MaxRecords \in Nat
  BY LogAssumption, Zenon
<1> QED  BY <1>1 DEF Between

(* Pairs of one sender with an interval of numbers are as many as those.   *)
LEMMA Slice ==
    ASSUME NEW q, NEW a \in Int, NEW b \in Int
    PROVE  /\ IsFiniteSet({q} \X (a..b))
           /\ Cardinality({q} \X (a..b)) = IF a > b THEN 0 ELSE b - a + 1
<1>1. PICK S : S = a..b
  BY Zenon
<1>2. IsFiniteSet(S) /\ Cardinality(S) = IF a > b THEN 0 ELSE b - a + 1
  BY <1>1, FS_Interval, Zenon
<1>3. PICK f : f = [n \in S |-> <<q, n>>]
  BY Zenon
<1>4. f \in [S -> {q} \X S] /\ \A n \in S : f[n] = <<q, n>>
  BY <1>3, Zenon
<1>5. \A m, n \in S : f[m] = f[n] => m = n
  BY <1>4
<1>6. \A x \in {q} \X S : \E n \in S : f[n] = x
  BY <1>4
<1>7. ExistsBijection(S, {q} \X S)
  <2>1. PICK P : P = {q} \X S
    BY Zenon
  <2>2. f \in [S -> P] /\ DOMAIN f = S /\ \A x \in P : \E n \in S : f[n] = x
    BY <1>4, <1>6, <2>1, Zenon
  <2>3. f \in Bijection(S, P)
    BY <1>5, <2>2, Zenon DEF Bijection, Injection, Surjection, IsInjective
  <2> QED  BY <2>1, <2>3, Zenon DEF ExistsBijection
<1> QED  BY <1>1, <1>2, <1>7, FS_Bijection

(* What the file holds of a sender is numbers.                             *)
LEMMA HeardNumbers ==
    ASSUME LogTypeOK, NEW p
    PROVE  Heard(p) \in SUBSET Nat
BY Records, Zenon DEF Heard, From

(* tetrislogd hears of one record at a time, and only of its sender        *)
(* (tetrislogd/main.c:279-308).                                            *)
LEMMA HeardGrows ==
    ASSUME LogTypeOK, Receive, since <= Len(log), NEW r, r = Head(wire), NEW p
    PROVE  Heard(p)' = IF p = r.pid THEN Heard(p) \cup {r.seq} ELSE Heard(p)
<1>1. log \in Seq(Record) /\ wire \in Seq(Record) /\ wire # <<>> /\ since \in Nat
  BY Zenon DEF LogTypeOK, Receive
<1>2. log' = Append(log, r) /\ since' = since /\ r \in Record
  BY <1>1 DEF Receive
<1>3. PICK k : k = Len(log) + 1
  BY Zenon
<1>4. /\ DOMAIN log' = DOMAIN log \cup {k} /\ k \notin DOMAIN log /\ k > since
      /\ log'[k] = r /\ \A i \in DOMAIN log : log'[i] = log[i]
  BY <1>1, <1>2, <1>3
<1>5. \A n : n \in Heard(p)' <=> \E i \in DOMAIN log' : log'[i].pid = p /\ i > since /\ log'[i].seq = n
  BY <1>2, Zenon DEF Heard, From
<1>6. \A n : n \in Heard(p) <=> \E i \in DOMAIN log : log[i].pid = p /\ i > since /\ log[i].seq = n
  BY Zenon DEF Heard, From
<1>7. \A n : n \in Heard(p)' <=> (n \in Heard(p) \/ (p = r.pid /\ n = r.seq))
  BY <1>4, <1>5, <1>6
<1> QED  BY <1>7, Zenon

(* The tracker of a sender heard again moves to the new number, and the    *)
(* total grows by the gap it opens (tetrislogd/main.c:289-299).            *)
LEMMA TrackKnown ==
    ASSUME LogTypeOK, LogInv, TrackInv, Receive, NEW r, r = Head(wire),
           r.pid \in Tracked
    PROVE  /\ \A i, j \in DOMAIN trackers' : trackers'[i].pid = trackers'[j].pid => i = j
           /\ \A i \in DOMAIN trackers' : TracksLast(i)'
           /\ Tracked' = Tracked /\ Len(trackers') = Len(trackers)
           /\ IsFiniteSet(Lost') /\ total' = Cardinality(Lost')
<1>0. PICK q, m : q = r.pid /\ m = r.seq
  BY Zenon
<1>1. /\ wire \in Seq(Record) /\ wire # <<>> /\ trackers \in Seq(Tracker) /\ total \in Nat
      /\ Track(r) /\ r \in Record /\ 1 \in DOMAIN wire /\ r = wire[1]
  <2>1. wire \in Seq(Record) /\ wire # <<>> /\ trackers \in Seq(Tracker) /\ total \in Nat /\ Track(r)
    BY Zenon DEF LogTypeOK, Receive
  <2> QED  BY <2>1
<1>2. q \in Senders /\ m \in Nat
  BY <1>0, <1>1, Zenon DEF Record
<1>3. PICK k \in DOMAIN trackers : trackers[k].pid = q
  BY <1>0, Zenon DEF Tracked
<1>4. find_tracker(r.pid) = {k}
  BY <1>0, <1>3, Zenon DEF find_tracker, TrackInv
<1>5. PICK l : l = trackers[k].last
  BY Zenon
<1>6. l \in Heard(q) /\ (\A n \in Heard(q) : n <= l) /\ Heard(q) \in SUBSET Nat
  BY <1>3, <1>5, HeardNumbers, Zenon DEF TrackInv, TracksLast
<1>7. l \in Nat /\ l < m /\ m <= MaxRecords /\ MaxRecords \in Nat
  <2>1. PICK i \in DOMAIN log : log[i].pid = q /\ log[i].seq = l
    BY <1>6, Zenon DEF Heard, From
  <2>2. l < m
    BY <1>0, <1>1, <2>1, Zenon DEF LogInv, LogBeforeWire
  <2>3. m < nextSeq[q]
    BY <1>0, <1>1, Zenon DEF LogInv, SentBefore, Before
  <2>4. nextSeq[q] <= MaxRecords /\ nextSeq[q] \in Nat /\ MaxRecords \in Nat
    BY <1>2, LogAssumption, Zenon DEF TrackInv, LogTypeOK
  <2> QED  BY <1>2, <1>6, <2>2, <2>3, <2>4
<1>8. trackers' = [i \in DOMAIN trackers |-> IF i = k THEN [trackers[i] EXCEPT !.last = m] ELSE trackers[i]]
  BY <1>0, <1>1, <1>4, Zenon DEF Track
<1>9. total' = total + (m - l - 1)
  <2>1. (CHOOSE i \in {k} : TRUE) = k
    BY Zenon
  <2>2. total' = total + Gap(trackers[k], r)
    BY <1>1, <1>4, <2>1, Zenon DEF Track
  <2>3. Gap(trackers[k], r) = m - l - 1
    BY <1>0, <1>2, <1>5, <1>7 DEF Gap
  <2> QED  BY <2>2, <2>3, Zenon
<1>10. /\ DOMAIN trackers' = DOMAIN trackers /\ trackers'[k].last = m
       /\ \A i \in DOMAIN trackers : /\ trackers'[i].pid = trackers[i].pid
                                     /\ i # k => trackers'[i].last = trackers[i].last
  <2>1. \A i \in DOMAIN trackers : trackers[i] \in Tracker
    BY <1>1, SMTT(30)
  <2> QED  BY <1>3, <1>8, <2>1, Zenon DEF Tracker
<1>11. \A p : Heard(p)' = IF p = q THEN Heard(p) \cup {m} ELSE Heard(p)
  BY <1>0, HeardGrows, Zenon DEF TrackInv
<1>12. \A i, j \in DOMAIN trackers' : trackers'[i].pid = trackers'[j].pid => i = j
  BY <1>10, ZenonT(40) DEF TrackInv
<1>13. ASSUME NEW i \in DOMAIN trackers' PROVE TracksLast(i)'
  <2>1. PICK p : p = trackers[i].pid
    BY Zenon
  <2>2. i \in DOMAIN trackers /\ trackers'[i].pid = p
    BY <1>10, <2>1, Zenon
  <2>3. trackers'[i].last \in Heard(p)' /\ \A n \in Heard(p)' : n <= trackers'[i].last
    <3>1. CASE i = k
      <4>1. p = q /\ trackers'[i].last = m /\ Heard(p)' = Heard(q) \cup {m}
        BY <1>3, <1>10, <1>11, <2>1, <3>1, Zenon
      <4>2. \A n \in Heard(q) \cup {m} : n <= m
        BY <1>2, <1>6, <1>7, SMTT(30)
      <4> QED  BY <4>1, <4>2, Zenon
    <3>2. CASE i # k
      <4>1. p # q /\ trackers'[i].last = trackers[i].last
        BY <1>3, <1>10, <2>1, <2>2, <3>2, Zenon DEF TrackInv
      <4>2. Heard(p)' = Heard(p)
        BY <1>11, <4>1, Zenon
      <4>3. TracksLast(i)
        BY <2>2, Zenon DEF TrackInv
      <4> QED  BY <2>1, <4>1, <4>2, <4>3, Zenon DEF TracksLast
    <3> QED  BY <3>1, <3>2, Zenon
  <2> QED  BY <2>2, <2>3, Zenon DEF TracksLast, Heard
<1>14. Tracked' = Tracked
  BY <1>10, Zenon DEF Tracked
<1>15. Len(trackers') = Len(trackers)
  <2>1. trackers' \in Seq(Tracker)
    BY <1>1, Tracking, Zenon
  <2> QED  BY <1>1, <1>10, <2>1
<1>16. PICK I : I = (l + 1)..(m - 1)
  BY Zenon
<1>17. Missing(q)' = Missing(q) \cup I /\ Missing(q) \cap I = {}
  <2>1. PICK H : H = Heard(q)
    BY Zenon
  <2>2. Missing(q) = Between(H) /\ Missing(q)' = Between(H \cup {m})
    <3>1. Heard(q)' = H \cup {m}
      BY <1>11, <2>1, Zenon
    <3> QED  BY <2>1, <3>1, Zenon DEF Missing, Between
  <2>3. Between(H \cup {m}) = Between(H) \cup I /\ Between(H) \cap I = {}
    BY <1>2, <1>6, <1>7, <1>16, <2>1, BetweenGrows, Zenon
  <2> QED  BY <2>2, <2>3, Zenon
<1>18. \A p : p # q => Missing(p)' = Missing(p)
  BY <1>11, Zenon DEF Missing
<1>19. PICK D : D = {q} \X I
  BY Zenon
<1>20. Lost' = Lost \cup D
  <2>1. q \in Tracked
    BY <1>0, Zenon
  <2>2. ASSUME NEW x \in Lost' PROVE x \in Lost \cup D
    <3>1. PICK p \in Tracked : x \in {p} \X Missing(p)'
      BY <1>14, <2>2, Zenon DEF Lost
    <3>2. CASE p = q
      <4>1. x \in {q} \X Missing(q) \/ x \in D
        BY <1>17, <1>19, <3>1, <3>2, Zenon
      <4> QED  BY <2>1, <4>1, Zenon DEF Lost
    <3>3. CASE p # q
      BY <1>18, <3>1, <3>3, Zenon DEF Lost
    <3> QED  BY <3>2, <3>3, Zenon
  <2>3. ASSUME NEW x \in Lost PROVE x \in Lost'
    <3>1. PICK p \in Tracked : x \in {p} \X Missing(p)
      BY <2>3, Zenon DEF Lost
    <3>2. x \in {p} \X Missing(p)'
      BY <1>17, <1>18, <3>1, Zenon
    <3> QED  BY <1>14, <3>1, <3>2, Zenon DEF Lost
  <2>4. ASSUME NEW x \in D PROVE x \in Lost'
    <3>1. x \in {q} \X Missing(q)'
      BY <1>17, <1>19, <2>4, Zenon
    <3> QED  BY <1>14, <2>1, <3>1, Zenon DEF Lost
  <2> QED  BY <2>2, <2>3, <2>4, Zenon
<1>21. Lost \cap D = {}
  <2> SUFFICES ASSUME NEW x \in Lost, x \in D PROVE FALSE
    BY Zenon
  <2>1. PICK p \in Tracked : x \in {p} \X Missing(p)
    BY Zenon DEF Lost
  <2>2. p = q /\ x[2] \in Missing(q) /\ x[2] \in I
    BY <1>19, <2>1, Zenon
  <2> QED  BY <1>17, <2>2, Zenon
<1>22. IsFiniteSet(D) /\ Cardinality(D) = m - l - 1
  <2>1. l + 1 \in Int /\ m - 1 \in Int
    BY <1>2, <1>7
  <2>2. /\ IsFiniteSet(D)
        /\ Cardinality(D) = IF l + 1 > m - 1 THEN 0 ELSE (m - 1) - (l + 1) + 1
    BY <1>16, <1>19, <2>1, Slice, Zenon
  <2> QED  BY <1>2, <1>7, <2>2
<1>23. IsFiniteSet(Lost') /\ total' = Cardinality(Lost')
  <2>1. PICK L : L = Lost
    BY Zenon
  <2>2. IsFiniteSet(L) /\ total = Cardinality(L) /\ L \cap D = {} /\ Lost' = L \cup D
    BY <1>20, <1>21, <2>1, Zenon DEF TrackInv
  <2>3. IsFiniteSet(L \cup D) /\ Cardinality(L \cup D) = Cardinality(L) + Cardinality(D) - Cardinality({})
    BY <1>22, <2>2, FS_Union
  <2>4. Cardinality({}) = 0
    BY FS_EmptySet, Zenon
  <2> QED  BY <1>1, <1>2, <1>7, <1>9, <1>22, <2>2, <2>3, <2>4
<1> QED  BY <1>12, <1>13, <1>14, <1>15, <1>23, Zenon

(* A sender heard for the first time gets a tracker and no gap while the   *)
(* table has room (tetrislogd/main.c:56-73), and none when it is full.     *)
LEMMA TrackUnknown ==
    ASSUME LogTypeOK, LogInv, TrackInv, Receive, NEW r, r = Head(wire),
           r.pid \notin Tracked
    PROVE  /\ \A i, j \in DOMAIN trackers' : trackers'[i].pid = trackers'[j].pid => i = j
           /\ \A i \in DOMAIN trackers' : TracksLast(i)'
           /\ Tracked' = IF HasRoom THEN Tracked \cup {r.pid} ELSE Tracked
           /\ Len(trackers) <= Len(trackers')
           /\ IsFiniteSet(Lost') /\ total' = Cardinality(Lost')
<1>0. PICK q, m : q = r.pid /\ m = r.seq
  BY Zenon
<1>1. /\ wire \in Seq(Record) /\ wire # <<>> /\ trackers \in Seq(Tracker) /\ total \in Nat
      /\ Track(r) /\ r \in Record
  <2>1. wire \in Seq(Record) /\ wire # <<>> /\ trackers \in Seq(Tracker) /\ total \in Nat /\ Track(r)
    BY Zenon DEF LogTypeOK, Receive
  <2> QED  BY <2>1
<1>2. q \in Senders /\ m \in Nat
  BY <1>0, <1>1, Zenon DEF Record
<1>3. find_tracker(r.pid) = {}
  BY Zenon DEF find_tracker, Tracked
<1>4. total' = total
  BY <1>1, <1>3, SMTT(30) DEF Track
<1>5. \A p : Heard(p)' = IF p = q THEN Heard(p) \cup {m} ELSE Heard(p)
  BY <1>0, HeardGrows, Zenon DEF TrackInv
<1>6. ASSUME NEW i \in DOMAIN trackers, i \in DOMAIN trackers', trackers'[i] = trackers[i]
      PROVE  TracksLast(i)'
  <2>1. PICK p : p = trackers[i].pid
    BY Zenon
  <2>2. p # q
    BY <1>0, <2>1, Zenon DEF Tracked
  <2>3. Heard(p)' = Heard(p)
    BY <1>5, <2>2, Zenon
  <2>4. trackers[i].last \in Heard(p) /\ \A n \in Heard(p) : n <= trackers[i].last
    BY <2>1, Zenon DEF TrackInv, TracksLast
  <2>5. trackers'[i].pid = p /\ trackers'[i].last = trackers[i].last
    BY <1>6, <2>1, Zenon
  <2>6. trackers'[i].last \in Heard(p)' /\ \A n \in Heard(p)' : n <= trackers'[i].last
    BY <2>3, <2>4, <2>5, Zenon
  <2> QED  BY <2>5, <2>6, Zenon DEF TracksLast, Heard
<1>7. \A p \in Tracked : Missing(p)' = Missing(p)
  BY <1>0, <1>5, Zenon DEF Missing
<1>8. CASE HasRoom
  <2>1. trackers' = Append(trackers, [pid |-> q, last |-> m])
    BY <1>0, <1>1, <1>3, <1>8, Zenon DEF Track
  <2>2. PICK k : k = Len(trackers) + 1
    BY Zenon
  <2>3. /\ DOMAIN trackers' = DOMAIN trackers \cup {k} /\ k \notin DOMAIN trackers
        /\ trackers'[k].pid = q /\ trackers'[k].last = m
        /\ \A i \in DOMAIN trackers : trackers'[i] = trackers[i]
        /\ Len(trackers') = Len(trackers) + 1 /\ Len(trackers) \in Nat
    BY <1>1, <2>1, <2>2
  <2>4. \A i \in DOMAIN trackers : trackers[i].pid # q
    BY <1>0, Zenon DEF Tracked
  <2>5. \A i, j \in DOMAIN trackers' : trackers'[i].pid = trackers'[j].pid => i = j
    BY <2>3, <2>4, Zenon DEF TrackInv
  <2>6. Heard(q) = {}
    BY <1>0, <1>2, <1>8, Zenon DEF TrackInv
  <2>7. Heard(q)' = {m}
    BY <1>5, <2>6, Zenon
  <2>8. TracksLast(k)'
    <3>1. m \in {m} /\ \A n \in {m} : n <= m
      BY <1>2
    <3>2. trackers'[k].last \in Heard(q)' /\ \A n \in Heard(q)' : n <= trackers'[k].last
      BY <2>3, <2>7, <3>1, Zenon
    <3> QED  BY <2>3, <3>2, Zenon DEF TracksLast, Heard
  <2>9. \A i \in DOMAIN trackers' : TracksLast(i)'
    BY <1>6, <2>3, <2>8, Zenon
  <2>10. Tracked' = Tracked \cup {q}
    BY <2>3 DEF Tracked
  <2>11. Missing(q)' = {}
    <3>1. Missing(q)' = Between({m})
      BY <2>7, Zenon DEF Missing, Between
    <3> QED  BY <1>2, <3>1, BetweenOne, Zenon
  <2>12. Lost' = Lost
    <3>1. ASSUME NEW x \in Lost' PROVE x \in Lost
      <4>1. PICK p \in Tracked' : x \in {p} \X Missing(p)'
        BY <3>1, Zenon DEF Lost
      <4>2. p \in Tracked /\ x \in {p} \X Missing(p)
        BY <1>7, <2>10, <2>11, <4>1, Zenon
      <4> QED  BY <4>2, Zenon DEF Lost
    <3>2. ASSUME NEW x \in Lost PROVE x \in Lost'
      <4>1. PICK p \in Tracked : x \in {p} \X Missing(p)
        BY <3>2, Zenon DEF Lost
      <4>2. p \in Tracked' /\ x \in {p} \X Missing(p)'
        BY <1>7, <2>10, <4>1, Zenon
      <4> QED  BY <4>2, Zenon DEF Lost
    <3> QED  BY <3>1, <3>2, Zenon
  <2>13. IsFiniteSet(Lost') /\ total' = Cardinality(Lost')
    BY <1>4, <2>12, Zenon DEF TrackInv
  <2>14. Len(trackers) <= Len(trackers')
    BY <2>3
  <2> QED  BY <1>0, <1>8, <2>5, <2>9, <2>10, <2>13, <2>14, Zenon
<1>9. CASE ~HasRoom
  <2>1. trackers' = trackers
    BY <1>1, <1>3, <1>9, Zenon DEF Track
  <2>2. \A i \in DOMAIN trackers' : TracksLast(i)'
    BY <1>6, <2>1, Zenon
  <2>3. Tracked' = Tracked
    BY <2>1, Zenon DEF Tracked
  <2>4. Lost' = Lost
    <3>1. ASSUME NEW x PROVE x \in Lost' <=> x \in Lost
      <4>1. x \in Lost' <=> \E p \in Tracked : x \in {p} \X Missing(p)'
        BY <2>3, Zenon DEF Lost
      <4>2. x \in Lost <=> \E p \in Tracked : x \in {p} \X Missing(p)
        BY Zenon DEF Lost
      <4> QED  BY <1>7, <4>1, <4>2, Zenon
    <3> QED  BY <3>1, Zenon
  <2>5. IsFiniteSet(Lost') /\ total' = Cardinality(Lost')
    BY <1>4, <2>4, Zenon DEF TrackInv
  <2>6. Len(trackers) <= Len(trackers')
    BY <1>1, <2>1
  <2>7. \A i, j \in DOMAIN trackers' : trackers'[i].pid = trackers'[j].pid => i = j
    BY <2>1, Zenon DEF TrackInv
  <2> QED  BY <1>9, <2>2, <2>3, <2>5, <2>6, <2>7, Zenon
<1> QED  BY <1>8, <1>9, Zenon

(* A datagram keeps the table true to the file.                            *)
LEMMA TrackReceive ==
    ASSUME LogTypeOK, LogInv, TrackInv, Receive
    PROVE  TrackInv'
<1>1. PICK r : r = Head(wire)
  BY Zenon
<1>2. /\ nextSeq' = nextSeq /\ since' = since /\ log \in Seq(Record) /\ log' = Append(log, r)
      /\ wire \in Seq(Record) /\ wire # <<>> /\ since \in Nat /\ trackers \in Seq(Tracker)
  BY <1>1, Zenon DEF Receive, clientVars, LogTypeOK
<1>3. r \in Record
  BY <1>1, <1>2
<1>4. since' <= Len(log')
  BY <1>2, <1>3 DEF TrackInv
<1>5. \A p \in Senders : nextSeq'[p] <= MaxRecords
  BY <1>2, Zenon DEF TrackInv
<1>6. /\ \A i, j \in DOMAIN trackers' : trackers'[i].pid = trackers'[j].pid => i = j
      /\ \A i \in DOMAIN trackers' : TracksLast(i)'
      /\ IsFiniteSet(Lost') /\ total' = Cardinality(Lost')
      /\ Len(trackers) <= Len(trackers')
      /\ Tracked' = IF r.pid \notin Tracked /\ HasRoom THEN Tracked \cup {r.pid} ELSE Tracked
  <2>1. CASE r.pid \in Tracked
    <3>1. Len(trackers) \in Nat
      BY <1>2
    <3>2. Tracked' = Tracked /\ Len(trackers') = Len(trackers)
      BY <1>1, <2>1, TrackKnown, Zenon
    <3>3. /\ \A i, j \in DOMAIN trackers' : trackers'[i].pid = trackers'[j].pid => i = j
          /\ \A i \in DOMAIN trackers' : TracksLast(i)'
          /\ IsFiniteSet(Lost') /\ total' = Cardinality(Lost')
      BY <1>1, <2>1, TrackKnown, Zenon
    <3>4. Len(trackers) <= Len(trackers')
      BY <3>1, <3>2, SMTT(30)
    <3> QED  BY <2>1, <3>2, <3>3, <3>4, Zenon
  <2>2. CASE r.pid \notin Tracked
    BY <1>1, <2>2, TrackUnknown, Zenon
  <2> QED  BY <2>1, <2>2, Zenon
<1>7. ASSUME HasRoom', NEW p \in Senders, Heard(p)' # {}
      PROVE  p \in Tracked'
  <2>1. HasRoom
    <3>1. trackers' \in Seq(Tracker)
      BY <1>1, <1>3, Tracking, Zenon DEF Receive
    <3>2. Len(trackers) \in Nat /\ Len(trackers') \in Nat /\ MaxTracked \in Nat
      BY <1>2, <3>1, LogAssumption, SMTT(30)
    <3> QED  BY <1>6, <1>7, <3>2 DEF HasRoom
  <2>2. Heard(p)' = IF p = r.pid THEN Heard(p) \cup {r.seq} ELSE Heard(p)
    BY <1>1, HeardGrows, Zenon DEF TrackInv
  <2>3. CASE p = r.pid
    BY <1>6, <2>1, <2>3, Zenon
  <2>4. CASE p # r.pid
    <3>1. p \in Tracked
      BY <1>7, <2>1, <2>2, <2>4, Zenon DEF TrackInv
    <3> QED  BY <1>6, <3>1, Zenon
  <2> QED  BY <2>3, <2>4, Zenon
<1> QED  BY <1>4, <1>5, <1>6, <1>7, Zenon DEF TrackInv

(* A daemon that starts has heard of nobody (tetrislogd/main.c:203-246).   *)
LEMMA TrackStart ==
    ASSUME LogTypeOK, TrackInv, Start
    PROVE  TrackInv'
<1>1. /\ trackers' = <<>> /\ total' = 0 /\ since' = Len(log) /\ log' = log /\ nextSeq' = nextSeq
      /\ log \in Seq(Record)
  BY Zenon DEF Start, clientVars, LogTypeOK
<1>2. DOMAIN trackers' = {}
  BY <1>1, SMTT(30)
<1>3. Tracked' = {}
  BY <1>2, Zenon DEF Tracked
<1>4. Lost' = {}
  BY <1>3, Zenon DEF Lost
<1>5. \A p : Heard(p)' = {}
  <2>1. \A i \in DOMAIN log' : ~(i > since')
    BY <1>1
  <2> QED  BY <2>1, Zenon DEF Heard, From
<1>6. IsFiniteSet(Lost') /\ total' = Cardinality(Lost')
  BY <1>1, <1>4, FS_EmptySet, Zenon
<1>7. since' <= Len(log')
  BY <1>1
<1>8. \A p \in Senders : nextSeq'[p] <= MaxRecords
  BY <1>1, Zenon DEF TrackInv
<1> QED  BY <1>2, <1>5, <1>6, <1>7, <1>8, Zenon DEF TrackInv

(* Steps that neither write nor track leave the table true to the file.    *)
LEMMA TrackStays ==
    ASSUME TrackInv, UNCHANGED <<log, since, trackers, total>>,
           \A p \in Senders : nextSeq'[p] <= MaxRecords
    PROVE  TrackInv'
<1>1. /\ \A p : Heard(p)' = Heard(p) /\ Missing(p)' = Missing(p)
      /\ Tracked' = Tracked /\ HasRoom' = HasRoom
  BY DEF Heard, From, Missing, Tracked, HasRoom
<1>2. Lost' = Lost
  BY <1>1, Zenon DEF Lost
<1>3. \A i \in DOMAIN trackers : TracksLast(i)' = TracksLast(i)
  BY Zenon DEF TracksLast, Heard, From
<1> QED  BY <1>1, <1>2, <1>3, Zenon DEF TrackInv

(* The total of tetrislogd counts the missing records exactly, for every   *)
(* sender it tracks, however many there are and whatever is dropped.       *)
THEOREM GapsCounted == LogSpec => []GapsExact
<1> DEFINE Inv == LogTypeOK /\ LogInv /\ TrackInv
<1>1. LogInit => TrackInv
  <2> SUFFICES ASSUME LogInit PROVE TrackInv
    BY Zenon
  <2>1. DOMAIN trackers = {} /\ DOMAIN log = {} /\ Len(log) = 0 /\ since = 0 /\ total = 0
    BY DEF LogInit
  <2>2. Tracked = {} /\ \A p : Heard(p) = {}
    BY <2>1, Zenon DEF Tracked, Heard, From
  <2>3. Lost = {}
    BY <2>2, Zenon DEF Lost
  <2>4. IsFiniteSet(Lost) /\ total = Cardinality(Lost)
    BY <2>1, <2>3, FS_EmptySet, Zenon
  <2>5. \A p \in Senders : nextSeq[p] <= MaxRecords
    BY LogAssumption DEF LogInit
  <2> QED  BY <2>1, <2>2, <2>4, <2>5 DEF TrackInv
<1>2. Inv /\ [LogNext]_logVars => Inv'
  <2> SUFFICES ASSUME LogTypeOK, LogInv, TrackInv, [LogNext]_logVars
               PROVE  LogTypeOK' /\ LogInv' /\ TrackInv'
    BY Zenon DEF Inv
  <2>1. LogTypeOK' /\ LogInv'
    BY LogStep, Zenon
  <2>2. CASE UNCHANGED logVars \/ Summary \/ Terminate
    <3>1. UNCHANGED <<log, since, trackers, total, nextSeq>>
      BY <2>2, Zenon DEF logVars, clientVars, daemonVars, Summary, Terminate
    <3>2. \A p \in Senders : nextSeq'[p] <= MaxRecords
      BY <3>1, Zenon DEF TrackInv
    <3> QED  BY <2>1, <3>1, <3>2, TrackStays, Zenon
  <2>3. ASSUME NEW p \in Senders,
               Fork(p) \/ log_client_push(p) \/ DrainOne(p) \/ Close(p) \/ DrainBegin(p) \/ Die(p)
        PROVE  TrackInv'
    <3>1. UNCHANGED <<log, since, trackers, total>>
      BY <2>3, Zenon DEF Fork, log_client_push, DrainOne, Close, DrainBegin, Die, daemonVars
    <3>2. \A q \in Senders : nextSeq'[q] <= MaxRecords
      <4>1. nextSeq \in [Senders -> Nat] /\ Master \in Senders /\ MaxRecords \in Nat
        BY LogAssumption, Zenon DEF LogTypeOK
      <4>2. \A q \in Senders : nextSeq[q] <= MaxRecords
        BY Zenon DEF TrackInv
      <4>3. CASE Fork(p)
        BY <4>1, <4>2, <4>3, Zenon DEF Fork
      <4>4. CASE log_client_push(p)
        BY <4>1, <4>2, <4>4, SMTT(30) DEF log_client_push
      <4>5. CASE DrainOne(p) \/ Close(p) \/ DrainBegin(p) \/ Die(p)
        BY <4>2, <4>5, Zenon DEF DrainOne, Close, DrainBegin, Die
      <4> QED  BY <2>3, <4>3, <4>4, <4>5, Zenon
    <3> QED  BY <3>1, <3>2, TrackStays, Zenon
  <2>4. CASE Start
    BY <2>1, <2>4, TrackStart, Zenon
  <2>5. CASE Receive
    BY <2>1, <2>5, TrackReceive, Zenon
  <2> QED  BY <2>1, <2>2, <2>3, <2>4, <2>5, Zenon DEF LogNext, SenderStep
<1>3. TrackInv => GapsExact
  BY Zenon DEF TrackInv, GapsExact, Lost
<1> QED  BY <1>1, <1>2, <1>3, TypeInit, InvInit, PTL DEF LogSpec
=============================================================================
