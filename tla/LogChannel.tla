----------------------------- MODULE LogChannel -----------------------------
(***************************************************************************)
(* The log channel: every tetrisd process (the master and the workers it   *)
(* forks) numbers its log records and keeps them in a queue of its own     *)
(* (libtetrislog), drains that queue in batches into the datagram socket   *)
(* of tetrislogd, and tetrislogd writes what arrives and counts the gaps   *)
(* in each sender's numbers.                                               *)
(*                                                                         *)
(* A record is its sender and its number.  (A Faulty definition is a slip  *)
(* in what the definition right after it models.)                          *)
(***************************************************************************)
EXTENDS Queue, FiniteSets

CONSTANTS Senders,      \* pids of tetrisd processes
          Master,       \* the one that forks the others
          QueueSize,    \* size of a client's queue (256)
          Batch,        \* LOG_CLIENT_DRAIN_BATCH
          SockSize,     \* datagrams the daemon's socket buffers
          MaxTracked,   \* MAX_TRACKED_SENDERS
          MaxRecords,   \* bound: record numbers used
          MaxLives      \* bound: starts of tetrislogd

ASSUME LogAssumption ==
    /\ Master \in Senders
    /\ QueueSize \in Nat \ {0} /\ Batch \in Nat \ {0} /\ SockSize \in Nat \ {0}
    /\ MaxTracked \in Nat /\ MaxRecords \in Nat /\ MaxLives \in Nat

VARIABLES pc,           \* [Senders -> ...], what the process is doing
          nextSeq,      \* next_seq
          base,         \* the number next_seq had when the process began
          queue,        \* client->queue
          dropped,      \* dropped_queue_full
          budget,       \* records the drain under way may still take
          wire,         \* datagrams in the daemon's socket, oldest first
          up,           \* tetrislogd runs
          lives,        \* starts of tetrislogd
          trackers,     \* trackers[0..tracker_count-1], by sender
          total,        \* channel_dropped_total
          period,       \* channel_dropped_period
          log,          \* lines of the log file
          since,        \* length of the log file when this daemon started
          unread        \* [Senders -> Nat], datagrams a stopped daemon left

clientVars == <<pc, nextSeq, base, queue, dropped, budget>>
daemonVars == <<up, lives, trackers, total, period, log, since, unread>>
logVars == <<clientVars, wire, daemonVars>>

Record == [pid : Senders, seq : Nat]
Tracker == [pid : Senders, last : Nat]

LogInit ==
    /\ pc = [p \in Senders |-> IF p = Master THEN "run" ELSE "unborn"]
    /\ nextSeq = [p \in Senders |-> 0] /\ base = [p \in Senders |-> 0]
    /\ queue = [p \in Senders |-> q_init]
    /\ dropped = [p \in Senders |-> 0] /\ budget = [p \in Senders |-> 0]
    /\ wire = <<>>
    /\ up = FALSE /\ lives = 0
    /\ trackers = <<>> /\ total = 0 /\ period = 0
    /\ log = <<>> /\ since = 0 /\ unread = [p \in Senders |-> 0]

-----------------------------------------------------------------------------
(* The sending processes.                                                  *)

(* fork: the worker inherits next_seq, and opens a client of its own.      *)
Fork(p) ==
    /\ pc[p] = "unborn" /\ pc[Master] = "run"
    /\ pc' = [pc EXCEPT ![p] = "run"]
    /\ nextSeq' = [nextSeq EXCEPT ![p] = nextSeq[Master]]
    /\ base' = [base EXCEPT ![p] = nextSeq[Master]]
    /\ UNCHANGED <<queue, dropped, budget, wire, daemonVars>>

build_log_record(p) == [pid |-> p, seq |-> nextSeq[p]]

(* log_client_push: the number is spent even when the record is dropped.   *)
log_client_push(p) ==
    /\ pc[p] = "run" /\ nextSeq[p] < MaxRecords
    /\ nextSeq' = [nextSeq EXCEPT ![p] = @ + 1]
    /\ queue' = [queue EXCEPT ![p] = q_enqueue(@, QueueSize, build_log_record(p))]
    /\ dropped' = [dropped EXCEPT ![p] = IF q_full(queue[p], QueueSize) THEN @ + 1 ELSE @]
    /\ UNCHANGED <<pc, base, budget, wire, daemonVars>>

FaultyDrainDue(p) == up /\ ~q_empty(queue[p])   \* not while tetrislogd is away

DrainDue(p) == ~q_empty(queue[p])

(* log_client_drain is entered with something to send.                     *)
DrainBegin(p) ==
    /\ pc[p] = "run" /\ DrainDue(p)
    /\ pc' = [pc EXCEPT ![p] = "drain"]
    /\ budget' = [budget EXCEPT ![p] = Batch]
    /\ UNCHANGED <<nextSeq, base, queue, dropped, wire, daemonVars>>

(* The end of the process: one more drain, then log_client_close, with     *)
(* what is still in the queue.                                             *)
Close(p) ==
    /\ pc[p] = "run"
    /\ pc' = [pc EXCEPT ![p] = IF q_empty(queue[p]) THEN "closed" ELSE "close"]
    /\ budget' = [budget EXCEPT ![p] = Batch]
    /\ UNCHANGED <<nextSeq, base, queue, dropped, wire, daemonVars>>

(* sendto: refused when nobody is bound or the buffer is full.             *)
Accepted == up /\ Len(wire) < SockSize

FaultyResend(q) == IF Accepted THEN q ELSE q_dequeue(q)         \* kept once sent

(* The record leaves the queue, sent or not.                               *)
AfterSend(q) == q_dequeue(q)

FaultyRefused(p) == dropped     \* a refused datagram is not counted

Refused(p) == IF Accepted THEN dropped ELSE [dropped EXCEPT ![p] = @ + 1]

(* One pass of the drain loop, which ends with the batch or the queue.     *)
DrainOne(p) ==
    /\ pc[p] \in {"drain", "close"}
    /\ LET last == budget[p] = 1 \/ q_empty(AfterSend(queue[p]))
       IN  pc' = [pc EXCEPT ![p] = IF ~last THEN @ ELSE IF @ = "close" THEN "closed" ELSE "run"]
    /\ budget' = [budget EXCEPT ![p] = @ - 1]
    /\ wire' = IF Accepted THEN Append(wire, q_peek(queue[p])) ELSE wire
    /\ dropped' = Refused(p)
    /\ queue' = [queue EXCEPT ![p] = AfterSend(@)]
    /\ UNCHANGED <<nextSeq, base, daemonVars>>

(* The process dies, or exits from its lobby without a drain.              *)
Die(p) ==
    /\ pc[p] \in {"run", "drain"}
    /\ pc' = [pc EXCEPT ![p] = "closed"]
    /\ UNCHANGED <<nextSeq, base, queue, dropped, budget, wire, daemonVars>>

-----------------------------------------------------------------------------
(* tetrislogd.                                                             *)

Start ==
    /\ ~up /\ lives < MaxLives
    /\ up' = TRUE /\ lives' = lives + 1
    /\ trackers' = <<>> /\ total' = 0 /\ period' = 0
    /\ since' = Len(log)
    /\ UNCHANGED <<clientVars, wire, log, unread>>

FaultyHasRoom == Len(trackers) <= MaxTracked

HasRoom == Len(trackers) < MaxTracked

(* find_tracker: the slot of pid, or else a new one while there is room.   *)
find_tracker(pid) == {i \in DOMAIN trackers : trackers[i].pid = pid}

FaultyGap(t, r) == IF r.seq # t.last + 1 THEN r.seq - t.last ELSE 0     \* off by one

Gap(t, r) == IF r.seq # t.last + 1 /\ r.seq > t.last THEN r.seq - t.last - 1 ELSE 0

(* The tracker of a sender not seen before gets last_seq without a gap.    *)
Track(r) ==
    LET known == find_tracker(r.pid)
        gap == IF known = {} THEN 0 ELSE Gap(trackers[CHOOSE i \in known : TRUE], r)
    IN  /\ trackers' = IF known # {}
                       THEN [i \in DOMAIN trackers |->
                               IF i \in known THEN [trackers[i] EXCEPT !.last = r.seq]
                                              ELSE trackers[i]]
                       ELSE IF HasRoom
                       THEN Append(trackers, [pid |-> r.pid, last |-> r.seq])
                       ELSE trackers
        /\ total' = total + gap
        /\ period' = period + gap

(* recvfrom, track, write the line.                                        *)
Receive ==
    /\ up /\ wire # <<>>
    /\ wire' = Tail(wire)
    /\ Track(Head(wire))
    /\ log' = Append(log, Head(wire))
    /\ UNCHANGED <<clientVars, up, lives, since, unread>>

(* SUMMARY_INTERVAL_SEC are over.                                          *)
Summary ==
    /\ up /\ period > 0
    /\ period' = 0
    /\ UNCHANGED <<clientVars, wire, up, lives, trackers, total, log, since, unread>>

(* SIGTERM, or a log file that cannot be reopened: the socket is closed    *)
(* with what it holds.                                                     *)
Terminate ==
    /\ up
    /\ up' = FALSE
    /\ wire' = <<>>
    /\ unread' = [p \in Senders |-> unread[p] + Cardinality({i \in DOMAIN wire : wire[i].pid = p})]
    /\ UNCHANGED <<clientVars, lives, trackers, total, period, log, since>>

SenderStep(p) == DrainBegin(p) \/ DrainOne(p)

LogNext == \/ \E p \in Senders : \/ Fork(p) \/ log_client_push(p) \/ Close(p)
                                 \/ SenderStep(p) \/ Die(p)
           \/ Start \/ Receive \/ Summary \/ Terminate

LogSpec == LogInit /\ [][LogNext]_logVars

(* The master drains in every pass of its poll loop, which waits 100 ms at *)
(* most; a worker drains only while it plays, and the daemon may be down.  *)
LogLiveSpec == LogSpec /\ WF_logVars(SenderStep(Master))

-----------------------------------------------------------------------------
(* Every queue, counter and table has the shape its C type gives it, and   *)
(* no queue or table outgrows its array.                                   *)
LogTypeOK ==
    /\ pc \in [Senders -> {"unborn", "run", "drain", "close", "closed"}]
    /\ nextSeq \in [Senders -> Nat] /\ base \in [Senders -> Nat]
    /\ queue \in [Senders -> Queue(Record)]
    /\ dropped \in [Senders -> Nat] /\ budget \in [Senders -> 0..Batch]
    /\ wire \in Seq(Record) /\ up \in BOOLEAN /\ lives \in Nat
    /\ trackers \in Seq(Tracker) /\ total \in Nat /\ period \in Nat
    /\ log \in Seq(Record) /\ since \in Nat /\ unread \in [Senders -> Nat]
    /\ \A p \in Senders : Len(queue[p].items) <= QueueSize
    /\ Len(trackers) <= MaxTracked

From(records, p) == {i \in DOMAIN records : records[i].pid = p}

(* No record vanishes unnoticed: each one a process numbered is in the log *)
(* file, under way, in its queue, counted as dropped by its sender, or was *)
(* in the socket when tetrislogd stopped.                                  *)
RecordsAccounted ==
    \A p \in Senders :
      nextSeq[p] - base[p] = Cardinality(From(log, p)) + Cardinality(From(wire, p))
                             + Len(Waiting(queue[p])) + dropped[p] + unread[p]

(* The file holds each sender's records in order and none twice, across    *)
(* restarts of tetrislogd.                                                 *)
LogOrdered ==
    \A i, j \in DOMAIN log : i < j /\ log[i].pid = log[j].pid => log[i].seq < log[j].seq

(* Why it does: a drain that runs has something to send, and file, socket  *)
(* and queue hold each sender's records one after the other, all of them   *)
(* older than the next number (logclient.c:62-87).                         *)
DrainHasWork(p) == pc[p] \in {"drain", "close"} => ~q_empty(queue[p]) /\ budget[p] > 0

QueueOwn(p) ==
    \A i \in DOMAIN queue[p].items :
      queue[p].items[i].pid = p /\ queue[p].items[i].seq < nextSeq[p]

QueueOrdered(p) ==
    \A i, j \in DOMAIN queue[p].items : i < j => queue[p].items[i].seq < queue[p].items[j].seq

Before(r) ==
    /\ r.seq < nextSeq[r.pid]
    /\ \A i \in DOMAIN queue[r.pid].items :
         i > queue[r.pid].taken => r.seq < queue[r.pid].items[i].seq

SentBefore == /\ \A k \in DOMAIN wire : Before(wire[k])
              /\ \A k \in DOMAIN log : Before(log[k])

WireOrdered ==
    \A i, j \in DOMAIN wire : i < j /\ wire[i].pid = wire[j].pid => wire[i].seq < wire[j].seq

LogBeforeWire ==
    \A i \in DOMAIN log, j \in DOMAIN wire : log[i].pid = wire[j].pid => log[i].seq < wire[j].seq

LogInv ==
    /\ \A p \in Senders : /\ pc[p] = "unborn" => nextSeq[p] = 0
                          /\ DrainHasWork(p) /\ QueueOwn(p) /\ QueueOrdered(p)
    /\ SentBefore /\ WireOrdered /\ LogBeforeWire /\ LogOrdered

(* What this daemon heard of p, and what is missing in between.            *)
Heard(p) == {log[i].seq : i \in {j \in From(log, p) : j > since}}
Missing(p) == {n \in 0..MaxRecords : n \notin Heard(p) /\ \E a, b \in Heard(p) : a < n /\ n < b}
Tracked == {trackers[i].pid : i \in DOMAIN trackers}

(* tetrislogd's total is exactly the number of records missing between the *)
(* ones it wrote for the senders it tracks (tetrislogd/main.c:291-296).    *)
GapsExact == total = Cardinality(UNION {{p} \X Missing(p) : p \in Tracked})

Queued(p, n) == \E i \in DOMAIN Waiting(queue[p]) : Waiting(queue[p])[i].seq = n

(* A record of the master leaves its queue whether or not tetrislogd runs, *)
(* so a dead daemon never blocks the ones behind it (logclient.c:86).      *)
MasterDrains ==
    \A n \in 0..(MaxRecords - 1) :
      Queued(Master, n) ~> ~Queued(Master, n) \/ pc[Master] = "closed"
=============================================================================
