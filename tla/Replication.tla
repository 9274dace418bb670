---------------------------- MODULE Replication ----------------------------
(***************************************************************************)
(* Log replication (server/replication.py): the primary's two loops over   *)
(* its set of writers, its connection handlers, and the read loop of each  *)
(* backup.  Entries are the numbers 1, 2, ... in the order in which they   *)
(* are appended to the primary's log; the INIT entry comes before the      *)
(* replicator subscribes and is never sent.  A heartbeat matters here only *)
(* where it is read in place of ACK; Failover is about their timing.       *)
(*                                                                         *)
(* A loop's iteration over the set goes from one writer to the next        *)
(* without letting another coroutine run, until a drain has to wait (what  *)
(* backups and network do meanwhile commutes with the writes, so it is     *)
(* made to wait too).  Then other coroutines run, and may change the set:  *)
(* CPython's iterator raises RuntimeError at its next step if the SIZE     *)
(* changed, and that ends the task.                                        *)
(***************************************************************************)
EXTENDS Naturals, FiniteSets, SequencesExt

CONSTANTS
  Backup,
  Raising,     \* entries that apply_wal_entry cannot apply
  MaxEntries,  \* bound: entries appended
  MaxConns,    \* bound: connections ever made
  Ack, HB      \* messages that carry no entry

ASSUME ReplicationAssumption ==
  /\ MaxEntries \in Nat /\ MaxConns \in Nat
  /\ Ack \notin Nat /\ HB \notin Nat /\ Ack # HB
  /\ Raising \subseteq Nat

Conn == 1..MaxConns
Entry == 1..MaxEntries
Loop == {"broadcast", "heartbeat"}

VARIABLES
  logged,   \* number of entries appended to the primary's log
  queue,    \* PrimaryReplicator._queue
  writers,  \* PrimaryReplicator._writers
  loop,     \* the state of _broadcast_loop and _heartbeat_loop
  conn,     \* the connections, in the order of their making
  backup    \* the state of each backup

vars == <<logged, queue, writers, loop, conn, backup>>

\* members is the set as the iteration last saw it, todo what it has not reached,
\* at the writer whose drain it waits for.
Waiting == [pc |-> "waiting", msg |-> HB, members |-> {}, todo |-> {},
            at |-> {}, dead |-> {}]

Init ==
  /\ logged = 0 /\ queue = <<>> /\ writers = {}
  /\ loop = [l \in Loop |-> Waiting]
  /\ conn = <<>>
  /\ backup = [b \in Backup |-> [pc |-> "connecting", conn |-> 0, from |-> 0,
                                 log |-> <<>>]]

ReplicationTypeOK ==
  /\ logged \in 0..MaxEntries
  /\ queue \in Seq(Entry)
  /\ writers \subseteq DOMAIN conn
  /\ loop \in [Loop -> [pc : {"waiting", "running", "suspended", "dead"},
                        msg : Entry \cup {HB}, members : SUBSET Conn,
                        todo : SUBSET Conn, at : SUBSET Conn,
                        dead : SUBSET Conn]]
  /\ conn \in Seq([link : {"open", "leaked", "lost"},
                   handler : {"hello", "open", "ended"},
                   inbox : Seq(Entry \cup {Ack, HB}), since : 0..MaxEntries])
  /\ Len(conn) <= MaxConns
  /\ backup \in [Backup -> [pc : {"connecting", "handshake", "streaming"},
                            conn : 0..MaxConns, from : Nat, log : Seq(Entry)]]

\* No loop holds the primary's event loop.
Idle == \A l \in Loop : loop[l].pc # "running"

\* Before ACK only the first message counts, since the backup gives up on any
\* other than ACK; after it, heartbeats say nothing here.
Received(c, m) ==
  LET ignored == IF c.handler = "hello" THEN c.inbox # <<>> ELSE m = HB
  IN  IF ignored THEN c.inbox ELSE Append(c.inbox, m)

\* What a write does: nothing that is ever read, unless the link is open.
Sent(c, m) == IF c.link = "open" THEN [c EXCEPT !.inbox = Received(c, m)] ELSE c

Lost(n) == conn[n].link = "lost"

-----------------------------------------------------------------------------
(* The primary: appends, and the two loops. *)

\* Mutant: the queue is a stack.
LogAppendFirst ==
  /\ Idle /\ logged < MaxEntries
  /\ logged' = logged + 1
  /\ queue' = <<logged + 1>> \o queue
  /\ UNCHANGED <<writers, loop, conn, backup>>

\* Wal.append calls _on_wal, which puts the entry into the queue.
LogAppend ==
  /\ Idle /\ logged < MaxEntries
  /\ logged' = logged + 1
  /\ queue' = Append(queue, logged + 1)
  /\ UNCHANGED <<writers, loop, conn, backup>>

Round(l, m) ==
  /\ Idle /\ loop[l].pc = "waiting"
  /\ loop' = [loop EXCEPT ![l] = [Waiting EXCEPT !.pc = "running", !.msg = m,
                                    !.members = writers, !.todo = writers]]

Broadcast ==
  /\ queue # <<>>
  /\ Round("broadcast", Head(queue))
  /\ queue' = Tail(queue)
  /\ UNCHANGED <<logged, writers, conn, backup>>

Beat ==
  /\ Round("heartbeat", HB)
  /\ UNCHANGED <<logged, queue, writers, conn, backup>>

\* write_message to the next writer: it returns at once, or raises at once ...
Write(l, n) ==
  /\ loop[l].pc = "running" /\ n \in loop[l].todo
  /\ \/ /\ conn' = [conn EXCEPT ![n] = Sent(@, loop[l].msg)]
        /\ loop' = [loop EXCEPT ![l].todo = @ \ {n}]
     \/ /\ Lost(n)
        /\ loop' = [loop EXCEPT ![l].todo = @ \ {n}, ![l].dead = @ \cup {n}]
        /\ UNCHANGED conn
  /\ UNCHANGED <<logged, queue, writers, backup>>

\* Mutant: what a slow backup cannot take is dropped.
WriteOrDrop(l, n) ==
  /\ loop[l].pc = "running" /\ n \in loop[l].todo
  /\ loop' = [loop EXCEPT ![l].pc = "suspended", ![l].at = {n},
                          ![l].todo = @ \ {n}]
  /\ UNCHANGED <<logged, queue, writers, conn, backup>>

\* ... or its drain waits: the buffer is full, or the transport is closing.
WriteWaits(l, n) ==
  /\ loop[l].pc = "running" /\ n \in loop[l].todo
  /\ conn' = [conn EXCEPT ![n] = Sent(@, loop[l].msg)]
  /\ loop' = [loop EXCEPT ![l].pc = "suspended", ![l].at = {n},
                          ![l].todo = @ \ {n}]
  /\ UNCHANGED <<logged, queue, writers, backup>>

SizeChanged(l) == Cardinality(writers) # Cardinality(loop[l].members)

\* Mutant: a drain that had to wait counts as failed.
ResumeImpatient(l) ==
  /\ Idle /\ loop[l].pc = "suspended" /\ ~SizeChanged(l)
  /\ \E new \in SUBSET (writers \ loop[l].members) :
       loop' = [loop EXCEPT ![l].pc = "running", ![l].at = {},
                            ![l].members = writers,
                            ![l].todo = (@ \cap writers) \cup new,
                            ![l].dead = @ \cup loop[l].at]
  /\ UNCHANGED <<logged, queue, writers, conn, backup>>

\* The drain returns, or raises if the connection is lost.  After a swap that
\* kept the size, the iteration may come past the new writer or not.
Resume(l) ==
  /\ Idle /\ loop[l].pc = "suspended" /\ ~SizeChanged(l)
  /\ \E new \in SUBSET (writers \ loop[l].members),
        failed \in SUBSET {n \in loop[l].at : Lost(n)} :
       loop' = [loop EXCEPT ![l].pc = "running", ![l].at = {},
                            ![l].members = writers,
                            ![l].todo = (@ \cap writers) \cup new,
                            ![l].dead = @ \cup failed]
  /\ UNCHANGED <<logged, queue, writers, conn, backup>>

\* "Set changed size during iteration": nobody awaits the task.
Die(l) ==
  /\ Idle /\ loop[l].pc = "suspended" /\ SizeChanged(l)
  /\ loop' = [loop EXCEPT ![l] = [Waiting EXCEPT !.pc = "dead"]]
  /\ UNCHANGED <<logged, queue, writers, conn, backup>>

RoundEnds(l) ==
  /\ loop[l].pc = "running" /\ loop[l].todo = {}
  /\ writers' = writers \ loop[l].dead
  /\ loop' = [loop EXCEPT ![l] = Waiting]
  /\ UNCHANGED <<logged, queue, conn, backup>>

LoopStep(l) ==
  \/ \E n \in DOMAIN conn : Write(l, n) \/ WriteWaits(l, n)
  \/ Resume(l) \/ Die(l) \/ RoundEnds(l)

-----------------------------------------------------------------------------
(* Connections: _handle_backup on one side, BackupReplicator.run on the      *)
(* other.  The backup has sent HELLO when the handler reads it.              *)

Connect(b) ==
  /\ Idle /\ backup[b].pc = "connecting" /\ Len(conn) < MaxConns
  /\ conn' = Append(conn, [link |-> "open", handler |-> "hello", inbox |-> <<>>,
                           since |-> logged - Len(queue)])
  /\ writers' = writers \cup {Len(conn) + 1}
  /\ backup' = [backup EXCEPT ![b].pc = "handshake", ![b].conn = Len(conn) + 1]
  /\ UNCHANGED <<logged, queue, loop>>

\* HELLO is read and answered; the handler then sleeps for ever.
Acknowledge(n) ==
  /\ Idle /\ conn[n].handler = "hello"
  /\ conn' = [conn EXCEPT ![n] = [Sent(@, Ack) EXCEPT !.handler = "open"]]
  /\ UNCHANGED <<logged, queue, writers, loop, backup>>

HandlerFails(n) ==
  /\ Idle /\ conn[n].handler = "hello" /\ Lost(n)
  /\ conn' = [conn EXCEPT ![n].handler = "ended"]
  /\ writers' = writers \ {n}
  /\ UNCHANGED <<logged, queue, loop, backup>>

\* The connection breaks, and with it some of what was under way.
Lose(n) ==
  /\ Idle /\ ~Lost(n)
  /\ \E k \in 0..Len(conn[n].inbox) :
       conn' = [conn EXCEPT ![n].link = "lost", ![n].inbox = SubSeq(@, 1, k),
                           ![n].since = 0]
  /\ UNCHANGED <<logged, queue, writers, loop, backup>>

Inbox(b) == conn[backup[b].conn].inbox

Take(b) == conn' = [conn EXCEPT ![backup[b].conn].inbox = Tail(@)]

\* The backup reads no more from its connection, which goes on as link says.
Left(b, link) ==
  conn' = [conn EXCEPT ![backup[b].conn] = [@ EXCEPT !.link = link,
                                              !.inbox = <<>>, !.since = 0]]

Alone(record) == [record EXCEPT !.pc = "connecting", !.conn = 0, !.from = 0]

ReadAck(b) ==
  /\ Idle /\ backup[b].pc = "handshake" /\ Inbox(b) # <<>>
  /\ Head(Inbox(b)) = Ack
  /\ Take(b)
  /\ backup' = [backup EXCEPT ![b].pc = "streaming",
                              ![b].from = Len(backup[b].log)]
  /\ UNCHANGED <<logged, queue, writers, loop>>

\* Anything but ACK ends the attempt, and nobody closes the connection.
BadAck(b) ==
  /\ Idle /\ backup[b].pc = "handshake" /\ Inbox(b) # <<>>
  /\ Head(Inbox(b)) # Ack
  /\ Left(b, IF Lost(backup[b].conn) THEN "lost" ELSE "leaked")
  /\ backup' = [backup EXCEPT ![b] = Alone(@)]
  /\ UNCHANGED <<logged, queue, writers, loop>>

\* The entry is persisted, then applied ...
ReadEntry(b) ==
  /\ Idle /\ backup[b].pc = "streaming" /\ Inbox(b) # <<>>
  /\ Head(Inbox(b)) \in Entry \ Raising
  /\ Take(b)
  /\ backup' = [backup EXCEPT ![b].log = Append(@, Head(Inbox(b)))]
  /\ UNCHANGED <<logged, queue, writers, loop>>

\* ... if that raises, it stays persisted, and the connection is closed.
ReadRaisingEntry(b) ==
  /\ Idle /\ backup[b].pc = "streaming" /\ Inbox(b) # <<>>
  /\ Head(Inbox(b)) \in Raising
  /\ Left(b, "lost")
  /\ backup' = [backup EXCEPT ![b] =
                   [Alone(backup[b]) EXCEPT !.log = Append(@, Head(Inbox(b)))]]
  /\ UNCHANGED <<logged, queue, writers, loop>>

\* read_message raises at the end of the stream.
NoticeLoss(b) ==
  /\ Idle /\ backup[b].pc # "connecting" /\ Inbox(b) = <<>>
  /\ Lost(backup[b].conn)
  /\ Left(b, "lost")
  /\ backup' = [backup EXCEPT ![b] = Alone(@)]
  /\ UNCHANGED <<logged, queue, writers, loop>>

-----------------------------------------------------------------------------
PrimaryStep ==
  \/ LogAppend \/ Broadcast \/ Beat
  \/ \E l \in Loop : LoopStep(l)
  \/ \E n \in DOMAIN conn : Acknowledge(n) \/ HandlerFails(n)

BackupStep(b) ==
  \/ Connect(b) \/ ReadAck(b) \/ BadAck(b) \/ NoticeLoss(b)
  \/ ReadEntry(b) \/ ReadRaisingEntry(b)

Next ==
  \/ PrimaryStep
  \/ \E b \in Backup : BackupStep(b)
  \/ \E n \in DOMAIN conn : Lose(n)

\* The event loop serves in turn whoever is ready between two rounds, so what
\* is ready again and again runs (SF); drains return; connections need not
\* break, and nobody need append, connect or beat.
Fairness ==
  /\ SF_vars(Broadcast)
  /\ \A l \in Loop : SF_vars(LoopStep(l))
  /\ \A b \in Backup :
       /\ SF_vars(ReadAck(b) \/ BadAck(b)) /\ SF_vars(NoticeLoss(b))
       /\ SF_vars(ReadEntry(b) \/ ReadRaisingEntry(b))

ReplicationSpec == Init /\ [][Next]_vars

FairReplicationSpec == ReplicationSpec /\ Fairness

-----------------------------------------------------------------------------
(* What replication promises. *)

\* The detailed system implements the abstract one: every backup's log copies
\* entries in the primary's order, whatever breaks and reconnects.
Shipping == INSTANCE LogShipping WITH copy <- [b \in Backup |-> backup[b].log]

ImplementsLogShipping == Shipping!ShippingSpec

Live(b) == backup[b].pc # "connecting" /\ ~Lost(backup[b].conn)

\* ACK has been read, or will be.
Accepted(b) ==
  /\ Live(b)
  /\ \/ backup[b].pc = "streaming"
     \/ Inbox(b) # <<>> /\ Head(Inbox(b)) = Ack

\* The entries a connection has carried: read since ACK, or under way.
Carried(b) ==
  LET read == SubSeq(backup[b].log, backup[b].from + 1, Len(backup[b].log))
  IN  IF backup[b].pc = "streaming" THEN read \o Inbox(b) ELSE Tail(Inbox(b))

\* A connection has no gaps: between two rounds of the broadcast loop it has
\* carried every entry taken from the queue since it was made, or from the
\* round that was under way then.
ConnectedMissNothing ==
  \A b \in Backup :
    Accepted(b) /\ loop["broadcast"].pc = "waiting" =>
      LET since == conn[backup[b].conn].since
          sent  == logged - Len(queue)
          After(k) == [i \in 1..(sent - k) |-> k + i]
      IN  Carried(b) \in {After(since), After(since - 1)}

\* A backup whose connection stands is never dropped from the set.
LiveBackupIsServed == \A b \in Backup : Live(b) => backup[b].conn \in writers

\* src/docs/DESIGN.md:109: "Broadcasts each newly appended WAL entry to all
\* connected backups."  A backup that streams gets what is queued, or loses
\* its connection.
EntriesReachBackups ==
  \A b \in Backup, e \in Entry :
    Live(b) /\ backup[b].pc = "streaming" /\ Contains(queue, e)
      ~> Contains(backup[b].log, e) \/ ~Live(b)
=============================================================================
